----------------------------- MODULE ByteQueue -----------------------------
(***************************************************************************)
(* What the users of Buffer rely on: a queue of bytes.  Data is added at   *)
(* the end (append, readFd, hasWritten), taken from the front (retrieve    *)
(* and its variants) or put in front (prepend).                            *)
(***************************************************************************)
EXTENDS Sequences

CONSTANT Byte

VARIABLES
    content,            \* the bytes in the queue
    last                \* the bytes the last operation put in or took out

vars == <<content, last>>

TypeOK == content \in Seq(Byte) /\ last \in Seq(Byte)

Init == content = <<>> /\ last = <<>>

AddBack == content' = content \o last'

AddFront == content' = last' \o content

TakeFront == content = last' \o content'

Next == AddBack \/ AddFront \/ TakeFront

Spec == Init /\ [][Next]_vars
=============================================================================
