------------------------------- MODULE Buffer -------------------------------
(***************************************************************************)
(* miniduo::Buffer (buffer.h, buffer.cpp): one vector<char> split by two   *)
(* indices into prependable, readable and writable bytes.  Indices are     *)
(* size_t, so every subtraction wraps modulo SizeMax.                      *)
(*                                                                         *)
(* An assert() the caller is responsible for is the guard of the           *)
(* operation; one that checks Buffer's own work raises failed, and a copy  *)
(* past the end of the vector raises outOfBounds.  After either of them    *)
(* the buffer is not used any more.                                        *)
(***************************************************************************)
EXTENDS Integers, Sequences

CONSTANTS
    Byte,               \* the values of a char; Zero is what resize() fills in
    Zero,
    kCheapPrepend,
    kInitialSize,
    ExtraBuf,           \* sizeof extrabuf in readFd
    SizeMax,            \* SIZE_MAX + 1
    MaxSize,            \* bound on buffer_.size()
    MaxLen,             \* bound on the length of one append, prepend or shrink
    Uses                \* what the users of the buffer do, see use

ASSUME SizeAssumption ==
    /\ kCheapPrepend \in Nat /\ kInitialSize \in Nat /\ ExtraBuf \in Nat
    /\ SizeMax \in Nat /\ MaxSize \in Nat /\ MaxLen \in Nat
    /\ kCheapPrepend + kInitialSize <= MaxSize
    /\ 2 * MaxSize + MaxLen + ExtraBuf < SizeMax

ASSUME ByteAssumption == Zero \in Byte /\ Uses \subseteq {"whole", "parts", "all"}

VARIABLES
    use,                \* fixed: "whole": the user always takes all the data;
                        \* "parts": or parts of it; "all": and calls prepend and shrink
    b,                  \* [size, cell, r, w]: buffer_.size(), its chars, the two indices
    failed,             \* one of Buffer's own assertions failed
    outOfBounds,        \* a copy wrote outside buffer_
    last                \* what the last operation put in or took out (history)

vars == <<use, b, failed, outOfBounds, last>>

Data == UNION {[1..n -> Byte] : n \in 0..MaxLen}
Minus(x, y) == (x - y) % SizeMax
Plus(x, y) == (x + y) % SizeMax

ReadableBytes(x) == Minus(x.w, x.r)
WritableBytes(x) == Minus(x.size, x.w)
PrependableBytes(x) == x.r

Cells == UNION {[0..(n - 1) -> Byte] : n \in 0..MaxSize}

IsBuffer(x) ==
    /\ x \in [size : 0..MaxSize, cell : Cells, r : 0..(SizeMax - 1), w : 0..(SizeMax - 1)]
    /\ DOMAIN x.cell = 0..(x.size - 1)

\* Types: the chars are exactly those of the vector, and the indices size_t.
TypeOK ==
    /\ use \in Uses
    /\ IsBuffer(b)
    /\ failed \in BOOLEAN /\ outOfBounds \in BOOLEAN /\ last \in Seq(Byte)

Buf(size, cell, r, w) == [size |-> size, cell |-> cell, r |-> r, w |-> w]

Zeros(n) == [i \in 0..(n - 1) |-> Zero]

NewBuffer ==
    Buf(kCheapPrepend + kInitialSize, Zeros(kCheapPrepend + kInitialSize),
        kCheapPrepend, kCheapPrepend)

Init ==
    /\ use \in Uses
    /\ b = NewBuffer /\ failed = FALSE /\ outOfBounds = FALSE /\ last = <<>>

\* std::copy of the bytes s to cells at, at + 1, ...: those inside the vector.
CopyTo(cell, at, s) ==
    [i \in DOMAIN cell |-> IF i >= at /\ i < at + Len(s) THEN s[i - at + 1] ELSE cell[i]]

PastEnd(x, at, len) == at + len > x.size

(***************************************************************************)
(* makeSpace(len): nothing, move the data down, or grow the vector.        *)
(***************************************************************************)
\* Bug variant: the size is compared, not what is left of it.
EnoughInAll(x, len) == x.size >= len

Enough(x, len) == WritableBytes(x) >= len

Movable(x, len) ==
    Plus(Minus(PrependableBytes(x), kCheapPrepend), WritableBytes(x)) >= len

Moves(x, len) == ~Enough(x, len) /\ Movable(x, len)

\* The copy is of [begin(), beginWrite()).
Move(x) ==
    Buf(x.size, CopyTo(x.cell, kCheapPrepend, [i \in 1..x.w |-> x.cell[i - 1]]),
        kCheapPrepend, Plus(kCheapPrepend, ReadableBytes(x)))

Resized(cell, size, n) == [i \in 0..(n - 1) |-> IF i < size THEN cell[i] ELSE Zero]

Grow(x, len) == Buf(x.w + len, Resized(x.cell, x.size, x.w + len), x.r, x.w)

MakeSpace(x, len) ==
    IF Enough(x, len) THEN x
    ELSE IF Movable(x, len) THEN Move(x) ELSE Grow(x, len)

MoveOutOfBounds(x, len) == Moves(x, len) /\ PastEnd(x, kCheapPrepend, x.w)

(***************************************************************************)
(* append(data, len)                                                       *)
(***************************************************************************)
\* Bug variant: writerIndex_ is not advanced.
WriteToStay(x, s) == Buf(x.size, CopyTo(x.cell, x.w, s), x.r, x.w)

\* s is written at beginWrite() and becomes readable.
WriteTo(x, s) == Buf(x.size, CopyTo(x.cell, x.w, s), x.r, Plus(x.w, Len(s)))

DoAppend(x, s) ==
    LET m == MakeSpace(x, Len(s)) IN
    /\ m.size <= MaxSize
    /\ b' = WriteTo(m, s)
    /\ failed' = (WritableBytes(m) < Len(s))
    /\ outOfBounds' = (MoveOutOfBounds(x, Len(s)) \/ PastEnd(m, m.w, Len(s)))

AppendData(s) == DoAppend(b, s) /\ last' = s

(***************************************************************************)
(* readFd: readv into the writable bytes and, past them, into extrabuf,    *)
(* which is then appended.  s is what the kernel delivered; nothing        *)
(* changes when it delivers nothing or an error.                           *)
(***************************************************************************)
ReadFd(s) ==
    LET writable == WritableBytes(b) IN
    /\ Len(s) <= writable + ExtraBuf
    /\ IF Len(s) <= writable
         THEN /\ b' = WriteTo(b, s)
              /\ UNCHANGED <<failed, outOfBounds>>
         ELSE DoAppend(Buf(b.size, CopyTo(b.cell, b.w, SubSeq(s, 1, writable)), b.r, b.size),
                       SubSeq(s, writable + 1, Len(s)))
    /\ last' = s

ReserveSpace(len) ==                             \* makeSpace called by the user
    LET m == MakeSpace(b, len) IN
    /\ m.size <= MaxSize
    /\ b' = m
    /\ failed' = (WritableBytes(m) < len)
    /\ outOfBounds' = MoveOutOfBounds(b, len)
    /\ last' = <<>>

HasWritten(s) ==                                 \* the user filled beginWrite() with s
    /\ Len(s) <= WritableBytes(b)
    /\ b' = WriteTo(b, s)
    /\ last' = s
    /\ UNCHANGED <<failed, outOfBounds>>

(***************************************************************************)
(* retrieve, retrieveUntil, retrieveAll, retrieveAsString                  *)
(***************************************************************************)
Readable(x) == [i \in 1..ReadableBytes(x) |-> x.cell[x.r + i - 1]]

\* Bug variant: the room for prepending is forgotten.
ResetToBegin(x) == Buf(x.size, x.cell, 0, 0)

Reset(x) == Buf(x.size, x.cell, kCheapPrepend, kCheapPrepend)

\* Bug variant: what is asked for is not compared with what is there.
RetrieveUnchecked(n) ==
    /\ b' = Buf(b.size, b.cell, Plus(b.r, n), b.w)
    /\ last' = <<>>
    /\ UNCHANGED <<failed, outOfBounds>>

Retrieve(n) ==
    /\ ReadableBytes(b) >= n
    /\ b' = IF Plus(b.r, n) = b.w THEN Reset(b) ELSE Buf(b.size, b.cell, Plus(b.r, n), b.w)
    /\ last' = SubSeq(Readable(b), 1, n)
    /\ UNCHANGED <<failed, outOfBounds>>

RetrieveAll == b' = Reset(b) /\ last' = Readable(b) /\ UNCHANGED <<failed, outOfBounds>>

Prepend(s) ==
    /\ PrependableBytes(b) >= Len(s)
    /\ b' = Buf(b.size, CopyTo(b.cell, b.r - Len(s), s), b.r - Len(s), b.w)
    /\ last' = s
    /\ UNCHANGED <<failed, outOfBounds>>

\* The new vector holds the readable bytes at kCheapPrepend; the indices stay.
Shrink(reserve) ==
    LET size == kCheapPrepend + ReadableBytes(b) + reserve IN
    LET x == Buf(size, CopyTo(Zeros(size), kCheapPrepend, Readable(b)), b.r, b.w) IN
    /\ size <= MaxSize
    /\ b' = x
    /\ failed' = (WritableBytes(x) # reserve)
    /\ last' = <<>>
    /\ UNCHANGED outOfBounds

-----------------------------------------------------------------------------
Intact == ~failed /\ ~outOfBounds

Next ==
    \/ /\ Intact
       /\ \/ \E s \in Data : AppendData(s) \/ ReadFd(s) \/ HasWritten(s)
          \/ \E n \in 0..MaxLen : ReserveSpace(n)
          \/ RetrieveAll
          \/ use # "whole" /\ \E n \in 0..MaxSize : Retrieve(n)
          \/ use = "all" /\ ((\E s \in Data : Prepend(s)) \/ (\E n \in 0..MaxLen : Shrink(n)))
       /\ UNCHANGED use
    \/ ~Intact /\ UNCHANGED vars

Spec == Init /\ [][Next]_vars

-----------------------------------------------------------------------------
(***************************************************************************)
(* Properties                                                              *)
(***************************************************************************)

\* Without prepend and shrink the indices stay in order and inside the vector:
\* "readable" and "writable" never wrap around, whatever the sequence of appends,
\* reads and retrievals.
IndicesOrdered ==
    use # "all" => kCheapPrepend <= b.r /\ b.r <= b.w /\ b.w <= b.size

\* The buffer is well typed, and with prepend and shrink too, the indices stay in
\* order and inside the vector for as long as no assertion failed and no copy left
\* the vector.
IndicesInside == TypeOK /\ (Intact => b.r <= b.w /\ b.w <= b.size)

\* Buffer's own assertions (buffer.cpp:80, :152) hold without prepend and shrink,
\* and while the data is always taken whole no copy leaves the vector either.
StaysIntact == (use # "all" => ~failed) /\ (use = "whole" => ~outOfBounds)

\* While the data is always taken whole, the readable bytes behave as a queue of
\* bytes.
Whole(s) == IF use = "whole" THEN s ELSE <<>>
WholeQueue == INSTANCE ByteQueue WITH content <- Whole(Readable(b)), last <- Whole(last)
ImplementsByteQueue == WholeQueue!Spec

\* The readable bytes behave as a queue of bytes whatever the user does.
Queue == INSTANCE ByteQueue WITH content <- Readable(b)
AlwaysByteQueue == Queue!Spec
=============================================================================
