------------------------------- MODULE Logger -------------------------------
(***************************************************************************)
(* Logger (logging.h, logging.cpp): any thread appends messages to msg_    *)
(* under mut_; a background thread swaps msg_ away and writes it to fd_,   *)
(* which is stdout, or a log file that is rotated.                         *)
(*                                                                         *)
(* A message is a pair of bytes, so that a write may end in the middle of  *)
(* one.  The messages are those that pass the level test of logv.  The     *)
(* sections under mut_ are single steps.                                   *)
(***************************************************************************)
EXTENDS Integers, Sequences

CONSTANTS
    Msgs,           \* the messages that are logged, once each
    FLUSH_SIZE,     \* bytes from which append notifies
    MaxFiles,       \* bound on the number of log files opened
    SwitchLate      \* switchToFileLog() may be called while threads log

ASSUME LoggerAssumption == FLUSH_SIZE \in Nat /\ MaxFiles \in Nat /\ SwitchLate \in BOOLEAN

VARIABLES
    msg,            \* msg_
    local,          \* flush's msg: what is left to write
    pc,             \* the background thread
    stopLogging,    \* stopLogging_
    isfilelog,      \* isfilelog_
    fd,             \* what fd_ writes to: 0 is stdout, 1.. are log files
    switching,      \* switchToFileLog: "no", "opened" (fd_ is set), "done"
    dtor,           \* ~Logger: "no", "join", "done"
    stream,         \* every byte written, with the file it went to
    appended,       \* every byte appended
    due             \* how many of them had been when ~Logger began

fileVars == <<isfilelog, fd, switching>>
dtorVars == <<dtor, due, stopLogging>>
vars == <<msg, local, pc, fileVars, dtorVars, stream, appended>>

Init ==
    /\ msg = <<>> /\ local = <<>> /\ appended = <<>> /\ stream = <<>>
    /\ pc = "while"
    /\ stopLogging = FALSE /\ isfilelog = FALSE
    /\ fd = 0 /\ switching = "no"
    /\ dtor = "no" /\ due = 0

Logged(m) == \E i \in DOMAIN appended : appended[i][1] = m

(***************************************************************************)
(* Logger::append, with logv and ~LogStream that call it                   *)
(***************************************************************************)
Append2(s, m) == s \o <<<<m, 1>>, <<m, 2>>>>

NotifyOne(n) == pc' = IF pc = "waiting" /\ n THEN "test" ELSE pc

AppendMsg(m) ==
    /\ ~Logged(m) /\ dtor # "done"
    /\ msg' = Append2(msg, m)
    /\ appended' = Append2(appended, m)
    /\ NotifyOne(Len(msg') >= FLUSH_SIZE)
    /\ UNCHANGED <<local, fileVars, dtorVars, stream>>

(***************************************************************************)
(* Logger::flush, the background thread                                    *)
(***************************************************************************)
FlushFrame == UNCHANGED <<dtorVars, appended>>

WhileTest ==
    /\ pc = "while"
    /\ pc' = IF stopLogging THEN "end" ELSE "rotate"
    /\ FlushFrame /\ UNCHANGED <<msg, local, fileVars, stream>>

\* tryRotate opens a new file when the old one is too old or too large.
TryRotate ==
    /\ pc = "rotate"
    /\ pc' = "test"
    /\ \/ UNCHANGED fd
       \/ isfilelog /\ fd < MaxFiles /\ fd' = fd + 1
    /\ FlushFrame /\ UNCHANGED <<msg, local, isfilelog, switching, stream>>

\* Bug variant: the flag is not part of the condition.
WaitTestEmpty ==
    /\ pc = "test"
    /\ pc' = IF msg = <<>> THEN "waiting" ELSE "swap"
    /\ FlushFrame /\ UNCHANGED <<msg, local, fileVars, stream>>

WaitTest ==
    /\ pc = "test"
    /\ pc' = IF msg = <<>> /\ ~stopLogging THEN "waiting" ELSE "swap"
    /\ FlushFrame /\ UNCHANGED <<msg, local, fileVars, stream>>

\* Bug variant: cv_.wait() instead of wait_for().
WaitForever == FALSE /\ UNCHANGED vars

\* wait_for returns after FLUSH_INTERVAL.
WaitTimeout ==
    /\ pc = "waiting"
    /\ pc' = "test"
    /\ FlushFrame /\ UNCHANGED <<msg, local, fileVars, stream>>

Swap ==
    /\ pc = "swap"
    /\ pc' = "write"
    /\ local' = msg /\ msg' = <<>>
    /\ FlushFrame /\ UNCHANGED <<fileVars, stream>>

\* write(2) may take less than all; an error is tried again.
\* Bug variant: the rest is dropped.
WriteOnce ==
    /\ pc = "write" /\ local # <<>>
    /\ \E n \in 1..Len(local) :
         stream' = stream \o [i \in 1..n |-> <<local[i], fd>>]
    /\ local' = <<>>
    /\ FlushFrame /\ UNCHANGED <<pc, msg, fileVars>>

Write ==
    /\ pc = "write" /\ local # <<>>
    /\ \E n \in 1..Len(local) :
         /\ stream' = stream \o [i \in 1..n |-> <<local[i], fd>>]
         /\ local' = SubSeq(local, n + 1, Len(local))
    /\ FlushFrame /\ UNCHANGED <<pc, msg, fileVars>>

\* Bug variant: rotation in the middle of a batch.
WriteDoneEarly ==
    /\ pc = "write"
    /\ pc' = IF local = <<>> THEN "while" ELSE pc
    /\ \/ UNCHANGED fd
       \/ isfilelog /\ fd < MaxFiles /\ fd' = fd + 1
    /\ FlushFrame /\ UNCHANGED <<msg, local, isfilelog, switching, stream>>

WriteDone ==
    /\ pc = "write" /\ local = <<>>
    /\ pc' = "while"
    /\ FlushFrame /\ UNCHANGED <<msg, local, fileVars, stream>>

(***************************************************************************)
(* Logger::switchToFileLog, in a thread of the program: the new descriptor *)
(* first, then the flag.  Without SwitchLate, before anything is logged.   *)
(***************************************************************************)
SwitchOpen ==
    /\ switching = "no" /\ dtor = "no" /\ fd = 0 /\ MaxFiles > 0
    /\ SwitchLate \/ appended = <<>>
    /\ fd' = 1
    /\ switching' = "opened"
    /\ UNCHANGED <<msg, local, pc, isfilelog, dtorVars, stream, appended>>

SwitchDone ==
    /\ switching = "opened"
    /\ isfilelog' = TRUE
    /\ switching' = "done"
    /\ UNCHANGED <<msg, local, pc, fd, dtorVars, stream, appended>>

(***************************************************************************)
(* Logger::~Logger, also called by exit_if                                 *)
(***************************************************************************)
Destroy ==
    /\ dtor = "no" /\ switching # "opened"
    /\ due' = Len(appended)
    /\ stopLogging' = TRUE
    /\ dtor' = "join"
    /\ NotifyOne(TRUE)
    /\ UNCHANGED <<msg, local, fileVars, stream, appended>>

Joined ==
    /\ dtor = "join" /\ pc = "end"
    /\ dtor' = "done"
    /\ UNCHANGED <<msg, local, pc, fileVars, stopLogging, due, stream, appended>>

-----------------------------------------------------------------------------
Flush == WhileTest \/ TryRotate \/ WaitTest \/ WaitTimeout \/ Swap \/ Write \/ WriteDone

Next ==
    \/ \E m \in Msgs : AppendMsg(m)
    \/ Flush
    \/ SwitchOpen \/ SwitchDone
    \/ Destroy \/ Joined

Spec == Init /\ [][Next]_vars

\* The background thread keeps running, its wait times out, and write(2) takes
\* something in the end; a destructor that joins it keeps joining.
FairSpec == Spec /\ WF_vars(Flush) /\ WF_vars(Joined)

-----------------------------------------------------------------------------
(***************************************************************************)
(* Properties                                                              *)
(***************************************************************************)

\* The log is what was appended, in that order, through every swap, partial
\* write and change of file: nothing is lost or doubled on the way.
NothingLost == [i \in DOMAIN stream |-> stream[i][1]] \o local \o msg = appended

\* A message is not torn between two files: files change between batches.
InOneFile ==
    \A i \in 1..(Len(stream) - 1) :
      stream[i][1][1] = stream[i + 1][1][1] => stream[i][2] = stream[i + 1][2]

\* A message is written, however small and with nothing logged after it, unless
\* the logger is destroyed first.
Written(m) == \E i \in DOMAIN stream : stream[i][1] = <<m, 2>>

MessageIsWritten == \A m \in Msgs : Logged(m) ~> (Written(m) \/ stopLogging)

\* ~Logger returns: stopLogging_ and notify reach the background thread wherever
\* it is, in its wait too, and it leaves its loop after a last round at most.
DtorReturns == (dtor = "join") ~> (dtor = "done")

\* What was logged before ~Logger is written when it returns, exit_if's own message
\* too (logging.h:37: the logger is destroyed before the exit to be sure that the
\* logs are flushed).
DtorFlushes == dtor = "done" => Len(stream) >= due
=============================================================================
