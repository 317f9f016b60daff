---------------------------- MODULE LoggerProofs ----------------------------
(***************************************************************************)
(* Logger loses, doubles and reorders nothing between append and write(2), *)
(* and never tears a message between two files, for any set of messages,   *)
(* any FLUSH_SIZE and any number of files.                                 *)
(***************************************************************************)
EXTENDS Logger, SequenceTheorems, TLAPS

USE LoggerAssumption

Byte == Msgs \X {1, 2}
Written2 == Byte \X Nat                 \* a byte in the log, with its file

TypeOK ==
    /\ msg \in Seq(Byte) /\ local \in Seq(Byte) /\ appended \in Seq(Byte)
    /\ stream \in Seq(Written2)
    /\ pc \in {"while", "rotate", "test", "waiting", "swap", "write", "end"}
    /\ fd \in Nat

\* What has been written, without the files.
Bytes(s) == [i \in DOMAIN s |-> s[i][1]]

\* flush holds bytes of its own only while it writes.
FlushInv == TypeOK /\ (pc # "write" => local = <<>>) /\ NothingLost

LEMMA BytesType ==
    ASSUME NEW s \in Seq(Written2)
    PROVE  Bytes(s) \in Seq(Byte) /\ Len(Bytes(s)) = Len(s) /\ \A i \in 1..Len(s) : Bytes(s)[i] = s[i][1]
<1>1. \A i \in 1..Len(s) : s[i][1] \in Byte
  BY DEF Written2
<1>2. Bytes(s) \in [1..Len(s) -> Byte] /\ Len(s) \in Nat
  BY <1>1 DEF Bytes
<1>3. QED
  BY <1>2 DEF Bytes

LEMMA Append2Type ==
    ASSUME NEW s \in Seq(Byte), NEW m \in Msgs
    PROVE  /\ Append2(s, m) \in Seq(Byte) /\ Len(Append2(s, m)) = Len(s) + 2
           /\ \A i \in 1..Len(s) : Append2(s, m)[i] = s[i]
           /\ Append2(s, m)[Len(s) + 1] = <<m, 1>> /\ Append2(s, m)[Len(s) + 2] = <<m, 2>>
<1> DEFINE t == <<<<m, 1>>, <<m, 2>>>>
<1>1. t \in Seq(Byte) /\ Len(t) = 2 /\ t[1] = <<m, 1>> /\ t[2] = <<m, 2>>
  BY DEF Byte
<1> HIDE DEF t
<1>2. Append2(s, m) = s \o t
  BY DEF Append2, t
<1>3. Len(s) \in Nat
  OBVIOUS
<1>4. /\ s \o t \in Seq(Byte) /\ Len(s \o t) = Len(s) + 2
      /\ \A i \in 1..(Len(s) + 2) : (s \o t)[i] = IF i <= Len(s) THEN s[i] ELSE t[i - Len(s)]
  <2>1. /\ s \o t \in Seq(Byte) /\ Len(s \o t) = Len(s) + Len(t)
        /\ \A i \in 1..(Len(s) + Len(t)) : (s \o t)[i] = IF i <= Len(s) THEN s[i] ELSE t[i - Len(s)]
    BY <1>1, ConcatProperties
  <2>2. QED
    BY <1>1, <2>1
<1>5. (s \o t)[Len(s) + 1] = t[1] /\ (s \o t)[Len(s) + 2] = t[2]
  BY <1>3, <1>4
<1>6. QED
  BY <1>1, <1>2, <1>3, <1>4, <1>5

LEMMA Assoc ==
    ASSUME NEW s \in Seq(Byte), NEW t \in Seq(Byte), NEW u \in Seq(Byte)
    PROVE  (s \o t) \o u = s \o (t \o u)
  BY ConcatAssociative

\* Bytes goes through concatenation.
LEMMA BytesConcat ==
    ASSUME NEW s \in Seq(Written2), NEW t \in Seq(Written2)
    PROVE  Bytes(s \o t) = Bytes(s) \o Bytes(t)
<1>1. /\ s \o t \in Seq(Written2) /\ Len(s \o t) = Len(s) + Len(t)
      /\ \A i \in 1..(Len(s) + Len(t)) : (s \o t)[i] = IF i <= Len(s) THEN s[i] ELSE t[i - Len(s)]
  BY ConcatProperties
<1> DEFINE u == s \o t  a == Bytes(s)  c == Bytes(t)
<1>2. /\ a \in Seq(Byte) /\ Len(a) = Len(s) /\ \A i \in 1..Len(s) : a[i] = s[i][1]
      /\ c \in Seq(Byte) /\ Len(c) = Len(t) /\ \A i \in 1..Len(t) : c[i] = t[i][1]
  BY BytesType
<1> HIDE DEF u, a, c
<1>3. /\ Bytes(u) \in Seq(Byte) /\ Len(Bytes(u)) = Len(s) + Len(t)
      /\ \A i \in 1..(Len(s) + Len(t)) : Bytes(u)[i] = u[i][1]
  BY <1>1, BytesType DEF u
<1>4. /\ a \o c \in Seq(Byte) /\ Len(a \o c) = Len(s) + Len(t)
      /\ \A i \in 1..(Len(s) + Len(t)) : (a \o c)[i] = IF i <= Len(s) THEN a[i] ELSE c[i - Len(s)]
  <2>1. /\ a \o c \in Seq(Byte) /\ Len(a \o c) = Len(a) + Len(c)
        /\ \A i \in 1..(Len(a) + Len(c)) : (a \o c)[i] = IF i <= Len(a) THEN a[i] ELSE c[i - Len(a)]
    <3>1. a \in Seq(Byte) /\ c \in Seq(Byte)
      BY <1>2
    <3>2. QED
      BY <3>1, ConcatProperties
  <2>2. QED
    BY <1>2, <2>1
<1>5. ASSUME NEW i \in 1..(Len(s) + Len(t)) PROVE Bytes(u)[i] = (a \o c)[i]
  <2>0. Len(s) \in Nat /\ Len(t) \in Nat
    OBVIOUS
  <2>1. CASE i <= Len(s)
    BY <1>1, <1>2, <1>3, <1>4, <2>0, <2>1 DEF u
  <2>2. CASE ~(i <= Len(s))
    <3>1. i - Len(s) \in 1..Len(t)
      BY <2>0, <2>2
    <3>2. QED
      BY <1>1, <1>2, <1>3, <1>4, <2>2, <3>1 DEF u
  <2>3. QED
    BY <2>1, <2>2
<1>6. Bytes(u) = a \o c
  BY <1>3, <1>4, <1>5, SeqEqual
<1>7. QED
  BY <1>6 DEF u, a, c

\* A batch is what was written of it and what is left.
LEMMA SplitBatch ==
    ASSUME NEW s \in Seq(Byte), NEW n \in 1..Len(s),
           NEW head \in Seq(Written2), Len(head) = n, \A i \in 1..n : head[i][1] = s[i]
    PROVE  /\ SubSeq(s, n + 1, Len(s)) \in Seq(Byte)
           /\ Bytes(head) \o SubSeq(s, n + 1, Len(s)) = s
<1> DEFINE front == SubSeq(s, 1, n)
           rest == SubSeq(s, n + 1, Len(s))
<1>1. n \in Nat /\ Len(s) \in Nat /\ \A i \in 1..Len(s) : s[i] \in Byte
  OBVIOUS
<1>3. rest \in Seq(Byte)
  BY <1>1, SubSeqProperties
<1>4. front \in Seq(Byte) /\ Len(front) = n /\ \A i \in 1..n : front[i] = s[i]
  BY <1>1, SubSeqProperties
<1>5. front \o rest = s
  <2>1. SubSeq(s, 1, n) \o SubSeq(s, n + 1, Len(s)) = SubSeq(s, 1, Len(s))
    <3>1. 1 \in 1..(Len(s) + 1) /\ n \in (1 - 1)..Len(s) /\ Len(s) \in n..Len(s)
      BY <1>1
    <3>2. QED
      BY <3>1, ConcatAdjacentSubSeq
  <2>2. QED
    BY <2>1, SubSeqFull
<1> HIDE DEF front, rest
<1>6. Bytes(head) = front
  <2>1. Bytes(head) \in Seq(Byte) /\ Len(Bytes(head)) = n /\ \A i \in 1..n : Bytes(head)[i] = head[i][1]
    BY BytesType
  <2>2. \A i \in 1..n : Bytes(head)[i] = front[i]
    BY <1>4, <2>1
  <2>3. QED
    BY <1>4, <2>1, <2>2, SeqEqual
<1>7. QED
  BY <1>3, <1>5, <1>6 DEF rest

-----------------------------------------------------------------------------
(***************************************************************************)
(* NothingLost                                                             *)
(***************************************************************************)
LEMMA InitFlush == Init => FlushInv
<1> SUFFICES ASSUME Init PROVE FlushInv
  OBVIOUS
<1>1. TypeOK /\ local = <<>>
  BY DEF Init, TypeOK
<1>2. Bytes(stream) = <<>>
  <2>1. stream = <<>> /\ stream \in Seq(Written2)
    BY <1>1 DEF Init, TypeOK
  <2>2. Bytes(stream) \in Seq(Byte) /\ Len(Bytes(stream)) = 0
    BY <2>1, BytesType
  <2>3. QED
    BY <2>2, EmptySeq
<1>3. NothingLost
  BY <1>2 DEF Init, NothingLost, Bytes
<1>4. QED
  BY <1>1, <1>3 DEF FlushInv

\* What NothingLost says, with Bytes.
LEMMA NothingLostIs == NothingLost <=> Bytes(stream) \o local \o msg = appended
  BY DEF NothingLost, Bytes

LEMMA StepFlush == FlushInv /\ [Next]_vars => FlushInv'
<1> SUFFICES ASSUME FlushInv, [Next]_vars PROVE FlushInv'
  OBVIOUS
<1>1. /\ TypeOK /\ (pc # "write" => local = <<>>)
      /\ Bytes(stream) \o local \o msg = appended
  BY NothingLostIs DEF FlushInv
<1>2. /\ Bytes(stream) \in Seq(Byte) /\ local \in Seq(Byte) /\ msg \in Seq(Byte)
      /\ stream \in Seq(Written2) /\ appended \in Seq(Byte)
  BY <1>1, BytesType DEF TypeOK
\* What is left to show of a step
<1>3. ASSUME TypeOK', pc' # "write" => local' = <<>>,
             Bytes(stream') \o local' \o msg' = appended'
      PROVE  FlushInv'
  BY <1>3 DEF FlushInv, NothingLost, Bytes
<1>4. ASSUME NEW m \in Msgs, AppendMsg(m) PROVE FlushInv'
  <2>1. /\ msg' = Append2(msg, m) /\ appended' = Append2(appended, m)
        /\ UNCHANGED <<local, fd, stream>>
        /\ pc' \in {pc, "test"} /\ (pc' # pc => pc = "waiting")
    BY <1>4 DEF AppendMsg, NotifyOne, fileVars
  <2>2. TypeOK'
    BY <1>1, <1>2, <2>1, Append2Type DEF TypeOK
  <2> DEFINE t == <<<<m, 1>>, <<m, 2>>>>
  <2>3. t \in Seq(Byte) /\ msg' = msg \o t /\ appended' = appended \o t
    BY <2>1 DEF Byte, Append2
  <2> HIDE DEF t
  <2>4. Bytes(stream) \o local \in Seq(Byte)
    BY <1>2, ConcatProperties
  <2>5. (Bytes(stream) \o local) \o (msg \o t) = ((Bytes(stream) \o local) \o msg) \o t
    <3>1. /\ Bytes(stream) \o local \in Seq(Byte) /\ msg \in Seq(Byte) /\ t \in Seq(Byte)
      BY <1>2, <2>3, <2>4
    <3>2. QED
      BY <3>1, Assoc
  <2>6. QED
    BY <1>1, <1>3, <2>1, <2>2, <2>3, <2>5
<1>5. CASE Swap
  <2>1. pc = "swap" /\ pc' = "write" /\ local' = msg /\ msg' = <<>> /\ UNCHANGED <<fd, stream, appended>>
    BY <1>5 DEF Swap, FlushFrame, fileVars
  <2>2. TypeOK'
    BY <1>1, <1>2, <2>1 DEF TypeOK
  <2>3. Bytes(stream) \o <<>> = Bytes(stream)
    BY <1>2, ConcatEmptySeq
  <2>4. (Bytes(stream) \o msg) \o <<>> = Bytes(stream) \o msg
    BY <1>2, ConcatEmptySeq, ConcatProperties
  <2>5. QED
    BY <1>1, <1>3, <2>1, <2>2, <2>3, <2>4
<1>6. CASE Write
  <2>1. /\ pc = "write" /\ pc' = pc /\ UNCHANGED <<msg, fd, appended>>
    BY <1>6 DEF Write, FlushFrame, fileVars
  <2>w. PICK n \in 1..Len(local) :
               /\ stream' = stream \o [i \in 1..n |-> <<local[i], fd>>]
               /\ local' = SubSeq(local, n + 1, Len(local))
    BY <1>6 DEF Write
  <2>2. PICK head :
               /\ head = [i \in 1..n |-> <<local[i], fd>>] /\ stream' = stream \o head
               /\ local' = SubSeq(local, n + 1, Len(local))
    BY <2>w
  <2>3. head \in Seq(Written2) /\ local' \in Seq(Byte) /\ Bytes(head) \o local' = local
    <3>1. head \in Seq(Written2) /\ Len(head) = n /\ \A i \in 1..n : head[i][1] = local[i]
      <4>1. n \in Nat /\ fd \in Nat /\ \A i \in 1..n : local[i] \in Byte
        BY <1>1, <1>2 DEF TypeOK
      <4>2. head \in [1..n -> Written2]
        BY <2>2, <4>1 DEF Written2
      <4>3. QED
        BY <2>2, <4>1, <4>2
    <3>2. local \in Seq(Byte)
      BY <1>2
    <3>3. QED
      BY <2>2, <3>1, <3>2, SplitBatch
  <2>4. stream' \in Seq(Written2)
    BY <1>2, <2>2, <2>3, ConcatProperties
  <2>5. TypeOK'
    BY <1>1, <2>1, <2>3, <2>4 DEF TypeOK
  <2>6. Bytes(stream') \o local' = Bytes(stream) \o local
    <3>1. Bytes(stream') = Bytes(stream) \o Bytes(head) /\ Bytes(head) \in Seq(Byte)
      BY <1>2, <2>2, <2>3, BytesConcat, BytesType
    <3>2. (Bytes(stream) \o Bytes(head)) \o local' = Bytes(stream) \o (Bytes(head) \o local')
      <4>1. /\ Bytes(stream) \in Seq(Byte) /\ Bytes(head) \in Seq(Byte) /\ local' \in Seq(Byte)
        BY <1>2, <2>3, <3>1
      <4>2. QED
        BY <4>1, Assoc
    <3>3. QED
      BY <2>3, <3>1, <3>2
  <2>7. QED
    BY <1>1, <1>3, <2>1, <2>5, <2>6
<1>7. CASE WhileTest \/ TryRotate \/ WaitTest \/ WaitTimeout \/ WriteDone
  <2>1. /\ UNCHANGED <<msg, local, stream, appended>> /\ fd' \in Nat
        /\ pc' \in {"while", "rotate", "test", "waiting", "swap", "end"}
    BY <1>1, <1>7 DEF WhileTest, TryRotate, WaitTest, WaitTimeout, WriteDone, FlushFrame, fileVars, TypeOK
  <2>2. local = <<>>
    BY <1>1, <1>7 DEF WhileTest, TryRotate, WaitTest, WaitTimeout, WriteDone
  <2>3. QED
    BY <1>1, <1>3, <2>1, <2>2 DEF TypeOK
<1>8. CASE SwitchOpen \/ SwitchDone \/ Joined \/ UNCHANGED vars
  <2>1. UNCHANGED <<msg, local, stream, appended, pc>> /\ fd' \in Nat
    BY <1>1, <1>8 DEF SwitchOpen, SwitchDone, Joined, fileVars, vars, TypeOK
  <2>2. QED
    BY <1>1, <1>3, <2>1 DEF TypeOK
<1>9. CASE Destroy
  <2>1. UNCHANGED <<msg, local, stream, appended, fd>> /\ pc' \in {pc, "test"} /\ (pc' # pc => pc = "waiting")
    BY <1>9 DEF Destroy, NotifyOne, fileVars
  <2>2. QED
    BY <1>1, <1>3, <2>1 DEF TypeOK
<1>10. QED
  BY <1>4, <1>5, <1>6, <1>7, <1>8, <1>9 DEF Next, Flush

\* The log is what was appended, in that order, through every swap, partial write
\* and change of file, for any messages: nothing is lost or doubled on the way from
\* append to write(2).
THEOREM LogLosesNothing == Spec => []NothingLost
<1>1. FlushInv => NothingLost
  BY DEF FlushInv
<1>2. QED
  BY <1>1, InitFlush, StepFlush, PTL DEF Spec

-----------------------------------------------------------------------------
(***************************************************************************)
(* InOneFile.  A message takes an odd and the following even place, so the *)
(* log holds half a message only at an odd length; fd_ changes only at     *)
(* even ones, because tryRotate runs between batches and a batch is swapped*)
(* out of msg_ as whole messages.                                          *)
(***************************************************************************)
Pairs(a) == \A i \in 1..(Len(a) - 1) : a[i][1] = a[i + 1][1] => i % 2 = 1
Together(s) == \A i \in 1..(Len(s) - 1) : i % 2 = 1 => s[i][2] = s[i + 1][2]

FileInv ==
    /\ Len(appended) % 2 = 0 /\ Len(msg) % 2 = 0
    /\ Pairs(appended)
    /\ Together(stream)
    /\ Len(stream) % 2 = 1 => stream[Len(stream)][2] = fd

\* The log is a prefix of what was appended, and the rest is in local and msg_.
LEMMA LogIsPrefix ==
    ASSUME FlushInv
    PROVE  /\ Len(stream) + Len(local) + Len(msg) = Len(appended)
           /\ \A i \in 1..Len(stream) : stream[i][1] = appended[i]
<1>1. PICK a, l, m, x : a = Bytes(stream) /\ l = local /\ m = msg /\ x = a \o l
  OBVIOUS
<1>2. /\ a \in Seq(Byte) /\ l \in Seq(Byte) /\ m \in Seq(Byte) /\ Len(a) = Len(stream)
      /\ \A i \in 1..Len(stream) : a[i] = stream[i][1]
  BY <1>1, BytesType DEF FlushInv, TypeOK
<1>3. x \in Seq(Byte) /\ Len(x) = Len(a) + Len(l) /\ \A i \in 1..Len(a) : x[i] = a[i]
  <2>1. x = a \o l /\ a \in Seq(Byte) /\ l \in Seq(Byte)
    BY <1>1, <1>2
  <2>2. QED
    BY <2>1
<1>4. /\ Len(x \o m) = Len(x) + Len(m) /\ \A i \in 1..Len(x) : (x \o m)[i] = x[i]
  <2>1. x \in Seq(Byte) /\ m \in Seq(Byte)
    BY <1>2, <1>3
  <2>2. QED
    BY <2>1
<1>5. x \o m = appended
  BY <1>1, NothingLostIs DEF FlushInv
<1>6. \A i \in 1..Len(a) : i \in 1..Len(x)
  BY <1>2, <1>3
<1>7. QED
  BY <1>1, <1>2, <1>3, <1>4, <1>5, <1>6

\* A new message after whole ones.
LEMMA AppendPairs ==
    ASSUME NEW a \in Seq(Byte), Len(a) % 2 = 0, Pairs(a), NEW m \in Msgs,
           \A i \in 1..Len(a) : a[i][1] # m
    PROVE  Pairs(Append2(a, m)) /\ Len(Append2(a, m)) % 2 = 0
<1> DEFINE c == Append2(a, m)  n == Len(a)
<1>1. /\ Len(c) = n + 2 /\ \A i \in 1..n : c[i] = a[i]
      /\ c[n + 1] = <<m, 1>> /\ c[n + 2] = <<m, 2>>
  BY Append2Type
<1>2. n \in Nat /\ n % 2 = 0
  OBVIOUS
<1> HIDE DEF c
<1>3. ASSUME NEW i \in 1..(n + 1), c[i][1] = c[i + 1][1] PROVE i % 2 = 1
  <2>1. CASE i < n
    <3>1. i \in 1..(n - 1) /\ i \in 1..n /\ i + 1 \in 1..n
      BY <1>2, <2>1
    <3>2. a[i][1] = a[i + 1][1]
      BY <1>1, <1>3, <3>1
    <3>3. QED
      BY <3>1, <3>2 DEF Pairs
  <2>2. CASE i = n
    <3>1. i \in 1..n /\ c[i] = a[i] /\ c[i + 1] = <<m, 1>>
      BY <1>1, <1>2, <2>2
    <3>2. QED
      BY <1>3, <3>1
  <2>3. CASE i = n + 1
    BY <1>2, <2>3
  <2>4. QED
    BY <1>2, <2>1, <2>2, <2>3
<1>4. Len(c) - 1 = n + 1 /\ Len(c) % 2 = 0
  BY <1>1, <1>2
<1>5. QED
  BY <1>3, <1>4 DEF Pairs, c

\* Bytes written to the file that holds the first half of their message.
LEMMA WriteTogether ==
    ASSUME NEW s \in Seq(Written2), NEW h \in Seq(Written2), NEW f \in Nat, Together(s),
           Len(s) % 2 = 1 => s[Len(s)][2] = f,
           \A i \in 1..Len(h) : h[i][2] = f
    PROVE  /\ Together(s \o h)
           /\ Len(s \o h) % 2 = 1 => (s \o h)[Len(s \o h)][2] = f
<1> DEFINE t == s \o h
<1>1. /\ Len(s) \in Nat /\ Len(h) \in Nat /\ Len(t) = Len(s) + Len(h)
      /\ \A i \in 1..(Len(s) + Len(h)) : t[i] = IF i <= Len(s) THEN s[i] ELSE h[i - Len(s)]
  BY ConcatProperties
<1> HIDE DEF t
<1>2. \A i \in 1..Len(t) : i > Len(s) => t[i][2] = f
  <2> SUFFICES ASSUME NEW i \in 1..Len(t), i > Len(s) PROVE t[i][2] = f
    OBVIOUS
  <2>1. i - Len(s) \in 1..Len(h) /\ t[i] = h[i - Len(s)]
    BY <1>1
  <2>2. QED
    BY <2>1
<1>3. ASSUME NEW i \in 1..(Len(t) - 1), i % 2 = 1 PROVE t[i][2] = t[i + 1][2]
  <2>1. CASE i < Len(s)
    BY <1>1, <1>3, <2>1 DEF Together
  <2>2. CASE i = Len(s)
    BY <1>1, <1>2, <1>3, <2>2
  <2>3. CASE i > Len(s)
    BY <1>1, <1>2, <2>3
  <2>4. QED
    BY <1>1, <2>1, <2>2, <2>3
<1>4. Len(t) % 2 = 1 => t[Len(t)][2] = f
  <2>1. CASE Len(h) = 0
    <3>1. Len(t) = Len(s)
      BY <1>1, <2>1
    <3>2. Len(s) % 2 = 1 => Len(s) \in 1..(Len(s) + Len(h)) /\ t[Len(s)] = s[Len(s)]
      BY <1>1, <2>1
    <3>3. QED
      BY <3>1, <3>2
  <2>2. CASE Len(h) > 0
    <3>1. Len(t) \in 1..Len(t) /\ Len(t) > Len(s)
      BY <1>1, <2>2
    <3>2. QED
      BY <1>2, <3>1
  <2>3. QED
    BY <1>1, <2>1, <2>2
<1>5. QED
  BY <1>3, <1>4 DEF Together, t

LEMMA StepFile ==
    ASSUME ~SwitchLate
    PROVE  FlushInv /\ FileInv /\ [Next]_vars => FileInv'
<1> SUFFICES ASSUME FlushInv, FileInv, [Next]_vars PROVE FileInv'
  OBVIOUS
<1>1. /\ TypeOK /\ (pc # "write" => local = <<>>)
      /\ Len(stream) + Len(local) + Len(msg) = Len(appended)
      /\ Len(stream) \in Nat /\ Len(local) \in Nat /\ Len(msg) \in Nat
  BY LogIsPrefix DEF FlushInv, TypeOK
\* Between batches the log ends with a whole message.
<1>2. local = <<>> => Len(stream) % 2 = 0
  <2>1. local = <<>> => Len(stream) + Len(msg) = Len(appended)
    BY <1>1
  <2>2. QED
    BY <1>1, <2>1 DEF FileInv
<1>3. ASSUME NEW m \in Msgs, AppendMsg(m) PROVE FileInv'
  <2>1. /\ msg' = Append2(msg, m) /\ appended' = Append2(appended, m) /\ UNCHANGED <<fd, stream>>
        /\ \A i \in 1..Len(appended) : appended[i][1] # m
    BY <1>1, <1>3 DEF AppendMsg, fileVars, Logged, TypeOK
  <2>2. Pairs(appended') /\ Len(appended') % 2 = 0
    BY <1>1, <2>1, AppendPairs DEF TypeOK, FileInv
  <2>3. Len(msg') % 2 = 0
    <3>1. Len(msg') = Len(msg) + 2
      BY <1>1, <2>1, Append2Type DEF TypeOK
    <3>2. QED
      BY <1>1, <3>1 DEF FileInv
  <2>4. QED
    BY <2>1, <2>2, <2>3 DEF FileInv
<1>4. CASE Write
  <2>w. PICK n \in 1..Len(local) : stream' = stream \o [i \in 1..n |-> <<local[i], fd>>]
    BY <1>4 DEF Write
  <2>1. PICK head : head = [i \in 1..n |-> <<local[i], fd>>] /\ stream' = stream \o head
    BY <2>w
  <2>2. UNCHANGED <<msg, fd, appended>>
    BY <1>4 DEF Write, FlushFrame, fileVars
  <2>3. head \in Seq(Written2) /\ \A i \in 1..Len(head) : head[i][2] = fd
    <3>1. n \in Nat /\ fd \in Nat /\ \A i \in 1..n : local[i] \in Byte
      BY <1>1 DEF TypeOK
    <3>2. head \in [1..n -> Written2]
      BY <2>1, <3>1 DEF Written2
    <3>3. QED
      BY <2>1, <3>1, <3>2
  <2>4. Together(stream') /\ (Len(stream') % 2 = 1 => stream'[Len(stream')][2] = fd)
    <3>1. stream \in Seq(Written2) /\ fd \in Nat /\ Together(stream)
          /\ (Len(stream) % 2 = 1 => stream[Len(stream)][2] = fd)
      BY <1>1 DEF TypeOK, FileInv
    <3>2. QED
      BY <2>1, <2>3, <3>1, WriteTogether
  <2>5. QED
    BY <2>2, <2>4 DEF FileInv
<1>5. CASE TryRotate
  <2>1. UNCHANGED <<msg, stream, appended>> /\ local = <<>>
    BY <1>1, <1>5 DEF TryRotate, FlushFrame
  <2>2. QED
    BY <1>2, <2>1 DEF FileInv
<1>6. CASE SwitchOpen
  <2>1. UNCHANGED <<msg, stream, appended>> /\ appended = <<>>
    BY <1>6 DEF SwitchOpen
  <2>2. Len(stream) = 0
    BY <1>1, <2>1
  <2>3. QED
    BY <2>1, <2>2 DEF FileInv
<1>7. CASE Swap
  <2>1. msg' = <<>> /\ UNCHANGED <<stream, appended, fd>>
    BY <1>7 DEF Swap, FlushFrame, fileVars
  <2>2. QED
    BY <2>1 DEF FileInv
<1>8. CASE WhileTest \/ WaitTest \/ WaitTimeout \/ WriteDone \/ SwitchDone \/ Destroy \/ Joined
           \/ UNCHANGED vars
  <2>1. UNCHANGED <<msg, stream, appended, fd>>
    BY <1>8 DEF WhileTest, WaitTest, WaitTimeout, WriteDone, SwitchDone, Destroy, Joined, FlushFrame,
       fileVars, vars
  <2>2. QED
    BY <2>1 DEF FileInv
<1>9. QED
  BY <1>3, <1>4, <1>5, <1>6, <1>7, <1>8 DEF Next, Flush

\* When the log file is chosen before anything is logged, no message is torn
\* between two files: rotation happens between batches, and a batch holds whole
\* messages, however the writes are cut up.
THEOREM MessageInOneFile == ASSUME ~SwitchLate PROVE Spec => []InOneFile
<1>1. Init => FileInv
  BY DEF Init, FileInv, Pairs, Together
<1>2. FlushInv /\ FileInv => InOneFile
  <2> SUFFICES ASSUME FlushInv, FileInv, NEW i \in 1..(Len(stream) - 1),
                      stream[i][1][1] = stream[i + 1][1][1]
               PROVE  stream[i][2] = stream[i + 1][2]
    BY DEF InOneFile
  <2>1. /\ Len(stream) \in Nat /\ Len(local) \in Nat /\ Len(msg) \in Nat
        /\ Len(stream) + Len(local) + Len(msg) = Len(appended)
    BY LogIsPrefix DEF FlushInv, TypeOK
  <2>2. stream[i][1] = appended[i] /\ stream[i + 1][1] = appended[i + 1]
    BY <2>1, LogIsPrefix
  <2>3. i % 2 = 1
    <3>1. i \in 1..(Len(appended) - 1) /\ appended[i][1] = appended[i + 1][1]
      BY <2>1, <2>2
    <3>2. QED
      BY <3>1 DEF FileInv, Pairs
  <2>4. QED
    BY <2>3 DEF FileInv, Together
<1>3. QED
  BY <1>1, <1>2, InitFlush, StepFlush, StepFile, PTL DEF Spec
=============================================================================
