---------------------------- MODULE BufferProofs ----------------------------
(***************************************************************************)
(* The index arithmetic of Buffer is right for every size of the vector    *)
(* and every length of data, as long as prepend and shrink are not used;   *)
(* a user who takes the data whole sees a queue of bytes; and with prepend *)
(* and shrink the indices stay inside until a check of Buffer's own fails. *)
(***************************************************************************)
EXTENDS Buffer, SequenceTheorems, TLAPS

\* A buffer whose indices are in order.
Ordered(x) ==
    /\ IsBuffer(x)
    /\ kCheapPrepend <= x.r /\ x.r <= x.w /\ x.w <= x.size

\* The same, said of its parts.
InOrder(size, r, w) ==
    /\ size \in Nat /\ r \in Nat /\ w \in Nat
    /\ kCheapPrepend <= r /\ r <= w /\ w <= size /\ size <= MaxSize

\* size_t arithmetic that does not wrap is plain arithmetic.
LEMMA NoWrap ==
    ASSUME NEW x \in Nat, NEW y \in Nat, x < SizeMax
    PROVE  /\ y <= x => Minus(x, y) = x - y
           /\ x + y < SizeMax => Plus(x, y) = x + y
  BY SizeAssumption DEF Minus, Plus

\* Taking an ordered buffer apart, and putting one together.
LEMMA OrderedParts ==
    ASSUME NEW x, Ordered(x)
    PROVE  \E size, r, w \in Nat : \E cell \in [0..(size - 1) -> Byte] :
             InOrder(size, r, w) /\ x = Buf(size, cell, r, w)
<1>1. x.size \in 0..MaxSize /\ x.cell \in Cells /\ DOMAIN x.cell = 0..(x.size - 1)
  BY DEF Ordered, IsBuffer
<1>2. x.cell \in [0..(x.size - 1) -> Byte]
  BY <1>1 DEF Cells
<1>3. InOrder(x.size, x.r, x.w)
  BY SizeAssumption DEF Ordered, IsBuffer, InOrder
<1>4. x = Buf(x.size, x.cell, x.r, x.w)
  BY DEF Ordered, IsBuffer, Buf
<1>5. QED
  BY <1>2, <1>3, <1>4 DEF InOrder

LEMMA OrderedIntro ==
    ASSUME NEW size, NEW r, NEW w, InOrder(size, r, w), NEW cell \in [0..(size - 1) -> Byte]
    PROVE  Ordered(Buf(size, cell, r, w))
<1>1. size \in 0..MaxSize /\ r \in 0..(SizeMax - 1) /\ w \in 0..(SizeMax - 1)
  BY SizeAssumption DEF InOrder
<1>2. cell \in Cells /\ DOMAIN cell = 0..(size - 1)
  BY <1>1 DEF Cells
<1>3. QED
  BY <1>1, <1>2 DEF Ordered, IsBuffer, Buf, InOrder

LEMMA CopyType ==
    ASSUME NEW n \in Nat, NEW cell \in [0..(n - 1) -> Byte], NEW at \in Nat, NEW s \in Seq(Byte)
    PROVE  CopyTo(cell, at, s) \in [0..(n - 1) -> Byte]
<1> SUFFICES ASSUME NEW i \in 0..(n - 1), i >= at /\ i < at + Len(s) PROVE s[i - at + 1] \in Byte
  BY DEF CopyTo
<1>1. i - at + 1 \in 1..Len(s)
  OBVIOUS
<1>2. QED
  BY <1>1

LEMMA CellsAsSeq ==
    ASSUME NEW size \in Nat, NEW w \in Nat, w <= size, NEW cell \in [0..(size - 1) -> Byte]
    PROVE  [i \in 1..w |-> cell[i - 1]] \in Seq(Byte)
<1>1. \A i \in 1..w : i - 1 \in 0..(size - 1)
  OBVIOUS
<1>2. [i \in 1..w |-> cell[i - 1]] \in [1..w -> Byte]
  BY <1>1
<1>3. QED
  BY <1>2, SeqDef

\* The tests makeSpace makes, without the size_t operators.
LEMMA MakeSpaceTests ==
    ASSUME NEW size, NEW r, NEW w, InOrder(size, r, w), NEW cell, NEW len \in Nat
    PROVE  LET x == Buf(size, cell, r, w) IN
           /\ Enough(x, len) <=> size - w >= len
           /\ Movable(x, len) <=> r - kCheapPrepend + (size - w) >= len
           /\ Plus(kCheapPrepend, ReadableBytes(x)) = kCheapPrepend + (w - r)
           /\ WritableBytes(x) = size - w
<1> USE SizeAssumption DEF InOrder, Buf
<1>1. Minus(size, w) = size - w /\ Minus(w, r) = w - r /\ Minus(r, kCheapPrepend) = r - kCheapPrepend
  BY NoWrap
<1>2. Plus(r - kCheapPrepend, size - w) = r - kCheapPrepend + (size - w)
  BY NoWrap
<1>3. Plus(kCheapPrepend, w - r) = kCheapPrepend + (w - r)
  BY NoWrap
<1>4. QED
  BY <1>1, <1>2, <1>3 DEF Enough, Movable, WritableBytes, ReadableBytes, PrependableBytes

\* makeSpace leaves an ordered buffer with room for len bytes.
LEMMA MakeSpaceOrdered ==
    ASSUME NEW x, Ordered(x), NEW len \in Nat, MakeSpace(x, len).size <= MaxSize
    PROVE  Ordered(MakeSpace(x, len)) /\ MakeSpace(x, len).w + len <= MakeSpace(x, len).size
<1> USE SizeAssumption, ByteAssumption
<1>1. PICK size \in Nat, r \in Nat, w \in Nat : \E cell \in [0..(size - 1) -> Byte] :
             InOrder(size, r, w) /\ x = Buf(size, cell, r, w)
  BY OrderedParts
<1>2. PICK cell \in [0..(size - 1) -> Byte] : InOrder(size, r, w) /\ x = Buf(size, cell, r, w)
  BY <1>1
<1>3. /\ Enough(x, len) <=> size - w >= len
      /\ Movable(x, len) <=> r - kCheapPrepend + (size - w) >= len
      /\ Plus(kCheapPrepend, ReadableBytes(x)) = kCheapPrepend + (w - r)
  BY <1>2, MakeSpaceTests
<1>4. CASE Enough(x, len)
  <2>1. MakeSpace(x, len) = x
    BY <1>4 DEF MakeSpace
  <2>2. x.w + len <= x.size
    BY <1>2, <1>3, <1>4 DEF Buf
  <2>3. QED
    BY <2>1, <2>2
<1>5. CASE ~Enough(x, len) /\ Movable(x, len)
  <2> DEFINE d == [i \in 1..w |-> cell[i - 1]]
             c == CopyTo(cell, kCheapPrepend, d)
  <2>1. c \in [0..(size - 1) -> Byte]
    <3>1. d \in Seq(Byte)
      BY <1>2, CellsAsSeq DEF InOrder
    <3> HIDE DEF d
    <3>2. QED
      BY <3>1, CopyType
  <2>2. MakeSpace(x, len) = Buf(size, c, kCheapPrepend, kCheapPrepend + (w - r))
    BY <1>2, <1>3, <1>5 DEF MakeSpace, Move, Buf
  <2> HIDE DEF c
  <2>3. InOrder(size, kCheapPrepend, kCheapPrepend + (w - r))
    BY <1>2 DEF InOrder
  <2>4. kCheapPrepend + (w - r) + len <= size
    BY <1>2, <1>3, <1>5 DEF InOrder
  <2>5. Ordered(MakeSpace(x, len))
    BY <2>1, <2>2, <2>3, OrderedIntro
  <2>6. QED
    BY <2>2, <2>4, <2>5 DEF Buf
<1>6. CASE ~Enough(x, len) /\ ~Movable(x, len)
  <2> DEFINE c == Resized(cell, size, w + len)
  <2>1. c \in [0..(w + len - 1) -> Byte]
    BY DEF Resized
  <2>2. MakeSpace(x, len) = Buf(w + len, c, r, w)
    BY <1>2, <1>6 DEF MakeSpace, Grow, Buf
  <2> HIDE DEF c
  <2>3. w + len <= MaxSize
    BY <2>2 DEF Buf
  <2>4. InOrder(w + len, r, w)
    BY <1>2, <2>3 DEF InOrder
  <2>5. Ordered(MakeSpace(x, len))
    BY <2>1, <2>2, <2>4, OrderedIntro
  <2>6. QED
    BY <2>2, <2>5 DEF Buf
<1>7. QED
  BY <1>4, <1>5, <1>6

\* Writing s behind the data of an ordered buffer that has room for it.
LEMMA WriteOrdered ==
    ASSUME NEW x, Ordered(x), NEW s \in Seq(Byte), x.w + Len(s) <= x.size,
           NEW y, y = WriteTo(x, s)
    PROVE  Ordered(y)
<1>1. PICK size \in Nat, r \in Nat, w \in Nat : \E cell \in [0..(size - 1) -> Byte] :
             InOrder(size, r, w) /\ x = Buf(size, cell, r, w)
  BY OrderedParts
<1>2. PICK cell \in [0..(size - 1) -> Byte] : InOrder(size, r, w) /\ x = Buf(size, cell, r, w)
  BY <1>1
<1> DEFINE c == CopyTo(cell, w, s)
<1>3. c \in [0..(size - 1) -> Byte]
  BY <1>2, CopyType
<1>4. Len(s) \in Nat /\ w + Len(s) <= size
  BY <1>2 DEF Buf
<1>5. InOrder(size, r, w + Len(s))
  BY <1>2, <1>4 DEF InOrder
<1>6. Plus(w, Len(s)) = w + Len(s)
  <2>1. w < SizeMax /\ w + Len(s) < SizeMax
    BY <1>2, <1>4, SizeAssumption DEF InOrder
  <2>2. QED
    BY <1>4, <2>1, NoWrap
<1>7. y = Buf(size, c, r, w + Len(s))
  BY <1>2, <1>6 DEF Buf, WriteTo
<1> HIDE DEF c
<1>8. QED
  BY <1>3, <1>5, <1>7, OrderedIntro

\* An append keeps the indices in order, and makeSpace's assertion holds.
LEMMA DoAppendOrdered ==
    ASSUME NEW x, Ordered(x), NEW s \in Seq(Byte), DoAppend(x, s)
    PROVE  Ordered(b') /\ ~failed'
<1> DEFINE m == MakeSpace(x, Len(s))
<1>1. Ordered(m) /\ m.w + Len(s) <= m.size
  BY MakeSpaceOrdered DEF DoAppend
<1>2. b' = WriteTo(m, s)
  BY DEF DoAppend
<1>3. failed' <=> WritableBytes(m) < Len(s)
  BY DEF DoAppend
<1> HIDE DEF m
<1>4. WritableBytes(m) >= Len(s)
  <2>1. PICK size \in Nat, r \in Nat, w \in Nat : \E cell \in [0..(size - 1) -> Byte] :
               InOrder(size, r, w) /\ m = Buf(size, cell, r, w)
    BY <1>1, OrderedParts
  <2>2. WritableBytes(m) = size - w /\ m.w = w /\ m.size = size
    BY <2>1, MakeSpaceTests DEF Buf
  <2>3. QED
    BY <1>1, <2>2
<1>5. WritableBytes(m) \in Int
  <2>1. WritableBytes(m) = (m.size - m.w) % SizeMax
    BY DEF WritableBytes, Minus
  <2>2. m.size \in Int /\ m.w \in Int
    BY <1>1, SizeAssumption DEF Ordered, IsBuffer
  <2>3. QED
    BY <2>1, <2>2, SizeAssumption
<1>6. ~failed'
  BY <1>3, <1>4, <1>5
<1>7. QED
  BY <1>1, <1>2, <1>6, WriteOrdered

-----------------------------------------------------------------------------
(***************************************************************************)
(* Every operation but prepend and shrink.                                 *)
(***************************************************************************)
Sound == Ordered(b) /\ ~failed

IdxInv == use # "all" => Sound

LEMMA InitIdx == Init => IdxInv
<1> SUFFICES ASSUME Init PROVE IdxInv
  OBVIOUS
<1> DEFINE n == kCheapPrepend + kInitialSize
           c == Zeros(n)
<1>1. b = Buf(n, c, kCheapPrepend, kCheapPrepend)
  BY DEF Init, NewBuffer
<1>2. c \in [0..(n - 1) -> Byte]
  BY ByteAssumption DEF Zeros
<1>3. InOrder(n, kCheapPrepend, kCheapPrepend)
  BY SizeAssumption DEF InOrder
<1> HIDE DEF n, c
<1>4. Ordered(b)
  BY <1>1, <1>2, <1>3, OrderedIntro
<1>5. QED
  BY <1>4 DEF IdxInv, Sound, Init

LEMMA DataIsSeq == ASSUME NEW s \in Data PROVE s \in Seq(Byte)
<1>1. PICK n \in 0..MaxLen : s \in [1..n -> Byte]
  BY DEF Data
<1>2. n \in Nat
  BY SizeAssumption
<1>3. QED
  BY <1>1, <1>2, SeqDef

LEMMA StepIdx == IdxInv /\ [Next]_vars => IdxInv'
<1> SUFFICES ASSUME IdxInv, [Next]_vars, use' # "all" PROVE Sound'
  BY DEF IdxInv
<1>u. use' = use
  BY DEF Next, vars
<1>0. Ordered(b) /\ ~failed
  BY <1>u DEF IdxInv, Sound
<1>p. PICK size \in Nat, r \in Nat, w \in Nat : \E cell \in [0..(size - 1) -> Byte] :
             InOrder(size, r, w) /\ b = Buf(size, cell, r, w)
  BY <1>0, OrderedParts
<1>q. PICK cell \in [0..(size - 1) -> Byte] : InOrder(size, r, w) /\ b = Buf(size, cell, r, w)
  BY <1>p
<1>w. WritableBytes(b) = size - w /\ ReadableBytes(b) = w - r
  <2>1. Minus(w, r) = w - r
    BY <1>q, NoWrap, SizeAssumption DEF InOrder
  <2>2. ReadableBytes(b) = Minus(w, r)
    BY <1>q DEF ReadableBytes, Buf
  <2>3. QED
    BY <1>q, <2>1, <2>2, MakeSpaceTests
<1>1. ASSUME NEW s \in Data, AppendData(s) PROVE Sound'
  BY <1>0, <1>1, DoAppendOrdered, DataIsSeq DEF AppendData, Sound
<1>2. ASSUME NEW s \in Data, ReadFd(s) PROVE Sound'
  <2>0. s \in Seq(Byte) /\ Len(s) \in Nat
    BY DataIsSeq
  <2>1. CASE Len(s) <= size - w
    <3>1. b' = WriteTo(b, s) /\ failed' = failed
      BY <1>2, <1>w, <2>1 DEF ReadFd
    <3>2. b.w + Len(s) <= b.size
      BY <1>q, <2>0, <2>1 DEF Buf, InOrder
    <3>3. Ordered(b')
      BY <1>0, <2>0, <3>1, <3>2, WriteOrdered
    <3>4. QED
      BY <1>0, <3>1, <3>3 DEF Sound
  <2>2. CASE ~(Len(s) <= size - w)
    <3> DEFINE s1 == SubSeq(s, 1, size - w)
               s2 == SubSeq(s, size - w + 1, Len(s))
    <3>1. PICK x : /\ x = Buf(b.size, CopyTo(b.cell, b.w, s1), b.r, b.size)
                   /\ DoAppend(x, s2)
      BY <1>2, <1>w, <2>2 DEF ReadFd
    <3>2. s1 \in Seq(Byte) /\ s2 \in Seq(Byte)
      <4>1. \A i \in 1..Len(s) : s[i] \in Byte
        BY <2>0
      <4>2. size - w \in Nat /\ size - w <= Len(s)
        BY <1>q, <2>0, <2>2 DEF InOrder
      <4>3. QED
        BY <2>0, <4>1, <4>2, SubSeqProperties
    <3>3. x = Buf(size, CopyTo(cell, w, s1), r, size)
      BY <1>q, <3>1 DEF Buf
    <3>4. CopyTo(cell, w, s1) \in [0..(size - 1) -> Byte]
      BY <3>2, CopyType
    <3>5. InOrder(size, r, size)
      BY <1>q DEF InOrder
    <3> HIDE DEF s1, s2
    <3>6. Ordered(x)
      BY <3>3, <3>4, <3>5, OrderedIntro
    <3>7. QED
      BY <3>1, <3>2, <3>6, DoAppendOrdered DEF Sound
  <2>3. QED
    BY <2>1, <2>2
<1>3. ASSUME NEW s \in Data, HasWritten(s) PROVE Sound'
  <2>0. s \in Seq(Byte) /\ Len(s) \in Nat
    BY DataIsSeq
  <2>1. b' = WriteTo(b, s) /\ failed' = failed
    BY <1>3 DEF HasWritten
  <2>2. Len(s) <= size - w
    BY <1>3, <1>w DEF HasWritten
  <2>3. b.w + Len(s) <= b.size
    BY <1>q, <2>0, <2>2 DEF Buf, InOrder
  <2>4. Ordered(b')
    BY <1>0, <2>0, <2>1, <2>3, WriteOrdered
  <2>5. QED
    BY <1>0, <2>1, <2>4 DEF Sound
<1>4. ASSUME NEW n \in 0..MaxLen, ReserveSpace(n) PROVE Sound'
  <2> DEFINE m == MakeSpace(b, n)
  <2>0. n \in Nat
    BY SizeAssumption
  <2>1. b' = m /\ m.size <= MaxSize /\ (failed' <=> WritableBytes(m) < n)
    BY <1>4 DEF ReserveSpace
  <2>2. Ordered(m) /\ m.w + n <= m.size
    BY <1>0, <2>0, <2>1, MakeSpaceOrdered
  <2> HIDE DEF m
  <2>3. PICK ms \in Nat, mr \in Nat, mw \in Nat : \E mc \in [0..(ms - 1) -> Byte] :
               InOrder(ms, mr, mw) /\ m = Buf(ms, mc, mr, mw)
    BY <2>2, OrderedParts
  <2>4. WritableBytes(m) = ms - mw /\ m.w = mw /\ m.size = ms
    BY <2>3, MakeSpaceTests DEF Buf
  <2>5. ~(WritableBytes(m) < n)
    BY <2>0, <2>2, <2>4
  <2>6. ~failed'
    BY <2>1, <2>5
  <2>7. QED
    BY <2>1, <2>2, <2>6 DEF Sound
<1>5. ASSUME RetrieveAll PROVE Sound'
  <2>1. b' = Buf(size, cell, kCheapPrepend, kCheapPrepend) /\ failed' = failed
    BY <1>5, <1>q DEF RetrieveAll, Reset, Buf
  <2>2. InOrder(size, kCheapPrepend, kCheapPrepend)
    BY <1>q, SizeAssumption DEF InOrder
  <2>3. QED
    BY <1>0, <2>1, <2>2, OrderedIntro DEF Sound
<1>6. ASSUME NEW n \in 0..MaxSize, Retrieve(n) PROVE Sound'
  <2>0. n \in Nat /\ n <= w - r /\ failed' = failed
    BY <1>6, <1>w, SizeAssumption DEF Retrieve
  <2>1. Plus(r, n) = r + n
    <3>1. r < SizeMax /\ r + n < SizeMax
      BY <1>q, <2>0, SizeAssumption DEF InOrder
    <3>2. QED
      BY <2>0, <3>1, NoWrap
  <2>2. CASE r + n = w
    <3>1. b' = Buf(size, cell, kCheapPrepend, kCheapPrepend)
      BY <1>6, <1>q, <2>1, <2>2 DEF Retrieve, Reset, Buf
    <3>2. InOrder(size, kCheapPrepend, kCheapPrepend)
      BY <1>q, SizeAssumption DEF InOrder
    <3>3. QED
      BY <1>0, <2>0, <3>1, <3>2, OrderedIntro DEF Sound
  <2>3. CASE r + n # w
    <3>1. b' = Buf(size, cell, r + n, w)
      BY <1>6, <1>q, <2>1, <2>3 DEF Retrieve, Reset, Buf
    <3>2. InOrder(size, r + n, w)
      BY <1>q, <2>0, SizeAssumption DEF InOrder
    <3>3. QED
      BY <1>0, <2>0, <3>1, <3>2, OrderedIntro DEF Sound
  <2>4. QED
    BY <2>2, <2>3
<1>7. CASE UNCHANGED vars
  BY <1>0, <1>7 DEF vars, Sound
<1>8. QED
  BY <1>u, <1>1, <1>2, <1>3, <1>4, <1>5, <1>6, <1>7 DEF Next

\* The indices of a buffer used without prepend and shrink stay in order and
\* inside the vector, for every size and every length of data.
THEOREM IndicesAlwaysOrdered == Spec => []IndicesOrdered
<1>1. Init => IdxInv
  BY InitIdx
<1>2. IdxInv /\ [Next]_vars => IdxInv'
  BY StepIdx
<1>3. IdxInv => IndicesOrdered
  BY DEF IdxInv, Sound, Ordered, IndicesOrdered
<1>4. QED
  BY <1>1, <1>2, <1>3, PTL DEF Spec

-----------------------------------------------------------------------------
(***************************************************************************)
(* A user who takes the data whole: readerIndex_ never leaves              *)
(* kCheapPrepend, so that makeSpace never moves the data.                  *)
(***************************************************************************)
WholeInv == use = "whole" => b.r = kCheapPrepend /\ ~outOfBounds

LEMMA MakeSpaceStays ==
    ASSUME NEW x, Ordered(x), x.r = kCheapPrepend, NEW len \in Nat
    PROVE  ~Moves(x, len) /\ MakeSpace(x, len).r = kCheapPrepend
<1>1. PICK size \in Nat, r \in Nat, w \in Nat : \E cell \in [0..(size - 1) -> Byte] :
             InOrder(size, r, w) /\ x = Buf(size, cell, r, w)
  BY OrderedParts
<1>2. PICK cell \in [0..(size - 1) -> Byte] : InOrder(size, r, w) /\ x = Buf(size, cell, r, w)
  BY <1>1
<1>3. r = kCheapPrepend
  BY <1>2 DEF Buf
<1>4. /\ Enough(x, len) <=> size - w >= len
      /\ Movable(x, len) <=> r - kCheapPrepend + (size - w) >= len
  BY <1>2, MakeSpaceTests
<1>5. ~Moves(x, len)
  BY <1>3, <1>4, SizeAssumption DEF Moves
<1>6. MakeSpace(x, len) = x \/ MakeSpace(x, len) = Grow(x, len)
  BY <1>5 DEF MakeSpace, Moves
<1>7. Grow(x, len).r = x.r
  BY DEF Grow, Buf
<1>8. QED
  BY <1>5, <1>6, <1>7

LEMMA DoAppendStays ==
    ASSUME NEW x, Ordered(x), x.r = kCheapPrepend, NEW s \in Seq(Byte), DoAppend(x, s)
    PROVE  b'.r = kCheapPrepend /\ ~outOfBounds'
<1> DEFINE m == MakeSpace(x, Len(s))
<1>1. Len(s) \in Nat
  OBVIOUS
<1>2. ~Moves(x, Len(s)) /\ m.r = kCheapPrepend
  BY <1>1, MakeSpaceStays
<1>3. Ordered(m) /\ m.w + Len(s) <= m.size
  BY <1>1, MakeSpaceOrdered DEF DoAppend
<1>4. b' = WriteTo(m, s) /\ (outOfBounds' <=> MoveOutOfBounds(x, Len(s)) \/ PastEnd(m, m.w, Len(s)))
  BY DEF DoAppend
<1> HIDE DEF m
<1>5. ~MoveOutOfBounds(x, Len(s))
  BY <1>2 DEF MoveOutOfBounds
<1>6. m.w \in Int /\ m.size \in Int
  BY <1>3, SizeAssumption DEF Ordered, IsBuffer
<1>7. ~PastEnd(m, m.w, Len(s))
  BY <1>1, <1>3, <1>6 DEF PastEnd
<1>8. WriteTo(m, s).r = m.r
  BY DEF WriteTo, Buf
<1>9. QED
  BY <1>2, <1>4, <1>5, <1>7, <1>8

LEMMA StepWhole == IdxInv /\ WholeInv /\ [Next]_vars => WholeInv'
<1> SUFFICES ASSUME IdxInv, WholeInv, [Next]_vars, use' = "whole"
             PROVE  b'.r = kCheapPrepend /\ ~outOfBounds'
  BY DEF WholeInv
<1>u. use = "whole"
  BY DEF Next, vars
<1>0. Ordered(b) /\ b.r = kCheapPrepend /\ ~outOfBounds
  BY <1>u DEF IdxInv, Sound, WholeInv
<1>1. ASSUME NEW s \in Data, AppendData(s) PROVE b'.r = kCheapPrepend /\ ~outOfBounds'
  BY <1>0, <1>1, DoAppendStays, DataIsSeq DEF AppendData
<1>2. ASSUME NEW s \in Data, ReadFd(s) PROVE b'.r = kCheapPrepend /\ ~outOfBounds'
  <2> DEFINE n == WritableBytes(b)
  <2>0. s \in Seq(Byte) /\ Len(s) \in Nat
    BY DataIsSeq
  <2>1. CASE Len(s) <= n
    <3>1. b' = WriteTo(b, s) /\ (outOfBounds' <=> outOfBounds)
      BY <1>2, <2>1 DEF ReadFd
    <3>2. QED
      BY <1>0, <3>1 DEF WriteTo, Buf
  <2>2. CASE ~(Len(s) <= n)
    <3>0. PICK size \in Nat, r \in Nat, w \in Nat : \E cell \in [0..(size - 1) -> Byte] :
                 InOrder(size, r, w) /\ b = Buf(size, cell, r, w)
      BY <1>0, OrderedParts
    <3>1. PICK cell \in [0..(size - 1) -> Byte] : InOrder(size, r, w) /\ b = Buf(size, cell, r, w)
      BY <3>0
    <3>2. n = size - w
      BY <3>1, MakeSpaceTests
    <3> DEFINE s1 == SubSeq(s, 1, n)
               s2 == SubSeq(s, n + 1, Len(s))
    <3>3. PICK x : /\ x = Buf(b.size, CopyTo(b.cell, b.w, s1), b.r, b.size)
                   /\ DoAppend(x, s2)
      BY <1>2, <2>2 DEF ReadFd
    <3> HIDE DEF n
    <3>4. n \in Nat /\ n <= Len(s)
      BY <2>0, <2>2, <3>1, <3>2 DEF InOrder
    <3>5. s1 \in Seq(Byte) /\ s2 \in Seq(Byte)
      <4>1. \A i \in 1..Len(s) : s[i] \in Byte
        BY <2>0
      <4>2. QED
        BY <2>0, <3>4, <4>1, SubSeqProperties
    <3>6. x = Buf(size, CopyTo(cell, w, s1), r, size)
      BY <3>1, <3>3 DEF Buf
    <3>7. CopyTo(cell, w, s1) \in [0..(size - 1) -> Byte]
      BY <3>5, CopyType
    <3>8. InOrder(size, r, size) /\ r = kCheapPrepend
      BY <1>0, <3>1 DEF InOrder, Buf
    <3> HIDE DEF s1, s2
    <3>9. Ordered(x) /\ x.r = kCheapPrepend
      BY <3>6, <3>7, <3>8, OrderedIntro DEF Buf
    <3>10. QED
      BY <3>3, <3>5, <3>9, DoAppendStays
  <2>3. QED
    BY <2>1, <2>2
<1>3. ASSUME NEW s \in Data, HasWritten(s) PROVE b'.r = kCheapPrepend /\ ~outOfBounds'
  BY <1>0, <1>3 DEF HasWritten, WriteTo, Buf
<1>4. ASSUME NEW n \in 0..MaxLen, ReserveSpace(n) PROVE b'.r = kCheapPrepend /\ ~outOfBounds'
  <2>1. n \in Nat
    BY SizeAssumption
  <2>2. b' = MakeSpace(b, n) /\ (outOfBounds' <=> MoveOutOfBounds(b, n))
    BY <1>4 DEF ReserveSpace
  <2>3. QED
    BY <1>0, <2>1, <2>2, MakeSpaceStays DEF MoveOutOfBounds
<1>5. ASSUME RetrieveAll PROVE b'.r = kCheapPrepend /\ ~outOfBounds'
  BY <1>0, <1>5 DEF RetrieveAll, Reset, Buf
<1>6. CASE UNCHANGED vars
  BY <1>0, <1>6 DEF vars
<1>7. QED
  BY <1>u, <1>1, <1>2, <1>3, <1>4, <1>5, <1>6 DEF Next

\* makeSpace's closing assertion (buffer.cpp:152) and append's (:80) never fail
\* without prepend and shrink, although the size_t subtractions they are made of
\* could wrap; and while the data is taken whole no copy leaves the vector.
THEOREM MakeSpaceMakesSpace == Spec => []StaysIntact
<1>1. Init => IdxInv
  BY InitIdx
<1>2. IdxInv /\ [Next]_vars => IdxInv'
  BY StepIdx
<1>3. Init => WholeInv
  BY DEF Init, WholeInv, NewBuffer, Buf
<1>4. IdxInv /\ WholeInv /\ [Next]_vars => WholeInv'
  BY StepWhole
<1>5. IdxInv /\ WholeInv => StaysIntact
  BY DEF IdxInv, Sound, WholeInv, StaysIntact
<1>6. QED
  BY <1>1, <1>2, <1>3, <1>4, <1>5, PTL DEF Spec
-----------------------------------------------------------------------------
(***************************************************************************)
(* The readable bytes of such a user are a queue.                          *)
(***************************************************************************)
\* The readable bytes of an ordered buffer
LEMMA ReadableIs ==
    ASSUME NEW x, Ordered(x), NEW q, q = Readable(x)
    PROVE  /\ q \in Seq(Byte) /\ Len(q) = x.w - x.r
           /\ \A i \in 1..(x.w - x.r) : q[i] = x.cell[x.r + i - 1]
<1>1. /\ x.r \in Nat /\ x.w \in Nat /\ x.size \in Nat /\ x.r <= x.w /\ x.w <= x.size
      /\ x.w < SizeMax /\ x.cell \in [0..(x.size - 1) -> Byte]
  <2>1. PICK size \in Nat, r \in Nat, w \in Nat : \E cell \in [0..(size - 1) -> Byte] :
               InOrder(size, r, w) /\ x = Buf(size, cell, r, w)
    BY OrderedParts
  <2>2. QED
    BY <2>1, SizeAssumption DEF InOrder, Buf
<1>2. PICK n : n = x.w - x.r /\ n \in Nat
  BY <1>1
<1>3. ReadableBytes(x) = n
  BY <1>1, <1>2, NoWrap DEF ReadableBytes
<1>4. q = [i \in 1..n |-> x.cell[x.r + i - 1]]
  BY <1>3 DEF Readable
<1>5. \A i \in 1..n : x.r + i - 1 \in 0..(x.size - 1)
  BY <1>1, <1>2
<1>6. q \in [1..n -> Byte]
  BY <1>1, <1>4, <1>5
<1>7. q \in Seq(Byte) /\ Len(q) = n
  BY <1>2, <1>6
<1>8. QED
  BY <1>2, <1>4, <1>7

\* What is written behind the data is readable behind it.
LEMMA WriteAddsBack ==
    ASSUME NEW x, Ordered(x), NEW s \in Seq(Byte), x.w + Len(s) <= x.size
    PROVE  Readable(WriteTo(x, s)) = Readable(x) \o s /\ Readable(x) \in Seq(Byte)
<1>1. PICK size \in Nat, r \in Nat, w \in Nat : \E cell \in [0..(size - 1) -> Byte] :
             InOrder(size, r, w) /\ x = Buf(size, cell, r, w)
  BY OrderedParts
<1>2. PICK cell \in [0..(size - 1) -> Byte] : InOrder(size, r, w) /\ x = Buf(size, cell, r, w)
  BY <1>1
<1>3. PICK c : c = CopyTo(cell, w, s)
  OBVIOUS
<1>4. Len(s) \in Nat /\ w + Len(s) <= size /\ r <= w
  BY <1>2 DEF Buf, InOrder
<1>5. c \in [0..(size - 1) -> Byte] /\ InOrder(size, r, w + Len(s))
  BY <1>2, <1>3, <1>4, CopyType DEF InOrder
<1>6. WriteTo(x, s) = Buf(size, c, r, w + Len(s))
  <2>1. w < SizeMax /\ w + Len(s) < SizeMax
    BY <1>2, <1>4, SizeAssumption DEF InOrder
  <2>2. Plus(w, Len(s)) = w + Len(s)
    BY <1>4, <2>1, NoWrap
  <2>3. QED
    BY <1>2, <1>3, <2>2 DEF WriteTo, Buf
<1>7. PICK old, new : old = Readable(x) /\ new = Readable(WriteTo(x, s))
  OBVIOUS
<1>8. old \in Seq(Byte) /\ Len(old) = w - r /\ \A i \in 1..(w - r) : old[i] = cell[r + i - 1]
  <2>1. /\ old \in Seq(Byte) /\ Len(old) = x.w - x.r
        /\ \A i \in 1..(x.w - x.r) : old[i] = x.cell[x.r + i - 1]
    BY <1>7, ReadableIs
  <2>2. x.w = w /\ x.r = r /\ x.cell = cell
    BY <1>2 DEF Buf
  <2>3. QED
    BY <2>1, <2>2
<1>9. /\ new \in Seq(Byte) /\ Len(new) = w + Len(s) - r
      /\ \A i \in 1..(w + Len(s) - r) : new[i] = c[r + i - 1]
  <2>1. PICK y : y = WriteTo(x, s)
    OBVIOUS
  <2>2. Ordered(y) /\ new = Readable(y)
    BY <1>7, <2>1, WriteOrdered
  <2>3. /\ new \in Seq(Byte) /\ Len(new) = y.w - y.r
        /\ \A i \in 1..(y.w - y.r) : new[i] = y.cell[y.r + i - 1]
    BY <2>2, ReadableIs
  <2>4. y.w = w + Len(s) /\ y.r = r /\ y.cell = c
    BY <1>6, <2>1 DEF Buf
  <2>5. QED
    BY <2>3, <2>4
<1>10. Len(old \o s) = Len(new) /\ old \o s \in Seq(Byte)
  <2>1. old \o s \in Seq(Byte) /\ Len(old \o s) = Len(old) + Len(s)
    BY <1>8, ConcatProperties
  <2>2. QED
    BY <1>4, <1>8, <1>9, <2>1
<1>11. ASSUME NEW i \in 1..Len(new) PROVE new[i] = (old \o s)[i]
  <2>1. i \in Nat /\ i >= 1 /\ i <= w + Len(s) - r
    BY <1>9
  <2>2. r + i - 1 \in 0..(size - 1) /\ new[i] = c[r + i - 1]
    BY <1>4, <1>9, <2>1
  <2>3. c[r + i - 1] = IF r + i - 1 >= w /\ r + i - 1 < w + Len(s) THEN s[r + i - 1 - w + 1] ELSE cell[r + i - 1]
    BY <1>3, <2>2 DEF CopyTo
  <2>4. CASE i <= w - r
    <3>1. ~(r + i - 1 >= w) /\ i \in 1..(w - r) /\ i \in 1..Len(old)
      BY <1>4, <1>8, <2>1, <2>4
    <3>2. old[i] = cell[r + i - 1] /\ (old \o s)[i] = old[i]
      BY <1>8, <3>1
    <3>3. QED
      BY <2>2, <2>3, <3>1, <3>2
  <2>5. CASE i > w - r
    <3>1. r + i - 1 >= w /\ r + i - 1 < w + Len(s) /\ r + i - 1 - w + 1 = i - (w - r)
      BY <1>4, <2>1, <2>5
    <3>2. (old \o s)[i] = s[i - Len(old)]
      <4>1. i \in 1..(Len(old) + Len(s)) /\ ~(i <= Len(old))
        BY <1>4, <1>8, <2>1, <2>5
      <4>2. QED
        BY <1>8, <4>1, ConcatProperties
    <3>3. QED
      BY <1>8, <2>2, <2>3, <3>1, <3>2
  <2>6. i <= w - r \/ i > w - r
    BY <1>4, <2>1
  <2>7. QED
    BY <2>4, <2>5, <2>6
<1>12. new = old \o s
  BY <1>9, <1>10, <1>11, SeqEqual
<1>13. QED
  BY <1>7, <1>8, <1>12

\* makeSpace that does not move leaves the readable bytes alone.
LEMMA MakeSpaceKeeps ==
    ASSUME NEW x, Ordered(x), x.r = kCheapPrepend, NEW len \in Nat, MakeSpace(x, len).size <= MaxSize
    PROVE  Readable(MakeSpace(x, len)) = Readable(x)
<1>1. PICK size \in Nat, r \in Nat, w \in Nat : \E cell \in [0..(size - 1) -> Byte] :
             InOrder(size, r, w) /\ x = Buf(size, cell, r, w)
  BY OrderedParts
<1>2. PICK cell \in [0..(size - 1) -> Byte] : InOrder(size, r, w) /\ x = Buf(size, cell, r, w)
  BY <1>1
<1>3. ~Moves(x, len)
  BY MakeSpaceStays
<1>4. CASE Enough(x, len)
  BY <1>4 DEF MakeSpace
<1>5. CASE ~Enough(x, len)
  <2>1. MakeSpace(x, len) = Grow(x, len)
    BY <1>3, <1>5 DEF MakeSpace, Moves
  <2>2. PICK c : c = Resized(cell, size, w + len)
    OBVIOUS
  <2>3. MakeSpace(x, len) = Buf(w + len, c, r, w)
    BY <1>2, <2>1, <2>2 DEF Grow, Buf
  <2>4. c \in [0..(w + len - 1) -> Byte]
    BY <2>2, ByteAssumption DEF Resized
  <2>5. InOrder(w + len, r, w)
    BY <1>2, <2>3, SizeAssumption DEF InOrder, Buf
  <2>6. r <= w /\ w <= size
    BY <1>2 DEF InOrder
  <2>7. \A i \in 1..(w - r) : c[r + i - 1] = cell[r + i - 1]
    BY <2>2, <2>6 DEF Resized
  <2>8. PICK y, new, old : y = MakeSpace(x, len) /\ new = Readable(y) /\ old = Readable(x)
    OBVIOUS
  <2>9. /\ old \in Seq(Byte) /\ Len(old) = w - r
        /\ \A i \in 1..(w - r) : old[i] = cell[r + i - 1]
    <3>1. /\ old \in Seq(Byte) /\ Len(old) = x.w - x.r
          /\ \A i \in 1..(x.w - x.r) : old[i] = x.cell[x.r + i - 1]
      BY <2>8, ReadableIs
    <3>2. x.w = w /\ x.r = r /\ x.cell = cell
      BY <1>2 DEF Buf
    <3>3. QED
      BY <3>1, <3>2
  <2>10. /\ new \in Seq(Byte) /\ Len(new) = w - r
         /\ \A i \in 1..(w - r) : new[i] = c[r + i - 1]
    <3>1. Ordered(y)
      BY <2>8, MakeSpaceOrdered
    <3>2. /\ new \in Seq(Byte) /\ Len(new) = y.w - y.r
          /\ \A i \in 1..(y.w - y.r) : new[i] = y.cell[y.r + i - 1]
      BY <2>8, <3>1, ReadableIs
    <3>3. y.w = w /\ y.r = r /\ y.cell = c
      BY <2>3, <2>8 DEF Buf
    <3>4. QED
      BY <3>2, <3>3
  <2>11. \A i \in 1..Len(new) : new[i] = old[i]
    BY <2>7, <2>9, <2>10
  <2>12. new = old
    BY <2>9, <2>10, <2>11, SeqEqual
  <2>13. QED
    BY <2>8, <2>12
<1>6. QED
  BY <1>4, <1>5

\* append adds its data behind the readable bytes.
LEMMA DoAppendAddsBack ==
    ASSUME NEW x, Ordered(x), x.r = kCheapPrepend, NEW s \in Seq(Byte), DoAppend(x, s)
    PROVE  Readable(b') = Readable(x) \o s
<1>1. PICK m : m = MakeSpace(x, Len(s))
  OBVIOUS
<1>2. Ordered(m) /\ m.w + Len(s) <= m.size /\ Readable(m) = Readable(x) /\ b' = WriteTo(m, s)
  BY <1>1, MakeSpaceOrdered, MakeSpaceKeeps DEF DoAppend
<1>3. QED
  BY <1>2, WriteAddsBack

\* Concatenation is associative.
LEMMA Assoc ==
    ASSUME NEW x \in Seq(Byte), NEW y \in Seq(Byte), NEW z \in Seq(Byte)
    PROVE  (x \o y) \o z = x \o (y \o z)
  OBVIOUS

\* Every step of such a user is a step of the queue.
LEMMA StepQueue ==
    ASSUME IdxInv, WholeInv, [Next]_vars
    PROVE  [WholeQueue!Next]_(WholeQueue!vars)
<1>1. CASE use # "whole" \/ UNCHANGED vars
  <2>1. use' = use
    BY DEF Next, vars
  <2>2. CASE use # "whole"
    BY <2>1, <2>2 DEF WholeQueue!vars, Whole
  <2>3. CASE UNCHANGED vars
    BY <2>3 DEF vars, WholeQueue!vars, Whole, Readable, ReadableBytes
  <2>4. QED
    BY <1>1, <2>2, <2>3
<1>2. CASE use = "whole" /\ Next
  <2>0. /\ Ordered(b) /\ b.r = kCheapPrepend /\ use' = use
        /\ Whole(Readable(b)) = Readable(b) /\ Whole(Readable(b))' = Readable(b') /\ Whole(last)' = last'
    <3>1. use' = use
      BY DEF Next, vars
    <3>2. QED
      BY <1>2, <3>1 DEF IdxInv, Sound, WholeInv, Whole, Readable, ReadableBytes
  <2>1. PICK size \in Nat, r \in Nat, w \in Nat : \E cell \in [0..(size - 1) -> Byte] :
               InOrder(size, r, w) /\ b = Buf(size, cell, r, w)
    BY <2>0, OrderedParts
  <2>2. PICK cell \in [0..(size - 1) -> Byte] : InOrder(size, r, w) /\ b = Buf(size, cell, r, w)
    BY <2>1
  <2>3. WritableBytes(b) = size - w /\ b.w = w /\ b.size = size /\ b.r = r /\ b.cell = cell
    BY <2>2, MakeSpaceTests DEF Buf
  <2>4. Readable(b) \in Seq(Byte)
    BY <2>0, ReadableIs
  <2>5. ASSUME NEW s \in Data, AppendData(s) \/ ReadFd(s) \/ HasWritten(s)
        PROVE  Readable(b') = Readable(b) \o s /\ last' = s
    <3>0. s \in Seq(Byte) /\ Len(s) \in Nat /\ last' = s
      BY <2>5, DataIsSeq DEF AppendData, ReadFd, HasWritten
    <3>1. CASE AppendData(s)
      BY <2>0, <3>0, <3>1, DoAppendAddsBack DEF AppendData
    <3>2. CASE (ReadFd(s) \/ HasWritten(s)) /\ Len(s) <= size - w
      <4>1. b' = WriteTo(b, s)
        BY <2>3, <3>2 DEF ReadFd, HasWritten
      <4>2. b.w + Len(s) <= b.size
        BY <2>3, <3>0, <3>2
      <4>3. QED
        BY <2>0, <3>0, <4>1, <4>2, WriteAddsBack
    <3>3. CASE ReadFd(s) /\ ~(Len(s) <= size - w)
      <4>1. PICK n : n = size - w
        OBVIOUS
      <4>2. n \in Nat /\ n <= Len(s) /\ w + n = size /\ size < SizeMax
        BY <2>2, <3>0, <3>3, <4>1, SizeAssumption DEF InOrder
      <4>3. PICK s1, s2 : s1 = SubSeq(s, 1, n) /\ s2 = SubSeq(s, n + 1, Len(s))
        OBVIOUS
      <4>4. s1 \in Seq(Byte) /\ s2 \in Seq(Byte) /\ Len(s1) = n /\ s1 \o s2 = s
        <5>1. \A i \in 1..Len(s) : s[i] \in Byte
          BY <3>0
        <5>2. s1 \in Seq(Byte) /\ s2 \in Seq(Byte) /\ Len(s1) = n /\ Len(s2) = Len(s) - n
          BY <3>0, <4>2, <4>3, <5>1, SubSeqProperties
        <5>3. Len(s1 \o s2) = Len(s) /\ s1 \o s2 \in Seq(Byte)
          BY <3>0, <4>2, <5>2
        <5>4. ASSUME NEW i \in 1..Len(s) PROVE (s1 \o s2)[i] = s[i]
          <6>1. /\ (s1 \o s2)[i] = IF i <= n THEN s1[i] ELSE s2[i - n]
                /\ i \in Nat /\ i >= 1 /\ i <= Len(s)
            BY <3>0, <4>2, <5>2, ConcatProperties
          <6>2. CASE i <= n
            <7>1. i \in 1..(n - 1 + 1) /\ \A j \in 1..n : s[j] \in Byte
              BY <3>0, <4>2, <5>1, <6>1, <6>2
            <7>2. s1[i] = s[1 + i - 1]
              BY <4>2, <4>3, <7>1, SubSeqProperties
            <7>3. QED
              BY <6>1, <6>2, <7>2
          <6>3. CASE i > n
            <7>1. /\ i - n \in 1..(Len(s) - (n + 1) + 1) /\ n + 1 \in Int /\ Len(s) \in Int
                  /\ \A j \in (n + 1)..Len(s) : s[j] \in Byte
              BY <3>0, <4>2, <5>1, <6>1, <6>3
            <7>2. s2[i - n] = s[(n + 1) + (i - n) - 1]
              BY <4>3, <7>1, SubSeqProperties
            <7>3. (n + 1) + (i - n) - 1 = i /\ ~(i <= n)
              BY <4>2, <6>1, <6>3
            <7>4. QED
              BY <6>1, <7>2, <7>3
          <6>4. QED
            BY <4>2, <6>1, <6>2, <6>3
        <5>5. QED
          BY <3>0, <5>2, <5>3, <5>4, SeqEqual
      <4>5. PICK x : x = Buf(size, CopyTo(cell, w, s1), r, size) /\ DoAppend(x, s2)
        BY <2>3, <3>3, <4>1, <4>3 DEF ReadFd
      <4>6. x = WriteTo(b, s1)
        <5>1. Plus(w, Len(s1)) = size
          <6>1. w \in Nat /\ Len(s1) \in Nat /\ w < SizeMax /\ w + Len(s1) = size /\ size < SizeMax
            BY <2>2, <4>2, <4>4, SizeAssumption DEF InOrder
          <6>2. QED
            BY <6>1, NoWrap
        <5>2. QED
          BY <2>3, <4>5, <5>1 DEF WriteTo
      <4>7. b.w + Len(s1) <= b.size
        BY <2>3, <4>2, <4>4
      <4>8. Ordered(x) /\ x.r = kCheapPrepend /\ Readable(x) = Readable(b) \o s1
        <5>1. Ordered(x)
          BY <2>0, <4>4, <4>6, <4>7, WriteOrdered
        <5>2. x.r = kCheapPrepend
          BY <2>0, <4>6 DEF WriteTo, Buf
        <5>3. Readable(x) = Readable(b) \o s1
          BY <2>0, <4>4, <4>6, <4>7, WriteAddsBack
        <5>4. QED
          BY <5>1, <5>2, <5>3
      <4>9. Readable(b') = (Readable(b) \o s1) \o s2
        BY <4>4, <4>5, <4>8, DoAppendAddsBack
      <4>10. (Readable(b) \o s1) \o s2 = Readable(b) \o (s1 \o s2)
        <5>1. PICK q : q = Readable(b) /\ q \in Seq(Byte)
          BY <2>4
        <5>2. (q \o s1) \o s2 = q \o (s1 \o s2)
          BY <4>4, <5>1, Assoc
        <5>3. QED
          BY <5>1, <5>2
      <4>11. QED
        BY <3>0, <4>4, <4>9, <4>10
    <3>4. HasWritten(s) => Len(s) <= size - w
      BY <2>3 DEF HasWritten
    <3>5. QED
      BY <2>5, <3>1, <3>2, <3>3, <3>4, <3>0
  <2>6. ASSUME NEW s \in Data, AppendData(s) \/ ReadFd(s) \/ HasWritten(s) PROVE WholeQueue!AddBack
    BY <2>0, <2>5, <2>6 DEF WholeQueue!AddBack
  <2>7. ASSUME NEW n \in 0..MaxLen, ReserveSpace(n) PROVE WholeQueue!AddBack
    <3>1. n \in Nat /\ last' = <<>> /\ b' = MakeSpace(b, n) /\ MakeSpace(b, n).size <= MaxSize
      BY <2>7, SizeAssumption DEF ReserveSpace
    <3>2. Readable(b') = Readable(b)
      BY <2>0, <3>1, MakeSpaceKeeps
    <3>3. Readable(b) \o <<>> = Readable(b)
      BY <2>4, ConcatEmptySeq
    <3>4. QED
      BY <2>0, <3>1, <3>2, <3>3 DEF WholeQueue!AddBack
  <2>8. ASSUME RetrieveAll PROVE WholeQueue!TakeFront
    <3>1. b' = Buf(size, cell, kCheapPrepend, kCheapPrepend) /\ last' = Readable(b)
      BY <2>3, <2>8 DEF RetrieveAll, Reset
    <3>2. InOrder(size, kCheapPrepend, kCheapPrepend)
      BY <2>2, SizeAssumption DEF InOrder
    <3>3. Readable(b') \in Seq(Byte) /\ Len(Readable(b')) = kCheapPrepend - kCheapPrepend
      <4>1. PICK y : y = b'
        OBVIOUS
      <4>2. Ordered(y) /\ y.w = kCheapPrepend /\ y.r = kCheapPrepend
        BY <3>1, <3>2, <4>1, OrderedIntro DEF Buf
      <4>3. Readable(y) \in Seq(Byte) /\ Len(Readable(y)) = kCheapPrepend - kCheapPrepend
        BY <4>2, ReadableIs
      <4>4. QED
        BY <4>1, <4>3
    <3>4. Readable(b') = <<>>
      BY <3>3, SizeAssumption, EmptySeq
    <3>5. Readable(b) = Readable(b) \o <<>>
      BY <2>4, ConcatEmptySeq
    <3>6. QED
      BY <2>0, <3>1, <3>4, <3>5 DEF WholeQueue!TakeFront
  <2>9. CASE UNCHANGED vars
    BY <1>1, <2>9
  <2>10. QED
    BY <1>2, <2>6, <2>7, <2>8, <2>9 DEF Next, WholeQueue!Next
<1>3. QED
  BY <1>1, <1>2

\* For every size: a user who always takes the data whole sees a queue of bytes,
\* through every move of the indices and every growth of the vector.
THEOREM BufferImplementsByteQueue == Spec => ImplementsByteQueue
<1>1. Init => IdxInv /\ WholeInv
  BY InitIdx DEF Init, WholeInv, NewBuffer, Buf
<1>2. IdxInv /\ WholeInv /\ [Next]_vars => IdxInv' /\ WholeInv'
  BY StepIdx, StepWhole
<1>3. Init => WholeQueue!Init
  <2>1. SUFFICES ASSUME Init PROVE WholeQueue!Init
    OBVIOUS
  <2>2. PICK n, c : n = kCheapPrepend + kInitialSize /\ c = Zeros(n)
    OBVIOUS
  <2>3. b = Buf(n, c, kCheapPrepend, kCheapPrepend) /\ last = <<>>
    BY <2>1, <2>2 DEF Init, NewBuffer
  <2>4. c \in [0..(n - 1) -> Byte]
    BY <2>2, ByteAssumption DEF Zeros
  <2>5. InOrder(n, kCheapPrepend, kCheapPrepend)
    BY <2>2, SizeAssumption DEF InOrder
  <2>6. Readable(b) \in Seq(Byte) /\ Len(Readable(b)) = kCheapPrepend - kCheapPrepend
    <3>1. Ordered(b) /\ b.w = kCheapPrepend /\ b.r = kCheapPrepend
      BY <2>3, <2>4, <2>5, OrderedIntro DEF Buf
    <3>2. QED
      BY <3>1, ReadableIs
  <2>7. Readable(b) = <<>>
    BY <2>6, SizeAssumption, EmptySeq
  <2>8. QED
    BY <2>3, <2>7 DEF WholeQueue!Init, Whole
<1>4. IdxInv /\ WholeInv /\ [Next]_vars => [WholeQueue!Next]_(WholeQueue!vars)
  BY StepQueue
<1>5. QED
  BY <1>1, <1>2, <1>3, <1>4, PTL DEF Spec, ImplementsByteQueue, WholeQueue!Spec
-----------------------------------------------------------------------------
(***************************************************************************)
(* Every operation, prepend and shrink included: readerIndex_ may now be   *)
(* below kCheapPrepend, so that makeSpace's test wraps around and the data *)
(* may be moved where there is no room for it.  The indices are inside the *)
(* vector unless the copy left it or an assertion failed.                  *)
(***************************************************************************)
Inside(x) == IsBuffer(x) /\ kCheapPrepend <= x.size /\ x.r <= x.w /\ x.w <= x.size

InsideInv == TypeOK /\ kCheapPrepend <= b.size /\ (Intact => b.r <= b.w /\ b.w <= b.size)

\* Taking any well-typed buffer apart, and putting one together.
LEMMA BufferParts ==
    ASSUME NEW x, IsBuffer(x)
    PROVE  /\ x.size \in Nat /\ x.size <= MaxSize /\ x.r \in Nat /\ x.w \in Nat
           /\ x.r < SizeMax /\ x.w < SizeMax /\ x.cell \in [0..(x.size - 1) -> Byte]
           /\ x = Buf(x.size, x.cell, x.r, x.w)
<1>1. x.size \in 0..MaxSize /\ x.cell \in Cells /\ DOMAIN x.cell = 0..(x.size - 1)
  BY DEF IsBuffer
<1>2. x.cell \in [0..(x.size - 1) -> Byte]
  BY <1>1 DEF Cells
<1>3. x = Buf(x.size, x.cell, x.r, x.w)
  BY DEF IsBuffer, Buf
<1>4. x.r \in 0..(SizeMax - 1) /\ x.w \in 0..(SizeMax - 1)
  BY DEF IsBuffer
<1>5. QED
  BY <1>1, <1>2, <1>3, <1>4, SizeAssumption

LEMMA BufferIntro ==
    ASSUME NEW x, NEW size, NEW cell, NEW r, NEW w, x = Buf(size, cell, r, w),
           size \in Nat, size <= MaxSize, cell \in [0..(size - 1) -> Byte],
           r \in Nat, r < SizeMax, w \in Nat, w < SizeMax
    PROVE  IsBuffer(x) /\ x.size = size /\ x.cell = cell /\ x.r = r /\ x.w = w
<1>1. size \in 0..MaxSize /\ r \in 0..(SizeMax - 1) /\ w \in 0..(SizeMax - 1)
  BY SizeAssumption
<1>2. cell \in Cells /\ DOMAIN cell = 0..(size - 1)
  BY <1>1 DEF Cells
<1>3. QED
  BY <1>1, <1>2 DEF IsBuffer, Buf

\* Every size_t is below SizeMax; a difference that wraps is above every length.
LEMMA Wraps ==
    ASSUME NEW x \in Nat, NEW y \in Nat
    PROVE  /\ Plus(x, y) \in Nat /\ Plus(x, y) < SizeMax
           /\ Minus(x, y) \in Nat /\ Minus(x, y) < SizeMax
           /\ x < y /\ y <= MaxSize => Minus(x, y) > MaxLen
<1>1. SizeMax \in Nat /\ SizeMax > 0 /\ MaxSize \in Nat /\ MaxLen \in Nat /\ MaxSize + MaxLen < SizeMax
  BY SizeAssumption
<1>2. /\ Plus(x, y) \in Nat /\ Plus(x, y) < SizeMax
      /\ Minus(x, y) \in Nat /\ Minus(x, y) < SizeMax
  BY <1>1 DEF Plus, Minus
<1>3. ASSUME x < y /\ y <= MaxSize PROVE Minus(x, y) > MaxLen
  <2>1. PICK z : z = SizeMax + x - y
    OBVIOUS
  <2>2. z \in Nat /\ z < SizeMax /\ z > MaxLen /\ x - y = z - SizeMax
    BY <1>1, <1>3, <2>1
  <2>3. (z - SizeMax) % SizeMax = z
    BY <1>1, <2>2
  <2>4. QED
    BY <2>2, <2>3 DEF Minus
<1>4. QED
  BY <1>2, <1>3

\* makeSpace keeps the indices inside unless its copy left the vector.
LEMMA MakeSpaceInside ==
    ASSUME NEW x, Inside(x), NEW len \in Nat, NEW m, m = MakeSpace(x, len), m.size <= MaxSize
    PROVE  /\ IsBuffer(m) /\ kCheapPrepend <= m.size
           /\ ~MoveOutOfBounds(x, len) => Inside(m)
<1>1. /\ x.size \in Nat /\ x.size <= MaxSize /\ x.r \in Nat /\ x.w \in Nat
      /\ x.r < SizeMax /\ x.w < SizeMax /\ x.cell \in [0..(x.size - 1) -> Byte]
      /\ kCheapPrepend <= x.size /\ x.r <= x.w /\ x.w <= x.size
  BY BufferParts DEF Inside
<1>2. CASE Enough(x, len)
  BY <1>2 DEF MakeSpace, Inside
<1>3. CASE Moves(x, len)
  <2>1. PICK d, c, k, n : /\ d = [i \in 1..x.w |-> x.cell[i - 1]] /\ c = CopyTo(x.cell, kCheapPrepend, d)
                          /\ k = ReadableBytes(x) /\ n = Plus(kCheapPrepend, k)
    OBVIOUS
  <2>2. m = Buf(x.size, c, kCheapPrepend, n)
    BY <1>3, <2>1 DEF Moves, MakeSpace, Move
  <2>3. k = x.w - x.r /\ k \in Nat
    BY <1>1, <2>1, NoWrap DEF ReadableBytes
  <2>4. d \in Seq(Byte)
    BY <1>1, <2>1, CellsAsSeq
  <2>5. c \in [0..(x.size - 1) -> Byte]
    BY <1>1, <2>1, <2>4, CopyType, SizeAssumption
  <2>6. n \in Nat /\ n < SizeMax
    BY <2>1, <2>3, Wraps, SizeAssumption
  <2>7. n = kCheapPrepend + k
    <3>1. kCheapPrepend < SizeMax /\ kCheapPrepend + k < SizeMax /\ kCheapPrepend \in Nat
      BY <1>1, <2>3, SizeAssumption
    <3>2. QED
      BY <2>1, <2>3, <3>1, NoWrap
  <2>8. IsBuffer(m) /\ m.size = x.size /\ m.r = kCheapPrepend /\ m.w = n
    BY <1>1, <2>2, <2>5, <2>6, BufferIntro, SizeAssumption
  <2>9. ASSUME ~MoveOutOfBounds(x, len) PROVE m.r <= m.w /\ m.w <= m.size
    <3>1. kCheapPrepend + x.w <= x.size
      BY <1>1, <1>3, <2>9, SizeAssumption DEF MoveOutOfBounds, PastEnd
    <3>2. kCheapPrepend <= n /\ n <= x.size
      BY <1>1, <2>3, <2>7, <3>1, SizeAssumption
    <3>3. QED
      BY <2>8, <3>2
  <2>10. QED
    BY <1>1, <2>8, <2>9 DEF Inside
<1>4. CASE ~Enough(x, len) /\ ~Moves(x, len)
  <2>1. PICK n, c : n = x.w + len /\ c = Resized(x.cell, x.size, n)
    OBVIOUS
  <2>2. m = Buf(n, c, x.r, x.w)
    BY <1>4, <2>1 DEF Moves, MakeSpace, Grow
  <2>3. n \in Nat /\ n <= MaxSize
    BY <1>1, <2>1, <2>2 DEF Buf
  <2>4. c \in [0..(n - 1) -> Byte]
    BY <1>1, <2>1, <2>3, ByteAssumption DEF Resized
  <2>5. IsBuffer(m) /\ m.size = n /\ m.r = x.r /\ m.w = x.w
    BY <1>1, <2>2, <2>3, <2>4, BufferIntro
  <2>6. WritableBytes(x) = x.size - x.w
    <3>1. x.size < SizeMax
      BY <1>1, SizeAssumption
    <3>2. QED
      BY <1>1, <3>1, NoWrap DEF WritableBytes
  <2>7. n >= x.size
    BY <1>1, <1>4, <2>1, <2>6 DEF Enough
  <2>8. QED
    BY <1>1, <2>1, <2>3, <2>5, <2>7, SizeAssumption DEF Inside
<1>5. QED
  BY <1>2, <1>3, <1>4

\* Writing s behind the data keeps the types, and the indices if there was room.
LEMMA WriteInside ==
    ASSUME NEW x, IsBuffer(x), kCheapPrepend <= x.size, NEW s \in Seq(Byte), NEW y, y = WriteTo(x, s)
    PROVE  /\ IsBuffer(y) /\ kCheapPrepend <= y.size
           /\ Inside(x) /\ x.w + Len(s) <= x.size => Inside(y)
<1>1. /\ x.size \in Nat /\ x.size <= MaxSize /\ x.r \in Nat /\ x.w \in Nat
      /\ x.r < SizeMax /\ x.w < SizeMax /\ x.cell \in [0..(x.size - 1) -> Byte]
  BY BufferParts
<1>2. PICK c, n : c = CopyTo(x.cell, x.w, s) /\ n = Plus(x.w, Len(s))
  OBVIOUS
<1>3. y = Buf(x.size, c, x.r, n)
  BY <1>2 DEF WriteTo
<1>4. c \in [0..(x.size - 1) -> Byte]
  BY <1>1, <1>2, CopyType
<1>5. Len(s) \in Nat
  OBVIOUS
<1>6. n \in Nat /\ n < SizeMax
  BY <1>1, <1>2, <1>5, Wraps
<1>7. IsBuffer(y) /\ y.size = x.size /\ y.r = x.r /\ y.w = n
  BY <1>1, <1>3, <1>4, <1>6, BufferIntro
<1>8. ASSUME Inside(x), x.w + Len(s) <= x.size PROVE Inside(y)
  <2>1. x.r <= x.w
    BY <1>8 DEF Inside
  <2>2. x.w + Len(s) < SizeMax
    BY <1>1, <1>5, <1>8, SizeAssumption
  <2>3. n = x.w + Len(s)
    BY <1>1, <1>2, <1>5, <2>2, NoWrap
  <2>4. QED
    BY <1>1, <1>5, <1>7, <1>8, <2>1, <2>3 DEF Inside
<1>9. QED
  BY <1>7, <1>8

\* append keeps the indices inside unless one of its copies left the vector.
LEMMA DoAppendInside ==
    ASSUME NEW x, Inside(x), NEW s \in Seq(Byte), DoAppend(x, s)
    PROVE  /\ IsBuffer(b') /\ kCheapPrepend <= b'.size
           /\ failed' \in BOOLEAN /\ outOfBounds' \in BOOLEAN
           /\ ~outOfBounds' => Inside(b')
<1>1. PICK m : m = MakeSpace(x, Len(s))
  OBVIOUS
<1>2. /\ m.size <= MaxSize /\ b' = WriteTo(m, s) /\ Len(s) \in Nat
      /\ outOfBounds' <=> MoveOutOfBounds(x, Len(s)) \/ PastEnd(m, m.w, Len(s))
  <2>1. m.size <= MaxSize /\ b' = WriteTo(m, s)
    BY <1>1 DEF DoAppend
  <2>2. outOfBounds' = (MoveOutOfBounds(x, Len(s)) \/ PastEnd(m, m.w, Len(s)))
    BY <1>1, Zenon DEF DoAppend
  <2>3. Len(s) \in Nat
    OBVIOUS
  <2>4. QED
    BY <2>1, <2>2, <2>3
<1>3. failed' \in BOOLEAN
  <2>1. failed' = (WritableBytes(m) < Len(s))
    BY <1>1 DEF DoAppend
  <2>2. (WritableBytes(m) < Len(s)) \in BOOLEAN
    OBVIOUS
  <2>3. QED
    BY <2>1, <2>2
<1>4. outOfBounds' \in BOOLEAN
  BY DEF DoAppend
<1>5. /\ IsBuffer(m) /\ kCheapPrepend <= m.size
      /\ ~MoveOutOfBounds(x, Len(s)) => Inside(m)
  BY <1>1, <1>2, MakeSpaceInside
<1>6. m.size \in Nat /\ m.w \in Nat
  BY <1>5, BufferParts
<1>7. ~PastEnd(m, m.w, Len(s)) => m.w + Len(s) <= m.size
  BY <1>2, <1>6 DEF PastEnd
<1>8. PICK y : y = b'
  OBVIOUS
<1>9. /\ IsBuffer(y) /\ kCheapPrepend <= y.size
      /\ Inside(m) /\ m.w + Len(s) <= m.size => Inside(y)
  BY <1>2, <1>5, <1>8, WriteInside
<1>10. QED
  BY <1>2, <1>3, <1>4, <1>5, <1>7, <1>8, <1>9

\* The readable bytes of a buffer whose indices are inside.
LEMMA ReadableInside ==
    ASSUME NEW x, Inside(x), NEW q, q = Readable(x)
    PROVE  q \in Seq(Byte) /\ Len(q) = x.w - x.r /\ ReadableBytes(x) = x.w - x.r
<1>1. /\ x.size \in Nat /\ x.r \in Nat /\ x.w \in Nat /\ x.w < SizeMax
      /\ x.r <= x.w /\ x.w <= x.size /\ x.cell \in [0..(x.size - 1) -> Byte]
  BY BufferParts DEF Inside
<1>2. PICK n : n = x.w - x.r /\ n \in Nat
  BY <1>1
<1>3. ReadableBytes(x) = n
  BY <1>1, <1>2, NoWrap DEF ReadableBytes
<1>4. q = [i \in 1..n |-> x.cell[x.r + i - 1]]
  BY <1>3 DEF Readable
<1>5. \A i \in 1..n : x.r + i - 1 \in 0..(x.size - 1)
  BY <1>1, <1>2
<1>6. q \in [1..n -> Byte]
  BY <1>1, <1>4, <1>5
<1>7. QED
  BY <1>2, <1>3, <1>6

\* retrieveAll needs a vector of at least kCheapPrepend bytes.
LEMMA ResetInside ==
    ASSUME NEW x, Inside(x), NEW y, y = Reset(x)
    PROVE  Inside(y)
<1>1. x.size \in Nat /\ x.size <= MaxSize /\ x.cell \in [0..(x.size - 1) -> Byte] /\ kCheapPrepend <= x.size
  BY BufferParts DEF Inside
<1>2. y = Buf(x.size, x.cell, kCheapPrepend, kCheapPrepend)
  BY DEF Reset
<1>3. kCheapPrepend \in Nat /\ kCheapPrepend < SizeMax
  BY SizeAssumption
<1>4. IsBuffer(y) /\ y.size = x.size /\ y.r = kCheapPrepend /\ y.w = kCheapPrepend
  BY <1>1, <1>2, <1>3, BufferIntro
<1>5. QED
  BY <1>1, <1>3, <1>4 DEF Inside

\* shrink leaves the indices where they were: its assertion notices when that is
\* outside the new vector.
LEMMA ShrinkInside ==
    ASSUME Inside(b), NEW reserve \in 0..MaxLen, Shrink(reserve)
    PROVE  /\ IsBuffer(b') /\ kCheapPrepend <= b'.size
           /\ failed' \in BOOLEAN /\ (~failed' => Inside(b'))
<1>1. /\ b.size \in Nat /\ b.size <= MaxSize /\ b.r \in Nat /\ b.w \in Nat /\ b.r < SizeMax
      /\ b.w < SizeMax /\ b.r <= b.w /\ b.w <= b.size
  BY BufferParts DEF Inside
<1>2. PICK r, w, q, n, c, x :
           /\ r = b.r /\ w = b.w /\ q = Readable(b)
           /\ n = kCheapPrepend + ReadableBytes(b) + reserve
           /\ c = CopyTo(Zeros(n), kCheapPrepend, q) /\ x = Buf(n, c, r, w)
  OBVIOUS
<1>3. n <= MaxSize /\ b' = x /\ failed' = (WritableBytes(x) # reserve)
  BY <1>2 DEF Shrink
<1>4. q \in Seq(Byte) /\ ReadableBytes(b) = w - r
  BY <1>2, ReadableInside
<1>5. kCheapPrepend \in Nat /\ reserve \in Nat /\ reserve <= MaxLen /\ MaxLen \in Nat
  BY SizeAssumption
<1>6. n \in Nat /\ kCheapPrepend <= n
  BY <1>1, <1>2, <1>4, <1>5
<1>7. Zeros(n) \in [0..(n - 1) -> Byte]
  BY ByteAssumption DEF Zeros
<1>8. c \in [0..(n - 1) -> Byte]
  BY <1>2, <1>4, <1>5, <1>6, <1>7, CopyType
<1>9. IsBuffer(x) /\ x.size = n /\ x.r = r /\ x.w = w
  BY <1>1, <1>2, <1>3, <1>6, <1>8, BufferIntro
<1>10. failed' \in BOOLEAN
  BY <1>3
<1>11. ASSUME ~failed' PROVE Inside(x)
  <2>1. Minus(n, w) = reserve
    BY <1>3, <1>9, <1>11 DEF WritableBytes
  <2>2. ~(n < w /\ w <= MaxSize)
    <3>1. n < w /\ w <= MaxSize => Minus(n, w) > MaxLen
      BY <1>1, <1>2, <1>6, Wraps
    <3>2. QED
      BY <1>5, <2>1, <3>1
  <2>3. w <= n /\ r <= w
    BY <1>1, <1>2, <1>6, <2>2, SizeAssumption
  <2>4. QED
    BY <1>6, <1>9, <2>3 DEF Inside
<1>12. QED
  BY <1>3, <1>6, <1>9, <1>10, <1>11

LEMMA InitInside == Init => InsideInv
<1> SUFFICES ASSUME Init PROVE InsideInv
  OBVIOUS
<1>1. PICK n, c : n = kCheapPrepend + kInitialSize /\ c = Zeros(n)
  OBVIOUS
<1>2. b = Buf(n, c, kCheapPrepend, kCheapPrepend)
  BY <1>1 DEF Init, NewBuffer
<1>3. c \in [0..(n - 1) -> Byte]
  BY <1>1, ByteAssumption DEF Zeros
<1>4. n \in Nat /\ n <= MaxSize /\ kCheapPrepend \in Nat /\ kCheapPrepend < SizeMax /\ kCheapPrepend <= n
  BY <1>1, SizeAssumption
<1>5. IsBuffer(b) /\ b.size = n /\ b.r = kCheapPrepend /\ b.w = kCheapPrepend
  BY <1>2, <1>3, <1>4, BufferIntro
<1>6. use \in Uses /\ failed \in BOOLEAN /\ outOfBounds \in BOOLEAN /\ last \in Seq(Byte)
  <2>1. last \in Seq(Byte)
    BY EmptySeq DEF Init
  <2>2. use \in Uses /\ failed \in BOOLEAN /\ outOfBounds \in BOOLEAN
    BY Zenon DEF Init
  <2>3. QED
    BY <2>1, <2>2
<1>7. QED
  BY <1>4, <1>5, <1>6 DEF InsideInv, TypeOK

LEMMA StepInside == InsideInv /\ [Next]_vars => InsideInv'
<1> SUFFICES ASSUME InsideInv, [Next]_vars PROVE InsideInv'
  OBVIOUS
<1> DEFINE Kept == /\ IsBuffer(b') /\ kCheapPrepend <= b'.size
                   /\ failed' \in BOOLEAN /\ outOfBounds' \in BOOLEAN /\ last' \in Seq(Byte)
                   /\ ~failed' /\ ~outOfBounds' => Inside(b')
<1>1. CASE UNCHANGED vars
  BY <1>1 DEF vars, InsideInv, TypeOK, Intact
<1>2. CASE Intact /\ ~UNCHANGED vars
  <2>0. Inside(b) /\ ~failed /\ ~outOfBounds
    BY <1>2 DEF InsideInv, TypeOK, Intact, Inside
  <2>1. /\ b.size \in Nat /\ b.size <= MaxSize /\ b.r \in Nat /\ b.w \in Nat /\ b.r < SizeMax
        /\ b.w < SizeMax /\ b.r <= b.w /\ b.w <= b.size /\ kCheapPrepend <= b.size
        /\ b.cell \in [0..(b.size - 1) -> Byte] /\ IsBuffer(b)
    BY <2>0, BufferParts DEF Inside
  <2>2. /\ Readable(b) \in Seq(Byte) /\ Len(Readable(b)) = b.w - b.r
        /\ ReadableBytes(b) = b.w - b.r
    BY <2>0, ReadableInside
  <2>3. WritableBytes(b) = b.size - b.w
    <3>1. b.size < SizeMax
      BY <2>1, SizeAssumption
    <3>2. QED
      BY <2>1, <3>1, NoWrap DEF WritableBytes
  <2>4. ASSUME NEW s \in Data, AppendData(s) PROVE Kept
    BY <2>0, <2>4, DataIsSeq, DoAppendInside DEF AppendData
  <2>5. ASSUME NEW s \in Data, b' = WriteTo(b, s), Len(s) <= WritableBytes(b),
               UNCHANGED <<failed, outOfBounds>>, last' = s
        PROVE  Kept
    <3>1. s \in Seq(Byte) /\ Len(s) \in Nat
      BY DataIsSeq
    <3>2. b.w + Len(s) <= b.size
      BY <2>1, <2>3, <2>5, <3>1
    <3>3. PICK y : y = b'
      OBVIOUS
    <3>4. Inside(y)
      BY <2>0, <2>1, <2>5, <3>1, <3>2, <3>3, WriteInside
    <3>5. ~failed' /\ ~outOfBounds' /\ last' \in Seq(Byte)
      BY <2>0, <2>5, <3>1
    <3>6. failed' \in BOOLEAN /\ outOfBounds' \in BOOLEAN
      BY <2>5 DEF InsideInv, TypeOK
    <3>7. QED
      BY <3>3, <3>4, <3>5, <3>6 DEF Inside
  <2>6. ASSUME NEW s \in Data, ReadFd(s) PROVE Kept
    <3>1. s \in Seq(Byte) /\ Len(s) \in Nat /\ last' = s
      BY <2>6, DataIsSeq DEF ReadFd
    <3>2. CASE Len(s) <= WritableBytes(b)
      BY <2>5, <2>6, <3>1, <3>2 DEF ReadFd
    <3>3. CASE ~(Len(s) <= WritableBytes(b))
      <4>1. PICK n, s1, s2, c : /\ n = WritableBytes(b) /\ s1 = SubSeq(s, 1, n)
                                /\ s2 = SubSeq(s, n + 1, Len(s)) /\ c = CopyTo(b.cell, b.w, s1)
        OBVIOUS
      <4>2. PICK x : x = Buf(b.size, c, b.r, b.size) /\ DoAppend(x, s2)
        BY <2>6, <3>3, <4>1 DEF ReadFd
      <4>3. n \in Nat /\ n <= Len(s)
        BY <2>1, <2>3, <3>1, <3>3, <4>1
      <4>4. s1 \in Seq(Byte) /\ s2 \in Seq(Byte)
        <5>1. \A i \in 1..Len(s) : s[i] \in Byte
          BY <3>1
        <5>2. QED
          BY <3>1, <4>1, <4>3, <5>1, SubSeqProperties
      <4>5. c \in [0..(b.size - 1) -> Byte]
        BY <2>1, <4>1, <4>4, CopyType
      <4>6. b.size < SizeMax
        BY <2>1, SizeAssumption
      <4>7. IsBuffer(x) /\ x.size = b.size /\ x.r = b.r /\ x.w = b.size
        BY <2>1, <4>2, <4>5, <4>6, BufferIntro
      <4>8. Inside(x)
        BY <2>1, <4>7 DEF Inside
      <4>9. QED
        BY <3>1, <4>2, <4>4, <4>8, DoAppendInside
    <3>4. QED
      BY <3>2, <3>3
  <2>7. ASSUME NEW s \in Data, HasWritten(s) PROVE Kept
    BY <2>5, <2>7 DEF HasWritten
  <2>8. ASSUME NEW n \in 0..MaxLen, ReserveSpace(n) PROVE Kept
    <3>1. PICK m : m = MakeSpace(b, n)
      OBVIOUS
    <3>2. /\ m.size <= MaxSize /\ b' = m /\ failed' = (WritableBytes(m) < n)
          /\ outOfBounds' = MoveOutOfBounds(b, n) /\ last' = <<>>
      BY <2>8, <3>1 DEF ReserveSpace
    <3>3. n \in Nat
      BY SizeAssumption
    <3>4. /\ IsBuffer(m) /\ kCheapPrepend <= m.size
          /\ ~MoveOutOfBounds(b, n) => Inside(m)
      BY <2>0, <3>1, <3>2, <3>3, MakeSpaceInside
    <3>5. failed' \in BOOLEAN /\ outOfBounds' \in BOOLEAN
      BY <3>2 DEF MoveOutOfBounds
    <3>6. last' \in Seq(Byte)
      BY <3>2
    <3>7. QED
      BY <3>2, <3>4, <3>5, <3>6
  <2>9. ASSUME RetrieveAll PROVE Kept
    <3>1. PICK y : y = Reset(b)
      OBVIOUS
    <3>2. Inside(y)
      BY <2>0, <3>1, ResetInside
    <3>3. b' = y /\ last' = Readable(b) /\ ~failed' /\ ~outOfBounds'
      BY <2>0, <2>9, <3>1 DEF RetrieveAll
    <3>4. failed' \in BOOLEAN /\ outOfBounds' \in BOOLEAN
      BY <2>9 DEF RetrieveAll, InsideInv, TypeOK
    <3>5. QED
      BY <2>2, <3>2, <3>3, <3>4 DEF Inside
  <2>10. ASSUME NEW n \in 0..MaxSize, Retrieve(n) PROVE Kept
    <3>1. n \in Nat /\ n <= b.w - b.r
      BY <2>2, <2>10, SizeAssumption DEF Retrieve
    <3>r. b.r + n \in Nat /\ b.r + n <= b.w /\ b.r + n < SizeMax
      <4>1. PICK r, w : r = b.r /\ w = b.w /\ r \in Nat /\ w \in Nat /\ w < SizeMax /\ n <= w - r
        BY <2>1, <3>1
      <4>2. r + n \in Nat /\ r + n <= w /\ r + n < SizeMax
        BY <3>1, <4>1, SizeAssumption
      <4>3. QED
        BY <4>1, <4>2
    <3>2. Plus(b.r, n) = b.r + n
      BY <2>1, <3>1, <3>r, NoWrap
    <3>3. PICK y : y = b'
      OBVIOUS
    <3>4. Inside(y)
      <4>1. CASE b.r + n = b.w
        BY <2>0, <2>10, <3>2, <3>3, <4>1, ResetInside DEF Retrieve
      <4>2. CASE b.r + n # b.w
        <5>1. PICK k : k = b.r + n /\ k \in Nat /\ k <= b.w /\ k < SizeMax
          BY <3>r
        <5>2. y = Buf(b.size, b.cell, k, b.w)
          BY <2>10, <3>2, <3>3, <4>2, <5>1 DEF Retrieve
        <5>3. IsBuffer(y) /\ y.size = b.size /\ y.r = k /\ y.w = b.w
          BY <2>1, <5>1, <5>2, BufferIntro
        <5>4. QED
          BY <2>1, <5>1, <5>3 DEF Inside
      <4>3. QED
        BY <4>1, <4>2
    <3>5. last' \in Seq(Byte)
      <4>1. PICK q : q = Readable(b) /\ q \in Seq(Byte) /\ Len(q) = b.w - b.r
        BY <2>2
      <4>2. last' = SubSeq(q, 1, n)
        BY <2>10, <4>1 DEF Retrieve
      <4>3. \A i \in 1..n : q[i] \in Byte
        BY <2>1, <3>1, <4>1
      <4>4. QED
        BY <3>1, <4>2, <4>3, SubSeqProperties
    <3>6. ~failed' /\ ~outOfBounds'
      BY <2>0, <2>10 DEF Retrieve
    <3>7. failed' \in BOOLEAN /\ outOfBounds' \in BOOLEAN
      BY <2>10 DEF Retrieve, InsideInv, TypeOK
    <3>8. QED
      BY <3>3, <3>4, <3>5, <3>6, <3>7 DEF Inside
  <2>11. ASSUME NEW s \in Data, Prepend(s) PROVE Kept
    <3>1. s \in Seq(Byte) /\ Len(s) \in Nat /\ last' = s
      BY <2>11, DataIsSeq DEF Prepend
    <3>2. PICK k, c : k = b.r - Len(s) /\ c = CopyTo(b.cell, k, s)
      OBVIOUS
    <3>3. k \in Nat /\ k <= b.r /\ k < SizeMax
      <4>1. Len(s) <= b.r
        BY <2>1, <2>11, <3>1 DEF Prepend, PrependableBytes
      <4>2. PICK r, n : r = b.r /\ n = Len(s) /\ r \in Nat /\ n \in Nat /\ n <= r /\ r < SizeMax
        BY <2>1, <3>1, <4>1
      <4>3. k = r - n
        BY <3>2, <4>2
      <4>4. QED
        BY <4>2, <4>3, SizeAssumption
    <3>4. c \in [0..(b.size - 1) -> Byte]
      BY <2>1, <3>1, <3>2, <3>3, CopyType
    <3>5. PICK y : y = b'
      OBVIOUS
    <3>6. y = Buf(b.size, c, k, b.w)
      BY <2>11, <3>2, <3>5 DEF Prepend
    <3>7. IsBuffer(y) /\ y.size = b.size /\ y.r = k /\ y.w = b.w
      BY <2>1, <3>3, <3>4, <3>6, BufferIntro
    <3>8. Inside(y)
      BY <2>1, <3>3, <3>7 DEF Inside
    <3>9. ~failed' /\ ~outOfBounds'
      BY <2>0, <2>11 DEF Prepend
    <3>10. failed' \in BOOLEAN /\ outOfBounds' \in BOOLEAN
      BY <2>11 DEF Prepend, InsideInv, TypeOK
    <3>11. QED
      BY <3>1, <3>5, <3>8, <3>9, <3>10 DEF Inside
  <2>12. ASSUME NEW n \in 0..MaxLen, Shrink(n) PROVE Kept
    <3>1. /\ IsBuffer(b') /\ kCheapPrepend <= b'.size
          /\ failed' \in BOOLEAN /\ (~failed' => Inside(b'))
      BY <2>0, <2>12, ShrinkInside
    <3>2. last' = <<>> /\ outOfBounds' = outOfBounds
      BY <2>12 DEF Shrink
    <3>3. outOfBounds' \in BOOLEAN /\ last' \in Seq(Byte)
      BY <3>2 DEF InsideInv, TypeOK
    <3>4. QED
      BY <3>1, <3>3
  <2>13. Kept /\ use' = use
    BY <1>2, <2>4, <2>6, <2>7, <2>8, <2>9, <2>10, <2>11, <2>12 DEF Next
  <2>14. use' \in Uses
    BY <2>13 DEF InsideInv, TypeOK
  <2>15. QED
    BY <2>13, <2>14 DEF InsideInv, TypeOK, Intact, Inside
<1>3. QED
  BY <1>1, <1>2 DEF Next

\* For every size, every length of data and every sequence of calls, prepend and
\* shrink included: as long as no assertion of Buffer failed and no copy left the
\* vector, the indices are in order and inside it.
THEOREM IndicesStayInside == Spec => []IndicesInside
<1>1. Init => InsideInv
  BY InitInside
<1>2. InsideInv /\ [Next]_vars => InsideInv'
  BY StepInside
<1>3. InsideInv => IndicesInside
  BY DEF InsideInv, IndicesInside
<1>4. QED
  BY <1>1, <1>2, <1>3, PTL DEF Spec
=============================================================================
