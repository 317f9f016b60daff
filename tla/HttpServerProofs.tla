-------------------------- MODULE HttpServerProofs --------------------------
(***************************************************************************)
(* HttpServer for any inputs, any cuts of them into reads, any files and   *)
(* any BUFFER_SIZE: until makeSpace() moves the input, the parser finds    *)
(* what the reference definition finds in all of it; a response is whole   *)
(* on the wire when the server closes, and no file stays open behind it.   *)
(***************************************************************************)
EXTENDS HttpServer, SequenceTheorems, WellFoundedInduction, TLAPS

Symbols == Texts \cup {CR, LF, NUL}
AfterLine(s) == SubSeq(s, FirstCRLF(s) + 2, Len(s))
Resources == [code : Nat, size : Nat]
Units == ({"head"} \X Nat \X Nat) \cup ({"data"} \X Nat) \cup {<<"text">>, <<"garbled">>}

RequestType ==
    /\ input \in Seq(Symbols) /\ sent \in 0..Len(input) /\ got \in 0..sent
    /\ taken \in Seq(Symbols) /\ capacity \in Nat /\ Len(taken) + Len(buf) <= capacity
    /\ buf \in Seq(Symbols) /\ checkstate \in CheckState /\ url \in Resources
    /\ contentLength \in Int /\ (checkstate = "EXPECT_CONTENT" => contentLength > 0)
    /\ ret \in {"NO_REQUEST", "GET_REQUEST", "BAD_REQUEST", "decoding", "exception"}

ResponseType ==
    /\ headers \in Seq(Units) /\ body \in Seq(Units) /\ file \in Seq(Units)
    /\ respComplete \in BOOLEAN /\ fileOpen \in BOOLEAN /\ open \in Nat
    /\ answers \in Seq(Resources) /\ cut \in BOOLEAN

\* The queue never holds more than one task.
LoopType ==
    /\ output \in Seq(Units) /\ wire \in Seq(Units)
    /\ moved \subseteq {"input", "output"} /\ partly \in BOOLEAN
    /\ writing \in BOOLEAN /\ connected \in BOOLEAN
    /\ closedBy \in {"nobody", "peer", "server"}
    /\ peer \in {"open", "closed", "reset", "resetRead"}
    /\ pc \in {"poll", "read", "decode", "respond", "write", "tasks"}
    /\ ready \subseteq {"read", "write"}
    /\ queue \in {<<>>, <<"closeInLoop">>}
    /\ batch \in {<<>>, <<"writeComplete">>, <<"closeInLoop">>}

TypeOK == RequestType /\ ResponseType /\ LoopType

-----------------------------------------------------------------------------
(***************************************************************************)
(* The invariant about responses                                           *)
(***************************************************************************)
Deciding == pc \in {"decode", "respond"}

\* The loop and the connection.  writeComplete is run with nothing left to write.
LoopOK ==
    /\ pc # "tasks" => batch = <<>>
    /\ batch # <<>> => queue = <<>>
    /\ Deciding \/ (pc = "read" /\ "read" \in ready) => connected
    /\ connected <=> closedBy = "nobody"
    /\ ~connected => ~writing
    /\ batch = <<"writeComplete">> => connected /\ output = <<>> /\ ~writing
    /\ IsReset => got = sent
    /\ partly => output # <<>>

DecodeOK ==
    /\ pc = "decode" => ret = "exception" \/ (ret = "decoding" /\ checkstate # "GET_ALL")
    /\ pc = "respond" => \/ ret = "GET_REQUEST" /\ checkstate = "GET_ALL"
                         \/ ret = "BAD_REQUEST" /\ checkstate # "GET_ALL"

\* filefd_ belongs to a request that has been answered and not yet cleared.
FileOK ==
    /\ open = IF fileOpen THEN 1 ELSE 0
    /\ fileOpen => checkstate = "GET_ALL" /\ ~Deciding
    /\ checkstate = "GET_ALL" /\ ~respComplete => fileOpen \/ pc = "respond"
    /\ file # <<>> => fileOpen /\ ~respComplete

Closing == queue = <<"closeInLoop">> \/ batch = <<"closeInLoop">>

\* ClosedMeansAnswered promises this of a connection that is closed.
Done ==
    \/ cut
    \/ wire = Response(answers[1])
    \/ answers[1] = BadRequest /\ ("output" \in moved \/ IsPrefix(Response(BadRequest), wire))

NotYet ==
    /\ headers = <<>> /\ body = <<>> /\ output = <<>> /\ wire = <<>>
    /\ ~respComplete /\ ~fileOpen /\ ~writing
    /\ ~Closing /\ batch = <<>> /\ closedBy # "server"
    /\ checkstate = "GET_ALL" => pc = "respond"

\* Only a bad request is followed by another one before the response is written.
InProgress ==
    /\ Len(answers) = 1 => wire \o output \o file = Response(answers[1])
    /\ answers[1] # BadRequest => Len(answers) = 1 /\ checkstate = "GET_ALL" /\ ~Deciding
    /\ answers[1] = BadRequest => "output" \in moved \/ IsPrefix(Response(BadRequest), wire \o output)

\* A request that comes between close() and closeInLoop() is answered, but nothing
\* of the answer is written: the write event was not asked for when the loop polled.
AnswerOK ==
    /\ answers = <<>> => NotYet
    /\ (Closing \/ closedBy = "server") /\ fileOpen => Len(answers) > 1
    /\ answers # <<>> /\ connected /\ ~Closing => InProgress
    /\ (connected /\ Closing) \/ closedBy = "server" => Done
    /\ connected /\ queue # <<>> => IF pc \in {"tasks", "poll"} THEN ~writing ELSE "write" \notin ready
    /\ cut => IsReset /\ ~writing /\ ~Deciding /\ batch # <<"writeComplete">>

RespInv == TypeOK /\ LoopOK /\ DecodeOK /\ FileOK /\ AnswerOK

-----------------------------------------------------------------------------
(***************************************************************************)
(* The invariant about requests, with the input received so far as s       *)
(***************************************************************************)
\* The lines that the parser has taken when p is where the next one begins: cl is
\* what the last Content-length said.
LengthsBefore(s, p) == {l \in Lines(s) : l[1] < p /\ Field(LineText(s, l)) = "Content-length"}

Announces(s, p, cl) ==
    \/ LengthsBefore(s, p) = {} /\ cl = 0
    \/ \E l \in LengthsBefore(s, p) : /\ \A m \in LengthsBefore(s, p) : m[1] <= l[1]
                                      /\ cl = s[l[1]].value

Parsed(s, p, cl) ==
    /\ p - 2 \in FindCRLF(s) /\ StartsRequest(Line(s))
    /\ \A l \in Lines(s) : l[1] < p => l[1] # l[2] /\ ~Throws(LineText(s, l))
    /\ Announces(s, p, cl)

\* p is where the rest begins that is in input_.
Progress(s, p) ==
    CASE checkstate = "EXPECT_REQUESTLINE" -> p = 1 /\ contentLength = 0
      [] checkstate = "EXPECT_HEADER" -> Parsed(s, p, contentLength) /\ url = RequestURL(Line(s))
      [] checkstate = "EXPECT_CONTENT" ->
           /\ Parsed(s, p - 2, contentLength) /\ url = RequestURL(Line(s))
           /\ <<p - 2, p - 2>> \in Lines(s) /\ contentLength > 0
      [] OTHER -> FALSE

Rest(s, p) == SubSeq(s, p, Len(s))

Undecided(s) ==
    /\ pc # "respond" /\ ret # "exception" =>
         \E p \in 1..Len(s) + 1 : buf = Rest(s, p) /\ Progress(s, p)
    /\ ~Deciding => ret # "exception" /\ Reference(s) = "NO_REQUEST"
    /\ pc = "respond" /\ ret = "GET_REQUEST" => Reference(s) = "GET_REQUEST" /\ url = RequestURL(Line(s))
    /\ pc = "respond" /\ ret = "BAD_REQUEST" /\ NoLoneLF(s) => Reference(s) = "BAD_REQUEST"

Decided(s) ==
    \/ Reference(s) = "BAD_REQUEST" /\ answers[1] = BadRequest
    \/ Reference(s) = "GET_REQUEST" /\ answers[1] = RequestURL(Line(s))

ParseInv ==
    /\ answers = <<>> => Undecided(Received)
    /\ answers # <<>> /\ NoLoneLF(Received) => Decided(Received)

-----------------------------------------------------------------------------
(***************************************************************************)
(* Responses                                                               *)
(***************************************************************************)
LEMMA ContentsIs ==
    ASSUME NEW size \in Nat
    PROVE  Contents(size) \in Seq(Units) /\ Len(Contents(size)) = size
<1>1. \A i \in 1..size : <<"data", i>> \in Units
  BY DEF Units
<1>2. QED
  BY <1>1, IsASeq DEF Contents

LEMMA HeadIs ==
    ASSUME NEW code \in Nat, NEW len \in Nat
    PROVE  StatusHead(code, len) \in Units
  BY DEF StatusHead, Units

LEMMA TextIs == ErrorText \in Seq(Units) /\ Len(ErrorText) = 1
<1>1. <<"text">> \in Units
  BY DEF Units
<1>2. QED
  BY <1>1 DEF ErrorText

LEMMA ResponseIs == ASSUME NEW a \in Resources PROVE Response(a) \in Seq(Units)
<1>1. a.code \in Nat /\ a.size \in Nat
  BY DEF Resources
<1>2. CASE a.code = 200
  <2>1. Contents(a.size) \in Seq(Units) /\ StatusHead(200, a.size) \in Units
    BY <1>1, ContentsIs, HeadIs
  <2>2. QED
    BY <1>2, <2>1, ConcatProperties DEF Response
<1>3. CASE a.code # 200
  <2>1. ErrorText \in Seq(Units) /\ StatusHead(a.code, Len(ErrorText)) \in Units
    BY <1>1, TextIs, HeadIs
  <2>2. QED
    BY <1>3, <2>1, ConcatProperties DEF Response
<1>4. QED
  BY <1>2, <1>3

LEMMA Appended ==
    ASSUME NEW T, NEW q \in Seq(T), NEW x \in T, NEW r, r = Append(q, x)
    PROVE  /\ r \in Seq(T) /\ Len(r) = Len(q) + 1 /\ Len(q) \in Nat /\ r # <<>>
           /\ q = <<>> => r[1] = x /\ Len(q) = 0
           /\ q # <<>> => r[1] = q[1] /\ Len(q) > 0
<1>1. Len(q) \in Nat
  BY LenProperties
<1>2. r \in Seq(T) /\ Len(r) = Len(q) + 1 /\ r # <<>>
  BY AppendProperties
<1>3. (\A i \in 1..Len(q) : r[i] = q[i]) /\ r[Len(q) + 1] = x
  BY AppendProperties
<1>4. q = <<>> <=> Len(q) = 0
  BY EmptySeq
<1>5. QED
  BY <1>1, <1>2, <1>3, <1>4

LEMMA Regroup ==
    ASSUME NEW T, NEW q \in Seq(T), NEW r \in Seq(T), NEW m \in Seq(T)
    PROVE  (q \o r) \o m = q \o (r \o m)
  BY ConcatAssociative, SMTT(60)

\* Taking the first n elements off a sequence.
LEMMA Split ==
    ASSUME NEW T, NEW q \in Seq(T), NEW n \in 0..Len(q)
    PROVE  /\ SubSeq(q, 1, n) \in Seq(T) /\ SubSeq(q, n + 1, Len(q)) \in Seq(T)
           /\ Len(SubSeq(q, 1, n)) = n /\ Len(SubSeq(q, n + 1, Len(q))) = Len(q) - n
           /\ \A i \in 1..n : SubSeq(q, 1, n)[i] = q[i]
           /\ SubSeq(q, 1, n) \o SubSeq(q, n + 1, Len(q)) = q
           /\ n = Len(q) => SubSeq(q, n + 1, Len(q)) = <<>>
<1>1. Len(q) \in Nat /\ \A i \in 1..Len(q) : q[i] \in T
  BY LenProperties, ElementOfSeq
<1>2. /\ SubSeq(q, 1, n) \in Seq(T) /\ Len(SubSeq(q, 1, n)) = n
      /\ \A i \in 1..n : SubSeq(q, 1, n)[i] = q[i]
  <2>1. 1 \in Int /\ n \in Int /\ \A i \in 1..n : q[i] \in T
    BY <1>1
  <2>2. /\ SubSeq(q, 1, n) \in Seq(T) /\ Len(SubSeq(q, 1, n)) = IF 1 <= n THEN n - 1 + 1 ELSE 0
        /\ \A i \in 1..(n - 1 + 1) : SubSeq(q, 1, n)[i] = q[1 + i - 1]
    BY <2>1, SubSeqProperties
  <2>3. QED
    BY <1>1, <2>2
<1>3. SubSeq(q, n + 1, Len(q)) \in Seq(T) /\ Len(SubSeq(q, n + 1, Len(q))) = Len(q) - n
  <2>1. n + 1 \in Int /\ Len(q) \in Int /\ \A i \in (n + 1)..Len(q) : q[i] \in T
    BY <1>1
  <2>2. /\ SubSeq(q, n + 1, Len(q)) \in Seq(T)
        /\ Len(SubSeq(q, n + 1, Len(q))) = IF n + 1 <= Len(q) THEN Len(q) - (n + 1) + 1 ELSE 0
    BY <2>1, SubSeqProperties
  <2>3. QED
    BY <1>1, <2>2
<1>4. SubSeq(q, 1, n) \o SubSeq(q, n + 1, Len(q)) = SubSeq(q, 1, Len(q))
  <2>1. 1 \in 1..Len(q) + 1 /\ n \in (1 - 1)..Len(q) /\ Len(q) \in n..Len(q)
    BY <1>1
  <2>2. QED
    BY <2>1, ConcatAdjacentSubSeq
<1>5. SubSeq(q, 1, Len(q)) = q
  BY SubSeqFull
<1>6. ASSUME n = Len(q) PROVE SubSeq(q, n + 1, Len(q)) = <<>>
  <2>1. n + 1 \in Int /\ Len(q) \in Int /\ Len(q) < n + 1
    BY <1>1, <1>6
  <2>2. QED
    BY <2>1, SubSeqEmpty
<1>7. QED
  BY <1>2, <1>3, <1>4, <1>5, <1>6

\* What the read() of loadFile takes and what stays for sendfile().
LEMMA Halves ==
    ASSUME NEW size \in Nat, NEW n \in 0..size
    PROVE  /\ SubSeq(Contents(size), n + 1, size) \in Seq(Units)
           /\ Contents(n) \in Seq(Units)
           /\ Contents(n) \o SubSeq(Contents(size), n + 1, size) = Contents(size)
           /\ n = size => SubSeq(Contents(size), n + 1, size) = <<>>
<1>1. PICK c : c = Contents(size)
  OBVIOUS
<1>2. c \in Seq(Units) /\ Len(c) = size /\ Contents(n) \in Seq(Units) /\ Len(Contents(n)) = n
  BY <1>1, ContentsIs
<1>3. /\ SubSeq(c, 1, n) \in Seq(Units) /\ SubSeq(c, n + 1, size) \in Seq(Units)
      /\ Len(SubSeq(c, 1, n)) = n
      /\ \A i \in 1..n : SubSeq(c, 1, n)[i] = c[i]
      /\ SubSeq(c, 1, n) \o SubSeq(c, n + 1, size) = c
      /\ n = size => SubSeq(c, n + 1, size) = <<>>
  BY <1>2, Split
<1>4. \A i \in 1..n : Contents(n)[i] = c[i]
  BY <1>1 DEF Contents
<1>5. SubSeq(c, 1, n) = Contents(n)
  BY <1>2, <1>3, <1>4, SeqEqual
<1>6. QED
  BY <1>1, <1>2, <1>3, <1>5

\* The prefix of a longer sequence.
LEMMA PrefixGrows ==
    ASSUME NEW T, NEW r \in Seq(T), NEW q \in Seq(T), NEW m \in Seq(T), IsPrefix(r, q)
    PROVE  IsPrefix(r, q \o m)
<1>1. Len(r) \in Nat /\ Len(q) \in Nat /\ Len(m) \in Nat /\ Len(r) <= Len(q)
  BY LenProperties DEF IsPrefix
<1>2. q \o m \in Seq(T) /\ Len(q \o m) = Len(q) + Len(m)
      /\ \A i \in 1..Len(q) + Len(m) : (q \o m)[i] = IF i <= Len(q) THEN q[i] ELSE m[i - Len(q)]
  BY ConcatProperties
<1>3. /\ SubSeq(q, 1, Len(r)) \in Seq(T) /\ Len(SubSeq(q, 1, Len(r))) = Len(r)
      /\ \A i \in 1..Len(r) : SubSeq(q, 1, Len(r))[i] = q[i]
  BY <1>1, Split
<1>4. /\ SubSeq(q \o m, 1, Len(r)) \in Seq(T) /\ Len(SubSeq(q \o m, 1, Len(r))) = Len(r)
      /\ \A i \in 1..Len(r) : SubSeq(q \o m, 1, Len(r))[i] = (q \o m)[i]
  <2>1. Len(r) \in 0..Len(q \o m)
    BY <1>1, <1>2
  <2>2. QED
    BY <1>2, <2>1, Split
<1>5. \A i \in 1..Len(r) : (q \o m)[i] = q[i]
  BY <1>1, <1>2
<1>6. SubSeq(q \o m, 1, Len(r)) = SubSeq(q, 1, Len(r))
  <2>1. PICK x, y : x = SubSeq(q \o m, 1, Len(r)) /\ y = SubSeq(q, 1, Len(r))
    OBVIOUS
  <2>2. x \in Seq(T) /\ y \in Seq(T) /\ Len(x) = Len(y) /\ \A i \in 1..Len(x) : x[i] = y[i]
    BY <1>3, <1>4, <1>5, <2>1
  <2>3. x = y
    BY <2>2, SeqEqual
  <2>4. QED
    BY <2>1, <2>3
<1>7. QED
  BY <1>1, <1>2, <1>6 DEF IsPrefix

LEMMA PrefixSelf == ASSUME NEW T, NEW r \in Seq(T) PROVE IsPrefix(r, r)
  BY LenProperties DEF IsPrefix

\* handleRequest, with the response cleared or only bad requests before.
LEMMA LoadIs ==
    ASSUME ResponseType, url \in Resources, LoadResponse, FileOK, pc = "respond"
    PROVE  /\ headers' \in Seq(Units) /\ body' \in Seq(Units) /\ file' \in Seq(Units)
           /\ respComplete' \in BOOLEAN /\ fileOpen' \in BOOLEAN /\ open' \in Nat
           /\ Answered \in Resources
           /\ open' = IF fileOpen' THEN 1 ELSE 0
           /\ file' # <<>> => fileOpen' /\ ~respComplete'
           /\ fileOpen' => ret = "GET_REQUEST"
           /\ fileOpen' \/ respComplete'
           /\ headers = <<>> /\ body = <<>> => (headers' \o body') \o file' = Response(Answered)
<1>1. fileOpen = FALSE /\ file = <<>> /\ open = 0
  BY DEF FileOK, Deciding, ResponseType
<1>2. PICK a : a = Answered
  OBVIOUS
<1>3. a \in Resources /\ a.code \in Nat /\ a.size \in Nat
  BY <1>2 DEF Answered, BadRequest, Resources
<1>4. CASE a.code = 200
  <2>0. ret = "GET_REQUEST"
    BY <1>2, <1>4 DEF Answered, BadRequest
  <2>1. PICK n : n = IF a.size < Chunk THEN a.size ELSE Chunk
    OBVIOUS
  <2>2. n \in 0..a.size /\ (n = 0 => n = a.size)
    BY <1>3, <2>1, ChunkAssumption
  <2>3. /\ file' = SubSeq(Contents(a.size), n + 1, a.size) /\ fileOpen' = TRUE /\ open' = open + 1
        /\ headers' = Append(headers, StatusHead(200, a.size))
        /\ body' = body \o Contents(n)
        /\ respComplete' = IF n = 0 THEN respComplete ELSE n = a.size
    BY <1>2, <1>4, <2>1 DEF LoadResponse, LoadFile
  <2>4. PICK rest : rest = SubSeq(Contents(a.size), n + 1, a.size)
    OBVIOUS
  <2>5. /\ rest \in Seq(Units) /\ Contents(n) \in Seq(Units) /\ StatusHead(200, a.size) \in Units
        /\ Contents(n) \o rest = Contents(a.size) /\ (n = a.size => rest = <<>>)
    BY <1>3, <2>2, <2>4, Halves, HeadIs, ZenonT(60)
  <2>6. headers' \in Seq(Units) /\ body' \in Seq(Units)
    BY <2>3, <2>5, AppendProperties, ConcatProperties DEF ResponseType
  <2>7. ASSUME headers = <<>>, body = <<>> PROVE (headers' \o body') \o file' = Response(a)
    <3>1. headers' = <<StatusHead(200, a.size)>> /\ body' = Contents(n)
      BY <2>3, <2>5, <2>7, ConcatEmptySeq
    <3>2. (headers' \o body') \o rest = headers' \o (body' \o rest)
      <4>1. PICK h, b : h = headers' /\ b = body'
        OBVIOUS
      <4>2. h \in Seq(Units) /\ b \in Seq(Units) /\ rest \in Seq(Units)
        BY <2>5, <2>6, <4>1
      <4>3. (h \o b) \o rest = h \o (b \o rest)
        BY <4>2, Regroup
      <4>4. QED
        BY <4>1, <4>3
    <3>3. QED
      BY <1>4, <2>3, <2>4, <2>5, <3>1, <3>2 DEF Response
  <2>8. file' # <<>> => ~respComplete'
    BY <2>2, <2>3, <2>4, <2>5
  <2>9. respComplete' \in BOOLEAN
    BY <2>3 DEF ResponseType
  <2>10. file' \in Seq(Units) /\ fileOpen' = TRUE /\ open' = 1 /\ 1 \in Nat
    BY <1>1, <2>3, <2>4, <2>5
  <2>11. QED
    BY <1>2, <1>3, <2>0, <2>6, <2>7, <2>8, <2>9, <2>10
<1>5. CASE a.code # 200
  <2>1. /\ headers' = Append(headers, StatusHead(a.code, Len(ErrorText)))
        /\ body' = body \o ErrorText /\ respComplete' = TRUE
        /\ file' = file /\ fileOpen' = fileOpen /\ open' = open
    BY <1>2, <1>5 DEF LoadResponse, LoadFailResponse
  <2>2. ErrorText \in Seq(Units) /\ StatusHead(a.code, Len(ErrorText)) \in Units
    BY <1>3, TextIs, HeadIs
  <2>3. headers' \in Seq(Units) /\ body' \in Seq(Units)
    BY <2>1, <2>2, AppendProperties, ConcatProperties DEF ResponseType
  <2>4. ASSUME headers = <<>>, body = <<>> PROVE (headers' \o body') \o file' = Response(a)
    <3>1. headers' = <<StatusHead(a.code, Len(ErrorText))>> /\ body' = ErrorText
      BY <2>1, <2>2, <2>4, ConcatEmptySeq
    <3>2. (headers' \o body') \o <<>> = headers' \o body'
      BY <2>3, ConcatProperties, ConcatEmptySeq
    <3>3. QED
      BY <1>1, <1>5, <2>1, <3>1, <3>2 DEF Response
  <2>5. QED
    BY <1>1, <1>2, <1>3, <2>1, <2>3, <2>4 DEF ResponseType
<1>6. QED
  BY <1>4, <1>5

-----------------------------------------------------------------------------
(***************************************************************************)
(* The steps that leave the response alone                                 *)
(***************************************************************************)
LEMMA PollStep == ASSUME RespInv, Poll PROVE RespInv'
<1> USE DEF RespInv, requestVars, respVars, connVars, peerVars, taskVars, readVars
<1>1. TypeOK'
  BY DEF Poll, TypeOK, RequestType, ResponseType, LoopType
<1>2. LoopOK' /\ DecodeOK'
  BY DEF Poll, TypeOK, RequestType, LoopType, LoopOK, DecodeOK, Deciding, IsReset
<1>3. FileOK'
  BY DEF Poll, LoopOK, FileOK, Deciding
<1>4. AnswerOK'
  BY DEF Poll, TypeOK, LoopType, LoopOK, AnswerOK, NotYet, InProgress, Done, Closing, Deciding, IsReset
<1>5. QED
  BY <1>1, <1>2, <1>3, <1>4

LEMMA NoReadStep == ASSUME RespInv, NoRead PROVE RespInv'
<1> USE DEF RespInv, requestVars, respVars, connVars, peerVars, taskVars, readVars
<1>1. TypeOK'
  BY DEF NoRead, TypeOK, RequestType, ResponseType, LoopType
<1>2. LoopOK' /\ DecodeOK'
  BY DEF NoRead, TypeOK, RequestType, LoopType, LoopOK, DecodeOK, Deciding, IsReset
<1>3. FileOK'
  BY DEF NoRead, LoopOK, FileOK, Deciding
<1>4. AnswerOK'
  BY DEF NoRead, TypeOK, LoopType, LoopOK, AnswerOK, NotYet, InProgress, Done, Closing, Deciding, IsReset
<1>5. QED
  BY <1>1, <1>2, <1>3, <1>4

LEMMA EndTasksStep == ASSUME RespInv, EndTasks PROVE RespInv'
<1> USE DEF RespInv, requestVars, respVars, connVars, peerVars, taskVars, readVars
<1>1. TypeOK'
  BY DEF EndTasks, TypeOK, RequestType, ResponseType, LoopType
<1>2. LoopOK' /\ DecodeOK'
  BY DEF EndTasks, TypeOK, RequestType, LoopType, LoopOK, DecodeOK, Deciding, IsReset
<1>3. FileOK'
  BY DEF EndTasks, LoopOK, FileOK, Deciding
<1>4. AnswerOK'
  BY DEF EndTasks, TypeOK, LoopType, LoopOK, AnswerOK, NotYet, InProgress, Done, Closing, Deciding, IsReset
<1>5. QED
  BY <1>1, <1>2, <1>3, <1>4

LEMMA PeerStep == ASSUME RespInv, PeerSends \/ PeerCloses \/ PeerResets PROVE RespInv'
<1> USE DEF RespInv, requestVars, respVars, connVars, peerVars, taskVars, readVars, PeerFrame
<1>0. Len(input) \in Nat
  BY LenProperties DEF TypeOK, RequestType
<1>1. TypeOK'
  <2>1. sent' \in 0..Len(input) /\ got \in 0..sent' /\ peer' \in {"open", "closed", "reset", "resetRead"}
    BY <1>0, SMTT(60) DEF PeerSends, PeerCloses, PeerResets, TypeOK, RequestType, LoopType
  <2>2. UNCHANGED <<requestVars, respVars, connVars, taskVars, input, readVars, pc, ready, answers, cut>>
    BY DEF PeerSends, PeerCloses, PeerResets
  <2>3. QED
    BY <2>1, <2>2 DEF TypeOK, RequestType, ResponseType, LoopType
<1>2. LoopOK' /\ DecodeOK'
  BY DEF PeerSends, PeerCloses, PeerResets, TypeOK, RequestType, LoopType, LoopOK, DecodeOK, Deciding, IsReset
<1>3. FileOK'
  BY DEF PeerSends, PeerCloses, PeerResets, LoopOK, FileOK, Deciding
<1>4. AnswerOK'
  <2>1. cut => FALSE
    BY DEF PeerSends, PeerCloses, PeerResets, AnswerOK, IsReset
  <2>2. UNCHANGED <<answers, headers, body, output, wire, respComplete, fileOpen, writing, queue, batch,
                    closedBy, connected, checkstate, pc, file, cut, ready, moved>>
    BY DEF PeerSends, PeerCloses, PeerResets
  <2>3. QED
    BY <2>1, <2>2 DEF AnswerOK, NotYet, InProgress, Done, Closing, Deciding, IsReset
<1>5. QED
  BY <1>1, <1>2, <1>3, <1>4

\* There is never more than one task in the batch.
LEMMA TaskIs ==
    ASSUME LoopType, NEW name, Task(name)
    PROVE  /\ pc = "tasks" /\ batch = <<name>> /\ batch' = <<>> /\ name \in {"writeComplete", "closeInLoop"}
           /\ UNCHANGED <<peerVars, readVars, pc, ready, answers>>
<1>1. batch \in {<<"writeComplete">>, <<"closeInLoop">>}
  BY DEF LoopType, Task
<1>2. \A t : Head(<<t>>) = t /\ Tail(<<t>>) = <<>>
  OBVIOUS
<1>3. QED
  BY <1>1, <1>2 DEF Task

LEMMA CloseInLoopStep == ASSUME RespInv, CloseInLoop PROVE RespInv'
<1> USE DEF RespInv, requestVars, respVars, connVars, peerVars, taskVars, readVars
<1>0. /\ pc = "tasks" /\ batch = <<"closeInLoop">> /\ batch' = <<>>
      /\ UNCHANGED <<peerVars, readVars, pc, ready, answers, requestVars, respVars, queue, cut>>
  BY TaskIs DEF CloseInLoop, TypeOK
<1>1. IF connected THEN HandleClose("server") ELSE UNCHANGED connVars
  BY DEF CloseInLoop
<1>2. TypeOK'
  <2>1. RequestType' /\ ResponseType'
    BY <1>0 DEF TypeOK, RequestType, ResponseType
  <2>2. LoopType'
    BY <1>0, <1>1 DEF HandleClose, TypeOK, LoopType
  <2>3. QED
    BY <2>1, <2>2 DEF TypeOK
<1>3. LoopOK' /\ DecodeOK'
  BY <1>0, <1>1 DEF HandleClose, TypeOK, RequestType, LoopType, LoopOK, DecodeOK, Deciding, IsReset
<1>4. FileOK'
  BY <1>0, <1>1 DEF LoopOK, FileOK, Deciding
<1>5. AnswerOK'
  BY <1>0, <1>1 DEF HandleClose, TypeOK, LoopType, LoopOK, AnswerOK, NotYet, InProgress, Done, Closing, Deciding, IsReset
<1>6. QED
  BY <1>2, <1>3, <1>4, <1>5

-----------------------------------------------------------------------------
(***************************************************************************)
(* Lines                                                                   *)
(***************************************************************************)
LEMMA Sub ==
    ASSUME NEW T, NEW s \in Seq(T), NEW a \in 1..Len(s) + 1, NEW b \in 0..Len(s)
    PROVE  /\ SubSeq(s, a, b) \in Seq(T)
           /\ Len(SubSeq(s, a, b)) = IF a <= b THEN b - a + 1 ELSE 0
           /\ \A i \in 1..(b - a + 1) : SubSeq(s, a, b)[i] = s[a + i - 1]
<1>1. Len(s) \in Nat /\ \A i \in 1..Len(s) : s[i] \in T
  BY LenProperties, ElementOfSeq
<1>2. a \in Int /\ b \in Int /\ \A i \in a..b : s[i] \in T
  BY <1>1
<1>3. QED
  BY <1>2, SubSeqProperties, SMTT(60)

\* A set of positions has a least and a greatest one.
LEMMA LeastExists == ASSUME NEW S, S \subseteq Nat, S # {} PROVE \E x \in S : \A y \in S : x <= y
<1>1. PICK R : R = OpToRel(<, Nat)
  BY Zenon
<1>2. IsWellFoundedOn(R, Nat)
  BY <1>1, NatLessThanWellFounded, Zenon
<1>3. PICK x \in S : \A y \in S : ~(<<y, x>> \in R)
  BY <1>2, WFMin
<1>4. \A y \in S : ~(y < x)
  BY <1>1, <1>3 DEF OpToRel
<1>5. QED
  BY <1>3, <1>4

LEMMA GreatestExists ==
    ASSUME NEW n \in Nat, NEW S, S \subseteq 0..n, S # {}
    PROVE  \E x \in S : \A y \in S : y <= x
<1> DEFINE T == {n - x : x \in S}
<1>1. T \subseteq Nat /\ T # {}
  <2>1. ASSUME NEW x \in S PROVE n - x \in Nat
    <3>1. x \in 0..n
      OBVIOUS
    <3>2. QED
      BY <3>1
  <2>2. QED
    BY <2>1
<1>2. PICK t \in T : \A u \in T : t <= u
  BY <1>1, LeastExists
<1>3. PICK x \in S : t = n - x
  BY <1>2
<1>4. ASSUME NEW y \in S PROVE y <= x
  <2>1. n - y \in T /\ x \in 0..n /\ y \in 0..n
    OBVIOUS
  <2>2. QED
    BY <1>2, <1>3, <2>1
<1>5. QED
  BY <1>3, <1>4

LEMMA CRisNotLF == CR # LF
  BY DEF CR, LF

LEMMA CRLFs ==
    ASSUME NEW s \in Seq(Symbols)
    PROVE  /\ Len(s) \in Nat
           /\ FindCRLF(s) \subseteq 1..(Len(s) - 1) /\ FindCRLF(s) \subseteq Nat
           /\ \A i \in 1..(Len(s) - 1) : i \in FindCRLF(s) <=> s[i] = CR /\ s[i + 1] = LF
  BY LenProperties DEF FindCRLF

\* The first line of s, by where its CRLF is: findCRLF, getLine and retrieveLine.
IsFirst(s, k) ==
    /\ k \in FindCRLF(s) /\ k \in Nat /\ k >= 1 /\ k <= Len(s) - 1 /\ Len(s) \in Nat
    /\ \A j \in FindCRLF(s) : k <= j
    /\ Line(s) \in Seq(Symbols) /\ Len(Line(s)) = k - 1
    /\ \A i \in 1..(k - 1) : Line(s)[i] = s[i]
    /\ AfterLine(s) \in Seq(Symbols) /\ Len(AfterLine(s)) = Len(s) - k - 1
    /\ \A i \in 1..(Len(s) - k - 1) : AfterLine(s)[i] = s[k + 1 + i]

LEMMA FirstIs == ASSUME NEW s \in Seq(Symbols), FindCRLF(s) # {} PROVE IsFirst(s, FirstCRLF(s))
<1>0. PICK k : k = FirstCRLF(s)
  OBVIOUS
<1>1. Len(s) \in Nat /\ FindCRLF(s) \subseteq 1..(Len(s) - 1) /\ FindCRLF(s) \subseteq Nat
  BY CRLFs
<1>2. \E i \in FindCRLF(s) : \A j \in FindCRLF(s) : i <= j
  BY <1>1, LeastExists
<1>3. k \in FindCRLF(s) /\ k \in 1..(Len(s) - 1) /\ \A j \in FindCRLF(s) : k <= j
  BY <1>0, <1>1, <1>2 DEF FirstCRLF
<1>4. 1 \in 1..Len(s) + 1 /\ k - 1 \in 0..Len(s) /\ k + 2 \in 1..Len(s) + 1 /\ Len(s) \in 0..Len(s)
  BY <1>1, <1>3
<1>5. /\ SubSeq(s, 1, k - 1) \in Seq(Symbols)
      /\ Len(SubSeq(s, 1, k - 1)) = IF 1 <= k - 1 THEN k - 1 - 1 + 1 ELSE 0
      /\ \A i \in 1..(k - 1 - 1 + 1) : SubSeq(s, 1, k - 1)[i] = s[1 + i - 1]
  BY <1>4, Sub
<1>6. /\ SubSeq(s, k + 2, Len(s)) \in Seq(Symbols)
      /\ Len(SubSeq(s, k + 2, Len(s))) = IF k + 2 <= Len(s) THEN Len(s) - (k + 2) + 1 ELSE 0
      /\ \A i \in 1..(Len(s) - (k + 2) + 1) : SubSeq(s, k + 2, Len(s))[i] = s[k + 2 + i - 1]
  BY <1>4, Sub
<1>7. /\ Line(s) \in Seq(Symbols) /\ Len(Line(s)) = k - 1
      /\ \A i \in 1..(k - 1) : Line(s)[i] = s[i]
  BY <1>1, <1>3, <1>5, <1>0 DEF Line
<1>8. /\ AfterLine(s) \in Seq(Symbols) /\ Len(AfterLine(s)) = Len(s) - k - 1
      /\ \A i \in 1..(Len(s) - k - 1) : AfterLine(s)[i] = s[k + 1 + i]
  BY <1>1, <1>3, <1>6, <1>0, SMTT(60) DEF AfterLine
<1>9. QED
  BY <1>0, <1>1, <1>3, <1>7, <1>8 DEF IsFirst

\* The first symbol of a line that is not empty.
LEMMA LineHead ==
    ASSUME NEW s \in Seq(Symbols), FindCRLF(s) # {}, Line(s) # <<>>
    PROVE  Line(s)[1] = s[1]
<1>1. PICK k : k = FirstCRLF(s)
  OBVIOUS
<1>2. /\ k \in Nat /\ Line(s) \in Seq(Symbols) /\ Len(Line(s)) = k - 1
      /\ \A i \in 1..(k - 1) : Line(s)[i] = s[i]
  BY <1>1, FirstIs DEF IsFirst
<1>3. Len(Line(s)) # 0 /\ Len(Line(s)) \in Nat
  BY <1>2, EmptySeq, LenProperties
<1>4. QED
  BY <1>2, <1>3

LEMMA TextHas ==
    ASSUME NEW t \in Texts
    PROVE  t.value \in Int /\ t.words \in Seq(Word)
  BY InputAssumption DEF IsText

LEMMA URLIs ==
    ASSUME NEW line, NEW u \in Words(line), NamesResource(line, u)
    PROVE  RequestURL(line) \in Resources
<1>1. PICK v : v = CHOOSE w \in Words(line) : NamesResource(line, w)
  OBVIOUS
<1>2. v \in Words(line)
  BY <1>1
<1>3. PICK k \in TextsOf(line) : v \in {k} \X DOMAIN line[k].words
  BY <1>2 DEF Words
<1>4. line[k] \in Texts /\ v[1] = k /\ v[2] \in DOMAIN line[k].words
  BY <1>3 DEF TextsOf
<1>5. PICK ws : ws = line[k].words
  OBVIOUS
<1>6. ws \in Seq(Word) /\ v[2] \in DOMAIN ws
  BY <1>4, <1>5, TextHas
<1>7. ws[v[2]] \in Word
  BY <1>6, LenProperties, ElementOfSeq
<1>8. WordAt(line, v) \in Word
  BY <1>4, <1>5, <1>7 DEF WordAt
<1>9. WordAt(line, v).url \in Resources
  BY <1>8 DEF Word, Resources
<1>10. QED
  BY <1>1, <1>9 DEF RequestURL

\* Taking bytes out of the buffer leaves no more in the vector than there were.
LEMMA Retrieves ==
    ASSUME RequestType, NEW n \in 0..Len(buf), Retrieve(n)
    PROVE  /\ buf' = SubSeq(buf, n + 1, Len(buf)) /\ buf' \in Seq(Symbols) /\ taken' \in Seq(Symbols)
           /\ Len(taken') + Len(buf') <= Len(taken) + Len(buf)
<1>1. /\ buf \in Seq(Symbols) /\ Len(buf) \in Nat /\ taken \in Seq(Symbols) /\ Len(taken) \in Nat
  BY LenProperties DEF RequestType
<1>2. n + 1 \in 1..Len(buf) + 1 /\ Len(buf) \in 0..Len(buf) /\ 1 \in 1..Len(buf) + 1
  BY <1>1
<1>3. PICK head, rest : head = SubSeq(buf, 1, n) /\ rest = SubSeq(buf, n + 1, Len(buf))
  OBVIOUS
<1>4. head \in Seq(Symbols) /\ Len(head) = n
  BY <1>1, <1>2, <1>3, Sub
<1>5. rest \in Seq(Symbols) /\ Len(rest) = Len(buf) - n
  BY <1>1, <1>2, <1>3, Sub
<1>6. taken \o head \in Seq(Symbols) /\ Len(taken \o head) = Len(taken) + n
  BY <1>1, <1>4, ConcatProperties
<1>7. /\ buf' = rest
      /\ \/ taken' = <<>>
         \/ taken' = taken \o head
  BY <1>3 DEF Retrieve
<1>8. <<>> \in Seq(Symbols) /\ Len(<<>>) = 0
  BY EmptySeq
<1>9. PICK t, b : t = taken' /\ b = buf'
  OBVIOUS
<1>10. t \in Seq(Symbols) /\ b \in Seq(Symbols) /\ Len(b) = Len(buf) - n /\ Len(t) <= Len(taken) + n
  <2>1. CASE t = <<>>
    BY <1>1, <1>5, <1>7, <1>8, <1>9, <2>1
  <2>2. CASE t = taken \o head
    BY <1>1, <1>5, <1>6, <1>7, <1>9, <2>2
  <2>3. QED
    BY <1>7, <1>9, <2>1, <2>2
<1>11. Len(t) \in Nat
  BY <1>10, LenProperties
<1>12. QED
  BY <1>1, <1>3, <1>7, <1>9, <1>10, <1>11, SMTT(60)

LEMMA RetrievesLine ==
    ASSUME RequestType, LineOK, RetrieveLine
    PROVE  /\ buf' = AfterLine(buf) /\ FindCRLF(buf) # {} /\ buf' \in Seq(Symbols) /\ taken' \in Seq(Symbols)
           /\ Len(taken') + Len(buf') <= Len(taken) + Len(buf)
<1>1. FindCRLF(buf) # {} /\ buf \in Seq(Symbols)
  BY DEF LineOK, ParseLine, RequestType
<1>2. PICK k : k = FirstCRLF(buf)
  OBVIOUS
<1>3. k \in Nat /\ k >= 1 /\ k <= Len(buf) - 1 /\ Len(buf) \in Nat
  BY <1>1, <1>2, FirstIs DEF IsFirst
<1>4. k + 1 \in 0..Len(buf) /\ Retrieve(k + 1) /\ k + 1 + 1 = k + 2
  BY <1>2, <1>3 DEF RetrieveLine
<1>5. QED
  BY <1>1, <1>2, <1>4, Retrieves DEF AfterLine

\* tryDecode keeps the types, and its result fits the state it leaves.
LEMMA DecodeType ==
    ASSUME RequestType, TryDecode, UNCHANGED <<input, sent, got, capacity>>
    PROVE  /\ RequestType'
           /\ ret = "decoding"
           /\ checkstate # "GET_ALL" => (checkstate' = "GET_ALL" <=> ret' = "GET_REQUEST")
           /\ Len(taken') + Len(buf') <= Len(taken) + Len(buf)
<1> USE DEF RequestType, CheckState
<1>1. ret = "decoding"
  BY DEF TryDecode, ParseRequestline, ParseHeader, EndHeaders, ParseContent, NoLine, Decoding
<1>2. /\ buf' \in Seq(Symbols) /\ taken' \in Seq(Symbols)
      /\ Len(taken') + Len(buf') <= Len(taken) + Len(buf) /\ Len(taken') + Len(buf') <= capacity
  <2>1. /\ buf' \in Seq(Symbols) /\ taken' \in Seq(Symbols)
        /\ Len(taken') + Len(buf') <= Len(taken) + Len(buf)
    <3>0. Len(buf) \in Nat /\ Len(taken) \in Nat
      BY LenProperties
    <3>1. CASE LineOK /\ RetrieveLine
      BY <3>1, RetrievesLine
    <3>2. CASE UNCHANGED <<buf, taken>>
      BY <3>0, <3>2
    <3>3. CASE Decoding("EXPECT_CONTENT") /\ Len(buf) >= contentLength /\ Retrieve(contentLength)
      <4>1. contentLength \in 0..Len(buf)
        BY <3>0, <3>3 DEF Decoding
      <4>2. QED
        BY <3>3, <4>1, Retrieves
    <3>4. QED
      BY <3>1, <3>2, <3>3 DEF TryDecode, ParseRequestline, ParseHeader, EndHeaders, ParseContent, NoLine
  <2>2. Len(buf) \in Nat /\ Len(taken) \in Nat /\ Len(buf') \in Nat /\ Len(taken') \in Nat
    BY <2>1, LenProperties
  <2>3. QED
    BY <2>1, <2>2
<1>3. CASE ParseRequestline
  <2>1. url' \in Resources
    BY <1>3, URLIs DEF ParseRequestline
  <2>2. QED
    BY <1>1, <1>2, <1>3, <2>1 DEF ParseRequestline, Decoding
<1>4. CASE ParseHeader
  <2>1. LineOK /\ RetrieveLine
    BY <1>4 DEF ParseHeader
  <2>2. ASSUME Field(Line(buf)) = "Content-length" PROVE buf[1].value \in Int
    <3>1. FindCRLF(buf) # {} /\ Line(buf) # <<>>
      BY <1>4, <2>1, RetrievesLine DEF ParseHeader
    <3>2. Line(buf)[1] \in Texts
      BY <2>2 DEF Field, Colons, TextsOf
    <3>3. QED
      BY <3>1, <3>2, LineHead, TextHas
  <2>3. QED
    BY <1>1, <1>2, <1>4, <2>2 DEF ParseHeader, Decoding
<1>5. CASE EndHeaders
  BY <1>1, <1>2, <1>5 DEF EndHeaders, Decoding
<1>6. CASE ParseContent
  BY <1>1, <1>2, <1>6, SMTT(60) DEF ParseContent, Decoding
<1>7. CASE NoLine
  BY <1>1, <1>2, <1>7 DEF NoLine
<1>8. QED
  BY <1>3, <1>4, <1>5, <1>6, <1>7 DEF TryDecode

-----------------------------------------------------------------------------
(***************************************************************************)
(* Reading, decoding and answering                                         *)
(***************************************************************************)
\* readFd appends what it has read, in a vector that may grow, or makeSpace() moves
\* bytes: then the vector was too small for what it held and what was read.
LEMMA ReadIs ==
    ASSUME RequestType, NEW data \in Seq(Symbols), ReadFd(data)
    PROVE  /\ buf' \in Seq(Symbols) /\ taken' \in Seq(Symbols) /\ capacity' \in Nat
           /\ Len(taken') + Len(buf') <= capacity' /\ capacity <= capacity'
           /\ \/ moved' = moved /\ buf' = buf \o data /\ taken' = taken
              \/ moved' = moved \cup {"input"} /\ Len(taken) + Len(buf) + Len(data) > capacity
<1>1. /\ buf \in Seq(Symbols) /\ taken \in Seq(Symbols) /\ Len(buf) \in Nat /\ Len(taken) \in Nat
      /\ Len(data) \in Nat /\ capacity \in Nat /\ Len(taken) + Len(buf) <= capacity
  BY LenProperties DEF RequestType
<1>2. PICK writable : writable = capacity - Len(taken) - Len(buf)
  OBVIOUS
<1>3. writable \in Nat
  BY <1>1, <1>2
<1>4. PICK filled, extra, cells :
         /\ filled = buf \o SubSeq(data, 1, writable)
         /\ extra = SubSeq(data, writable + 1, Len(data))
         /\ cells = [i \in 1..kCheapPrepend |-> NUL] \o taken \o filled
  OBVIOUS
<1>5. buf \o data \in Seq(Symbols) /\ Len(buf \o data) = Len(buf) + Len(data)
  BY <1>1, ConcatProperties
<1>6. CASE Len(data) <= writable /\ buf' = buf \o data /\ UNCHANGED <<taken, capacity, moved>>
  BY <1>1, <1>2, <1>5, <1>6
<1>7. ASSUME Len(data) > writable
      PROVE  /\ filled \in Seq(Symbols) /\ Len(filled) = capacity - Len(taken)
             /\ extra \in Seq(Symbols) /\ Len(extra) = Len(data) - writable
  <2>1. /\ 1 \in 1..Len(data) + 1 /\ writable \in 0..Len(data)
        /\ writable + 1 \in 1..Len(data) + 1 /\ Len(data) \in 0..Len(data)
    BY <1>1, <1>3, <1>7
  <2>2. PICK fits : fits = SubSeq(data, 1, writable)
    OBVIOUS
  <2>3. fits \in Seq(Symbols) /\ Len(fits) = writable
    BY <1>3, <2>1, <2>2, Sub
  <2>4. extra \in Seq(Symbols) /\ Len(extra) = Len(data) - writable
    BY <1>1, <1>3, <1>4, <1>7, <2>1, Sub
  <2>5. filled \in Seq(Symbols) /\ Len(filled) = Len(buf) + writable
    BY <1>1, <1>4, <2>2, <2>3, ConcatProperties
  <2>6. QED
    BY <1>1, <1>2, <2>4, <2>5
<1>8. CASE /\ Len(data) > writable /\ buf' = buf \o data /\ capacity' = capacity + Len(extra)
           /\ UNCHANGED <<taken, moved>>
  BY <1>1, <1>2, <1>3, <1>5, <1>7, <1>8
<1>9. CASE /\ Len(data) > writable /\ Len(extra) <= Len(taken)
           /\ buf' = SubSeq(cells, 1, Len(filled)) \o extra /\ taken' = <<>>
           /\ moved' = moved \cup {"input"} /\ UNCHANGED capacity
  <2>0. /\ filled \in Seq(Symbols) /\ Len(filled) = capacity - Len(taken) /\ Len(filled) \in Nat
        /\ extra \in Seq(Symbols) /\ Len(extra) = Len(data) - writable
    BY <1>1, <1>7, <1>9
  <2>1. PICK nuls : nuls = [i \in 1..kCheapPrepend |-> NUL]
    OBVIOUS
  <2>2. nuls \in Seq(Symbols) /\ Len(nuls) \in Nat
    <3>1. kCheapPrepend \in Nat /\ NUL \in Symbols
      BY BufferAssumption DEF Symbols
    <3>2. nuls \in [1..kCheapPrepend -> Symbols]
      BY <2>1, <3>1
    <3>3. nuls \in Seq(Symbols)
      BY <3>1, <3>2, IsASeq
    <3>4. QED
      BY <3>3, LenProperties
  <2>3. cells \in Seq(Symbols) /\ Len(cells) = Len(nuls) + Len(taken) + Len(filled)
    <3>1. nuls \o taken \in Seq(Symbols) /\ Len(nuls \o taken) = Len(nuls) + Len(taken)
      BY <1>1, <2>2, ConcatProperties
    <3>2. PICK front : front = nuls \o taken
      OBVIOUS
    <3>3. cells = front \o filled
      BY <1>4, <2>1, <3>2
    <3>4. front \in Seq(Symbols) /\ Len(front) = Len(nuls) + Len(taken) /\ filled \in Seq(Symbols)
      BY <2>0, <3>1, <3>2
    <3>5. front \o filled \in Seq(Symbols) /\ Len(front \o filled) = Len(front) + Len(filled)
      BY <3>4, ConcatProperties
    <3>6. QED
      BY <3>3, <3>4, <3>5
  <2>4. 1 \in 1..Len(cells) + 1 /\ Len(filled) \in 0..Len(cells)
    BY <1>1, <2>0, <2>2, <2>3
  <2>5. PICK first : first = SubSeq(cells, 1, Len(filled))
    OBVIOUS
  <2>6. first \in Seq(Symbols) /\ Len(first) = Len(filled)
    BY <2>0, <2>3, <2>4, <2>5, Sub, SMTT(60)
  <2>7. buf' \in Seq(Symbols) /\ Len(buf') = Len(filled) + Len(extra)
    BY <1>9, <2>0, <2>5, <2>6, ConcatProperties
  <2>8. taken' \in Seq(Symbols) /\ Len(taken') = 0
    BY <1>9, EmptySeq
  <2>9. PICK t, b, d : t = Len(taken') /\ b = Len(buf') /\ d = Len(data)
    OBVIOUS
  <2>10. t + b <= capacity /\ Len(taken) + Len(buf) + d > capacity
    BY <1>1, <1>2, <1>3, <1>9, <2>0, <2>7, <2>8, <2>9, SMTT(60)
  <2>11. capacity' = capacity /\ moved' = moved \cup {"input"} /\ capacity \in Nat /\ capacity <= capacity
    BY <1>1, <1>9
  <2>12. QED
    BY <2>7, <2>8, <2>9, <2>10, <2>11
<1>10. QED
  BY <1>2, <1>4, <1>6, <1>8, <1>9 DEF ReadFd

LEMMA HandleReadStep == ASSUME RespInv, HandleRead PROVE RespInv'
<1> USE DEF RespInv, requestVars, respVars, connVars, peerVars, taskVars, readVars
<1>0. /\ pc = "read" /\ connected /\ pc' \in {"decode", "write"} /\ got \in Nat /\ sent \in Nat
      /\ UNCHANGED <<checkstate, url, contentLength, respVars, input, sent, taskVars, ready, answers, cut>>
  <2>1. pc = "read" /\ "read" \in ready
    BY DEF HandleRead
  <2>2. pc' \in {"decode", "write"}
    <3>1. CASE got < sent
      BY <3>1 DEF HandleRead
    <3>2. CASE ~(got < sent)
      BY <3>2 DEF HandleRead
    <3>3. QED
      BY <3>1, <3>2
  <2>3. Len(input) \in Nat
    BY LenProperties DEF TypeOK, RequestType
  <2>4. got \in Nat /\ sent \in Nat
    BY <2>3 DEF TypeOK, RequestType
  <2>5. QED
    BY <2>1, <2>2, <2>4 DEF HandleRead, LoopOK
<1>1. CASE got < sent
  <2>1. /\ ReadFd(SubSeq(input, got + 1, sent)) /\ got' = sent /\ UNCHANGED <<connVars, peer>>
        /\ IF checkstate # "GET_ALL" THEN pc' = "decode" /\ ret' = "decoding"
                                     ELSE pc' = "write" /\ ret' = "NO_REQUEST"
    BY <1>1 DEF HandleRead, MayDecode
  <2>2. /\ buf' \in Seq(Symbols) /\ taken' \in Seq(Symbols) /\ capacity' \in Nat
        /\ Len(taken') + Len(buf') <= capacity'
        /\ moved' \in {moved, moved \cup {"input"}}
    <3>1. got + 1 \in 1..Len(input) + 1 /\ sent \in 0..Len(input) /\ input \in Seq(Symbols)
      BY <1>1, LenProperties DEF TypeOK, RequestType
    <3>2. SubSeq(input, got + 1, sent) \in Seq(Symbols)
      BY <3>1, Sub
    <3>3. QED
      BY <2>1, <3>2, ReadIs DEF TypeOK
  <2>3. RequestType' /\ ResponseType'
    BY <1>0, <2>1, <2>2 DEF TypeOK, RequestType, ResponseType
  <2>4. LoopType' /\ LoopOK' /\ DecodeOK'
    BY <1>0, <1>1, <2>1, <2>2 DEF TypeOK, LoopType, LoopOK, DecodeOK, Deciding, IsReset
  <2>5. FileOK'
    BY <1>0, <2>1 DEF FileOK, Deciding
  <2>6. ~cut
    BY <1>1 DEF AnswerOK, LoopOK, TypeOK, RequestType
  <2>7. AnswerOK'
    BY <1>0, <2>1, <2>2, <2>6 DEF LoopOK, AnswerOK, NotYet, InProgress, Done, Closing, Deciding, IsReset
  <2>8. QED
    BY <2>3, <2>4, <2>5, <2>7 DEF TypeOK
<1>2. CASE ~(got < sent)
  <2>1. /\ pc' = "write" /\ UNCHANGED <<buf, taken, readVars, ret>>
        /\ \/ peer = "reset" /\ peer' = "resetRead" /\ UNCHANGED connVars
           \/ HandleClose("peer") /\ UNCHANGED peer
    BY <1>2 DEF HandleRead
  <2>2. RequestType' /\ ResponseType'
    BY <1>0, <2>1 DEF TypeOK, RequestType, ResponseType
  <2>3. LoopType' /\ LoopOK' /\ DecodeOK'
    <3>1. CASE peer = "reset" /\ peer' = "resetRead" /\ UNCHANGED connVars
      BY <1>0, <2>1, <3>1 DEF TypeOK, LoopType, LoopOK, DecodeOK, Deciding, IsReset
    <3>2. CASE HandleClose("peer") /\ UNCHANGED peer
      <4>1. connected' = FALSE /\ closedBy' = "peer" /\ writing' = FALSE /\ UNCHANGED <<output, partly, wire, peer>>
        BY <3>2 DEF HandleClose
      <4>2. LoopType'
        BY <1>0, <2>1, <4>1 DEF TypeOK, LoopType
      <4>3. LoopOK' /\ DecodeOK'
        <5>1. batch = <<>>
          BY <1>0 DEF LoopOK
        <5>2. QED
          BY <1>0, <2>1, <4>1, <5>1 DEF LoopOK, DecodeOK, Deciding, IsReset
      <4>4. QED
        BY <4>2, <4>3
    <3>3. QED
      BY <2>1, <3>1, <3>2
  <2>4. FileOK'
    BY <1>0, <2>1 DEF FileOK, Deciding
  <2>5. AnswerOK'
    <3>1. CASE peer = "reset" /\ peer' = "resetRead" /\ UNCHANGED connVars
      BY <1>0, <2>1, <3>1 DEF LoopOK, AnswerOK, NotYet, InProgress, Done, Closing, Deciding, IsReset
    <3>2. CASE HandleClose("peer") /\ UNCHANGED peer
      <4>1. connected' = FALSE /\ closedBy' = "peer" /\ writing' = FALSE /\ UNCHANGED <<output, partly, wire>>
        BY <3>2 DEF HandleClose
      <4>2. answers = <<>> => NotYet'
        BY <1>0, <2>1, <4>1 DEF AnswerOK, NotYet, Closing
      <4>3. cut => IsReset' /\ ~writing' /\ ~Deciding' /\ batch' # <<"writeComplete">>
        BY <1>0, <2>1, <3>2, <4>1 DEF AnswerOK, IsReset, Deciding
      <4>4. Closing' /\ fileOpen' => Len(answers') > 1
        BY <1>0 DEF AnswerOK, Closing
      <4>5. QED
        BY <1>0, <4>1, <4>2, <4>3, <4>4 DEF AnswerOK
    <3>3. QED
      BY <2>1, <3>1, <3>2
  <2>6. QED
    BY <2>2, <2>3, <2>4, <2>5 DEF TypeOK
<1>3. QED
  BY <1>1, <1>2

LEMMA DecodeStep == ASSUME RespInv, Running, Decode PROVE RespInv'
<1> USE DEF RespInv, requestVars, respVars, connVars, peerVars, taskVars, readVars
<1>1. /\ pc = "decode" /\ TryDecode
      /\ pc' = CASE ret' = "NO_REQUEST" -> "write"
                 [] ret' \in {"GET_REQUEST", "BAD_REQUEST"} -> "respond"
                 [] OTHER -> "decode"
      /\ UNCHANGED <<respVars, connVars, peerVars, taskVars, readVars, ready, answers, cut>>
  BY DEF Decode
<1>2. RequestType' /\ ret = "decoding" /\ checkstate # "GET_ALL" /\ (checkstate' = "GET_ALL" <=> ret' = "GET_REQUEST")
  BY <1>1, DecodeType DEF TypeOK, DecodeOK, Running
<1>3. \/ ret' = "NO_REQUEST" /\ pc' = "write"
      \/ ret' \in {"GET_REQUEST", "BAD_REQUEST"} /\ pc' = "respond"
      \/ ret' \in {"decoding", "exception"} /\ pc' = "decode"
  BY <1>1, <1>2 DEF RequestType
<1>4. ResponseType' /\ LoopType'
  BY <1>1, <1>3 DEF TypeOK, ResponseType, LoopType
<1>5. LoopOK' /\ DecodeOK'
  BY <1>1, <1>2, <1>3 DEF LoopOK, DecodeOK, Deciding, IsReset
<1>6. ~fileOpen /\ FileOK'
  BY <1>1, <1>2, <1>3 DEF FileOK, Deciding
<1>7. AnswerOK'
  BY <1>1, <1>2, <1>3, <1>6 DEF LoopOK, AnswerOK, NotYet, InProgress, Done, Closing, Deciding, IsReset
<1>8. QED
  BY <1>2, <1>4, <1>5, <1>6, <1>7 DEF TypeOK

LEMMA GarbledIs == ASSUME NEW n \in Nat PROVE Garbled(n) \in Seq(Units) /\ Len(Garbled(n)) = n
<1>1. Garbled(n) \in [1..n -> Units]
  BY DEF Garbled, Units
<1>2. Garbled(n) \in Seq(Units)
  BY <1>1, IsASeq
<1>3. QED
  BY <1>1, <1>2, LenProperties DEF Garbled

LEMMA RespondStep == ASSUME RespInv, Respond PROVE RespInv'
<1> USE DEF RespInv, requestVars, respVars, connVars, peerVars, taskVars, readVars
<1> DEFINE all == output \o headers' \o body'
           Sent == \/ output' = all /\ UNCHANGED <<partly, moved>>
                   \/ /\ partly /\ partly' = FALSE /\ moved' = moved \cup {"output"}
                      /\ \E last \in {headers' \o body', body'} :
                           output' = Garbled(Len(all) - Len(last)) \o last
<1>1. /\ pc = "respond" /\ pc' = "write" /\ connected
      /\ answers' = Append(answers, Answered) /\ LoadResponse
      /\ writing' = TRUE /\ Sent
      /\ UNCHANGED <<requestVars, connected, wire, closedBy, peerVars, taskVars, got, capacity, ready, cut>>
  <2>1. pc = "respond" /\ connected
    BY DEF Respond, LoopOK, Deciding
  <2>2. QED
    BY <2>1 DEF Respond, SendResponse
<1>2. PICK msg : msg = headers' \o body'
  OBVIOUS
<1>3. /\ headers' \in Seq(Units) /\ body' \in Seq(Units) /\ file' \in Seq(Units)
      /\ respComplete' \in BOOLEAN /\ fileOpen' \in BOOLEAN /\ open' \in Nat
      /\ Answered \in Resources
      /\ open' = IF fileOpen' THEN 1 ELSE 0
      /\ file' # <<>> => fileOpen' /\ ~respComplete'
      /\ fileOpen' => ret = "GET_REQUEST"
      /\ fileOpen' \/ respComplete'
      /\ headers = <<>> /\ body = <<>> => msg \o file' = Response(Answered)
  BY <1>1, <1>2, LoadIs DEF TypeOK, RequestType
<1>4. /\ msg \in Seq(Units) /\ output \in Seq(Units) /\ wire \in Seq(Units) /\ output' \in Seq(Units)
      /\ \/ output' = output \o msg /\ UNCHANGED <<partly, moved>>
         \/ partly /\ partly' = FALSE /\ moved' = moved \cup {"output"}
      /\ partly' => partly /\ output' # <<>>
  <2>1. msg \in Seq(Units) /\ output \in Seq(Units) /\ wire \in Seq(Units) /\ output \o msg \in Seq(Units)
    BY <1>2, <1>3, ConcatProperties DEF TypeOK, LoopType
  <2>2. PICK h, b : h = headers' /\ b = body'
    OBVIOUS
  <2>3. h \in Seq(Units) /\ b \in Seq(Units) /\ msg = h \o b /\ all = (output \o h) \o b
    BY <1>2, <1>3, <2>2
  <2>4. all = output \o msg
    <3>1. output \in Seq(Units) /\ h \in Seq(Units) /\ b \in Seq(Units)
      BY <2>1, <2>3
    <3>2. (output \o h) \o b = output \o (h \o b)
      BY <3>1, Regroup
    <3>3. QED
      BY <2>3, <3>2
  <2>5. Len(h) \in Nat /\ Len(b) \in Nat /\ Len(output) \in Nat /\ Len(msg) = Len(h) + Len(b)
        /\ Len(all) = Len(output) + Len(msg)
    BY <2>1, <2>3, <2>4, LenProperties, ConcatProperties
  <2>6. CASE output' = all /\ UNCHANGED <<partly, moved>>
    <3>1. partly => output' # <<>>
      <4>1. partly => Len(output) # 0
        BY <2>1, EmptySeq DEF LoopOK
      <4>2. partly => Len(output') # 0
        BY <2>5, <2>6, <4>1, LenProperties
      <4>3. QED
        BY <4>2, EmptySeq
    <3>2. QED
      BY <2>1, <2>4, <2>6, <3>1
  <2>7. CASE /\ partly /\ partly' = FALSE /\ moved' = moved \cup {"output"}
             /\ \E last \in {msg, b} : output' = Garbled(Len(all) - Len(last)) \o last
    <3>1. PICK last \in {msg, b} : output' = Garbled(Len(all) - Len(last)) \o last
      BY <2>7
    <3>2. last \in Seq(Units) /\ Len(all) - Len(last) \in Nat
      <4>1. CASE last = msg
        BY <2>1, <2>5, <4>1
      <4>2. CASE last = b
        BY <2>3, <2>5, <4>2
      <4>3. QED
        BY <4>1, <4>2
    <3>3. Garbled(Len(all) - Len(last)) \in Seq(Units)
      BY <3>2, GarbledIs
    <3>4. output' \in Seq(Units)
      BY <3>1, <3>2, <3>3, ConcatProperties
    <3>5. QED
      BY <2>1, <2>7, <3>4
  <2>8. QED
    BY <1>1, <1>2, <2>2, <2>6, <2>7
<1>5. /\ answers' \in Seq(Resources) /\ Len(answers') = Len(answers) + 1 /\ Len(answers) \in Nat
      /\ answers' # <<>>
      /\ answers = <<>> => answers'[1] = Answered /\ Len(answers) = 0
      /\ answers # <<>> => answers'[1] = answers[1] /\ Len(answers) > 0
  <2>1. answers \in Seq(Resources)
    BY DEF TypeOK, ResponseType
  <2>2. PICK a, q, r : a = Answered /\ q = answers /\ r = answers'
    OBVIOUS
  <2>3. a \in Resources /\ q \in Seq(Resources) /\ r = Append(q, a)
    BY <1>1, <1>3, <2>1, <2>2
  <2>4. QED
    BY <2>2, <2>3, Appended
<1>6. TypeOK'
  <2>1. RequestType'
    BY <1>1 DEF TypeOK, RequestType
  <2>2. ResponseType'
    BY <1>1, <1>3, <1>5 DEF TypeOK, ResponseType
  <2>3. LoopType'
    BY <1>1, <1>4 DEF TypeOK, LoopType
  <2>4. QED
    BY <2>1, <2>2, <2>3 DEF TypeOK
<1>7. LoopOK' /\ DecodeOK'
  BY <1>1, <1>4 DEF LoopOK, DecodeOK, Deciding, IsReset
<1>8. FileOK'
  BY <1>1, <1>3 DEF FileOK, DecodeOK, Deciding
<1>9. ~cut
  BY <1>1 DEF AnswerOK, Deciding
<1>10. ASSUME ~Closing PROVE InProgress'
  <2>1. CASE answers = <<>>
    <3>1. headers = <<>> /\ body = <<>> /\ output = <<>> /\ wire = <<>>
      BY <2>1 DEF AnswerOK, NotYet
    <3>2. output' = msg
      BY <1>4, <3>1, ConcatEmptySeq DEF LoopOK
    <3>3. wire' \o output' = msg
      BY <1>1, <1>4, <3>1, <3>2, ConcatEmptySeq
    <3>4. wire' \o output' \o file' = Response(answers'[1])
      BY <1>3, <1>5, <2>1, <3>1, <3>3
    <3>5. ASSUME answers'[1] # BadRequest PROVE checkstate' = "GET_ALL"
      BY <1>1, <1>5, <2>1, <3>5 DEF Answered, DecodeOK
    <3>6. ASSUME answers'[1] = BadRequest PROVE IsPrefix(Response(BadRequest), wire' \o output')
      <4>1. ~(Answered.code = 200)
        BY <1>5, <2>1, <3>6 DEF BadRequest
      <4>2. file' = <<>>
        BY <1>1, <4>1 DEF LoadResponse, LoadFailResponse, FileOK, Deciding
      <4>3. msg = Response(BadRequest)
        BY <1>3, <1>4, <1>5, <2>1, <3>1, <3>6, <4>2, ConcatEmptySeq
      <4>4. QED
        BY <1>4, <3>3, <4>3, PrefixSelf
    <3>7. QED
      BY <1>1, <1>5, <2>1, <3>4, <3>5, <3>6 DEF InProgress, Deciding
  <2>2. CASE answers # <<>>
    <3>1. answers[1] = BadRequest /\ ("output" \in moved \/ IsPrefix(Response(BadRequest), wire \o output))
      BY <1>1, <1>10, <2>2 DEF AnswerOK, InProgress, Deciding
    <3>2. /\ output' = output \o msg => wire \o output' = (wire \o output) \o msg
          /\ wire \o output \in Seq(Units)
      <4>1. (wire \o output) \o msg = wire \o (output \o msg)
        BY <1>4, Regroup, SMTT(60)
      <4>2. QED
        BY <1>4, <4>1, ConcatProperties
    <3>3. Response(BadRequest) \in Seq(Units)
      <4>1. BadRequest \in Resources
        BY DEF BadRequest, Resources
      <4>2. QED
        BY <4>1, ResponseIs
    <3>4. "output" \in moved' \/ IsPrefix(Response(BadRequest), wire' \o output')
      BY <1>1, <1>4, <3>1, <3>2, <3>3, PrefixGrows
    <3>5. QED
      BY <1>5, <2>2, <3>1, <3>4 DEF InProgress
  <2>3. QED
    BY <2>1, <2>2
<1>11. AnswerOK'
  <2>1. Closing' <=> Closing
    BY <1>1 DEF Closing
  <2>2. Closing => answers # <<>>
    BY DEF AnswerOK, NotYet
  <2>3. Closing => Done'
    BY <1>1, <1>4, <1>5, <2>2 DEF AnswerOK, Done
  <2>4. closedBy' # "server"
    BY <1>1 DEF LoopOK
  <2>5. Closing => Len(answers') > 1
    BY <1>5, <2>2
  <2>6. queue' # <<>> => "write" \notin ready'
    BY <1>1 DEF AnswerOK
  <2>7. QED
    BY <1>1, <1>5, <1>9, <1>10, <2>1, <2>3, <2>4, <2>5, <2>6 DEF AnswerOK
<1>12. QED
  BY <1>6, <1>7, <1>8, <1>11

-----------------------------------------------------------------------------
(***************************************************************************)
(* Writing the response                                                    *)
(***************************************************************************)
LEMMA TasksDiffer == <<"closeInLoop">> # <<"writeComplete">> /\ <<"closeInLoop">> # <<>> /\ <<"writeComplete">> # <<>>
<1>1. <<"closeInLoop">>[1] = "closeInLoop" /\ <<"writeComplete">>[1] = "writeComplete"
  OBVIOUS
<1>2. QED
  BY <1>1

LEMMA HandleWriteStep == ASSUME RespInv, HandleWrite PROVE RespInv'
<1> USE DEF RespInv, requestVars, respVars, connVars, peerVars, taskVars, readVars
<1>1. /\ pc = "write" /\ pc' = "tasks" /\ queue' = <<>> /\ batch = <<>>
      /\ UNCHANGED <<requestVars, respVars, connected, closedBy, peerVars, readVars, ready, answers, cut>>
  BY DEF HandleWrite, LoopOK
<1>2. RequestType' /\ ResponseType'
  BY <1>1 DEF TypeOK, RequestType, ResponseType
<1>3. DecodeOK' /\ FileOK'
  BY <1>1 DEF DecodeOK, FileOK, Deciding
<1>4. CASE batch' = queue /\ UNCHANGED <<wire, output, partly, writing>>
  <2>1. LoopType'
    BY <1>1, <1>4 DEF TypeOK, LoopType
  <2>2. LoopOK'
    <3>1. batch' # <<"writeComplete">>
      BY <1>4, TasksDiffer DEF TypeOK, LoopType
    <3>2. QED
      BY <1>1, <1>4, <3>1 DEF LoopOK, Deciding, IsReset
  <2>3. Closing' <=> Closing
    BY <1>1, <1>4 DEF Closing
  <2>4. AnswerOK'
    <3>1. batch' # <<"writeComplete">>
      BY <1>4, TasksDiffer DEF TypeOK, LoopType
    <3>2. answers = <<>> => NotYet'
      BY <1>1, <1>4, <2>3 DEF AnswerOK, NotYet, Closing, TypeOK, LoopType
    <3>3. QED
      BY <1>1, <1>4, <2>3, <3>1, <3>2 DEF AnswerOK, InProgress, Done, Deciding, IsReset
  <2>5. QED
    BY <1>2, <1>3, <2>1, <2>2, <2>4 DEF TypeOK
<1>5. CASE /\ "write" \in ready /\ writing
           /\ \E n \in (IF output = <<>> THEN {0} ELSE 1..Len(output)) :
                /\ wire' = wire \o SubSeq(output, 1, n)
                /\ output' = SubSeq(output, n + 1, Len(output))
                /\ writing' = (n < Len(output)) /\ partly' = (n < Len(output))
                /\ batch' = IF n < Len(output) THEN queue ELSE Append(queue, "writeComplete")
  <2>1. PICK n \in (IF output = <<>> THEN {0} ELSE 1..Len(output)) :
                /\ wire' = wire \o SubSeq(output, 1, n)
                /\ output' = SubSeq(output, n + 1, Len(output))
                /\ writing' = (n < Len(output)) /\ partly' = (n < Len(output))
                /\ batch' = IF n < Len(output) THEN queue ELSE Append(queue, "writeComplete")
    BY <1>5
  <2>2. output \in Seq(Units) /\ wire \in Seq(Units) /\ Len(output) \in Nat /\ n \in 0..Len(output)
    <3>1. output \in Seq(Units) /\ wire \in Seq(Units) /\ Len(output) \in Nat
      BY LenProperties DEF TypeOK, LoopType
    <3>2. QED
      BY <3>1, <2>1
  <2>3. PICK head, rest : head = SubSeq(output, 1, n) /\ rest = SubSeq(output, n + 1, Len(output))
    OBVIOUS
  <2>4. /\ head \in Seq(Units) /\ rest \in Seq(Units) /\ head \o rest = output
        /\ n = Len(output) => rest = <<>>
    BY <2>2, <2>3, Split, ZenonT(60)
  <2>5. /\ wire' = wire \o head /\ output' = rest /\ wire' \in Seq(Units)
        /\ wire' \o output' = wire \o output
    <3>1. wire' = wire \o head /\ output' = rest
      BY <2>1, <2>3
    <3>2. (wire \o head) \o rest = wire \o (head \o rest)
      <4>1. wire \in Seq(Units) /\ head \in Seq(Units) /\ rest \in Seq(Units)
        BY <2>2, <2>4
      <4>2. QED
        BY <4>1, Regroup
    <3>3. wire \o head \in Seq(Units)
      BY <2>2, <2>4, ConcatProperties
    <3>4. QED
      BY <2>4, <3>1, <3>2, <3>3
  <2>6. connected /\ queue = <<>> /\ answers # <<>> /\ ~Closing /\ ~cut
    <3>1. connected /\ answers # <<>> /\ ~cut
      BY <1>5 DEF LoopOK, AnswerOK, NotYet
    <3>2. queue = <<>>
      BY <1>1, <1>5, <3>1 DEF AnswerOK
    <3>3. QED
      BY <1>1, <3>1, <3>2, TasksDiffer DEF Closing
  <2>7. \/ batch' = <<>>
        \/ batch' = <<"writeComplete">> /\ output' = <<>> /\ ~writing'
    <3>1. CASE n < Len(output)
      BY <2>1, <2>6, <3>1
    <3>2. CASE ~(n < Len(output))
      <4>1. n = Len(output)
        BY <2>2, <3>2
      <4>2. ~writing'
        BY <2>1, <3>2, Zenon
      <4>3. Append(<<>>, "writeComplete") = <<"writeComplete">>
        OBVIOUS
      <4>4. QED
        BY <2>1, <2>4, <2>5, <2>6, <3>2, <4>1, <4>2, <4>3
    <3>3. QED
      BY <3>1, <3>2
  <2>8. LoopType'
    <3>1. writing' \in BOOLEAN /\ partly' \in BOOLEAN
      <4>1. writing' \in BOOLEAN
        BY <2>1
      <4>2. partly' \in BOOLEAN
        BY <2>1
      <4>3. QED
        BY <4>1, <4>2
    <3>2. QED
      BY <1>1, <2>4, <2>5, <2>7, <3>1 DEF TypeOK, LoopType
  <2>9. LoopOK'
    <3>1. ASSUME partly' PROVE output' # <<>>
      <4>1. n < Len(output)
        BY <2>1, <3>1, Zenon
      <4>2. n + 1 \in 1..Len(output) + 1 /\ Len(output) \in 0..Len(output)
        BY <2>2
      <4>3. Len(rest) = Len(output) - n
        BY <2>2, <2>3, <4>1, <4>2, Sub
      <4>4. Len(rest) # 0
        BY <2>2, <4>1, <4>3
      <4>5. QED
        BY <2>5, <4>4, EmptySeq
    <3>2. QED
      BY <1>1, <2>6, <2>7, <3>1 DEF LoopOK, Deciding, IsReset
  <2>10. ~Closing'
    BY <1>1, <2>7 DEF Closing
  <2>11. closedBy' = "nobody"
    BY <1>1, <2>6 DEF LoopOK
  <2>12. InProgress'
    BY <1>1, <2>5, <2>6 DEF AnswerOK, InProgress, Deciding
  <2>13. AnswerOK'
    BY <1>1, <2>6, <2>10, <2>11, <2>12 DEF AnswerOK
  <2>14. QED
    BY <1>2, <1>3, <2>8, <2>9, <2>13 DEF TypeOK
<1>6. QED
  BY <1>4, <1>5 DEF HandleWrite

\* Clearing the context and queueing closeInLoop, when the response is written or
\* sendfile() has failed.
LEMMA FinishStep ==
    ASSUME RespInv, Task("writeComplete"), Finish, NEW c \in BOOLEAN, cut' = c,
           c => IsReset, ~c => file = <<>>
    PROVE  RespInv'
<1> USE DEF RespInv, requestVars, respVars, connVars, peerVars, taskVars, readVars
<1>1. /\ pc = "tasks" /\ batch = <<"writeComplete">> /\ batch' = <<>>
      /\ UNCHANGED <<peerVars, readVars, pc, ready, answers>>
  BY TaskIs DEF TypeOK
<1>2. /\ connected /\ output = <<>> /\ ~writing /\ queue = <<>> /\ ~Closing /\ answers # <<>>
      /\ closedBy = "nobody"
  BY <1>1 DEF LoopOK, AnswerOK, NotYet, Closing
<1>3. /\ checkstate' = "EXPECT_REQUESTLINE" /\ url' = NoURL /\ contentLength' = 0
      /\ headers' = <<>> /\ body' = <<>> /\ respComplete' = FALSE
      /\ file' = <<>> /\ fileOpen' = FALSE
      /\ open' = (IF fileOpen THEN open - 1 ELSE open)
      /\ queue' = <<"closeInLoop">>
      /\ UNCHANGED <<buf, taken, ret, connVars>>
  <2>1. Append(<<>>, "closeInLoop") = <<"closeInLoop">>
    OBVIOUS
  <2>2. QED
    BY <1>2, <2>1 DEF Finish, Clear, ClearResponse
<1>4. open' = 0
  BY <1>3 DEF FileOK
<1>5. RequestType' /\ ResponseType' /\ LoopType'
  <2>1. RequestType'
    BY <1>1, <1>3 DEF TypeOK, RequestType, CheckState, NoURL, Resources
  <2>2. ResponseType'
    <3>1. <<>> \in Seq(Units) /\ 0 \in Nat
      BY EmptySeq
    <3>2. QED
      BY <1>1, <1>3, <1>4, <3>1 DEF TypeOK, ResponseType
  <2>3. LoopType'
    BY <1>1, <1>3 DEF TypeOK, LoopType
  <2>4. QED
    BY <2>1, <2>2, <2>3
<1>6. LoopOK' /\ DecodeOK' /\ FileOK'
  BY <1>1, <1>2, <1>3, <1>4 DEF LoopOK, DecodeOK, FileOK, Deciding, IsReset
<1>7. InProgress /\ wire \in Seq(Units)
  BY <1>2 DEF AnswerOK, TypeOK, LoopType
<1>8. Done'
  <2>1. CASE c
    BY <2>1 DEF Done
  <2>2. CASE ~c
    <3>1. wire \o output = wire /\ (wire \o output) \o file = wire
      BY <1>2, <1>7, <2>2, ConcatEmptySeq
    <3>2. \/ wire = Response(answers[1])
          \/ answers[1] = BadRequest /\ ("output" \in moved \/ IsPrefix(Response(BadRequest), wire))
      BY <1>7, <3>1 DEF InProgress
    <3>3. QED
      BY <1>1, <1>3, <3>2 DEF Done
  <2>3. QED
    BY <2>1, <2>2
<1>9. AnswerOK'
  <2>1. answers' # <<>> /\ fileOpen' = FALSE /\ Closing' /\ closedBy' = "nobody" /\ writing' = FALSE
    BY <1>1, <1>2, <1>3 DEF Closing, TypeOK, LoopType
  <2>2. cut' => IsReset' /\ ~Deciding' /\ batch' # <<"writeComplete">>
    BY <1>1 DEF IsReset, Deciding
  <2>3. QED
    BY <1>1, <1>8, <2>1, <2>2 DEF AnswerOK
<1>10. QED
  BY <1>5, <1>6, <1>9 DEF TypeOK

\* A chunk that sendfile() has put on the wire.
LEMMA NextChunkStep ==
    ASSUME RespInv, Task("writeComplete"), ~respComplete, ~IsReset,
           NEW n \in 1..Chunk, n <= Len(file), NextChunk(n)
    PROVE  RespInv'
<1> USE DEF RespInv, requestVars, respVars, connVars, peerVars, taskVars, readVars
<1>1. /\ pc = "tasks" /\ batch = <<"writeComplete">> /\ batch' = <<>>
      /\ UNCHANGED <<peerVars, readVars, pc, ready, answers>>
  BY TaskIs DEF TypeOK
<1>2. /\ connected /\ output = <<>> /\ ~writing /\ queue = <<>> /\ ~Closing /\ answers # <<>>
      /\ closedBy = "nobody" /\ ~cut
  BY <1>1 DEF LoopOK, AnswerOK, NotYet, Closing
<1>3. file \in Seq(Units) /\ wire \in Seq(Units) /\ n \in 0..Len(file) /\ file # <<>>
  <2>1. file \in Seq(Units) /\ wire \in Seq(Units) /\ Len(file) \in Nat
    BY LenProperties DEF TypeOK, LoopType, ResponseType
  <2>2. n \in 0..Len(file) /\ Len(file) > 0
    BY <2>1, ChunkAssumption
  <2>3. QED
    BY <2>1, <2>2, EmptySeq
<1>4. PICK head, rest : head = SubSeq(file, 1, n) /\ rest = SubSeq(file, n + 1, Len(file))
  OBVIOUS
<1>5. head \in Seq(Units) /\ rest \in Seq(Units) /\ head \o rest = file
  BY <1>3, <1>4, Split
<1>6. /\ wire' = wire \o head /\ file' = rest /\ output' = <<>> /\ writing' = TRUE /\ partly' = partly
      /\ UNCHANGED <<requestVars, headers, body, respComplete, fileOpen, open, connected, closedBy, queue, cut>>
  BY <1>2, <1>4 DEF NextChunk, SendFile, SendNothing
<1>7. wire' \in Seq(Units) /\ (wire' \o output') \o file' = (wire \o output) \o file
  <2>1. wire \o head \in Seq(Units) /\ (wire \o head) \o rest = wire \o (head \o rest)
    <3>1. wire \o head \in Seq(Units)
      BY <1>3, <1>5, ConcatProperties
    <3>2. (wire \o head) \o rest = wire \o (head \o rest)
      <4>1. wire \in Seq(Units) /\ head \in Seq(Units) /\ rest \in Seq(Units)
        BY <1>3, <1>5
      <4>2. QED
        BY <4>1, Regroup, SMTT(60)
    <3>3. QED
      BY <3>1, <3>2
  <2>2. (wire \o head) \o <<>> = wire \o head /\ wire \o <<>> = wire
    BY <1>3, <2>1, ConcatEmptySeq
  <2>3. QED
    BY <1>2, <1>5, <1>6, <2>1, <2>2
<1>8. RequestType' /\ ResponseType' /\ LoopType'
  <2>1. RequestType'
    BY <1>1, <1>6 DEF TypeOK, RequestType
  <2>2. ResponseType'
    BY <1>1, <1>5, <1>6 DEF TypeOK, ResponseType
  <2>3. LoopType'
    BY <1>1, <1>6, <1>7, EmptySeq DEF TypeOK, LoopType
  <2>4. QED
    BY <2>1, <2>2, <2>3
<1>9. LoopOK' /\ DecodeOK' /\ FileOK'
  <2>1. LoopOK' /\ DecodeOK'
    BY <1>1, <1>2, <1>6 DEF LoopOK, DecodeOK, Deciding, IsReset
  <2>2. fileOpen
    BY <1>3 DEF FileOK
  <2>3. FileOK'
    BY <1>1, <1>6, <2>2 DEF FileOK, Deciding
  <2>4. QED
    BY <2>1, <2>3
<1>10. InProgress'
  <2>1. InProgress
    BY <1>2 DEF AnswerOK
  <2>2. ASSUME answers[1] = BadRequest, "output" \notin moved
        PROVE  IsPrefix(Response(BadRequest), wire' \o output')
    <3>1. IsPrefix(Response(BadRequest), wire)
      <4>1. wire \o <<>> = wire
        BY <1>3, ConcatEmptySeq
      <4>2. QED
        BY <1>2, <2>1, <2>2, <4>1 DEF InProgress
    <3>2. BadRequest \in Resources
      BY DEF BadRequest, Resources
    <3>3. IsPrefix(Response(BadRequest), wire \o head)
      BY <1>3, <1>5, <3>1, <3>2, ResponseIs, PrefixGrows
    <3>4. wire' \o output' = wire \o head
      BY <1>6, <1>7, ConcatEmptySeq
    <3>5. QED
      BY <3>3, <3>4
  <2>3. QED
    BY <1>1, <1>6, <1>7, <2>1, <2>2 DEF InProgress, Deciding
<1>11. AnswerOK'
  <2>1. answers' # <<>> /\ ~Closing' /\ closedBy' = "nobody" /\ queue' = <<>> /\ ~cut'
    BY <1>1, <1>2, <1>6 DEF Closing
  <2>2. QED
    BY <1>10, <2>1 DEF AnswerOK
<1>12. QED
  BY <1>8, <1>9, <1>11 DEF TypeOK

LEMMA OnWriteCompleteStep == ASSUME RespInv, OnWriteComplete PROVE RespInv'
<1> USE DEF RespInv, requestVars, respVars, connVars, peerVars, taskVars, readVars
<1>1. Task("writeComplete")
  BY DEF OnWriteComplete
<1>2. /\ pc = "tasks" /\ batch = <<"writeComplete">> /\ batch' = <<>> /\ ~cut
      /\ UNCHANGED <<peerVars, readVars, pc, ready, answers>>
  BY <1>1, TaskIs DEF TypeOK, AnswerOK
<1>3. CASE respComplete /\ Finish /\ UNCHANGED cut
  <2>1. file = <<>> /\ cut' = FALSE
    BY <1>2, <1>3 DEF FileOK, TypeOK, ResponseType
  <2>2. QED
    BY <1>1, <1>3, <2>1, FinishStep
<1>4. CASE ~respComplete /\ ~IsReset /\ \E n \in 1..Chunk : n <= Len(file) /\ NextChunk(n)
  BY <1>1, <1>4, NextChunkStep
<1>5. CASE (file = <<>> \/ IsReset) /\ Finish /\ cut' = (file # <<>>)
  BY <1>1, <1>5, FinishStep
<1>6. CASE UNCHANGED <<requestVars, respVars, connVars, queue, cut>>
  <2>1. TypeOK'
    BY <1>2, <1>6 DEF TypeOK, RequestType, ResponseType, LoopType
  <2>2. LoopOK' /\ DecodeOK' /\ FileOK'
    BY <1>2, <1>6 DEF LoopOK, DecodeOK, FileOK, Deciding, IsReset
  <2>3. AnswerOK'
    BY <1>2, <1>6 DEF AnswerOK, NotYet, InProgress, Done, Closing, Deciding, IsReset
  <2>4. QED
    BY <2>1, <2>2, <2>3
<1>7. QED
  BY <1>3, <1>4, <1>5, <1>6 DEF OnWriteComplete

-----------------------------------------------------------------------------
LEMMA InitResp == Init => RespInv
<1> SUFFICES ASSUME Init PROVE RespInv
  OBVIOUS
<1>1. input \in Seq(Symbols) /\ Len(input) \in Nat
  <2>1. input \in Seq(Texts \cup {CR, LF})
    BY InputAssumption DEF Init
  <2>2. Len(input) \in Nat /\ \A i \in 1..Len(input) : input[i] \in Symbols
    BY <2>1, LenProperties, ElementOfSeq DEF Symbols
  <2>3. input \in Seq(Symbols)
    BY <2>1, <2>2, LenProperties, SeqDef
  <2>4. QED
    BY <2>2, <2>3
<1>2. TypeOK
  <2>1. RequestType
    BY <1>1, EmptySeq, BufferAssumption DEF Init, RequestType, CheckState, NoURL, Resources
  <2>2. ResponseType /\ LoopType
    BY EmptySeq DEF Init, ResponseType, LoopType
  <2>3. QED
    BY <2>1, <2>2 DEF TypeOK
<1>3. LoopOK /\ DecodeOK /\ FileOK
  BY DEF Init, LoopOK, DecodeOK, FileOK, Deciding, IsReset
<1>4. AnswerOK
  BY DEF Init, AnswerOK, NotYet, Closing
<1>5. QED
  BY <1>2, <1>3, <1>4 DEF RespInv

LEMMA StepResp == RespInv /\ [Next]_vars => RespInv'
<1> SUFFICES ASSUME RespInv, [Next]_vars PROVE RespInv'
  OBVIOUS
<1>1. CASE UNCHANGED vars \/ Abort
  <2>1. UNCHANGED <<requestVars, respVars, connVars, peerVars, taskVars, readVars, pc, ready, answers, cut>>
    BY <1>1 DEF vars, Abort
  <2>2. TypeOK'
    BY <2>1 DEF RespInv, TypeOK, RequestType, ResponseType, LoopType,
                requestVars, respVars, connVars, peerVars, taskVars, readVars
  <2>3. LoopOK' /\ DecodeOK' /\ FileOK'
    BY <2>1 DEF RespInv, LoopOK, DecodeOK, FileOK, Deciding, IsReset,
                requestVars, respVars, connVars, peerVars, taskVars, readVars
  <2>4. AnswerOK'
    BY <2>1 DEF RespInv, AnswerOK, NotYet, InProgress, Done, Closing, Deciding, IsReset,
                requestVars, respVars, connVars, peerVars, taskVars, readVars
  <2>5. QED
    BY <2>2, <2>3, <2>4 DEF RespInv
<1>2. CASE Running /\ LoopStep
  BY <1>2, PollStep, HandleReadStep, NoReadStep, DecodeStep, RespondStep, HandleWriteStep,
     OnWriteCompleteStep, CloseInLoopStep, EndTasksStep DEF LoopStep
<1>3. CASE PeerSends \/ PeerCloses \/ PeerResets
  BY <1>3, PeerStep
<1>4. QED
  BY <1>1, <1>2, <1>3 DEF Next, Works, Stopped

\* RespInv is inductive: every behaviour of the server keeps it.
LEMMA AlwaysResp == Spec => []RespInv
<1>1. QED
  BY InitResp, StepResp, PTL DEF Spec

LEMMA NothingQueued ==
    ASSUME LoopType, "closeInLoop" \notin ToSet(queue \o batch), batch # <<>> => queue = <<>>
    PROVE  ~Closing
<1>1. <<"closeInLoop">> \o <<>> = <<"closeInLoop">> /\ <<>> \o <<"closeInLoop">> = <<"closeInLoop">>
  OBVIOUS
<1>2. "closeInLoop" \in ToSet(<<"closeInLoop">>)
  BY DEF ToSet
<1>3. queue = <<"closeInLoop">> => batch = <<>>
  BY TasksDiffer
<1>4. batch = <<"closeInLoop">> => queue = <<>>
  BY TasksDiffer
<1>5. queue # <<"closeInLoop">>
  BY <1>1, <1>2, <1>3, Zenon
<1>6. batch # <<"closeInLoop">>
  BY <1>1, <1>2, <1>4, Zenon
<1>7. QED
  BY <1>5, <1>6 DEF Closing

\* What is on the wire, in the output buffer and left of the file make up the
\* response, whatever the resource, the size of its file, BUFFER_SIZE and the
\* interleaving of write events, sendfile() chunks and the client: WholeResponse.
THEOREM ResponseWhole == Spec => []WholeResponse
<1>1. RespInv => WholeResponse
  <2> SUFFICES ASSUME RespInv, Len(answers) = 1, closedBy = "nobody",
                      "closeInLoop" \notin ToSet(queue \o batch)
               PROVE  wire \o output \o file = Response(answers[1])
    BY DEF WholeResponse
  <2>1. ~Closing /\ connected
    BY NothingQueued DEF RespInv, TypeOK, LoopOK
  <2>2. answers # <<>>
    BY EmptySeq
  <2>3. QED
    BY <2>1, <2>2 DEF RespInv, AnswerOK, InProgress
<1>2. QED
  BY AlwaysResp, <1>1, PTL

\* The server closes a connection only when the response is on the wire, whole, or
\* sendfile() has failed (onWriteComplete, closeInLoop): ClosedMeansAnswered.
THEOREM ClosedIsAnswered == Spec => []ClosedMeansAnswered
<1>1. RespInv => ClosedMeansAnswered
  BY DEF RespInv, AnswerOK, Done, ClosedMeansAnswered
<1>2. QED
  BY AlwaysResp, <1>1, PTL

\* loadFile never overwrites an open filefd_, onWriteComplete finds it open, and it
\* is closed before the server closes the connection: NoFileForgotten.
THEOREM FilesClosed == Spec => []NoFileForgotten
<1>1. RespInv => NoFileForgotten
  BY DEF RespInv, FileOK, AnswerOK, NoFileForgotten
<1>2. QED
  BY AlwaysResp, <1>1, PTL

-----------------------------------------------------------------------------
(***************************************************************************)
(* Lines by their positions                                                *)
(***************************************************************************)
IsLine(s, b, e) ==
    /\ b \in Nat /\ e \in Nat /\ b - 2 \in FindCRLF(s) /\ e \in FindCRLF(s) /\ b <= e
    /\ \A f \in FindCRLF(s) : b <= f => e <= f

LEMMA LinesAre ==
    ASSUME NEW s \in Seq(Symbols)
    PROVE  /\ \A l \in Lines(s) : l = <<l[1], l[2]>> /\ IsLine(s, l[1], l[2])
           /\ \A b, e : IsLine(s, b, e) => <<b, e>> \in Lines(s)
<1>1. Len(s) \in Nat /\ FindCRLF(s) \subseteq 1..(Len(s) - 1) /\ FindCRLF(s) \subseteq Nat
  BY CRLFs
<1>2. ASSUME NEW l \in Lines(s) PROVE l = <<l[1], l[2]>> /\ IsLine(s, l[1], l[2])
  <2>1. l \in (2..Len(s)) \X FindCRLF(s) /\ LineFrom(FindCRLF(s), l[1], l[2])
    BY DEF Lines
  <2>2. l = <<l[1], l[2]>> /\ l[1] \in 2..Len(s)
    BY <2>1
  <2>3. QED
    BY <1>1, <2>1, <2>2 DEF LineFrom, IsLine
<1>3. ASSUME NEW b, NEW e, IsLine(s, b, e) PROVE <<b, e>> \in Lines(s)
  <2>1. b \in 2..Len(s) /\ e \in FindCRLF(s)
    BY <1>1, <1>3 DEF IsLine
  <2>2. PICK l : l = <<b, e>>
    OBVIOUS
  <2>3. l \in (2..Len(s)) \X FindCRLF(s) /\ l[1] = b /\ l[2] = e
    BY <2>1, <2>2
  <2>4. LineFrom(FindCRLF(s), l[1], l[2])
    BY <1>3, <2>3 DEF LineFrom, IsLine
  <2>5. QED
    BY <2>2, <2>3, <2>4 DEF Lines
<1>4. QED
  BY <1>2, <1>3

\* A CRLF is two symbols: no line begins between them.
LEMMA Apart ==
    ASSUME NEW s \in Seq(Symbols), NEW f \in FindCRLF(s)
    PROVE  f - 1 \notin FindCRLF(s) /\ f + 1 \notin FindCRLF(s)
  BY CRisNotLF, CRLFs DEF FindCRLF

\* The text of a line.
LEMMA TextOf ==
    ASSUME NEW s \in Seq(Symbols), NEW b, NEW e, IsLine(s, b, e)
    PROVE  /\ LineText(s, <<b, e>>) \in Seq(Symbols) /\ Len(LineText(s, <<b, e>>)) = e - b
           /\ \A i \in 1..(e - b) : LineText(s, <<b, e>>)[i] = s[b + i - 1]
<1>1. Len(s) \in Nat /\ FindCRLF(s) \subseteq 1..(Len(s) - 1)
  BY CRLFs
<1>2. b \in 1..Len(s) + 1 /\ e - 1 \in 0..Len(s) /\ b <= e /\ b \in Nat /\ e \in Nat
  BY <1>1 DEF IsLine
<1>3. PICK t : t = SubSeq(s, b, e - 1)
  OBVIOUS
<1>4. /\ t \in Seq(Symbols) /\ Len(t) = IF b <= e - 1 THEN e - 1 - b + 1 ELSE 0
      /\ \A i \in 1..(e - 1 - b + 1) : t[i] = s[b + i - 1]
  BY <1>2, <1>3, Sub
<1>5. t \in Seq(Symbols) /\ Len(t) = e - b /\ \A i \in 1..(e - b) : t[i] = s[b + i - 1]
  BY <1>2, <1>4
<1>6. LineText(s, <<b, e>>) = t
  BY <1>3 DEF LineText
<1>7. QED
  BY <1>5, <1>6

\* What is left of s from position p on.
IsRest(s, p, r) ==
    /\ r \in Seq(Symbols) /\ Len(r) \in Nat /\ Len(s) \in Nat /\ p \in Nat /\ p >= 1
    /\ Len(r) = Len(s) - p + 1
    /\ \A i \in 1..Len(r) : r[i] = s[p + i - 1]
    /\ \A i \in FindCRLF(r) : i \in Nat /\ p + i - 1 \in FindCRLF(s)
    /\ \A f \in FindCRLF(s) : f \in Nat /\ (p <= f => f - p + 1 \in FindCRLF(r))

LEMMA RestIs ==
    ASSUME NEW s \in Seq(Symbols), NEW p \in 1..Len(s) + 1, NEW r, r = Rest(s, p)
    PROVE  IsRest(s, p, r)
<1>1. Len(s) \in Nat /\ p \in Nat /\ p >= 1 /\ Len(s) \in 0..Len(s)
  BY LenProperties
<1>2. /\ r \in Seq(Symbols) /\ Len(r) = IF p <= Len(s) THEN Len(s) - p + 1 ELSE 0
      /\ \A i \in 1..(Len(s) - p + 1) : r[i] = s[p + i - 1]
  BY <1>1, Sub DEF Rest
<1>3. Len(r) = Len(s) - p + 1 /\ Len(r) \in Nat /\ \A i \in 1..Len(r) : r[i] = s[p + i - 1]
  BY <1>1, <1>2
<1>4. ASSUME NEW i \in FindCRLF(r) PROVE i \in Nat /\ p + i - 1 \in FindCRLF(s)
  <2>1. i \in 1..(Len(r) - 1) /\ r[i] = CR /\ r[i + 1] = LF
    BY DEF FindCRLF
  <2>2. i \in 1..Len(r) /\ i + 1 \in 1..Len(r) /\ p + i - 1 \in 1..(Len(s) - 1) /\ i \in Nat
    BY <1>1, <1>3, <2>1
  <2>3. r[i] = s[p + i - 1] /\ r[i + 1] = s[p + (i + 1) - 1] /\ p + (i + 1) - 1 = p + i - 1 + 1
    BY <1>1, <1>3, <2>2
  <2>4. QED
    BY <2>1, <2>2, <2>3 DEF FindCRLF
<1>5. ASSUME NEW f \in FindCRLF(s) PROVE f \in Nat /\ (p <= f => f - p + 1 \in FindCRLF(r))
  <2>1. f \in 1..(Len(s) - 1) /\ s[f] = CR /\ s[f + 1] = LF
    BY DEF FindCRLF
  <2>2. ASSUME p <= f PROVE f - p + 1 \in FindCRLF(r)
    <3>1. PICK i : i = f - p + 1
      OBVIOUS
    <3>2. i \in 1..(Len(r) - 1) /\ i \in 1..Len(r) /\ i + 1 \in 1..Len(r)
      BY <1>1, <1>3, <2>1, <2>2, <3>1, SMTT(60)
    <3>3. r[i] = s[p + i - 1] /\ r[i + 1] = s[p + (i + 1) - 1]
      BY <1>3, <3>2
    <3>4. p + i - 1 = f /\ p + (i + 1) - 1 = f + 1
      BY <1>1, <2>1, <3>1
    <3>5. QED
      BY <2>1, <3>1, <3>2, <3>3, <3>4 DEF FindCRLF
  <2>3. QED
    BY <1>1, <2>1, <2>2
<1>6. QED
  BY <1>1, <1>2, <1>3, <1>4, <1>5 DEF IsRest

\* The next line that tryDecode takes, from position p on, is a line of the whole.
IsNext(s, p, r, k) ==
    /\ k \in Nat /\ k >= 1 /\ p + k + 1 \in 1..Len(s) + 1
    /\ IsLine(s, p, p + k - 1)
    /\ LineText(s, <<p, p + k - 1>>) = Line(r)
    /\ AfterLine(r) = Rest(s, p + k + 1)
    /\ \A l \in Lines(s) : l[1] < p + k + 1 => l[1] < p \/ l = <<p, p + k - 1>>

LEMMA NextLine ==
    ASSUME NEW s \in Seq(Symbols), NEW p, NEW r, IsRest(s, p, r),
           p - 2 \in FindCRLF(s), NEW k, IsFirst(r, k)
    PROVE  IsNext(s, p, r, k)
<1>1. /\ p \in Nat /\ k \in Nat /\ k >= 1 /\ p >= 1 /\ Len(s) \in Nat /\ Len(r) \in Nat
      /\ Len(r) = Len(s) - p + 1 /\ k <= Len(r) - 1
  BY DEF IsRest, IsFirst
<1>2. p + k + 1 \in 1..Len(s) + 1
  BY <1>1
<1>3. IsLine(s, p, p + k - 1)
  <2>1. p + k - 1 \in Nat /\ p <= p + k - 1
    BY <1>1
  <2>2. p + k - 1 \in FindCRLF(s)
    BY DEF IsRest, IsFirst
  <2>3. ASSUME NEW f \in FindCRLF(s), p <= f PROVE p + k - 1 <= f
    <3>1. f \in Nat /\ f - p + 1 \in FindCRLF(r)
      BY <2>3 DEF IsRest
    <3>2. k <= f - p + 1
      BY <3>1 DEF IsFirst
    <3>3. QED
      BY <1>1, <3>1, <3>2
  <2>4. QED
    BY <1>1, <2>1, <2>2, <2>3 DEF IsLine
<1>4. LineText(s, <<p, p + k - 1>>) = Line(r)
  <2>1. PICK x, y, e : x = LineText(s, <<p, e>>) /\ y = Line(r) /\ e = p + k - 1
    OBVIOUS
  <2>2. /\ x \in Seq(Symbols) /\ Len(x) = e - p
        /\ \A i \in 1..(e - p) : x[i] = s[p + i - 1]
    BY <1>3, <2>1, TextOf
  <2>3. e - p = k - 1 /\ \A i \in 1..(k - 1) : i \in 1..Len(r)
    BY <1>1, <2>1
  <2>4. /\ y \in Seq(Symbols) /\ Len(y) = k - 1
        /\ \A i \in 1..(k - 1) : y[i] = r[i]
    BY <2>1 DEF IsFirst
  <2>5. \A i \in 1..Len(r) : r[i] = s[p + i - 1]
    BY DEF IsRest
  <2>6. Len(x) = Len(y) /\ \A i \in 1..Len(x) : x[i] = y[i]
    <3>1. Len(x) = k - 1 /\ Len(y) = k - 1
      BY <2>2, <2>3, <2>4
    <3>2. ASSUME NEW i \in 1..(k - 1) PROVE x[i] = y[i]
      <4>1. x[i] = s[p + i - 1]
        BY <2>2, <2>3
      <4>2. y[i] = r[i] /\ i \in 1..Len(r)
        BY <2>3, <2>4
      <4>3. QED
        BY <2>5, <4>1, <4>2
    <3>3. QED
      BY <3>1, <3>2
  <2>7. x = y
    BY <2>2, <2>4, <2>6, SeqEqual
  <2>8. QED
    BY <2>1, <2>7
<1>5. AfterLine(r) = Rest(s, p + k + 1)
  <2>1. PICK x, y, q : x = Rest(s, q) /\ y = AfterLine(r) /\ q = p + k + 1
    OBVIOUS
  <2>2. IsRest(s, q, x)
    BY <1>2, <2>1, RestIs
  <2>3. /\ x \in Seq(Symbols) /\ Len(x) = Len(s) - q + 1 /\ Len(x) \in Nat /\ q \in Nat
        /\ \A i \in 1..Len(x) : x[i] = s[q + i - 1]
    BY <2>2 DEF IsRest
  <2>4. /\ y \in Seq(Symbols) /\ Len(y) = Len(r) - k - 1
        /\ \A i \in 1..(Len(r) - k - 1) : y[i] = r[k + 1 + i]
    BY <2>1 DEF IsFirst
  <2>5. Len(x) = Len(y)
    <3>1. PICK m, n : m = Len(s) /\ n = Len(r)
      OBVIOUS
    <3>2. m \in Nat /\ p \in Nat /\ k \in Nat /\ q = p + k + 1 /\ n = m - p + 1
      BY <1>1, <2>1, <3>1
    <3>3. m - q + 1 = n - k - 1
      BY <3>2
    <3>4. QED
      BY <2>3, <2>4, <3>1, <3>3, Zenon
  <2>6. ASSUME NEW i \in 1..Len(x) PROVE x[i] = y[i]
    <3>1. k + 1 + i \in 1..Len(r) /\ p + (k + 1 + i) - 1 = q + i - 1
      BY <1>1, <2>1, <2>3
    <3>2. r[k + 1 + i] = s[p + (k + 1 + i) - 1]
      BY <3>1 DEF IsRest
    <3>3. QED
      BY <2>3, <2>4, <2>5, <3>1, <3>2
  <2>7. x = y
    BY <2>3, <2>4, <2>5, <2>6, SeqEqual
  <2>8. QED
    BY <2>1, <2>7
<1>6. ASSUME NEW l \in Lines(s), l[1] < p + k + 1 PROVE l[1] < p \/ l = <<p, p + k - 1>>
  <2>1. l = <<l[1], l[2]>> /\ IsLine(s, l[1], l[2])
    BY LinesAre
  <2>2. PICK b, e, g : b = l[1] /\ e = l[2] /\ g = p + k - 1
    OBVIOUS
  <2>3. /\ b \in Nat /\ e \in Nat /\ b - 2 \in FindCRLF(s) /\ e \in FindCRLF(s) /\ b <= e
        /\ \A f \in FindCRLF(s) : b <= f => e <= f
    BY <2>1, <2>2 DEF IsLine
  <2>4. g \in Nat /\ g \in FindCRLF(s) /\ p <= g /\ \A f \in FindCRLF(s) : p <= f => g <= f
    BY <1>3, <2>2 DEF IsLine
  <2>5. CASE b = p
    <3>1. e <= g /\ g <= e
      BY <2>3, <2>4, <2>5
    <3>2. e = g
      BY <2>3, <2>4, <3>1
    <3>3. QED
      BY <2>1, <2>2, <2>5, <3>2
  <2>6. CASE b = p + 1
    <3>1. (p - 2) + 1 \notin FindCRLF(s)
      BY Apart
    <3>2. b - 2 = (p - 2) + 1
      BY <1>1, <2>6
    <3>3. QED
      BY <2>3, <3>1, <3>2
  <2>7. CASE b >= p + 2
    <3>1. p <= b - 2
      BY <1>1, <2>3, <2>7
    <3>2. g <= b - 2
      BY <2>3, <2>4, <3>1
    <3>3. QED
      BY <1>1, <1>6, <2>2, <2>3, <3>2
  <2>8. b < p \/ b = p \/ b = p + 1 \/ b >= p + 2
    BY <1>1, <2>3
  <2>9. QED
    BY <2>2, <2>5, <2>6, <2>7, <2>8
<1>7. QED
  BY <1>1, <1>2, <1>3, <1>4, <1>5, <1>6 DEF IsNext

-----------------------------------------------------------------------------
(***************************************************************************)
(* What has been received stays when more arrives                          *)
(***************************************************************************)
Extends(s, t) ==
    /\ s \in Seq(Symbols) /\ t \in Seq(Symbols)
    /\ Len(s) \in Nat /\ Len(t) \in Nat /\ Len(s) <= Len(t)
    /\ \A i \in 1..Len(s) : t[i] = s[i]

LEMMA ExtendCRLF ==
    ASSUME NEW s, NEW t, Extends(s, t)
    PROVE  /\ \A f \in FindCRLF(s) : f \in Nat /\ f < Len(s) /\ f \in FindCRLF(t)
           /\ \A f \in FindCRLF(t) : f \in Nat /\ (f < Len(s) => f \in FindCRLF(s))
<1>1. Len(s) \in Nat /\ Len(t) \in Nat /\ Len(s) <= Len(t)
  BY DEF Extends
<1>2. ASSUME NEW f \in FindCRLF(s) PROVE f \in Nat /\ f < Len(s) /\ f \in FindCRLF(t)
  <2>1. f \in 1..(Len(s) - 1) /\ s[f] = CR /\ s[f + 1] = LF
    BY DEF FindCRLF
  <2>2. f \in 1..(Len(t) - 1) /\ f \in 1..Len(s) /\ f + 1 \in 1..Len(s) /\ f < Len(s) /\ f \in Nat
    BY <1>1, <2>1
  <2>3. t[f] = s[f] /\ t[f + 1] = s[f + 1]
    BY <2>2 DEF Extends
  <2>4. QED
    BY <2>1, <2>2, <2>3 DEF FindCRLF
<1>3. ASSUME NEW f \in FindCRLF(t) PROVE f \in Nat /\ (f < Len(s) => f \in FindCRLF(s))
  <2>1. f \in 1..(Len(t) - 1) /\ t[f] = CR /\ t[f + 1] = LF
    BY DEF FindCRLF
  <2>2. ASSUME f < Len(s) PROVE f \in FindCRLF(s)
    <3>1. f \in 1..(Len(s) - 1) /\ f \in 1..Len(s) /\ f + 1 \in 1..Len(s)
      BY <1>1, <2>1, <2>2
    <3>2. t[f] = s[f] /\ t[f + 1] = s[f + 1]
      BY <3>1 DEF Extends
    <3>3. QED
      BY <2>1, <3>1, <3>2 DEF FindCRLF
  <2>3. QED
    BY <1>1, <2>1, <2>2
<1>4. QED
  BY <1>2, <1>3

LEMMA ExtendLine ==
    ASSUME NEW s, NEW t, Extends(s, t), NEW b, NEW e, IsLine(s, b, e)
    PROVE  IsLine(t, b, e) /\ LineText(t, <<b, e>>) = LineText(s, <<b, e>>)
<1>1. s \in Seq(Symbols) /\ t \in Seq(Symbols) /\ Len(s) \in Nat
  BY DEF Extends
<1>2. /\ b \in Nat /\ e \in Nat /\ b - 2 \in FindCRLF(s) /\ e \in FindCRLF(s) /\ b <= e
      /\ \A f \in FindCRLF(s) : b <= f => e <= f
  BY DEF IsLine
<1>3. b - 2 \in FindCRLF(t) /\ e \in FindCRLF(t) /\ e < Len(s) /\ b - 2 \in Nat
  BY <1>2, ExtendCRLF
<1>4. ASSUME NEW f \in FindCRLF(t), b <= f PROVE e <= f
  <2>1. f \in Nat /\ (f < Len(s) => f \in FindCRLF(s))
    BY ExtendCRLF
  <2>2. CASE f < Len(s)
    BY <1>2, <1>4, <2>1, <2>2
  <2>3. CASE ~(f < Len(s))
    BY <1>1, <1>2, <1>3, <2>1, <2>3
  <2>4. QED
    BY <2>2, <2>3
<1>5. IsLine(t, b, e)
  BY <1>2, <1>3, <1>4 DEF IsLine
<1>6. PICK x, y : x = LineText(s, <<b, e>>) /\ y = LineText(t, <<b, e>>)
  OBVIOUS
<1>7. x \in Seq(Symbols) /\ Len(x) = e - b /\ \A i \in 1..(e - b) : x[i] = s[b + i - 1]
  BY <1>1, <1>6, TextOf
<1>8. y \in Seq(Symbols) /\ Len(y) = e - b /\ \A i \in 1..(e - b) : y[i] = t[b + i - 1]
  BY <1>1, <1>5, <1>6, TextOf
<1>9. \A i \in 1..(e - b) : b + i - 1 \in 1..Len(s)
  BY <1>1, <1>2, <1>3
<1>10. \A i \in 1..(e - b) : x[i] = y[i]
  BY <1>7, <1>8, <1>9 DEF Extends
<1>11. x = y
  BY <1>7, <1>8, <1>10, SeqEqual
<1>12. QED
  BY <1>5, <1>6, <1>11

\* A line before position p is not longer for what arrives after it.
LEMMA ExtendBack ==
    ASSUME NEW s, NEW t, Extends(s, t), NEW p \in Nat, p - 2 \in FindCRLF(s),
           NEW b, NEW e, IsLine(t, b, e), b < p
    PROVE  IsLine(s, b, e)
<1>1. s \in Seq(Symbols) /\ t \in Seq(Symbols) /\ Len(s) \in Nat
  BY DEF Extends
<1>2. /\ b \in Nat /\ e \in Nat /\ b - 2 \in FindCRLF(t) /\ e \in FindCRLF(t) /\ b <= e
      /\ \A f \in FindCRLF(t) : b <= f => e <= f
  BY DEF IsLine
<1>3. p - 2 \in Nat /\ p - 2 < Len(s) /\ p - 2 \in FindCRLF(t)
  BY ExtendCRLF
<1>4. e <= p - 2
  <2>1. CASE b <= p - 2
    BY <1>2, <1>3, <2>1
  <2>2. CASE b = p - 1
    <3>1. (p - 2) - 1 \notin FindCRLF(t)
      BY <1>1, <1>3, Apart
    <3>2. b - 2 = (p - 2) - 1
      BY <1>3, <2>2
    <3>3. QED
      BY <1>2, <3>1, <3>2
  <2>3. QED
    BY <1>2, <2>1, <2>2
<1>5. b - 2 \in Nat /\ b - 2 < Len(s) /\ e < Len(s)
  <2>1. b - 2 \in Nat
    BY <1>2, ExtendCRLF
  <2>2. QED
    BY <1>1, <1>2, <1>3, <1>4, <2>1
<1>6. b - 2 \in FindCRLF(s) /\ e \in FindCRLF(s)
  BY <1>2, <1>5, ExtendCRLF
<1>7. \A f \in FindCRLF(s) : b <= f => e <= f
  BY <1>2, ExtendCRLF
<1>8. QED
  BY <1>2, <1>6, <1>7 DEF IsLine

LEMMA ExtendFirst ==
    ASSUME NEW s, NEW t, Extends(s, t), FindCRLF(s) # {}
    PROVE  FindCRLF(t) # {} /\ Line(t) = Line(s) /\ Line(t) = Line(s)
<1>1. s \in Seq(Symbols) /\ t \in Seq(Symbols) /\ Len(s) \in Nat
  BY DEF Extends
<1>2. FindCRLF(t) # {}
  BY ExtendCRLF
<1>3. PICK k, j : k = FirstCRLF(s) /\ j = FirstCRLF(t)
  OBVIOUS
<1>4. IsFirst(s, k) /\ IsFirst(t, j)
  BY <1>1, <1>2, <1>3, FirstIs
<1>5. /\ k \in FindCRLF(s) /\ k \in Nat /\ \A i \in FindCRLF(s) : k <= i
      /\ j \in FindCRLF(t) /\ j \in Nat /\ \A i \in FindCRLF(t) : j <= i
      /\ k >= 1 /\ k <= Len(s) - 1
  BY <1>4 DEF IsFirst
<1>6. j = k
  <2>1. j <= k /\ k < Len(s)
    BY <1>5, ExtendCRLF
  <2>2. j \in FindCRLF(s)
    BY <1>1, <1>5, <2>1, ExtendCRLF
  <2>3. QED
    BY <1>5, <2>1, <2>2
<1>7. PICK x, y : x = Line(s) /\ y = Line(t)
  OBVIOUS
<1>8. /\ x \in Seq(Symbols) /\ Len(x) = k - 1 /\ \A i \in 1..(k - 1) : x[i] = s[i]
      /\ y \in Seq(Symbols) /\ Len(y) = k - 1 /\ \A i \in 1..(k - 1) : y[i] = t[i]
  BY <1>4, <1>6, <1>7 DEF IsFirst
<1>9. \A i \in 1..(k - 1) : i \in 1..Len(s)
  BY <1>1, <1>5
<1>10. \A i \in 1..(k - 1) : x[i] = y[i]
  BY <1>8, <1>9 DEF Extends
<1>11. x = y
  BY <1>8, <1>10, SeqEqual
<1>12. 1 \in 1..Len(s)
  BY <1>1, <1>5
<1>13. QED
  BY <1>2, <1>7, <1>11, <1>12 DEF Extends

\* What the parser has found in the lines before p holds of any longer input.
LEMMA ExtendParsed ==
    ASSUME NEW s, NEW t, Extends(s, t), NEW p \in Nat, NEW cl, Parsed(s, p, cl)
    PROVE  Parsed(t, p, cl)
<1>1. s \in Seq(Symbols) /\ t \in Seq(Symbols) /\ Len(s) \in Nat
  BY DEF Extends
<1>2. p - 2 \in FindCRLF(s) /\ StartsRequest(Line(s))
  BY DEF Parsed
<1>3. p - 2 \in FindCRLF(t) /\ StartsRequest(Line(t))
  BY <1>2, ExtendCRLF, ExtendFirst
<1>4. ASSUME NEW l \in Lines(s) PROVE l \in Lines(t) /\ LineText(t, l) = LineText(s, l)
  <2>1. l = <<l[1], l[2]>> /\ IsLine(s, l[1], l[2])
    BY <1>1, LinesAre
  <2>2. /\ IsLine(t, l[1], l[2])
        /\ LineText(t, <<l[1], l[2]>>) = LineText(s, <<l[1], l[2]>>)
    BY <2>1, ExtendLine
  <2>3. <<l[1], l[2]>> \in Lines(t)
    BY <1>1, <2>2, LinesAre
  <2>4. QED
    BY <2>1, <2>2, <2>3
<1>5. ASSUME NEW l \in Lines(t), l[1] < p PROVE l \in Lines(s)
  <2>1. l = <<l[1], l[2]>> /\ IsLine(t, l[1], l[2])
    BY <1>1, LinesAre
  <2>2. IsLine(s, l[1], l[2])
    BY <1>2, <1>5, <2>1, ExtendBack
  <2>3. QED
    BY <1>1, <2>1, <2>2, LinesAre
<1>6. \A l \in Lines(t) : l[1] < p => l[1] # l[2] /\ ~Throws(LineText(t, l))
  BY <1>4, <1>5 DEF Parsed
<1>7. LengthsBefore(t, p) = LengthsBefore(s, p)
  BY <1>4, <1>5 DEF LengthsBefore
<1>8. ASSUME NEW l \in LengthsBefore(s, p) PROVE t[l[1]] = s[l[1]]
  <2>1. IsLine(s, l[1], l[2])
    BY <1>1, LinesAre DEF LengthsBefore
  <2>2. l[1] \in Nat /\ l[2] \in FindCRLF(s) /\ l[1] <= l[2] /\ l[1] - 2 \in FindCRLF(s)
    BY <2>1 DEF IsLine
  <2>3. l[2] \in Nat /\ l[2] < Len(s) /\ l[1] - 2 \in Nat
    BY <2>2, ExtendCRLF
  <2>4. l[1] \in 1..Len(s)
    BY <1>1, <2>2, <2>3
  <2>5. QED
    BY <2>4 DEF Extends
<1>9. Announces(t, p, cl)
  BY <1>7, <1>8 DEF Parsed, Announces
<1>10. QED
  BY <1>3, <1>6, <1>9 DEF Parsed

-----------------------------------------------------------------------------
(***************************************************************************)
(* The reference definition                                                *)
(***************************************************************************)
LEMMA ReferenceIs ==
    ASSUME NEW s
    PROVE  /\ FindCRLF(s) = {} => Reference(s) = "NO_REQUEST"
           /\ Reference(s) = "BAD_REQUEST" <=> FindCRLF(s) # {} /\ ~StartsRequest(Line(s))
           /\ Reference(s) = "GET_REQUEST" <=> /\ FindCRLF(s) # {} /\ StartsRequest(Line(s))
                                               /\ \A l \in Headers(s) : ~Throws(LineText(s, l))
                                               /\ IsWhole(s)
           /\ FindCRLF(s) # {} /\ StartsRequest(Line(s)) /\ (\A l \in Headers(s) : ~Throws(LineText(s, l)))
                => Reference(s) = IF IsWhole(s) THEN "GET_REQUEST" ELSE "NO_REQUEST"
<1>1. CASE FindCRLF(s) = {}
  BY <1>1 DEF Reference
<1>2. CASE FindCRLF(s) # {} /\ ~StartsRequest(Line(s))
  BY <1>2 DEF Reference
<1>3. CASE FindCRLF(s) # {} /\ StartsRequest(Line(s))
  BY <1>3 DEF Reference
<1>4. QED
  BY <1>1, <1>2, <1>3

\* The headers end at e.
LEMMA HeadersEnd ==
    ASSUME NEW s \in Seq(Symbols), NEW e \in Nat, <<e, e>> \in Lines(s),
           \A l \in Lines(s) : l[1] < e => l[1] # l[2]
    PROVE  /\ Headers(s) = {l \in Lines(s) : l[1] < e}
           /\ Lengths(s) = LengthsBefore(s, e)
           /\ <<e, e>> \in EmptyLines(s)
           /\ \A l \in EmptyLines(s) : l[1] = l[2] /\ l[1] \in Nat /\ e <= l[1]
<1>1. <<e, e>> \in EmptyLines(s) /\ <<e, e>>[1] = e
  BY DEF EmptyLines
<1>2. ASSUME NEW l \in EmptyLines(s) PROVE l[1] = l[2] /\ l[1] \in Nat /\ e <= l[1]
  <2>1. l \in Lines(s) /\ l[1] = l[2]
    BY DEF EmptyLines
  <2>2. l[1] \in Nat
    BY <2>1, LinesAre DEF IsLine
  <2>3. QED
    BY <2>1, <2>2
<1>3. ASSUME NEW l \in Lines(s) PROVE (\A m \in EmptyLines(s) : l[1] < m[1]) <=> l[1] < e
  <2>1. l[1] \in Nat
    BY LinesAre DEF IsLine
  <2>2. ASSUME l[1] < e, NEW m \in EmptyLines(s) PROVE l[1] < m[1]
    BY <1>2, <2>1, <2>2
  <2>3. QED
    BY <1>1, <2>2
<1>4. Headers(s) = {l \in Lines(s) : l[1] < e}
  BY <1>3 DEF Headers
<1>5. Lengths(s) = LengthsBefore(s, e)
  BY <1>4 DEF Lengths, LengthsBefore
<1>6. QED
  BY <1>1, <1>2, <1>4, <1>5

\* When the parser has come to the empty line at e, and the lengths it has noted
\* announce cl, the reference definition finds the request if the content is there.
LEMMA WholeHeaders ==
    ASSUME NEW s \in Seq(Symbols), NEW e \in Nat, NEW cl \in Int,
           Parsed(s, e, cl), <<e, e>> \in Lines(s)
    PROVE  Reference(s) = IF Len(s) > e + cl THEN "GET_REQUEST" ELSE "NO_REQUEST"
<1>1. /\ Headers(s) = {l \in Lines(s) : l[1] < e}
      /\ Lengths(s) = LengthsBefore(s, e)
      /\ <<e, e>> \in EmptyLines(s)
      /\ \A l \in EmptyLines(s) : l[1] = l[2] /\ l[1] \in Nat /\ e <= l[1]
  BY HeadersEnd DEF Parsed
<1>2. FindCRLF(s) # {} /\ StartsRequest(Line(s)) /\ \A l \in Headers(s) : ~Throws(LineText(s, l))
  BY <1>1 DEF Parsed
<1>3. Announced(s) = cl
  <2>1. CASE Lengths(s) = {}
    BY <1>1, <2>1 DEF Announced, Parsed, Announces
  <2>2. CASE Lengths(s) # {}
    <3>1. PICK l \in Lengths(s) : (\A m \in Lengths(s) : m[1] <= l[1]) /\ cl = s[l[1]].value
      BY <1>1, <2>2 DEF Parsed, Announces
    <3>2. PICK last : last = CHOOSE k \in Lengths(s) : \A m \in Lengths(s) : m[1] <= k[1]
      OBVIOUS
    <3>3. last \in Lengths(s) /\ \A m \in Lengths(s) : m[1] <= last[1]
      BY <3>1, <3>2
    <3>4. last \in Lines(s) /\ l \in Lines(s)
      BY <3>3 DEF Lengths, Headers
    <3>5. last[1] \in Nat /\ l[1] \in Nat
      BY <3>4, LinesAre DEF IsLine
    <3>6. last[1] = l[1]
      BY <3>1, <3>3, <3>5
    <3>7. Announced(s) = s[last[1]].value
      BY <2>2, <3>2 DEF Announced
    <3>8. QED
      BY <3>1, <3>6, <3>7
  <2>3. QED
    BY <2>1, <2>2
<1>4. IsWhole(s) <=> Len(s) > e + cl
  <2>1. PICK v : v = <<e, e>>
    OBVIOUS
  <2>2. v \in EmptyLines(s) /\ v[1] = e /\ v[2] = e /\ \A m \in EmptyLines(s) : v[1] <= m[1]
    BY <1>1, <2>1
  <2>3. ASSUME Len(s) > e + cl PROVE IsWhole(s)
    BY <1>3, <2>2, <2>3 DEF IsWhole
  <2>4. ASSUME IsWhole(s) PROVE Len(s) > e + cl
    <3>1. PICK l \in EmptyLines(s) : (\A m \in EmptyLines(s) : l[1] <= m[1]) /\ Len(s) > l[2] + cl
      BY <1>3, <2>4 DEF IsWhole
    <3>2. l[1] <= e /\ e <= l[1] /\ l[1] \in Nat /\ l[2] = l[1]
      BY <1>1, <2>2, <3>1
    <3>3. l[2] = e
      BY <3>2
    <3>4. QED
      BY <3>1, <3>3
  <2>5. QED
    BY <2>3, <2>4
<1>5. QED
  BY <1>2, <1>4, ReferenceIs

\* A request that the reference definition finds is parsed up to an empty line.
LEMMA WholeParsed ==
    ASSUME NEW s \in Seq(Symbols), Reference(s) = "GET_REQUEST"
    PROVE  \E e \in Nat : Parsed(s, e, Announced(s)) /\ <<e, e>> \in Lines(s) /\ Announced(s) \in Int
                          /\ Len(s) > e + Announced(s)
<1>1. FindCRLF(s) # {} /\ StartsRequest(Line(s)) /\ IsWhole(s)
      /\ \A l \in Headers(s) : ~Throws(LineText(s, l))
  BY ReferenceIs
<1>2. PICK l \in EmptyLines(s) : (\A m \in EmptyLines(s) : l[1] <= m[1]) /\ Len(s) > l[2] + Announced(s)
  BY <1>1 DEF IsWhole
<1>3. PICK e : e = l[1]
  OBVIOUS
<1>4. l \in Lines(s) /\ l[2] = e /\ l = <<l[1], l[2]>> /\ IsLine(s, l[1], l[2])
  BY <1>3, LinesAre DEF EmptyLines
<1>5. e \in Nat /\ e - 2 \in FindCRLF(s) /\ <<e, e>> \in Lines(s)
  BY <1>3, <1>4 DEF IsLine
<1>6. ASSUME NEW m \in Lines(s), m[1] < e PROVE m[1] # m[2]
  <2>1. m[1] \in Nat
    BY LinesAre DEF IsLine
  <2>2. ~(e <= m[1])
    BY <1>5, <1>6, <2>1
  <2>3. m \notin EmptyLines(s)
    BY <1>2, <1>3, <2>2
  <2>4. QED
    BY <2>3 DEF EmptyLines
<1>7. Headers(s) = {m \in Lines(s) : m[1] < e} /\ Lengths(s) = LengthsBefore(s, e)
  BY <1>5, <1>6, HeadersEnd
<1>8. \A m \in Lines(s) : m[1] < e => m[1] # m[2] /\ ~Throws(LineText(s, m))
  BY <1>1, <1>6, <1>7
<1>9. Announces(s, e, Announced(s)) /\ Announced(s) \in Int
  <2>1. CASE Lengths(s) = {}
    BY <1>7, <2>1 DEF Announced, Announces
  <2>2. CASE Lengths(s) # {}
    <3>0. Len(s) \in Nat /\ FindCRLF(s) \subseteq 1..(Len(s) - 1)
      BY CRLFs
    <3>1. ASSUME NEW m \in Lengths(s)
          PROVE  /\ m \in Lines(s) /\ m = <<m[1], m[2]>> /\ IsLine(s, m[1], m[2])
                 /\ m[1] \in 0..Len(s) /\ s[m[1]].value \in Int
      <4>1. m \in Lines(s) /\ Field(LineText(s, m)) = "Content-length" /\ m[1] < e
        BY <1>7 DEF LengthsBefore
      <4>2. m = <<m[1], m[2]>> /\ IsLine(s, m[1], m[2])
        BY <4>1, LinesAre
      <4>3. m[1] \in Nat /\ m[2] \in Nat /\ m[1] <= m[2] /\ m[2] \in 1..(Len(s) - 1) /\ m[1] # m[2]
        BY <1>6, <3>0, <4>1, <4>2 DEF IsLine
      <4>4. LineText(s, m)[1] = s[m[1]]
        <5>1. \A i \in 1..(m[2] - m[1]) : LineText(s, <<m[1], m[2]>>)[i] = s[m[1] + i - 1]
          BY <4>2, TextOf
        <5>2. 1 \in 1..(m[2] - m[1]) /\ m[1] + 1 - 1 = m[1]
          BY <4>3
        <5>3. LineText(s, <<m[1], m[2]>>)[1] = s[m[1] + 1 - 1]
          BY <5>1, <5>2
        <5>4. QED
          BY <4>2, <5>2, <5>3
      <4>5. LineText(s, m)[1] \in Texts
        BY <4>1 DEF Field, Colons, TextsOf
      <4>6. s[m[1]].value \in Int
        BY <4>4, <4>5, TextHas
      <4>7. QED
        BY <3>0, <4>1, <4>2, <4>3, <4>6
    <3>2. PICK P : P = {m[1] : m \in Lengths(s)}
      OBVIOUS
    <3>3. P \subseteq 0..Len(s) /\ P # {}
      BY <2>2, <3>1, <3>2
    <3>4. PICK x \in P : \A y \in P : y <= x
      BY <3>0, <3>3, GreatestExists
    <3>5. PICK n \in Lengths(s) : n[1] = x
      BY <3>2, <3>4
    <3>6. \A m \in Lengths(s) : m[1] <= n[1]
      BY <3>2, <3>4, <3>5
    <3>7. PICK last : last = CHOOSE k \in Lengths(s) : \A m \in Lengths(s) : m[1] <= k[1]
      OBVIOUS
    <3>8. last \in Lengths(s) /\ \A m \in Lengths(s) : m[1] <= last[1]
      BY <3>6, <3>7
    <3>9. Announced(s) = s[last[1]].value
      BY <2>2, <3>7 DEF Announced
    <3>10. QED
      BY <1>7, <3>1, <3>8, <3>9 DEF Announces
  <2>3. QED
    BY <2>1, <2>2
<1>10. Parsed(s, e, Announced(s))
  BY <1>1, <1>5, <1>8, <1>9 DEF Parsed
<1>11. QED
  BY <1>2, <1>4, <1>5, <1>9, <1>10

\* What the reference definition finds, it finds in any longer input.
LEMMA ExtendReference ==
    ASSUME NEW s, NEW t, Extends(s, t)
    PROVE  /\ Reference(s) = "BAD_REQUEST" => Reference(t) = "BAD_REQUEST" /\ Line(t) = Line(s)
           /\ Reference(s) = "GET_REQUEST" => Reference(t) = "GET_REQUEST" /\ Line(t) = Line(s)
<1>1. s \in Seq(Symbols) /\ t \in Seq(Symbols) /\ Len(s) \in Nat /\ Len(t) \in Nat /\ Len(s) <= Len(t)
  BY DEF Extends
<1>2. ASSUME Reference(s) = "BAD_REQUEST" PROVE Reference(t) = "BAD_REQUEST" /\ Line(t) = Line(s)
  <2>1. FindCRLF(s) # {} /\ ~StartsRequest(Line(s))
    BY <1>2, ReferenceIs
  <2>2. QED
    BY <2>1, ExtendFirst, ReferenceIs
<1>3. ASSUME Reference(s) = "GET_REQUEST" PROVE Reference(t) = "GET_REQUEST" /\ Line(t) = Line(s)
  <2>1. PICK e \in Nat : /\ Parsed(s, e, Announced(s)) /\ <<e, e>> \in Lines(s)
                         /\ Announced(s) \in Int /\ Len(s) > e + Announced(s)
    BY <1>1, <1>3, WholeParsed
  <2>2. PICK cl : cl = Announced(s)
    OBVIOUS
  <2>3. Parsed(s, e, cl) /\ cl \in Int /\ Len(s) > e + cl
    BY <2>1, <2>2
  <2>4. Parsed(t, e, cl)
    BY <2>3, ExtendParsed
  <2>5. <<e, e>> \in Lines(t)
    <3>1. IsLine(s, e, e)
      <4>1. PICK l : l = <<e, e>>
        OBVIOUS
      <4>2. IsLine(s, l[1], l[2]) /\ l[1] = e /\ l[2] = e
        BY <1>1, <2>1, <4>1, LinesAre
      <4>3. QED
        BY <4>2
    <3>2. QED
      BY <1>1, <3>1, ExtendLine, LinesAre
  <2>6. Len(t) > e + cl
    BY <1>1, <2>3
  <2>7. Reference(t) = "GET_REQUEST"
    BY <1>1, <2>3, <2>4, <2>5, <2>6, WholeHeaders
  <2>8. QED
    BY <1>3, <2>7, ExtendFirst, ReferenceIs
<1>4. QED
  BY <1>2, <1>3

-----------------------------------------------------------------------------
(***************************************************************************)
(* The rounds of tryDecode, with the input received so far as s            *)
(***************************************************************************)
LEMMA RestAll == ASSUME NEW s \in Seq(Symbols) PROVE Rest(s, 1) = s
  BY SubSeqFull DEF Rest

LEMMA FirstParsed ==
    ASSUME NEW s \in Seq(Symbols), FindCRLF(s) # {}, StartsRequest(Line(s))
    PROVE  \E q \in 1..Len(s) + 1 : AfterLine(s) = Rest(s, q) /\ Parsed(s, q, 0)
<1>1. PICK k : k = FirstCRLF(s)
  OBVIOUS
<1>2. /\ k \in FindCRLF(s) /\ k \in Nat /\ k >= 1 /\ k <= Len(s) - 1 /\ Len(s) \in Nat
      /\ \A j \in FindCRLF(s) : k <= j
  BY <1>1, FirstIs DEF IsFirst
<1>3. k + 2 \in 1..Len(s) + 1 /\ (k + 2) - 2 \in FindCRLF(s)
  BY <1>2
<1>4. AfterLine(s) = Rest(s, k + 2)
  BY <1>1 DEF AfterLine, Rest
<1>5. ASSUME NEW l \in Lines(s), l[1] < k + 2 PROVE FALSE
  <2>1. l[1] \in Nat /\ l[1] - 2 \in FindCRLF(s)
    BY LinesAre DEF IsLine
  <2>2. k <= l[1] - 2
    BY <1>2, <2>1
  <2>3. QED
    BY <1>2, <1>5, <2>1, <2>2
<1>6. Announces(s, k + 2, 0)
  BY <1>5 DEF Announces, LengthsBefore
<1>7. Parsed(s, k + 2, 0)
  BY <1>3, <1>5, <1>6 DEF Parsed
<1>8. QED
  BY <1>3, <1>4, <1>7

LEMMA HeaderParsed ==
    ASSUME NEW s \in Seq(Symbols), NEW p \in 1..Len(s) + 1, NEW r, r = Rest(s, p),
           NEW cl, Parsed(s, p, cl), FindCRLF(r) # {}, Line(r) # <<>>, ~Throws(Line(r)),
           NEW new, new = IF Field(Line(r)) = "Content-length" THEN r[1].value ELSE cl
    PROVE  \E q \in 1..Len(s) + 1 : AfterLine(r) = Rest(s, q) /\ Parsed(s, q, new)
<1>1. IsRest(s, p, r) /\ r \in Seq(Symbols) /\ p \in Nat
  <2>1. IsRest(s, p, r)
    BY RestIs
  <2>2. QED
    BY <2>1 DEF IsRest
<1>2. PICK k : k = FirstCRLF(r)
  OBVIOUS
<1>3. IsFirst(r, k)
  BY <1>1, <1>2, FirstIs
<1>4. p - 2 \in FindCRLF(s)
  BY DEF Parsed
<1>5. IsNext(s, p, r, k)
  BY <1>1, <1>3, <1>4, NextLine
<1>6. PICK q, e, l : q = p + k + 1 /\ e = p + k - 1 /\ l = <<p, e>>
  OBVIOUS
<1>7. /\ k \in Nat /\ k >= 1 /\ q \in 1..Len(s) + 1 /\ IsLine(s, p, e) /\ LineText(s, l) = Line(r)
      /\ AfterLine(r) = Rest(s, q)
      /\ \A m \in Lines(s) : m[1] < q => m[1] < p \/ m = l
  BY <1>5, <1>6 DEF IsNext
<1>8. q - 2 \in FindCRLF(s)
  <2>1. q - 2 = e
    BY <1>1, <1>6, <1>7
  <2>2. QED
    BY <1>7, <2>1 DEF IsLine
<1>9. l \in Lines(s) /\ l[1] = p /\ l[2] = e /\ p < q /\ p # e
  <2>1. l \in Lines(s) /\ l[1] = p /\ l[2] = e
    BY <1>6, <1>7, LinesAre
  <2>2. k # 1
    <3>1. Line(r) \in Seq(Symbols) /\ Len(Line(r)) = k - 1
      BY <1>3 DEF IsFirst
    <3>2. Len(Line(r)) # 0
      BY <3>1, EmptySeq
    <3>3. QED
      BY <3>1, <3>2
  <2>3. QED
    BY <1>1, <1>6, <1>7, <2>1, <2>2
<1>10. \A m \in Lines(s) : m[1] < q => m[1] # m[2] /\ ~Throws(LineText(s, m))
  BY <1>7, <1>9 DEF Parsed
<1>11. \A m \in Lines(s) : m[1] \in Nat /\ (m[1] < p => m[1] < q)
  <2>1. \A m \in Lines(s) : m[1] \in Nat
    BY LinesAre DEF IsLine
  <2>2. QED
    BY <1>1, <1>6, <1>7, <2>1
<1>12. CASE Field(Line(r)) = "Content-length"
  <2>1. l \in LengthsBefore(s, q)
    BY <1>7, <1>9, <1>12 DEF LengthsBefore
  <2>2. ASSUME NEW m \in LengthsBefore(s, q) PROVE m[1] <= l[1]
    BY <1>1, <1>7, <1>9, <1>11 DEF LengthsBefore
  <2>3. new = s[l[1]].value
    <3>1. 1 \in 1..Len(r) /\ p + 1 - 1 = p
      BY <1>1, <1>3, <1>7 DEF IsFirst
    <3>2. r[1] = s[p + 1 - 1]
      BY <1>1, <3>1 DEF IsRest
    <3>3. QED
      BY <1>9, <1>12, <3>1, <3>2
  <2>4. Announces(s, q, new)
    BY <2>1, <2>2, <2>3 DEF Announces
  <2>5. QED
    BY <1>7, <1>8, <1>10, <2>4 DEF Parsed
<1>13. CASE Field(Line(r)) # "Content-length"
  <2>1. LengthsBefore(s, q) = LengthsBefore(s, p)
    BY <1>7, <1>11, <1>13 DEF LengthsBefore
  <2>2. Announces(s, q, new)
    BY <1>13, <2>1 DEF Announces, Parsed
  <2>3. QED
    BY <1>7, <1>8, <1>10, <2>2 DEF Parsed
<1>14. QED
  BY <1>12, <1>13

LEMMA EmptyParsed ==
    ASSUME NEW s \in Seq(Symbols), NEW p \in 1..Len(s) + 1, NEW r, r = Rest(s, p),
           p - 2 \in FindCRLF(s), FindCRLF(r) # {}, Line(r) = <<>>
    PROVE  /\ p \in Nat /\ p + 2 \in 1..Len(s) + 1 /\ <<p, p>> \in Lines(s)
           /\ AfterLine(r) = Rest(s, p + 2)
<1>1. IsRest(s, p, r) /\ r \in Seq(Symbols) /\ p \in Nat
  <2>1. IsRest(s, p, r)
    BY RestIs
  <2>2. QED
    BY <2>1 DEF IsRest
<1>2. PICK k : k = FirstCRLF(r)
  OBVIOUS
<1>3. IsFirst(r, k)
  BY <1>1, <1>2, FirstIs
<1>4. IsNext(s, p, r, k)
  BY <1>1, <1>3, NextLine
<1>5. k = 1
  <2>1. Len(Line(r)) = k - 1 /\ k \in Nat
    BY <1>3 DEF IsFirst
  <2>2. QED
    BY <2>1, EmptySeq
<1>6. p + k + 1 = p + 2 /\ p + k - 1 = p
  BY <1>1, <1>5
<1>7. IsLine(s, p, p) /\ p + 2 \in 1..Len(s) + 1 /\ AfterLine(r) = Rest(s, p + 2)
  BY <1>4, <1>6 DEF IsNext
<1>8. QED
  BY <1>1, <1>7, LinesAre

LEMMA NoLineLeft ==
    ASSUME NEW s \in Seq(Symbols), NEW p \in 1..Len(s) + 1, NEW r, r = Rest(s, p),
           NEW cl, Parsed(s, p, cl), FindCRLF(r) = {}
    PROVE  Reference(s) = "NO_REQUEST"
<1>1. IsRest(s, p, r) /\ p \in Nat
  <2>1. IsRest(s, p, r)
    BY RestIs
  <2>2. QED
    BY <2>1 DEF IsRest
<1>2. ASSUME NEW l \in Lines(s) PROVE l[1] < p
  <2>1. l[1] \in Nat /\ l[2] \in Nat /\ l[2] \in FindCRLF(s) /\ l[1] <= l[2]
    BY LinesAre DEF IsLine
  <2>2. ~(p <= l[2])
    BY <1>1, <2>1 DEF IsRest
  <2>3. QED
    BY <1>1, <2>1, <2>2
<1>3. FindCRLF(s) # {} /\ StartsRequest(Line(s)) /\ EmptyLines(s) = {}
  BY <1>2 DEF Parsed, EmptyLines
<1>4. \A l \in Headers(s) : ~Throws(LineText(s, l))
  BY <1>2 DEF Parsed, Headers
<1>5. ~IsWhole(s)
  BY <1>3 DEF IsWhole
<1>6. QED
  BY <1>3, <1>4, <1>5, ReferenceIs

\* Without a lone line feed, what has no CRLF has no line feed.
LEMMA NotBad ==
    ASSUME NEW s \in Seq(Symbols), NEW p \in 1..Len(s) + 1, NEW r, r = Rest(s, p),
           p = 1 \/ p - 2 \in FindCRLF(s), FindCRLF(r) = {}, NoLoneLF(s)
    PROVE  LF \notin ToSet(r)
<1>1. IsRest(s, p, r) /\ p \in Nat /\ Len(s) \in Nat /\ Len(r) \in Nat /\ p >= 1
      /\ Len(r) = Len(s) - p + 1 /\ r \in Seq(Symbols)
  BY RestIs DEF IsRest
<1>2. SUFFICES ASSUME LF \in ToSet(r) PROVE FALSE
  OBVIOUS
<1>3. PICK i \in 1..Len(r) : r[i] = LF
  <2>1. DOMAIN r = 1..Len(r)
    BY <1>1, LenProperties
  <2>2. QED
    BY <1>2, <2>1 DEF ToSet
<1>4. PICK j : j = p + i - 1
  OBVIOUS
<1>5. j \in 1..Len(s) /\ j \in Nat /\ s[j] = LF
  BY <1>1, <1>3, <1>4 DEF IsRest
<1>6. j > 1 /\ s[j - 1] = CR
  <2>1. DOMAIN s = 1..Len(s)
    BY LenProperties
  <2>2. QED
    BY <1>5, <2>1 DEF NoLoneLF
<1>7. j - 1 \in FindCRLF(s)
  <2>1. j - 1 \in 1..(Len(s) - 1) /\ (j - 1) + 1 = j
    BY <1>1, <1>5, <1>6
  <2>2. QED
    BY <1>5, <1>6, <2>1 DEF FindCRLF
<1>8. ~(p <= j - 1)
  BY <1>1, <1>7 DEF IsRest
<1>9. j = p
  BY <1>1, <1>3, <1>4, <1>8
<1>10. p - 2 \in FindCRLF(s) /\ j - 1 = (p - 2) + 1
  BY <1>1, <1>6, <1>9
<1>11. QED
  BY <1>7, <1>10, Apart

LEMMA DecodeUndecided ==
    ASSUME RequestType, NEW s \in Seq(Symbols), Undecided(s), Decode,
           ret = "decoding", checkstate # "GET_ALL"
    PROVE  Undecided(s)'
<1>1. pc = "decode" /\ TryDecode
  BY DEF Decode
<1>2. /\ ret' = "NO_REQUEST" => pc' = "write"
      /\ ret' \in {"GET_REQUEST", "BAD_REQUEST"} => pc' = "respond"
      /\ ret' \in {"decoding", "exception"} => pc' = "decode"
  BY DEF Decode
<1>3. PICK p \in 1..Len(s) + 1 : buf = Rest(s, p) /\ Progress(s, p)
  BY <1>1 DEF Undecided
<1>4. IsRest(s, p, buf)
  BY <1>3, RestIs
<1>5. p \in Nat /\ Len(s) \in Nat /\ Len(buf) \in Nat /\ Len(buf) = Len(s) - p + 1
  BY <1>4 DEF IsRest
<1>6. LineOK <=> FindCRLF(buf) # {}
  BY DEF LineOK, ParseLine
\* The next round begins at q.
<1>7. ASSUME NEW q \in 1..Len(s) + 1, buf' = Rest(s, q), Progress(s, q)', ret' = "decoding"
      PROVE  Undecided(s)'
  <2>1. pc' = "decode"
    BY <1>2, <1>7
  <2>2. QED
    BY <1>7, <2>1 DEF Undecided, Deciding
<1>8. CASE ParseRequestline
  <2>1. p = 1 /\ contentLength = 0 /\ buf = s
    <3>1. p = 1 /\ contentLength = 0
      BY <1>3, <1>8 DEF ParseRequestline, Decoding, Progress
    <3>2. QED
      BY <1>3, <3>1, RestAll
  <2>2. FindCRLF(s) # {} /\ buf' = AfterLine(s) /\ contentLength' = 0
    BY <1>6, <1>8, <2>1, RetrievesLine DEF ParseRequestline
  <2>3. CASE StartsRequest(Line(s))
    <3>1. url' = RequestURL(Line(s)) /\ checkstate' = "EXPECT_HEADER" /\ ret' = "decoding"
      BY <1>8, <2>1, <2>3 DEF ParseRequestline, StartsRequest
    <3>2. PICK q \in 1..Len(s) + 1 : AfterLine(s) = Rest(s, q) /\ Parsed(s, q, 0)
      BY <2>2, <2>3, FirstParsed
    <3>3. Progress(s, q)'
      BY <2>2, <3>1, <3>2 DEF Progress
    <3>4. QED
      BY <1>7, <2>2, <3>1, <3>2, <3>3
  <2>4. CASE ~StartsRequest(Line(s))
    <3>1. ret' = "BAD_REQUEST" /\ pc' = "respond"
      BY <1>2, <1>8, <2>1, <2>4 DEF ParseRequestline
    <3>2. Reference(s) = "BAD_REQUEST"
      BY <2>2, <2>4, ReferenceIs
    <3>3. QED
      BY <3>1, <3>2 DEF Undecided, Deciding
  <2>5. QED
    BY <2>3, <2>4
<1>9. CASE ParseHeader
  <2>1. Parsed(s, p, contentLength) /\ url = RequestURL(Line(s))
    BY <1>3, <1>9 DEF ParseHeader, Decoding, Progress
  <2>2. /\ FindCRLF(buf) # {} /\ Line(buf) # <<>> /\ buf' = AfterLine(buf)
        /\ checkstate' = "EXPECT_HEADER" /\ url' = url
        /\ ret' = IF Throws(Line(buf)) THEN "exception" ELSE ret
    BY <1>6, <1>9, RetrievesLine DEF ParseHeader, Decoding
  <2>3. CASE Throws(Line(buf))
    <3>1. ret' = "exception" /\ pc' = "decode"
      BY <1>2, <2>2, <2>3
    <3>2. QED
      BY <3>1 DEF Undecided, Deciding
  <2>4. CASE ~Throws(Line(buf))
    <3>1. PICK r, cl, new : /\ r = buf /\ cl = contentLength
                            /\ new = IF Field(Line(r)) = "Content-length" THEN r[1].value ELSE cl
      OBVIOUS
    <3>2. contentLength' = new
      BY <1>9, <3>1 DEF ParseHeader
    <3>3. PICK q \in 1..Len(s) + 1 : AfterLine(r) = Rest(s, q) /\ Parsed(s, q, new)
      <4>1. /\ r = Rest(s, p) /\ Parsed(s, p, cl)
            /\ FindCRLF(r) # {} /\ Line(r) # <<>> /\ ~Throws(Line(r))
        BY <1>3, <2>1, <2>2, <2>4, <3>1
      <4>2. QED
        BY <3>1, <4>1, HeaderParsed
    <3>4. Progress(s, q)'
      BY <2>1, <2>2, <3>2, <3>3 DEF Progress
    <3>5. ret' = "decoding"
      BY <2>2, <2>4
    <3>6. QED
      BY <1>7, <2>2, <3>1, <3>3, <3>4, <3>5
  <2>5. QED
    BY <2>3, <2>4
<1>10. CASE EndHeaders
  <2>1. Parsed(s, p, contentLength) /\ url = RequestURL(Line(s)) /\ p - 2 \in FindCRLF(s)
    BY <1>3, <1>10 DEF EndHeaders, Decoding, Progress, Parsed
  <2>2. /\ FindCRLF(buf) # {} /\ Line(buf) = <<>> /\ buf' = AfterLine(buf)
        /\ url' = url /\ contentLength' = contentLength
    BY <1>6, <1>10, RetrievesLine DEF EndHeaders
  <2>3. p + 2 \in 1..Len(s) + 1 /\ <<p, p>> \in Lines(s) /\ AfterLine(buf) = Rest(s, p + 2)
    BY <1>3, <2>1, <2>2, EmptyParsed
  <2>4. CASE contentLength > 0 /\ checkstate' = "EXPECT_CONTENT" /\ UNCHANGED ret
    <3>1. (p + 2) - 2 = p
      BY <1>5
    <3>2. Progress(s, p + 2)'
      BY <2>1, <2>2, <2>3, <2>4, <3>1 DEF Progress
    <3>3. QED
      BY <1>7, <2>2, <2>3, <2>4, <3>2
  <2>5. CASE contentLength <= 0 /\ checkstate' = "GET_ALL" /\ ret' = "GET_REQUEST"
    <3>1. pc' = "respond"
      BY <1>2, <2>5
    <3>2. contentLength \in Int
      BY DEF RequestType
    <3>3. Len(s) > p + contentLength
      BY <1>5, <2>3, <2>5, <3>2
    <3>4. Reference(s) = "GET_REQUEST"
      BY <1>5, <2>1, <2>3, <3>2, <3>3, WholeHeaders
    <3>5. QED
      BY <2>1, <2>2, <2>5, <3>1, <3>4 DEF Undecided, Deciding
  <2>6. QED
    BY <1>10, <2>4, <2>5 DEF EndHeaders
<1>11. CASE ParseContent
  <2>1. /\ Parsed(s, p - 2, contentLength) /\ url = RequestURL(Line(s))
        /\ <<p - 2, p - 2>> \in Lines(s) /\ contentLength > 0
    BY <1>3, <1>11 DEF ParseContent, Decoding, Progress
  <2>2. PICK e, cl : e = p - 2 /\ cl = contentLength
    OBVIOUS
  <2>3. e \in Nat /\ cl \in Int
    <3>1. e - 2 \in FindCRLF(s) /\ FindCRLF(s) \subseteq Nat
      BY <2>1, <2>2, CRLFs DEF Parsed
    <3>2. e \in Int /\ e - 2 \in Nat
      BY <1>5, <2>2, <3>1
    <3>3. QED
      BY <2>2, <3>2 DEF RequestType
  <2>4. Reference(s) = IF Len(s) > e + cl THEN "GET_REQUEST" ELSE "NO_REQUEST"
    BY <2>1, <2>2, <2>3, WholeHeaders
  <2>5. url' = url /\ contentLength' = contentLength
    BY <1>11 DEF ParseContent
  <2>6. CASE Len(buf) < contentLength /\ ret' = "NO_REQUEST" /\ UNCHANGED <<buf, checkstate>>
    <3>1. pc' = "write" /\ ~(Len(s) > e + cl)
      BY <1>2, <1>5, <2>2, <2>3, <2>6
    <3>2. Reference(s) = "NO_REQUEST"
      BY <2>4, <3>1
    <3>3. Progress(s, p)'
      BY <1>3, <2>5, <2>6 DEF Progress
    <3>4. QED
      BY <1>3, <2>6, <3>1, <3>2, <3>3 DEF Undecided, Deciding
  <2>7. CASE Len(buf) >= contentLength /\ ret' = "GET_REQUEST"
    <3>1. pc' = "respond" /\ Len(s) > e + cl
      BY <1>2, <1>5, <2>2, <2>3, <2>7
    <3>2. Reference(s) = "GET_REQUEST"
      BY <2>4, <3>1
    <3>3. QED
      BY <2>1, <2>5, <2>7, <3>1, <3>2 DEF Undecided, Deciding
  <2>8. QED
    BY <1>11, <2>6, <2>7 DEF ParseContent
<1>12. CASE NoLine
  <2>1. /\ checkstate # "EXPECT_CONTENT" /\ FindCRLF(buf) = {}
        /\ ret' = IF ParseLine(buf) = "LINE_OPEN" THEN "NO_REQUEST" ELSE "BAD_REQUEST"
        /\ UNCHANGED <<buf, checkstate, url, contentLength>>
    BY <1>6, <1>12 DEF NoLine
  <2>2. \/ checkstate = "EXPECT_REQUESTLINE" /\ p = 1 /\ buf = s
        \/ checkstate = "EXPECT_HEADER" /\ Parsed(s, p, contentLength) /\ p - 2 \in FindCRLF(s)
    <3>1. CASE checkstate = "EXPECT_REQUESTLINE"
      BY <1>3, <3>1, RestAll DEF Progress
    <3>2. CASE checkstate = "EXPECT_HEADER"
      BY <1>3, <3>2 DEF Progress, Parsed
    <3>3. QED
      BY <2>1, <3>1, <3>2 DEF RequestType, CheckState
  <2>3. CASE ParseLine(buf) = "LINE_OPEN"
    <3>1. ret' = "NO_REQUEST" /\ pc' = "write"
      BY <1>2, <2>1, <2>3
    <3>2. Reference(s) = "NO_REQUEST"
      <4>1. CASE p = 1 /\ buf = s
        BY <2>1, <4>1, ReferenceIs
      <4>2. CASE Parsed(s, p, contentLength)
        BY <1>3, <2>1, <4>2, NoLineLeft
      <4>3. QED
        BY <2>2, <4>1, <4>2
    <3>3. Progress(s, p)'
      BY <1>3, <2>1 DEF Progress
    <3>4. QED
      BY <1>3, <2>1, <3>1, <3>2, <3>3 DEF Undecided, Deciding
  <2>4. CASE ParseLine(buf) # "LINE_OPEN"
    <3>1. ret' = "BAD_REQUEST" /\ pc' = "respond"
      BY <1>2, <2>1, <2>4
    <3>2. LF \in ToSet(buf)
      BY <2>1, <2>4 DEF ParseLine
    <3>3. ~NoLoneLF(s)
      BY <1>3, <2>1, <2>2, <3>2, NotBad
    <3>4. QED
      BY <3>1, <3>3 DEF Undecided, Deciding
  <2>5. QED
    BY <2>3, <2>4
<1>13. QED
  BY <1>1, <1>8, <1>9, <1>10, <1>11, <1>12 DEF TryDecode

\* More input leaves the parser where it is.
LEMMA ReadUndecided ==
    ASSUME NEW s, NEW t, Extends(s, t), NEW p \in 1..Len(s) + 1, Progress(s, p),
           NEW more \in Seq(Symbols), t = s \o more, checkstate # "GET_ALL"
    PROVE  p \in 1..Len(t) + 1 /\ Rest(t, p) = Rest(s, p) \o more /\ Progress(t, p)
<1>1. s \in Seq(Symbols) /\ t \in Seq(Symbols) /\ Len(s) \in Nat /\ Len(t) \in Nat /\ Len(s) <= Len(t)
      /\ p \in Nat
  BY DEF Extends
<1>2. p \in 1..Len(t) + 1
  BY <1>1
<1>3. Rest(t, p) = Rest(s, p) \o more
  <2>1. PICK a, x : a = Rest(s, p) /\ x = Rest(t, p)
    OBVIOUS
  <2>2. a \in Seq(Symbols) /\ Len(a) = Len(s) - p + 1 /\ Len(a) \in Nat
        /\ \A i \in 1..Len(a) : a[i] = s[p + i - 1]
    <3>1. IsRest(s, p, a)
      BY <1>1, <2>1, RestIs
    <3>2. QED
      BY <3>1 DEF IsRest
  <2>3. x \in Seq(Symbols) /\ Len(x) = Len(t) - p + 1 /\ Len(x) \in Nat
        /\ \A i \in 1..Len(x) : x[i] = t[p + i - 1]
    <3>1. IsRest(t, p, x)
      BY <1>1, <1>2, <2>1, RestIs
    <3>2. QED
      BY <3>1 DEF IsRest
  <2>4. /\ Len(more) \in Nat /\ Len(t) = Len(s) + Len(more)
        /\ \A i \in 1..Len(s) + Len(more) : t[i] = IF i <= Len(s) THEN s[i] ELSE more[i - Len(s)]
    BY <1>1, ConcatProperties, LenProperties
  <2>5. PICK y : y = a \o more
    OBVIOUS
  <2>6. /\ y \in Seq(Symbols) /\ Len(y) = Len(a) + Len(more)
        /\ \A i \in 1..Len(a) + Len(more) : y[i] = IF i <= Len(a) THEN a[i] ELSE more[i - Len(a)]
    BY <2>2, <2>5, ConcatProperties
  <2>7. Len(x) = Len(y)
    BY <1>1, <2>2, <2>3, <2>4, <2>6
  <2>8. ASSUME NEW i \in 1..Len(x) PROVE x[i] = y[i]
    <3>1. PICK j : j = p + i - 1
      OBVIOUS
    <3>2. j \in 1..Len(s) + Len(more) /\ i \in 1..Len(a) + Len(more) /\ x[i] = t[j] /\ i \in Nat /\ j \in Nat
      <4>1. Len(x) = Len(a) + Len(more) /\ Len(a) = Len(s) - p + 1 /\ Len(more) \in Nat
            /\ Len(a) \in Nat /\ p >= 1
        BY <1>1, <2>2, <2>4, <2>6, <2>7
      <4>2. x[i] = t[j]
        BY <2>3, <3>1
      <4>3. QED
        BY <1>1, <3>1, <4>1, <4>2
    <3>3. CASE i <= Len(a)
      <4>1. j <= Len(s) /\ i \in 1..Len(a)
        BY <1>1, <2>2, <3>1, <3>2, <3>3
      <4>2. x[i] = s[j] /\ y[i] = a[i]
        BY <2>4, <2>6, <3>2, <3>3, <4>1
      <4>3. QED
        BY <2>2, <3>1, <4>1, <4>2
    <3>4. CASE ~(i <= Len(a))
      <4>1. ~(j <= Len(s)) /\ j - Len(s) = i - Len(a)
        BY <1>1, <2>2, <3>1, <3>2, <3>4
      <4>2. x[i] = more[j - Len(s)] /\ y[i] = more[i - Len(a)]
        BY <2>4, <2>6, <3>2, <3>4, <4>1
      <4>3. QED
        BY <4>1, <4>2
    <3>5. QED
      BY <3>3, <3>4
  <2>9. x = y
    BY <2>3, <2>6, <2>7, <2>8, SeqEqual
  <2>10. QED
    BY <2>1, <2>5, <2>9
<1>4. ASSUME NEW q \in Nat, NEW cl, Parsed(s, q, cl) PROVE Parsed(t, q, cl) /\ Line(t) = Line(s)
  <2>1. FindCRLF(s) # {}
    BY <1>4 DEF Parsed
  <2>2. QED
    BY <1>4, <2>1, ExtendParsed, ExtendFirst
<1>5. Progress(t, p)
  <2>1. CASE checkstate = "EXPECT_REQUESTLINE"
    BY <2>1 DEF Progress
  <2>2. CASE checkstate = "EXPECT_HEADER"
    <3>1. Parsed(s, p, contentLength) /\ url = RequestURL(Line(s))
      BY <2>2 DEF Progress
    <3>2. Parsed(t, p, contentLength) /\ Line(t) = Line(s)
      BY <1>1, <1>4, <3>1
    <3>3. QED
      BY <2>2, <3>1, <3>2 DEF Progress
  <2>3. CASE checkstate = "EXPECT_CONTENT"
    <3>1. PICK e : e = p - 2
      OBVIOUS
    <3>2. /\ Parsed(s, e, contentLength) /\ url = RequestURL(Line(s))
          /\ <<e, e>> \in Lines(s) /\ contentLength > 0
      BY <2>3, <3>1 DEF Progress
    <3>3. e \in Nat /\ IsLine(s, e, e)
      <4>1. PICK l : l = <<e, e>>
        OBVIOUS
      <4>2. IsLine(s, l[1], l[2]) /\ l[1] = e /\ l[2] = e
        BY <1>1, <3>2, <4>1, LinesAre
      <4>3. QED
        BY <4>2 DEF IsLine
    <3>4. Parsed(t, e, contentLength) /\ Line(t) = Line(s)
      BY <1>4, <3>2, <3>3
    <3>5. <<e, e>> \in Lines(t)
      BY <1>1, <3>3, ExtendLine, LinesAre
    <3>6. QED
      BY <2>3, <3>1, <3>2, <3>4, <3>5 DEF Progress
  <2>4. QED
    BY <2>1, <2>2, <2>3 DEF Progress
<1>6. QED
  BY <1>2, <1>3, <1>5

-----------------------------------------------------------------------------
(***************************************************************************)
(* ParseInv is an invariant                                                *)
(***************************************************************************)
LEMMA Arrives ==
    ASSUME NEW in \in Seq(Symbols), NEW a \in 0..Len(in), NEW b \in a..Len(in)
    PROVE  /\ SubSeq(in, a + 1, b) \in Seq(Symbols)
           /\ SubSeq(in, 1, b) = SubSeq(in, 1, a) \o SubSeq(in, a + 1, b)
           /\ Extends(SubSeq(in, 1, a), SubSeq(in, 1, b))
<1>1. Len(in) \in Nat /\ a \in Nat /\ b \in Nat /\ a <= b /\ a \in 0..Len(in) /\ b \in 0..Len(in)
  BY LenProperties
<1>2. SubSeq(in, a + 1, b) \in Seq(Symbols)
  <2>1. a + 1 \in 1..Len(in) + 1
    BY <1>1
  <2>2. QED
    BY <1>1, <2>1, Sub
<1>3. SubSeq(in, 1, b) = SubSeq(in, 1, a) \o SubSeq(in, a + 1, b)
  <2>1. 1 \in 1..Len(in) + 1 /\ a \in (1 - 1)..Len(in) /\ b \in a..Len(in)
    BY <1>1
  <2>2. QED
    BY <2>1, ConcatAdjacentSubSeq
<1>4. PICK s, t : s = SubSeq(in, 1, a) /\ t = SubSeq(in, 1, b)
  OBVIOUS
<1>5. s \in Seq(Symbols) /\ Len(s) = a /\ \A i \in 1..a : s[i] = in[i]
  BY <1>1, <1>4, Split
<1>6. t \in Seq(Symbols) /\ Len(t) = b /\ \A i \in 1..b : t[i] = in[i]
  BY <1>1, <1>4, Split
<1>7. \A i \in 1..a : t[i] = s[i]
  BY <1>1, <1>5, <1>6
<1>8. Extends(s, t)
  BY <1>1, <1>5, <1>6, <1>7 DEF Extends
<1>9. QED
  BY <1>2, <1>3, <1>4, <1>8

LEMMA NoLoneBefore ==
    ASSUME NEW s, NEW t, Extends(s, t), NoLoneLF(t)
    PROVE  NoLoneLF(s)
<1>1. /\ Len(s) \in Nat /\ Len(t) \in Nat /\ Len(s) <= Len(t)
      /\ DOMAIN s = 1..Len(s) /\ DOMAIN t = 1..Len(t)
      /\ \A i \in 1..Len(s) : t[i] = s[i]
  BY LenProperties DEF Extends
<1>2. ASSUME NEW i \in 1..Len(s), s[i] = LF PROVE i > 1 /\ s[i - 1] = CR
  <2>1. i \in 1..Len(t) /\ t[i] = LF
    BY <1>1, <1>2
  <2>2. i > 1 /\ t[i - 1] = CR
    BY <1>1, <2>1 DEF NoLoneLF
  <2>3. i - 1 \in 1..Len(s)
    BY <1>1, <2>2
  <2>4. QED
    BY <1>1, <2>2, <2>3
<1>3. QED
  BY <1>1, <1>2 DEF NoLoneLF

LEMMA ReceivedIs == ASSUME RequestType PROVE Received \in Seq(Symbols)
<1>1. input \in Seq(Symbols) /\ Len(input) \in Nat
  BY LenProperties DEF RequestType
<1>2. got \in 0..Len(input)
  BY <1>1 DEF RequestType
<1>3. QED
  BY <1>1, <1>2, Split DEF Received

\* The steps that neither read nor decode.
LEMMA ParseFrame ==
    ASSUME ParseInv, UNCHANGED <<requestVars, input, got, answers>>,
           pc' = pc \/ (~Deciding /\ ~Deciding')
    PROVE  ParseInv'
<1>1. PICK s : s = Received
  OBVIOUS
<1>2. Received' = s
  BY <1>1 DEF Received
<1>3. ASSUME Undecided(s) PROVE Undecided(s)'
  <2>1. UNCHANGED <<buf, checkstate, url, contentLength, ret>>
    BY DEF requestVars
  <2>2. \A p : Progress(s, p)' <=> Progress(s, p)
    BY <2>1 DEF Progress
  <2>3. (pc' = "respond" <=> pc = "respond") /\ (Deciding' <=> Deciding)
    BY DEF Deciding
  <2>4. QED
    BY <1>3, <2>1, <2>2, <2>3 DEF Undecided
<1>4. Decided(s)' <=> Decided(s)
  BY DEF Decided
<1>5. answers = <<>> => Undecided(Received)'
  <2>1. ASSUME answers = <<>> PROVE Undecided(s)'
    BY <1>1, <1>3, <2>1 DEF ParseInv
  <2>2. QED
    BY <1>2, <2>1 DEF Undecided
<1>6. answers # <<>> /\ NoLoneLF(s) => Decided(Received)'
  <2>1. answers # <<>> /\ NoLoneLF(s) => Decided(s)'
    BY <1>1, <1>4 DEF ParseInv
  <2>2. QED
    BY <1>2, <2>1 DEF Decided
<1>7. QED
  BY <1>2, <1>5, <1>6 DEF ParseInv

\* A read that does not move the input.
LEMMA ReadParse == ASSUME RespInv, ParseInv, HandleRead, "input" \notin moved' PROVE ParseInv'
<1>0. /\ pc = "read" /\ RequestType /\ input' = input /\ answers' = answers
      /\ UNCHANGED <<checkstate, url, contentLength>>
  BY DEF HandleRead, RespInv, TypeOK
<1>1. CASE ~(got < sent)
  <2>1. pc' = "write" /\ UNCHANGED <<buf, taken, got, ret>>
    BY <1>1 DEF HandleRead
  <2>2. QED
    BY <1>0, <2>1, ParseFrame DEF Deciding, requestVars
<1>2. CASE got < sent
  <2>1. /\ ReadFd(SubSeq(input, got + 1, sent)) /\ got' = sent
        /\ checkstate # "GET_ALL" => pc' = "decode" /\ ret' = "decoding"
    BY <1>2 DEF HandleRead, MayDecode
  <2>2. PICK s, t, more : s = Received /\ t = SubSeq(input, 1, sent) /\ more = SubSeq(input, got + 1, sent)
    OBVIOUS
  <2>4. more \in Seq(Symbols) /\ t = s \o more /\ Extends(s, t)
    <3>1. input \in Seq(Symbols) /\ Len(input) \in Nat
      BY <1>0, LenProperties DEF RequestType
    <3>2. got \in 0..Len(input) /\ sent \in got..Len(input)
      BY <1>0, <1>2, <3>1 DEF RequestType
    <3>3. QED
      BY <2>2, <3>1, <3>2, Arrives DEF Received
  <2>3. Received' = t /\ buf' = buf \o more
    <3>1. Received' = t
      BY <1>0, <2>1, <2>2 DEF Received
    <3>2. "input" \in moved \cup {"input"}
      OBVIOUS
    <3>3. buf' = buf \o more
      BY <1>0, <2>1, <2>2, <2>4, <3>2, ReadIs
    <3>4. QED
      BY <3>1, <3>3
  <2>5. ASSUME answers = <<>> PROVE Undecided(Received)'
    <3>1. checkstate # "GET_ALL" /\ pc' = "decode" /\ ret' = "decoding"
      BY <1>0, <2>1, <2>5 DEF RespInv, AnswerOK, NotYet
    <3>2. PICK p \in 1..Len(s) + 1 : buf = Rest(s, p) /\ Progress(s, p)
      BY <1>0, <2>2, <2>5 DEF ParseInv, Undecided, Deciding
    <3>3. p \in 1..Len(t) + 1 /\ Rest(t, p) = Rest(s, p) \o more /\ Progress(t, p)
      <4>1. Progress(s, p) /\ checkstate # "GET_ALL"
        BY <3>1, <3>2
      <4>2. QED
        BY <2>4, <4>1, ReadUndecided, ZenonT(60)
    <3>4. Progress(t, p)'
      BY <1>0, <3>3 DEF Progress
    <3>5. Undecided(t)'
      BY <2>3, <3>1, <3>2, <3>3, <3>4 DEF Undecided, Deciding
    <3>6. QED
      BY <2>3, <3>5 DEF Undecided
  <2>6. ASSUME answers # <<>>, NoLoneLF(t) PROVE Decided(Received)'
    <3>1. NoLoneLF(s)
      BY <2>4, <2>6, NoLoneBefore
    <3>2. Decided(s)
      BY <2>2, <2>6, <3>1 DEF ParseInv
    <3>3. Decided(t)
      BY <2>4, <3>2, ExtendReference DEF Decided
    <3>4. QED
      BY <1>0, <2>3, <3>3 DEF Decided
  <2>7. QED
    BY <1>0, <2>3, <2>5, <2>6 DEF ParseInv
<1>3. QED
  BY <1>1, <1>2

LEMMA DecodeParse == ASSUME RespInv, ParseInv, Running, Decode PROVE ParseInv'
<1>1. /\ pc = "decode" /\ ret = "decoding" /\ checkstate # "GET_ALL" /\ RequestType
      /\ UNCHANGED <<input, got, answers>>
  BY DEF Decode, RespInv, TypeOK, DecodeOK, Running, peerVars, readVars
<1>2. PICK s : s = Received
  OBVIOUS
<1>3. Received' = s
  BY <1>1, <1>2 DEF Received
<1>4. ASSUME answers = <<>> PROVE Undecided(Received)'
  <2>1. s \in Seq(Symbols) /\ Undecided(s)
    BY <1>1, <1>2, <1>4, ReceivedIs DEF ParseInv
  <2>2. Undecided(s)'
    BY <1>1, <2>1, DecodeUndecided
  <2>3. QED
    BY <1>3, <2>2 DEF Undecided
<1>5. ASSUME answers # <<>>, NoLoneLF(s) PROVE Decided(Received)'
  <2>1. Decided(s)
    BY <1>2, <1>5 DEF ParseInv
  <2>2. QED
    BY <1>1, <1>3, <2>1 DEF Decided
<1>6. QED
  BY <1>1, <1>3, <1>4, <1>5 DEF ParseInv

LEMMA RespondParse == ASSUME RespInv, ParseInv, Respond PROVE ParseInv'
<1>1. /\ pc = "respond" /\ answers' = Append(answers, Answered) /\ UNCHANGED <<input, got>>
  BY DEF Respond, peerVars, readVars
<1>2. PICK s : s = Received
  OBVIOUS
<1>3. Received' = s
  BY <1>1, <1>2 DEF Received
<1>4. /\ answers' # <<>>
      /\ answers = <<>> => answers'[1] = Answered
      /\ answers # <<>> => answers'[1] = answers[1]
  <2>1. answers \in Seq(Resources) /\ Len(answers) \in Nat /\ url \in Resources
    BY LenProperties DEF RespInv, TypeOK, ResponseType, RequestType
  <2>2. Answered \in Resources
    BY <2>1 DEF Answered, BadRequest, Resources
  <2>3. PICK a, q, r : a = Answered /\ q = answers /\ r = answers'
    OBVIOUS
  <2>4. a \in Resources /\ q \in Seq(Resources) /\ r = Append(q, a)
    BY <1>1, <2>1, <2>2, <2>3
  <2>5. QED
    BY <2>3, <2>4, Appended
<1>5. ASSUME NoLoneLF(s) PROVE Decided(Received)'
  <2>1. CASE answers # <<>>
    <3>1. Decided(s)
      BY <1>2, <1>5, <2>1 DEF ParseInv
    <3>2. QED
      BY <1>3, <1>4, <2>1, <3>1 DEF Decided
  <2>2. CASE answers = <<>>
    <3>1. Undecided(s)
      BY <1>2, <2>2 DEF ParseInv
    <3>2. CASE ret = "GET_REQUEST"
      <4>1. Reference(s) = "GET_REQUEST" /\ url = RequestURL(Line(s))
        BY <1>1, <3>1, <3>2 DEF Undecided
      <4>2. answers'[1] = url
        BY <1>4, <2>2, <3>2 DEF Answered
      <4>3. QED
        BY <1>3, <4>1, <4>2 DEF Decided
    <3>3. CASE ret = "BAD_REQUEST"
      <4>1. Reference(s) = "BAD_REQUEST"
        BY <1>1, <1>5, <3>1, <3>3 DEF Undecided
      <4>2. answers'[1] = BadRequest
        BY <1>4, <2>2, <3>3 DEF Answered
      <4>3. QED
        BY <1>3, <4>1, <4>2 DEF Decided
    <3>4. QED
      BY <1>1, <3>2, <3>3 DEF RespInv, DecodeOK
  <2>3. QED
    BY <2>1, <2>2
<1>6. QED
  BY <1>3, <1>4, <1>5 DEF ParseInv

\* The answer is there when its writing is complete.
LEMMA WrittenParse == ASSUME RespInv, ParseInv, OnWriteComplete PROVE ParseInv'
<1>1. batch = <<"writeComplete">> /\ UNCHANGED <<input, got, answers>>
  BY TaskIs DEF OnWriteComplete, RespInv, TypeOK, peerVars, readVars
<1>2. answers # <<>>
  BY <1>1, TasksDiffer DEF RespInv, AnswerOK, NotYet
<1>3. PICK s : s = Received
  OBVIOUS
<1>4. Received' = s
  BY <1>1, <1>3 DEF Received
<1>5. ASSUME NoLoneLF(s) PROVE Decided(Received)'
  <2>1. Decided(s)
    BY <1>2, <1>3, <1>5 DEF ParseInv
  <2>2. QED
    BY <1>1, <1>4, <2>1 DEF Decided
<1>6. QED
  BY <1>1, <1>2, <1>4, <1>5 DEF ParseInv

LEMMA InitParse == Init => ParseInv
<1> SUFFICES ASSUME Init PROVE ParseInv
  OBVIOUS
<1>1. input \in Seq(Symbols) /\ Len(input) \in Nat /\ got = 0
  BY InitResp, LenProperties DEF Init, RespInv, TypeOK, RequestType
<1>2. PICK s : s = Received
  OBVIOUS
<1>3. s \in Seq(Symbols) /\ Len(s) = 0
  <2>1. got \in 0..Len(input) /\ s = SubSeq(input, 1, got)
    BY <1>1, <1>2 DEF Received
  <2>2. QED
    BY <1>1, <2>1, Split
<1>4. FindCRLF(s) = {} /\ Reference(s) = "NO_REQUEST"
  <2>1. FindCRLF(s) = {}
    BY <1>3 DEF FindCRLF
  <2>2. QED
    BY <2>1, ReferenceIs
<1>5. Rest(s, 1) = <<>> /\ 1 \in 1..Len(s) + 1
  <2>1. s = <<>>
    BY <1>3, EmptySeq
  <2>2. Rest(s, 1) = s
    BY <1>3, RestAll
  <2>3. 1 \in 1..Len(s) + 1
    BY <1>3
  <2>4. QED
    BY <2>1, <2>2, <2>3
<1>6. Progress(s, 1)
  BY DEF Init, Progress
<1>7. Undecided(s)
  BY <1>4, <1>5, <1>6 DEF Init, Undecided, Deciding
<1>8. QED
  BY <1>2, <1>7 DEF Init, ParseInv

\* As long as the input has not been moved.
Unmoved == "input" \in moved \/ ParseInv

LEMMA StepParse == RespInv /\ Unmoved /\ [Next]_vars => Unmoved'
<1> SUFFICES ASSUME RespInv, Unmoved, [Next]_vars, "input" \notin moved' PROVE ParseInv'
  BY DEF Unmoved
<1>0. ParseInv
  <2>1. moved \subseteq moved'
    <3>1. CASE HandleRead
      BY <3>1 DEF HandleRead, ReadFd
    <3>2. CASE Respond
      BY <3>2 DEF Respond, SendResponse
    <3>3. CASE UNCHANGED moved
      BY <3>3
    <3>4. QED
      BY <3>1, <3>2, <3>3 DEF Next, Works, LoopStep, Stopped, Abort, vars, readVars, Poll, NoRead, Decode,
                              HandleWrite, OnWriteComplete, CloseInLoop, EndTasks, Task,
                              PeerSends, PeerCloses, PeerResets, PeerFrame
  <2>2. QED
    BY <2>1 DEF Unmoved
<1>1. CASE UNCHANGED vars \/ Abort
  BY <1>0, <1>1, ParseFrame DEF vars, peerVars, readVars, Abort
<1>2. CASE Poll \/ NoRead \/ HandleWrite \/ CloseInLoop \/ EndTasks
  <2>1. UNCHANGED <<requestVars, input, got, answers>>
    BY <1>2 DEF Poll, NoRead, HandleWrite, CloseInLoop, EndTasks, Task, peerVars, readVars
  <2>2. ~Deciding /\ ~Deciding'
    BY <1>2 DEF Poll, NoRead, HandleWrite, CloseInLoop, EndTasks, Task, Deciding
  <2>3. QED
    BY <1>0, <2>1, <2>2, ParseFrame
<1>3. CASE PeerSends \/ PeerCloses \/ PeerResets
  <2>1. UNCHANGED <<requestVars, input, got, answers>> /\ pc' = pc
    BY <1>3 DEF PeerSends, PeerCloses, PeerResets, PeerFrame, readVars
  <2>2. QED
    BY <1>0, <2>1, ParseFrame
<1>4. CASE Running /\ (HandleRead \/ Decode \/ Respond \/ OnWriteComplete)
  BY <1>0, <1>4, ReadParse, DecodeParse, RespondParse, WrittenParse
<1>5. QED
  BY <1>1, <1>2, <1>3, <1>4 DEF Next, Works, LoopStep, Stopped

-----------------------------------------------------------------------------
(***************************************************************************)
(* When the input can be moved                                             *)
(***************************************************************************)
\* Until then the vector holds no more than what has been received.
SpaceInv ==
    /\ kInitialSize <= capacity
    /\ "input" \notin moved => Len(taken) + Len(buf) <= got
    /\ "input" \in moved => got > kInitialSize

LEMMA ReadSpace == ASSUME RespInv, SpaceInv, HandleRead PROVE SpaceInv'
<1>0. RequestType /\ Len(taken) \in Nat /\ Len(buf) \in Nat /\ Len(input) \in Nat
      /\ got \in Nat /\ sent \in Nat /\ sent <= Len(input) /\ capacity \in Nat /\ kInitialSize \in Nat
  BY LenProperties, BufferAssumption DEF RespInv, TypeOK, RequestType
<1>1. CASE ~(got < sent)
  <2>1. UNCHANGED <<buf, taken, capacity, moved, got>>
    BY <1>1 DEF HandleRead
  <2>2. QED
    BY <2>1 DEF SpaceInv
<1>2. CASE got < sent
  <2>1. PICK data : data = SubSeq(input, got + 1, sent)
    OBVIOUS
  <2>2. ReadFd(data) /\ got' = sent
    BY <1>2, <2>1 DEF HandleRead
  <2>3. data \in Seq(Symbols) /\ Len(data) = sent - got
    <3>1. got + 1 \in 1..Len(input) + 1 /\ sent \in 0..Len(input) /\ input \in Seq(Symbols)
      BY <1>0, <1>2 DEF RequestType
    <3>2. QED
      BY <1>0, <1>2, <2>1, <3>1, Sub
  <2>4. /\ buf' \in Seq(Symbols) /\ taken' \in Seq(Symbols) /\ capacity' \in Nat
        /\ capacity <= capacity'
        /\ \/ moved' = moved /\ buf' = buf \o data /\ taken' = taken
           \/ moved' = moved \cup {"input"} /\ Len(taken) + Len(buf) + Len(data) > capacity
    BY <1>0, <2>2, <2>3, ReadIs
  <2>5. kInitialSize <= capacity'
    BY <1>0, <2>4 DEF SpaceInv
  <2>6. CASE moved' = moved /\ buf' = buf \o data /\ taken' = taken
    <3>1. buf \in Seq(Symbols) /\ Len(buf \o data) = Len(buf) + Len(data)
      BY <1>0, <2>3, ConcatProperties, ZenonT(60) DEF RequestType
    <3>2. Len(buf') = Len(buf) + (sent - got)
      BY <2>3, <2>6, <3>1
    <3>3. QED
      BY <1>0, <1>2, <2>2, <2>5, <2>6, <3>2 DEF SpaceInv
  <2>7. CASE moved' = moved \cup {"input"} /\ Len(taken) + Len(buf) + Len(data) > capacity
    <3>1. sent > kInitialSize
      <4>1. CASE "input" \in moved
        BY <1>0, <1>2, <4>1 DEF SpaceInv
      <4>2. CASE "input" \notin moved
        BY <1>0, <2>3, <2>7, <4>2 DEF SpaceInv
      <4>3. QED
        BY <4>1, <4>2
    <3>2. QED
      BY <2>2, <2>5, <2>7, <3>1 DEF SpaceInv
  <2>8. QED
    BY <2>4, <2>6, <2>7
<1>3. QED
  BY <1>1, <1>2

LEMMA DecodeSpace == ASSUME RespInv, SpaceInv, Decode PROVE SpaceInv'
<1>1. TryDecode /\ UNCHANGED <<input, sent, got, capacity, moved>>
  BY DEF Decode, peerVars, readVars
<1>2. RequestType /\ RequestType' /\ Len(taken') + Len(buf') <= Len(taken) + Len(buf)
  BY <1>1, DecodeType DEF RespInv, TypeOK
<1>3. Len(taken) \in Nat /\ Len(buf) \in Nat /\ Len(taken') \in Nat /\ Len(buf') \in Nat
      /\ Len(input) \in Nat /\ got \in Nat
  BY <1>2, LenProperties DEF RequestType
<1>4. QED
  BY <1>1, <1>2, <1>3 DEF SpaceInv

LEMMA StepSpace == RespInv /\ SpaceInv /\ [Next]_vars => SpaceInv'
<1> SUFFICES ASSUME RespInv, SpaceInv, [Next]_vars PROVE SpaceInv'
  OBVIOUS
<1>1. CASE UNCHANGED <<buf, taken, got, capacity>> /\ ("input" \in moved' <=> "input" \in moved)
  BY <1>1 DEF SpaceInv
<1>2. CASE Respond
  <2>1. moved' = moved \/ moved' = moved \cup {"output"}
    BY <1>2 DEF Respond, SendResponse
  <2>2. QED
    BY <1>1, <1>2, <2>1 DEF Respond, requestVars
<1>3. CASE OnWriteComplete
  <2>1. UNCHANGED <<got, capacity, moved>>
    BY <1>3 DEF OnWriteComplete, Task, readVars
  <2>2. UNCHANGED <<buf, taken>>
    BY <1>3 DEF OnWriteComplete, Finish, NextChunk, requestVars
  <2>3. QED
    BY <1>1, <2>1, <2>2
<1>4. CASE UNCHANGED <<requestVars, readVars>>
  BY <1>1, <1>4 DEF requestVars, readVars
<1>5. QED
  BY <1>2, <1>3, <1>4, ReadSpace, DecodeSpace
     DEF Next, Works, LoopStep, Stopped, Abort, vars, Poll, NoRead, HandleWrite, CloseInLoop, EndTasks, Task,
         PeerSends, PeerCloses, PeerResets, PeerFrame

LEMMA InitSpace == Init => SpaceInv
<1> SUFFICES ASSUME Init PROVE SpaceInv
  OBVIOUS
<1>1. Len(taken) = 0 /\ Len(buf) = 0
  BY EmptySeq DEF Init
<1>2. QED
  BY <1>1, BufferAssumption DEF Init, SpaceInv

\* However the bytes are cut into reads (HttpServer::onMsg, HttpRequest::tryDecode,
\* Buffer::readFd), what is answered is what the reference definition finds in all that
\* has arrived, for any input without a lone line feed, any kCheapPrepend and any
\* kInitialSize, until makeSpace() moves the input; and it does not before more than
\* kInitialSize bytes have been received: DecodesLikeWhole.
THEOREM DecodingIsWhole == Spec => []DecodesLikeWhole
<1>1. RespInv /\ Unmoved /\ SpaceInv => DecodesLikeWhole
  <2> SUFFICES ASSUME RespInv, Unmoved, SpaceInv, NoLoneLF(Received), pc \notin {"decode", "respond"},
                      "input" \notin moved \/ got <= kInitialSize
               PROVE  \/ Reference(Received) = "NO_REQUEST" /\ answers = <<>>
                      \/ Reference(Received) = "BAD_REQUEST" /\ Head(answers) = BadRequest
                      \/ /\ Reference(Received) = "GET_REQUEST"
                         /\ Head(answers) = RequestURL(Line(Received))
    BY DEF DecodesLikeWhole
  <2>0. ParseInv
    <3>1. got \in Nat /\ kInitialSize \in Nat
      BY LenProperties, BufferAssumption DEF RespInv, TypeOK, RequestType
    <3>2. QED
      BY <3>1 DEF Unmoved, SpaceInv
  <2>1. CASE answers = <<>>
    BY <2>0, <2>1 DEF ParseInv, Undecided, Deciding
  <2>2. CASE answers # <<>>
    <3>1. Head(answers) = answers[1]
      BY <2>2, HeadTailProperties DEF RespInv, TypeOK, ResponseType
    <3>2. QED
      BY <2>0, <2>2, <3>1 DEF ParseInv, Decided
  <2>3. QED
    BY <2>1, <2>2
<1>2. Init => Unmoved
  BY InitParse DEF Unmoved
<1>3. QED
  BY AlwaysResp, InitSpace, StepSpace, StepParse, <1>1, <1>2, PTL DEF Spec
=============================================================================
