------------------------------ MODULE HttpServer ------------------------------
(***************************************************************************)
(* miniduo::HttpServer (http/httpserver.h, http/httpserver.cpp) on one     *)
(* connection: requests are decoded as their bytes arrive, the response    *)
(* goes through the connection's output buffer, the rest of a large file   *)
(* follows in sendfile() chunks driven by the write-complete callback, and *)
(* the server closes the connection after the response.                    *)
(*                                                                         *)
(* The connection's loop polls, reads, writes and runs the batch of queued *)
(* tasks, in this order; all of HttpServer runs in it.  The resource a URL *)
(* names is a record: the status handleRequest finds for it and the size   *)
(* of the file.  The unit of files, output and wire is a part of a chunk;  *)
(* a header is one unit.                                                   *)
(*                                                                         *)
(* The input buffer is modelled as Buffer is: its size, what lies in front *)
(* of the readable bytes, and makeSpace(), which moves the wrong bytes     *)
(* (buffer.cpp:145).  Of the output buffer only whether part of it has     *)
(* been written is kept: with that, an append may move it too.  A move     *)
(* also writes past the end of the vector; the process may then abort.     *)
(***************************************************************************)
EXTENDS HttpRequest

CONSTANTS
    kCheapPrepend,
    kInitialSize,
    Chunk,      \* BUFFER_SIZE
    Resets      \* the peer may reset the connection

ASSUME ChunkAssumption == Chunk \in Nat \ {0} /\ Resets \in BOOLEAN
ASSUME BufferAssumption == kCheapPrepend \in Nat /\ kInitialSize \in Nat

VARIABLES
    input,              \* what the client sends
    sent, got,          \* how much of it has reached the socket and input_
    capacity,           \* buffer_.size() of input_, without kCheapPrepend
    moved,              \* the buffers whose bytes makeSpace() has moved
    aborted,            \* the process has ended because of that
    peer,               \* "open", "closed", "reset", "resetRead"
    headers, body,      \* headers_ and body_ of the response
    respComplete,       \* respComplete_
    file,               \* filefd_: a sequence, the file's units not yet read
    fileOpen,           \* filefd_ # -1
    open,               \* number of open file descriptors
    output, writing,    \* output_ and isWriting()
    partly,             \* part of output_ has been retrieved
    connected,          \* state_ is kConnected; else kDisconnected
    wire,               \* what has been written to the socket
    pc,                 \* where the loop is
    ready,              \* active events
    queue, batch,       \* pendingTasks_ and what is left of the batch
    answers,            \* the responses loaded, by request
    cut,                \* sendfile failed
    closedBy            \* who closed the connection

respVars == <<headers, body, respComplete, file, fileOpen, open>>
connVars == <<output, partly, writing, connected, wire, closedBy>>
peerVars == <<input, sent, peer>>
readVars == <<got, capacity, moved>>
taskVars == <<queue, batch>>
vars == <<requestVars, respVars, connVars, peerVars, taskVars, readVars, pc, ready, answers, cut, aborted>>

Init ==
    /\ input \in Inputs /\ sent = 0 /\ got = 0 /\ peer = "open"
    /\ capacity = kInitialSize /\ moved = {} /\ aborted = FALSE
    /\ buf = <<>> /\ taken = <<>> /\ checkstate = "EXPECT_REQUESTLINE" /\ url = NoURL /\ contentLength = 0
    /\ ret = "NO_REQUEST"
    /\ headers = <<>> /\ body = <<>> /\ respComplete = FALSE
    /\ file = <<>> /\ fileOpen = FALSE /\ open = 0
    /\ output = <<>> /\ partly = FALSE /\ writing = FALSE /\ connected = TRUE /\ wire = <<>>
    /\ pc = "poll" /\ ready = {} /\ queue = <<>> /\ batch = <<>>
    /\ answers = <<>> /\ cut = FALSE /\ closedBy = "nobody"

(***************************************************************************)
(* The response to a request                                               *)
(***************************************************************************)
ErrorText == << <<"text">> >>
StatusHead(code, len) == <<"head", code, len>>
Contents(size) == [i \in 1..size |-> <<"data", i>>]

BadRequest == [code |-> 400, size |-> 0]

\* handleRequest looks the resource up when the request is whole.
Answered == IF ret = "GET_REQUEST" THEN url ELSE BadRequest

Response(a) ==
    IF a.code = 200 THEN <<StatusHead(200, a.size)>> \o Contents(a.size)
                    ELSE <<StatusHead(a.code, Len(ErrorText))>> \o ErrorText

\* Bug variant: the file is not closed.
ClearResponseOnly ==
    /\ headers' = <<>> /\ body' = <<>> /\ respComplete' = FALSE
    /\ file' = <<>> /\ fileOpen' = FALSE
    /\ UNCHANGED open

ClearResponse ==
    /\ headers' = <<>> /\ body' = <<>> /\ respComplete' = FALSE
    /\ file' = <<>> /\ fileOpen' = FALSE
    /\ open' = IF fileOpen THEN open - 1 ELSE open

LoadFailResponse(code) ==
    /\ headers' = Append(headers, StatusHead(code, Len(ErrorText)))
    /\ body' = body \o ErrorText
    /\ respComplete' = TRUE
    /\ UNCHANGED <<file, fileOpen, open>>

\* Bug variant: a file that fills the buffer is taken to be read to its end.
LoadFileFull(size) ==
    LET n == IF size < Chunk THEN size ELSE Chunk IN
    /\ file' = SubSeq(Contents(size), n + 1, size) /\ fileOpen' = TRUE /\ open' = open + 1
    /\ headers' = Append(headers, StatusHead(200, size))
    /\ body' = body \o Contents(n)
    /\ respComplete' = (n > 0)

\* The first read() takes what one buffer holds.  Of an empty file it takes
\* nothing, and respComplete_ stays as it was.
LoadFile(size) ==
    LET n == IF size < Chunk THEN size ELSE Chunk IN
    /\ file' = SubSeq(Contents(size), n + 1, size) /\ fileOpen' = TRUE /\ open' = open + 1
    /\ headers' = Append(headers, StatusHead(200, size))
    /\ body' = body \o Contents(n)
    /\ respComplete' = IF n = 0 THEN respComplete ELSE n = size

LoadResponse == IF Answered.code = 200 THEN LoadFile(Answered.size)
                                       ELSE LoadFailResponse(Answered.code)

\* send() of nothing, in the loop: it asks for a write event.
SendNothing ==
    /\ writing' = (connected \/ writing)
    /\ UNCHANGED <<output, partly>>

Garbled(n) == [i \in 1..n |-> <<"garbled">>]

\* sendResponse: headers_ and body_ are appended to output_.  If part of it has been
\* written, one of the two may find room in front; then what was there is moved, and
\* is not what it was.
SendResponse ==
    LET all == output \o headers' \o body' IN
    \/ /\ connected /\ writing' = TRUE
       /\ \/ output' = all /\ UNCHANGED <<partly, moved>>
          \/ /\ partly
             /\ \E last \in {headers' \o body', body'} : output' = Garbled(Len(all) - Len(last)) \o last
             /\ partly' = FALSE /\ moved' = moved \cup {"output"}
    \/ ~connected /\ UNCHANGED <<output, partly, writing, moved>>

(***************************************************************************)
(* The loop and TcpConnection                                              *)
(***************************************************************************)
Poll ==
    /\ pc = "poll" /\ pc' = "read"
    /\ ready' \in SUBSET {"read", "write"}
    /\ "read" \in ready' <=> connected /\ (got < sent \/ peer # "open")
    /\ "write" \in ready' => writing
    /\ UNCHANGED <<requestVars, respVars, connVars, peerVars, taskVars, readVars, answers, cut>>

\* handleClose: disableAll() and the end of the connection; the context, and
\* filefd_ with it, goes without being closed.
HandleClose(who) ==
    /\ connected' = FALSE /\ closedBy' = who /\ writing' = FALSE
    /\ UNCHANGED <<output, partly, wire>>

\* decodeHttpRequest
MayDecode == checkstate # "GET_ALL"

\* readFd: what does not fit is read into extrabuf and appended, for which makeSpace
\* moves the vector's first bytes, if the room in front is enough, or resizes.
ReadFd(data) ==
    LET writable == capacity - Len(taken) - Len(buf)
        filled == buf \o SubSeq(data, 1, writable)
        extra == SubSeq(data, writable + 1, Len(data))
        cells == [i \in 1..kCheapPrepend |-> NUL] \o taken \o filled
    IN  \/ /\ Len(data) <= writable
           /\ buf' = buf \o data /\ UNCHANGED <<taken, capacity, moved>>
        \/ /\ Len(data) > writable /\ Len(extra) > Len(taken)
           /\ buf' = buf \o data /\ capacity' = capacity + Len(extra) /\ UNCHANGED <<taken, moved>>
        \/ /\ Len(data) > writable /\ Len(extra) <= Len(taken)
           /\ buf' = SubSeq(cells, 1, Len(filled)) \o extra /\ taken' = <<>>
           /\ moved' = moved \cup {"input"} /\ UNCHANGED capacity

HandleRead ==
    /\ pc = "read" /\ "read" \in ready
    /\ IF got < sent
         THEN /\ ReadFd(SubSeq(input, got + 1, sent)) /\ got' = sent
              /\ IF MayDecode THEN pc' = "decode" /\ ret' = "decoding"
                              ELSE pc' = "write" /\ ret' = "NO_REQUEST"
              /\ UNCHANGED <<connVars, peer>>
         ELSE /\ IF peer = "reset" THEN peer' = "resetRead" /\ UNCHANGED connVars
                                   ELSE HandleClose("peer") /\ UNCHANGED peer
              /\ pc' = "write"
              /\ UNCHANGED <<buf, taken, capacity, moved, got, ret>>
    /\ UNCHANGED <<checkstate, url, contentLength, respVars, input, sent, taskVars, ready, answers, cut>>

NoRead ==
    /\ pc = "read" /\ "read" \notin ready /\ pc' = "write"
    /\ UNCHANGED <<requestVars, respVars, connVars, peerVars, taskVars, readVars, ready, answers, cut>>

\* onMsg: tryDecode, and then the response to what it returns.
Decode ==
    /\ pc = "decode" /\ TryDecode
    /\ pc' = CASE ret' = "NO_REQUEST" -> "write"
               [] ret' \in {"GET_REQUEST", "BAD_REQUEST"} -> "respond"
               [] OTHER -> "decode"
    /\ UNCHANGED <<respVars, connVars, peerVars, taskVars, readVars, ready, answers, cut>>

Respond ==
    /\ pc = "respond" /\ pc' = "write"
    /\ answers' = Append(answers, Answered)
    /\ LoadResponse
    /\ SendResponse
    /\ UNCHANGED <<requestVars, connected, wire, closedBy, peerVars, taskVars, got, capacity, ready, cut>>

IsReset == peer \in {"reset", "resetRead"}

\* write() takes some of the output; it fails if the peer has reset.
HandleWrite ==
    /\ pc = "write" /\ pc' = "tasks"
    /\ \/ /\ "write" \in ready /\ writing /\ ~(IsReset /\ output # <<>>)
          /\ \E n \in (IF output = <<>> THEN {0} ELSE 1..Len(output)) :
               /\ wire' = wire \o SubSeq(output, 1, n)
               /\ output' = SubSeq(output, n + 1, Len(output))
               /\ writing' = (n < Len(output)) /\ partly' = (n < Len(output))
               /\ batch' = IF n < Len(output) THEN queue ELSE Append(queue, "writeComplete")
       \/ /\ ~("write" \in ready /\ writing) \/ (IsReset /\ output # <<>>)
          /\ batch' = queue
          /\ UNCHANGED <<wire, output, partly, writing>>
    /\ queue' = <<>>
    /\ UNCHANGED <<requestVars, respVars, connected, closedBy, peerVars, readVars, ready, answers, cut>>

Task(name) ==
    /\ pc = "tasks" /\ batch # <<>> /\ Head(batch) = name
    /\ batch' = Tail(batch)
    /\ UNCHANGED <<peerVars, readVars, pc, ready, answers>>

EndTasks ==
    /\ pc = "tasks" /\ batch = <<>> /\ pc' = "poll"
    /\ UNCHANGED <<requestVars, respVars, connVars, peerVars, taskVars, readVars, ready, answers, cut>>

\* Both parts of the context are cleared and close() queues closeInLoop.
Finish ==
    /\ Clear /\ ClearResponse
    /\ queue' = Append(queue, "closeInLoop")
    /\ UNCHANGED <<buf, taken, ret, connVars>>

\* sendfile() puts the next part of the file on the wire.
SendFile(n) ==
    /\ wire' = wire \o SubSeq(file, 1, n)
    /\ file' = SubSeq(file, n + 1, Len(file))

\* Bug variant: after a chunk, nothing asks for the next write event.
NextChunkQuiet(n) ==
    /\ SendFile(n)
    /\ UNCHANGED <<requestVars, headers, body, respComplete, fileOpen, open,
                   output, partly, writing, connected, closedBy, queue, cut>>

\* Bug variant: the offset given to sendfile() is where the last chunk began.
NextChunkAgain(n) ==
    /\ wire' = wire \o SubSeq(file, 1, n)
    /\ file' = IF n = Chunk THEN SubSeq(file, n, Len(file)) ELSE SubSeq(file, n + 1, Len(file))
    /\ SendNothing
    /\ UNCHANGED <<requestVars, headers, body, respComplete, fileOpen, open, connected, closedBy, queue, cut>>

\* send("") asks for the next write event.
NextChunk(n) ==
    /\ SendFile(n)
    /\ SendNothing
    /\ UNCHANGED <<requestVars, headers, body, respComplete, fileOpen, open, connected, closedBy, queue, cut>>

OnWriteComplete ==
    /\ Task("writeComplete")
    /\ \/ /\ respComplete
          /\ Finish /\ UNCHANGED cut
       \/ /\ ~respComplete /\ checkstate = "GET_ALL"
          /\ \/ file # <<>> /\ ~IsReset /\ \E n \in 1..Chunk : n <= Len(file) /\ NextChunk(n)
             \/ (file = <<>> \/ IsReset) /\ Finish /\ cut' = (file # <<>>)
       \/ /\ ~respComplete /\ checkstate # "GET_ALL"
          /\ UNCHANGED <<requestVars, respVars, connVars, queue, cut>>

CloseInLoop ==
    /\ Task("closeInLoop")
    /\ IF connected THEN HandleClose("server") ELSE UNCHANGED connVars
    /\ UNCHANGED <<requestVars, respVars, queue, cut>>

(***************************************************************************)
(* The client                                                              *)
(***************************************************************************)
PeerFrame == UNCHANGED <<requestVars, respVars, connVars, taskVars, input, readVars, pc, ready, answers, cut>>

PeerSends ==
    /\ peer = "open" /\ sent < Len(input)
    /\ sent' = sent + 1
    /\ PeerFrame /\ UNCHANGED peer

PeerCloses ==
    /\ peer = "open" /\ peer' = "closed"
    /\ PeerFrame /\ UNCHANGED sent

\* What was not read is lost.
PeerResets ==
    /\ Resets /\ peer \in {"open", "closed"} /\ peer' = "reset"
    /\ sent' = got
    /\ PeerFrame

-----------------------------------------------------------------------------
LoopStep == Poll \/ HandleRead \/ NoRead \/ Decode \/ Respond \/ HandleWrite
            \/ OnWriteComplete \/ CloseInLoop \/ EndTasks

\* An exception ends the process; so may the allocator when it comes upon what a move
\* has overwritten.
Running == ret # "exception" /\ ~aborted
Stopped == ~Running /\ UNCHANGED vars

Abort ==
    /\ moved # {} /\ aborted' = TRUE
    /\ UNCHANGED <<requestVars, respVars, connVars, peerVars, taskVars, readVars, pc, ready, answers, cut>>

Works == (LoopStep \/ PeerSends \/ PeerCloses \/ PeerResets) /\ UNCHANGED aborted
Next == (Running /\ (Works \/ Abort)) \/ Stopped

Spec == Init /\ [][Next]_vars

\* The loop keeps running, and a socket that is to be written to becomes writable
\* again: the peer reads what it is sent.
FairSpec ==
    /\ Spec
    /\ WF_vars(Running /\ LoopStep /\ UNCHANGED aborted)
    /\ SF_vars(Running /\ Poll /\ "write" \in ready' /\ UNCHANGED aborted)

-----------------------------------------------------------------------------
(***************************************************************************)
(* Properties                                                              *)
(***************************************************************************)
Received == SubSeq(input, 1, got)

\* However the bytes are cut into reads, decoding them as they come finds the
\* request that the reference definition finds in all of them, as long as makeSpace()
\* has not moved the input, which cannot happen before kInitialSize bytes have come.
\* A line feed that does not end a line is the exception (httpmsg.cpp:47), because
\* whether it is an error depends on what has come with it.
DecodesLikeWhole ==
    LET request == Reference(Received) IN
        (/\ "input" \notin moved \/ got <= kInitialSize
         /\ NoLoneLF(Received) /\ pc \notin {"decode", "respond"}) =>
          \/ request = "NO_REQUEST" /\ answers = <<>>
          \/ request = "BAD_REQUEST" /\ Head(answers) = BadRequest
          \/ request = "GET_REQUEST" /\ Head(answers) = RequestURL(Line(Received))

\* While one request is answered, what is on the wire, in the output buffer and
\* still to be read from the file make up its response: no chunk of sendfile()
\* overtakes buffered bytes, is sent twice or is left out.
WholeResponse ==
    (Len(answers) = 1 /\ closedBy = "nobody" /\ "closeInLoop" \notin ToSet(queue \o batch)) =>
      wire \o output \o file = Response(answers[1])

\* When the server closes the connection, the response to the first request is on
\* the wire, whole, unless sendfile() failed, and nothing else is; only a malformed
\* request line, after which the parser goes on with the next line, may have been
\* answered more than once, and then an answer that was partly written may have been
\* moved by makeSpace().
ClosedMeansAnswered ==
    closedBy = "server" =>
      \/ cut
      \/ wire = Response(answers[1])
      \/ answers[1] = BadRequest /\ ("output" \in moved \/ IsPrefix(Response(BadRequest), wire))

\* filefd_ is open when sendfile() needs it, is never overwritten while it is open,
\* and is closed when the server closes the connection, unless a further request
\* was decoded between close() and closeInLoop().  (It is not closed when the peer
\* ends the connection.)
NoFileForgotten ==
    /\ open = (IF fileOpen THEN 1 ELSE 0)
    /\ pc = "tasks" /\ checkstate = "GET_ALL" /\ ~respComplete => fileOpen
    /\ closedBy = "server" /\ fileOpen => Len(answers) > 1

\* A request that has arrived, whole or malformed, is answered and the connection
\* closed by the server, unless the peer ends it first, the process ends, or makeSpace()
\* has moved the input.
RequestAnswered ==
    LET ended == closedBy = "server" \/ peer # "open" \/ ~Running \/ "input" \in moved
    IN  (~ended /\ Reference(Received) # "NO_REQUEST") ~> ended
=============================================================================
