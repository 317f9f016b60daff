-------------------------- MODULE TcpServerProofs --------------------------
(***************************************************************************)
(* The life of a connection, for any number of connections and loops:      *)
(* which of its tasks are queued where decides what may happen to it next, *)
(* what keeps it alive, and which bytes go before its close.               *)
(***************************************************************************)
EXTENDS TcpServer, SequenceTheorems, TLAPS

USE ServerAssumption

Ops == SharedOps \cup {"listen", "sendInLoop", "shutdownInLoop", "closeInLoop", "queueClose"}

\* Only start() queues a task without a connection.
Tasks == {t \in Ops \X (Conns \cup {NoConn}) \X Nat : t[2] = NoConn <=> t[1] = "listen"}

\* The poller hands out events of channels.
Kinds == {"read", "write"}

\* conn.h, enum StateE, and "none" before newConnection.
States == {"none", "kConnecting", "kConnected", "kDisconnecting", "kDisconnected"}

TypeOK ==
    /\ server \in {"up", "destroying", "gone"} /\ listening \in BOOLEAN
    /\ connections \subseteq Conns /\ accepted \subseteq Conns /\ refs \subseteq Conns
    /\ io \in [Conns -> Loops]
    /\ state \in [Conns -> States] /\ events \in [Conns -> SUBSET Kinds]
    /\ registered \in [Conns -> BOOLEAN]
    /\ ups \in [Conns -> Nat] /\ downs \in [Conns -> Nat] /\ asked \in [Conns -> Nat]
    /\ peer \in [Conns -> {"open", "closed", "reset", "resetRead"}]
    /\ phase \in [Loops -> {"tasks", "events"}]
    /\ queue \in [Loops -> Seq(Tasks)] /\ batch \in [Loops -> Seq(Tasks)]
    /\ held \in [Loops -> SUBSET (Conns \cup {NoConn})]
    /\ active \in [Loops -> SUBSET (Conns \X Kinds)]
    /\ cb \in [Loops -> Conns \cup {NoConn}]
    /\ then \in [Loops -> {"return", "closeCallback", "removeChannel"}]

-----------------------------------------------------------------------------
(***************************************************************************)
(* Where the tasks of a connection are                                     *)
(***************************************************************************)
Has(q, op, c) == \E i \in DOMAIN q : q[i][1] = op /\ q[i][2] = c

InQueue(l, op, c) == Has(queue[l], op, c)
InBatch(l, op, c) == Has(batch[l], op, c)
Pending(l, op, c) == InQueue(l, op, c) \/ InBatch(l, op, c)

\* Tasks that come once in the life of a connection.
OnceOps == {"connectEstablished", "removeConnectionInLoop", "connectDestroyed"}

\* They are queued once, and connectEstablished before connectDestroyed.
InTurn(q) ==
    \A i, j \in DOMAIN q :
      i < j /\ q[i][2] = q[j][2] /\ q[i][1] \in OnceOps =>
        q[i][1] # q[j][1] /\ ~(q[i][1] = "connectDestroyed" /\ q[j][1] = "connectEstablished")

\* removeConnectionInLoop comes from another loop and is run by the acceptor's;
\* all other tasks of a connection, its callbacks and its events belong to its loop.
Where(c) ==
    /\ \A l \in Loops, op \in Ops :
         Pending(l, op, c) => /\ c \in accepted
                              /\ IF op = "removeConnectionInLoop" THEN l = Main /\ io[c] # Main
                                                                   ELSE l = io[c]
    /\ \A l \in Loops, kind \in Kinds :
         cb[l] = c \/ <<c, kind>> \in active[l] => c \in accepted /\ l = io[c]
    /\ c \in connections \cup refs => c \in accepted

\* Over the queue and the batch, too, connectEstablished is there once, and so on.
Once(c) ==
    \A l \in Loops :
      /\ \A op \in OnceOps : ~(InQueue(l, op, c) /\ InBatch(l, op, c))
      /\ ~(InQueue(l, "connectEstablished", c) /\ InBatch(l, "connectDestroyed", c))
      /\ \A op \in SharedOps : InBatch(l, op, c) => c \in held[l]

(***************************************************************************)
(* The stages of its life                                                  *)
(***************************************************************************)
Arriving(c) == Pending(io[c], "connectEstablished", c)
InCallback(c, next) == cb[io[c]] = c /\ then[io[c]] = next
Removal(c) == Pending(Main, "removeConnectionInLoop", c)
Closing(c) == InCallback(c, "closeCallback")
Destruction(c) == Pending(io[c], "connectDestroyed", c)
Removing(c) == InCallback(c, "removeChannel")
Dying(c) == Destruction(c) \/ Removing(c)

\* What state_ says about the callbacks, the channel and the queues.
Stage(c) ==
    /\ c \notin accepted <=> state[c] = "none"
    /\ Arriving(c) <=> state[c] = "kConnecting"
    /\ state[c] \in {"none", "kConnecting"} =>
         ups[c] = 0 /\ downs[c] = 0 /\ ~registered[c] /\ events[c] = {}
    /\ state[c] = "kConnecting" => io[c] # Main
    /\ Open(c) => /\ ups[c] = 1 /\ downs[c] = 0 /\ "read" \in events[c]
                  /\ failed = "none" => registered[c]
    /\ state[c] = "kDisconnected" => ups[c] = 1 /\ downs[c] = 1 /\ events[c] = {}
    /\ \A l \in Loops : <<c, "read">> \in active[l] => Open(c)

\* From the map to the removal of the channel.
Leaving(c) ==
    /\ Dying(c) => c \notin connections /\ (registered[c] \/ Arriving(c) \/ failed # "none")
    /\ ~(Destruction(c) /\ Removing(c))
    /\ Removing(c) => state[c] = "kDisconnected"
    /\ c \in connections => registered[c] \/ Arriving(c)
    /\ c \in accepted \ connections =>
         /\ Dying(c) \/ ~registered[c]
         /\ Dying(c) \/ state[c] = "kDisconnected" \/ failed # "none"
         /\ server = "up" \/ io[c] = Main => state[c] = "kDisconnected" \/ failed # "none"
    /\ ~(Removal(c) /\ Closing(c))
    /\ Removal(c) \/ Closing(c) => /\ state[c] = "kDisconnected"
                                   /\ server = "up" => c \in connections

\* The loops, and the destructor that runs in one.
LoopOK(l) ==
    /\ InTurn(queue[l]) /\ InTurn(batch[l])
    /\ phase[l] = "tasks" => active[l] = {}
    /\ phase[l] = "events" => batch[l] = <<>>

ServerOK ==
    /\ server = "destroying" => phase[Main] = "tasks"
    /\ server = "gone" => connections = {}
    /\ server # "up" => ~(cb[Main] # NoConn /\ then[Main] = "closeCallback")

ConnOK(c) == Where(c) /\ Once(c) /\ Stage(c) /\ Leaving(c)

\* The assertions that may fail, and when; of addChannel more is said below.
OnlyThese ==
    \/ failed \in {"none", "addChannel"}
    \/ /\ failed = "shutdownWrite"
       /\ \E c \in accepted : state[c] = "kDisconnecting" /\ IsReset(c) /\ "write" \notin events[c]
    \/ /\ failed = "removeChannel" /\ server # "up"
       /\ \E c \in accepted \ connections : state[c] = "kDisconnecting"
    \/ failed = "~TcpServer" /\ server = "up"

LifeInv ==
    /\ TypeOK /\ ServerOK
    /\ \A l \in Loops : LoopOK(l)
    /\ \A c \in Conns : ConnOK(c)

-----------------------------------------------------------------------------
(***************************************************************************)
(* What keeps the connections alive that a bare "this" points to, unless   *)
(* the user has kept pointers to them.  A disconnected connection is       *)
(* covered by its connectDestroyed once the map lets it go, and as a       *)
(* writeComplete is never in one batch with that task, nothing is queued   *)
(* behind it in the batch that runs it.                                    *)
(***************************************************************************)
Covered(c) == c \in connections \/ InQueue(io[c], "connectDestroyed", c)

Cover(c) ==
    /\ \A l \in Loops, op \in {"sendInLoop", "shutdownInLoop", "queueClose"} : ~Pending(l, op, c)
    /\ InQueue(io[c], "writeComplete", c) =>
         Open(c) /\ <<c, "read">> \notin active[io[c]] /\ phase[io[c]] = "events"
    /\ server = "up" =>
         /\ InQueue(io[c], "closeInLoop", c) \/ cb[io[c]] = c \/ InBatch(io[c], "writeComplete", c) =>
              Covered(c)
         /\ InBatch(io[c], "closeInLoop", c) => Covered(c) \/ c \in held[io[c]]

CoverInv == refs \subseteq escaped /\ \A c \in Conns \ escaped : Cover(c)

\* What the user does to its pointers.
Escaping == escaped \subseteq escaped' /\ refs' \subseteq escaped'

-----------------------------------------------------------------------------
(***************************************************************************)
(* Queues                                                                  *)
(***************************************************************************)
LEMMA HasEmpty == (\A op, c : ~Has(<<>>, op, c)) /\ InTurn(<<>>)
  BY DEF Has, InTurn

LEMMA HasAppend ==
    ASSUME NEW T, NEW q \in Seq(T), NEW t \in T
    PROVE  /\ Append(q, t) \in Seq(T)
           /\ \A op, c : Has(Append(q, t), op, c) <=> Has(q, op, c) \/ (t[1] = op /\ t[2] = c)
<1> DEFINE p == Append(q, t)
<1>1. /\ Len(q) \in Nat /\ DOMAIN q = 1..Len(q) /\ DOMAIN p = 1..(Len(q) + 1) /\ p \in Seq(T)
      /\ p[Len(q) + 1] = t /\ \A i \in 1..Len(q) : p[i] = q[i]
  OBVIOUS
<1> HIDE DEF p
<1>2. Len(q) + 1 \in DOMAIN p /\ \A i \in DOMAIN q : i \in DOMAIN p /\ p[i] = q[i]
  BY <1>1
<1>3. \A i \in DOMAIN p : i \in DOMAIN q \/ i = Len(q) + 1
  BY <1>1
<1>4. \A op, c : Has(p, op, c) <=> Has(q, op, c) \/ (t[1] = op /\ t[2] = c)
  BY <1>1, <1>2, <1>3 DEF Has
<1>5. QED
  BY <1>1, <1>4 DEF p

LEMMA TurnAppend ==
    ASSUME NEW T, NEW q \in Seq(T), NEW t \in T, InTurn(q),
           t[1] \in OnceOps => ~Has(q, t[1], t[2]),
           t[1] = "connectEstablished" => ~Has(q, "connectDestroyed", t[2])
    PROVE  InTurn(Append(q, t))
<1> DEFINE p == Append(q, t)
<1>1. /\ Len(q) \in Nat /\ DOMAIN q = 1..Len(q) /\ DOMAIN p = 1..(Len(q) + 1)
      /\ p[Len(q) + 1] = t /\ \A i \in 1..Len(q) : p[i] = q[i]
  OBVIOUS
<1> HIDE DEF p
<1>2. SUFFICES ASSUME NEW i \in DOMAIN p, NEW j \in DOMAIN p, i < j, p[i][2] = p[j][2], p[i][1] \in OnceOps
               PROVE  p[i][1] # p[j][1] /\ ~(p[i][1] = "connectDestroyed" /\ p[j][1] = "connectEstablished")
  BY DEF InTurn, p
<1>3. i \in DOMAIN q /\ p[i] = q[i]
  BY <1>1, <1>2
<1>4. CASE j \in DOMAIN q
  <2>1. p[j] = q[j]
    BY <1>1, <1>4
  <2>2. QED
    BY <1>2, <1>3, <1>4, <2>1 DEF InTurn
<1>5. CASE j = Len(q) + 1
  <2>1. p[j] = t
    BY <1>1, <1>5
  <2>2. Has(q, p[i][1], t[2])
    BY <1>2, <1>3, <2>1 DEF Has
  <2>3. QED
    BY <1>2, <2>1, <2>2
<1>6. QED
  BY <1>1, <1>4, <1>5

LEMMA HasTail ==
    ASSUME NEW T, NEW q \in Seq(T), q # <<>>
    PROVE  /\ Tail(q) \in Seq(T) /\ Head(q) \in T
           /\ \A op, c : Has(q, op, c) <=> Has(Tail(q), op, c) \/ (Head(q)[1] = op /\ Head(q)[2] = c)
           /\ InTurn(q) =>
                /\ InTurn(Tail(q))
                /\ Head(q)[1] \in OnceOps => ~Has(Tail(q), Head(q)[1], Head(q)[2])
                /\ Head(q)[1] = "connectDestroyed" => ~Has(Tail(q), "connectEstablished", Head(q)[2])
<1> DEFINE p == Tail(q)
<1>1. /\ p \in Seq(T) /\ Head(q) \in T /\ Len(q) \in Nat /\ Len(q) > 0
      /\ DOMAIN q = 1..Len(q) /\ DOMAIN p = 1..(Len(q) - 1)
      /\ Head(q) = q[1] /\ \A i \in 1..(Len(q) - 1) : p[i] = q[i + 1]
  OBVIOUS
<1> HIDE DEF p
<1>2. \A i \in DOMAIN p : i + 1 \in DOMAIN q /\ 1 < i + 1 /\ p[i] = q[i + 1]
  BY <1>1
<1>3. 1 \in DOMAIN q /\ \A i \in DOMAIN q : i # 1 => i - 1 \in DOMAIN p /\ p[i - 1] = q[i]
  <2>1. \A i \in DOMAIN q : i # 1 => i - 1 \in 1..(Len(q) - 1) /\ (i - 1) + 1 = i
    BY <1>1
  <2>2. QED
    BY <1>1, <2>1
<1>4. \A op, c : Has(q, op, c) <=> Has(p, op, c) \/ (Head(q)[1] = op /\ Head(q)[2] = c)
  BY <1>1, <1>2, <1>3 DEF Has
<1>5. ASSUME InTurn(q) PROVE InTurn(p)
  <2>1. SUFFICES ASSUME NEW i \in DOMAIN p, NEW j \in DOMAIN p, i < j, p[i][2] = p[j][2], p[i][1] \in OnceOps
                 PROVE  p[i][1] # p[j][1] /\ ~(p[i][1] = "connectDestroyed" /\ p[j][1] = "connectEstablished")
    BY DEF InTurn
  <2>2. i + 1 < j + 1
    BY <1>1, <2>1
  <2>3. QED
    BY <1>2, <1>5, <2>1, <2>2 DEF InTurn
<1>6. ASSUME InTurn(q), NEW op, Has(p, op, q[1][2]), q[1][1] \in OnceOps
      PROVE  q[1][1] # op /\ ~(q[1][1] = "connectDestroyed" /\ op = "connectEstablished")
  <2>1. PICK i \in DOMAIN p : p[i][1] = op /\ p[i][2] = q[1][2]
    BY <1>6 DEF Has
  <2>2. QED
    BY <1>2, <1>3, <1>6, <2>1 DEF InTurn
<1>7. InTurn(q) =>
        /\ q[1][1] \in OnceOps => ~Has(p, q[1][1], q[1][2])
        /\ q[1][1] = "connectDestroyed" => ~Has(p, "connectEstablished", q[1][2])
  BY <1>6 DEF OnceOps
<1>8. QED
  BY <1>1, <1>4, <1>5, <1>7 DEF p

LEMMA SharedInIs == ASSUME NEW q PROVE \A c : c \in SharedIn(q) <=> \E op \in SharedOps : Has(q, op, c)
  BY DEF SharedIn, Has

\* Queueing a task, and taking one out of the batch.
LEMMA PushEffect ==
    ASSUME TypeOK, NEW l \in Loops, NEW op \in Ops, NEW c \in Conns \cup {NoConn}, NEW n \in Nat,
           c = NoConn <=> op = "listen", Push(l, op, c, n)
    PROVE  /\ queue' \in [Loops -> Seq(Tasks)]
           /\ \A k \in Loops : \A o, m : InQueue(k, o, m)' <=> InQueue(k, o, m) \/ (k = l /\ o = op /\ m = c)
           /\ /\ op \in OnceOps => ~InQueue(l, op, c)
              /\ op = "connectEstablished" => ~InQueue(l, "connectDestroyed", c)
              /\ \A k \in Loops : InTurn(queue[k])
              => \A k \in Loops : InTurn(queue'[k])
<1>1. PICK t : t = <<op, c, n>>
  OBVIOUS
<1>2. t \in Tasks /\ t[1] = op /\ t[2] = c
  BY <1>1 DEF Tasks
<1>3. queue \in [Loops -> Seq(Tasks)] /\ queue' = [queue EXCEPT ![l] = Append(@, t)]
  BY <1>1 DEF TypeOK, Push
<1>4. PICK q : q = queue[l]
  OBVIOUS
<1>5. q \in Seq(Tasks)
  BY <1>3, <1>4
<1>6. queue'[l] = Append(q, t) /\ \A k \in Loops : k # l => queue'[k] = queue[k]
  BY <1>3, <1>4
<1>7. /\ Append(q, t) \in Seq(Tasks)
      /\ \A o, m : Has(Append(q, t), o, m) <=> Has(q, o, m) \/ (t[1] = o /\ t[2] = m)
  BY <1>2, <1>5, HasAppend
<1>8. queue' \in [Loops -> Seq(Tasks)]
  <2>1. DOMAIN queue' = Loops /\ \A k \in Loops : queue'[k] \in Seq(Tasks)
    BY <1>3, <1>6, <1>7
  <2>2. QED
    BY <1>3, <2>1
<1>9. ASSUME NEW k \in Loops, NEW o, NEW m
      PROVE  InQueue(k, o, m)' <=> InQueue(k, o, m) \/ (k = l /\ o = op /\ m = c)
  <2>1. CASE k = l
    BY <1>2, <1>4, <1>6, <1>7, <2>1, ZenonT(60) DEF InQueue
  <2>2. CASE k # l
    BY <1>6, <2>2 DEF InQueue
  <2>3. QED
    BY <2>1, <2>2
<1>10. ASSUME op \in OnceOps => ~InQueue(l, op, c),
              op = "connectEstablished" => ~InQueue(l, "connectDestroyed", c),
              \A k \in Loops : InTurn(queue[k]),
              NEW k \in Loops
       PROVE  InTurn(queue'[k])
  <2>1. InTurn(Append(q, t))
    BY <1>2, <1>4, <1>5, <1>10, TurnAppend DEF InQueue
  <2>2. QED
    BY <1>6, <1>10, <2>1
<1>11. QED
  BY <1>8, <1>9, <1>10

LEMMA TakeEffect ==
    ASSUME TypeOK, \A k \in Loops : LoopOK(k), NEW l \in Loops, NEW op \in Ops, Take(l, op),
           NEW c, c = Arg(l)
    PROVE  /\ phase[l] = "tasks" /\ cb[l] = NoConn /\ (l = Main => server # "destroying")
           /\ c \in Conns \cup {NoConn} /\ (c = NoConn <=> op = "listen") /\ Num(l) \in Nat
           /\ batch' \in [Loops -> Seq(Tasks)]
           /\ \A k \in Loops : \A o, m : InBatch(k, o, m) <=> InBatch(k, o, m)' \/ (k = l /\ o = op /\ m = c)
           /\ op \in OnceOps => ~InBatch(l, op, c)'
           /\ op = "connectDestroyed" => ~InBatch(l, "connectEstablished", c)
           /\ \A k \in Loops : InTurn(batch'[k])
           /\ \A k \in Loops : phase[k] = "events" => batch'[k] = <<>>
<1>1. /\ batch \in [Loops -> Seq(Tasks)] /\ batch[l] # <<>> /\ phase[l] = "tasks" /\ cb[l] = NoConn
      /\ batch' = [batch EXCEPT ![l] = Tail(@)] /\ (l = Main => server # "destroying")
  BY DEF TypeOK, Take, TaskReady, Idle
<1>2. PICK q : q = batch[l]
  OBVIOUS
<1>3. q \in Seq(Tasks) /\ q # <<>> /\ InTurn(q)
  BY <1>1, <1>2 DEF LoopOK
<1>4. /\ Tail(q) \in Seq(Tasks) /\ Head(q) \in Tasks
      /\ \A o, m : Has(q, o, m) <=> Has(Tail(q), o, m) \/ (Head(q)[1] = o /\ Head(q)[2] = m)
      /\ InTurn(Tail(q))
      /\ Head(q)[1] \in OnceOps => ~Has(Tail(q), Head(q)[1], Head(q)[2])
      /\ Head(q)[1] = "connectDestroyed" => ~Has(Tail(q), "connectEstablished", Head(q)[2])
  BY <1>3, HasTail
<1>5. Head(q)[1] = op /\ Head(q)[2] = c /\ Head(q)[3] = Num(l)
  BY <1>2 DEF Take, Op, Arg, Num
<1>6. c \in Conns \cup {NoConn} /\ (c = NoConn <=> op = "listen") /\ Num(l) \in Nat
  BY <1>4, <1>5 DEF Tasks
<1>7. batch'[l] = Tail(q) /\ \A k \in Loops : k # l => batch'[k] = batch[k]
  BY <1>1, <1>2
<1>8. batch' \in [Loops -> Seq(Tasks)]
  <2>1. DOMAIN batch' = Loops /\ \A k \in Loops : batch'[k] \in Seq(Tasks)
    BY <1>1, <1>4, <1>7
  <2>2. QED
    BY <1>1, <2>1
<1>9. ASSUME NEW k \in Loops, NEW o, NEW m
      PROVE  InBatch(k, o, m) <=> InBatch(k, o, m)' \/ (k = l /\ o = op /\ m = c)
  <2>1. CASE k = l
    BY <1>2, <1>4, <1>5, <1>7, <2>1 DEF InBatch
  <2>2. CASE k # l
    BY <1>7, <2>2 DEF InBatch
  <2>3. QED
    BY <2>1, <2>2
<1>10. op \in OnceOps => ~InBatch(l, op, c)'
  BY <1>4, <1>5, <1>7 DEF InBatch
<1>11. op = "connectDestroyed" => ~InBatch(l, "connectEstablished", c)
  BY <1>2, <1>4, <1>5 DEF InBatch
<1>12. \A k \in Loops : InTurn(batch'[k])
  BY <1>4, <1>7 DEF LoopOK
<1>13. \A k \in Loops : phase[k] = "events" => batch'[k] = <<>>
  BY <1>1, <1>7 DEF LoopOK
<1>14. QED
  BY <1>1, <1>6, <1>8, <1>9, <1>10, <1>11, <1>12, <1>13

LEMMA SameTasks ==
    /\ queue' = queue => \A l, o, m : InQueue(l, o, m)' <=> InQueue(l, o, m)
    /\ batch' = batch => \A l, o, m : InBatch(l, o, m)' <=> InBatch(l, o, m)
  BY DEF InQueue, InBatch

-----------------------------------------------------------------------------
(***************************************************************************)
(* Steps that change nothing in the life of a connection                   *)
(***************************************************************************)
\* Its stage stays; its other tasks, its callbacks and its events come and go
\* where they belong.
Unmoved(c) ==
    /\ state'[c] = state[c] \/ (Open(c) /\ Open(c)')
    /\ registered'[c] <=> registered[c]
    /\ ups'[c] = ups[c] /\ downs'[c] = downs[c] /\ io'[c] = io[c]
    /\ c \in accepted' <=> c \in accepted
    /\ c \in connections' <=> c \in connections
    /\ "read" \in events[c] => "read" \in events'[c]
    /\ events[c] = {} => events'[c] = {}
    /\ server' = "up" => server = "up"
    /\ failed' = "none" => failed = "none"
    /\ c \in refs' => c \in accepted

UnmovedTasks(c) ==
    /\ \A l \in Loops, op \in OnceOps : Pending(l, op, c)' <=> Pending(l, op, c)
    /\ \A l \in Loops, op \in Ops \ OnceOps :
         Pending(l, op, c)' => Pending(l, op, c) \/ (c \in accepted /\ l = io[c])
    /\ Once(c)'

UnmovedLoops(c) ==
    /\ \A l \in Loops, next \in {"closeCallback", "removeChannel"} :
         cb'[l] = c /\ then'[l] = next <=> cb[l] = c /\ then[l] = next
    /\ \A l \in Loops : cb'[l] = c => c \in accepted /\ l = io[c]
    /\ \A l \in Loops, kind \in Kinds :
         <<c, kind>> \in active'[l] =>
           \/ <<c, kind>> \in active[l]
           \/ c \in accepted /\ l = io[c] /\ (kind = "read" => Open(c))

LEMMA KeepsLife ==
    ASSUME TypeOK, NEW c \in Conns, ConnOK(c), Unmoved(c), UnmovedTasks(c), UnmovedLoops(c)
    PROVE  ConnOK(c)'
<1>0. io[c] \in Loops /\ Main \in Loops /\ io'[c] = io[c]
  BY DEF TypeOK, Loops, Unmoved
<1>1. \A l \in Loops, op \in OnceOps : Pending(l, op, c)' <=> Pending(l, op, c)
  BY DEF UnmovedTasks
<1>2. /\ Arriving(c)' <=> Arriving(c)
      /\ Removal(c)' <=> Removal(c)
      /\ Destruction(c)' <=> Destruction(c)
  <2>1. {"connectEstablished", "removeConnectionInLoop", "connectDestroyed"} = OnceOps
    BY DEF OnceOps
  <2>2. QED
    BY <1>0, <1>1, <2>1 DEF Arriving, Removal, Destruction
<1>3. (Closing(c)' <=> Closing(c)) /\ (Removing(c)' <=> Removing(c)) /\ (Dying(c)' <=> Dying(c))
  BY <1>0, <1>2 DEF Closing, Removing, InCallback, UnmovedLoops, Dying
<1>4. Where(c)'
  <2>1. ASSUME NEW l \in Loops, NEW op \in Ops, Pending(l, op, c)'
        PROVE  /\ c \in accepted'
               /\ IF op = "removeConnectionInLoop" THEN l = Main /\ io'[c] # Main ELSE l = io'[c]
    <3>1. CASE op \in OnceOps
      BY <1>0, <1>1, <2>1, <3>1 DEF ConnOK, Where, Unmoved
    <3>2. CASE op \notin OnceOps
      <4>1. op # "removeConnectionInLoop"
        BY <3>2 DEF OnceOps
      <4>2. QED
        BY <1>0, <2>1, <3>2, <4>1 DEF ConnOK, Where, Unmoved, UnmovedTasks
    <3>3. QED
      BY <3>1, <3>2
  <2>2. ASSUME NEW l \in Loops, NEW kind \in Kinds, cb'[l] = c \/ <<c, kind>> \in active'[l]
        PROVE  c \in accepted' /\ l = io'[c]
    BY <1>0, <2>2 DEF ConnOK, Where, Unmoved, UnmovedLoops
  <2>3. c \in connections' \cup refs' => c \in accepted'
    BY DEF ConnOK, Where, Unmoved
  <2>4. QED
    BY <2>1, <2>2, <2>3 DEF Where
<1>5. Once(c)'
  BY DEF UnmovedTasks
<1>6. Stage(c)'
  <2>1. (Open(c)' <=> Open(c)) /\ \A s \in {"none", "kConnecting", "kDisconnected"} : state'[c] = s <=> state[c] = s
    BY DEF Unmoved, Open
  <2>2. "read" \in Kinds
    BY DEF Kinds
  <2>3. \A l \in Loops : <<c, "read">> \in active'[l] => Open(c)'
    BY <2>1, <2>2 DEF UnmovedLoops, ConnOK, Stage
  <2>4. QED
    BY <1>0, <1>2, <2>1, <2>3 DEF ConnOK, Stage, Unmoved
<1>7. Leaving(c)'
  <2>1. state'[c] = "kDisconnected" <=> state[c] = "kDisconnected"
    BY DEF Unmoved, Open
  <2>2. QED
    BY <1>0, <1>2, <1>3, <2>1 DEF ConnOK, Leaving, Unmoved
<1>8. QED
  BY <1>4, <1>5, <1>6, <1>7 DEF ConnOK

\* The parts of it, for what most steps leave alone.
LEMMA SameConn ==
    ASSUME NEW c \in Conns, ConnOK(c), UNCHANGED <<serverVars, connVars, refs, failed>>
    PROVE  Unmoved(c)
  BY DEF Unmoved, serverVars, connVars, ConnOK, Where

LEMMA QuietTasks ==
    ASSUME NEW c \in Conns, ConnOK(c), held' = held,
           \A l \in Loops : \A op : InQueue(l, op, c) => InQueue(l, op, c)',
           \A l \in Loops : \A op : InQueue(l, op, c)' =>
             InQueue(l, op, c) \/ (op \notin OnceOps /\ c \in accepted /\ l = io[c]),
           \A l \in Loops : \A op : InBatch(l, op, c)' => InBatch(l, op, c),
           \A l \in Loops : \A op \in OnceOps : InBatch(l, op, c) => InBatch(l, op, c)'
    PROVE  UnmovedTasks(c)
<1>1. \A op \in {"connectEstablished", "connectDestroyed"} : op \in OnceOps
  BY DEF OnceOps
<1>2. Once(c)'
  BY <1>1 DEF ConnOK, Once
<1>3. QED
  BY <1>2 DEF UnmovedTasks, Pending

LEMMA SameQueues ==
    ASSUME NEW c \in Conns, ConnOK(c), UNCHANGED <<queue, batch, held>>
    PROVE  UnmovedTasks(c)
  BY SameTasks, QuietTasks

LEMMA SameLoops ==
    ASSUME NEW c \in Conns, ConnOK(c), UNCHANGED <<active, cb, then>>
    PROVE  UnmovedLoops(c)
  BY DEF UnmovedLoops, ConnOK, Where, Kinds

LEMMA QuietStep ==
    ASSUME LifeInv, TypeOK', ServerOK', \A l \in Loops : LoopOK(l)',
           \A c \in Conns : Unmoved(c) /\ UnmovedTasks(c) /\ UnmovedLoops(c)
    PROVE  LifeInv'
  BY KeepsLife DEF LifeInv

\* The peer, the pointers of the user, and a task that dangles
LEMMA AsideStep ==
    ASSUME LifeInv,
           UNCHANGED <<serverVars, connVars, loopVars, asked, failed>>,
           refs' \subseteq Conns, \A c \in refs' : c \in refs \/ \E l \in Loops : cb[l] = c,
           peer' \in [Conns -> {"open", "closed", "reset", "resetRead"}]
    PROVE  LifeInv'
<1>1. \A c \in Conns : c \in refs' => c \in accepted
  BY DEF LifeInv, ConnOK, Where, Kinds
<1>2. TypeOK'
  BY DEF LifeInv, TypeOK, serverVars, connVars, loopVars
<1>3. ServerOK' /\ \A l \in Loops : LoopOK(l)'
  BY DEF LifeInv, ServerOK, LoopOK, serverVars, loopVars
<1>4. ASSUME NEW c \in Conns PROVE Unmoved(c) /\ UnmovedTasks(c) /\ UnmovedLoops(c)
  <2>1. Unmoved(c)
    BY <1>1 DEF Unmoved, serverVars, connVars
  <2>2. QED
    BY <2>1, SameQueues, SameLoops DEF LifeInv, loopVars
<1>5. QED
  BY <1>2, <1>3, <1>4, QuietStep

LEMMA PeerStep == ASSUME LifeInv, Peer PROVE LifeInv'
<1>1. PICK c \in Conns : PeerSends(c) \/ PeerCloses(c) \/ PeerResets(c)
  BY DEF Peer
<1>2. UNCHANGED <<serverVars, connVars, loopVars, asked, failed>> /\ refs' = refs
  BY <1>1 DEF PeerSends, PeerCloses, PeerResets, PeerFrame, userVars, errVars
<1>3. peer' \in [Conns -> {"open", "closed", "reset", "resetRead"}]
  BY <1>1, ZenonT(60) DEF PeerSends, PeerCloses, PeerResets, LifeInv, TypeOK
<1>4. refs' \subseteq Conns
  BY <1>2 DEF LifeInv, TypeOK
<1>5. QED
  BY <1>2, <1>3, <1>4, AsideStep

LEMMA RefStep ==
    ASSUME LifeInv, (\E l \in Loops : KeepRef(l)) \/ (\E c \in Conns : DropRef(c)) PROVE LifeInv'
<1>1. UNCHANGED <<serverVars, connVars, loopVars, asked, failed>> /\ peer' = peer
  BY DEF KeepRef, DropRef, errVars, peerVars
<1>2. refs' \subseteq Conns /\ \A c \in refs' : c \in refs \/ \E l \in Loops : cb[l] = c
  BY DEF KeepRef, DropRef, LifeInv, TypeOK
<1>3. peer' \in [Conns -> {"open", "closed", "reset", "resetRead"}]
  BY <1>1 DEF LifeInv, TypeOK
<1>4. QED
  BY <1>1, <1>2, <1>3, AsideStep

LEMMA DanglesStep == ASSUME LifeInv, NEW l \in Loops, TaskDangles(l) PROVE LifeInv' /\ failed' = failed
<1>1. UNCHANGED <<serverVars, connVars, loopVars, asked, failed>> /\ peer' = peer /\ refs' = refs
  BY DEF TaskDangles, userVars, peerVars
<1>2. refs' \subseteq Conns /\ peer' \in [Conns -> {"open", "closed", "reset", "resetRead"}]
  BY <1>1 DEF LifeInv, TypeOK
<1>3. QED
  BY <1>1, <1>2, AsideStep

LEMMA BeginEndStep ==
    ASSUME LifeInv, failed = "none", BeginDestroy \/ EndDestroy PROVE LifeInv' /\ OnlyThese'
<1>1. /\ UNCHANGED <<listening, connections, io, accepted, connVars, peer, loopVars, refs, asked>>
      /\ server' \in {"up", "destroying", "gone"} /\ (server' = "up" => server = "up")
      /\ failed' = "none" \/ (failed' = "~TcpServer" /\ server' = "up")
  BY DEF BeginDestroy, EndDestroy, AssertThat, userVars, errVars, peerVars
<1>2. TypeOK'
  BY <1>1 DEF LifeInv, TypeOK, connVars, loopVars
<1>3. ServerOK'
  BY <1>1 DEF BeginDestroy, EndDestroy, LifeInv, ServerOK, Idle, loopVars
<1>4. \A l \in Loops : LoopOK(l)'
  BY <1>1 DEF LifeInv, LoopOK, loopVars
<1>5. ASSUME NEW c \in Conns PROVE Unmoved(c) /\ UnmovedTasks(c) /\ UnmovedLoops(c)
  <2>1. Unmoved(c)
    BY <1>1 DEF Unmoved, connVars, LifeInv, ConnOK, Where
  <2>2. QED
    BY <1>1, <2>1, SameQueues, SameLoops DEF LifeInv, loopVars
<1>6. QED
  BY <1>1, <1>2, <1>3, <1>4, <1>5, QuietStep DEF OnlyThese

\* epoll_wait reports the channels of connections that are up, only.
LEMMA PollStep == ASSUME LifeInv, NEW l \in Loops, Poll(l) PROVE LifeInv' /\ failed' = failed
<1>1. /\ UNCHANGED <<serverVars, connVars, peer, queue, batch, cb, then, refs, asked, failed>>
      /\ batch[l] = <<>> /\ (l = Main => server # "destroying")
  BY DEF Poll, userVars, errVars, peerVars, Idle
<1>2. /\ phase' \in [Loops -> {"tasks", "events"}] /\ phase'[l] = "events"
      /\ \A k \in Loops : k # l => phase'[k] = phase[k]
  BY DEF Poll, LifeInv, TypeOK
<1>3. /\ held' \in [Loops -> SUBSET (Conns \cup {NoConn})]
      /\ \A k \in Loops : k # l => held'[k] = held[k]
  BY DEF Poll, LifeInv, TypeOK
<1>4. PICK W \in SUBSET Writers(l) : active' = [active EXCEPT ![l] = (Readers(l) \X {"read"}) \cup (W \X {"write"})]
  BY DEF Poll
<1>5. PICK A : A = (Readers(l) \X {"read"}) \cup (W \X {"write"})
  OBVIOUS
<1>6. /\ A \in SUBSET (Conns \X Kinds)
      /\ \A c, kind : <<c, kind>> \in A => c \in Conns /\ registered[c] /\ io[c] = l
      /\ \A c : <<c, "read">> \in A => "read" \in events[c]
  BY <1>5 DEF Readers, Writers, Readable, Kinds
<1>7. /\ active' \in [Loops -> SUBSET (Conns \X Kinds)] /\ active'[l] = A
      /\ \A k \in Loops : k # l => active'[k] = active[k]
  BY <1>4, <1>5, <1>6 DEF LifeInv, TypeOK
<1>8. TypeOK'
  BY <1>1, <1>2, <1>3, <1>7 DEF LifeInv, TypeOK, serverVars, connVars
<1>9. ServerOK'
  BY <1>1, <1>2 DEF LifeInv, ServerOK, serverVars, Loops
<1>10. \A k \in Loops : LoopOK(k)'
  BY <1>1, <1>2, <1>7 DEF LifeInv, LoopOK
<1>11. ASSUME NEW c \in Conns PROVE Unmoved(c) /\ UnmovedTasks(c) /\ UnmovedLoops(c)
  <2>0. ConnOK(c) /\ state[c] \in States
    BY DEF LifeInv, TypeOK
  <2>1. Unmoved(c)
    BY <1>1, <2>0, SameConn
  <2>2. UnmovedTasks(c)
    <3>1. \A op : ~InBatch(l, op, c)
      BY <1>1, HasEmpty DEF InBatch
    <3>2. Once(c)'
      BY <1>1, <1>3, <2>0, <3>1, SameTasks DEF ConnOK, Once
    <3>3. QED
      BY <1>1, <3>2, SameTasks DEF UnmovedTasks, Pending
  <2>3. registered[c] => c \in accepted
    BY <2>0 DEF ConnOK, Stage
  <2>4. "read" \in events[c] => Open(c)
    BY <2>0 DEF ConnOK, Stage, Open, States
  <2>5. UnmovedLoops(c)
    BY <1>1, <1>6, <1>7, <2>0, <2>3, <2>4 DEF UnmovedLoops, ConnOK, Where, Kinds
  <2>6. QED
    BY <2>1, <2>2, <2>5
<1>12. QED
  BY <1>1, <1>8, <1>9, <1>10, <1>11, QuietStep

-----------------------------------------------------------------------------
(***************************************************************************)
(* Calls of the user: a task is queued in the loop of the connection, or   *)
(* its body is run.                                                        *)
(***************************************************************************)
LEMMA StartStep ==
    ASSUME LifeInv, failed = "none", Start PROVE LifeInv' /\ failed' \in {"none", "addChannel"}
<1>1. /\ UNCHANGED <<server, connections, io, accepted, connVars, peer, phase, batch, held, active, cb, then,
                     refs, asked>>
      /\ listening' \in BOOLEAN
      /\ failed' \in {"none", "addChannel"}
  BY DEF Start, Listen, AssertThat, userVars, peerVars, serverVars, LifeInv, TypeOK
<1>2. queue' = queue \/ Push(Main, "listen", NoConn, 0)
  BY DEF Start
<1>3. /\ queue' \in [Loops -> Seq(Tasks)]
      /\ \A k \in Loops : \A o, m : InQueue(k, o, m)' <=> InQueue(k, o, m) \/ (InQueue(k, o, m)' /\ m = NoConn)
      /\ \A k \in Loops : InTurn(queue'[k])
  <2>1. TypeOK /\ \A k \in Loops : InTurn(queue[k])
    BY DEF LifeInv, LoopOK
  <2>2. CASE queue' = queue
    BY <2>1, <2>2, SameTasks DEF TypeOK
  <2>3. CASE Push(Main, "listen", NoConn, 0)
    <3>1. "listen" \in Ops /\ "listen" \notin OnceOps /\ Main \in Loops
      BY DEF Ops, OnceOps, Loops
    <3>2. QED
      BY <2>1, <2>3, <3>1, PushEffect
  <2>4. QED
    BY <1>2, <2>2, <2>3
<1>4. TypeOK'
  BY <1>1, <1>3 DEF LifeInv, TypeOK, connVars
<1>5. ServerOK' /\ \A l \in Loops : LoopOK(l)'
  BY <1>1, <1>3 DEF LifeInv, ServerOK, LoopOK
<1>6. ASSUME NEW c \in Conns PROVE Unmoved(c) /\ UnmovedTasks(c) /\ UnmovedLoops(c)
  <2>0. ConnOK(c) /\ c # NoConn
    BY DEF LifeInv
  <2>1. Unmoved(c)
    BY <1>1, <2>0 DEF Unmoved, connVars, ConnOK, Where
  <2>2. UnmovedTasks(c)
    BY <1>1, <1>3, <2>0, SameTasks, QuietTasks
  <2>3. QED
    BY <1>1, <2>0, <2>1, <2>2, SameLoops
<1>7. QED
  BY <1>1, <1>4, <1>5, <1>6, QuietStep

\* A task of the user that is queued in the loop of the connection.
LEMMA PushOwnStep ==
    ASSUME LifeInv, NEW c \in Conns, c \in accepted, NEW n \in Nat, NEW op \in Ops \ OnceOps, op # "listen",
           Push(io[c], op, c, n),
           UNCHANGED <<serverVars, connVars, peer, phase, batch, held, active, cb, then, refs, failed>>,
           asked' \in [Conns -> Nat]
    PROVE  LifeInv'
<1>1. io[c] \in Loops /\ TypeOK /\ c # NoConn /\ \A k \in Loops : InTurn(queue[k])
  BY DEF LifeInv, TypeOK, LoopOK
<1>2. /\ queue' \in [Loops -> Seq(Tasks)]
      /\ \A k \in Loops : \A o, m : InQueue(k, o, m)' <=> InQueue(k, o, m) \/ (k = io[c] /\ o = op /\ m = c)
      /\ \A k \in Loops : InTurn(queue'[k])
  <2>1. op \in Ops /\ op \notin OnceOps /\ op # "connectEstablished"
    BY DEF OnceOps
  <2>2. PICK l \in Loops : l = io[c]
    BY <1>1
  <2>3. Push(l, op, c, n)
    BY <2>2
  <2>4. QED
    BY <1>1, <2>1, <2>2, <2>3, PushEffect
<1>3. TypeOK'
  BY <1>2 DEF LifeInv, TypeOK, serverVars, connVars
<1>4. ServerOK' /\ \A l \in Loops : LoopOK(l)'
  BY <1>2 DEF LifeInv, ServerOK, LoopOK, serverVars
<1>5. ASSUME NEW m \in Conns PROVE Unmoved(m) /\ UnmovedTasks(m) /\ UnmovedLoops(m)
  <2>0. ConnOK(m)
    BY DEF LifeInv
  <2>1. UnmovedTasks(m)
    BY <1>2, <2>0, SameTasks, QuietTasks
  <2>2. QED
    BY <2>0, <2>1, SameConn, SameLoops
<1>6. QED
  BY <1>3, <1>4, <1>5, QuietStep

\* What sendInLoop and shutdownInLoop do to a connection, and to the others.
LEMMA SendInLoopEffect ==
    ASSUME TypeOK, NEW c \in Conns, ConnOK(c), NEW n, SendInLoop(io[c], c, n)
    PROVE  /\ UNCHANGED <<state, registered, ups, downs, failed>>
           /\ events' \in [Conns -> SUBSET Kinds]
           /\ \A m \in Conns : /\ "read" \in events[m] => "read" \in events'[m]
                               /\ events[m] = {} => events'[m] = {}
<1>1. UNCHANGED <<state, registered, ups, downs, failed>> /\ events \in [Conns -> SUBSET Kinds]
  BY DEF SendInLoop, AssertInLoop, AssertThat, TypeOK
<1>2. CASE state[c] = "kConnected"
  <2>1. events' = [events EXCEPT ![c] = @ \cup {"write"}]
    BY <1>2 DEF SendInLoop
  <2>2. events[c] # {}
    BY <1>2 DEF ConnOK, Stage, Open
  <2>3. QED
    BY <1>1, <2>1, <2>2 DEF Kinds
<1>3. CASE state[c] # "kConnected"
  BY <1>1, <1>3 DEF SendInLoop
<1>4. QED
  BY <1>2, <1>3

FailsShutdown(c) ==
    /\ failed' = "shutdownWrite" /\ IsReset(c) /\ c \in accepted
    /\ state'[c] = "kDisconnecting" /\ "write" \notin events'[c]

LEMMA ShutdownInLoopEffect ==
    ASSUME TypeOK, NEW c \in Conns, ConnOK(c), failed = "none", ShutdownInLoop(io[c], c)
    PROVE  /\ UNCHANGED <<events, registered, ups, downs>>
           /\ state' \in [Conns -> States]
           /\ \A m \in Conns : state'[m] = state[m] \/ (Open(m) /\ Open(m)')
           /\ failed' = "none" \/ FailsShutdown(c)
<1>1. UNCHANGED <<events, registered, ups, downs>> /\ state \in [Conns -> States]
  BY DEF ShutdownInLoop, TypeOK
<1>2. CASE state[c] = "kConnected"
  <2>1. state' = [state EXCEPT ![c] = "kDisconnecting"]
    BY <1>2 DEF ShutdownInLoop
  <2>2. failed' = "none" \/ (failed' = "shutdownWrite" /\ IsReset(c) /\ "write" \notin events[c])
    BY <1>2 DEF ShutdownInLoop, ShutdownWrite, AssertAlso, AssertThat
  <2>3. c \in accepted /\ state'[c] = "kDisconnecting"
    BY <1>1, <1>2, <2>1 DEF ConnOK, Stage
  <2>4. state' \in [Conns -> States] /\ \A m \in Conns : state'[m] = state[m] \/ (Open(m) /\ Open(m)')
    BY <1>1, <1>2, <2>1 DEF States, Open
  <2>5. QED
    BY <1>1, <2>2, <2>3, <2>4 DEF FailsShutdown
<1>3. CASE state[c] # "kConnected"
  BY <1>1, <1>3 DEF ShutdownInLoop, AssertInLoop, AssertThat
<1>4. QED
  BY <1>2, <1>3

\* A body that keeps the connection in its stage.
LEMMA BodyStep ==
    ASSUME LifeInv,
           UNCHANGED <<server, connections, io, accepted, registered, ups, downs, peer, phase, queue, held,
                       active, cb, then, refs>>,
           failed = "none", listening' \in BOOLEAN, asked' \in [Conns -> Nat], events' \in [Conns -> SUBSET Kinds],
           state' \in [Conns -> States],
           \A m \in Conns : state'[m] = state[m] \/ (Open(m) /\ Open(m)'),
           \A m \in Conns : /\ "read" \in events[m] => "read" \in events'[m]
                            /\ events[m] = {} => events'[m] = {},
           batch' \in [Loops -> Seq(Tasks)],
           \A k \in Loops : InTurn(batch'[k]) /\ (phase[k] = "events" => batch'[k] = <<>>),
           \A k \in Loops : \A op, m : InBatch(k, op, m)' => InBatch(k, op, m),
           \A k \in Loops : \A op \in OnceOps : \A m : InBatch(k, op, m) => InBatch(k, op, m)'
    PROVE  LifeInv'
<1>1. TypeOK'
  BY DEF LifeInv, TypeOK
<1>2. ServerOK' /\ \A l \in Loops : LoopOK(l)'
  BY DEF LifeInv, ServerOK, LoopOK
<1>3. ASSUME NEW m \in Conns PROVE Unmoved(m) /\ UnmovedTasks(m) /\ UnmovedLoops(m)
  <2>0. ConnOK(m)
    BY DEF LifeInv
  <2>1. Unmoved(m)
    BY <2>0 DEF Unmoved, ConnOK, Where
  <2>2. UnmovedTasks(m)
    BY <2>0, SameTasks, QuietTasks
  <2>3. QED
    BY <2>0, <2>1, <2>2, SameLoops
<1>4. QED
  BY <1>1, <1>2, <1>3, QuietStep

LEMMA SameBatch ==
    ASSUME LifeInv, batch' = batch
    PROVE  /\ batch' \in [Loops -> Seq(Tasks)]
           /\ \A k \in Loops : InTurn(batch'[k]) /\ (phase[k] = "events" => batch'[k] = <<>>)
           /\ \A k \in Loops : \A op, m : InBatch(k, op, m)' <=> InBatch(k, op, m)
  BY SameTasks DEF LifeInv, TypeOK, LoopOK

LEMMA CallerKnows == ASSUME LifeInv, NEW by, NEW c \in Conns, NEW name, MayCall(by, c, name) PROVE c \in accepted
  BY DEF LifeInv, ConnOK, Where, MayCall, Kinds

LEMMA CallStep ==
    ASSUME LifeInv, failed = "none", NEW by \in Callers, NEW c \in Conns,
           \/ \E n \in 0..1 : Send(by, c, n)
           \/ Shutdown(by, c) \/ Close(by, c) \/ CloseInNextLoop(by, c)
    PROVE  LifeInv' /\ OnlyThese'
<1>1. c \in accepted
  BY CallerKnows DEF Send, Shutdown, Close, CloseInNextLoop
<1>2. TypeOK /\ ConnOK(c) /\ asked \in [Conns -> Nat]
  BY DEF LifeInv, TypeOK
<1>3. /\ UNCHANGED <<serverVars, peer, phase, batch, held, active, cb, then, refs>>
      /\ UNCHANGED <<server, connections, io, accepted>> /\ listening' \in BOOLEAN
  BY <1>2 DEF Send, Shutdown, Close, CloseInNextLoop, CallFrame, peerVars, serverVars, TypeOK
<1>4. \A op \in {"sendInLoop", "shutdownInLoop", "closeInLoop", "queueClose"} : op \in Ops \ OnceOps /\ op # "listen"
  BY DEF Ops, OnceOps
<1>5. ASSUME NEW n \in 0..1, Send(by, c, n) PROVE LifeInv' /\ failed' = "none"
  <2>1. asked' \in [Conns -> Nat]
    BY <1>2, <1>5 DEF Send
  <2>2. CASE by = io[c]
    <3>1. SendInLoop(io[c], c, n) /\ queue' = queue
      BY <1>5, <2>2 DEF Send
    <3>2. state' \in [Conns -> States] /\ state' = state
      BY <1>2, <3>1 DEF SendInLoop, TypeOK
    <3>3. QED
      BY <1>2, <1>3, <2>1, <3>1, <3>2, SendInLoopEffect, SameBatch, BodyStep
  <2>3. CASE by # io[c]
    <3>1. Push(io[c], "sendInLoop", c, n) /\ UNCHANGED <<connVars, failed>>
      BY <1>5, <2>3 DEF Send
    <3>2. QED
      BY <1>1, <1>3, <1>4, <2>1, <3>1, PushOwnStep
  <2>4. QED
    BY <2>2, <2>3
<1>6. ASSUME Shutdown(by, c) PROVE LifeInv' /\ OnlyThese'
  <2>1. asked' \in [Conns -> Nat]
    BY <1>2, <1>6 DEF Shutdown
  <2>2. CASE by = io[c]
    <3>1. ShutdownInLoop(io[c], c) /\ queue' = queue
      BY <1>6, <2>2 DEF Shutdown
    <3>2. events' \in [Conns -> SUBSET Kinds] /\ events' = events
      BY <1>2, <3>1 DEF ShutdownInLoop, TypeOK
    <3>3. LifeInv'
      BY <1>2, <1>3, <2>1, <3>1, <3>2, ShutdownInLoopEffect, SameBatch, BodyStep
    <3>4. failed' = "none" \/ FailsShutdown(c)
      BY <1>2, <3>1, ShutdownInLoopEffect
    <3>5. QED
      BY <1>3, <3>2, <3>3, <3>4 DEF OnlyThese, FailsShutdown, IsReset, serverVars
  <2>3. CASE by # io[c]
    <3>1. Push(io[c], "shutdownInLoop", c, 0) /\ UNCHANGED <<connVars, failed>>
      BY <1>6, <2>3 DEF Shutdown
    <3>2. QED
      BY <1>1, <1>3, <1>4, <2>1, <3>1, PushOwnStep DEF OnlyThese
  <2>4. QED
    BY <2>2, <2>3
<1>7. ASSUME Close(by, c) \/ CloseInNextLoop(by, c) PROVE LifeInv' /\ failed' = "none"
  <2>1. UNCHANGED <<connVars, asked, failed>>
    BY <1>7 DEF Close, CloseInNextLoop
  <2>2. Push(io[c], "closeInLoop", c, 0) \/ Push(io[c], "queueClose", c, asked[c])
    BY <1>7 DEF Close, CloseInNextLoop
  <2>3. asked[c] \in Nat
    BY <1>2
  <2>4. QED
    BY <1>1, <1>2, <1>3, <1>4, <2>1, <2>2, <2>3, PushOwnStep
<1>8. QED
  BY <1>5, <1>6, <1>7 DEF OnlyThese

-----------------------------------------------------------------------------
(***************************************************************************)
(* Tasks                                                                   *)
(***************************************************************************)
\* The batch after a task that comes more than once in the life of a connection.
LEMMA QuietTake ==
    ASSUME LifeInv, NEW l \in Loops, NEW op \in Ops \ OnceOps, Take(l, op)
    PROVE  /\ batch' \in [Loops -> Seq(Tasks)]
           /\ \A k \in Loops : InTurn(batch'[k]) /\ (phase[k] = "events" => batch'[k] = <<>>)
           /\ \A k \in Loops : \A o, m : InBatch(k, o, m)' => InBatch(k, o, m)
           /\ \A k \in Loops : \A o \in OnceOps : \A m : InBatch(k, o, m) => InBatch(k, o, m)'
<1>1. PICK c : c = Arg(l)
  OBVIOUS
<1>2. TypeOK /\ \A k \in Loops : LoopOK(k)
  BY DEF LifeInv
<1>3. /\ batch' \in [Loops -> Seq(Tasks)]
      /\ \A k \in Loops : \A o, m : InBatch(k, o, m) <=> InBatch(k, o, m)' \/ (k = l /\ o = op /\ m = c)
      /\ \A k \in Loops : InTurn(batch'[k]) /\ (phase[k] = "events" => batch'[k] = <<>>)
  BY <1>1, <1>2, TakeEffect
<1>4. QED
  BY <1>3

\* The connection a task is about
LEMMA TaskConn ==
    ASSUME LifeInv, NEW l \in Loops, NEW op \in Ops \ {"listen"}, Take(l, op)
    PROVE  /\ Arg(l) \in Conns /\ Arg(l) \in accepted /\ Num(l) \in Nat
           /\ InBatch(l, op, Arg(l)) /\ (op # "removeConnectionInLoop" => l = io[Arg(l)])
           /\ cb[l] = NoConn /\ phase[l] = "tasks" /\ (l = Main => server # "destroying")
<1>1. PICK c : c = Arg(l)
  OBVIOUS
<1>2. TypeOK /\ \A k \in Loops : LoopOK(k)
  BY DEF LifeInv
<1>3. /\ c \in Conns \cup {NoConn} /\ (c = NoConn <=> op = "listen") /\ Num(l) \in Nat
      /\ InBatch(l, op, c)
      /\ cb[l] = NoConn /\ phase[l] = "tasks" /\ (l = Main => server # "destroying")
  BY <1>1, <1>2, TakeEffect
<1>4. c \in accepted /\ (op # "removeConnectionInLoop" => l = io[c])
  BY <1>3 DEF LifeInv, ConnOK, Where, Pending
<1>5. QED
  BY <1>1, <1>3, <1>4

LEMMA TaskListenStep ==
    ASSUME LifeInv, failed = "none", NEW l \in Loops, TaskListen(l)
    PROVE  LifeInv' /\ failed' \in {"none", "addChannel"}
<1>1. /\ UNCHANGED <<server, connections, io, accepted, state, events, registered, ups, downs, peer, phase,
                     queue, held, active, cb, then, refs, asked>>
      /\ listening' \in BOOLEAN
      /\ failed' \in {"none", "addChannel"} /\ Take(l, "listen")
  BY DEF TaskListen, Listen, AssertThat, NoCallback, TaskFrame, connVars, peerVars, userVars
<1>2. /\ asked' \in [Conns -> Nat] /\ events' \in [Conns -> SUBSET Kinds] /\ state' \in [Conns -> States]
  BY <1>1 DEF LifeInv, TypeOK
<1>3. "listen" \in Ops \ OnceOps
  BY DEF Ops, OnceOps
<1>4. QED
  BY <1>1, <1>2, <1>3, QuietTake, BodyStep

LEMMA TaskSendStep ==
    ASSUME LifeInv, failed = "none", NEW l \in Loops, TaskSend(l) PROVE LifeInv' /\ failed' = "none"
<1>1. /\ UNCHANGED <<server, connections, io, accepted, listening, peer, phase, queue, held, active, cb, then,
                     refs, asked>>
      /\ SendInLoop(l, Arg(l), Num(l)) /\ Take(l, "sendInLoop")
  BY DEF TaskSend, NoCallback, TaskFrame, serverVars, peerVars, userVars
<1>2. /\ "sendInLoop" \in Ops \ OnceOps /\ "sendInLoop" \in Ops \ {"listen"}
      /\ "sendInLoop" # "removeConnectionInLoop"
  BY DEF Ops, OnceOps
<1>3. PICK c : c = Arg(l)
  OBVIOUS
<1>4. c \in Conns /\ ConnOK(c) /\ TypeOK /\ SendInLoop(io[c], c, Num(l))
  BY <1>1, <1>2, <1>3, TaskConn DEF LifeInv
<1>5. /\ UNCHANGED <<state, registered, ups, downs, failed>> /\ events' \in [Conns -> SUBSET Kinds]
      /\ \A m \in Conns : /\ "read" \in events[m] => "read" \in events'[m]
                          /\ events[m] = {} => events'[m] = {}
  BY <1>4, SendInLoopEffect
<1>6. state' \in [Conns -> States] /\ asked' \in [Conns -> Nat] /\ listening' \in BOOLEAN
  BY <1>1, <1>5 DEF LifeInv, TypeOK
<1>7. QED
  BY <1>1, <1>2, <1>5, <1>6, QuietTake, BodyStep

LEMMA TaskShutdownStep ==
    ASSUME LifeInv, failed = "none", NEW l \in Loops, TaskShutdown(l) PROVE LifeInv' /\ OnlyThese'
<1>1. /\ UNCHANGED <<server, connections, io, accepted, listening, peer, phase, queue, held, active, cb, then,
                     refs, asked>>
      /\ ShutdownInLoop(l, Arg(l)) /\ Take(l, "shutdownInLoop")
  BY DEF TaskShutdown, NoCallback, TaskFrame, serverVars, peerVars, userVars
<1>2. /\ "shutdownInLoop" \in Ops \ OnceOps /\ "shutdownInLoop" \in Ops \ {"listen"}
      /\ "shutdownInLoop" # "removeConnectionInLoop"
  BY DEF Ops, OnceOps
<1>3. PICK c : c = Arg(l)
  OBVIOUS
<1>4. c \in Conns /\ ConnOK(c) /\ TypeOK /\ ShutdownInLoop(io[c], c)
  BY <1>1, <1>2, <1>3, TaskConn DEF LifeInv
<1>5. /\ UNCHANGED <<events, registered, ups, downs>> /\ state' \in [Conns -> States]
      /\ \A m \in Conns : state'[m] = state[m] \/ (Open(m) /\ Open(m)')
      /\ failed' = "none" \/ FailsShutdown(c)
  BY <1>4, ShutdownInLoopEffect
<1>6. events' \in [Conns -> SUBSET Kinds] /\ asked' \in [Conns -> Nat] /\ listening' \in BOOLEAN
  BY <1>1, <1>5 DEF LifeInv, TypeOK
<1>7. LifeInv'
  BY <1>1, <1>2, <1>5, <1>6, QuietTake, BodyStep
<1>8. QED
  BY <1>1, <1>5, <1>7 DEF OnlyThese, FailsShutdown, IsReset

\* A callback after which the handler just returns.
LEMMA PlainCallback ==
    ASSUME LifeInv, failed = "none", failed' = failed, NEW l \in Loops, NEW c \in Conns, c \in accepted,
           l = io[c], cb[l] = NoConn, Callback(l, c, "return"),
           UNCHANGED <<serverVars, connVars, phase, queue, held, refs, asked>>,
           peer' \in [Conns -> {"open", "closed", "reset", "resetRead"}],
           active' \in [Loops -> SUBSET (Conns \X Kinds)],
           \A k \in Loops : active'[k] \subseteq active[k],
           batch' \in [Loops -> Seq(Tasks)],
           \A k \in Loops : InTurn(batch'[k]) /\ (phase[k] = "events" => batch'[k] = <<>>),
           \A k \in Loops : \A op, m : InBatch(k, op, m)' => InBatch(k, op, m),
           \A k \in Loops : \A op \in OnceOps : \A m : InBatch(k, op, m) => InBatch(k, op, m)'
    PROVE  LifeInv'
<1>1. /\ cb' \in [Loops -> Conns \cup {NoConn}] /\ cb'[l] = c
      /\ then' \in [Loops -> {"return", "closeCallback", "removeChannel"}] /\ then'[l] = "return"
      /\ \A k \in Loops : k # l => cb'[k] = cb[k] /\ then'[k] = then[k]
  BY DEF Callback, LifeInv, TypeOK
<1>2. TypeOK'
  BY <1>1 DEF LifeInv, TypeOK, serverVars, connVars
<1>3. ServerOK' /\ \A k \in Loops : LoopOK(k)'
  <2>1. Main \in Loops
    BY DEF Loops
  <2>2. QED
    BY <1>1, <2>1 DEF LifeInv, ServerOK, LoopOK, serverVars
<1>4. ASSUME NEW m \in Conns PROVE Unmoved(m) /\ UnmovedTasks(m) /\ UnmovedLoops(m)
  <2>0. ConnOK(m) /\ m # NoConn
    BY DEF LifeInv
  <2>1. Unmoved(m)
    BY <2>0, SameConn
  <2>2. UnmovedTasks(m)
    BY <2>0, SameTasks, QuietTasks
  <2>3. UnmovedLoops(m)
    BY <1>1, <2>0, ZenonT(60) DEF UnmovedLoops, ConnOK, Where, Kinds
  <2>4. QED
    BY <2>1, <2>2, <2>3
<1>5. QED
  BY <1>2, <1>3, <1>4, QuietStep

LEMMA TaskWriteCompleteStep ==
    ASSUME LifeInv, failed = "none", NEW l \in Loops, TaskWriteComplete(l) PROVE LifeInv' /\ failed' = "none"
<1>1. /\ UNCHANGED <<serverVars, connVars, peer, phase, queue, held, active, refs, asked, failed>>
      /\ Callback(l, Arg(l), "return") /\ Take(l, "writeComplete")
  BY DEF TaskWriteComplete, TaskFrame, peerVars, userVars
<1>2. "writeComplete" \in Ops \ OnceOps /\ "writeComplete" \in Ops \ {"listen"} /\ "writeComplete" # "removeConnectionInLoop"
  BY DEF Ops, OnceOps, SharedOps
<1>3. PICK c : c = Arg(l)
  OBVIOUS
<1>4. c \in Conns /\ c \in accepted /\ l = io[c] /\ cb[l] = NoConn /\ Callback(l, c, "return")
  BY <1>1, <1>2, <1>3, TaskConn
<1>5. /\ peer' \in [Conns -> {"open", "closed", "reset", "resetRead"}]
      /\ active' \in [Loops -> SUBSET (Conns \X Kinds)]
      /\ \A k \in Loops : active'[k] \subseteq active[k]
  BY <1>1 DEF LifeInv, TypeOK
<1>6. QED
  BY <1>1, <1>2, <1>4, <1>5, QuietTake, PlainCallback

LEMMA TaskQueueCloseStep ==
    ASSUME LifeInv, failed = "none", NEW l \in Loops, TaskQueueClose(l) PROVE LifeInv' /\ failed' = "none"
<1>1. /\ UNCHANGED <<serverVars, connVars, peer, phase, held, active, cb, then, refs, asked, failed>>
      /\ Push(l, "closeInLoop", Arg(l), Num(l)) /\ Take(l, "queueClose")
  BY DEF TaskQueueClose, NoCallback, TaskFrame, peerVars, userVars
<1>2. /\ "queueClose" \in Ops \ OnceOps /\ "queueClose" \in Ops \ {"listen"} /\ "queueClose" # "removeConnectionInLoop"
      /\ "closeInLoop" \in Ops /\ "closeInLoop" \notin OnceOps /\ "closeInLoop" # "listen"
  BY DEF Ops, OnceOps, SharedOps
<1>3. PICK c, n : c = Arg(l) /\ n = Num(l)
  OBVIOUS
<1>4. c \in Conns /\ c \in accepted /\ l = io[c] /\ n \in Nat
  BY <1>1, <1>2, <1>3, TaskConn
<1>5. TypeOK /\ c # NoConn /\ \A k \in Loops : InTurn(queue[k])
  BY <1>4 DEF LifeInv, LoopOK
<1>6. /\ queue' \in [Loops -> Seq(Tasks)]
      /\ \A k \in Loops : \A o, m : InQueue(k, o, m)' <=> InQueue(k, o, m) \/ (k = l /\ o = "closeInLoop" /\ m = c)
      /\ \A k \in Loops : InTurn(queue'[k])
  <2>1. Push(l, "closeInLoop", c, n)
    BY <1>1, <1>3
  <2>2. QED
    BY <1>2, <1>4, <1>5, <2>1, PushEffect
<1>7. /\ batch' \in [Loops -> Seq(Tasks)]
      /\ \A k \in Loops : InTurn(batch'[k]) /\ (phase[k] = "events" => batch'[k] = <<>>)
      /\ \A k \in Loops : \A o, m : InBatch(k, o, m)' => InBatch(k, o, m)
      /\ \A k \in Loops : \A o \in OnceOps : \A m : InBatch(k, o, m) => InBatch(k, o, m)'
  BY <1>1, <1>2, QuietTake
<1>8. TypeOK'
  BY <1>1, <1>6, <1>7 DEF LifeInv, TypeOK, serverVars, connVars
<1>9. ServerOK' /\ \A k \in Loops : LoopOK(k)'
  BY <1>1, <1>6, <1>7 DEF LifeInv, ServerOK, LoopOK, serverVars
<1>10. ASSUME NEW m \in Conns PROVE Unmoved(m) /\ UnmovedTasks(m) /\ UnmovedLoops(m)
  <2>0. ConnOK(m)
    BY DEF LifeInv
  <2>1. UnmovedTasks(m)
    BY <1>1, <1>2, <1>4, <1>6, <1>7, <2>0, QuietTasks
  <2>2. QED
    BY <1>1, <2>0, <2>1, SameConn, SameLoops
<1>11. QED
  BY <1>1, <1>8, <1>9, <1>10, QuietStep

\* handleClose of a connection that is up: it goes down, and its removal from the
\* map follows the callback.
LEMMA CloseStep ==
    ASSUME LifeInv, failed = "none", NEW l \in Loops, NEW c \in Conns, c \in accepted, Open(c),
           l = io[c], cb[l] = NoConn, l = Main => server # "destroying",
           HandleClose(l, c),
           UNCHANGED <<serverVars, peer, phase, queue, held, refs, asked>>,
           active' \in [Loops -> SUBSET (Conns \X Kinds)],
           \A k \in Loops : active'[k] \subseteq active[k],
           <<c, "read">> \notin active'[l],
           batch' \in [Loops -> Seq(Tasks)],
           \A k \in Loops : InTurn(batch'[k]) /\ (phase[k] = "events" => batch'[k] = <<>>),
           \A k \in Loops : \A op, m : InBatch(k, op, m)' => InBatch(k, op, m),
           \A k \in Loops : \A op \in OnceOps : \A m : InBatch(k, op, m) => InBatch(k, op, m)'
    PROVE  LifeInv' /\ failed' = "none"
<1>1. /\ cb' \in [Loops -> Conns \cup {NoConn}] /\ cb'[l] = c
      /\ then' \in [Loops -> {"return", "closeCallback", "removeChannel"}] /\ then'[l] = "closeCallback"
      /\ \A k \in Loops : k # l => cb'[k] = cb[k] /\ then'[k] = then[k]
  BY DEF HandleClose, Disconnect, Callback, LifeInv, TypeOK
<1>2. /\ state' \in [Conns -> States] /\ state'[c] = "kDisconnected"
      /\ events' \in [Conns -> SUBSET Kinds] /\ events'[c] = {}
      /\ downs' \in [Conns -> Nat] /\ downs'[c] = downs[c] + 1
      /\ \A m \in Conns : m # c => state'[m] = state[m] /\ events'[m] = events[m] /\ downs'[m] = downs[m]
      /\ UNCHANGED <<registered, ups>>
  BY DEF HandleClose, Disconnect, LifeInv, TypeOK, States
<1>3. failed' = "none"
  BY DEF HandleClose, AssertAlso, AssertThat
<1>4. UNCHANGED <<server, listening, connections, io, accepted>>
  BY DEF serverVars
<1>5. TypeOK'
  BY <1>1, <1>2, <1>4 DEF LifeInv, TypeOK
<1>6. ConnOK(c) /\ c # NoConn /\ Main \in Loops
  BY DEF LifeInv, Loops
<1>7. server = "up" \/ io[c] = Main => c \in connections
  BY <1>6 DEF ConnOK, Leaving, Open
<1>8. ServerOK'
  BY <1>1, <1>4, <1>6, <1>7 DEF LifeInv, ServerOK, TypeOK
<1>9. \A k \in Loops : LoopOK(k)'
  BY DEF LifeInv, LoopOK
<1>10. ASSUME NEW m \in Conns, m # c PROVE ConnOK(m)'
  <2>0. ConnOK(m) /\ m # NoConn /\ TypeOK
    BY DEF LifeInv
  <2>1. Unmoved(m)
    BY <1>2, <1>3, <1>4, <1>10, <2>0 DEF Unmoved, ConnOK, Where
  <2>2. UnmovedTasks(m)
    BY <2>0, SameTasks, QuietTasks
  <2>3. UnmovedLoops(m)
    BY <1>1, <1>10, <2>0 DEF UnmovedLoops, ConnOK, Where, Kinds
  <2>4. QED
    BY <2>0, <2>1, <2>2, <2>3, KeepsLife
<1>11. ConnOK(c)'
  <2>1. \A k \in Loops : \A op : Pending(k, op, c)' => Pending(k, op, c)
    BY SameTasks DEF Pending
  <2>2. \A k \in Loops : \A op \in OnceOps : Pending(k, op, c)' <=> Pending(k, op, c)
    BY SameTasks DEF Pending
  <2>3. (Arriving(c)' <=> Arriving(c)) /\ (Removal(c)' <=> Removal(c)) /\ (Destruction(c)' <=> Destruction(c))
    <3>1. \A op \in {"connectEstablished", "removeConnectionInLoop", "connectDestroyed"} : op \in OnceOps
      BY DEF OnceOps
    <3>2. QED
      BY <1>4, <1>6, <2>2, <3>1 DEF Arriving, Removal, Destruction
  <2>4. Closing(c)' /\ ~Removing(c)' /\ ~Removing(c) /\ (Dying(c)' <=> Dying(c))
    BY <1>1, <1>4, <1>6, <2>3 DEF Closing, Removing, InCallback, Dying
  <2>5. Where(c)'
    BY <1>1, <1>4, <1>6, <2>1, SMTT(60) DEF ConnOK, Where
  <2>6. Once(c)'
    BY <1>6, SameTasks DEF ConnOK, Once
  <2>7. \A k \in Loops : <<c, "read">> \notin active'[k]
    BY <1>6 DEF ConnOK, Where, Kinds
  <2>8. Stage(c)'
    <3>1. ups'[c] = 1 /\ downs'[c] = 1 /\ ~Arriving(c) /\ ~Open(c)'
      BY <1>2, <1>6 DEF ConnOK, Stage, Open
    <3>2. QED
      BY <1>2, <1>4, <2>3, <2>7, <3>1 DEF Stage
  <2>9. Leaving(c)'
    <3>1. ~Removal(c)
      BY <1>6 DEF ConnOK, Leaving, Open
    <3>2. registered[c]
      BY <1>6 DEF ConnOK, Stage
    <3>3. QED
      BY <1>2, <1>4, <1>6, <1>7, <2>3, <2>4, <3>1, <3>2 DEF ConnOK, Leaving
  <2>10. QED
    BY <2>5, <2>6, <2>8, <2>9 DEF ConnOK
<1>12. QED
  BY <1>3, <1>5, <1>8, <1>9, <1>10, <1>11 DEF LifeInv

LEMMA TaskCloseStep ==
    ASSUME LifeInv, failed = "none", NEW l \in Loops, TaskClose(l) PROVE LifeInv' /\ failed' = "none"
<1>1. /\ UNCHANGED <<serverVars, peer, phase, queue, held, active, refs, asked>> /\ Take(l, "closeInLoop")
      /\ UNCHANGED <<server, connections, io, accepted, listening>>
  BY DEF TaskClose, TaskFrame, peerVars, userVars, serverVars
<1>2. /\ "closeInLoop" \in Ops \ OnceOps /\ "closeInLoop" \in Ops \ {"listen"} /\ "closeInLoop" # "removeConnectionInLoop"
  BY DEF Ops, OnceOps, SharedOps
<1>3. PICK c : c = Arg(l)
  OBVIOUS
<1>4. /\ c \in Conns /\ c \in accepted /\ l = io[c] /\ cb[l] = NoConn /\ phase[l] = "tasks"
      /\ l = Main => server # "destroying"
  BY <1>1, <1>2, <1>3, TaskConn
<1>5. CASE Open(c)
  <2>1. HandleClose(l, c)
    BY <1>3, <1>5 DEF TaskClose
  <2>2. /\ active' \in [Loops -> SUBSET (Conns \X Kinds)] /\ <<c, "read">> \notin active'[l]
        /\ \A k \in Loops : active'[k] \subseteq active[k]
    BY <1>1, <1>4 DEF LifeInv, TypeOK, LoopOK
  <2>3. QED
    BY <1>1, <1>2, <1>4, <1>5, <2>1, <2>2, QuietTake, CloseStep
<1>6. CASE ~Open(c)
  <2>1. UNCHANGED <<state, events, registered, ups, downs, cb, then, failed>>
    BY <1>3, <1>4, <1>6 DEF TaskClose, NoCallback, AssertInLoop, AssertThat, connVars
  <2>2. /\ asked' \in [Conns -> Nat] /\ events' \in [Conns -> SUBSET Kinds] /\ state' \in [Conns -> States]
        /\ listening' \in BOOLEAN
    BY <1>1, <2>1 DEF LifeInv, TypeOK
  <2>3. QED
    BY <1>1, <1>2, <2>1, <2>2, QuietTake, BodyStep
<1>7. QED
  BY <1>5, <1>6

-----------------------------------------------------------------------------
(***************************************************************************)
(* Events, and the end of callbacks                                        *)
(***************************************************************************)
LEMMA EventEffect ==
    ASSUME LifeInv, NEW l \in Loops, NEW c \in Conns, NEW kind \in Kinds, Event(l, c, kind)
    PROVE  /\ UNCHANGED <<serverVars, phase, batch, held, refs, escaped, asked>>
           /\ c \in accepted /\ l = io[c] /\ cb[l] = NoConn /\ (l = Main => server # "destroying")
           /\ kind = "read" => Open(c)
           /\ active' \in [Loops -> SUBSET (Conns \X Kinds)] /\ <<c, kind>> \notin active'[l]
           /\ \A k \in Loops : active'[k] \subseteq active[k]
<1>1. /\ UNCHANGED <<serverVars, phase, batch, held, refs, escaped, asked>>
      /\ cb[l] = NoConn /\ (l = Main => server # "destroying") /\ <<c, kind>> \in active[l]
      /\ active' = [active EXCEPT ![l] = @ \ {<<c, kind>>}]
  BY DEF Event, Idle, userVars
<1>2. active \in [Loops -> SUBSET (Conns \X Kinds)]
  BY DEF LifeInv, TypeOK
<1>3. /\ active' \in [Loops -> SUBSET (Conns \X Kinds)] /\ <<c, kind>> \notin active'[l]
      /\ \A k \in Loops : active'[k] \subseteq active[k]
  BY <1>1, <1>2
<1>4. c \in accepted /\ l = io[c] /\ (kind = "read" => Open(c))
  BY <1>1, ZenonT(60) DEF LifeInv, ConnOK, Where, Stage
<1>5. QED
  BY <1>1, <1>3, <1>4

\* An event that leaves the connection in its stage.
LEMMA QuietEvent ==
    ASSUME LifeInv, failed = "none", failed' = failed, NEW l \in Loops, NEW c \in Conns, c \in accepted, l = io[c],
           UNCHANGED <<serverVars, state, registered, ups, downs, phase, batch, held, cb, then, refs, asked>>,
           peer' \in [Conns -> {"open", "closed", "reset", "resetRead"}],
           events' \in [Conns -> SUBSET Kinds],
           \A m \in Conns : /\ "read" \in events[m] => "read" \in events'[m]
                            /\ events[m] = {} => events'[m] = {},
           active' \in [Loops -> SUBSET (Conns \X Kinds)],
           \A k \in Loops : active'[k] \subseteq active[k],
           queue' = queue \/ Push(l, "writeComplete", c, 0)
    PROVE  LifeInv'
<1>1. TypeOK /\ c # NoConn /\ \A k \in Loops : InTurn(queue[k])
  BY DEF LifeInv, LoopOK
<1>2. /\ queue' \in [Loops -> Seq(Tasks)]
      /\ \A k \in Loops : \A o, m : InQueue(k, o, m) => InQueue(k, o, m)'
      /\ \A k \in Loops : \A o, m : InQueue(k, o, m)' =>
           InQueue(k, o, m) \/ (k = l /\ o = "writeComplete" /\ m = c)
      /\ \A k \in Loops : InTurn(queue'[k])
  <2>1. CASE queue' = queue
    BY <1>1, <2>1, SameTasks DEF TypeOK
  <2>2. CASE Push(l, "writeComplete", c, 0)
    <3>1. "writeComplete" \in Ops /\ "writeComplete" \notin OnceOps /\ "writeComplete" # "listen"
      BY DEF Ops, OnceOps, SharedOps
    <3>2. /\ queue' \in [Loops -> Seq(Tasks)]
          /\ \A k \in Loops : \A o, m : InQueue(k, o, m)' <=>
               InQueue(k, o, m) \/ (k = l /\ o = "writeComplete" /\ m = c)
          /\ \A k \in Loops : InTurn(queue'[k])
      <4>1. c \in Conns \cup {NoConn} /\ 0 \in Nat /\ (c = NoConn <=> "writeComplete" = "listen")
        BY <1>1, <3>1
      <4>2. /\ queue' \in [Loops -> Seq(Tasks)]
            /\ \A k \in Loops : \A o, m : InQueue(k, o, m)' <=>
                 InQueue(k, o, m) \/ (k = l /\ o = "writeComplete" /\ m = c)
            /\ /\ "writeComplete" \in OnceOps => ~InQueue(l, "writeComplete", c)
               /\ "writeComplete" = "connectEstablished" => ~InQueue(l, "connectDestroyed", c)
               /\ \A k \in Loops : InTurn(queue[k])
               => \A k \in Loops : InTurn(queue'[k])
        BY <1>1, <2>2, <3>1, <4>1, PushEffect, SMTT(60)
      <4>3. "writeComplete" # "connectEstablished"
        OBVIOUS
      <4>4. QED
        BY <1>1, <3>1, <4>2, <4>3, Zenon
    <3>3. QED
      BY <3>2
  <2>3. QED
    BY <2>1, <2>2
<1>3. TypeOK'
  BY <1>2 DEF LifeInv, TypeOK, serverVars
<1>4. ServerOK' /\ \A k \in Loops : LoopOK(k)'
  BY <1>2 DEF LifeInv, ServerOK, LoopOK, serverVars
<1>5. ASSUME NEW m \in Conns PROVE Unmoved(m) /\ UnmovedTasks(m) /\ UnmovedLoops(m)
  <2>0. ConnOK(m) /\ "writeComplete" \notin OnceOps
    BY DEF LifeInv, OnceOps
  <2>1. Unmoved(m)
    BY <2>0 DEF Unmoved, serverVars, ConnOK, Where
  <2>2. UnmovedTasks(m)
    BY <1>2, <2>0, SameTasks, QuietTasks
  <2>3. UnmovedLoops(m)
    BY <2>0 DEF UnmovedLoops, ConnOK, Where, Kinds
  <2>4. QED
    BY <2>1, <2>2, <2>3
<1>6. QED
  BY <1>3, <1>4, <1>5, QuietStep

LEMMA HandleReadStep ==
    ASSUME LifeInv, failed = "none", NEW l \in Loops, NEW c \in Conns, HandleRead(l, c)
    PROVE  LifeInv' /\ failed' = "none"
<1>1. Event(l, c, "read") /\ queue' = queue /\ "read" \in Kinds
  BY DEF HandleRead, Kinds
<1>2. /\ UNCHANGED <<serverVars, phase, batch, held, refs, asked>>
      /\ c \in accepted /\ l = io[c] /\ cb[l] = NoConn /\ (l = Main => server # "destroying")
      /\ Open(c)
      /\ active' \in [Loops -> SUBSET (Conns \X Kinds)] /\ <<c, "read">> \notin active'[l]
      /\ \A k \in Loops : active'[k] \subseteq active[k]
  BY <1>1, EventEffect
<1>3. peer \in [Conns -> {"open", "closed", "reset", "resetRead"}]
  BY DEF LifeInv, TypeOK
<1>4. CASE unread[c] /\ Callback(l, c, "return") /\ UNCHANGED <<connVars, peer, failed>>
  BY <1>1, <1>2, <1>3, <1>4, SameBatch, PlainCallback
<1>5. CASE peer' = [peer EXCEPT ![c] = "resetRead"] /\ NoCallback /\ UNCHANGED <<connVars, unread, failed>>
  <2>1. peer' \in [Conns -> {"open", "closed", "reset", "resetRead"}]
    BY <1>3, <1>5
  <2>2. UNCHANGED <<state, events, registered, ups, downs, cb, then, failed>>
    BY <1>5 DEF connVars, NoCallback
  <2>3. events' \in [Conns -> SUBSET Kinds]
    BY <2>2 DEF LifeInv, TypeOK
  <2>4. QED
    BY <1>1, <1>2, <2>1, <2>2, <2>3, QuietEvent
<1>6. CASE HandleClose(l, c) /\ UNCHANGED peerVars
  <2>1. peer' = peer
    BY <1>6 DEF peerVars
  <2>2. QED
    BY <1>1, <1>2, <1>6, <2>1, SameBatch, CloseStep
<1>7. QED
  BY <1>4, <1>5, <1>6 DEF HandleRead

LEMMA HandleWriteStep ==
    ASSUME LifeInv, failed = "none", NEW l \in Loops, NEW c \in Conns, HandleWrite(l, c)
    PROVE  LifeInv' /\ failed' = "none"
<1>1. /\ Event(l, c, "write") /\ "write" \in Kinds /\ UNCHANGED <<cb, then, peer>>
  BY DEF HandleWrite, Kinds, NoCallback, peerVars
<1>2. /\ UNCHANGED <<serverVars, phase, batch, held, refs, asked>>
      /\ c \in accepted /\ l = io[c]
      /\ active' \in [Loops -> SUBSET (Conns \X Kinds)]
      /\ \A k \in Loops : active'[k] \subseteq active[k]
  BY <1>1, EventEffect
<1>3. /\ peer' \in [Conns -> {"open", "closed", "reset", "resetRead"}]
      /\ events \in [Conns -> SUBSET Kinds]
  BY <1>1 DEF LifeInv, TypeOK
<1>4. /\ UNCHANGED <<state, registered, ups, downs, failed>>
      /\ queue' = queue \/ Push(l, "writeComplete", c, 0)
      /\ events' = events \/ ("write" \in events[c] /\ events' = [events EXCEPT ![c] = @ \ {"write"}])
  BY <1>2 DEF HandleWrite, AssertInLoop, AssertThat, connVars
<1>5. /\ events' \in [Conns -> SUBSET Kinds]
      /\ \A m \in Conns : /\ "read" \in events[m] => "read" \in events'[m]
                          /\ events[m] = {} => events'[m] = {}
  BY <1>3, <1>4
<1>6. QED
  BY <1>1, <1>2, <1>3, <1>4, <1>5, QuietEvent

\* The callback returns.
LEMMA EndEffect ==
    ASSUME LifeInv, NEW l \in Loops, EndCallback(l), NEW c, c = cb[l]
    PROVE  /\ c \in Conns /\ c \in accepted /\ l = io[c] /\ c # NoConn
           /\ cb' \in [Loops -> Conns \cup {NoConn}] /\ cb'[l] = NoConn
           /\ \A k \in Loops : k # l => cb'[k] = cb[k]
<1>1. cb[l] # NoConn /\ cb' = [cb EXCEPT ![l] = NoConn] /\ cb \in [Loops -> Conns \cup {NoConn}]
  BY DEF EndCallback, LifeInv, TypeOK
<1>2. c \in Conns
  BY <1>1
<1>3. c \in accepted /\ l = io[c]
  BY <1>2 DEF LifeInv, ConnOK, Where, Kinds
<1>4. QED
  BY <1>1, <1>2, <1>3

LEMMA ReturnPlainStep ==
    ASSUME LifeInv, failed = "none", NEW l \in Loops, ReturnPlain(l) PROVE LifeInv' /\ failed' = "none"
<1>1. /\ UNCHANGED <<serverVars, connVars, peer, phase, queue, batch, held, active, then, refs, asked, failed>>
      /\ EndCallback(l) /\ then[l] = "return"
  BY DEF ReturnPlain, ReturnFrame, peerVars, userVars, errVars
<1>2. /\ cb' \in [Loops -> Conns \cup {NoConn}] /\ cb'[l] = NoConn
      /\ \A k \in Loops : k # l => cb'[k] = cb[k]
  BY <1>1, EndEffect
<1>3. TypeOK'
  BY <1>1, <1>2 DEF LifeInv, TypeOK, serverVars, connVars
<1>4. ServerOK' /\ \A k \in Loops : LoopOK(k)'
  <2>1. Main \in Loops
    BY DEF Loops
  <2>2. QED
    BY <1>1, <1>2, <2>1 DEF LifeInv, ServerOK, LoopOK, serverVars
<1>5. ASSUME NEW m \in Conns PROVE Unmoved(m) /\ UnmovedTasks(m) /\ UnmovedLoops(m)
  <2>0. ConnOK(m) /\ m # NoConn
    BY DEF LifeInv
  <2>1. UnmovedLoops(m)
    BY <1>1, <1>2, <2>0 DEF UnmovedLoops, ConnOK, Where, Kinds
  <2>2. QED
    BY <1>1, <2>0, <2>1, SameConn, SameQueues
<1>6. QED
  BY <1>1, <1>3, <1>4, <1>5, QuietStep

-----------------------------------------------------------------------------
(***************************************************************************)
(* The steps of its life                                                   *)
(***************************************************************************)
\* doPendingTasks: the queue becomes the batch.
LEMMA SwapStep == ASSUME LifeInv, NEW l \in Loops, SwapTasks(l) PROVE LifeInv' /\ failed' = failed
<1>1. /\ UNCHANGED <<serverVars, connVars, peer, active, cb, then, refs, asked, failed>>
      /\ phase[l] = "events" /\ active[l] = {}
  BY DEF SwapTasks, peerVars, userVars, errVars
<1>2. /\ phase \in [Loops -> {"tasks", "events"}] /\ phase' = [phase EXCEPT ![l] = "tasks"]
      /\ queue \in [Loops -> Seq(Tasks)] /\ queue' = [queue EXCEPT ![l] = <<>>]
      /\ batch \in [Loops -> Seq(Tasks)] /\ batch' = [batch EXCEPT ![l] = queue[l]]
      /\ held \in [Loops -> SUBSET (Conns \cup {NoConn})]
      /\ held' = [held EXCEPT ![l] = SharedIn(queue[l])]
  BY DEF SwapTasks, LifeInv, TypeOK
<1>3. /\ phase' \in [Loops -> {"tasks", "events"}] /\ phase'[l] = "tasks"
      /\ \A k \in Loops : k # l => phase'[k] = phase[k]
  BY <1>2
<1>4. /\ queue' \in [Loops -> Seq(Tasks)] /\ queue'[l] = <<>>
      /\ \A k \in Loops : k # l => queue'[k] = queue[k]
  BY <1>2
<1>5. /\ batch' \in [Loops -> Seq(Tasks)] /\ batch'[l] = queue[l] /\ batch[l] = <<>>
      /\ \A k \in Loops : k # l => batch'[k] = batch[k]
  BY <1>1, <1>2 DEF LifeInv, LoopOK
<1>6. /\ held' \in [Loops -> SUBSET (Conns \cup {NoConn})] /\ held'[l] = SharedIn(queue[l])
      /\ \A k \in Loops : k # l => held'[k] = held[k]
  <2>1. PICK q : q = queue[l]
    OBVIOUS
  <2>2. q \in Seq(Tasks)
    BY <1>2, <2>1
  <2>3. SharedIn(q) \in SUBSET (Conns \cup {NoConn})
    <3>1. \A i \in DOMAIN q : q[i] \in Tasks
      BY <2>2
    <3>2. \A i \in DOMAIN q : q[i][2] \in Conns \cup {NoConn}
      BY <3>1 DEF Tasks
    <3>3. QED
      BY <3>2 DEF SharedIn
  <2>4. QED
    BY <1>2, <2>1, <2>3
<1>7. TypeOK'
  BY <1>1, <1>3, <1>4, <1>5, <1>6 DEF LifeInv, TypeOK, serverVars, connVars
<1>8. ServerOK'
  BY <1>1, <1>3 DEF LifeInv, ServerOK, serverVars, Loops
<1>9. \A k \in Loops : LoopOK(k)'
  BY <1>1, <1>3, <1>4, <1>5, HasEmpty DEF LifeInv, LoopOK
<1>10. ASSUME NEW m \in Conns PROVE Unmoved(m) /\ UnmovedTasks(m) /\ UnmovedLoops(m)
  <2>0. ConnOK(m)
    BY DEF LifeInv
  <2>1. \A op : /\ ~InQueue(l, op, m)' /\ (InBatch(l, op, m)' <=> InQueue(l, op, m)) /\ ~InBatch(l, op, m)
    BY <1>4, <1>5, HasEmpty DEF InQueue, InBatch
  <2>2. \A k \in Loops : k # l =>
          \A op : (InQueue(k, op, m)' <=> InQueue(k, op, m)) /\ (InBatch(k, op, m)' <=> InBatch(k, op, m))
    BY <1>4, <1>5 DEF InQueue, InBatch
  <2>3. \A k \in Loops : \A op : Pending(k, op, m)' <=> Pending(k, op, m)
    BY <2>1, <2>2 DEF Pending
  <2>4. \A op \in SharedOps : InBatch(l, op, m)' => m \in held'[l]
    BY <1>6, <2>1, SharedInIs DEF InQueue
  <2>5. Once(m)'
    BY <1>6, <2>0, <2>1, <2>2, <2>4 DEF ConnOK, Once
  <2>6. UnmovedTasks(m)
    BY <2>3, <2>5 DEF UnmovedTasks
  <2>7. QED
    BY <1>1, <2>0, <2>6, SameConn, SameLoops
<1>11. QED
  BY <1>1, <1>7, <1>8, <1>9, <1>10, QuietStep

\* connectEstablished, of a connection on another loop.
LEMMA TaskEstablishedStep ==
    ASSUME LifeInv, failed = "none", NEW l \in Loops, TaskEstablished(l) PROVE LifeInv' /\ failed' = "none"
<1>1. /\ UNCHANGED <<serverVars, peer, phase, queue, held, active, refs, asked>>
      /\ UNCHANGED <<server, connections, io, accepted, listening>>
      /\ Take(l, "connectEstablished") /\ ConnectEstablished(l, Arg(l))
  BY DEF TaskEstablished, TaskFrame, peerVars, userVars, serverVars
<1>2. /\ "connectEstablished" \in Ops \ {"listen"} /\ "connectEstablished" # "removeConnectionInLoop"
      /\ "connectEstablished" \in OnceOps /\ "connectEstablished" \in Ops
  BY DEF Ops, OnceOps, SharedOps
<1>3. PICK c : c = Arg(l)
  OBVIOUS
<1>4. /\ c \in Conns /\ c \in accepted /\ l = io[c] /\ cb[l] = NoConn /\ phase[l] = "tasks"
      /\ InBatch(l, "connectEstablished", c)
  BY <1>1, <1>2, <1>3, TaskConn
<1>5. /\ batch' \in [Loops -> Seq(Tasks)]
      /\ \A k \in Loops : \A o, m : InBatch(k, o, m) <=> InBatch(k, o, m)' \/ (k = l /\ o = "connectEstablished" /\ m = c)
      /\ ~InBatch(l, "connectEstablished", c)'
      /\ \A k \in Loops : InTurn(batch'[k]) /\ (phase[k] = "events" => batch'[k] = <<>>)
  <2>1. TypeOK /\ \A k \in Loops : LoopOK(k)
    BY DEF LifeInv
  <2>2. QED
    BY <1>1, <1>2, <1>3, <2>1, TakeEffect
<1>6. ConnOK(c) /\ TypeOK /\ c # NoConn /\ Main \in Loops
  BY <1>4 DEF LifeInv, Loops
<1>7. Arriving(c) /\ state[c] = "kConnecting" /\ ~registered[c] /\ io'[c] = l
  BY <1>1, <1>4, <1>6 DEF ConnOK, Stage, Arriving, Pending
<1>8. /\ failed' = failed
      /\ state' \in [Conns -> States] /\ state'[c] = "kConnected"
      /\ events' \in [Conns -> SUBSET Kinds] /\ events'[c] = {"read"}
      /\ ups' \in [Conns -> Nat] /\ ups'[c] = ups[c] + 1 /\ downs' = downs
      /\ \A m \in Conns : m # c => state'[m] = state[m] /\ events'[m] = events[m] /\ ups'[m] = ups[m]
  BY <1>1, <1>3, <1>4, <1>6, <1>7, SMTT(60) DEF ConnectEstablished, AssertAlso, AssertThat, TypeOK, States, Kinds
<1>9. /\ registered' \in [Conns -> BOOLEAN] /\ registered'[c]
      /\ \A m \in Conns : m # c => (registered'[m] <=> registered[m])
  BY <1>1, <1>3, <1>4, <1>6 DEF ConnectEstablished, TypeOK
<1>10. /\ cb' \in [Loops -> Conns \cup {NoConn}] /\ cb'[l] = c
       /\ then' \in [Loops -> {"return", "closeCallback", "removeChannel"}] /\ then'[l] = "return"
       /\ \A k \in Loops : k # l => cb'[k] = cb[k] /\ then'[k] = then[k]
  BY <1>1, <1>3, <1>4, <1>6, SMTT(60) DEF ConnectEstablished, Callback, TypeOK
<1>11. TypeOK'
  BY <1>1, <1>5, <1>6, <1>8, <1>9, <1>10 DEF TypeOK
<1>12. ServerOK' /\ \A k \in Loops : LoopOK(k)'
  BY <1>1, <1>5, <1>6, <1>10 DEF LifeInv, ServerOK, LoopOK
<1>13. ASSUME NEW m \in Conns, m # c PROVE ConnOK(m)'
  <2>0. ConnOK(m) /\ m # NoConn
    BY DEF LifeInv
  <2>1. Unmoved(m)
    BY <1>1, <1>8, <1>9, <1>13, <2>0 DEF Unmoved, ConnOK, Where
  <2>2. UnmovedTasks(m)
    BY <1>1, <1>5, <1>13, <2>0, SameTasks, QuietTasks
  <2>3. UnmovedLoops(m)
    BY <1>1, <1>4, <1>10, <1>13, <2>0 DEF UnmovedLoops, ConnOK, Where, Kinds
  <2>4. QED
    BY <1>6, <2>0, <2>1, <2>2, <2>3, KeepsLife
<1>14. ConnOK(c)'
  <2>1. /\ \A k \in Loops : \A op : Pending(k, op, c)' => Pending(k, op, c)
        /\ \A k \in Loops : \A op : op # "connectEstablished" => (Pending(k, op, c)' <=> Pending(k, op, c))
    BY <1>1, <1>5, SameTasks DEF Pending
  <2>2. ~Arriving(c)' /\ (Removal(c)' <=> Removal(c)) /\ (Destruction(c)' <=> Destruction(c))
    <3>1. ~InQueue(l, "connectEstablished", c)
      BY <1>2, <1>4, <1>6 DEF ConnOK, Once
    <3>2. ~Arriving(c)'
      BY <1>1, <1>4, <1>5, <3>1, SameTasks DEF Arriving, Pending
    <3>3. QED
      BY <1>1, <1>4, <1>6, <2>1, <3>2 DEF Removal, Destruction
  <2>3. ~Closing(c)' /\ ~Removing(c)' /\ ~Removing(c) /\ (Dying(c)' <=> Dying(c))
    BY <1>1, <1>4, <1>6, <1>10, <2>2 DEF Closing, Removing, InCallback, Dying
  <2>4. Where(c)'
    BY <1>1, <1>4, <1>6, <1>10, <2>1 DEF ConnOK, Where
  <2>5. Once(c)'
    BY <1>1, <1>5, <1>6, SameTasks DEF ConnOK, Once
  <2>6. Stage(c)'
    BY <1>1, <1>4, <1>6, <1>7, <1>8, <1>9, <2>2 DEF ConnOK, Stage, Open
  <2>7. Leaving(c)'
    BY <1>1, <1>6, <1>7, <1>9, <2>2, <2>3 DEF ConnOK, Leaving, Stage
  <2>8. QED
    BY <2>4, <2>5, <2>6, <2>7 DEF ConnOK
<1>15. QED
  BY <1>8, <1>11, <1>12, <1>13, <1>14 DEF LifeInv

\* newConnection: nothing of the connection is anywhere before.
LEMMA NewConnectionStep ==
    ASSUME LifeInv, failed = "none", NEW c \in Conns, NEW l \in Loops, NewConnection(c, l)
    PROVE  LifeInv' /\ failed' = "none"
<1>1. /\ UNCHANGED <<server, listening, peer, phase, batch, held, active, refs, asked>>
      /\ cb[Main] = NoConn /\ server = "up" /\ c \notin accepted
      /\ accepted' = accepted \cup {c} /\ connections' = connections \cup {c}
      /\ io' = [io EXCEPT ![c] = l]
  BY DEF NewConnection, Idle, peerVars, userVars
<1>2. ConnOK(c) /\ TypeOK /\ c # NoConn /\ Main \in Loops /\ \A k \in Loops : InTurn(queue[k])
  BY DEF LifeInv, Loops, LoopOK
<1>3. /\ io' \in [Conns -> Loops] /\ io'[c] = l /\ \A m \in Conns : m # c => io'[m] = io[m]
      /\ accepted' \subseteq Conns /\ connections' \subseteq Conns
  BY <1>1, <1>2 DEF TypeOK
<1>4. /\ \A k \in Loops, op \in Ops : ~Pending(k, op, c)
      /\ \A k \in Loops : cb[k] # c
      /\ \A k \in Loops, kind \in Kinds : <<c, kind>> \notin active[k]
      /\ state[c] = "none" /\ ups[c] = 0 /\ downs[c] = 0 /\ ~registered[c] /\ events[c] = {}
  BY <1>1, <1>2 DEF ConnOK, Where, Stage, Kinds
<1>5. /\ "connectEstablished" \in Ops /\ "connectEstablished" \in OnceOps /\ "connectEstablished" # "listen"
      /\ "connectDestroyed" \in Ops /\ "removeConnectionInLoop" \in Ops /\ OnceOps \subseteq Ops /\ SharedOps \subseteq Ops
      /\ "read" \in Kinds
  BY DEF Ops, OnceOps, SharedOps, Kinds
<1>6. CASE l = Main
  <2>1. ConnectEstablished(Main, c) /\ queue' = queue
    BY <1>6 DEF NewConnection
  <2>2. /\ failed' = failed
        /\ state' \in [Conns -> States] /\ state'[c] = "kConnected"
        /\ events' \in [Conns -> SUBSET Kinds] /\ events'[c] = {"read"}
        /\ ups' \in [Conns -> Nat] /\ ups'[c] = ups[c] + 1 /\ downs' = downs
        /\ \A m \in Conns : m # c => state'[m] = state[m] /\ events'[m] = events[m] /\ ups'[m] = ups[m]
    BY <1>2, <1>3, <1>4, <1>6, <2>1 DEF ConnectEstablished, AssertAlso, AssertThat, TypeOK, States, Kinds
  <2>3. /\ registered' \in [Conns -> BOOLEAN] /\ registered'[c]
        /\ \A m \in Conns : m # c => (registered'[m] <=> registered[m])
    BY <1>2, <2>1 DEF ConnectEstablished, TypeOK
  <2>4. /\ cb' \in [Loops -> Conns \cup {NoConn}] /\ cb'[Main] = c
        /\ then' \in [Loops -> {"return", "closeCallback", "removeChannel"}] /\ then'[Main] = "return"
        /\ \A k \in Loops : k # Main => cb'[k] = cb[k] /\ then'[k] = then[k]
    BY <1>2, <2>1 DEF ConnectEstablished, Callback, TypeOK
  <2>5. TypeOK'
    BY <1>1, <1>2, <1>3, <2>1, <2>2, <2>3, <2>4 DEF TypeOK
  <2>6. ServerOK' /\ \A k \in Loops : LoopOK(k)'
    BY <1>1, <2>1, <2>4 DEF LifeInv, ServerOK, LoopOK
  <2>7. ASSUME NEW m \in Conns, m # c PROVE ConnOK(m)'
    <3>0. ConnOK(m) /\ m # NoConn
      BY DEF LifeInv
    <3>1. Unmoved(m)
      BY <1>1, <1>3, <2>2, <2>3, <2>7, <3>0 DEF Unmoved, ConnOK, Where
    <3>2. UnmovedTasks(m)
      BY <1>1, <2>1, <3>0, SameQueues
    <3>3. UnmovedLoops(m)
      BY <1>1, <2>4, <2>7, <3>0 DEF UnmovedLoops, ConnOK, Where, Kinds
    <3>4. QED
      BY <1>2, <3>0, <3>1, <3>2, <3>3, KeepsLife
  <2>8. ConnOK(c)'
    <3>1. \A k \in Loops, op \in Ops : ~Pending(k, op, c)' /\ ~InQueue(k, op, c)' /\ ~InBatch(k, op, c)'
      BY <1>1, <1>4, <2>1, SameTasks DEF Pending
    <3>2. ~Arriving(c)' /\ ~Removal(c)' /\ ~Destruction(c)'
      BY <1>2, <1>3, <1>5, <3>1 DEF Arriving, Removal, Destruction
    <3>3. ~Closing(c)' /\ ~Removing(c)' /\ ~Dying(c)'
      BY <1>3, <1>6, <2>4, <3>2 DEF Closing, Removing, InCallback, Dying
    <3>4. Where(c)'
      BY <1>1, <1>3, <1>4, <1>6, <2>4, <3>1 DEF Where
    <3>5. Once(c)'
      BY <1>5, <3>1 DEF Once
    <3>6. Stage(c)'
      BY <1>1, <1>4, <1>5, <2>2, <2>3, <3>2 DEF Stage, Open
    <3>7. Leaving(c)'
      BY <1>1, <2>3, <3>2, <3>3 DEF Leaving
    <3>8. QED
      BY <3>4, <3>5, <3>6, <3>7 DEF ConnOK
  <2>9. QED
    BY <2>2, <2>5, <2>6, <2>7, <2>8 DEF LifeInv
<1>7. CASE l # Main
  <2>1. /\ state' = [state EXCEPT ![c] = "kConnecting"] /\ Push(l, "connectEstablished", c, 0)
        /\ UNCHANGED <<events, registered, ups, downs, cb, then, failed>>
    BY <1>7 DEF NewConnection, NoCallback
  <2>2. /\ state' \in [Conns -> States] /\ state'[c] = "kConnecting"
        /\ \A m \in Conns : m # c => state'[m] = state[m]
    BY <1>2, <2>1 DEF TypeOK, States
  <2>3. ~InQueue(l, "connectEstablished", c) /\ ~InQueue(l, "connectDestroyed", c)
    BY <1>4, <1>5 DEF Pending
  <2>4. /\ queue' \in [Loops -> Seq(Tasks)]
        /\ \A k \in Loops : \A o, m : InQueue(k, o, m)' <=>
             InQueue(k, o, m) \/ (k = l /\ o = "connectEstablished" /\ m = c)
        /\ \A k \in Loops : InTurn(queue'[k])
    BY <1>2, <1>5, <2>1, <2>3, PushEffect
  <2>5. TypeOK'
    BY <1>1, <1>2, <1>3, <2>1, <2>2, <2>4 DEF TypeOK
  <2>6. ServerOK' /\ \A k \in Loops : LoopOK(k)'
    BY <1>1, <2>1, <2>4 DEF LifeInv, ServerOK, LoopOK
  <2>7. ASSUME NEW m \in Conns, m # c PROVE ConnOK(m)'
    <3>0. ConnOK(m)
      BY DEF LifeInv
    <3>1. Unmoved(m)
      BY <1>1, <1>3, <2>1, <2>2, <2>7, <3>0 DEF Unmoved, ConnOK, Where
    <3>2. UnmovedTasks(m)
      BY <1>1, <2>4, <2>7, <3>0, SameTasks, QuietTasks
    <3>3. UnmovedLoops(m)
      BY <1>1, <2>1, <3>0, SameLoops
    <3>4. QED
      BY <1>2, <3>0, <3>1, <3>2, <3>3, KeepsLife
  <2>8. ConnOK(c)'
    <3>1. /\ \A k \in Loops, op \in Ops : ~InBatch(k, op, c)'
          /\ \A k \in Loops, op \in Ops : InQueue(k, op, c)' <=> k = l /\ op = "connectEstablished"
      BY <1>1, <1>4, <2>4, SameTasks DEF Pending
    <3>2. \A k \in Loops, op \in Ops : Pending(k, op, c)' <=> k = l /\ op = "connectEstablished"
      BY <3>1 DEF Pending
    <3>3. Arriving(c)' /\ ~Removal(c)' /\ ~Destruction(c)'
      BY <1>2, <1>3, <1>5, <3>2 DEF Arriving, Removal, Destruction
    <3>4. ~Closing(c)' /\ ~Removing(c)' /\ ~Dying(c)'
      BY <1>3, <1>4, <2>1, <3>3 DEF Closing, Removing, InCallback, Dying
    <3>5. Where(c)'
      BY <1>1, <1>3, <1>4, <2>1, <3>2 DEF Where
    <3>6. Once(c)'
      BY <1>5, <3>1 DEF Once
    <3>7. Stage(c)'
      BY <1>1, <1>3, <1>4, <1>5, <1>7, <2>1, <2>2, <3>3 DEF Stage, Open
    <3>8. Leaving(c)'
      BY <1>1, <3>3, <3>4 DEF Leaving
    <3>9. QED
      BY <3>5, <3>6, <3>7, <3>8 DEF ConnOK
  <2>9. QED
    BY <2>1, <2>5, <2>6, <2>7, <2>8 DEF LifeInv
<1>8. QED
  BY <1>6, <1>7

\* connectDestroyed, or the end of the callback it ran: the channel leaves the
\* poller, and the connection has no task left that keeps it.
LEMMA RemoveChannelStep ==
    ASSUME LifeInv, failed = "none", NEW c \in Conns, c \in accepted, RemoveChannel(io[c], c),
           state[c] \in {"kDisconnecting", "kDisconnected"}, registered[c],
           server = "up" => c \notin connections,
           connections' = connections \ {c},
           UNCHANGED <<server, listening, io, accepted, peer, phase, queue, held, active, then, refs, asked>>,
           batch' \in [Loops -> Seq(Tasks)],
           \A k \in Loops : InTurn(batch'[k]) /\ (phase[k] = "events" => batch'[k] = <<>>),
           \A k \in Loops : \A op, m : InBatch(k, op, m)' => InBatch(k, op, m),
           \A k \in Loops : \A op \in OnceOps : \A m :
             InBatch(k, op, m) => InBatch(k, op, m)' \/ (op = "connectDestroyed" /\ m = c),
           cb' \in [Loops -> Conns \cup {NoConn}],
           \A k \in Loops : cb'[k] = cb[k] \/ (cb[k] = c /\ cb'[k] = NoConn),
           ~Destruction(c)', ~Removing(c)'
    PROVE  LifeInv' /\ OnlyThese'
<1>1. ConnOK(c) /\ TypeOK /\ c # NoConn /\ Main \in Loops /\ io[c] \in Loops
  BY DEF LifeInv, Loops, TypeOK
<1>2. /\ registered' \in [Conns -> BOOLEAN] /\ ~registered'[c]
      /\ \A m \in Conns : m # c => (registered'[m] <=> registered[m])
      /\ UNCHANGED <<state, events, ups, downs>>
  BY <1>1 DEF RemoveChannel, TypeOK
<1>3. failed' = IF events[c] = {} THEN "none" ELSE "removeChannel"
  BY DEF RemoveChannel, AssertAlso, AssertThat
<1>4. events[c] = {} <=> state[c] = "kDisconnected"
  BY <1>1 DEF ConnOK, Stage, Open
<1>5. failed' = "none" => state[c] = "kDisconnected"
  BY <1>3, <1>4
<1>6. TypeOK'
  BY <1>1, <1>2 DEF TypeOK
<1>7. ServerOK' /\ \A k \in Loops : LoopOK(k)'
  BY <1>1 DEF LifeInv, ServerOK, LoopOK
<1>8. ASSUME NEW m \in Conns, m # c PROVE ConnOK(m)'
  <2>0. ConnOK(m) /\ m # NoConn
    BY DEF LifeInv
  <2>1. Unmoved(m)
    BY <1>2, <1>8, <2>0 DEF Unmoved, ConnOK, Where
  <2>2. UnmovedTasks(m)
    BY <1>8, <2>0, SameTasks, QuietTasks
  <2>3. UnmovedLoops(m)
    BY <1>8, <2>0 DEF UnmovedLoops, ConnOK, Where, Kinds
  <2>4. QED
    BY <1>1, <2>0, <2>1, <2>2, <2>3, KeepsLife
<1>9. ConnOK(c)'
  <2>1. /\ \A k \in Loops : \A op : Pending(k, op, c)' => Pending(k, op, c)
        /\ \A k \in Loops : \A op \in OnceOps : op # "connectDestroyed" => (Pending(k, op, c)' <=> Pending(k, op, c))
    BY SameTasks DEF Pending
  <2>2. (Arriving(c)' <=> Arriving(c)) /\ (Removal(c)' => Removal(c)) /\ (Closing(c)' => Closing(c)) /\ ~Dying(c)'
    <3>1. "connectEstablished" \in OnceOps
      BY DEF OnceOps
    <3>2. QED
      BY <1>1, <2>1, <3>1 DEF Arriving, Removal, Closing, InCallback, Dying
  <2>3. Where(c)'
    BY <1>1, <2>1, ZenonT(60) DEF ConnOK, Where
  <2>4. Once(c)'
    BY <1>1, SameTasks DEF ConnOK, Once
  <2>5. Stage(c)'
    BY <1>1, <1>2, <1>5, <2>2 DEF ConnOK, Stage, Open
  <2>6. Leaving(c)'
    BY <1>1, <1>2, <1>5, <2>2 DEF ConnOK, Leaving
  <2>7. QED
    BY <2>3, <2>4, <2>5, <2>6 DEF ConnOK
<1>10. OnlyThese'
  <2>1. CASE state[c] = "kDisconnected"
    BY <1>3, <1>4, <2>1 DEF OnlyThese
  <2>2. CASE state[c] = "kDisconnecting"
    <3>1. server # "up"
      BY <1>1, <2>2 DEF ConnOK, Leaving
    <3>2. QED
      BY <1>2, <1>3, <2>2, <3>1 DEF OnlyThese
  <2>3. QED
    BY <2>1, <2>2
<1>11. QED
  BY <1>6, <1>7, <1>8, <1>9, <1>10 DEF LifeInv

\* connectDestroyed of a connection that is still up: it goes down, and the channel
\* leaves the poller after the callback.
LEMMA DownStep ==
    ASSUME LifeInv, failed = "none", failed' = failed, NEW l \in Loops, NEW c \in Conns, c \in accepted,
           state[c] = "kConnected", l = io[c], cb[l] = NoConn, Disconnect(l, c, "removeChannel"),
           server = "up" => c \notin connections,
           connections' = connections \ {c}, phase[l] = "tasks",
           UNCHANGED <<server, listening, io, accepted, peer, phase, queue, held, active, refs, asked>>,
           batch' \in [Loops -> Seq(Tasks)],
           \A k \in Loops : InTurn(batch'[k]) /\ (phase[k] = "events" => batch'[k] = <<>>),
           \A k \in Loops : \A op, m : InBatch(k, op, m)' => InBatch(k, op, m),
           \A k \in Loops : \A op \in OnceOps : \A m :
             InBatch(k, op, m) => InBatch(k, op, m)' \/ (op = "connectDestroyed" /\ m = c),
           ~Destruction(c)'
    PROVE  LifeInv'
<1>1. ConnOK(c) /\ TypeOK /\ c # NoConn /\ Main \in Loops
  BY DEF LifeInv, Loops
<1>2. /\ cb' \in [Loops -> Conns \cup {NoConn}] /\ cb'[l] = c
      /\ then' \in [Loops -> {"return", "closeCallback", "removeChannel"}] /\ then'[l] = "removeChannel"
      /\ \A k \in Loops : k # l => cb'[k] = cb[k] /\ then'[k] = then[k]
  BY <1>1 DEF Disconnect, Callback, TypeOK
<1>3. /\ state' \in [Conns -> States] /\ state'[c] = "kDisconnected"
      /\ events' \in [Conns -> SUBSET Kinds] /\ events'[c] = {}
      /\ downs' \in [Conns -> Nat] /\ downs'[c] = downs[c] + 1
      /\ \A m \in Conns : m # c => state'[m] = state[m] /\ events'[m] = events[m] /\ downs'[m] = downs[m]
      /\ UNCHANGED <<registered, ups>>
  BY <1>1 DEF Disconnect, TypeOK, States
<1>4. TypeOK'
  BY <1>1, <1>2, <1>3 DEF TypeOK
<1>5. ServerOK' /\ \A k \in Loops : LoopOK(k)'
  BY <1>1, <1>2 DEF LifeInv, ServerOK, LoopOK
<1>6. ASSUME NEW m \in Conns, m # c PROVE ConnOK(m)'
  <2>0. ConnOK(m) /\ m # NoConn
    BY DEF LifeInv
  <2>1. Unmoved(m)
    BY <1>3, <1>6, <2>0 DEF Unmoved, ConnOK, Where
  <2>2. UnmovedTasks(m)
    BY <1>6, <2>0, SameTasks, QuietTasks
  <2>3. UnmovedLoops(m)
    BY <1>2, <1>6, <2>0 DEF UnmovedLoops, ConnOK, Where, Kinds
  <2>4. QED
    BY <1>1, <2>0, <2>1, <2>2, <2>3, KeepsLife
<1>7. ConnOK(c)'
  <2>1. /\ \A k \in Loops : \A op : Pending(k, op, c)' => Pending(k, op, c)
        /\ \A k \in Loops : \A op \in OnceOps : op # "connectDestroyed" => (Pending(k, op, c)' <=> Pending(k, op, c))
    BY SameTasks DEF Pending
  <2>2. (Arriving(c)' <=> Arriving(c)) /\ (Removal(c)' => Removal(c)) /\ ~Closing(c)' /\ Removing(c)' /\ Dying(c)'
    <3>1. "connectEstablished" \in OnceOps
      BY DEF OnceOps
    <3>2. QED
      BY <1>1, <1>2, <2>1, <3>1 DEF Arriving, Removal, Closing, Removing, InCallback, Dying
  <2>3. Open(c) /\ ~Open(c)' /\ registered[c]
    BY <1>1, <1>3 DEF Open, ConnOK, Stage
  <2>4. Where(c)'
    BY <1>1, <1>2, <2>1 DEF ConnOK, Where
  <2>5. Once(c)'
    BY <1>1, SameTasks DEF ConnOK, Once
  <2>6. \A k \in Loops : <<c, "read">> \notin active'[k]
    BY <1>1 DEF ConnOK, Where, Kinds, LifeInv, LoopOK
  <2>7. Stage(c)'
    <3>1. ups'[c] = 1 /\ downs'[c] = 1 /\ ~Arriving(c)
      BY <1>1, <1>3, <2>3 DEF ConnOK, Stage
    <3>2. QED
      BY <1>3, <2>2, <2>3, <2>6, <3>1 DEF Stage
  <2>8. Leaving(c)'
    BY <1>1, <1>3, <2>2, <2>3 DEF ConnOK, Leaving
  <2>9. QED
    BY <2>4, <2>5, <2>7, <2>8 DEF ConnOK
<1>8. QED
  BY <1>4, <1>5, <1>6, <1>7 DEF LifeInv

\* The map lets the connection go, and connectDestroyed is queued.
LEMMA UnmapStep ==
    ASSUME LifeInv, failed = "none", failed' = failed, NEW c \in Conns, c \in connections,
           Push(io[c], "connectDestroyed", c, 0),
           connections' = connections \ {c},
           UNCHANGED <<server, listening, io, accepted, connVars, peer, phase, held, active, then, refs, asked>>,
           batch' \in [Loops -> Seq(Tasks)],
           \A k \in Loops : InTurn(batch'[k]) /\ (phase[k] = "events" => batch'[k] = <<>>),
           \A k \in Loops : \A op, m : InBatch(k, op, m)' => InBatch(k, op, m),
           \A k \in Loops : \A op \in OnceOps : \A m :
             InBatch(k, op, m) => InBatch(k, op, m)' \/ (op = "removeConnectionInLoop" /\ m = c),
           cb' \in [Loops -> Conns \cup {NoConn}],
           \A k \in Loops : cb'[k] = cb[k] \/ (cb[k] = c /\ cb'[k] = NoConn),
           server = "up" \/ io[c] = Main => state[c] = "kDisconnected",
           server = "up" => ~InBatch(Main, "removeConnectionInLoop", c)' /\ ~Closing(c)',
           server = "up" => ~InQueue(Main, "removeConnectionInLoop", c)
    PROVE  LifeInv'
<1>1. /\ ConnOK(c) /\ TypeOK /\ c # NoConn /\ Main \in Loops /\ io[c] \in Loops
      /\ \A k \in Loops : InTurn(queue[k])
      /\ UNCHANGED <<state, events, registered, ups, downs>>
  BY DEF LifeInv, Loops, TypeOK, LoopOK, connVars
<1>2. c \in accepted /\ ~Destruction(c) /\ ~Removing(c) /\ (registered[c] \/ Arriving(c))
  BY <1>1 DEF ConnOK, Where, Leaving, Dying
<1>3. /\ "connectDestroyed" \in Ops /\ "connectDestroyed" \in OnceOps /\ "connectDestroyed" # "listen"
      /\ "connectEstablished" \in OnceOps /\ "removeConnectionInLoop" \in OnceOps
  BY DEF Ops, OnceOps, SharedOps
<1>4. /\ queue' \in [Loops -> Seq(Tasks)]
      /\ \A k \in Loops : \A o, m : InQueue(k, o, m)' <=>
           InQueue(k, o, m) \/ (k = io[c] /\ o = "connectDestroyed" /\ m = c)
      /\ \A k \in Loops : InTurn(queue'[k])
  <2>1. PICK l \in Loops : l = io[c]
    BY <1>1
  <2>2. ~InQueue(l, "connectDestroyed", c) /\ Push(l, "connectDestroyed", c, 0)
    BY <1>2, <2>1 DEF Destruction, Pending
  <2>3. QED
    BY <1>1, <1>3, <2>1, <2>2, PushEffect
<1>5. TypeOK'
  BY <1>1, <1>4 DEF TypeOK
<1>6. ServerOK' /\ \A k \in Loops : LoopOK(k)'
  BY <1>1, <1>4 DEF LifeInv, ServerOK, LoopOK
<1>7. ASSUME NEW m \in Conns, m # c PROVE ConnOK(m)'
  <2>0. ConnOK(m) /\ m # NoConn
    BY DEF LifeInv
  <2>1. Unmoved(m)
    BY <1>1, <1>7, <2>0 DEF Unmoved, ConnOK, Where
  <2>2. UnmovedTasks(m)
    BY <1>4, <1>7, <2>0, QuietTasks
  <2>3. UnmovedLoops(m)
    BY <1>7, <2>0 DEF UnmovedLoops, ConnOK, Where, Kinds
  <2>4. QED
    BY <1>1, <2>0, <2>1, <2>2, <2>3, KeepsLife
<1>8. ConnOK(c)'
  <2>1. \A k \in Loops : \A op :
          /\ Pending(k, op, c)' => Pending(k, op, c) \/ (k = io[c] /\ op = "connectDestroyed")
          /\ op \in OnceOps /\ op # "removeConnectionInLoop" /\ op # "connectDestroyed" =>
               (Pending(k, op, c)' <=> Pending(k, op, c))
    BY <1>4 DEF Pending
  <2>2. (Arriving(c)' <=> Arriving(c)) /\ Destruction(c)' /\ (Removal(c)' => Removal(c))
    BY <1>1, <1>3, <1>4, <2>1 DEF Arriving, Removal, Destruction, Pending
  <2>3. ~Removing(c)' /\ (Closing(c)' => Closing(c)) /\ Dying(c)'
    BY <1>1, <1>2, <2>2 DEF Removing, Closing, InCallback, Dying
  <2>4. server = "up" => ~Removal(c)' /\ ~Closing(c)'
    BY <1>1, <1>4 DEF Removal, Pending
  <2>5. Where(c)'
    BY <1>1, <1>2, <2>1 DEF ConnOK, Where
  <2>6. Once(c)'
    <3>1. ~InBatch(io[c], "connectDestroyed", c)
      BY <1>2 DEF Destruction, Pending
    <3>2. QED
      BY <1>1, <1>4, <3>1 DEF ConnOK, Once
  <2>7. Stage(c)'
    BY <1>1, <2>2 DEF ConnOK, Stage, Open
  <2>8. Leaving(c)'
    BY <1>1, <1>2, <2>2, <2>3, <2>4 DEF ConnOK, Leaving
  <2>9. QED
    BY <2>5, <2>6, <2>7, <2>8 DEF ConnOK
<1>9. QED
  BY <1>5, <1>6, <1>7, <1>8 DEF LifeInv

LEMMA TaskDestroyedStep ==
    ASSUME LifeInv, failed = "none", NEW l \in Loops, TaskDestroyed(l) PROVE LifeInv' /\ OnlyThese'
<1>1. /\ UNCHANGED <<server, listening, connections, io, accepted, peer, phase, queue, held, active, refs, asked>>
      /\ Take(l, "connectDestroyed") /\ ConnectDestroyed(l, Arg(l))
  BY DEF TaskDestroyed, TaskFrame, peerVars, userVars, serverVars
<1>2. /\ "connectDestroyed" \in Ops \ {"listen"} /\ "connectDestroyed" # "removeConnectionInLoop"
      /\ "connectDestroyed" \in OnceOps /\ "connectDestroyed" \in Ops
  BY DEF Ops, OnceOps, SharedOps
<1>3. PICK c : c = Arg(l)
  OBVIOUS
<1>4. /\ c \in Conns /\ c \in accepted /\ l = io[c] /\ cb[l] = NoConn /\ phase[l] = "tasks"
      /\ InBatch(l, "connectDestroyed", c) /\ ConnectDestroyed(l, c)
  BY <1>1, <1>2, <1>3, TaskConn
<1>5. /\ batch' \in [Loops -> Seq(Tasks)]
      /\ \A k \in Loops : \A o, m : InBatch(k, o, m) <=> InBatch(k, o, m)' \/ (k = l /\ o = "connectDestroyed" /\ m = c)
      /\ ~InBatch(l, "connectDestroyed", c)' /\ ~InBatch(l, "connectEstablished", c)
      /\ \A k \in Loops : InTurn(batch'[k]) /\ (phase[k] = "events" => batch'[k] = <<>>)
  <2>1. TypeOK /\ \A k \in Loops : LoopOK(k)
    BY DEF LifeInv
  <2>2. QED
    BY <1>1, <1>2, <1>3, <2>1, TakeEffect
<1>6. ConnOK(c) /\ TypeOK /\ c # NoConn /\ state[c] \in States /\ connections \subseteq Conns
  BY <1>4 DEF LifeInv, TypeOK
<1>7. ~InQueue(l, "connectDestroyed", c) /\ ~InQueue(l, "connectEstablished", c)
  BY <1>2, <1>4, <1>6 DEF ConnOK, Once
<1>8. ~Destruction(c)' /\ Destruction(c) /\ ~Arriving(c)
  BY <1>1, <1>4, <1>5, <1>7, SameTasks DEF Destruction, Arriving, Pending
<1>9. c \notin connections /\ registered[c] /\ ~Removing(c) /\ connections' = connections \ {c}
  BY <1>1, <1>6, <1>8 DEF ConnOK, Leaving, Dying
<1>10. state[c] \notin {"none", "kConnecting"}
  BY <1>4, <1>6, <1>8 DEF ConnOK, Stage
<1>11. CASE state[c] = "kConnected"
  <2>1. Disconnect(l, c, "removeChannel") /\ failed' = failed
    BY <1>4, <1>11 DEF ConnectDestroyed, AssertInLoop, AssertThat
  <2>2. LifeInv'
    BY <1>1, <1>4, <1>5, <1>8, <1>9, <1>11, <2>1, DownStep
  <2>3. QED
    BY <2>1, <2>2 DEF OnlyThese
<1>12. CASE state[c] # "kConnected"
  <2>1. RemoveChannel(io[c], c) /\ cb' = cb /\ then' = then
    BY <1>4, <1>12 DEF ConnectDestroyed, NoCallback
  <2>2. state[c] \in {"kDisconnecting", "kDisconnected"}
    BY <1>6, <1>10, <1>12 DEF States
  <2>3. ~Removing(c)' /\ cb' \in [Loops -> Conns \cup {NoConn}]
    BY <1>1, <1>6, <1>9, <2>1 DEF Removing, InCallback, TypeOK
  <2>4. QED
    BY <1>1, <1>4, <1>5, <1>8, <1>9, <2>1, <2>2, <2>3, RemoveChannelStep
<1>13. QED
  BY <1>11, <1>12

LEMMA TaskRemoveStep ==
    ASSUME LifeInv, failed = "none", NEW l \in Loops, TaskRemove(l) PROVE LifeInv' /\ failed' = "none"
<1>1. /\ UNCHANGED <<server, listening, io, accepted, connVars, peer, phase, held, active, cb, then, refs, asked>>
      /\ server = "up" /\ Take(l, "removeConnectionInLoop") /\ RemoveConnectionInLoop(l, Arg(l))
  BY DEF TaskRemove, RemoveConnectionInLoop, NoCallback, TaskFrame, peerVars, userVars
<1>2. /\ "removeConnectionInLoop" \in Ops \ {"listen"} /\ "removeConnectionInLoop" \in OnceOps
      /\ "removeConnectionInLoop" \in Ops
  BY DEF Ops, OnceOps, SharedOps
<1>3. PICK c : c = Arg(l)
  OBVIOUS
<1>4. c \in Conns /\ c \in accepted /\ InBatch(l, "removeConnectionInLoop", c) /\ RemoveConnectionInLoop(l, c)
  BY <1>1, <1>2, <1>3, TaskConn
<1>5. /\ batch' \in [Loops -> Seq(Tasks)]
      /\ \A k \in Loops : \A o, m : InBatch(k, o, m) <=>
           InBatch(k, o, m)' \/ (k = l /\ o = "removeConnectionInLoop" /\ m = c)
      /\ ~InBatch(l, "removeConnectionInLoop", c)'
      /\ \A k \in Loops : InTurn(batch'[k]) /\ (phase[k] = "events" => batch'[k] = <<>>)
  <2>1. TypeOK /\ \A k \in Loops : LoopOK(k)
    BY DEF LifeInv
  <2>2. QED
    BY <1>1, <1>2, <1>3, <2>1, TakeEffect
<1>6. ConnOK(c) /\ cb' \in [Loops -> Conns \cup {NoConn}]
  BY <1>1, <1>4 DEF LifeInv, TypeOK
<1>7. l = Main /\ Removal(c) /\ ~InQueue(Main, "removeConnectionInLoop", c)
  BY <1>2, <1>4, <1>6 DEF ConnOK, Where, Once, Removal, Pending
<1>8. c \in connections /\ state[c] = "kDisconnected" /\ ~Closing(c)
  BY <1>1, <1>6, <1>7 DEF ConnOK, Leaving
<1>9. /\ Push(io[c], "connectDestroyed", c, 0) /\ connections' = connections \ {c} /\ failed' = failed
      /\ ~InBatch(Main, "removeConnectionInLoop", c)' /\ ~Closing(c)'
  BY <1>1, <1>4, <1>5, <1>7, <1>8 DEF RemoveConnectionInLoop, AssertAlso, AssertThat, Closing, InCallback
<1>10. /\ \A k \in Loops : \A op, m : InBatch(k, op, m)' => InBatch(k, op, m)
       /\ \A k \in Loops : \A op \in OnceOps : \A m :
            InBatch(k, op, m) => InBatch(k, op, m)' \/ (op = "removeConnectionInLoop" /\ m = c)
  BY <1>5
<1>11. \A k \in Loops : cb'[k] = cb[k]
  BY <1>1
<1>12. LifeInv'
  BY <1>1, <1>4, <1>5, <1>6, <1>7, <1>8, <1>9, <1>10, <1>11, UnmapStep
<1>13. QED
  BY <1>9, <1>12

\* removeConnection in the acceptor's loop takes the connection out of the map at
\* once; in another loop it queues that.
LEMMA ReturnToCloseStep ==
    ASSUME LifeInv, failed = "none", NEW l \in Loops, ReturnToClose(l) PROVE LifeInv' /\ failed' = "none"
<1>1. /\ UNCHANGED <<connVars, peer, phase, batch, held, active, then, refs, asked>>
      /\ EndCallback(l) /\ then[l] = "closeCallback"
  BY DEF ReturnToClose, ReturnFrame, peerVars, userVars
<1>2. PICK c : c = cb[l]
  OBVIOUS
<1>3. /\ c \in Conns /\ c \in accepted /\ l = io[c] /\ c # NoConn
      /\ cb' \in [Loops -> Conns \cup {NoConn}] /\ cb'[l] = NoConn
      /\ \A k \in Loops : k # l => cb'[k] = cb[k]
  BY <1>1, <1>2, EndEffect
<1>4. ConnOK(c) /\ TypeOK /\ Main \in Loops /\ Closing(c) /\ \A k \in Loops : InTurn(queue[k])
  BY <1>1, <1>2, <1>3 DEF LifeInv, Loops, Closing, InCallback, LoopOK
<1>5. state[c] = "kDisconnected" /\ ~Removal(c) /\ (server = "up" => c \in connections) /\ ~Removing(c)
  BY <1>1, <1>3, <1>4 DEF ConnOK, Leaving, Removing, InCallback
<1>6. CASE l = Main
  <2>1. server = "up"
    BY <1>1, <1>2, <1>3, <1>6 DEF LifeInv, ServerOK
  <2>2. RemoveConnectionInLoop(Main, c)
    BY <1>2, <1>6 DEF ReturnToClose
  <2>3. /\ Push(io[c], "connectDestroyed", c, 0) /\ connections' = connections \ {c} /\ failed' = failed
        /\ UNCHANGED <<server, listening, io, accepted>>
    BY <1>5, <2>1, <2>2 DEF RemoveConnectionInLoop, AssertAlso, AssertThat
  <2>4. ~InBatch(Main, "removeConnectionInLoop", c)' /\ ~InQueue(Main, "removeConnectionInLoop", c) /\ ~Closing(c)'
    BY <1>1, <1>3, <1>5, <2>3, SameTasks DEF Removal, Pending, Closing, InCallback
  <2>5. QED
    BY <1>1, <1>2, <1>3, <1>5, <2>1, <2>3, <2>4, SameBatch, UnmapStep
<1>7. CASE l # Main
  <2>1. Push(Main, "removeConnectionInLoop", c, 0) /\ UNCHANGED <<server, listening, connections, io, accepted, failed>>
    BY <1>2, <1>7 DEF ReturnToClose, serverVars
  <2>2. /\ "removeConnectionInLoop" \in Ops /\ "removeConnectionInLoop" \in OnceOps
        /\ "removeConnectionInLoop" # "listen"
    BY DEF Ops, OnceOps, SharedOps
  <2>3. /\ queue' \in [Loops -> Seq(Tasks)]
        /\ \A k \in Loops : \A o, m : InQueue(k, o, m)' <=>
             InQueue(k, o, m) \/ (k = Main /\ o = "removeConnectionInLoop" /\ m = c)
        /\ \A k \in Loops : InTurn(queue'[k])
    <3>1. ~InQueue(Main, "removeConnectionInLoop", c)
      BY <1>5 DEF Removal, Pending
    <3>2. QED
      BY <1>3, <1>4, <2>1, <2>2, <3>1, PushEffect
  <2>4. TypeOK'
    BY <1>1, <1>3, <1>4, <2>1, <2>3 DEF TypeOK, connVars
  <2>5. ServerOK' /\ \A k \in Loops : LoopOK(k)'
    BY <1>1, <1>3, <1>4, <1>7, <2>1, <2>3 DEF LifeInv, ServerOK, LoopOK
  <2>6. ASSUME NEW m \in Conns, m # c PROVE ConnOK(m)'
    <3>0. ConnOK(m) /\ m # NoConn
      BY DEF LifeInv
    <3>1. Unmoved(m)
      BY <1>1, <2>1, <3>0 DEF Unmoved, ConnOK, Where, connVars
    <3>2. UnmovedTasks(m)
      BY <1>1, <2>3, <2>6, <3>0, SameTasks, QuietTasks
    <3>3. UnmovedLoops(m)
      BY <1>1, <1>2, <1>3, <2>6, <3>0 DEF UnmovedLoops, ConnOK, Where, Kinds
    <3>4. QED
      BY <1>4, <3>0, <3>1, <3>2, <3>3, KeepsLife
  <2>7. ConnOK(c)'
    <3>1. \A k \in Loops : \A op : Pending(k, op, c)' <=>
            Pending(k, op, c) \/ (k = Main /\ op = "removeConnectionInLoop")
      BY <1>1, <2>3, SameTasks DEF Pending
    <3>2. (Arriving(c)' <=> Arriving(c)) /\ (Destruction(c)' <=> Destruction(c)) /\ Removal(c)'
      BY <1>3, <1>4, <2>1, <3>1 DEF Arriving, Destruction, Removal
    <3>3. ~Closing(c)' /\ ~Removing(c)' /\ (Dying(c)' <=> Dying(c))
      BY <1>3, <1>5, <2>1, <3>2, SMTT(60) DEF Closing, Removing, InCallback, Dying
    <3>4. Where(c)'
      BY <1>1, <1>2, <1>3, <1>4, <1>7, <2>1, <3>1 DEF ConnOK, Where
    <3>5. Once(c)'
      <4>1. ~InBatch(Main, "removeConnectionInLoop", c)
        BY <1>5 DEF Removal, Pending
      <4>2. QED
        BY <1>1, <1>4, <2>3, <4>1, SameTasks DEF ConnOK, Once
    <3>6. Stage(c)'
      BY <1>1, <1>4, <2>1, <3>2 DEF ConnOK, Stage, Open, connVars
    <3>7. Leaving(c)'
      BY <1>1, <1>4, <1>5, <2>1, <3>2, <3>3 DEF ConnOK, Leaving, connVars
    <3>8. QED
      BY <3>4, <3>5, <3>6, <3>7 DEF ConnOK
  <2>8. QED
    BY <2>1, <2>4, <2>5, <2>6, <2>7 DEF LifeInv
<1>8. QED
  BY <1>6, <1>7

LEMMA ReturnToRemoveStep ==
    ASSUME LifeInv, failed = "none", NEW l \in Loops, ReturnToRemove(l) PROVE LifeInv' /\ OnlyThese'
<1>1. /\ UNCHANGED <<server, listening, connections, io, accepted, queue, peer, phase, batch, held, active, then,
                     refs, asked>>
      /\ EndCallback(l) /\ then[l] = "removeChannel" /\ RemoveChannel(l, cb[l])
  BY DEF ReturnToRemove, ReturnFrame, peerVars, userVars, serverVars
<1>2. PICK c : c = cb[l]
  OBVIOUS
<1>3. /\ c \in Conns /\ c \in accepted /\ l = io[c] /\ c # NoConn /\ RemoveChannel(io[c], c)
      /\ cb' \in [Loops -> Conns \cup {NoConn}] /\ cb'[l] = NoConn
      /\ \A k \in Loops : k # l => cb'[k] = cb[k]
  BY <1>1, <1>2, EndEffect
<1>4. ConnOK(c) /\ Removing(c) /\ connections \subseteq Conns
  BY <1>1, <1>2, <1>3 DEF LifeInv, TypeOK, Removing, InCallback
<1>5. /\ state[c] = "kDisconnected" /\ ~Destruction(c) /\ c \notin connections /\ registered[c]
  BY <1>4 DEF ConnOK, Leaving, Dying, Stage
<1>6. /\ ~Destruction(c)' /\ ~Removing(c)' /\ connections' = connections \ {c}
  BY <1>1, <1>3, <1>4, <1>5, SameTasks DEF Destruction, Pending, Removing, InCallback
<1>7. QED
  BY <1>1, <1>2, <1>3, <1>5, <1>6, SameBatch, RemoveChannelStep

LEMMA DestroyConnectionStep ==
    ASSUME LifeInv, failed = "none", NEW c \in Conns, DestroyConnection(c) PROVE LifeInv' /\ OnlyThese'
<1>1. /\ UNCHANGED <<server, listening, io, accepted, peer, phase, batch, held, active, refs, asked>>
      /\ server = "destroying" /\ cb[Main] = NoConn /\ c \in connections /\ connections' = connections \ {c}
  BY DEF DestroyConnection, peerVars, userVars
<1>2. ConnOK(c) /\ TypeOK /\ Main \in Loops /\ phase[Main] = "tasks" /\ state[c] \in States
  BY <1>1 DEF LifeInv, ServerOK, Loops, TypeOK
<1>3. c \in accepted /\ ~Destruction(c) /\ ~Removing(c) /\ (registered[c] \/ Arriving(c))
  BY <1>1, <1>2 DEF ConnOK, Where, Leaving, Dying
<1>4. CASE io[c] = Main
  <2>1. ConnectDestroyed(Main, c) /\ queue' = queue
    BY <1>4 DEF DestroyConnection
  <2>2. registered[c] /\ state[c] \notin {"none", "kConnecting"}
    BY <1>2, <1>3, <1>4 DEF ConnOK, Stage
  <2>3. ~Destruction(c)'
    BY <1>1, <1>3, <2>1, SameTasks DEF Destruction, Pending
  <2>4. CASE state[c] = "kConnected"
    <3>1. Disconnect(Main, c, "removeChannel") /\ failed' = failed
      BY <1>4, <2>1, <2>4 DEF ConnectDestroyed, AssertInLoop, AssertThat
    <3>2. LifeInv'
      BY <1>1, <1>2, <1>3, <1>4, <2>1, <2>3, <2>4, <3>1, SameBatch, DownStep
    <3>3. QED
      BY <3>1, <3>2 DEF OnlyThese
  <2>5. CASE state[c] # "kConnected"
    <3>1. RemoveChannel(io[c], c) /\ cb' = cb /\ then' = then
      BY <1>4, <2>1, <2>5 DEF ConnectDestroyed, NoCallback
    <3>2. state[c] \in {"kDisconnecting", "kDisconnected"}
      BY <1>2, <2>2, <2>5 DEF States
    <3>3. ~Removing(c)' /\ cb' \in [Loops -> Conns \cup {NoConn}]
      BY <1>1, <1>2, <1>3, <3>1 DEF Removing, InCallback, TypeOK
    <3>4. QED
      BY <1>1, <1>3, <2>1, <2>2, <2>3, <3>1, <3>2, <3>3, SameBatch, RemoveChannelStep
  <2>6. QED
    BY <2>4, <2>5
<1>5. CASE io[c] # Main
  <2>1. /\ Push(io[c], "connectDestroyed", c, 0) /\ UNCHANGED <<connVars, cb, then, failed>>
    BY <1>5 DEF DestroyConnection, NoCallback
  <2>2. cb' \in [Loops -> Conns \cup {NoConn}]
    BY <1>2, <2>1 DEF TypeOK
  <2>3. LifeInv'
    BY <1>1, <1>5, <2>1, <2>2, SameBatch, UnmapStep
  <2>4. QED
    BY <2>1, <2>3 DEF OnlyThese
<1>6. QED
  BY <1>4, <1>5

-----------------------------------------------------------------------------
LEMMA InitLife == Init => LifeInv /\ OnlyThese
<1>1. SUFFICES ASSUME Init PROVE LifeInv /\ OnlyThese
  OBVIOUS
<1>2. /\ queue = [l \in Loops |-> <<>>] /\ batch = [l \in Loops |-> <<>>]
      /\ active = [l \in Loops |-> {}] /\ cb = [l \in Loops |-> NoConn]
      /\ connections = {} /\ accepted = {} /\ refs = {} /\ server = "up"
      /\ failed = "none"
  BY <1>1 DEF Init
<1>3. TypeOK
  <2>1. <<>> \in Seq(Tasks) /\ Main \in Loops
    BY DEF Loops
  <2>2. QED
    BY <1>1, <2>1 DEF Init, TypeOK, Zero, No, States
<1>4. ServerOK /\ \A l \in Loops : LoopOK(l)
  BY <1>2, HasEmpty DEF ServerOK, LoopOK
<1>5. ASSUME NEW c \in Conns PROVE ConnOK(c)
  <2>1. \A l \in Loops : \A op : ~InQueue(l, op, c) /\ ~InBatch(l, op, c) /\ ~Pending(l, op, c)
    BY <1>2, HasEmpty DEF InQueue, InBatch, Pending
  <2>2. \A l \in Loops : cb[l] # c /\ active[l] = {}
    BY <1>2
  <2>3. Main \in Loops /\ io[c] \in Loops
    BY <1>1 DEF Init, Loops
  <2>4. ~Arriving(c) /\ ~Removal(c) /\ ~Destruction(c) /\ ~Closing(c) /\ ~Removing(c) /\ ~Dying(c)
    BY <2>1, <2>2, <2>3 DEF Arriving, Removal, Destruction, Closing, Removing, Dying, InCallback
  <2>5. Where(c)
    BY <1>2, <2>1, <2>2 DEF Where
  <2>6. Once(c)
    BY <2>1 DEF Once
  <2>7. Stage(c)
    <3>1. /\ state[c] = "none" /\ ups[c] = 0 /\ downs[c] = 0 /\ events[c] = {} /\ c \notin accepted
      BY <1>1 DEF Init, Zero
    <3>2. ~registered[c]
      BY <1>1 DEF Init, No
    <3>3. QED
      BY <2>2, <2>4, <3>1, <3>2 DEF Stage, Open
  <2>8. Leaving(c)
    BY <1>2, <2>4 DEF Leaving
  <2>9. QED
    BY <2>5, <2>6, <2>7, <2>8 DEF ConnOK
<1>6. QED
  BY <1>2, <1>3, <1>4, <1>5 DEF LifeInv, OnlyThese

LEMMA StoppedLife == ASSUME LifeInv, OnlyThese, UNCHANGED vars PROVE LifeInv' /\ OnlyThese'
<1>1. /\ UNCHANGED <<serverVars, connVars, loopVars, refs, asked, peer, failed>>
      /\ refs' \subseteq Conns /\ peer' \in [Conns -> {"open", "closed", "reset", "resetRead"}]
  BY DEF vars, userVars, peerVars, errVars, LifeInv, TypeOK
<1>2. LifeInv'
  BY <1>1, AsideStep
<1>3. QED
  BY <1>1, <1>2 DEF OnlyThese, IsReset, serverVars, connVars

LEMMA LoopLife ==
    ASSUME LifeInv, failed = "none", NEW l \in Loops, LoopStep(l) \/ ReturnCallback(l)
    PROVE  LifeInv' /\ OnlyThese'
<1>1. CASE Poll(l) \/ SwapTasks(l)
  BY <1>1, PollStep, SwapStep DEF OnlyThese
<1>2. CASE \E c \in Conns : HandleRead(l, c) \/ HandleWrite(l, c)
  BY <1>2, HandleReadStep, HandleWriteStep DEF OnlyThese
<1>3. CASE TaskListen(l) \/ TaskSend(l) \/ TaskClose(l) \/ TaskQueueClose(l) \/ TaskDangles(l)
  BY <1>3, TaskListenStep, TaskSendStep, TaskCloseStep, TaskQueueCloseStep, DanglesStep DEF OnlyThese
<1>4. CASE TaskEstablished(l) \/ TaskRemove(l) \/ TaskWriteComplete(l) \/ TaskDestroyed(l) \/ TaskShutdown(l)
  BY <1>4, TaskEstablishedStep, TaskRemoveStep, TaskWriteCompleteStep, TaskDestroyedStep, TaskShutdownStep
     DEF OnlyThese
<1>5. CASE ReturnCallback(l)
  BY <1>5, ReturnPlainStep, ReturnToCloseStep, ReturnToRemoveStep DEF ReturnCallback, OnlyThese
<1>6. QED
  BY <1>1, <1>2, <1>3, <1>4, <1>5 DEF LoopStep, RunTask

LEMMA StepLife == LifeInv /\ OnlyThese /\ [Next]_vars => LifeInv' /\ OnlyThese'
<1>1. SUFFICES ASSUME LifeInv, OnlyThese, [Next]_vars PROVE LifeInv' /\ OnlyThese'
  OBVIOUS
<1>2. CASE UNCHANGED vars \/ Stopped
  BY <1>1, <1>2, StoppedLife DEF Stopped
<1>3. ASSUME failed = "none", Peer \/ (\E l \in Loops : KeepRef(l)) \/ (\E c \in Conns : DropRef(c))
      PROVE  LifeInv' /\ OnlyThese'
  <2>1. failed' = failed
    BY <1>3 DEF Peer, PeerSends, PeerCloses, PeerResets, PeerFrame, KeepRef, DropRef, errVars
  <2>2. QED
    BY <1>1, <1>3, <2>1, PeerStep, RefStep DEF OnlyThese
<1>4. ASSUME failed = "none", User PROVE LifeInv' /\ OnlyThese'
  BY <1>1, <1>3, <1>4, CallStep DEF User
<1>5. ASSUME failed = "none", Start \/ BeginDestroy \/ EndDestroy PROVE LifeInv' /\ OnlyThese'
  BY <1>1, <1>5, StartStep, BeginEndStep DEF OnlyThese
<1>6. ASSUME failed = "none", Accept PROVE LifeInv' /\ OnlyThese'
  BY <1>1, <1>6, NewConnectionStep DEF Accept, OnlyThese
<1>7. ASSUME failed = "none", DestroyStep PROVE LifeInv' /\ OnlyThese'
  BY <1>1, <1>5, <1>7, DestroyConnectionStep DEF DestroyStep
<1>8. QED
  BY <1>1, <1>2, <1>3, <1>4, <1>5, <1>6, <1>7, LoopLife DEF Next, Running

LEMMA LifeAlways == Spec => [](LifeInv /\ OnlyThese)
  BY InitLife, StepLife, PTL DEF Spec

-----------------------------------------------------------------------------
(***************************************************************************)
(* start(): every listen() that has run, that is queued or that is in the  *)
(* batch is that of a start() of its own.                                  *)
(***************************************************************************)
ListenFirst(q) == \A i \in DOMAIN q : q[i][1] = "listen" => i = 1

Bit(b) == IF b THEN 1 ELSE 0

ListenInv ==
    /\ starts \in Nat
    /\ failed = "addChannel" => listening /\ starts > 1
    /\ Bit(listening) + Bit(InQueue(Main, "listen", NoConn)) + Bit(InBatch(Main, "listen", NoConn)) <= starts
    /\ \A l \in Loops : ListenFirst(queue[l]) /\ ListenFirst(batch[l])
    /\ \A l \in Loops : Pending(l, "listen", NoConn) => l = Main

LEMMA FirstAppend ==
    ASSUME NEW q \in Seq(Tasks), NEW t, t[1] # "listen", ListenFirst(q)
    PROVE  ListenFirst(Append(q, t)) /\ (Has(Append(q, t), "listen", NoConn) <=> Has(q, "listen", NoConn))
<1>1. q \in Seq(Tasks \cup {t}) /\ t \in Tasks \cup {t}
  OBVIOUS
<1>2. Has(Append(q, t), "listen", NoConn) <=> Has(q, "listen", NoConn)
  BY <1>1, HasAppend
<1>3. ListenFirst(Append(q, t))
  BY DEF ListenFirst
<1>4. QED
  BY <1>2, <1>3

LEMMA FirstTail ==
    ASSUME NEW q \in Seq(Tasks), q # <<>>, ListenFirst(q)
    PROVE  ListenFirst(Tail(q)) /\ ~Has(Tail(q), "listen", NoConn)
<1>1. /\ DOMAIN Tail(q) = 1..(Len(q) - 1) /\ Len(q) \in Nat
      /\ \A i \in 1..(Len(q) - 1) : Tail(q)[i] = q[i + 1] /\ i + 1 \in DOMAIN q /\ i + 1 # 1
  OBVIOUS
<1>2. \A i \in DOMAIN Tail(q) : Tail(q)[i][1] # "listen"
  BY <1>1 DEF ListenFirst
<1>3. QED
  BY <1>2 DEF ListenFirst, Has

\* No listen() is queued; the task that is run may be one.
QueueQuiet == UNCHANGED queue \/ \E l, op, c, n : op # "listen" /\ Push(l, op, c, n)
BatchQuiet == UNCHANGED batch \/ \E l, op : Take(l, op)

LEMMA QuietQueue ==
    ASSUME LifeInv, ListenInv, QueueQuiet, NEW k \in Loops
    PROVE  ListenFirst(queue'[k]) /\ (InQueue(k, "listen", NoConn)' <=> InQueue(k, "listen", NoConn))
<1>1. queue \in [Loops -> Seq(Tasks)] /\ ListenFirst(queue[k]) /\ queue[k] \in Seq(Tasks)
  BY DEF LifeInv, TypeOK, ListenInv
<1>2. CASE UNCHANGED queue
  BY <1>1, <1>2 DEF InQueue
<1>3. CASE \E l, op, c, n : op # "listen" /\ Push(l, op, c, n)
  <2>1. PICK l, op, c, n : op # "listen" /\ Push(l, op, c, n)
    BY <1>3
  <2>2. PICK t : t = <<op, c, n>>
    OBVIOUS
  <2>3. t[1] # "listen"
    BY <2>1, <2>2
  <2>4. queue'[k] = queue[k] \/ queue'[k] = Append(queue[k], t)
    BY <1>1, <2>1, <2>2 DEF Push
  <2>5. QED
    BY <1>1, <2>3, <2>4, FirstAppend, ZenonT(60) DEF InQueue
<1>4. QED
  BY <1>2, <1>3 DEF QueueQuiet

LEMMA QuietBatch ==
    ASSUME LifeInv, ListenInv, BatchQuiet, NEW k \in Loops
    PROVE  ListenFirst(batch'[k]) /\ (InBatch(k, "listen", NoConn)' => InBatch(k, "listen", NoConn))
<1>1. batch \in [Loops -> Seq(Tasks)] /\ ListenFirst(batch[k]) /\ batch[k] \in Seq(Tasks)
  BY DEF LifeInv, TypeOK, ListenInv
<1>2. CASE UNCHANGED batch
  BY <1>1, <1>2 DEF InBatch
<1>3. CASE \E l, op : Take(l, op)
  <2>1. PICK l, op : Take(l, op)
    BY <1>3
  <2>2. batch'[k] = batch[k] \/ (batch[k] # <<>> /\ batch'[k] = Tail(batch[k]))
    BY <1>1, <2>1 DEF Take, TaskReady
  <2>3. QED
    BY <1>1, <2>2, FirstTail DEF InBatch
<1>4. QED
  BY <1>2, <1>3 DEF BatchQuiet

LEMMA ListenFrame ==
    ASSUME LifeInv, ListenInv, QueueQuiet, BatchQuiet, UNCHANGED <<starts, listening>>,
           failed' = "addChannel" => failed = "addChannel"
    PROVE  ListenInv'
<1>1. \A k \in Loops : ListenFirst(queue'[k]) /\ ListenFirst(batch'[k])
  BY QuietQueue, QuietBatch
<1>2. \A k \in Loops : Pending(k, "listen", NoConn)' => Pending(k, "listen", NoConn)
  BY QuietQueue, QuietBatch DEF Pending
<1>3. Main \in Loops
  BY DEF Loops
<1>4. /\ InQueue(Main, "listen", NoConn)' <=> InQueue(Main, "listen", NoConn)
      /\ InBatch(Main, "listen", NoConn)' => InBatch(Main, "listen", NoConn)
  BY <1>3, QuietQueue, QuietBatch
<1>5. Bit(listening') + Bit(InQueue(Main, "listen", NoConn)') + Bit(InBatch(Main, "listen", NoConn)') <= starts'
  BY <1>4 DEF ListenInv, Bit
<1>6. QED
  BY <1>1, <1>2, <1>5 DEF ListenInv

LEMMA StartListen == ASSUME LifeInv, ListenInv, failed = "none", Start PROVE ListenInv'
<1>1. starts' = starts + 1 /\ starts \in Nat /\ UNCHANGED batch /\ Main \in Loops /\ ~listening
  BY DEF Start, ListenInv, Loops
<1>2. /\ \A k \in Loops : ListenFirst(batch'[k])
      /\ \A k \in Loops : InBatch(k, "listen", NoConn)' <=> InBatch(k, "listen", NoConn)
  BY <1>1, SameTasks DEF ListenInv
<1>3. CASE Listen /\ UNCHANGED queue
  <2>1. failed' = "none" /\ listening'
    BY <1>1, <1>3 DEF Listen, AssertThat
  <2>2. \A k \in Loops : InQueue(k, "listen", NoConn)' <=> InQueue(k, "listen", NoConn)
    BY <1>3, SameTasks
  <2>3. Bit(listening') + Bit(InQueue(Main, "listen", NoConn)') + Bit(InBatch(Main, "listen", NoConn)') <= starts'
    BY <1>1, <1>2, <2>1, <2>2 DEF ListenInv, Bit
  <2>4. starts' \in Nat
    BY <1>1
  <2>5. \A k \in Loops : ListenFirst(queue'[k])
    BY <1>3 DEF ListenInv
  <2>6. \A k \in Loops : Pending(k, "listen", NoConn)' => k = Main
    BY <1>2, <2>2 DEF ListenInv, Pending
  <2>7. QED
    BY <1>2, <2>1, <2>3, <2>4, <2>5, <2>6 DEF ListenInv
<1>4. CASE queue[Main] = <<>> /\ Push(Main, "listen", NoConn, 0) /\ UNCHANGED <<listening, failed>>
  <2>1. queue \in [Loops -> Seq(Tasks)]
    BY DEF LifeInv, TypeOK
  <2>2. queue'[Main] = <<<<"listen", NoConn, 0>>>> /\ \A k \in Loops : k # Main => queue'[k] = queue[k]
    BY <1>1, <1>4, <2>1 DEF Push
  <2>3. ListenFirst(queue'[Main])
    BY <2>2 DEF ListenFirst
  <2>4. \A k \in Loops : ListenFirst(queue'[k])
    BY <2>2, <2>3 DEF ListenInv
  <2>5. /\ ~InQueue(Main, "listen", NoConn)
        /\ \A k \in Loops : k # Main => (InQueue(k, "listen", NoConn)' <=> InQueue(k, "listen", NoConn))
    BY <1>4, <2>2, HasEmpty DEF InQueue
  <2>6. Bit(listening') + Bit(InQueue(Main, "listen", NoConn)') + Bit(InBatch(Main, "listen", NoConn)') <= starts'
    BY <1>1, <1>2, <1>4, <2>5 DEF ListenInv, Bit
  <2>7. QED
    BY <1>1, <1>2, <1>4, <2>4, <2>5, <2>6 DEF ListenInv, Pending
<1>5. QED
  BY <1>3, <1>4 DEF Start

LEMMA TaskListenListen == ASSUME LifeInv, ListenInv, failed = "none", NEW l \in Loops, TaskListen(l) PROVE ListenInv'
<1>1. /\ Take(l, "listen") /\ UNCHANGED <<starts, queue>> /\ listening' /\ Main \in Loops
      /\ failed' = "addChannel" => listening
  BY DEF TaskListen, Listen, AssertThat, Loops
<1>2. batch \in [Loops -> Seq(Tasks)] /\ batch[l] \in Seq(Tasks) /\ batch[l] # <<>> /\ batch' = [batch EXCEPT ![l] = Tail(@)]
  BY <1>1 DEF LifeInv, TypeOK, Take, TaskReady
<1>3. l = Main /\ InBatch(Main, "listen", NoConn)
  <2>1. "listen" \in Ops /\ TypeOK /\ \A k \in Loops : LoopOK(k)
    BY DEF Ops, LifeInv
  <2>2. PICK c : c = Arg(l)
    OBVIOUS
  <2>3. InBatch(l, "listen", NoConn)
    BY <1>1, <2>1, <2>2, TakeEffect
  <2>4. QED
    BY <2>3 DEF ListenInv, Pending
<1>4. QueueQuiet /\ BatchQuiet
  BY <1>1 DEF QueueQuiet, BatchQuiet
<1>5. /\ \A k \in Loops : ListenFirst(queue'[k]) /\ ListenFirst(batch'[k])
      /\ \A k \in Loops : Pending(k, "listen", NoConn)' => Pending(k, "listen", NoConn)
      /\ InQueue(Main, "listen", NoConn)' <=> InQueue(Main, "listen", NoConn)
  BY <1>1, <1>4, QuietQueue, QuietBatch DEF Pending
<1>6. ~InBatch(Main, "listen", NoConn)'
  BY <1>2, <1>3, FirstTail DEF InBatch, ListenInv
<1>7. /\ Bit(listening') + Bit(InQueue(Main, "listen", NoConn)') + Bit(InBatch(Main, "listen", NoConn)') <= starts'
      /\ listening => starts > 1
  BY <1>1, <1>3, <1>5, <1>6 DEF ListenInv, Bit
<1>8. QED
  BY <1>1, <1>5, <1>7 DEF ListenInv

LEMMA SwapListen == ASSUME LifeInv, ListenInv, failed = "none", NEW l \in Loops, SwapTasks(l) PROVE ListenInv'
<1>1. /\ UNCHANGED <<starts, listening, failed>> /\ batch' = [batch EXCEPT ![l] = queue[l]]
      /\ queue' = [queue EXCEPT ![l] = <<>>] /\ phase[l] = "events" /\ Main \in Loops
  BY DEF SwapTasks, serverVars, errVars, Loops
<1>2. batch \in [Loops -> Seq(Tasks)] /\ queue \in [Loops -> Seq(Tasks)] /\ batch[l] = <<>>
  BY <1>1 DEF LifeInv, TypeOK, LoopOK
<1>3. /\ batch'[l] = queue[l] /\ queue'[l] = <<>>
      /\ \A k \in Loops : k # l => batch'[k] = batch[k] /\ queue'[k] = queue[k]
  BY <1>1, <1>2
<1>4. /\ ListenFirst(<<>>) /\ ~InBatch(l, "listen", NoConn) /\ ~InQueue(l, "listen", NoConn)'
      /\ InBatch(l, "listen", NoConn)' <=> InQueue(l, "listen", NoConn)
  BY <1>2, <1>3, HasEmpty DEF ListenFirst, InBatch, InQueue
<1>5. \A k \in Loops : k # l => /\ InBatch(k, "listen", NoConn)' <=> InBatch(k, "listen", NoConn)
                                /\ InQueue(k, "listen", NoConn)' <=> InQueue(k, "listen", NoConn)
  BY <1>3 DEF InBatch, InQueue
<1>6. \A k \in Loops : ListenFirst(queue'[k]) /\ ListenFirst(batch'[k])
  BY <1>3, <1>4 DEF ListenInv
<1>7. \A k \in Loops : Pending(k, "listen", NoConn)' => Pending(k, "listen", NoConn)
  BY <1>4, <1>5 DEF Pending
<1>8. Bit(listening') + Bit(InQueue(Main, "listen", NoConn)') + Bit(InBatch(Main, "listen", NoConn)') <= starts'
  BY <1>1, <1>4, <1>5 DEF ListenInv, Bit
<1>9. QED
  BY <1>1, <1>6, <1>7, <1>8 DEF ListenInv

\* All other steps queue no listen(), and no assertion of addChannel is theirs.
Quiet == QueueQuiet /\ BatchQuiet /\ UNCHANGED <<starts, listening>> /\ failed' # "addChannel"

LEMMA TasksQuiet ==
    ASSUME failed = "none", NEW l \in Loops, RunTask(l), ~TaskListen(l)
    PROVE  Quiet
<1>1. CASE TaskEstablished(l)
  BY <1>1 DEF TaskEstablished, ConnectEstablished, AssertAlso, AssertInLoop, AssertThat, serverVars, Quiet, QueueQuiet,
              BatchQuiet
<1>2. CASE TaskRemove(l)
  BY <1>2 DEF TaskRemove, RemoveConnectionInLoop, AssertAlso, AssertInLoop, AssertThat, Quiet, QueueQuiet, BatchQuiet
<1>3. CASE TaskWriteComplete(l) \/ TaskQueueClose(l)
  BY <1>3 DEF TaskWriteComplete, TaskQueueClose, serverVars, Quiet, QueueQuiet, BatchQuiet
<1>4. CASE TaskDestroyed(l)
  BY <1>4 DEF TaskDestroyed, ConnectDestroyed, RemoveChannel, AssertAlso, AssertInLoop, AssertThat, serverVars, Quiet,
              QueueQuiet, BatchQuiet
<1>5. CASE TaskSend(l) \/ TaskShutdown(l)
  BY <1>5 DEF TaskSend, TaskShutdown, SendInLoop, ShutdownInLoop, AssertAlso, AssertInLoop, AssertThat, serverVars,
              Quiet, QueueQuiet, BatchQuiet
<1>6. CASE TaskClose(l)
  BY <1>6 DEF TaskClose, HandleClose, AssertAlso, AssertInLoop, AssertThat, serverVars, Quiet, QueueQuiet, BatchQuiet
<1>7. CASE TaskDangles(l)
  BY <1>7 DEF TaskDangles, serverVars, loopVars, Quiet, QueueQuiet, BatchQuiet
<1>8. QED
  BY <1>1, <1>2, <1>3, <1>4, <1>5, <1>6, <1>7 DEF RunTask

LEMMA OthersQuiet ==
    ASSUME failed = "none",
           \/ \E l \in Loops : Poll(l) \/ ReturnCallback(l) \/ \E c \in Conns : HandleRead(l, c) \/ HandleWrite(l, c)
           \/ Accept \/ BeginDestroy \/ DestroyStep \/ User \/ Peer
    PROVE  Quiet
<1>1. ASSUME NEW l \in Loops, Poll(l) PROVE Quiet
  BY <1>1 DEF Poll, serverVars, errVars, Quiet, QueueQuiet, BatchQuiet
<1>2. ASSUME NEW l \in Loops, ReturnCallback(l) PROVE Quiet
  BY <1>2 DEF ReturnCallback, ReturnPlain, ReturnToClose, ReturnToRemove, RemoveConnectionInLoop, RemoveChannel, ReturnFrame,
              AssertAlso, AssertInLoop, AssertThat, serverVars, errVars, Quiet, QueueQuiet, BatchQuiet
<1>3. ASSUME NEW l \in Loops, NEW c \in Conns, HandleRead(l, c) \/ HandleWrite(l, c) PROVE Quiet
  <2>1. UNCHANGED <<starts, listening, batch>>
    BY <1>3 DEF HandleRead, HandleWrite, Event, serverVars
  <2>2. failed' # "addChannel"
    BY <1>3 DEF HandleRead, HandleWrite, HandleClose, AssertAlso, AssertInLoop, AssertThat
  <2>3. queue' = queue \/ Push(l, "writeComplete", c, 0)
    BY <1>3 DEF HandleRead, HandleWrite
  <2>4. QED
    BY <2>1, <2>2, <2>3 DEF Quiet, QueueQuiet, BatchQuiet
<1>4. ASSUME NEW c \in Conns, NEW l \in Loops, NewConnection(c, l) PROVE Quiet
  BY <1>4 DEF NewConnection, ConnectEstablished, AssertAlso, AssertInLoop, AssertThat, Quiet, QueueQuiet, BatchQuiet
<1>5. ASSUME BeginDestroy \/ EndDestroy PROVE Quiet
  BY <1>5 DEF BeginDestroy, EndDestroy, AssertThat, loopVars, errVars, Quiet, QueueQuiet, BatchQuiet
<1>6. ASSUME NEW c \in Conns, DestroyConnection(c) PROVE Quiet
  BY <1>6 DEF DestroyConnection, ConnectDestroyed, RemoveChannel, AssertAlso, AssertInLoop, AssertThat, Quiet,
              QueueQuiet, BatchQuiet
<1>7. CASE User
  <2>1. CASE (\E l \in Loops : KeepRef(l)) \/ (\E c \in Conns : DropRef(c))
    BY <2>1 DEF KeepRef, DropRef, serverVars, loopVars, errVars, Quiet, QueueQuiet, BatchQuiet
  <2>2. ASSUME NEW by \in Callers, NEW c \in Conns,
               \/ \E n \in 0..1 : Send(by, c, n)
               \/ Shutdown(by, c) \/ Close(by, c) \/ CloseInNextLoop(by, c)
        PROVE  Quiet
    <3>1. UNCHANGED <<starts, listening, batch>>
      BY <2>2 DEF Send, Shutdown, Close, CloseInNextLoop, CallFrame, serverVars
    <3>2. failed' # "addChannel"
      BY <2>2 DEF Send, Shutdown, Close, CloseInNextLoop, SendInLoop, ShutdownInLoop, AssertAlso, AssertInLoop, AssertThat
    <3>3. QueueQuiet
      BY <2>2 DEF Send, Shutdown, Close, CloseInNextLoop, QueueQuiet
    <3>4. QED
      BY <3>1, <3>2, <3>3 DEF Quiet, BatchQuiet
  <2>3. QED
    BY <1>7, <2>1, <2>2 DEF User
<1>8. CASE Peer
  BY <1>8 DEF Peer, PeerSends, PeerCloses, PeerResets, PeerFrame, serverVars, loopVars, errVars, Quiet, QueueQuiet, BatchQuiet
<1>9. QED
  BY <1>1, <1>2, <1>3, <1>4, <1>5, <1>6, <1>7, <1>8 DEF Accept, DestroyStep

LEMMA StepListen == ASSUME LifeInv, ListenInv, [Next]_vars PROVE ListenInv'
<1>1. CASE UNCHANGED vars \/ Stopped
  <2>1. UNCHANGED <<starts, listening, queue, batch, failed>>
    BY <1>1 DEF Stopped, vars, serverVars, loopVars, errVars
  <2>2. QED
    BY <2>1, ListenFrame DEF QueueQuiet, BatchQuiet
<1>2. ASSUME failed = "none", Quiet PROVE ListenInv'
  BY <1>2, ListenFrame DEF Quiet
<1>3. ASSUME failed = "none", NEW l \in Loops, LoopStep(l) PROVE ListenInv'
  <2>1. CASE Poll(l) \/ \E c \in Conns : HandleRead(l, c) \/ HandleWrite(l, c)
    BY <1>2, <1>3, <2>1, OthersQuiet
  <2>2. CASE SwapTasks(l)
    BY <1>3, <2>2, SwapListen
  <2>3. CASE RunTask(l)
    BY <1>2, <1>3, <2>3, TasksQuiet, TaskListenListen
  <2>4. QED
    BY <1>3, <2>1, <2>2, <2>3 DEF LoopStep
<1>4. ASSUME failed = "none",
             (\E l \in Loops : ReturnCallback(l)) \/ Accept \/ BeginDestroy \/ DestroyStep \/ User \/ Peer
      PROVE  ListenInv'
  BY <1>2, <1>4, OthersQuiet
<1>5. QED
  BY <1>1, <1>3, <1>4, StartListen DEF Next, Running

LEMMA InitListen == Init => ListenInv
<1>1. SUFFICES ASSUME Init PROVE ListenInv
  OBVIOUS
<1>2. Main \in Loops /\ \A l \in Loops : queue[l] = <<>> /\ batch[l] = <<>>
  BY <1>1 DEF Init, Loops
<1>3. \A l \in Loops : ~InQueue(l, "listen", NoConn) /\ ~InBatch(l, "listen", NoConn)
  BY <1>2, HasEmpty DEF InQueue, InBatch
<1>4. starts = 0 /\ listening = FALSE /\ failed = "none"
  BY <1>1 DEF Init
<1>5. ListenFirst(<<>>)
  BY DEF ListenFirst
<1>6. Bit(listening) + Bit(InQueue(Main, "listen", NoConn)) + Bit(InBatch(Main, "listen", NoConn)) <= starts
  BY <1>2, <1>3, <1>4 DEF Bit
<1>7. QED
  BY <1>2, <1>3, <1>4, <1>5, <1>6 DEF ListenInv, Pending

LEMMA ListenAlways == Spec => []ListenInv
<1>1. Init => ListenInv
  BY InitListen
<1>2. LifeInv /\ ListenInv /\ [Next]_vars => ListenInv'
  BY StepListen
<1>3. QED
  BY <1>1, <1>2, LifeAlways, PTL DEF Spec

\* For every number of connections and loops, whatever users and peers do while the
\* loops run: no assertion of conn.cpp and of the poller fails but the four that
\* AssertionsHold names, each in its one case.  Every function runs in the loop it
\* belongs to; removeConnectionInLoop finds its connection in the map, handleClose
\* finds it up, connectEstablished finds it connecting and its channel unknown to
\* the poller, and removeChannel finds the channel registered and, while the server
\* is up, without events.
THEOREM AssertionsNeverFail == Spec => []AssertionsHold
<1>1. LifeInv /\ OnlyThese /\ ListenInv => AssertionsHold
  BY DEF OnlyThese, ListenInv, AssertionsHold
<1>2. QED
  BY <1>1, LifeAlways, ListenAlways, PTL

\* The task that destroys a connection holds a pointer to it until the batch is gone.
LEMMA DyingIsAlive == ASSUME LifeInv, NEW c \in Conns, Dying(c) PROVE Alive(c)
<1>1. io[c] \in Loops /\ ConnOK(c) /\ "connectDestroyed" \in SharedOps
  BY DEF LifeInv, TypeOK, SharedOps
<1>2. CASE Removing(c)
  BY <1>1, <1>2 DEF Removing, InCallback, Alive
<1>3. CASE InQueue(io[c], "connectDestroyed", c)
  <2>1. c \in SharedIn(queue[io[c]])
    BY <1>1, <1>3, SharedInIs DEF InQueue
  <2>2. QED
    BY <1>1, <2>1 DEF Alive
<1>4. CASE InBatch(io[c], "connectDestroyed", c)
  <2>1. c \in held[io[c]]
    BY <1>1, <1>4 DEF ConnOK, Once
  <2>2. QED
    BY <1>1, <2>1 DEF Alive
<1>5. QED
  BY <1>2, <1>3, <1>4 DEF Dying, Destruction, Pending

\* The Channel* in the poller never outlives the TcpConnection that owns the channel:
\* a registered channel is that of a connection in the map, or of one whose
\* connectDestroyed is queued or running.
THEOREM PollerPointersLive == Spec => []RegisteredIsAlive
<1>1. ASSUME LifeInv PROVE RegisteredIsAlive
  <2>1. SUFFICES ASSUME NEW c \in Conns, registered[c] PROVE Alive(c)
    BY DEF RegisteredIsAlive
  <2>2. ConnOK(c)
    BY <1>1 DEF LifeInv
  <2>3. c \in connections \/ Dying(c)
    BY <2>1, <2>2 DEF ConnOK, Stage, Leaving
  <2>4. QED
    BY <1>1, <2>3, DyingIsAlive DEF Alive
<1>2. QED
  BY <1>1, LifeAlways, PTL

\* connectionCallback_ is called once for the connection coming up and once for it
\* going down, and both before ~TcpConnection, however closes by the peer, by the
\* user and by ~TcpServer cross.
THEOREM CallbacksComeInPairs == Spec => []CallbacksPaired
<1>1. ASSUME LifeInv PROVE CallbacksPaired
  <2>1. SUFFICES ASSUME NEW c \in Conns
                 PROVE  /\ downs[c] <= ups[c] /\ ups[c] <= 1
                        /\ c \in accepted /\ ~Alive(c) => downs[c] = 1 \/ failed # "none"
    BY DEF CallbacksPaired
  <2>2. ConnOK(c) /\ state[c] \in States /\ ups[c] \in Nat /\ downs[c] \in Nat
    BY <1>1 DEF LifeInv, TypeOK
  <2>3. downs[c] <= ups[c] /\ ups[c] <= 1
    BY <2>2 DEF ConnOK, Stage, Open, States
  <2>4. ASSUME c \in accepted, ~Alive(c) PROVE downs[c] = 1 \/ failed # "none"
    <3>1. c \notin connections /\ ~Dying(c)
      BY <1>1, <2>4, DyingIsAlive DEF Alive
    <3>2. QED
      BY <2>2, <2>4, <3>1 DEF ConnOK, Leaving, Stage
  <2>5. QED
    BY <2>3, <2>4
<1>2. QED
  BY <1>1, LifeAlways, PTL

-----------------------------------------------------------------------------
(***************************************************************************)
(* The bare pointers                                                       *)
(***************************************************************************)
\* A connection that is not down is in the map while the server is up.
LEMMA UpIsMapped ==
    ASSUME LifeInv, failed = "none", server = "up", NEW c \in Conns, c \in accepted, state[c] # "kDisconnected"
    PROVE  c \in connections
  BY DEF LifeInv, ConnOK, Leaving

\* writeComplete is queued while events are handled.
LEMMA NoneQueued ==
    ASSUME CoverInv, NEW c \in Conns \ escaped, phase[io[c]] = "tasks" PROVE ~InQueue(io[c], "writeComplete", c)
  BY DEF CoverInv, Cover

LEMMA StaysCovered ==
    ASSUME connections' = connections, io' = io, LifeInv,
           \A k \in Loops : \A op, m : InQueue(k, op, m) => InQueue(k, op, m)'
    PROVE  \A m \in Conns : Covered(m) => Covered(m)'
  BY DEF Covered, LifeInv, TypeOK

\* Most steps: what the loops work on gets less, and what is queued is covered.
LEMMA CoverStep ==
    ASSUME LifeInv, CoverInv, Escaping, UNCHANGED <<phase, held, io>>, server' = "up" => server = "up",
           \A k \in Loops : active'[k] \subseteq active[k],
           \A k \in Loops : \A op, m : InBatch(k, op, m)' => InBatch(k, op, m),
           \A k \in Loops : \A op, m : InQueue(k, op, m)' =>
             \/ InQueue(k, op, m)
             \/ m = NoConn \/ m \in escaped'
             \/ m \in Conns /\ op \in OnceOps
             \/ m \in Conns /\ op = "closeInLoop" /\ (server' = "up" => Covered(m))
             \/ /\ m \in Conns /\ op = "writeComplete" /\ Open(m)
                /\ <<m, "read">> \notin active[io[m]] /\ phase[io[m]] = "events",
           \A m \in Conns : Open(m) /\ phase[io[m]] = "events" /\ <<m, "read">> \notin active[io[m]] => Open(m)',
           \A m \in Conns : server' = "up" /\ Covered(m) => Covered(m)',
           \A m \in Conns : server' = "up" /\ cb'[io[m]] = m => cb[io[m]] = m \/ Covered(m)' \/ m \in escaped'
    PROVE  CoverInv'
<1>1. ASSUME NEW c \in Conns \ escaped' PROVE Cover(c)'
  <2>1. Cover(c) /\ c # NoConn /\ io[c] \in Loops /\ io'[c] = io[c] /\ c \in Conns /\ c \notin escaped'
    BY DEF CoverInv, LifeInv, TypeOK, Escaping
  <2>2. \A op \in {"sendInLoop", "shutdownInLoop", "queueClose"} :
          op \notin OnceOps /\ op # "closeInLoop" /\ op # "writeComplete"
    BY DEF OnceOps
  <2>3. \A l \in Loops, op \in {"sendInLoop", "shutdownInLoop", "queueClose"} : ~Pending(l, op, c)'
    BY <2>1, <2>2 DEF Cover, Pending
  <2>4. "writeComplete" \notin OnceOps /\ "closeInLoop" \notin OnceOps
    BY DEF OnceOps
  <2>5. ASSUME InQueue(io[c], "writeComplete", c)'
        PROVE  Open(c)' /\ <<c, "read">> \notin active'[io[c]] /\ phase[io[c]] = "events"
    <3>1. Open(c) /\ phase[io[c]] = "events" /\ <<c, "read">> \notin active[io[c]]
      BY <2>1, <2>4, <2>5 DEF Cover
    <3>2. QED
      BY <2>1, <3>1
  <2>6. ASSUME server' = "up",
               InQueue(io[c], "closeInLoop", c)' \/ cb'[io[c]] = c \/ InBatch(io[c], "writeComplete", c)'
        PROVE  Covered(c)'
    BY <2>1, <2>4, <2>6 DEF Cover
  <2>7. ASSUME server' = "up", InBatch(io[c], "closeInLoop", c)' PROVE Covered(c)' \/ c \in held'[io[c]]
    BY <2>1, <2>7 DEF Cover
  <2>8. QED
    BY <2>1, <2>3, <2>5, <2>6, <2>7 DEF Cover
<1>2. QED
  BY <1>1 DEF CoverInv, Escaping

LEMMA TakeShrinks ==
    ASSUME LifeInv, NEW l \in Loops, NEW op \in Ops, Take(l, op)
    PROVE  \A k \in Loops : \A o, m : InBatch(k, o, m)' => InBatch(k, o, m)
<1>1. PICK c : c = Arg(l)
  OBVIOUS
<1>2. QED
  BY <1>1, TakeEffect DEF LifeInv

LEMMA PushGrows ==
    ASSUME LifeInv, NEW l \in Loops, NEW op \in Ops, NEW c \in Conns \cup {NoConn}, c = NoConn <=> op = "listen",
           NEW n \in Nat, Push(l, op, c, n)
    PROVE  \A k \in Loops : \A o, m : InQueue(k, o, m)' <=> InQueue(k, o, m) \/ (k = l /\ o = op /\ m = c)
  BY PushEffect DEF LifeInv

\* Steps that queue nothing and call nobody back.
LEMMA CoverAside ==
    ASSUME LifeInv, CoverInv, Escaping,
           UNCHANGED <<connections, io, phase, queue, held, active>>, server' = "up" => server = "up",
           \A k \in Loops : \A op, m : InBatch(k, op, m)' => InBatch(k, op, m),
           \A m \in Conns : Open(m) /\ phase[io[m]] = "events" => Open(m)',
           \A k \in Loops : cb'[k] = cb[k] \/ cb'[k] = NoConn
    PROVE  CoverInv'
<1>1. \A k \in Loops : \A op, m : InQueue(k, op, m)' <=> InQueue(k, op, m)
  BY SameTasks
<1>2. \A m \in Conns : io[m] \in Loops /\ m # NoConn
  BY DEF LifeInv, TypeOK
<1>3. \A m \in Conns : Covered(m) => Covered(m)'
  BY <1>1, StaysCovered
<1>4. QED
  BY <1>1, <1>2, <1>3, CoverStep

\* Steps that call back, without the server or for a covered connection.
LEMMA CoverCallback ==
    ASSUME LifeInv, CoverInv, NEW l \in Loops, NEW c \in Conns, Escaping,
           UNCHANGED <<connections, io, phase, queue, held>>, server' = "up" => server = "up",
           \A k \in Loops : active'[k] \subseteq active[k],
           \A k \in Loops : \A op, m : InBatch(k, op, m)' => InBatch(k, op, m),
           \A m \in Conns : Open(m) /\ phase[io[m]] = "events" /\ <<m, "read">> \notin active[io[m]] => Open(m)',
           cb' = [cb EXCEPT ![l] = c],
           server' = "up" => Covered(c) \/ c \in escaped
    PROVE  CoverInv'
<1>1. \A k \in Loops : \A op, m : InQueue(k, op, m)' <=> InQueue(k, op, m)
  BY SameTasks
<1>2. \A m \in Conns : io[m] \in Loops /\ m # NoConn
  BY DEF LifeInv, TypeOK
<1>3. \A m \in Conns : Covered(m) => Covered(m)'
  BY <1>1, StaysCovered
<1>4. ASSUME NEW m \in Conns, server' = "up", cb'[io[m]] = m PROVE cb[io[m]] = m \/ Covered(m)' \/ m \in escaped'
  <2>1. cb \in [Loops -> Conns \cup {NoConn}]
    BY DEF LifeInv, TypeOK
  <2>2. cb'[io[m]] = c \/ cb'[io[m]] = cb[io[m]]
    BY <1>2, <2>1
  <2>3. QED
    BY <1>3, <1>4, <2>2 DEF Escaping
<1>5. QED
  BY <1>1, <1>2, <1>3, <1>4, CoverStep

\* A task that is queued for a connection the user has kept a pointer to.
LEMMA EscapedPush ==
    ASSUME LifeInv, CoverInv, Escaping, NEW c \in Conns, c \in escaped', NEW op \in Ops, op # "listen", NEW n \in Nat,
           Push(io[c], op, c, n), UNCHANGED <<server, connections, io, state, phase, held, active, cb>>,
           \A k \in Loops : \A o, m : InBatch(k, o, m)' => InBatch(k, o, m)
    PROVE  CoverInv'
<1>1. PICK l \in Loops : l = io[c]
  BY DEF LifeInv, TypeOK
<1>2. \A k \in Loops : \A o, m : InQueue(k, o, m)' <=> InQueue(k, o, m) \/ (k = l /\ o = op /\ m = c)
  BY <1>1, PushGrows
<1>3. \A m \in Conns : Covered(m) => Covered(m)'
  BY <1>2, StaysCovered
<1>4. \A m \in Conns : Open(m) => Open(m)'
  BY DEF Open
<1>5. QED
  BY <1>2, <1>3, <1>4, CoverStep

LEMMA PollCover == ASSUME LifeInv, CoverInv, NEW l \in Loops, Poll(l) PROVE CoverInv'
<1>1. /\ UNCHANGED <<server, connections, io, state, queue, batch, cb, refs, escaped>>
      /\ phase[l] = "tasks" /\ batch[l] = <<>>
  BY DEF Poll, userVars, serverVars, connVars
<1>2. /\ \A k \in Loops : k # l => phase'[k] = phase[k] /\ held'[k] = held[k] /\ active'[k] = active[k]
  BY DEF Poll, LifeInv, TypeOK
<1>3. /\ \A k \in Loops : \A op, m : InQueue(k, op, m)' <=> InQueue(k, op, m)
      /\ \A k \in Loops : \A op, m : InBatch(k, op, m)' <=> InBatch(k, op, m)
      /\ \A op, m : ~InBatch(l, op, m)
  BY <1>1, SameTasks, HasEmpty DEF InBatch
<1>4. ASSUME NEW c \in Conns \ escaped PROVE Cover(c)'
  <2>1. Cover(c) /\ io[c] \in Loops
    BY DEF CoverInv, LifeInv, TypeOK
  <2>2. Covered(c)' <=> Covered(c)
    BY <1>1, <1>3, <2>1 DEF Covered
  <2>3. io[c] = l => ~InQueue(io[c], "writeComplete", c)
    BY <1>1, NoneQueued
  <2>4. QED
    BY <1>1, <1>2, <1>3, <2>1, <2>2, <2>3 DEF Cover, Pending, Open
<1>5. QED
  BY <1>1, <1>4 DEF CoverInv

\* A batch with a writeComplete is that of a connection in the map; one with a close
\* is that of such a connection, or it has the connectDestroyed that covers it, too.
LEMMA SwapCover == ASSUME LifeInv, CoverInv, failed = "none", NEW l \in Loops, SwapTasks(l) PROVE CoverInv'
<1>1. /\ UNCHANGED <<server, connections, io, state, active, cb, refs, escaped>>
      /\ phase[l] = "events" /\ cb[l] = NoConn
  BY DEF SwapTasks, Idle, userVars, serverVars, connVars
<1>2. /\ queue'[l] = <<>> /\ batch'[l] = queue[l] /\ batch[l] = <<>> /\ held'[l] = SharedIn(queue[l])
      /\ \A k \in Loops : k # l => queue'[k] = queue[k] /\ batch'[k] = batch[k] /\ held'[k] = held[k]
                                     /\ phase'[k] = phase[k]
  BY DEF SwapTasks, LifeInv, TypeOK, LoopOK
<1>3. /\ \A op, m : ~InQueue(l, op, m)' /\ (InBatch(l, op, m)' <=> InQueue(l, op, m)) /\ ~InBatch(l, op, m)
      /\ \A k \in Loops : k # l =>
           \A op, m : (InQueue(k, op, m)' <=> InQueue(k, op, m)) /\ (InBatch(k, op, m)' <=> InBatch(k, op, m))
  BY <1>2, HasEmpty DEF InQueue, InBatch
<1>4. \A k \in Loops : \A op, m : Pending(k, op, m)' <=> Pending(k, op, m)
  BY <1>3 DEF Pending
<1>5. ASSUME NEW c \in Conns \ escaped PROVE Cover(c)'
  <2>1. Cover(c) /\ io[c] \in Loops /\ c # NoConn
    BY DEF CoverInv, LifeInv, TypeOK
  <2>2. CASE io[c] # l
    <3>1. Covered(c)' <=> Covered(c)
      BY <1>1, <1>3, <2>1, <2>2 DEF Covered
    <3>2. QED
      BY <1>1, <1>2, <1>3, <1>4, <2>1, <2>2, <3>1 DEF Cover, Open
  <2>3. CASE io[c] = l
    <3>1. ASSUME server = "up", InQueue(l, "writeComplete", c) PROVE c \in connections
      <4>1. c \in accepted /\ state[c] # "kDisconnected"
        <5>1. "writeComplete" \in Ops
          BY DEF Ops, SharedOps
        <5>2. QED
          BY <2>1, <2>3, <3>1, <5>1 DEF LifeInv, ConnOK, Where, Pending, Cover, Open
      <4>2. QED
        BY <3>1, <4>1, UpIsMapped
    <3>2. ASSUME server = "up", InQueue(l, "closeInLoop", c) PROVE c \in connections \/ c \in held'[l]
      <4>1. c \in connections \/ InQueue(l, "connectDestroyed", c)
        BY <2>1, <2>3, <3>2 DEF Cover, Covered
      <4>2. "connectDestroyed" \in SharedOps
        BY DEF SharedOps
      <4>3. QED
        BY <1>2, <4>1, <4>2, SharedInIs DEF InQueue
    <3>3. QED
      BY <1>1, <1>3, <1>4, <2>1, <2>3, <3>1, <3>2 DEF Cover, Covered
  <2>4. QED
    BY <2>2, <2>3
<1>6. QED
  BY <1>1, <1>5 DEF CoverInv

LEMMA NewConnectionCover ==
    ASSUME LifeInv, CoverInv, NEW c \in Conns, NEW l \in Loops, NewConnection(c, l) PROVE CoverInv'
<1>1. /\ UNCHANGED <<server, phase, batch, held, active, refs, escaped>>
      /\ c \notin accepted /\ connections' = connections \cup {c} /\ io' = [io EXCEPT ![c] = l]
  BY DEF NewConnection, userVars
<1>2. /\ io'[c] = l /\ \A m \in Conns : m # c => io'[m] = io[m]
      /\ \A m \in Conns : m # c => state'[m] = state[m]
      /\ \A m \in Conns : m # c => (cb'[io[m]] = m => cb[io[m]] = m)
  <2>1. /\ io \in [Conns -> Loops] /\ state \in [Conns -> States] /\ cb \in [Loops -> Conns \cup {NoConn}]
    BY DEF LifeInv, TypeOK
  <2>2. state' = [state EXCEPT ![c] = "kConnected"] \/ state' = [state EXCEPT ![c] = "kConnecting"]
    BY DEF NewConnection, ConnectEstablished
  <2>3. cb' = cb \/ cb' = [cb EXCEPT ![Main] = c]
    BY DEF NewConnection, ConnectEstablished, Callback, NoCallback
  <2>4. \A k \in Loops : cb'[k] = cb[k] \/ cb'[k] = c
    BY <2>1, <2>3
  <2>5. QED
    BY <1>1, <2>1, <2>2, <2>4
<1>3. /\ \A k \in Loops : \A o, m : InQueue(k, o, m) => InQueue(k, o, m)'
      /\ \A k \in Loops : \A o, m : InQueue(k, o, m)' => InQueue(k, o, m) \/ (o = "connectEstablished" /\ m = c)
      /\ \A k \in Loops : \A o, m : InBatch(k, o, m)' <=> InBatch(k, o, m)
  <2>1. CASE queue' = queue
    BY <1>1, <2>1, SameTasks
  <2>2. CASE Push(l, "connectEstablished", c, 0)
    <3>1. "connectEstablished" \in Ops /\ "connectEstablished" # "listen" /\ c # NoConn
      BY DEF Ops, SharedOps
    <3>2. QED
      BY <1>1, <2>2, <3>1, PushGrows, SameTasks
  <2>3. QED
    BY <2>1, <2>2 DEF NewConnection
<1>4. Main \in Loops
  BY DEF Loops
<1>5. ASSUME NEW m \in Conns \ escaped, m # c PROVE Cover(m)'
  <2>1. Cover(m) /\ io[m] \in Loops /\ io'[m] = io[m] /\ state'[m] = state[m]
    BY <1>2, <1>5 DEF CoverInv, LifeInv, TypeOK
  <2>2. Covered(m) => Covered(m)'
    BY <1>1, <1>3, <2>1 DEF Covered
  <2>3. QED
    BY <1>1, <1>2, <1>3, <1>5, <2>1, <2>2 DEF Cover, Pending, Open
<1>6. Cover(c)'
  <2>1. \A k \in Loops, op \in Ops : ~Pending(k, op, c)
    BY <1>1 DEF LifeInv, ConnOK, Where
  <2>2. \A op \in {"sendInLoop", "shutdownInLoop", "queueClose", "writeComplete"} :
          op \in Ops /\ op # "connectEstablished"
    BY DEF Ops, SharedOps
  <2>3. \A k \in Loops, op \in {"sendInLoop", "shutdownInLoop", "queueClose", "writeComplete"} : ~Pending(k, op, c)'
    BY <1>3, <2>1, <2>2 DEF Pending
  <2>4. Covered(c)'
    BY <1>1 DEF Covered
  <2>5. QED
    BY <1>2, <2>3, <2>4 DEF Cover, Pending
<1>7. QED
  BY <1>1, <1>4, <1>5, <1>6 DEF CoverInv

LEMMA ReadCover ==
    ASSUME LifeInv, CoverInv, failed = "none", NEW l \in Loops, NEW c \in Conns, HandleRead(l, c) PROVE CoverInv'
<1>1. Event(l, c, "read") /\ queue' = queue /\ "read" \in Kinds /\ <<c, "read">> \in active[l]
  BY DEF HandleRead, Event, Kinds
<1>2. /\ UNCHANGED <<server, connections, io, phase, batch, held, refs, escaped>>
      /\ c \in accepted /\ l = io[c] /\ Open(c)
      /\ \A k \in Loops : active'[k] \subseteq active[k]
  BY <1>1, EventEffect DEF serverVars
<1>3. \A k \in Loops : \A op, m : InBatch(k, op, m)' => InBatch(k, op, m)
  BY <1>2, SameTasks
<1>4. server = "up" => Covered(c)
  BY <1>2, UpIsMapped DEF Covered, Open
<1>5. Escaping
  BY <1>2 DEF CoverInv, Escaping
<1>6. CASE Callback(l, c, "return") /\ UNCHANGED connVars
  <2>1. state' = state /\ cb' = [cb EXCEPT ![l] = c]
    BY <1>6 DEF connVars, Callback
  <2>2. \A m \in Conns : Open(m) => Open(m)'
    BY <2>1 DEF Open
  <2>3. QED
    BY <1>1, <1>2, <1>3, <1>4, <1>5, <2>1, <2>2, CoverCallback
<1>7. CASE NoCallback /\ UNCHANGED connVars
  <2>1. state' = state /\ cb' = cb
    BY <1>7 DEF connVars, NoCallback
  <2>2. \A m \in Conns : Open(m) => Open(m)'
    BY <2>1 DEF Open
  <2>3. \A k \in Loops : \A op, m : InQueue(k, op, m)' <=> InQueue(k, op, m)
    BY <1>1, SameTasks
  <2>4. \A m \in Conns : Covered(m) => Covered(m)'
    BY <1>2, <2>3, StaysCovered
  <2>5. QED
    BY <1>2, <1>3, <1>5, <2>1, <2>2, <2>3, <2>4, CoverStep
<1>8. CASE HandleClose(l, c)
  <2>1. state' = [state EXCEPT ![c] = "kDisconnected"] /\ cb' = [cb EXCEPT ![l] = c]
    BY <1>8 DEF HandleClose, Disconnect, Callback
  <2>2. \A m \in Conns : m # c /\ Open(m) => Open(m)'
    BY <2>1 DEF Open, LifeInv, TypeOK
  <2>3. \A m \in Conns : Open(m) /\ phase[io[m]] = "events" /\ <<m, "read">> \notin active[io[m]] => Open(m)'
    BY <1>1, <1>2, <2>2
  <2>4. QED
    BY <1>1, <1>2, <1>3, <1>4, <1>5, <2>1, <2>3, CoverCallback
<1>9. QED
  BY <1>6, <1>7, <1>8 DEF HandleRead

LEMMA WriteCover ==
    ASSUME LifeInv, CoverInv, NEW l \in Loops, NEW c \in Conns, HandleWrite(l, c) PROVE CoverInv'
<1>1. /\ Event(l, c, "write") /\ "write" \in Kinds /\ cb' = cb /\ <<c, "read">> \notin active[l]
      /\ phase[l] = "events"
  BY DEF HandleWrite, Kinds, NoCallback, Event
<1>2. /\ UNCHANGED <<server, connections, io, phase, batch, held, refs, escaped>>
      /\ c \in accepted /\ l = io[c] /\ c # NoConn
      /\ \A k \in Loops : active'[k] \subseteq active[k]
  BY <1>1, EventEffect DEF serverVars
<1>3. \A k \in Loops : \A op, m : InBatch(k, op, m)' => InBatch(k, op, m)
  BY <1>2, SameTasks
<1>4. /\ state' = state
      /\ queue' = queue \/ (Push(l, "writeComplete", c, 0) /\ "write" \in events[c])
  BY DEF HandleWrite, connVars
<1>5. \A m \in Conns : Open(m) => Open(m)'
  BY <1>4 DEF Open
<1>6. "write" \in events[c] => Open(c)
  <2>1. ConnOK(c) /\ state[c] \in States
    BY DEF LifeInv, TypeOK
  <2>2. QED
    BY <2>1 DEF ConnOK, Stage, Open, States
<1>7. /\ \A k \in Loops : \A o, m : InQueue(k, o, m) => InQueue(k, o, m)'
      /\ \A k \in Loops : \A o, m : InQueue(k, o, m)' =>
           InQueue(k, o, m) \/ (o = "writeComplete" /\ m = c /\ Open(c))
  <2>1. "writeComplete" \in Ops /\ "writeComplete" # "listen" /\ 0 \in Nat
    BY DEF Ops, SharedOps
  <2>2. QED
    BY <1>2, <1>4, <1>6, <2>1, SameTasks, PushGrows
<1>8. \A m \in Conns : Covered(m) => Covered(m)'
  BY <1>2, <1>7, StaysCovered
<1>9. Escaping
  BY <1>2 DEF CoverInv, Escaping
<1>10. QED
  BY <1>1, <1>2, <1>3, <1>5, <1>7, <1>8, <1>9, CoverStep

\* Tasks that call back
LEMMA TaskCallbackCover ==
    ASSUME LifeInv, CoverInv, failed = "none", NEW l \in Loops,
           TaskEstablished(l) \/ TaskWriteComplete(l) \/ TaskClose(l) \/ TaskDestroyed(l)
    PROVE  CoverInv'
<1>1. /\ UNCHANGED <<server, connections, io, accepted, phase, queue, held, active, refs, escaped>> /\ Escaping
      /\ \/ Take(l, "connectEstablished") \/ Take(l, "writeComplete") \/ Take(l, "closeInLoop")
         \/ Take(l, "connectDestroyed")
  BY DEF TaskEstablished, TaskWriteComplete, TaskClose, TaskDestroyed, TaskFrame, serverVars, userVars, CoverInv,
         Escaping
<1>2. \A op \in {"connectEstablished", "writeComplete", "closeInLoop", "connectDestroyed"} :
        op \in Ops /\ op \in Ops \ {"listen"} /\ op # "removeConnectionInLoop"
  BY DEF Ops, SharedOps
<1>3. PICK c : c = Arg(l)
  OBVIOUS
<1>4. c \in Conns /\ c \in accepted /\ l = io[c] /\ phase[l] = "tasks" /\ cb[l] = NoConn
  BY <1>1, <1>2, <1>3, TaskConn
<1>5. /\ \A k \in Loops : \A o, m : InBatch(k, o, m)' => InBatch(k, o, m)
      /\ \A k \in Loops : active'[k] \subseteq active[k]
  BY <1>1, <1>2, TakeShrinks
<1>6. ConnOK(c) /\ (c \notin escaped => Cover(c)) /\ state \in [Conns -> States]
  BY <1>4 DEF LifeInv, CoverInv, TypeOK
<1>7. ASSUME NEW s \in States, state' = state \/ state' = [state EXCEPT ![c] = s]
      PROVE  \A m \in Conns : Open(m) /\ phase[io[m]] = "events" => Open(m)'
  <2>1. \A m \in Conns : m # c => state'[m] = state[m]
    BY <1>6, <1>7
  <2>2. QED
    BY <1>4, <2>1 DEF Open
<1>8. CASE TaskEstablished(l)
  <2>1. /\ state' = [state EXCEPT ![c] = "kConnected"] /\ cb' = [cb EXCEPT ![l] = c]
        /\ Take(l, "connectEstablished")
    BY <1>3, <1>8 DEF TaskEstablished, ConnectEstablished, Callback
  <2>2. InBatch(l, "connectEstablished", c)
    BY <1>2, <1>3, <2>1, TaskConn
  <2>3. state[c] = "kConnecting"
    BY <1>4, <1>6, <2>2 DEF ConnOK, Stage, Arriving, Pending
  <2>4. server = "up" => Covered(c)
    BY <1>4, <2>3, UpIsMapped DEF Covered
  <2>5. \A m \in Conns : Open(m) /\ phase[io[m]] = "events" => Open(m)'
    BY <1>7, <2>1 DEF States
  <2>6. QED
    BY <1>1, <1>4, <1>5, <2>1, <2>4, <2>5, CoverCallback
<1>9. CASE TaskWriteComplete(l)
  <2>1. state' = state /\ cb' = [cb EXCEPT ![l] = c] /\ Take(l, "writeComplete")
    BY <1>3, <1>9 DEF TaskWriteComplete, Callback, connVars
  <2>2. InBatch(l, "writeComplete", c)
    BY <1>2, <1>3, <2>1, TaskConn
  <2>3. server = "up" => Covered(c) \/ c \in escaped
    BY <1>4, <1>6, <2>2 DEF Cover
  <2>4. \A m \in Conns : Open(m) => Open(m)'
    BY <2>1 DEF Open
  <2>5. QED
    BY <1>1, <1>4, <1>5, <2>1, <2>3, <2>4, CoverCallback
<1>10. ASSUME state' = [state EXCEPT ![c] = "kDisconnected"], cb' = [cb EXCEPT ![l] = c], server = "up" => Covered(c)
       PROVE  CoverInv'
  <2>1. \A m \in Conns : Open(m) /\ phase[io[m]] = "events" => Open(m)'
    BY <1>7, <1>10 DEF States
  <2>2. QED
    BY <1>1, <1>4, <1>5, <1>10, <2>1, CoverCallback
<1>11. ASSUME state' = state, cb' = cb PROVE CoverInv'
  <2>1. \A m \in Conns : Open(m) => Open(m)'
    BY <1>11 DEF Open
  <2>2. QED
    BY <1>1, <1>5, <1>11, <2>1, CoverAside
<1>12. CASE TaskClose(l)
  <2>1. CASE Open(c)
    <3>1. state' = [state EXCEPT ![c] = "kDisconnected"] /\ cb' = [cb EXCEPT ![l] = c]
      BY <1>3, <1>12, <2>1 DEF TaskClose, HandleClose, Disconnect, Callback
    <3>2. server = "up" => Covered(c)
      BY <1>4, <2>1, UpIsMapped DEF Covered, Open
    <3>3. QED
      BY <1>10, <3>1, <3>2
  <2>2. CASE ~Open(c)
    BY <1>3, <1>11, <1>12, <2>2 DEF TaskClose, NoCallback, connVars
  <2>3. QED
    BY <2>1, <2>2
<1>13. CASE TaskDestroyed(l)
  <2>1. Take(l, "connectDestroyed") /\ ConnectDestroyed(l, c)
    BY <1>3, <1>13 DEF TaskDestroyed
  <2>2. CASE state[c] = "kConnected"
    <3>1. state' = [state EXCEPT ![c] = "kDisconnected"] /\ cb' = [cb EXCEPT ![l] = c]
      BY <2>1, <2>2 DEF ConnectDestroyed, Disconnect, Callback
    <3>2. server = "up" => Covered(c)
      BY <1>4, <2>2, UpIsMapped DEF Covered
    <3>3. QED
      BY <1>10, <3>1, <3>2
  <2>3. CASE state[c] # "kConnected"
    BY <1>11, <2>1, <2>3 DEF ConnectDestroyed, RemoveChannel, NoCallback
  <2>4. QED
    BY <2>2, <2>3
<1>14. QED
  BY <1>8, <1>9, <1>12, <1>13

\* The map lets a connection go, or its loop asks it to.
LEMMA UnmapCover ==
    ASSUME LifeInv, CoverInv, UNCHANGED <<refs, escaped>>, NEW c \in Conns,
           UNCHANGED <<server, io, state, phase, held, active>>,
           \A k \in Loops : \A op, m : InBatch(k, op, m)' => InBatch(k, op, m),
           \A k \in Loops : cb'[k] = cb[k] \/ cb'[k] = NoConn,
           \/ Push(io[c], "connectDestroyed", c, 0) /\ connections' = connections \ {c}
           \/ Push(Main, "removeConnectionInLoop", c, 0) /\ connections' = connections
    PROVE  CoverInv'
<1>1. \A op \in {"connectDestroyed", "removeConnectionInLoop"} : op \in Ops /\ op \in OnceOps /\ op # "listen"
  BY DEF Ops, OnceOps, SharedOps
<1>2. Main \in Loops /\ c # NoConn /\ Escaping /\ \A m \in Conns : io[m] \in Loops /\ m # NoConn
  BY DEF Loops, LifeInv, TypeOK, CoverInv, Escaping
<1>3. \A m \in Conns : Open(m) => Open(m)'
  BY DEF Open
<1>4. CASE Push(io[c], "connectDestroyed", c, 0) /\ connections' = connections \ {c}
  <2>1. PICK l \in Loops : l = io[c]
    BY <1>2
  <2>2. \A k \in Loops : \A o, m : InQueue(k, o, m)' <=> InQueue(k, o, m) \/ (k = l /\ o = "connectDestroyed" /\ m = c)
    BY <1>1, <1>2, <1>4, <2>1, PushGrows
  <2>3. \A m \in Conns : Covered(m) => Covered(m)'
    BY <1>2, <1>4, <2>1, <2>2 DEF Covered
  <2>4. QED
    BY <1>1, <1>2, <1>3, <2>2, <2>3, CoverStep
<1>5. CASE Push(Main, "removeConnectionInLoop", c, 0) /\ connections' = connections
  <2>1. \A k \in Loops : \A o, m : InQueue(k, o, m)' <=>
          InQueue(k, o, m) \/ (k = Main /\ o = "removeConnectionInLoop" /\ m = c)
    BY <1>1, <1>2, <1>5, PushGrows
  <2>2. \A m \in Conns : Covered(m) => Covered(m)'
    BY <1>5, <2>1, StaysCovered
  <2>3. QED
    BY <1>1, <1>2, <1>3, <2>1, <2>2, CoverStep
<1>6. QED
  BY <1>4, <1>5

\* The tasks other threads, or closeInNextLoop, queue are there for the connections
\* that have escaped only.
LEMMA TaskCover ==
    ASSUME LifeInv, CoverInv, failed = "none", NEW l \in Loops, RunTask(l), ~TaskDangles(l)
    PROVE  CoverInv'
<1>1. CASE TaskEstablished(l) \/ TaskWriteComplete(l) \/ TaskClose(l) \/ TaskDestroyed(l)
  BY <1>1, TaskCallbackCover
<1>2. CASE TaskListen(l)
  <2>1. /\ UNCHANGED <<server, connections, io, state, phase, queue, held, active, cb, refs, escaped>> /\ Escaping
        /\ Take(l, "listen")
    BY <1>2 DEF TaskListen, Listen, NoCallback, TaskFrame, connVars, userVars, CoverInv, Escaping
  <2>2. "listen" \in Ops
    BY DEF Ops
  <2>3. \A m \in Conns : Open(m) => Open(m)'
    BY <2>1 DEF Open
  <2>4. QED
    BY <2>1, <2>2, <2>3, TakeShrinks, CoverAside
<1>3. CASE TaskRemove(l)
  <2>1. /\ UNCHANGED <<server, io, state, phase, held, active, cb, refs, escaped>>
        /\ Take(l, "removeConnectionInLoop") /\ RemoveConnectionInLoop(l, Arg(l))
    BY <1>3 DEF TaskRemove, RemoveConnectionInLoop, NoCallback, TaskFrame, connVars, userVars
  <2>2. "removeConnectionInLoop" \in Ops /\ "removeConnectionInLoop" \in Ops \ {"listen"}
    BY DEF Ops, SharedOps
  <2>3. PICK c : c = Arg(l)
    OBVIOUS
  <2>4. c \in Conns /\ Push(io[c], "connectDestroyed", c, 0) /\ connections' = connections \ {c}
    BY <2>1, <2>2, <2>3, TaskConn DEF RemoveConnectionInLoop
  <2>5. QED
    BY <2>1, <2>2, <2>4, TakeShrinks, UnmapCover
<1>4. ASSUME NEW op \in {"sendInLoop", "shutdownInLoop", "queueClose"}, Take(l, op)
      PROVE  Arg(l) \in Conns /\ Arg(l) \in escaped /\ l = io[Arg(l)] /\ Num(l) \in Nat /\ op \in Ops
  <2>1. op \in Ops \ {"listen"} /\ op # "removeConnectionInLoop"
    BY DEF Ops
  <2>2. Arg(l) \in Conns /\ InBatch(l, op, Arg(l)) /\ l = io[Arg(l)] /\ Num(l) \in Nat
    BY <1>4, <2>1, TaskConn
  <2>3. QED
    BY <1>4, <2>1, <2>2 DEF CoverInv, Cover, Pending
<1>5. CASE TaskSend(l) \/ TaskShutdown(l)
  <2>1. /\ UNCHANGED <<server, connections, io, phase, queue, held, active, cb, refs, escaped>> /\ Escaping
        /\ SendInLoop(l, Arg(l), Num(l)) \/ ShutdownInLoop(l, Arg(l))
        /\ Take(l, "sendInLoop") \/ Take(l, "shutdownInLoop")
    BY <1>5 DEF TaskSend, TaskShutdown, NoCallback, TaskFrame, serverVars, userVars, CoverInv, Escaping
  <2>2. "sendInLoop" \in Ops /\ "shutdownInLoop" \in Ops
    BY DEF Ops
  <2>3. \A m \in Conns : Open(m) => Open(m)'
    BY <2>1 DEF SendInLoop, ShutdownInLoop, Open, LifeInv, TypeOK
  <2>4. QED
    BY <2>1, <2>2, <2>3, TakeShrinks, CoverAside
<1>6. CASE TaskQueueClose(l)
  <2>1. /\ UNCHANGED <<server, connections, io, state, phase, held, active, cb, refs, escaped>> /\ Escaping
        /\ Take(l, "queueClose") /\ Push(l, "closeInLoop", Arg(l), Num(l))
    BY <1>6 DEF TaskQueueClose, NoCallback, TaskFrame, serverVars, connVars, userVars, CoverInv, Escaping
  <2>2. PICK c, n : c = Arg(l) /\ n = Num(l)
    OBVIOUS
  <2>3. c \in Conns /\ c \in escaped' /\ n \in Nat /\ Push(io[c], "closeInLoop", c, n) /\ "queueClose" \in Ops
    BY <1>4, <2>1, <2>2
  <2>4. "closeInLoop" \in Ops /\ "closeInLoop" # "listen"
    BY DEF Ops
  <2>5. QED
    BY <2>1, <2>3, <2>4, TakeShrinks, EscapedPush
<1>7. QED
  BY <1>1, <1>2, <1>3, <1>5, <1>6 DEF RunTask

LEMMA ReturnCover ==
    ASSUME LifeInv, CoverInv, NEW l \in Loops, ReturnCallback(l) PROVE CoverInv'
<1>1. /\ UNCHANGED <<phase, batch, held, active, refs, escaped>> /\ Escaping /\ EndCallback(l)
      /\ UNCHANGED <<server, io, state>>
  BY DEF ReturnCallback, ReturnPlain, ReturnToClose, ReturnToRemove, ReturnFrame, userVars, CoverInv, Escaping, serverVars,
         connVars, RemoveChannel, RemoveConnectionInLoop
<1>2. PICK c : c = cb[l]
  OBVIOUS
<1>3. /\ c \in Conns /\ l = io[c]
      /\ \A k \in Loops : cb'[k] = cb[k] \/ cb'[k] = NoConn
  BY <1>1, <1>2, EndEffect
<1>4. /\ \A k \in Loops : \A op, m : InBatch(k, op, m)' => InBatch(k, op, m)
      /\ \A m \in Conns : Open(m) => Open(m)'
  BY <1>1, SameTasks DEF Open
<1>5. CASE ReturnToClose(l)
  <2>1. \/ Push(io[c], "connectDestroyed", c, 0) /\ connections' = connections \ {c}
        \/ Push(Main, "removeConnectionInLoop", c, 0) /\ connections' = connections
    BY <1>2, <1>5 DEF ReturnToClose, RemoveConnectionInLoop, serverVars
  <2>2. QED
    BY <1>1, <1>3, <1>4, <2>1, UnmapCover
<1>6. CASE ReturnPlain(l) \/ ReturnToRemove(l)
  <2>1. UNCHANGED <<connections, queue>>
    BY <1>6 DEF ReturnPlain, ReturnToRemove, serverVars
  <2>2. QED
    BY <1>1, <1>3, <1>4, <2>1, CoverAside
<1>7. QED
  BY <1>5, <1>6 DEF ReturnCallback

\* ~TcpServer; the loop it runs in is running tasks.
LEMMA DestroyCover ==
    ASSUME LifeInv, CoverInv, BeginDestroy \/ DestroyStep PROVE CoverInv'
<1>1. CASE BeginDestroy \/ EndDestroy
  <2>1. /\ UNCHANGED <<connections, io, state, phase, queue, batch, held, active, cb, refs, escaped>> /\ Escaping
        /\ server' = "up" => server = "up"
    BY <1>1 DEF BeginDestroy, EndDestroy, connVars, loopVars, userVars, CoverInv, Escaping
  <2>2. \A m \in Conns : Open(m) => Open(m)'
    BY <2>1 DEF Open
  <2>3. QED
    BY <2>1, <2>2, SameTasks, CoverAside
<1>2. ASSUME NEW c \in Conns, DestroyConnection(c) PROVE CoverInv'
  <2>1. /\ UNCHANGED <<server, io, phase, batch, held, active, refs, escaped>> /\ Escaping /\ server = "destroying"
        /\ connections' = connections \ {c}
    BY <1>2 DEF DestroyConnection, userVars, CoverInv, Escaping
  <2>2. phase[Main] = "tasks" /\ state \in [Conns -> States]
    BY <2>1 DEF LifeInv, ServerOK, TypeOK
  <2>3. \A k \in Loops : \A op, m : InBatch(k, op, m)' => InBatch(k, op, m)
    BY <2>1, SameTasks
  <2>4. CASE io[c] = Main
    <3>1. queue' = queue /\ ConnectDestroyed(Main, c)
      BY <1>2, <2>4 DEF DestroyConnection
    <3>2. \A m \in Conns : m # c => state'[m] = state[m]
      BY <2>2, <3>1 DEF ConnectDestroyed, Disconnect, RemoveChannel
    <3>3. \A m \in Conns : Open(m) /\ phase[io[m]] = "events" => Open(m)'
      BY <2>2, <2>4, <3>2 DEF Open
    <3>4. QED
      BY <2>1, <2>3, <3>1, <3>3, SameTasks, CoverStep
  <2>5. CASE io[c] # Main
    <3>1. Push(io[c], "connectDestroyed", c, 0) /\ UNCHANGED <<state, cb>>
      BY <1>2, <2>5 DEF DestroyConnection, NoCallback, connVars
    <3>2. QED
      BY <2>1, <2>3, <3>1, UnmapCover
  <2>6. QED
    BY <2>4, <2>5
<1>3. QED
  BY <1>1, <1>2 DEF DestroyStep

LEMMA StartCover == ASSUME LifeInv, CoverInv, Start PROVE CoverInv'
<1>1. /\ UNCHANGED <<server, connections, io, state, phase, batch, held, active, cb, refs, escaped>> /\ Escaping
  BY DEF Start, Listen, serverVars, connVars, userVars, CoverInv, Escaping
<1>2. /\ \A k \in Loops : \A op, m : InQueue(k, op, m) => InQueue(k, op, m)'
      /\ \A k \in Loops : \A op, m : InQueue(k, op, m)' => InQueue(k, op, m) \/ m = NoConn
  <2>1. "listen" \in Ops /\ Main \in Loops /\ 0 \in Nat
    BY DEF Ops, Loops
  <2>2. CASE queue' = queue
    BY <2>2, SameTasks
  <2>3. CASE Push(Main, "listen", NoConn, 0)
    BY <2>1, <2>3, PushGrows
  <2>4. QED
    BY <2>2, <2>3 DEF Start
<1>3. \A m \in Conns : Covered(m) => Covered(m)'
  BY <1>1, <1>2, StaysCovered
<1>4. \A k \in Loops : \A op, m : InBatch(k, op, m)' => InBatch(k, op, m)
  BY <1>1, SameTasks
<1>5. \A m \in Conns : Open(m) => Open(m)'
  BY <1>1 DEF Open
<1>6. QED
  BY <1>1, <1>2, <1>3, <1>4, <1>5, CoverStep

\* Without a pointer of their own, users call inside callbacks of the connection, in
\* its loop: send and shutdown run at once, and a close is covered.
LEMMA CallCover == ASSUME LifeInv, CoverInv, User PROVE CoverInv'
<1>1. ASSUME NEW by, NEW c \in Conns, NEW name, MayCall(by, c, name)
      PROVE  c \in escaped \/ (cb[by] = c /\ by = io[c])
  <2>1. c \in refs \/ (by \in Loops /\ cb[by] = c)
    BY <1>1 DEF MayCall
  <2>2. QED
    BY <2>1 DEF CoverInv, LifeInv, ConnOK, Where, Kinds
<1>2. ASSUME (\E l \in Loops : KeepRef(l)) \/ (\E c \in Conns : DropRef(c)) PROVE CoverInv'
  <2>1. UNCHANGED <<server, connections, io, state, phase, batch, queue, held, active, cb>> /\ Escaping
    BY <1>2 DEF KeepRef, DropRef, serverVars, connVars, loopVars, CoverInv, Escaping
  <2>2. \A m \in Conns : Open(m) => Open(m)'
    BY <2>1 DEF Open
  <2>3. QED
    BY <2>1, <2>2, SameTasks, CoverAside
<1>4. ASSUME NEW by, NEW c \in Conns, (\E n \in 0..1 : Send(by, c, n)) \/ Shutdown(by, c) PROVE CoverInv'
  <2>1. UNCHANGED <<server, connections, io, phase, batch, held, active, cb, refs, escaped>> /\ Escaping
    BY <1>4 DEF Send, Shutdown, CallFrame, serverVars, CoverInv, Escaping
  <2>2. CASE by = io[c]
    <3>1. /\ queue' = queue
          /\ (\E n \in 0..1 : SendInLoop(by, c, n)) \/ ShutdownInLoop(by, c)
      BY <1>4, <2>2 DEF Send, Shutdown
    <3>2. \A m \in Conns : Open(m) => Open(m)'
      BY <3>1 DEF SendInLoop, ShutdownInLoop, Open, LifeInv, TypeOK
    <3>3. QED
      BY <2>1, <3>1, <3>2, SameTasks, CoverAside
  <2>3. CASE by # io[c]
    <3>1. c \in escaped'
      BY <1>1, <1>4, <2>1, <2>3 DEF Send, Shutdown
    <3>2. (\E n \in 0..1 : Push(io[c], "sendInLoop", c, n)) \/ Push(io[c], "shutdownInLoop", c, 0)
      BY <1>4, <2>3 DEF Send, Shutdown
    <3>3. \A op \in {"sendInLoop", "shutdownInLoop"} : op \in Ops /\ op # "listen"
      BY DEF Ops
    <3>4. state' = state /\ 0 \in Nat /\ \A n \in 0..1 : n \in Nat
      BY <1>4, <2>3 DEF Send, Shutdown, connVars
    <3>5. QED
      BY <2>1, <3>1, <3>2, <3>3, <3>4, SameTasks, EscapedPush
  <2>4. QED
    BY <2>2, <2>3
<1>5. ASSUME NEW by, NEW c \in Conns, Close(by, c) PROVE CoverInv'
  <2>1. /\ UNCHANGED <<server, connections, io, state, phase, batch, held, active, cb, refs, escaped>> /\ Escaping
        /\ Push(io[c], "closeInLoop", c, 0)
    BY <1>5 DEF Close, CallFrame, serverVars, connVars, CoverInv, Escaping
  <2>2. "closeInLoop" \in Ops /\ "closeInLoop" # "listen" /\ 0 \in Nat
    BY DEF Ops
  <2>3. CASE c \in escaped
    BY <2>1, <2>2, <2>3, SameTasks, EscapedPush
  <2>4. CASE c \notin escaped
    <3>1. cb[io[c]] = c /\ c # NoConn /\ Cover(c)
      BY <1>1, <1>5, <2>4 DEF Close, CoverInv
    <3>2. PICK l \in Loops : l = io[c]
      BY DEF LifeInv, TypeOK
    <3>3. \A k \in Loops : \A o, m : InQueue(k, o, m)' <=> InQueue(k, o, m) \/ (k = l /\ o = "closeInLoop" /\ m = c)
      BY <2>1, <2>2, <3>1, <3>2, PushGrows
    <3>4. server = "up" => Covered(c)
      BY <3>1 DEF Cover
    <3>5. \A m \in Conns : Covered(m) => Covered(m)'
      BY <2>1, <3>3, StaysCovered
    <3>6. \A m \in Conns : Open(m) => Open(m)'
      BY <2>1 DEF Open
    <3>7. \A k \in Loops : \A op, m : InBatch(k, op, m)' => InBatch(k, op, m)
      BY <2>1, SameTasks
    <3>8. QED
      BY <2>1, <3>3, <3>4, <3>5, <3>6, <3>7, CoverStep
  <2>5. QED
    BY <2>3, <2>4
<1>6. ASSUME NEW by, NEW c \in Conns, CloseInNextLoop(by, c) PROVE CoverInv'
  <2>1. /\ UNCHANGED <<server, connections, io, state, phase, batch, held, active, cb, refs>> /\ Escaping
        /\ Push(io[c], "queueClose", c, asked[c]) /\ c \in escaped'
    BY <1>6 DEF CloseInNextLoop, CallFrame, serverVars, connVars, CoverInv, Escaping
  <2>2. "queueClose" \in Ops /\ "queueClose" # "listen" /\ asked[c] \in Nat
    BY DEF Ops, LifeInv, TypeOK
  <2>3. QED
    BY <2>1, <2>2, SameTasks, EscapedPush
<1>7. QED
  BY <1>2, <1>4, <1>5, <1>6 DEF User

LEMMA PeerCover == ASSUME LifeInv, CoverInv, Peer PROVE CoverInv'
<1>1. /\ UNCHANGED <<server, connections, io, state, phase, queue, batch, held, active, cb, refs, escaped>> /\ Escaping
  BY DEF Peer, PeerSends, PeerCloses, PeerResets, PeerFrame, serverVars, connVars, loopVars, userVars, CoverInv,
         Escaping
<1>2. \A m \in Conns : Open(m) => Open(m)'
  BY <1>1 DEF Open
<1>3. QED
  BY <1>1, <1>2, SameTasks, CoverAside

\* A task that dangles: what it points to outlives its batch while the server is up.
LEMMA DanglesCover ==
    ASSUME LifeInv, CoverInv, failed = "none", NEW l \in Loops, TaskDangles(l) PROVE NoDangling'
<1>1. /\ UNCHANGED <<server, connections, io, accepted, batch, phase, cb, escaped>> /\ TaskReady(l)
      /\ \/ Op(l) # "listen" /\ ~Alive(Arg(l)) /\ dangling' = "this"
         \/ Op(l) \in {"listen", "removeConnectionInLoop"} /\ server = "gone" /\ dangling' = "server"
  BY DEF TaskDangles, serverVars, loopVars, userVars
<1>2. PICK op, c : op = Op(l) /\ c = Arg(l)
  OBVIOUS
<1>3. batch[l] \in Seq(Tasks) /\ batch[l] # <<>>
  BY <1>1 DEF LifeInv, TypeOK, TaskReady
<1>4. Head(batch[l]) \in Tasks /\ InBatch(l, op, c)
  <2>1. PICK q : q = batch[l]
    OBVIOUS
  <2>2. Head(q) \in Tasks /\ Has(q, op, c)
    BY <1>2, <1>3, <2>1, HasTail DEF Op, Arg
  <2>3. QED
    BY <2>1, <2>2 DEF InBatch
<1>5. op \in Ops /\ c \in Conns \cup {NoConn} /\ (c = NoConn <=> op = "listen")
  BY <1>2, <1>4 DEF Tasks, Op, Arg
<1>6. CASE c \in escaped
  <2>1. TaskReady(l)' /\ Arg(l)' \in escaped'
    BY <1>1, <1>2, <1>6 DEF TaskReady, Idle, Arg
  <2>2. QED
    BY <2>1 DEF NoDangling
<1>7. CASE c \notin escaped /\ op # "listen" /\ ~Alive(c) /\ dangling' = "this"
  <2>1. c \in Conns /\ ConnOK(c) /\ Cover(c)
    BY <1>5, <1>7 DEF LifeInv, CoverInv
  <2>2. op \notin SharedOps
    BY <1>4, <1>7, <2>1 DEF ConnOK, Once, Alive
  <2>3. op = "closeInLoop"
    BY <1>4, <1>5, <1>7, <2>1, <2>2 DEF Cover, Pending, Ops
  <2>4. l = io[c]
    BY <1>4, <1>5, <2>1, <2>3 DEF ConnOK, Where, Pending
  <2>5. ASSUME server = "up" PROVE Alive(c)
    <3>1. c \in connections \/ InQueue(l, "connectDestroyed", c) \/ c \in held[l]
      BY <1>4, <2>1, <2>3, <2>4, <2>5 DEF Cover, Covered
    <3>2. InQueue(l, "connectDestroyed", c) => c \in SharedIn(queue[l])
      BY SharedInIs DEF InQueue, SharedOps
    <3>3. QED
      BY <3>1, <3>2 DEF Alive
  <2>6. QED
    BY <1>1, <1>7, <2>5 DEF NoDangling
<1>8. CASE dangling' = "server"
  BY <1>8 DEF NoDangling
<1>9. QED
  BY <1>1, <1>2, <1>6, <1>7, <1>8

LEMMA StepCover ==
    ASSUME LifeInv, Running => CoverInv, NoDangling, [Next]_vars
    PROVE  (Running => CoverInv)' /\ NoDangling'
<1>1. CASE UNCHANGED vars \/ Stopped
  <2>1. UNCHANGED vars
    BY <1>1 DEF Stopped
  <2>2. UNCHANGED <<server, connections, io, accepted, state, phase, queue, batch, held, active, cb, refs, escaped,
                    failed, dangling>>
    BY <2>1 DEF vars, serverVars, connVars, loopVars, userVars, errVars
  <2>3. NoDangling'
    BY <2>2 DEF NoDangling, TaskReady, Idle, Arg
  <2>4. ASSUME Running' PROVE CoverInv'
    <3>1. CoverInv /\ Escaping
      BY <2>2, <2>4 DEF Running, CoverInv, Escaping
    <3>2. \A m \in Conns : Open(m) => Open(m)'
      BY <2>2 DEF Open
    <3>3. QED
      BY <2>2, <3>1, <3>2, SameTasks, CoverAside
  <2>5. QED
    BY <2>3, <2>4
<1>2. ASSUME Running, \/ \E l \in Loops : LoopStep(l) \/ ReturnCallback(l)
                      \/ Start \/ Accept \/ BeginDestroy \/ DestroyStep \/ User \/ Peer
      PROVE  (Running => CoverInv)' /\ NoDangling'
  <2>0. CoverInv /\ failed = "none" /\ dangling = "none"
    BY <1>2 DEF Running
  <2>1. ASSUME NEW l \in Loops, TaskDangles(l) PROVE (Running => CoverInv)' /\ NoDangling'
    <3>1. dangling' # "none"
      BY <2>1 DEF TaskDangles
    <3>2. QED
      BY <2>0, <2>1, <3>1, DanglesCover DEF Running
  <2>2. ASSUME NEW l \in Loops, ReturnCallback(l) PROVE (Running => CoverInv)' /\ NoDangling'
    <3>1. CoverInv'
      BY <2>0, <2>2, ReturnCover
    <3>2. dangling' # "this"
      BY <2>0, <2>2 DEF ReturnCallback, ReturnPlain, ReturnToClose, ReturnToRemove, errVars
    <3>3. QED
      BY <3>1, <3>2 DEF NoDangling
  <2>3. ASSUME NEW l \in Loops, LoopStep(l), ~TaskDangles(l) PROVE CoverInv' /\ dangling' = dangling
    <3>1. CASE Poll(l) \/ SwapTasks(l)
      BY <2>0, <3>1, PollCover, SwapCover DEF Poll, SwapTasks, errVars
    <3>2. CASE RunTask(l)
      <4>1. CoverInv'
        BY <2>0, <2>3, <3>2, TaskCover
      <4>2. dangling' = dangling
        BY <2>3, <3>2 DEF RunTask, TaskListen, TaskEstablished, TaskRemove, TaskWriteComplete, TaskDestroyed,
                          TaskSend, TaskShutdown, TaskClose, TaskQueueClose, TaskFrame
      <4>3. QED
        BY <4>1, <4>2
    <3>3. CASE \E c \in Conns : HandleRead(l, c) \/ HandleWrite(l, c)
      BY <2>0, <3>3, ReadCover, WriteCover DEF HandleRead, HandleWrite, Event
    <3>4. QED
      BY <2>3, <3>1, <3>2, <3>3 DEF LoopStep
  <2>4. ASSUME Start \/ Accept \/ BeginDestroy \/ DestroyStep \/ User \/ Peer PROVE CoverInv' /\ dangling' = dangling
    <3>1. CoverInv'
      BY <2>0, <2>4, StartCover, NewConnectionCover, DestroyCover, CallCover, PeerCover DEF Accept
    <3>2. CASE Start \/ Accept \/ BeginDestroy \/ DestroyStep \/ Peer
      BY <3>1, <3>2 DEF Start, Accept, NewConnection, BeginDestroy, DestroyStep, DestroyConnection, EndDestroy, Peer,
                        PeerSends, PeerCloses, PeerResets, PeerFrame, errVars
    <3>3. CASE User
      BY <3>1, <3>3 DEF User, KeepRef, DropRef, Send, Shutdown, Close, CloseInNextLoop, CallFrame, errVars
    <3>4. QED
      BY <2>4, <3>2, <3>3
  <2>5. QED
    BY <1>2, <2>0, <2>1, <2>2, <2>3, <2>4 DEF NoDangling
<1>3. QED
  BY <1>1, <1>2 DEF Next

\* Whatever users do, the bare "this" in the queues never outlives its connection
\* while the server is up, for every number of connections, loops and calls, unless
\* the user has kept a TcpConnectionPtr of that connection beyond a callback or has
\* called closeInNextLoop on it.
THEOREM QueuedPointersLive == Spec => []NoDangling
<1>1. Init => (Running => CoverInv) /\ NoDangling
  <2>1. SUFFICES ASSUME Init PROVE CoverInv /\ NoDangling
    OBVIOUS
  <2>2. /\ queue = [l \in Loops |-> <<>>] /\ batch = [l \in Loops |-> <<>>] /\ cb = [l \in Loops |-> NoConn]
        /\ refs = {} /\ dangling = "none" /\ io \in [Conns -> Loops]
    BY <2>1 DEF Init, Loops
  <2>3. \A l \in Loops : \A op, c : ~InQueue(l, op, c) /\ ~InBatch(l, op, c) /\ ~Pending(l, op, c)
    BY <2>2, HasEmpty DEF InQueue, InBatch, Pending
  <2>4. \A c \in Conns : Cover(c)
    BY <2>2, <2>3 DEF Cover
  <2>5. QED
    BY <2>2, <2>3, <2>4 DEF CoverInv, NoDangling
<1>2. LifeInv /\ (Running => CoverInv) /\ NoDangling /\ [Next]_vars => (Running => CoverInv)' /\ NoDangling'
  BY StepCover
<1>3. QED
  BY <1>1, <1>2, LifeAlways, PTL DEF Spec

-----------------------------------------------------------------------------
(***************************************************************************)
(* The bytes that go before a close.  The tasks in the batch of a loop, and*)
(* then those in its queue, carry the bytes of a connection from what      *)
(* sendInLoop has buffered to what the user asked for; a queueClose stands *)
(* where the tasks before it have carried its number.                      *)
(***************************************************************************)
Bytes(t, c) == IF t[1] = "sendInLoop" /\ t[2] = c THEN t[3] ELSE 0

\* The running total over q goes from f to t.
Flow(q, c, f, t) ==
    \E acc \in [1..Len(q) + 1 -> Nat] :
      /\ acc[1] = f /\ acc[Len(q) + 1] = t
      /\ \A i \in 1..Len(q) : /\ acc[i + 1] = acc[i] + Bytes(q[i], c)
                              /\ q[i][1] = "queueClose" /\ q[i][2] = c => q[i][3] <= acc[i]

\* Over the batch b and then the queue q.
Ahead(b, q, c, f, t) == \E m \in Nat : Flow(b, c, f, m) /\ Flow(q, c, m, t)

\* A closeInLoop in q waits for at most n bytes.
ClosesBy(q, c, n) == \A i \in DOMAIN q : q[i][1] = "closeInLoop" /\ q[i][2] = c => q[i][3] <= n

\* Nobody has called or written to a connection the user was not shown.
ShownOps == {"sendInLoop", "closeInLoop", "queueClose", "writeComplete"}

Fresh(c) ==
    /\ asked[c] = 0 /\ written[c] = 0 /\ output[c] = 0 /\ c \notin refs
    /\ \A l \in Loops : /\ cb[l] # c /\ <<c, "write">> \notin active[l]
                       /\ \A op \in ShownOps : ~Pending(l, op, c)

\* The close of closeInNextLoop is queued when its bytes are buffered, poll reports
\* the socket when there are some, and they are written before the close is run.
InOrder(c) ==
    LET l == io[c] IN
    /\ output[c] > 0 => "write" \in events[c]
    /\ Ahead(batch[l], queue[l], c, written[c] + output[c], asked[c])
    /\ ClosesBy(batch[l], c, written[c])
    /\ ClosesBy(queue[l], c, written[c] + output[c])
    /\ phase[l] = "events" /\ <<c, "write">> \notin active[l] => ClosesBy(queue[l], c, written[c])

Sends(c) == state[c] = "kConnected" /\ ~IsReset(c)

ByteInv ==
    /\ output \in [Conns -> Nat] /\ written \in [Conns -> Nat]
    /\ \A c \in Conns : /\ state[c] \in {"none", "kConnecting"} => Fresh(c)
                        /\ Sends(c) => InOrder(c)

LEMMA BytesNat == ASSUME NEW t \in Tasks, NEW c PROVE Bytes(t, c) \in Nat
  BY DEF Tasks, Bytes

LEMMA FlowEmpty == ASSUME NEW c, NEW f, NEW t PROVE Flow(<<>>, c, f, t) <=> f = t /\ f \in Nat
<1>1. ASSUME f = t, f \in Nat PROVE Flow(<<>>, c, f, t)
  <2> DEFINE acc == [i \in 1..Len(<<>>) + 1 |-> f]
  <2>1. acc \in [1..Len(<<>>) + 1 -> Nat] /\ acc[1] = f /\ acc[Len(<<>>) + 1] = t
    BY <1>1
  <2>2. 1..Len(<<>>) = {}
    OBVIOUS
  <2>3. QED
    BY <2>1, <2>2 DEF Flow
<1>2. ASSUME Flow(<<>>, c, f, t) PROVE f = t /\ f \in Nat
  BY <1>2 DEF Flow
<1>3. QED
  BY <1>1, <1>2

LEMMA FlowAppend ==
    ASSUME NEW q \in Seq(Tasks), NEW x \in Tasks, NEW c, NEW f, NEW t, Flow(q, c, f, t),
           x[1] = "queueClose" /\ x[2] = c => x[3] <= t
    PROVE  Flow(Append(q, x), c, f, t + Bytes(x, c))
<1>1. PICK acc \in [1..Len(q) + 1 -> Nat] :
        /\ acc[1] = f /\ acc[Len(q) + 1] = t
        /\ \A i \in 1..Len(q) : /\ acc[i + 1] = acc[i] + Bytes(q[i], c)
                                /\ q[i][1] = "queueClose" /\ q[i][2] = c => q[i][3] <= acc[i]
  BY DEF Flow
<1>2. PICK n : n = Len(q)
  OBVIOUS
<1>3. PICK b : b = Bytes(x, c)
  OBVIOUS
<1>4. n \in Nat /\ b \in Nat /\ t \in Nat
  BY <1>1, <1>2, <1>3, BytesNat
<1>5. PICK p : p = Append(q, x)
  OBVIOUS
<1>6. Len(p) = n + 1 /\ p[n + 1] = x /\ \A i \in 1..n : p[i] = q[i]
  BY <1>2, <1>5
<1> DEFINE new == [i \in 1..Len(p) + 1 |-> IF i <= n + 1 THEN acc[i] ELSE t + b]
<1>7. new \in [1..Len(p) + 1 -> Nat] /\ new[1] = f /\ new[Len(p) + 1] = t + b
  BY <1>1, <1>2, <1>4, <1>6
<1>8. ASSUME NEW i \in 1..Len(p)
      PROVE  /\ new[i + 1] = new[i] + Bytes(p[i], c)
             /\ p[i][1] = "queueClose" /\ p[i][2] = c => p[i][3] <= new[i]
  <2>1. CASE i = n + 1
    BY <1>1, <1>2, <1>3, <1>4, <1>6, <2>1
  <2>2. CASE i # n + 1
    <3>1. i \in 1..n /\ new[i] = acc[i] /\ new[i + 1] = acc[i + 1] /\ p[i] = q[i]
      BY <1>4, <1>6, <2>2, SMTT(60)
    <3>2. QED
      BY <1>1, <1>2, <3>1
  <2>3. QED
    BY <2>1, <2>2
<1>9. Flow(p, c, f, t + b)
  BY <1>7, <1>8 DEF Flow
<1>10. QED
  BY <1>3, <1>5, <1>9

LEMMA FlowTail ==
    ASSUME NEW q \in Seq(Tasks), q # <<>>, NEW c, NEW f, NEW t, Flow(q, c, f, t)
    PROVE  /\ Flow(Tail(q), c, f + Bytes(Head(q), c), t)
           /\ Head(q)[1] = "queueClose" /\ Head(q)[2] = c => Head(q)[3] <= f
<1>1. PICK acc \in [1..Len(q) + 1 -> Nat] :
        /\ acc[1] = f /\ acc[Len(q) + 1] = t
        /\ \A i \in 1..Len(q) : /\ acc[i + 1] = acc[i] + Bytes(q[i], c)
                                /\ q[i][1] = "queueClose" /\ q[i][2] = c => q[i][3] <= acc[i]
  BY DEF Flow
<1>2. PICK n : n = Len(q)
  OBVIOUS
<1>3. n \in Nat /\ n >= 1 /\ Head(q) = q[1]
  BY <1>2
<1>4. PICK p : p = Tail(q)
  OBVIOUS
<1>5. Len(p) = n - 1 /\ \A i \in 1..n - 1 : p[i] = q[i + 1]
  BY <1>2, <1>3, <1>4
<1> DEFINE new == [i \in 1..Len(p) + 1 |-> acc[i + 1]]
<1>6. acc[2] = f + Bytes(Head(q), c)
  BY <1>1, <1>2, <1>3
<1>7. new \in [1..Len(p) + 1 -> Nat] /\ new[1] = acc[2] /\ new[Len(p) + 1] = t
  BY <1>1, <1>2, <1>3, <1>5
<1>8. ASSUME NEW i \in 1..Len(p)
      PROVE  /\ new[i + 1] = new[i] + Bytes(p[i], c)
             /\ p[i][1] = "queueClose" /\ p[i][2] = c => p[i][3] <= new[i]
  <2>1. i + 1 \in 1..n /\ p[i] = q[i + 1] /\ new[i] = acc[i + 1] /\ new[i + 1] = acc[(i + 1) + 1]
    BY <1>3, <1>5
  <2>2. QED
    BY <1>1, <1>2, <2>1
<1>9. Flow(p, c, acc[2], t)
  BY <1>7, <1>8 DEF Flow
<1>10. QED
  BY <1>1, <1>2, <1>3, <1>4, <1>6, <1>9

LEMMA FlowShift ==
    ASSUME NEW q \in Seq(Tasks), NEW c, NEW f, NEW t, NEW n \in Nat, Flow(q, c, f, t)
    PROVE  Flow(q, c, f + n, t + n)
<1>1. PICK acc \in [1..Len(q) + 1 -> Nat] :
        /\ acc[1] = f /\ acc[Len(q) + 1] = t
        /\ \A i \in 1..Len(q) : /\ acc[i + 1] = acc[i] + Bytes(q[i], c)
                                /\ q[i][1] = "queueClose" /\ q[i][2] = c => q[i][3] <= acc[i]
  BY DEF Flow
<1> DEFINE new == [i \in 1..Len(q) + 1 |-> acc[i] + n]
<1>2. Len(q) \in Nat
  OBVIOUS
<1>3. new \in [1..Len(q) + 1 -> Nat] /\ new[1] = f + n /\ new[Len(q) + 1] = t + n
  BY <1>1, <1>2
<1>4. ASSUME NEW i \in 1..Len(q)
      PROVE  /\ new[i + 1] = new[i] + Bytes(q[i], c)
             /\ q[i][1] = "queueClose" /\ q[i][2] = c => q[i][3] <= new[i]
  <2>1. q[i] \in Tasks /\ acc[i] \in Nat
    BY <1>1, <1>2
  <2>2. Bytes(q[i], c) \in Nat /\ q[i][3] \in Nat
    BY <2>1, BytesNat DEF Tasks
  <2>3. new[i] = acc[i] + n /\ new[i + 1] = acc[i + 1] + n
    BY <1>2
  <2>4. QED
    BY <1>1, <2>1, <2>2, <2>3, SMTT(60)
<1>5. QED
  BY <1>3, <1>4 DEF Flow

LEMMA FlowNone ==
    ASSUME NEW q \in Seq(Tasks), NEW c, NEW n \in Nat, ~Has(q, "sendInLoop", c), ~Has(q, "queueClose", c)
    PROVE  Flow(q, c, n, n)
<1> DEFINE acc == [i \in 1..Len(q) + 1 |-> n]
<1>1. Len(q) \in Nat /\ DOMAIN q = 1..Len(q)
  OBVIOUS
<1>2. acc \in [1..Len(q) + 1 -> Nat] /\ acc[1] = n /\ acc[Len(q) + 1] = n
  BY <1>1
<1>3. ASSUME NEW i \in 1..Len(q)
      PROVE  /\ acc[i + 1] = acc[i] + Bytes(q[i], c)
             /\ q[i][1] = "queueClose" /\ q[i][2] = c => q[i][3] <= acc[i]
  <2>1. acc[i] = n /\ acc[i + 1] = n
    BY <1>1
  <2>2. Bytes(q[i], c) = 0 /\ ~(q[i][1] = "queueClose" /\ q[i][2] = c)
    BY <1>1 DEF Bytes, Has
  <2>3. QED
    BY <2>1, <2>2
<1>4. QED
  BY <1>2, <1>3 DEF Flow

\* Over the batch and the queue.
LEMMA AheadAppend ==
    ASSUME NEW b, NEW q \in Seq(Tasks), NEW x \in Tasks, NEW c, NEW f, NEW t, Ahead(b, q, c, f, t),
           x[1] = "queueClose" /\ x[2] = c => x[3] <= t
    PROVE  Ahead(b, Append(q, x), c, f, t + Bytes(x, c))
  BY FlowAppend DEF Ahead

LEMMA AheadTail ==
    ASSUME NEW b \in Seq(Tasks), b # <<>>, NEW q, NEW c, NEW f, NEW t, Ahead(b, q, c, f, t)
    PROVE  /\ Ahead(Tail(b), q, c, f + Bytes(Head(b), c), t)
           /\ Head(b)[1] = "queueClose" /\ Head(b)[2] = c => Head(b)[3] <= f
  BY FlowTail DEF Ahead

LEMMA AheadShift ==
    ASSUME NEW b \in Seq(Tasks), NEW q \in Seq(Tasks), NEW c, NEW f, NEW t, NEW n \in Nat, Ahead(b, q, c, f, t)
    PROVE  Ahead(b, q, c, f + n, t + n)
<1>1. PICK m \in Nat : Flow(b, c, f, m) /\ Flow(q, c, m, t)
  BY DEF Ahead
<1>2. Flow(b, c, f + n, m + n) /\ Flow(q, c, m + n, t + n) /\ m + n \in Nat
  BY <1>1, FlowShift
<1>3. QED
  BY <1>2 DEF Ahead

LEMMA AheadSwap ==
    ASSUME NEW q \in Seq(Tasks), NEW c, NEW f, NEW t \in Nat, Ahead(<<>>, q, c, f, t)
    PROVE  Ahead(q, <<>>, c, f, t)
<1>1. PICK m \in Nat : Flow(<<>>, c, f, m) /\ Flow(q, c, m, t)
  BY DEF Ahead
<1>2. Flow(q, c, f, t) /\ Flow(<<>>, c, t, t)
  BY <1>1, FlowEmpty
<1>3. QED
  BY <1>2 DEF Ahead

LEMMA ClosesByAppend ==
    ASSUME NEW q \in Seq(Tasks), NEW x \in Tasks, NEW c, NEW n, ClosesBy(q, c, n),
           x[1] = "closeInLoop" /\ x[2] = c => x[3] <= n
    PROVE  ClosesBy(Append(q, x), c, n)
<1>1. PICK p : p = Append(q, x)
  OBVIOUS
<1>2. /\ Len(q) \in Nat /\ DOMAIN q = 1..Len(q) /\ DOMAIN p = 1..Len(q) + 1
      /\ p[Len(q) + 1] = x /\ \A i \in 1..Len(q) : p[i] = q[i]
  BY <1>1
<1>3. ASSUME NEW i \in DOMAIN p, p[i][1] = "closeInLoop", p[i][2] = c PROVE p[i][3] <= n
  <2>1. CASE i = Len(q) + 1
    BY <1>2, <1>3, <2>1
  <2>2. CASE i # Len(q) + 1
    <3>1. i \in DOMAIN q /\ p[i] = q[i]
      BY <1>2, <2>2
    <3>2. QED
      BY <1>3, <3>1 DEF ClosesBy
  <2>3. QED
    BY <2>1, <2>2
<1>4. QED
  BY <1>1, <1>3 DEF ClosesBy

LEMMA ClosesByTail ==
    ASSUME NEW q \in Seq(Tasks), q # <<>>, NEW c, NEW n, ClosesBy(q, c, n)
    PROVE  /\ ClosesBy(Tail(q), c, n)
           /\ Head(q)[1] = "closeInLoop" /\ Head(q)[2] = c => Head(q)[3] <= n
<1>1. PICK p : p = Tail(q)
  OBVIOUS
<1>2. /\ Len(q) \in Nat /\ DOMAIN q = 1..Len(q) /\ DOMAIN p = 1..Len(q) - 1 /\ Len(q) >= 1 /\ Head(q) = q[1]
      /\ \A i \in 1..Len(q) - 1 : p[i] = q[i + 1]
  BY <1>1
<1>3. ASSUME NEW i \in DOMAIN p, p[i][1] = "closeInLoop", p[i][2] = c PROVE p[i][3] <= n
  <2>1. i + 1 \in DOMAIN q /\ p[i] = q[i + 1]
    BY <1>2
  <2>2. QED
    BY <1>3, <2>1 DEF ClosesBy
<1>4. Head(q)[1] = "closeInLoop" /\ Head(q)[2] = c => Head(q)[3] <= n
  <2>1. 1 \in DOMAIN q
    BY <1>2
  <2>2. QED
    BY <1>2, <2>1 DEF ClosesBy
<1>5. QED
  BY <1>1, <1>3, <1>4 DEF ClosesBy

LEMMA ClosesByMore ==
    ASSUME NEW q \in Seq(Tasks), NEW c, NEW n \in Nat, NEW m \in Nat, n <= m, ClosesBy(q, c, n)
    PROVE  ClosesBy(q, c, m)
<1>1. ASSUME NEW i \in DOMAIN q PROVE q[i][3] \in Nat
  <2>1. q[i] \in Tasks
    OBVIOUS
  <2>2. QED
    BY <2>1 DEF Tasks
<1>2. QED
  BY <1>1 DEF ClosesBy

LEMMA ClosesByNone == ASSUME NEW q, NEW c, NEW n, ~Has(q, "closeInLoop", c) PROVE ClosesBy(q, c, n)
  BY DEF ClosesBy, Has

LEMMA ClosesByEmpty == ASSUME NEW c, NEW n PROVE ClosesBy(<<>>, c, n)
  BY ClosesByNone, HasEmpty

-----------------------------------------------------------------------------
\* What a step has to do to queue and batch of a loop to keep a connection in order
\* when it moves none of its bytes: queue a task, or take one.
QueueGrows(l, c) ==
    \/ queue'[l] = queue[l]
    \/ \E x \in Tasks : queue'[l] = Append(queue[l], x) /\ (x[1] \in ShownOps => x[2] # c)

BatchShrinks(l, c) ==
    \/ batch'[l] = batch[l]
    \/ /\ batch[l] # <<>> /\ batch'[l] = Tail(batch[l])
       /\ Head(batch[l])[1] \in {"sendInLoop", "queueClose"} => Head(batch[l])[2] # c

LEMMA PushIs ==
    ASSUME TypeOK, NEW l \in Loops, NEW op \in Ops, NEW c \in Conns \cup {NoConn}, NEW n \in Nat,
           c = NoConn <=> op = "listen", Push(l, op, c, n)
    PROVE  /\ <<op, c, n>> \in Tasks
           /\ queue'[l] = Append(queue[l], <<op, c, n>>)
           /\ \A k \in Loops : k # l => queue'[k] = queue[k]
           /\ \A k \in Loops, m \in Conns : op \notin ShownOps \/ c # m => QueueGrows(k, m)
<1>1. queue \in [Loops -> Seq(Tasks)]
  BY DEF TypeOK
<1>2. <<op, c, n>> \in Tasks
  BY DEF Tasks
<1>3. queue'[l] = Append(queue[l], <<op, c, n>>) /\ \A k \in Loops : k # l => queue'[k] = queue[k]
  BY <1>1 DEF Push
<1>4. PICK x : x = <<op, c, n>>
  OBVIOUS
<1>5. x[1] = op /\ x[2] = c /\ x \in Tasks /\ queue'[l] = Append(queue[l], x)
  BY <1>2, <1>3, <1>4
<1>6. ASSUME NEW k \in Loops, NEW m \in Conns, op \notin ShownOps \/ c # m PROVE QueueGrows(k, m)
  BY <1>3, <1>5, <1>6 DEF QueueGrows
<1>7. QED
  BY <1>2, <1>3, <1>6

LEMMA TakeIs ==
    ASSUME TypeOK, NEW l \in Loops, NEW op, Take(l, op)
    PROVE  /\ batch[l] \in Seq(Tasks) /\ batch[l] # <<>> /\ batch'[l] = Tail(batch[l])
           /\ Head(batch[l]) \in Tasks
           /\ Head(batch[l])[1] = op /\ Head(batch[l])[2] = Arg(l) /\ Head(batch[l])[3] = Num(l)
           /\ \A k \in Loops : k # l => batch'[k] = batch[k]
           /\ \A k \in Loops, m \in Conns : op \notin {"sendInLoop", "queueClose"} \/ Arg(l) # m => BatchShrinks(k, m)
<1>1. batch \in [Loops -> Seq(Tasks)] /\ batch' = [batch EXCEPT ![l] = Tail(@)] /\ batch[l] # <<>>
  BY DEF TypeOK, Take, TaskReady
<1>2. batch[l] \in Seq(Tasks) /\ batch'[l] = Tail(batch[l]) /\ \A k \in Loops : k # l => batch'[k] = batch[k]
  BY <1>1
<1>3. Head(batch[l])[1] = op /\ Head(batch[l])[2] = Arg(l) /\ Head(batch[l])[3] = Num(l)
  BY DEF Take, Op, Arg, Num
<1>4. Head(batch[l]) \in Tasks
  BY <1>1, <1>2
<1>5. ASSUME NEW k \in Loops, NEW m \in Conns, op \notin {"sendInLoop", "queueClose"} \/ Arg(l) # m
      PROVE  BatchShrinks(k, m)
  BY <1>1, <1>2, <1>3, <1>5 DEF BatchShrinks
<1>6. QED
  BY <1>1, <1>2, <1>3, <1>4, <1>5

Unshown == {"none", "kConnecting"}

BytesOK(c) == (state[c] \in Unshown => Fresh(c)) /\ (Sends(c) => InOrder(c))

\* A step that moves none of its bytes, and shows it to nobody new.
StillBytes(c) ==
    /\ io'[c] = io[c] /\ asked'[c] = asked[c] /\ written'[c] = written[c] /\ output'[c] = output[c]
    /\ state'[c] = state[c] \/ state'[c] \notin Unshown \cup {"kConnected"}
    /\ IsReset(c) => IsReset(c)'
    /\ state'[c] = "kConnected" =>
         /\ "write" \in events[c] => "write" \in events'[c]
         /\ <<c, "write">> \in active[io[c]] => <<c, "write">> \in active'[io[c]]
    /\ state'[c] \in Unshown =>
         /\ c \in refs' => c \in refs
         /\ cb'[io[c]] = c => cb[io[c]] = c
         /\ <<c, "write">> \in active'[io[c]] => <<c, "write">> \in active[io[c]]
    /\ phase'[io[c]] = phase[io[c]]
    /\ QueueGrows(io[c], c) /\ BatchShrinks(io[c], c)

LEMMA StaysInOrder ==
    ASSUME LifeInv, ByteInv, NEW c \in Conns, InOrder(c), StillBytes(c), state'[c] = "kConnected"
    PROVE  InOrder(c)'
<1>1. PICK l \in Loops : l = io[c]
  BY DEF LifeInv, TypeOK
<1>2. /\ io'[c] = l /\ asked'[c] = asked[c] /\ written'[c] = written[c] /\ output'[c] = output[c]
      /\ "write" \in events[c] => "write" \in events'[c]
      /\ <<c, "write">> \in active[l] => <<c, "write">> \in active'[l]
      /\ phase'[l] = phase[l] /\ QueueGrows(l, c) /\ BatchShrinks(l, c)
  BY <1>1 DEF StillBytes
<1>3. PICK q, b, w, o, a : q = queue[l] /\ b = batch[l] /\ w = written[c] /\ o = output[c] /\ a = asked[c]
  OBVIOUS
<1>4. q \in Seq(Tasks) /\ b \in Seq(Tasks) /\ w \in Nat /\ o \in Nat /\ w + o \in Nat /\ a \in Nat
  BY <1>1, <1>3 DEF LifeInv, TypeOK, ByteInv
<1>5. /\ o > 0 => "write" \in events[c]
      /\ Ahead(b, q, c, w + o, a)
      /\ ClosesBy(b, c, w) /\ ClosesBy(q, c, w + o)
      /\ phase[l] = "events" /\ <<c, "write">> \notin active[l] => ClosesBy(q, c, w)
  BY <1>1, <1>3 DEF InOrder
<1>6. PICK p, d : p = queue'[l] /\ d = batch'[l]
  OBVIOUS
<1>7. /\ Ahead(b, p, c, w + o, a) /\ ClosesBy(p, c, w + o)
      /\ ClosesBy(q, c, w) => ClosesBy(p, c, w)
  <2>1. CASE p = q
    BY <1>5, <2>1
  <2>2. ASSUME NEW x \in Tasks, p = Append(q, x), x[1] \in ShownOps => x[2] # c
        PROVE  /\ Ahead(b, p, c, w + o, a) /\ ClosesBy(p, c, w + o)
               /\ ClosesBy(q, c, w) => ClosesBy(p, c, w)
    <3>1. Bytes(x, c) = 0 /\ ~(x[1] = "queueClose" /\ x[2] = c) /\ ~(x[1] = "closeInLoop" /\ x[2] = c)
      BY <2>2 DEF Bytes, ShownOps
    <3>2. Ahead(b, p, c, w + o, a + 0)
      BY <1>4, <1>5, <2>2, <3>1, AheadAppend
    <3>3. a + 0 = a
      BY <1>4
    <3>4. QED
      BY <1>4, <1>5, <2>2, <3>1, <3>2, <3>3, ClosesByAppend
  <2>3. QED
    BY <1>2, <1>3, <1>6, <2>1, <2>2 DEF QueueGrows
<1>8. Ahead(d, p, c, w + o, a) /\ ClosesBy(d, c, w)
  <2>1. CASE d = b
    BY <1>5, <1>7, <2>1
  <2>2. ASSUME b # <<>>, d = Tail(b), Head(b)[1] \in {"sendInLoop", "queueClose"} => Head(b)[2] # c
        PROVE  Ahead(d, p, c, w + o, a) /\ ClosesBy(d, c, w)
    <3>1. Bytes(Head(b), c) = 0
      BY <2>2 DEF Bytes, ShownOps
    <3>2. Ahead(d, p, c, (w + o) + 0, a)
      BY <1>4, <1>7, <2>2, <3>1, AheadTail
    <3>3. (w + o) + 0 = w + o
      BY <1>4
    <3>4. QED
      BY <1>4, <1>5, <2>2, <3>2, <3>3, ClosesByTail
  <2>3. QED
    BY <1>2, <1>3, <1>6, <2>1, <2>2 DEF BatchShrinks
<1>9. QED
  BY <1>2, <1>3, <1>5, <1>6, <1>7, <1>8 DEF InOrder

LEMMA StaysFresh ==
    ASSUME LifeInv, LifeInv', NEW c \in Conns, Fresh(c), StillBytes(c), state'[c] \in Unshown
    PROVE  Fresh(c)'
<1>1. PICK l \in Loops : l = io[c]
  BY DEF LifeInv, TypeOK
<1>2. /\ io'[c] = l /\ asked'[c] = asked[c] /\ written'[c] = written[c] /\ output'[c] = output[c]
      /\ c \in refs' => c \in refs
      /\ cb'[l] = c => cb[l] = c
      /\ <<c, "write">> \in active'[l] => <<c, "write">> \in active[l]
      /\ QueueGrows(l, c) /\ BatchShrinks(l, c)
  BY <1>1 DEF StillBytes
<1>3. queue[l] \in Seq(Tasks) /\ batch[l] \in Seq(Tasks)
  BY DEF LifeInv, TypeOK
<1>4. ASSUME NEW op \in ShownOps PROVE ~Pending(l, op, c)'
  <2>1. ~Has(queue[l], op, c) /\ ~Has(batch[l], op, c)
    BY <1>4 DEF Fresh, Pending, InQueue, InBatch
  <2>2. ~Has(queue'[l], op, c)
    <3>1. ASSUME NEW x \in Tasks, queue'[l] = Append(queue[l], x), x[1] \in ShownOps => x[2] # c
          PROVE  ~Has(queue'[l], op, c)
      <4>1. Has(Append(queue[l], x), op, c) <=> Has(queue[l], op, c) \/ (x[1] = op /\ x[2] = c)
        BY <1>3, <3>1, HasAppend
      <4>2. QED
        BY <1>4, <2>1, <3>1, <4>1
    <3>2. QED
      BY <1>2, <2>1, <3>1 DEF QueueGrows
  <2>3. ~Has(batch'[l], op, c)
    BY <1>2, <1>3, <2>1, HasTail DEF BatchShrinks
  <2>4. QED
    BY <2>2, <2>3 DEF Pending, InQueue, InBatch
<1>5. ASSUME NEW k \in Loops, k # l 
      PROVE  cb'[k] # c /\ <<c, "write">> \notin active'[k] /\ \A op \in ShownOps : ~Pending(k, op, c)'
  BY <1>2, <1>5 DEF LifeInv, ConnOK, Where, ShownOps, Ops, SharedOps, Kinds
<1>6. cb'[l] # c /\ <<c, "write">> \notin active'[l]
  BY <1>2 DEF Fresh
<1>7. QED
  BY <1>2, <1>4, <1>5, <1>6 DEF Fresh

LEMMA StillOK ==
    ASSUME LifeInv, LifeInv', ByteInv, NEW c \in Conns, StillBytes(c)
    PROVE  BytesOK(c)'
<1>1. (state[c] \in Unshown => Fresh(c)) /\ (Sends(c) => InOrder(c))
  BY DEF ByteInv, Unshown
<1>2. ASSUME state'[c] \in Unshown PROVE Fresh(c)'
  <2>1. state[c] \in Unshown
    BY <1>2 DEF StillBytes
  <2>2. QED
    BY <1>1, <1>2, <2>1, StaysFresh
<1>3. ASSUME Sends(c)' PROVE InOrder(c)'
  <2>1. state'[c] = "kConnected" /\ Sends(c)
    BY <1>3 DEF Sends, StillBytes, Unshown
  <2>2. QED
    BY <1>1, <2>1, StaysInOrder
<1>4. QED
  BY <1>2, <1>3 DEF BytesOK

\* connectEstablished starts the count.
LEMMA StartsInOrder ==
    ASSUME LifeInv', NEW c \in Conns, asked'[c] = 0, written'[c] = 0, output'[c] = 0, state'[c] = "kConnected",
           \A op \in ShownOps : ~Pending(io[c], op, c)'
    PROVE  BytesOK(c)'
<1>1. PICK l \in Loops : l = io'[c]
  BY DEF LifeInv, TypeOK
<1>2. queue'[l] \in Seq(Tasks) /\ batch'[l] \in Seq(Tasks)
  BY DEF LifeInv, TypeOK
<1>3. \A op \in ShownOps : ~Has(queue'[l], op, c) /\ ~Has(batch'[l], op, c)
  BY <1>1 DEF Pending, InQueue, InBatch
<1>4. Flow(queue'[l], c, 0, 0) /\ Flow(batch'[l], c, 0, 0)
  BY <1>2, <1>3, FlowNone DEF ShownOps
<1>5. Ahead(batch'[l], queue'[l], c, 0, 0)
  BY <1>4 DEF Ahead
<1>6. \A n : ClosesBy(batch'[l], c, n) /\ ClosesBy(queue'[l], c, n)
  BY <1>3, ClosesByNone DEF ShownOps
<1>7. InOrder(c)'
  BY <1>1, <1>5, <1>6 DEF InOrder
<1>8. QED
  BY <1>7 DEF BytesOK, Unshown

LEMMA StillStep ==
    ASSUME LifeInv, LifeInv', ByteInv, UNCHANGED <<written, output>>, \A c \in Conns : StillBytes(c)
    PROVE  ByteInv'
<1>1. \A c \in Conns : BytesOK(c)'
  BY StillOK
<1>2. QED
  BY <1>1 DEF ByteInv, BytesOK, Unshown

LEMMA SameStill ==
    /\ queue' = queue => \A l, c : QueueGrows(l, c)
    /\ batch' = batch => \A l, c : BatchShrinks(l, c)
  BY DEF QueueGrows, BatchShrinks

\* The peer, the pointers of the user, the destructor's begin and end, and a task
\* that dangles
LEMMA BytesAside ==
    ASSUME LifeInv, LifeInv', ByteInv, UNCHANGED <<io, connVars, loopVars, asked>>,
           \A c \in refs' : c \in refs \/ \E l \in Loops : cb[l] = c,
           \A c \in Conns : IsReset(c) => IsReset(c)'
    PROVE  ByteInv'
<1>1. ASSUME NEW c \in Conns PROVE StillBytes(c)
  <2>1. UNCHANGED <<io, state, events, output, written, asked, phase, queue, batch, active, cb>>
    BY DEF connVars, loopVars
  <2>2. state[c] \in Unshown => Fresh(c)
    BY DEF ByteInv, Unshown
  <2>3. state[c] \in Unshown /\ c \in refs' => c \in refs
    BY <2>2 DEF Fresh
  <2>4. QED
    BY <2>1, <2>3, SameStill DEF StillBytes
<1>2. UNCHANGED <<written, output>>
  BY DEF connVars
<1>3. QED
  BY <1>1, <1>2, StillStep

LEMMA PeerBytes == ASSUME LifeInv, LifeInv', ByteInv, Peer PROVE ByteInv'
<1>1. PICK c \in Conns : PeerSends(c) \/ PeerCloses(c) \/ PeerResets(c)
  BY DEF Peer
<1>2. UNCHANGED <<io, connVars, loopVars, asked, refs>>
  BY <1>1 DEF PeerSends, PeerCloses, PeerResets, PeerFrame, serverVars, userVars
<1>3. peer \in [Conns -> {"open", "closed", "reset", "resetRead"}]
  BY DEF LifeInv, TypeOK
<1>4. \A m \in Conns : IsReset(m) => IsReset(m)'
  BY <1>1, <1>3 DEF PeerSends, PeerCloses, PeerResets, IsReset
<1>5. QED
  BY <1>2, <1>4, BytesAside

LEMMA AsideBytes ==
    ASSUME LifeInv, LifeInv', ByteInv,
           \/ UNCHANGED vars
           \/ BeginDestroy \/ EndDestroy
           \/ \E l \in Loops : KeepRef(l) \/ TaskDangles(l)
           \/ \E c \in Conns : DropRef(c)
    PROVE  ByteInv'
<1>1. UNCHANGED <<io, connVars, loopVars, asked, peer>>
  BY DEF vars, BeginDestroy, EndDestroy, KeepRef, TaskDangles, DropRef, serverVars, userVars, peerVars
<1>2. \A c \in refs' : c \in refs \/ \E l \in Loops : cb[l] = c
  BY DEF vars, BeginDestroy, EndDestroy, KeepRef, TaskDangles, DropRef, userVars
<1>3. \A m \in Conns : IsReset(m) => IsReset(m)'
  BY <1>1 DEF IsReset
<1>4. QED
  BY <1>1, <1>2, <1>3, BytesAside

\* Steps of a loop or a caller that move no bytes: one connection at most changes its
\* state or is called back, and it is not an unshown one.
LEMMA StillBody ==
    ASSUME LifeInv, LifeInv', ByteInv,
           UNCHANGED <<io, asked, written, output, phase, refs>>,
           \A c \in Conns : IsReset(c) => IsReset(c)',
           \A c \in Conns : \/ state'[c] \notin Unshown \cup {"kConnected"}
                            \/ state'[c] = state[c] /\ events'[c] = events[c],
           \A l \in Loops : active'[l] \subseteq active[l],
           \A c \in Conns, l \in Loops :
             <<c, "write">> \in active[l] => <<c, "write">> \in active'[l],
           \A l \in Loops, c \in Conns : cb'[l] = c => cb[l] = c \/ state[c] \notin Unshown,
           \A l \in Loops, c \in Conns : QueueGrows(l, c) /\ BatchShrinks(l, c)
    PROVE  ByteInv'
<1>1. ASSUME NEW c \in Conns PROVE StillBytes(c)
  <2>1. io[c] \in Loops
    BY DEF LifeInv, TypeOK
  <2>2. state'[c] \in Unshown => state[c] = state'[c]
    OBVIOUS
  <2>3. state'[c] = "kConnected" => events'[c] = events[c] /\ state'[c] = state[c]
    OBVIOUS
  <2>4. QED
    BY <2>1, <2>2, <2>3 DEF StillBytes
<1>2. QED
  BY <1>1, StillStep

LEMMA StartBytes == ASSUME LifeInv, LifeInv', ByteInv, Start PROVE ByteInv'
<1>1. /\ UNCHANGED <<io, state, events, asked, written, output, phase, refs, active, cb, peer>>
      /\ batch' = batch
      /\ queue' = queue \/ Push(Main, "listen", NoConn, 0)
  BY DEF Start, Listen, serverVars, connVars, peerVars, userVars
<1>2. TypeOK /\ Main \in Loops /\ "listen" \in Ops
  BY DEF LifeInv, Loops, Ops
<1>3. \A l \in Loops, c \in Conns : QueueGrows(l, c) /\ BatchShrinks(l, c)
  BY <1>1, <1>2, SameStill, PushIs
<1>4. \A c \in Conns : IsReset(c) => IsReset(c)'
  BY <1>1 DEF IsReset
<1>5. QED
  BY <1>1, <1>3, <1>4, StillBody

\* The tasks that send nothing
LEMMA TaskStillBytes ==
    ASSUME LifeInv, LifeInv', ByteInv, NEW l \in Loops,
           TaskListen(l) \/ TaskRemove(l) \/ TaskWriteComplete(l) \/ TaskDestroyed(l) \/ TaskShutdown(l) \/ TaskClose(l)
    PROVE  ByteInv'
<1>1. PICK op \in {"listen", "removeConnectionInLoop", "writeComplete", "connectDestroyed", "shutdownInLoop",
                   "closeInLoop"} : Take(l, op)
  BY DEF TaskListen, TaskRemove, TaskWriteComplete, TaskDestroyed, TaskShutdown, TaskClose
<1>2. TypeOK /\ op \in Ops /\ op \notin {"sendInLoop", "queueClose"}
  BY <1>1 DEF LifeInv, Ops, SharedOps
<1>3. PICK c : c = Arg(l)
  OBVIOUS
<1>4. /\ UNCHANGED <<io, asked, written, output, phase, refs, active, peer>>
  BY <1>3 DEF TaskListen, TaskRemove, TaskWriteComplete, TaskDestroyed, TaskShutdown, TaskClose, TaskFrame, Listen,
              RemoveConnectionInLoop, ConnectDestroyed, Disconnect, RemoveChannel, ShutdownInLoop, HandleClose,
              serverVars, connVars, userVars, peerVars
<1>5. op # "listen" => c \in Conns
  BY <1>1, <1>2, <1>3, TaskConn
<1>6. \A m \in Conns : \/ state'[m] \notin Unshown \cup {"kConnected"}
                       \/ state'[m] = state[m] /\ events'[m] = events[m]
  <2>1. state \in [Conns -> States] /\ events \in [Conns -> SUBSET Kinds]
    BY <1>2 DEF TypeOK
  <2>2. \/ UNCHANGED <<state, events>>
        \/ state' = [state EXCEPT ![c] = "kDisconnecting"] /\ events' = events
        \/ state' = [state EXCEPT ![c] = "kDisconnected"] /\ events' = [events EXCEPT ![c] = {}]
    BY <1>3 DEF TaskListen, TaskRemove, TaskWriteComplete, TaskDestroyed, TaskShutdown, TaskClose, TaskFrame,
                ConnectDestroyed, Disconnect, RemoveChannel, ShutdownInLoop, HandleClose, connVars
  <2>3. QED
    BY <2>1, <2>2 DEF Unshown
<1>7. ASSUME NEW k \in Loops, NEW m \in Conns, cb'[k] = m PROVE cb[k] = m \/ state[m] \notin Unshown
  <2>1. cb \in [Loops -> Conns \cup {NoConn}]
    BY <1>2 DEF TypeOK
  <2>2. CASE TaskWriteComplete(l)
    <3>1. cb' = [cb EXCEPT ![l] = c] /\ Take(l, "writeComplete")
      BY <1>3, <2>2 DEF TaskWriteComplete, Callback
    <3>2. "writeComplete" \in Ops \ {"listen"}
      BY DEF Ops, SharedOps
    <3>3. c \in Conns /\ InBatch(l, "writeComplete", c)
      BY <1>3, <3>1, <3>2, TaskConn
    <3>4. ~Fresh(c)
      BY <3>3 DEF Fresh, Pending, ShownOps
    <3>5. state[c] \notin Unshown
      BY <3>3, <3>4 DEF ByteInv, Unshown
    <3>6. QED
      BY <1>7, <2>1, <3>1, <3>5
  <2>3. CASE cb' = cb
    BY <1>7, <2>3
  <2>4. CASE cb' = [cb EXCEPT ![l] = c] /\ state[c] \in {"kConnected", "kDisconnecting"}
    BY <1>7, <2>1, <2>4 DEF Unshown
  <2>5. QED
    BY <1>3, <2>2, <2>3, <2>4
       DEF TaskListen, TaskRemove, TaskDestroyed, TaskShutdown, TaskClose, ConnectDestroyed, Disconnect,
           HandleClose, NoCallback, Callback, Open
<1>8. \A k \in Loops, m \in Conns : BatchShrinks(k, m)
  BY <1>1, <1>2, TakeIs
<1>9. \A k \in Loops, m \in Conns : QueueGrows(k, m)
  <2>1. CASE queue' = queue
    BY <2>1, SameStill
  <2>2. CASE Push(io[c], "connectDestroyed", c, 0) /\ op = "removeConnectionInLoop"
    <3>1. c \in Conns /\ io[c] \in Loops /\ "connectDestroyed" \in Ops /\ "connectDestroyed" \notin ShownOps
      BY <1>2, <1>5, <2>2 DEF TypeOK, Ops, SharedOps, ShownOps
    <3>2. QED
      BY <1>2, <2>2, <3>1, PushIs
  <2>3. TaskRemove(l) => op = "removeConnectionInLoop"
    BY <1>1 DEF TaskRemove, Take
  <2>4. QED
    BY <1>3, <2>1, <2>2, <2>3
       DEF TaskListen, TaskRemove, TaskWriteComplete, TaskDestroyed, TaskShutdown, TaskClose, RemoveConnectionInLoop
<1>10. \A m \in Conns : IsReset(m) => IsReset(m)'
  BY <1>4 DEF IsReset
<1>11. QED
  BY <1>4, <1>6, <1>7, <1>8, <1>9, <1>10, StillBody

LEMMA ReadBytes ==
    ASSUME LifeInv, LifeInv', ByteInv, NEW l \in Loops, NEW c \in Conns, HandleRead(l, c)
    PROVE  ByteInv'
<1>1. Event(l, c, "read") /\ "read" \in Kinds /\ queue' = queue /\ TypeOK
  BY DEF HandleRead, Kinds, LifeInv
<1>2. /\ UNCHANGED <<serverVars, phase, batch, refs, asked>> /\ c \in accepted /\ l = io[c] /\ Open(c)
      /\ \A k \in Loops : active'[k] \subseteq active[k]
  BY <1>1, EventEffect
<1>3. UNCHANGED <<io, written, output>>
  BY <1>2 DEF HandleRead, HandleClose, Disconnect, connVars, serverVars
<1>4. \A m \in Conns : \/ state'[m] \notin Unshown \cup {"kConnected"}
                       \/ state'[m] = state[m] /\ events'[m] = events[m]
  <2>1. state \in [Conns -> States] /\ events \in [Conns -> SUBSET Kinds]
    BY <1>1 DEF TypeOK
  <2>2. \/ UNCHANGED <<state, events>>
        \/ state' = [state EXCEPT ![c] = "kDisconnected"] /\ events' = [events EXCEPT ![c] = {}]
    BY DEF HandleRead, HandleClose, Disconnect, connVars
  <2>3. QED
    BY <2>1, <2>2 DEF Unshown
<1>5. \A m \in Conns, k \in Loops : <<m, "write">> \in active[k] => <<m, "write">> \in active'[k]
  <2>1. active' = [active EXCEPT ![l] = @ \ {<<c, "read">>}] /\ active \in [Loops -> SUBSET (Conns \X Kinds)]
    BY <1>1 DEF Event, TypeOK
  <2>2. \A m \in Conns : <<m, "write">> # <<c, "read">>
    OBVIOUS
  <2>3. QED
    BY <2>1, <2>2
<1>6. \A k \in Loops, m \in Conns : cb'[k] = m => cb[k] = m \/ state[m] \notin Unshown
  <2>1. cb \in [Loops -> Conns \cup {NoConn}]
    BY <1>1 DEF TypeOK
  <2>2. cb' = cb \/ cb' = [cb EXCEPT ![l] = c]
    BY DEF HandleRead, HandleClose, Disconnect, Callback, NoCallback
  <2>3. QED
    BY <1>2, <2>1, <2>2 DEF Open, Unshown
<1>7. \A m \in Conns : IsReset(m) => IsReset(m)'
  <2>1. peer \in [Conns -> {"open", "closed", "reset", "resetRead"}]
    BY <1>1 DEF TypeOK
  <2>2. peer' = peer \/ peer' = [peer EXCEPT ![c] = "resetRead"]
    BY DEF HandleRead, peerVars
  <2>3. QED
    BY <2>1, <2>2 DEF IsReset
<1>8. \A k \in Loops, m \in Conns : QueueGrows(k, m) /\ BatchShrinks(k, m)
  BY <1>1, <1>2, SameStill
<1>9. QED
  BY <1>2, <1>3, <1>4, <1>5, <1>6, <1>7, <1>8, StillBody

LEMMA ReturnBytes ==
    ASSUME LifeInv, LifeInv', ByteInv, NEW l \in Loops, ReturnCallback(l)
    PROVE  ByteInv'
<1>1. EndCallback(l) /\ ReturnFrame /\ TypeOK
  BY DEF ReturnCallback, ReturnPlain, ReturnToClose, ReturnToRemove, LifeInv
<1>2. PICK c : c = cb[l]
  OBVIOUS
<1>3. c \in Conns /\ io[c] \in Loops /\ cb'[l] = NoConn /\ \A k \in Loops : k # l => cb'[k] = cb[k]
  BY <1>1, <1>2, EndEffect DEF TypeOK
<1>4. UNCHANGED <<io, asked, written, output, phase, refs, active, peer, state, events, batch>>
  BY <1>1 DEF ReturnCallback, ReturnPlain, ReturnToClose, ReturnToRemove, ReturnFrame, RemoveConnectionInLoop,
              RemoveChannel, serverVars, connVars, userVars, peerVars
<1>5. \A k \in Loops, m \in Conns : QueueGrows(k, m)
  <2>1. Main \in Loops /\ \A op \in {"connectDestroyed", "removeConnectionInLoop"} :
          op \in Ops /\ op \notin ShownOps /\ op # "listen"
    BY DEF Loops, Ops, SharedOps, ShownOps
  <2>2. CASE queue' = queue
    BY <2>2, SameStill
  <2>3. CASE Push(io[c], "connectDestroyed", c, 0)
    BY <1>1, <1>3, <2>1, <2>3, PushIs
  <2>4. CASE Push(Main, "removeConnectionInLoop", c, 0)
    BY <1>1, <1>3, <2>1, <2>4, PushIs
  <2>5. QED
    BY <1>2, <2>2, <2>3, <2>4 DEF ReturnCallback, ReturnPlain, ReturnToClose, ReturnToRemove, RemoveConnectionInLoop
<1>6. \A k \in Loops, m \in Conns : BatchShrinks(k, m)
  BY <1>4, SameStill
<1>7. \A k \in Loops, m \in Conns : cb'[k] = m => cb[k] = m \/ state[m] \notin Unshown
  BY <1>3
<1>8. \A m \in Conns : IsReset(m) => IsReset(m)'
  BY <1>4 DEF IsReset
<1>9. QED
  BY <1>4, <1>5, <1>6, <1>7, <1>8, StillBody

LEMMA DestroyBytes ==
    ASSUME LifeInv, LifeInv', ByteInv, NEW c \in Conns, DestroyConnection(c)
    PROVE  ByteInv'
<1>1. TypeOK /\ io[c] \in Loops /\ Main \in Loops
  BY DEF LifeInv, TypeOK, Loops
<1>2. UNCHANGED <<io, asked, written, output, phase, refs, active, peer, batch>>
  BY DEF DestroyConnection, ConnectDestroyed, Disconnect, RemoveChannel, connVars, userVars, peerVars
<1>3. \A m \in Conns : \/ state'[m] \notin Unshown \cup {"kConnected"}
                       \/ state'[m] = state[m] /\ events'[m] = events[m]
  <2>1. state \in [Conns -> States] /\ events \in [Conns -> SUBSET Kinds]
    BY <1>1 DEF TypeOK
  <2>2. \/ UNCHANGED <<state, events>>
        \/ state' = [state EXCEPT ![c] = "kDisconnected"] /\ events' = [events EXCEPT ![c] = {}]
    BY DEF DestroyConnection, ConnectDestroyed, Disconnect, RemoveChannel, connVars
  <2>3. QED
    BY <2>1, <2>2 DEF Unshown
<1>4. \A k \in Loops, m \in Conns : cb'[k] = m => cb[k] = m \/ state[m] \notin Unshown
  <2>1. cb \in [Loops -> Conns \cup {NoConn}]
    BY <1>1 DEF TypeOK
  <2>2. cb' = cb \/ (cb' = [cb EXCEPT ![Main] = c] /\ state[c] = "kConnected")
    BY DEF DestroyConnection, ConnectDestroyed, Disconnect, Callback, NoCallback
  <2>3. QED
    BY <2>1, <2>2 DEF Unshown
<1>5. \A k \in Loops, m \in Conns : QueueGrows(k, m) /\ BatchShrinks(k, m)
  <2>1. "connectDestroyed" \in Ops /\ "connectDestroyed" \notin ShownOps
    BY DEF Ops, SharedOps, ShownOps
  <2>2. queue' = queue \/ Push(io[c], "connectDestroyed", c, 0)
    BY DEF DestroyConnection
  <2>3. QED
    BY <1>1, <1>2, <2>1, <2>2, SameStill, PushIs
<1>6. \A m \in Conns : IsReset(m) => IsReset(m)'
  BY <1>2 DEF IsReset
<1>7. QED
  BY <1>2, <1>3, <1>4, <1>5, <1>6, StillBody

\* shutdown() moves no bytes.
LEMMA ShutdownBytes ==
    ASSUME LifeInv, LifeInv', ByteInv, NEW by, NEW c \in Conns, Shutdown(by, c)
    PROVE  ByteInv'
<1>1. TypeOK /\ io[c] \in Loops
  BY DEF LifeInv, TypeOK
<1>2. UNCHANGED <<io, asked, written, output, events, phase, refs, active, peer, batch, cb>>
  BY DEF Shutdown, ShutdownInLoop, CallFrame, serverVars, connVars, peerVars
<1>3. \A m \in Conns : \/ state'[m] \notin Unshown \cup {"kConnected"}
                       \/ state'[m] = state[m] /\ events'[m] = events[m]
  <2>1. state \in [Conns -> States]
    BY <1>1 DEF TypeOK
  <2>2. state' = state \/ state' = [state EXCEPT ![c] = "kDisconnecting"]
    BY DEF Shutdown, ShutdownInLoop, connVars
  <2>3. QED
    BY <1>2, <2>1, <2>2 DEF Unshown
<1>4. \A k \in Loops, m \in Conns : QueueGrows(k, m) /\ BatchShrinks(k, m)
  <2>1. "shutdownInLoop" \in Ops /\ "shutdownInLoop" \notin ShownOps
    BY DEF Ops, ShownOps
  <2>2. queue' = queue \/ Push(io[c], "shutdownInLoop", c, 0)
    BY DEF Shutdown
  <2>3. QED
    BY <1>1, <1>2, <2>1, <2>2, SameStill, PushIs
<1>5. \A m \in Conns : IsReset(m) => IsReset(m)'
  BY <1>2 DEF IsReset
<1>6. QED
  BY <1>2, <1>3, <1>4, <1>5, StillBody

\* connectEstablished, by the acceptor or as a task
LEMMA NewConnectionBytes ==
    ASSUME LifeInv, LifeInv', ByteInv, NEW c \in Conns, NEW l \in Loops, NewConnection(c, l)
    PROVE  ByteInv'
<1>1. /\ TypeOK /\ Main \in Loops /\ c \notin accepted
      /\ UNCHANGED <<asked, written, output, phase, refs, active, peer, batch>>
      /\ io' = [io EXCEPT ![c] = l]
  BY DEF NewConnection, ConnectEstablished, LifeInv, Loops, userVars, peerVars
<1>2. Fresh(c)
  BY <1>1 DEF LifeInv, ConnOK, Stage, ByteInv
<1>3. \/ /\ l = Main /\ queue' = queue
         /\ state' = [state EXCEPT ![c] = "kConnected"] /\ events' = [events EXCEPT ![c] = {"read"}]
         /\ cb' = [cb EXCEPT ![Main] = c]
      \/ /\ Push(l, "connectEstablished", c, 0) /\ UNCHANGED <<events, cb>>
         /\ state' = [state EXCEPT ![c] = "kConnecting"]
  BY DEF NewConnection, ConnectEstablished, Callback, NoCallback
<1>4. "connectEstablished" \in Ops /\ "connectEstablished" \notin ShownOps
  BY DEF Ops, SharedOps, ShownOps
<1>5. \A k \in Loops, m \in Conns : QueueGrows(k, m) /\ BatchShrinks(k, m)
  BY <1>1, <1>3, <1>4, SameStill, PushIs
<1>6. ASSUME NEW m \in Conns, m # c PROVE BytesOK(m)'
  <2>1. /\ io[m] \in Loops /\ io'[m] = io[m] /\ state'[m] = state[m] /\ events'[m] = events[m]
        /\ cb'[io[m]] = m => cb[io[m]] = m
    BY <1>1, <1>3, <1>6, SMTT(60) DEF TypeOK
  <2>2. IsReset(m) => IsReset(m)'
    BY <1>1 DEF IsReset
  <2>3. StillBytes(m)
    BY <1>1, <1>5, <2>1, <2>2 DEF StillBytes
  <2>4. QED
    BY <2>3, StillOK
<1>7. \A k \in Loops : \A op \in ShownOps : ~Pending(k, op, c)'
  <2>1. \A k \in Loops : \A op \in ShownOps : InQueue(k, op, c)' => InQueue(k, op, c)
    BY <1>1, <1>3, <1>4, SameTasks, PushEffect
  <2>2. \A k \in Loops : \A op \in ShownOps : InBatch(k, op, c)' => InBatch(k, op, c)
    BY <1>1, SameTasks
  <2>3. QED
    BY <1>2, <2>1, <2>2 DEF Fresh, Pending
<1>8. asked'[c] = 0 /\ written'[c] = 0 /\ output'[c] = 0
  BY <1>1, <1>2 DEF Fresh
<1>9. BytesOK(c)'
  <2>1. state \in [Conns -> States] /\ io'[c] \in Loops
    BY <1>1 DEF TypeOK
  <2>2. CASE state'[c] = "kConnected"
    BY <1>7, <1>8, <2>1, <2>2, StartsInOrder
  <2>3. CASE UNCHANGED <<events, cb>> /\ state'[c] = "kConnecting"
    <3>1. Fresh(c)'
      BY <1>1, <1>2, <1>7, <1>8, <2>3 DEF Fresh
    <3>2. QED
      BY <2>3, <3>1 DEF BytesOK, Sends
  <2>4. QED
    BY <1>3, <2>1, <2>2, <2>3
<1>10. QED
  BY <1>1, <1>6, <1>9 DEF ByteInv, BytesOK, Unshown

LEMMA TaskEstablishedBytes ==
    ASSUME LifeInv, LifeInv', ByteInv, NEW l \in Loops, TaskEstablished(l)
    PROVE  ByteInv'
<1>1. PICK c : c = Arg(l)
  OBVIOUS
<1>2. /\ TypeOK /\ Take(l, "connectEstablished")
      /\ UNCHANGED <<io, asked, written, output, phase, refs, active, peer, queue>>
      /\ state' = [state EXCEPT ![c] = "kConnected"] /\ events' = [events EXCEPT ![c] = {"read"}]
      /\ cb' = [cb EXCEPT ![l] = c]
  BY <1>1 DEF TaskEstablished, ConnectEstablished, Callback, TaskFrame, LifeInv, serverVars, userVars, peerVars
<1>3. "connectEstablished" \in Ops /\ "connectEstablished" \in Ops \ {"listen"}
      /\ "connectEstablished" \notin {"sendInLoop", "queueClose"} /\ "connectEstablished" # "removeConnectionInLoop"
  BY DEF Ops, SharedOps
<1>4. c \in Conns /\ l = io[c] /\ InBatch(l, "connectEstablished", c)
  BY <1>1, <1>2, <1>3, TaskConn
<1>5. state[c] = "kConnecting"
  BY <1>4 DEF LifeInv, ConnOK, Stage, Arriving, Pending
<1>6. Fresh(c)
  BY <1>4, <1>5 DEF ByteInv
<1>7. \A k \in Loops, m \in Conns : QueueGrows(k, m) /\ BatchShrinks(k, m)
  BY <1>2, <1>3, SameStill, TakeIs
<1>8. ASSUME NEW m \in Conns, m # c PROVE BytesOK(m)'
  <2>1. /\ io[m] \in Loops /\ state'[m] = state[m] /\ events'[m] = events[m]
        /\ cb'[io[m]] = m => cb[io[m]] = m
    BY <1>2, <1>8 DEF TypeOK
  <2>2. IsReset(m) => IsReset(m)'
    BY <1>2 DEF IsReset
  <2>3. StillBytes(m)
    BY <1>2, <1>7, <2>1, <2>2 DEF StillBytes
  <2>4. QED
    BY <2>3, StillOK
<1>9. \A k \in Loops : \A op \in ShownOps : ~Pending(k, op, c)'
  <2>1. \A k \in Loops : \A op : InBatch(k, op, c)' => InBatch(k, op, c)
    BY <1>2, <1>3, TakeShrinks
  <2>2. \A k \in Loops : \A op : InQueue(k, op, c)' => InQueue(k, op, c)
    BY <1>2, SameTasks
  <2>3. QED
    BY <1>6, <2>1, <2>2 DEF Fresh, Pending
<1>10. BytesOK(c)'
  <2>1. /\ state'[c] = "kConnected" /\ io'[c] \in Loops
        /\ asked'[c] = 0 /\ written'[c] = 0 /\ output'[c] = 0
    BY <1>2, <1>4, <1>6 DEF TypeOK, Fresh
  <2>2. QED
    BY <1>4, <1>9, <2>1, StartsInOrder
<1>11. QED
  BY <1>2, <1>8, <1>10 DEF ByteInv, BytesOK, Unshown

\* poll reports every connection that has bytes buffered.
LEMMA PollBytes ==
    ASSUME Drain, LifeInv, LifeInv', ByteInv, failed = "none", NEW l \in Loops, Poll(l)
    PROVE  ByteInv'
<1>1. /\ TypeOK /\ phase[l] = "tasks"
      /\ UNCHANGED <<io, asked, written, output, refs, peer, state, events, queue, batch, cb>>
      /\ phase' = [phase EXCEPT ![l] = "events"]
  BY DEF Poll, LifeInv, serverVars, connVars, userVars, peerVars
<1>2. /\ active' = [active EXCEPT ![l] = (Readers(l) \X {"read"}) \cup (Writers(l) \X {"write"})]
      /\ active \in [Loops -> SUBSET (Conns \X Kinds)] /\ phase \in [Loops -> {"tasks", "events"}]
  BY <1>1 DEF Poll, TypeOK
<1>3. ASSUME NEW m \in Conns PROVE BytesOK(m)'
  <2>1. io[m] \in Loops /\ (IsReset(m) => IsReset(m)')
    BY <1>1 DEF TypeOK, IsReset
  <2>2. CASE io[m] # l
    <3>1. phase'[io[m]] = phase[io[m]] /\ active'[io[m]] = active[io[m]]
      BY <1>1, <1>2, <2>1, <2>2
    <3>2. StillBytes(m)
      BY <1>1, <2>1, <3>1, SameStill DEF StillBytes
    <3>3. QED
      BY <3>2, StillOK
  <2>3. CASE io[m] = l
    <3>1. <<m, "write">> \in active'[l] <=> m \in Writers(l)
      BY <1>2
    <3>2. ASSUME state'[m] \in Unshown PROVE Fresh(m)'
      <4>1. Fresh(m) /\ ~registered[m]
        BY <1>1, <3>2 DEF ByteInv, Unshown, LifeInv, ConnOK, Stage
      <4>2. <<m, "write">> \notin active'[l]
        BY <3>1, <4>1 DEF Writers
      <4>3. \A k \in Loops : k # l => active'[k] = active[k]
        BY <1>2
      <4>4. \A k \in Loops : \A op : Pending(k, op, m)' <=> Pending(k, op, m)
        BY <1>1, SameTasks DEF Pending
      <4>5. QED
        BY <1>1, <4>1, <4>2, <4>3, <4>4 DEF Fresh
    <3>3. ASSUME Sends(m)' PROVE InOrder(m)'
      <4>1. Sends(m) /\ InOrder(m)
        BY <1>1, <3>3 DEF Sends, IsReset, ByteInv
      <4>2. registered[m]
        BY <4>1 DEF Sends, LifeInv, ConnOK, Stage, Open
      <4>3. output[m] \in Nat /\ written[m] \in Nat
        BY DEF ByteInv
      <4>4. ASSUME <<m, "write">> \notin active'[l] PROVE ClosesBy(queue[l], m, written[m])
        <5>1. "write" \notin events[m]
          BY <2>3, <3>1, <4>2, <4>4 DEF Writers
        <5>2. written[m] + output[m] = written[m]
          BY <4>1, <4>3, <5>1 DEF InOrder
        <5>3. QED
          BY <2>3, <4>1, <5>2 DEF InOrder
      <4>5. QED
        BY <1>1, <2>3, <4>1, <4>4 DEF InOrder
    <3>4. QED
      BY <3>2, <3>3 DEF BytesOK
  <2>4. QED
    BY <2>2, <2>3
<1>4. QED
  BY <1>1, <1>3 DEF ByteInv, BytesOK, Unshown

\* The closes of the next batch come after the writes.
LEMMA SwapBytes ==
    ASSUME LifeInv, LifeInv', ByteInv, NEW l \in Loops, SwapTasks(l)
    PROVE  ByteInv'
<1>1. /\ TypeOK /\ phase[l] = "events" /\ active[l] = {}
      /\ UNCHANGED <<io, asked, written, output, refs, peer, state, events, active, cb>>
      /\ phase' = [phase EXCEPT ![l] = "tasks"]
      /\ batch' = [batch EXCEPT ![l] = queue[l]] /\ queue' = [queue EXCEPT ![l] = <<>>]
  BY DEF SwapTasks, LifeInv, serverVars, connVars, userVars, peerVars
<1>2. /\ queue \in [Loops -> Seq(Tasks)] /\ batch \in [Loops -> Seq(Tasks)] /\ phase \in [Loops -> {"tasks", "events"}]
      /\ batch[l] = <<>>
  BY <1>1 DEF TypeOK, LifeInv, LoopOK
<1>3. /\ batch'[l] = queue[l] /\ queue'[l] = <<>> /\ phase'[l] = "tasks"
      /\ \A k \in Loops : k # l => batch'[k] = batch[k] /\ queue'[k] = queue[k] /\ phase'[k] = phase[k]
  BY <1>1, <1>2
<1>4. ASSUME NEW m \in Conns PROVE BytesOK(m)'
  <2>1. io[m] \in Loops /\ (IsReset(m) => IsReset(m)')
    BY <1>1 DEF TypeOK, IsReset
  <2>2. CASE io[m] # l
    <3>1. QueueGrows(io[m], m) /\ BatchShrinks(io[m], m)
      BY <1>3, <2>1, <2>2 DEF QueueGrows, BatchShrinks
    <3>2. StillBytes(m)
      BY <1>1, <1>3, <2>1, <2>2, <3>1 DEF StillBytes
    <3>3. QED
      BY <3>2, StillOK
  <2>3. CASE io[m] = l
    <3>1. ASSUME state'[m] \in Unshown PROVE Fresh(m)'
      <4>1. Fresh(m)
        BY <1>1, <3>1 DEF ByteInv, Unshown
      <4>2. ASSUME NEW k \in Loops, NEW op \in ShownOps PROVE ~Pending(k, op, m)'
        <5>1. ~Has(queue[k], op, m) /\ ~Has(batch[k], op, m)
          BY <4>1, <4>2 DEF Fresh, Pending, InQueue, InBatch
        <5>2. ~Has(queue'[k], op, m) /\ ~Has(batch'[k], op, m)
          BY <1>3, <5>1, HasEmpty
        <5>3. QED
          BY <5>2 DEF Pending, InQueue, InBatch
      <4>3. QED
        BY <1>1, <4>1, <4>2 DEF Fresh
    <3>2. ASSUME Sends(m)' PROVE InOrder(m)'
      <4>1. Sends(m) /\ InOrder(m)
        BY <1>1, <3>2 DEF Sends, IsReset, ByteInv
      <4>2. ClosesBy(queue[l], m, written[m]) /\ asked[m] \in Nat /\ queue[l] \in Seq(Tasks)
        BY <1>1, <1>2, <2>3, <4>1 DEF InOrder, TypeOK
      <4>3. Ahead(<<>>, queue[l], m, written[m] + output[m], asked[m])
        BY <1>2, <2>3, <4>1 DEF InOrder
      <4>4. Ahead(queue[l], <<>>, m, written[m] + output[m], asked[m])
        BY <4>2, <4>3, AheadSwap
      <4>5. \A n : ClosesBy(<<>>, m, n)
        BY ClosesByEmpty
      <4>6. QED
        BY <1>1, <1>3, <2>3, <4>1, <4>2, <4>4, <4>5 DEF InOrder
    <3>3. QED
      BY <3>1, <3>2 DEF BytesOK
  <2>4. QED
    BY <2>2, <2>3
<1>5. QED
  BY <1>1, <1>4 DEF ByteInv, BytesOK, Unshown

\* Steps that move the bytes of one connection
LEMMA OneMoves ==
    ASSUME LifeInv, LifeInv', ByteInv, NEW c \in Conns, BytesOK(c)',
           output' \in [Conns -> Nat], written' \in [Conns -> Nat],
           \A m \in Conns : m # c => StillBytes(m)
    PROVE  ByteInv'
<1>1. \A m \in Conns : BytesOK(m)'
  BY StillOK
<1>2. QED
  BY <1>1 DEF ByteInv, BytesOK, Unshown

LEMMA KnownIsShown ==
    ASSUME ByteInv, NEW c \in Conns,
           \/ c \in refs
           \/ \E l \in Loops : cb[l] = c \/ <<c, "write">> \in active[l] \/ \E op \in ShownOps : Pending(l, op, c)
    PROVE  state[c] \notin Unshown
  BY DEF ByteInv, Fresh, Unshown

LEMMA TaskSendBytes ==
    ASSUME LifeInv, LifeInv', ByteInv, NEW l \in Loops, TaskSend(l)
    PROVE  ByteInv'
<1>1. PICK c, n : c = Arg(l) /\ n = Num(l)
  OBVIOUS
<1>2. /\ TypeOK /\ Take(l, "sendInLoop") /\ SendInLoop(l, c, n)
      /\ UNCHANGED <<io, asked, phase, refs, active, peer, queue, cb, state, written>>
  BY <1>1 DEF TaskSend, SendInLoop, NoCallback, TaskFrame, LifeInv, serverVars, userVars, peerVars
<1>3. "sendInLoop" \in Ops \ {"listen"} /\ "sendInLoop" \in ShownOps
  BY DEF Ops, ShownOps
<1>4. c \in Conns /\ l = io[c] /\ InBatch(l, "sendInLoop", c) /\ n \in Nat /\ phase[l] = "tasks"
  BY <1>1, <1>2, <1>3, TaskConn
<1>5. state[c] \notin Unshown
  BY <1>3, <1>4, KnownIsShown DEF Pending
<1>6. /\ output \in [Conns -> Nat] /\ written \in [Conns -> Nat] /\ events \in [Conns -> SUBSET Kinds]
      /\ asked \in [Conns -> Nat]
  BY <1>2 DEF ByteInv, TypeOK
<1>7. output' \in [Conns -> Nat] /\ \A m \in Conns : m # c => output'[m] = output[m] /\ events'[m] = events[m]
  BY <1>2, <1>4, <1>6 DEF SendInLoop
<1>8. ASSUME NEW m \in Conns, m # c PROVE StillBytes(m)
  <2>1. io[m] \in Loops /\ (IsReset(m) => IsReset(m)')
    BY <1>2 DEF TypeOK, IsReset
  <2>2. BatchShrinks(io[m], m)
    BY <1>1, <1>2, <1>8, <2>1, TakeIs
  <2>3. QED
    BY <1>2, <1>7, <1>8, <2>1, <2>2, SameStill DEF StillBytes
<1>9. ASSUME Sends(c)' PROVE InOrder(c)'
  <2>1. state[c] = "kConnected" /\ InOrder(c)
    BY <1>2, <1>4, <1>9 DEF Sends, IsReset, ByteInv
  <2>2. output'[c] = output[c] + n /\ "write" \in events'[c]
    BY <1>2, <1>4, <1>6, <2>1 DEF SendInLoop
  <2>3. PICK q, b, w, o, a : q = queue[l] /\ b = batch[l] /\ w = written[c] /\ o = output[c] /\ a = asked[c]
    OBVIOUS
  <2>4. /\ q \in Seq(Tasks) /\ b \in Seq(Tasks) /\ w \in Nat /\ o \in Nat
        /\ b # <<>> /\ batch'[l] = Tail(b) /\ Bytes(Head(b), c) = n
    <3>1. /\ b \in Seq(Tasks) /\ b # <<>> /\ batch'[l] = Tail(b)
          /\ Head(b)[1] = "sendInLoop" /\ Head(b)[2] = c /\ Head(b)[3] = n
      BY <1>1, <1>2, <2>3, TakeIs
    <3>2. q \in Seq(Tasks) /\ w \in Nat /\ o \in Nat
      BY <1>2, <1>4, <1>6, <2>3 DEF TypeOK
    <3>3. QED
      BY <3>1, <3>2 DEF Bytes
  <2>5. Ahead(b, q, c, w + o, a) /\ ClosesBy(b, c, w) /\ ClosesBy(q, c, w + o)
    BY <1>4, <2>1, <2>3 DEF InOrder
  <2>6. Ahead(Tail(b), q, c, (w + o) + n, a) /\ ClosesBy(Tail(b), c, w)
    BY <2>4, <2>5, AheadTail, ClosesByTail
  <2>7. ClosesBy(q, c, (w + o) + n) /\ (w + o) + n = w + (o + n)
    <3>1. w + o \in Nat /\ (w + o) + n \in Nat /\ w + o <= (w + o) + n /\ (w + o) + n = w + (o + n)
      BY <1>4, <2>4, SMTT(60)
    <3>2. QED
      BY <2>4, <2>5, <3>1, ClosesByMore
  <2>8. phase'[l] # "events" /\ io'[c] = l /\ written'[c] = w /\ asked'[c] = a /\ queue'[l] = q
    BY <1>2, <1>4, <2>3
  <2>9. QED
    BY <2>2, <2>3, <2>4, <2>6, <2>7, <2>8 DEF InOrder
<1>10. BytesOK(c)'
  BY <1>2, <1>5, <1>9 DEF BytesOK
<1>11. QED
  BY <1>2, <1>4, <1>6, <1>7, <1>8, <1>10, OneMoves

\* The lambda of closeInNextLoop queues its close when its bytes are buffered.
LEMMA TaskQueueCloseBytes ==
    ASSUME LifeInv, LifeInv', ByteInv, NEW l \in Loops, TaskQueueClose(l)
    PROVE  ByteInv'
<1>1. PICK c, n : c = Arg(l) /\ n = Num(l)
  OBVIOUS
<1>2. /\ TypeOK /\ Take(l, "queueClose") /\ Push(l, "closeInLoop", c, n)
      /\ UNCHANGED <<io, asked, phase, refs, active, peer, cb, state, events, written, output>>
  BY <1>1 DEF TaskQueueClose, NoCallback, TaskFrame, LifeInv, serverVars, connVars, userVars, peerVars
<1>3. /\ "queueClose" \in Ops \ {"listen"} /\ "queueClose" \in ShownOps /\ "closeInLoop" \in Ops
      /\ "queueClose" # "removeConnectionInLoop"
  BY DEF Ops, ShownOps
<1>4. c \in Conns /\ l = io[c] /\ InBatch(l, "queueClose", c) /\ n \in Nat /\ phase[l] = "tasks"
  BY <1>1, <1>2, <1>3, TaskConn
<1>5. state[c] \notin Unshown
  BY <1>3, <1>4, KnownIsShown DEF Pending
<1>6. output \in [Conns -> Nat] /\ written \in [Conns -> Nat] /\ asked \in [Conns -> Nat]
  BY <1>2 DEF ByteInv, TypeOK
<1>7. ASSUME NEW m \in Conns, m # c PROVE StillBytes(m)
  <2>1. io[m] \in Loops /\ (IsReset(m) => IsReset(m)')
    BY <1>2 DEF TypeOK, IsReset
  <2>2. BatchShrinks(io[m], m)
    BY <1>1, <1>2, <1>7, <2>1, TakeIs
  <2>3. QueueGrows(io[m], m)
    <3>1. c \in Conns \cup {NoConn} /\ (c = NoConn <=> "closeInLoop" = "listen")
      BY <1>4
    <3>2. \A k \in Loops, d \in Conns : c # d => QueueGrows(k, d)
      <4>1. TypeOK /\ Push(l, "closeInLoop", c, n) /\ "closeInLoop" \in Ops /\ n \in Nat
        BY <1>2, <1>3, <1>4
      <4>2. \A k \in Loops, d \in Conns : "closeInLoop" \notin ShownOps \/ c # d => QueueGrows(k, d)
        BY <3>1, <4>1, PushIs
      <4>3. QED
        BY <4>2
    <3>3. QED
      BY <1>7, <2>1, <3>2
  <2>4. QED
    BY <1>2, <2>1, <2>2, <2>3 DEF StillBytes
<1>8. ASSUME Sends(c)' PROVE InOrder(c)'
  <2>1. InOrder(c)
    BY <1>2, <1>4, <1>8 DEF Sends, IsReset, ByteInv
  <2>2. PICK q, b, w, o, a : q = queue[l] /\ b = batch[l] /\ w = written[c] /\ o = output[c] /\ a = asked[c]
    OBVIOUS
  <2>3. PICK x : x = <<"closeInLoop", c, n>>
    OBVIOUS
  <2>4. /\ x \in Tasks /\ queue'[l] = Append(q, x)
        /\ x[1] = "closeInLoop" /\ x[2] = c /\ x[3] = n /\ Bytes(x, c) = 0
    BY <1>2, <1>3, <1>4, <2>2, <2>3, PushIs, SMTT(60) DEF Bytes
  <2>5. /\ b \in Seq(Tasks) /\ b # <<>> /\ batch'[l] = Tail(b)
        /\ Head(b)[1] = "queueClose" /\ Head(b)[2] = c /\ Head(b)[3] = n /\ Bytes(Head(b), c) = 0
    BY <1>1, <1>2, <2>2, TakeIs DEF Bytes
  <2>6. q \in Seq(Tasks) /\ w \in Nat /\ o \in Nat /\ a \in Nat /\ w + o \in Nat
    BY <1>2, <1>4, <1>6, <2>2 DEF TypeOK
  <2>7. Ahead(b, q, c, w + o, a) /\ ClosesBy(b, c, w) /\ ClosesBy(q, c, w + o) /\ (o > 0 => "write" \in events[c])
    BY <1>4, <2>1, <2>2 DEF InOrder
  <2>8. Ahead(Tail(b), q, c, (w + o) + 0, a) /\ ClosesBy(Tail(b), c, w) /\ n <= w + o
    BY <2>5, <2>7, AheadTail, ClosesByTail
  <2>9. (w + o) + 0 = w + o /\ a + 0 = a
    BY <2>6
  <2>10. Ahead(Tail(b), Append(q, x), c, w + o, a)
    BY <2>4, <2>6, <2>8, <2>9, AheadAppend
  <2>11. ClosesBy(Append(q, x), c, w + o)
    BY <2>4, <2>6, <2>7, <2>8, ClosesByAppend
  <2>12. phase'[l] # "events" /\ io'[c] = l /\ written'[c] = w /\ asked'[c] = a /\ output'[c] = o /\ events' = events
    BY <1>2, <1>4, <2>2
  <2>13. QED
    BY <2>4, <2>5, <2>7, <2>8, <2>10, <2>11, <2>12 DEF InOrder
<1>9. BytesOK(c)'
  BY <1>2, <1>5, <1>8 DEF BytesOK
<1>10. QED
  BY <1>2, <1>4, <1>6, <1>7, <1>9, OneMoves

\* Queueing a task of one connection leaves the others alone.
LEMMA OthersStill ==
    ASSUME TypeOK, NEW c \in Conns, NEW op \in Ops \ {"listen"}, NEW n \in Nat, NEW l \in Loops, Push(l, op, c, n)
    PROVE  \A k \in Loops, m \in Conns : m # c => QueueGrows(k, m)
<1>1. c \in Conns \cup {NoConn} /\ (c = NoConn <=> op = "listen")
  OBVIOUS
<1>2. \A k \in Loops, m \in Conns : op \notin ShownOps \/ c # m => QueueGrows(k, m)
  BY <1>1, PushIs
<1>3. QED
  BY <1>2

\* handleWrite writes all there is, and then nothing is left to wait for.
LEMMA WriteBytes ==
    ASSUME Drain, LifeInv, LifeInv', ByteInv, NEW l \in Loops, NEW c \in Conns, HandleWrite(l, c)
    PROVE  ByteInv'
<1>1. Event(l, c, "write") /\ "write" \in Kinds /\ TypeOK /\ <<c, "write">> \in active[l]
  BY DEF HandleWrite, Event, Kinds, LifeInv
<1>2. UNCHANGED <<serverVars, phase, batch, refs, asked>> /\ c \in accepted /\ l = io[c]
  BY <1>1, EventEffect
<1>3. UNCHANGED <<io, state, cb, peer>>
  BY <1>2 DEF HandleWrite, NoCallback, connVars, serverVars, peerVars
<1>4. /\ output \in [Conns -> Nat] /\ written \in [Conns -> Nat] /\ events \in [Conns -> SUBSET Kinds]
      /\ asked \in [Conns -> Nat]
  BY <1>1 DEF ByteInv, TypeOK
<1>5. PICK w, o : w = written[c] /\ o = output[c]
  OBVIOUS
<1>6. w \in Nat /\ o \in Nat /\ w + o \in Nat
  BY <1>4, <1>5
<1>7. \/ /\ output' = [output EXCEPT ![c] = 0] /\ written' = [written EXCEPT ![c] = w + o]
         /\ events' = [events EXCEPT ![c] = @ \ {"write"}] /\ Push(l, "writeComplete", c, 0)
      \/ /\ UNCHANGED <<output, written, events, queue>>
         /\ IsReset(c) \/ "write" \notin events[c]
  <2>1. ASSUME NEW n \in WriteResult(c), n >= 0 PROVE n = o
    BY <1>5, <1>6, <2>1 DEF WriteResult
  <2>2. -1 \in WriteResult(c) => IsReset(c)
    BY <1>5, <1>6 DEF WriteResult
  <2>3. CASE \E n \in WriteResult(c) :
               /\ n >= 0
               /\ output' = [output EXCEPT ![c] = @ - n]
               /\ written' = [written EXCEPT ![c] = @ + n]
               /\ IF n = output[c]
                    THEN /\ events' = [events EXCEPT ![c] = @ \ {"write"}]
                         /\ Push(l, "writeComplete", c, 0)
                    ELSE UNCHANGED <<events, queue>>
    <3>1. /\ output' = [output EXCEPT ![c] = @ - o] /\ written' = [written EXCEPT ![c] = @ + o]
          /\ events' = [events EXCEPT ![c] = @ \ {"write"}] /\ Push(l, "writeComplete", c, 0)
      BY <1>5, <2>1, <2>3
    <3>2. o - o = 0
      BY <1>6
    <3>3. output' = [output EXCEPT ![c] = 0] /\ written' = [written EXCEPT ![c] = w + o]
      BY <1>4, <1>5, <3>1, <3>2
    <3>4. QED
      BY <3>1, <3>3
  <2>4. CASE ("write" \notin events[c] \/ -1 \in WriteResult(c)) /\ UNCHANGED <<connVars, queue>>
    BY <2>2, <2>4 DEF connVars
  <2>5. QED
    BY <2>3, <2>4 DEF HandleWrite
<1>8. output' \in [Conns -> Nat] /\ written' \in [Conns -> Nat]
  BY <1>4, <1>6, <1>7
<1>9. "writeComplete" \in Ops \ {"listen"}
  BY DEF Ops, SharedOps
<1>10. ASSUME NEW m \in Conns, m # c PROVE StillBytes(m)
  <2>1. io[m] \in Loops /\ (IsReset(m) => IsReset(m)')
    BY <1>1, <1>3 DEF TypeOK, IsReset
  <2>2. output'[m] = output[m] /\ written'[m] = written[m] /\ events'[m] = events[m]
    BY <1>4, <1>7, <1>10
  <2>3. QueueGrows(io[m], m)
    <3>1. CASE Push(l, "writeComplete", c, 0)
      BY <1>1, <1>9, <1>10, <2>1, <3>1, OthersStill
    <3>2. CASE queue' = queue
      BY <3>2, SameStill
    <3>3. QED
      BY <1>7, <3>1, <3>2
  <2>4. <<m, "write">> \in active'[io[m]] <=> <<m, "write">> \in active[io[m]]
    <3>1. active' = [active EXCEPT ![l] = @ \ {<<c, "write">>}] /\ active \in [Loops -> SUBSET (Conns \X Kinds)]
      BY <1>1 DEF Event, TypeOK
    <3>2. <<m, "write">> # <<c, "write">>
      BY <1>10
    <3>3. QED
      BY <2>1, <3>1, <3>2
  <2>5. QED
    BY <1>2, <1>3, <2>1, <2>2, <2>3, <2>4, SameStill DEF StillBytes
<1>11. state'[c] \notin Unshown
  BY <1>1, <1>3, KnownIsShown
<1>12. ASSUME Sends(c)' PROVE InOrder(c)'
  <2>1. InOrder(c) /\ ~IsReset(c)
    BY <1>3, <1>12 DEF Sends, IsReset, ByteInv
  <2>2. PICK q, b, a : q = queue[l] /\ b = batch[l] /\ a = asked[c]
    OBVIOUS
  <2>3. q \in Seq(Tasks) /\ b \in Seq(Tasks) /\ a \in Nat
    BY <1>1, <1>4, <2>2 DEF TypeOK
  <2>4. Ahead(b, q, c, w + o, a) /\ ClosesBy(b, c, w) /\ ClosesBy(q, c, w + o) /\ (o > 0 => "write" \in events[c])
    BY <1>2, <1>5, <2>1, <2>2 DEF InOrder
  <2>5. batch'[l] = b /\ asked'[c] = a /\ io'[c] = l
    BY <1>2, <1>3, <2>2
  <2>6. CASE /\ output' = [output EXCEPT ![c] = 0] /\ written' = [written EXCEPT ![c] = w + o]
             /\ Push(l, "writeComplete", c, 0)
    <3>1. output'[c] = 0 /\ written'[c] = w + o /\ (w + o) + 0 = w + o
      BY <1>4, <1>6, <2>6
    <3>2. ClosesBy(b, c, w + o)
      <4>1. w <= w + o
        BY <1>6
      <4>2. QED
        BY <1>6, <2>3, <2>4, <4>1, ClosesByMore
    <3>3. PICK x : x = <<"writeComplete", c, 0>>
      OBVIOUS
    <3>4. x \in Tasks /\ queue'[l] = Append(q, x) /\ x[1] = "writeComplete"
      <4>1. c \in Conns \cup {NoConn} /\ (c = NoConn <=> "writeComplete" = "listen")
        OBVIOUS
      <4>2. QED
        BY <1>1, <1>9, <2>2, <2>6, <3>3, <4>1, PushIs
    <3>5. Bytes(x, c) = 0 /\ a + 0 = a
      BY <2>3, <3>4 DEF Bytes
    <3>6. Ahead(b, Append(q, x), c, w + o, a) /\ ClosesBy(Append(q, x), c, w + o)
      BY <2>3, <2>4, <3>4, <3>5, AheadAppend, ClosesByAppend, ZenonT(60)
    <3>7. QED
      BY <2>5, <3>1, <3>2, <3>4, <3>6 DEF InOrder
  <2>7. CASE UNCHANGED <<output, written, events, queue>> /\ "write" \notin events[c]
    <3>1. w + o = w
      BY <1>6, <2>4, <2>7
    <3>2. ClosesBy(q, c, w)
      BY <2>4, <3>1
    <3>3. output'[c] = o /\ written'[c] = w /\ queue'[l] = q
      BY <1>5, <2>2, <2>7
    <3>4. QED
      BY <2>4, <2>5, <2>7, <3>2, <3>3 DEF InOrder
  <2>8. QED
    BY <1>7, <2>1, <2>6, <2>7
<1>13. BytesOK(c)'
  BY <1>11, <1>12 DEF BytesOK
<1>14. QED
  BY <1>8, <1>10, <1>13, OneMoves

\* A call that queues a task of its connection: what a send is to send counts from the
\* call on, and a closeInNextLoop waits for what was asked before it.
LEMMA CallBytes ==
    ASSUME LifeInv, LifeInv', ByteInv, NEW c \in Conns, NEW op \in {"sendInLoop", "queueClose", "closeInLoop"},
           NEW n \in Nat, Push(io[c], op, c, n), state[c] \notin Unshown,
           asked' = [asked EXCEPT ![c] = @ + (IF op = "sendInLoop" THEN n ELSE 0)],
           op = "queueClose" => n <= asked[c], op = "closeInLoop" => n = 0,
           UNCHANGED <<io, phase, refs, active, peer, cb, batch, connVars>>
    PROVE  ByteInv'
<1>1. UNCHANGED <<state, events, written, output>> /\ TypeOK /\ op \in Ops \ {"listen"}
  BY DEF connVars, LifeInv, Ops
<1>2. PICK l \in Loops : l = io[c]
  BY <1>1 DEF TypeOK
<1>3. /\ output \in [Conns -> Nat] /\ written \in [Conns -> Nat] /\ asked \in [Conns -> Nat]
  BY <1>1 DEF ByteInv, TypeOK
<1>4. ASSUME NEW m \in Conns, m # c PROVE StillBytes(m)
  <2>1. io[m] \in Loops /\ (IsReset(m) => IsReset(m)') /\ asked'[m] = asked[m]
    BY <1>1, <1>3, <1>4 DEF TypeOK, IsReset
  <2>2. QueueGrows(io[m], m)
    BY <1>1, <1>2, <1>4, <2>1, OthersStill
  <2>3. QED
    BY <1>1, <2>1, <2>2, SameStill DEF StillBytes
<1>5. ASSUME Sends(c)' PROVE InOrder(c)'
  <2>1. InOrder(c)
    BY <1>1, <1>5 DEF Sends, IsReset, ByteInv
  <2>2. PICK q, b, w, o, a : q = queue[l] /\ b = batch[l] /\ w = written[c] /\ o = output[c] /\ a = asked[c]
    OBVIOUS
  <2>3. q \in Seq(Tasks) /\ w \in Nat /\ o \in Nat /\ a \in Nat /\ w + o \in Nat
    BY <1>1, <1>2, <1>3, <2>2 DEF TypeOK
  <2>4. PICK x : x = <<op, c, n>>
    OBVIOUS
  <2>5. x \in Tasks /\ queue'[l] = Append(q, x) /\ x[1] = op /\ x[2] = c /\ x[3] = n
    <3>1. c \in Conns \cup {NoConn} /\ (c = NoConn <=> op = "listen")
      BY <1>1
    <3>2. <<op, c, n>> \in Tasks /\ queue'[l] = Append(queue[l], <<op, c, n>>)
      BY <1>1, <1>2, <3>1, PushIs, SMTT(60)
    <3>3. QED
      BY <2>2, <2>4, <3>2
  <2>6. Bytes(x, c) = (IF op = "sendInLoop" THEN n ELSE 0) /\ asked'[c] = a + Bytes(x, c)
    BY <1>3, <2>2, <2>5 DEF Bytes
  <2>7. /\ Ahead(b, q, c, w + o, a) /\ ClosesBy(b, c, w) /\ ClosesBy(q, c, w + o)
        /\ o > 0 => "write" \in events[c]
        /\ phase[l] = "events" /\ <<c, "write">> \notin active[l] => ClosesBy(q, c, w)
    BY <1>2, <2>1, <2>2 DEF InOrder
  <2>8. Ahead(b, Append(q, x), c, w + o, asked'[c])
    BY <2>2, <2>3, <2>5, <2>6, <2>7, AheadAppend
  <2>9. ASSUME NEW k \in Nat, ClosesBy(q, c, k) PROVE ClosesBy(Append(q, x), c, k)
    <3>1. x[1] = "closeInLoop" => x[3] <= k
      BY <2>5, <2>9
    <3>2. QED
      BY <2>3, <2>5, <2>9, <3>1, ClosesByAppend
  <2>10. ClosesBy(queue'[l], c, w + o) /\ (ClosesBy(q, c, w) => ClosesBy(queue'[l], c, w))
    BY <2>3, <2>5, <2>7, <2>9
  <2>11. io'[c] = l /\ batch'[l] = b /\ written'[c] = w /\ output'[c] = o
    BY <1>1, <1>2, <2>2
  <2>12. QED
    BY <1>1, <2>5, <2>7, <2>8, <2>10, <2>11 DEF InOrder
<1>6. BytesOK(c)'
  BY <1>1, <1>5 DEF BytesOK
<1>7. QED
  BY <1>1, <1>3, <1>4, <1>6, OneMoves

\* send() in the loop's own thread overtakes what other threads have queued.
LEMMA DirectSendBytes ==
    ASSUME LifeInv, LifeInv', ByteInv, NEW c \in Conns, NEW n \in Nat, SendInLoop(io[c], c, n), state[c] \notin Unshown,
           asked' = [asked EXCEPT ![c] = @ + n],
           UNCHANGED <<io, phase, refs, active, peer, cb, batch, queue>>
    PROVE  ByteInv'
<1>1. TypeOK /\ UNCHANGED <<state, written>>
  BY DEF LifeInv, SendInLoop
<1>2. PICK l \in Loops : l = io[c]
  BY <1>1 DEF TypeOK
<1>3. /\ output \in [Conns -> Nat] /\ written \in [Conns -> Nat] /\ asked \in [Conns -> Nat]
      /\ events \in [Conns -> SUBSET Kinds]
  BY <1>1 DEF ByteInv, TypeOK
<1>4. output' \in [Conns -> Nat] /\ \A m \in Conns : m # c => output'[m] = output[m] /\ events'[m] = events[m]
  BY <1>3 DEF SendInLoop
<1>5. ASSUME NEW m \in Conns, m # c PROVE StillBytes(m)
  <2>1. (IsReset(m) => IsReset(m)') /\ asked'[m] = asked[m]
    BY <1>3, <1>5 DEF IsReset
  <2>2. QED
    BY <1>1, <1>4, <1>5, <2>1, SameStill DEF StillBytes
<1>6. ASSUME Sends(c)' PROVE InOrder(c)'
  <2>1. InOrder(c) /\ state[c] = "kConnected"
    BY <1>1, <1>6 DEF Sends, IsReset, ByteInv
  <2>2. PICK q, b, w, o, a : q = queue[l] /\ b = batch[l] /\ w = written[c] /\ o = output[c] /\ a = asked[c]
    OBVIOUS
  <2>3. q \in Seq(Tasks) /\ b \in Seq(Tasks) /\ w \in Nat /\ o \in Nat /\ a \in Nat
    BY <1>1, <1>2, <1>3, <2>2 DEF TypeOK
  <2>4. output'[c] = o + n /\ "write" \in events'[c] /\ asked'[c] = a + n
    BY <1>3, <2>1, <2>2 DEF SendInLoop
  <2>5. /\ Ahead(b, q, c, w + o, a) /\ ClosesBy(b, c, w) /\ ClosesBy(q, c, w + o)
        /\ phase[l] = "events" /\ <<c, "write">> \notin active[l] => ClosesBy(q, c, w)
    BY <1>2, <2>1, <2>2 DEF InOrder
  <2>6. /\ w + o \in Nat /\ (w + o) + n \in Nat /\ w + o <= (w + o) + n /\ (w + o) + n = w + (o + n)
    BY <2>3
  <2>7. Ahead(b, q, c, w + (o + n), a + n)
    BY <2>3, <2>5, <2>6, AheadShift
  <2>8. ClosesBy(q, c, w + (o + n))
    BY <2>3, <2>5, <2>6, ClosesByMore
  <2>9. io'[c] = l /\ batch'[l] = b /\ queue'[l] = q /\ written'[c] = w
    BY <1>1, <1>2, <2>2
  <2>10. QED
    BY <2>4, <2>5, <2>7, <2>8, <2>9 DEF InOrder
<1>7. BytesOK(c)'
  BY <1>1, <1>6 DEF BytesOK
<1>8. QED
  BY <1>1, <1>3, <1>4, <1>5, <1>7, OneMoves

LEMMA CallsBytes ==
    ASSUME LifeInv, LifeInv', ByteInv, NEW by \in Callers, NEW c \in Conns,
           \/ \E n \in 0..1 : Send(by, c, n)
           \/ Shutdown(by, c) \/ Close(by, c) \/ CloseInNextLoop(by, c)
    PROVE  ByteInv'
<1>1. ASSUME NEW name, MayCall(by, c, name) PROVE state[c] \notin Unshown
  <2>1. c \in refs \/ \E l \in Loops : cb[l] = c
    BY <1>1 DEF MayCall
  <2>2. QED
    BY <2>1, KnownIsShown
<1>2. asked \in [Conns -> Nat]
  BY DEF LifeInv, TypeOK
<1>3. ASSUME NEW n \in 0..1, Send(by, c, n) PROVE ByteInv'
  <2>1. state[c] \notin Unshown /\ n \in Nat
    BY <1>1, <1>3 DEF Send
  <2>2. UNCHANGED <<io, phase, refs, active, peer, cb, batch>> /\ asked' = [asked EXCEPT ![c] = @ + n]
    BY <1>3 DEF Send, CallFrame, serverVars, peerVars
  <2>3. CASE SendInLoop(io[c], c, n) /\ queue' = queue
    BY <2>1, <2>2, <2>3, DirectSendBytes
  <2>4. CASE Push(io[c], "sendInLoop", c, n) /\ UNCHANGED connVars
    BY <2>1, <2>2, <2>4, CallBytes
  <2>5. QED
    BY <1>3, <2>3, <2>4 DEF Send
<1>4. ASSUME Close(by, c) \/ CloseInNextLoop(by, c) PROVE ByteInv'
  <2>1. state[c] \notin Unshown
    BY <1>1, <1>4 DEF Close, CloseInNextLoop
  <2>2. UNCHANGED <<io, phase, refs, active, peer, cb, batch, connVars, asked>>
    BY <1>4 DEF Close, CloseInNextLoop, CallFrame, serverVars, peerVars
  <2>3. asked' = [asked EXCEPT ![c] = @ + 0] /\ asked[c] \in Nat /\ asked[c] <= asked[c]
    BY <1>2, <2>2
  <2>4. CASE Push(io[c], "closeInLoop", c, 0)
    BY <2>1, <2>2, <2>3, <2>4, CallBytes
  <2>5. CASE Push(io[c], "queueClose", c, asked[c])
    BY <2>1, <2>2, <2>3, <2>5, CallBytes
  <2>6. QED
    BY <1>4, <2>4, <2>5 DEF Close, CloseInNextLoop
<1>5. QED
  BY <1>3, <1>4, ShutdownBytes

LEMMA InitBytes == Init => ByteInv
<1>1. SUFFICES ASSUME Init PROVE ByteInv
  OBVIOUS
<1>2. /\ queue = [l \in Loops |-> <<>>] /\ batch = [l \in Loops |-> <<>>] /\ cb = [l \in Loops |-> NoConn]
      /\ active = [l \in Loops |-> {}] /\ refs = {} /\ state = [c \in Conns |-> "none"]
      /\ output = Zero /\ written = Zero /\ asked = Zero
  BY <1>1 DEF Init
<1>3. \A l \in Loops : \A op, c : ~Pending(l, op, c)
  BY <1>2, HasEmpty DEF InQueue, InBatch, Pending
<1>4. \A c \in Conns : Fresh(c) /\ ~Sends(c)
  BY <1>2, <1>3 DEF Fresh, Zero, Sends
<1>5. output \in [Conns -> Nat] /\ written \in [Conns -> Nat]
  BY <1>2 DEF Zero
<1>6. QED
  BY <1>4, <1>5 DEF ByteInv

LEMMA StepBytes ==
    ASSUME Drain, LifeInv, LifeInv', ByteInv, [Next]_vars
    PROVE  ByteInv'
<1>1. CASE UNCHANGED vars \/ Stopped
  BY <1>1, AsideBytes DEF Stopped
<1>2. ASSUME failed = "none", NEW l \in Loops, LoopStep(l) PROVE ByteInv'
  <2>1. CASE Poll(l) \/ SwapTasks(l)
    BY <1>2, <2>1, PollBytes, SwapBytes
  <2>2. CASE RunTask(l)
    BY <2>2, TaskStillBytes, TaskEstablishedBytes, TaskSendBytes, TaskQueueCloseBytes, AsideBytes DEF RunTask
  <2>3. CASE \E c \in Conns : HandleRead(l, c) \/ HandleWrite(l, c)
    BY <2>3, ReadBytes, WriteBytes
  <2>4. QED
    BY <1>2, <2>1, <2>2, <2>3 DEF LoopStep
<1>3. CASE Start \/ Accept \/ BeginDestroy \/ DestroyStep \/ Peer
  BY <1>3, StartBytes, NewConnectionBytes, AsideBytes, DestroyBytes, PeerBytes DEF Accept, DestroyStep
<1>4. CASE User
  BY <1>4, AsideBytes, CallsBytes DEF User
<1>5. QED
  BY <1>1, <1>2, <1>3, <1>4, ReturnBytes DEF Next, Running

\* On a socket that takes what is written to it, closeInNextLoop() loses nothing: for
\* every number of connections, loops, threads and calls, when its close is run on a
\* connection that is up and not reset, every byte handed to send() before the call has
\* been written, whichever thread it came from (conn.cpp:280-284).
THEOREM ClosesAfterFlush == ASSUME Drain PROVE Spec => FlushedBeforeClose
<1>1. LifeInv /\ LifeInv' /\ ByteInv /\ [Next]_vars => ByteInv'
  BY StepBytes
<1>2. Spec => [](LifeInv /\ ByteInv)
  BY <1>1, InitBytes, LifeAlways, PTL DEF Spec
<1>3. ASSUME LifeInv, ByteInv, NEW l \in Loops, Closes(l) PROVE written[Arg(l)] >= Num(l)
  <2>1. PICK c : c = Arg(l)
    OBVIOUS
  <2>2. /\ batch[l] # <<>> /\ batch[l] \in Seq(Tasks) /\ state[c] = "kConnected" /\ ~IsReset(c)
        /\ Head(batch[l])[1] = "closeInLoop" /\ Head(batch[l])[2] = c /\ Head(batch[l])[3] = Num(l)
    BY <1>3, <2>1 DEF Closes, Op, Arg, Num, LifeInv, TypeOK
  <2>3. Has(batch[l], "closeInLoop", c) /\ Head(batch[l]) \in Tasks
    BY <2>2, HasTail
  <2>4. c \in Conns /\ Num(l) \in Nat
    BY <2>2, <2>3 DEF Tasks
  <2>5. l = io[c]
    BY <1>3, <2>3, <2>4 DEF LifeInv, ConnOK, Where, Pending, InBatch, Ops
  <2>6. ClosesBy(batch[l], c, written[c])
    BY <1>3, <2>2, <2>4, <2>5 DEF ByteInv, Sends, InOrder
  <2>7. Num(l) <= written[c] /\ written[c] \in Nat
    BY <1>3, <2>2, <2>4, <2>6, ClosesByTail DEF ByteInv
  <2>8. QED
    BY <2>1, <2>4, <2>7
<1>4. LifeInv /\ ByteInv => [\A l \in Loops : Closes(l) => written[Arg(l)] >= Num(l)]_vars
  BY <1>3
<1>5. QED
  BY <1>2, <1>4, PTL DEF FlushedBeforeClose
=============================================================================
