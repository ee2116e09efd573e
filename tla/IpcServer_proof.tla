--------------------------- MODULE IpcServer_proof ---------------------------
(***************************************************************************)
(* The server of IpcServer listens for room exactly while it has something *)
(* to write, and serves only connections that exist, for any peers,        *)
(* requests, sockets and state of the window manager.  A peer hears one    *)
(* reply to each request that can be parsed, in their order, and an        *)
(* unbroken chain of events.                                               *)
(***************************************************************************)
EXTENDS IpcServer, Orders_proof

USE MonsAssumption, NamesAssumption, RequestsAssumption, PeersAssumption, BoundsAssumption

\* A write that has begun has something to write.
WritePending == \A p \in Peers : Writing(p) => buffer[p] # <<>>

\* What epoll_wait said of a connection is about one that is there still.
ReadyConn == \A p \in Peers : ready[p] \cap {"hup", "out", "in"} # {} => p \in conn

\* The peer being served has no second event in the batch, so a connection
\* that is closed on a failed read leaves none behind.
ServedOnce == server.at \in {"read", "write"} => ready[server.who] = {}

IInv == TypeOK /\ ArmedPending /\ WritePending /\ ReadyConn /\ ServedOnce

-----------------------------------------------------------------------------
(* The types of what is queued and of where the process may be.            *)

Place ==
    [at : {"loop", "dead"}] \cup [at : {"read", "write"}, who : conn]
        \cup [at : {"events"}, mon : Mon, selmon : Mon]

\* At rest is a place, and not one at which a peer is served.
LEMMA IdlePlace ==
  /\ Idle \in [at : {"loop", "dead"}]
  /\ Idle.at = "loop"
  BY DEF Idle

\* Where the process is when it is not serving p.
LEMMA PlaceOfPeer ==
  ASSUME TypeOK, NEW p \in Peers
  PROVE  /\ (Reading(p) \/ Writing(p)) => p \in conn /\ server.who = p
         /\ Reading(p) => server.at = "read"
         /\ Writing(p) => server.at = "write"
<1>1. server \in Place
  BY DEF TypeOK, Place
<1>2. ASSUME NEW a \in {"read", "write"}, server = [at |-> a, who |-> p]
      PROVE  p \in conn /\ server.who = p /\ server.at = a
  <2>1. server.at = a /\ server.who = p
    BY <1>2
  <2>2. server \in [at : {"read", "write"}, who : conn]
    BY <1>1, <1>2, <2>1 DEF Place
  <2> QED
    BY <2>1, <2>2
<1> QED
  BY <1>2 DEF Reading, Writing

\* Monitors and selections are values of an event, freed or not.
LEMMA ValueTypes ==
  ASSUME TypeOK, NEW m \in Mon
  PROVE  /\ told.tag[m] \in Value /\ wm.tag[m] \in Value
         /\ told.sel[m] \in Value /\ wm.sel[m] \in Value
         /\ told.selmon \in Value
         /\ <<"tag", m>> \in Key /\ <<"sel", m>> \in Key /\ <<"mon", 0>> \in Key
  BY DEF TypeOK, Value, WmState, Key

\* An event is a message.
LEMMA EventType ==
  ASSUME NEW k \in Key, NEW old \in Value, NEW new \in Value
  PROVE  <<[on |-> k, old |-> old, new |-> new]>> \in Seq(Message)
  BY DEF Message

\* So are a change and what a subscriber gets of it.
LEMMA ChangedType ==
  ASSUME NEW k \in Key, NEW old \in Value, NEW new \in Value
  PROVE  Changed(k, old, new) \in Seq(Message)
  BY EventType DEF Changed

\* What is for a peer is a sequence of messages.
LEMMA ForType ==
  ASSUME NEW p, NEW topic, NEW msgs \in Seq(Message)
  PROVE  For(p, topic, msgs) \in Seq(Message)
  BY DEF For

\* A longer sequence is empty only when both parts are.
LEMMA ConcatPending ==
  ASSUME NEW s \in Seq(Message), NEW t \in Seq(Message)
  PROVE  /\ s \o t \in Seq(Message)
         /\ s \o t # <<>> <=> (s # <<>> \/ t # <<>>)
  BY ConcatProperties, EmptySeq

\* What a round of ipc_send_events adds to the buffer of one peer.
LEMMA NewType ==
  ASSUME TypeOK, NEW p \in Peers, NEW m \in Mon, NEW win \in WinOf(told.sel[m]),
         NEW selmon \in Mon
  PROVE  For(p, "tag", Changed(<<"tag", m>>, told.tag[m], wm.tag[m]))
         \o For(p, "sel", SelChanged(m, win))
         \o For(p, "mon", MonChanged(selmon)) \in Seq(Message)
<1> DEFINE a == For(p, "tag", Changed(<<"tag", m>>, told.tag[m], wm.tag[m]))
           b == For(p, "sel", SelChanged(m, win))
           c == For(p, "mon", MonChanged(selmon))
<1>1. win \in Value
  BY ValueTypes DEF WinOf, Value
<1>2. selmon \in Value
  BY DEF Value
<1>3. Changed(<<"tag", m>>, told.tag[m], wm.tag[m]) \in Seq(Message)
  BY ValueTypes, ChangedType
<1>4. SelChanged(m, win) \in Seq(Message)
  <2>1. <<"sel", m>> \in Key /\ wm.sel[m] \in Value
    BY ValueTypes
  <2>2. <<[on |-> <<"sel", m>>, old |-> win, new |-> wm.sel[m]]>> \in Seq(Message)
    BY <1>1, <2>1, EventType
  <2> QED
    BY <2>2, EmptySeq, Zenon DEF SelChanged
<1>5. MonChanged(selmon) \in Seq(Message)
  <2>1. <<"mon", 0>> \in Key /\ told.selmon \in Value
    BY ValueTypes
  <2>2. Changed(<<"mon", 0>>, told.selmon, selmon) \in Seq(Message)
    BY <1>2, <2>1, ChangedType
  <2> QED
    BY <2>2, EmptySeq, Zenon DEF MonChanged
<1>6. a \in Seq(Message) /\ b \in Seq(Message) /\ c \in Seq(Message)
  BY <1>3, <1>4, <1>5, ForType
<1> SUFFICES a \o b \o c \in Seq(Message)
  OBVIOUS
<1> HIDE DEF a, b, c
<1> QED
  BY <1>6, ConcatPending

\* A reply is a message, and it is there.
LEMMA ReplyType ==
  ASSUME NEW r \in Request
  PROVE  Reply(r) \in Seq(Message) /\ Reply(r) # <<>>
  BY DEF Reply, Message

\* Queueing keeps the types, and EPOLLOUT goes with what is pending.
LEMMA QueueKeeps ==
  ASSUME TypeOK, ArmedPending, NEW p \in Peers, NEW msgs \in Seq(Message), Queue(p, msgs)
  PROVE  /\ buffer' \in [Peers -> Seq(Message)]
         /\ armed' \in [Peers -> BOOLEAN]
         /\ ArmedPending'
<1>1. buffer \in [Peers -> Seq(Message)] /\ armed \in [Peers -> BOOLEAN]
  BY DEF TypeOK
<1>2. buffer[p] \o msgs \in Seq(Message)
      /\ (buffer[p] \o msgs # <<>> <=> (buffer[p] # <<>> \/ msgs # <<>>))
  BY <1>1, ConcatPending
<1>3. buffer' \in [Peers -> Seq(Message)] /\ armed' \in [Peers -> BOOLEAN]
  BY <1>1, <1>2 DEF Queue
<1>4. ASSUME NEW q \in Peers
      PROVE  armed'[q] <=> buffer'[q] # <<>>
  <2>1. armed[q] <=> buffer[q] # <<>>
    BY DEF ArmedPending
  <2>2. CASE q = p
    BY <1>1, <1>2, <2>1, <2>2 DEF Queue
  <2>3. CASE q # p
    BY <1>1, <2>1, <2>3 DEF Queue
  <2> QED
    BY <2>2, <2>3
<1> QED
  BY <1>3, <1>4 DEF ArmedPending

\* A request that has come is a request, and the ones behind it are.
LEMMA TakeKeeps ==
  ASSUME TypeOK, NEW p \in Peers, NEW do, Take(p, do)
  PROVE  /\ Head(up[p]) \in Request
         /\ Head(up[p]).do = do
         /\ up' \in [Peers -> Seq(Request)]
         /\ UNCHANGED <<half, down, ready, conn, peerVars>>
<1>1. up \in [Peers -> Seq(Request)] /\ up[p] \in Seq(Request) /\ up[p] # <<>>
  BY DEF TypeOK, Take, Whole
<1>2. Head(up[p]) \in Request /\ Tail(up[p]) \in Seq(Request)
  BY <1>1, HeadTailProperties
<1> QED
  BY <1>1, <1>2 DEF Take

-----------------------------------------------------------------------------
(* The main loop.                                                          *)

\* What epoll_wait reports is about connections, and about the display and
\* newcomers.
LEMMA FlagsKnown ==
  ASSUME NEW p \in Peers
  PROVE  /\ Flags(p) \subseteq {"accept", "hup", "out", "in"}
         /\ Flags(p) \cap {"hup", "out", "in"} # {} => p \in conn
<1>1. CASE p \notin conn
  <2>1. Flags(p) \subseteq {"accept"}
    BY <1>1 DEF Flags
  <2> QED
    BY <1>1, <2>1
<1>2. CASE p \in conn
  <2>1. Flags(p) \subseteq {"hup", "out", "in"}
    BY <1>2 DEF Flags
  <2> QED
    BY <1>2, <2>1
<1> QED
  BY <1>1, <1>2

\* A batch of events is fetched.
LEMMA EpollWaitKeeps ==
  ASSUME IInv, EpollWait
  PROVE  IInv'
<1> USE DEF IInv
<1>1. PICK f \in XFlags :
        ready' = [s \in Source |-> IF s = Display THEN f ELSE Flags(s)]
  BY DEF EpollWait
<1>2. f \subseteq {"in"}
  BY DEF XFlags
<1>3. UNCHANGED <<wm, told, server, conn, subs, buffer, armed, up, half, down, peer, asked,
                  answered, seen>>
  BY DEF EpollWait, wmVars, clientVars, socketVars, peerVars
<1>4. \A p \in Peers : ready'[p] = Flags(p)
  BY <1>1 DEF Source
<1>5. ready' \in [Source -> SUBSET {"accept", "hup", "out", "in"}]
  BY <1>1, <1>2, FlagsKnown DEF Source
<1>6. server = Idle
  BY DEF EpollWait
<1>7. TypeOK'
  BY <1>3, <1>5 DEF TypeOK
<1>8. ArmedPending' /\ WritePending'
  BY <1>3 DEF ArmedPending, WritePending, Writing
<1>9. ReadyConn'
  BY <1>3, <1>4, FlagsKnown DEF ReadyConn
<1>10. ServedOnce'
  BY <1>3, <1>6, IdlePlace DEF ServedOnce
<1> QED
  BY <1>7, <1>8, <1>9, <1>10

\* Serving one event of the batch leaves less of the batch.
LEMMA ServeKeeps ==
  ASSUME IInv, NEW p \in Peers, Serve(p)
  PROVE  /\ ready' \in [Source -> SUBSET {"accept", "hup", "out", "in"}]
         /\ ready'[p] = {}
         /\ \A q \in Peers \ {p} : ready'[q] = ready[q]
         /\ server = Idle
  BY DEF Serve, IInv, TypeOK, Source

\* A peer is accepted.
LEMMA AcceptKeeps ==
  ASSUME IInv, NEW p \in Peers, AcceptClient(p)
  PROVE  IInv'
<1> USE DEF IInv
<1>1. Serve(p) /\ conn' = conn \cup {p}
  BY DEF AcceptClient
<1>2. UNCHANGED <<wm, told, server, subs, buffer, armed, up, half, down, peer, asked, answered,
                  seen>>
  BY DEF AcceptClient, wmVars, socketVars, peerVars
<1>3. TypeOK'
  <2>1. server' = Idle
    BY <1>1, <1>2 DEF Serve
  <2>2. conn' \in SUBSET Peers
    BY <1>1 DEF TypeOK
  <2> QED
    BY <1>1, <1>2, <2>1, <2>2, ServeKeeps, IdlePlace DEF TypeOK
<1>4. ArmedPending' /\ WritePending'
  BY <1>2 DEF ArmedPending, WritePending, Writing
<1>5. ReadyConn'
  BY <1>1, ServeKeeps DEF ReadyConn
<1>6. ServedOnce'
  BY <1>1, <1>2, ServeKeeps, IdlePlace DEF ServedOnce
<1> QED
  BY <1>3, <1>4, <1>5, <1>6

\* A dropped connection leaves nothing of its own; the process is at rest.
LEMMA DropKeeps ==
  ASSUME IInv, NEW p \in Peers, DropClient(p), server' = Idle,
         ready' \in [Source -> SUBSET {"accept", "hup", "out", "in"}],
         ready'[p] = {}, \A q \in Peers \ {p} : ready'[q] = ready[q],
         UNCHANGED wmVars
  PROVE  IInv'
<1> USE DEF IInv
<1>1. TypeOK'
  <2>1. /\ conn' \in SUBSET Peers
        /\ subs' \in [Peers -> SUBSET Topic]
        /\ armed' \in [Peers -> BOOLEAN]
        /\ half' \in [Peers -> BOOLEAN]
        /\ peer' \in [Peers -> {"out", "open", "closed"}]
    BY DEF TypeOK, DropClient
  <2>2. /\ buffer' \in [Peers -> Seq(Message)]
        /\ down' \in [Peers -> Seq(Message)]
    BY DEF TypeOK, DropClient
  <2>3. /\ up' \in [Peers -> Seq(Request)]
        /\ asked' \in [Peers -> Seq(Request)]
        /\ answered' \in [Peers -> Seq(Request)]
    BY DEF TypeOK, DropClient
  <2>4. seen' \in [Peers -> [Key -> Value]]
    BY DEF TypeOK, DropClient, Value
  <2>5. wm' = wm /\ told' = told
    BY DEF wmVars
  <2> QED
    BY <2>1, <2>2, <2>3, <2>4, <2>5, IdlePlace DEF TypeOK
<1>2. ASSUME NEW q \in Peers
      PROVE  armed'[q] <=> buffer'[q] # <<>>
  <2>1. armed[q] <=> buffer[q] # <<>>
    BY DEF ArmedPending
  <2> QED
    BY <2>1 DEF DropClient, TypeOK
<1>3. WritePending' /\ ServedOnce'
  BY IdlePlace DEF WritePending, ServedOnce, Writing, Idle
<1>4. ReadyConn'
  BY DEF ReadyConn, DropClient
<1> QED
  BY <1>1, <1>2, <1>3, <1>4 DEF ArmedPending

\* A peer that hung up is dropped.
LEMMA HandleHupKeeps ==
  ASSUME IInv, NEW p \in Peers, HandleHup(p)
  PROVE  IInv'
  BY ServeKeeps, DropKeeps DEF HandleHup

\* Nothing but where the process is and the batch has changed.
LEMMA TurnKeeps ==
  ASSUME IInv, NEW p \in Peers, Serve(p), p \in conn,
         \/ server' = Idle
         \/ server' = [at |-> "read", who |-> p]
         \/ server' = [at |-> "write", who |-> p] /\ buffer[p] # <<>>,
         UNCHANGED <<wmVars, clientVars, socketVars, peerVars>>
  PROVE  IInv'
<1> USE DEF IInv
<1>1. UNCHANGED <<wm, told, conn, subs, buffer, armed, up, half, down, peer, asked, answered,
                  seen>>
  BY DEF wmVars, clientVars, socketVars, peerVars
<1>2. server' \in Place
  BY IdlePlace DEF Place
<1>3. TypeOK'
  BY <1>1, <1>2, ServeKeeps DEF TypeOK, Place
<1>4. ArmedPending'
  BY <1>1 DEF ArmedPending
<1>5. WritePending'
  <2> SUFFICES ASSUME NEW q \in Peers, server' = [at |-> "write", who |-> q]
               PROVE  buffer[q] # <<>>
    BY <1>1 DEF WritePending, Writing
  <2>1. server'.at = "write" /\ server'.who = q
    OBVIOUS
  <2> QED
    BY <2>1, IdlePlace
<1>6. ReadyConn'
  BY <1>1, ServeKeeps DEF ReadyConn
<1>7. ServedOnce'
  <2>1. server'.at \in {"read", "write"} => server'.who = p
    BY IdlePlace
  <2> QED
    BY <2>1, ServeKeeps DEF ServedOnce
<1> QED
  BY <1>3, <1>4, <1>5, <1>6, <1>7

\* A peer has room for what is queued.
LEMMA HandleOutKeeps ==
  ASSUME IInv, NEW p \in Peers, HandleOut(p)
  PROVE  IInv'
<1>1. Serve(p) /\ "out" \in ready[p]
  BY DEF HandleOut
<1>2. p \in conn
  BY <1>1 DEF IInv, ReadyConn
<1> QED
  BY <1>1, <1>2, TurnKeeps DEF HandleOut

\* A peer has sent something.
LEMMA HandleInKeeps ==
  ASSUME IInv, NEW p \in Peers, HandleIn(p)
  PROVE  IInv'
<1>1. Serve(p) /\ "in" \in ready[p]
  BY DEF HandleIn
<1>2. p \in conn
  BY <1>1 DEF IInv, ReadyConn
<1> QED
  BY <1>1, <1>2, TurnKeeps DEF HandleIn

-----------------------------------------------------------------------------
(* Writing and reading.                                                    *)

\* What is queued is written.
LEMMA WriteMessageKeeps ==
  ASSUME IInv, NEW p \in Peers, WriteMessage(p)
  PROVE  IInv'
<1> USE DEF IInv
<1>1. UNCHANGED <<wm, told, ready, conn, subs, up, half, peer, asked, answered, seen>>
  BY DEF WriteMessage, wmVars, peerVars
<1>2. buffer \in [Peers -> Seq(Message)] /\ buffer[p] \in Seq(Message) /\ buffer[p] # <<>>
  BY DEF TypeOK, WriteMessage, WritePending
<1>3. Head(buffer[p]) \in Message /\ Tail(buffer[p]) \in Seq(Message)
  BY <1>2, HeadTailProperties
<1>4. Append(down[p], Head(buffer[p])) \in Seq(Message)
  BY <1>3, AppendProperties DEF TypeOK
<1>5. /\ buffer' \in [Peers -> Seq(Message)]
      /\ buffer'[p] = Tail(buffer[p])
      /\ \A q \in Peers \ {p} : buffer'[q] = buffer[q]
  BY <1>2, <1>3 DEF WriteMessage
<1>6. down' \in [Peers -> Seq(Message)]
  BY <1>4 DEF WriteMessage, TypeOK
<1>7. p \in conn /\ server.who = p /\ server.at = "write" /\ server \in Place
  BY PlaceOfPeer DEF WriteMessage, TypeOK, Place
<1>8. CASE Tail(buffer[p]) = <<>>
  <2>1. armed' = [armed EXCEPT ![p] = FALSE] /\ server' = Idle
    BY <1>8 DEF WriteMessage
  <2>2. armed' \in [Peers -> BOOLEAN]
    BY <2>1 DEF TypeOK
  <2>3. TypeOK'
    BY <1>1, <1>5, <1>6, <2>1, <2>2, IdlePlace DEF TypeOK
  <2>4. ASSUME NEW q \in Peers
        PROVE  armed'[q] <=> buffer'[q] # <<>>
    <3>1. armed[q] <=> buffer[q] # <<>>
      BY DEF ArmedPending
    <3> QED
      BY <1>5, <1>8, <2>1, <3>1 DEF TypeOK
  <2>5. WritePending' /\ ServedOnce'
    BY <2>1, IdlePlace DEF WritePending, ServedOnce, Writing, Idle
  <2>6. ReadyConn'
    BY <1>1 DEF ReadyConn
  <2> QED
    BY <2>3, <2>4, <2>5, <2>6 DEF ArmedPending
<1>9. CASE Tail(buffer[p]) # <<>>
  <2>1. UNCHANGED <<armed, server>>
    BY <1>9 DEF WriteMessage
  <2>2. TypeOK'
    BY <1>1, <1>5, <1>6, <2>1 DEF TypeOK
  <2>3. \A q \in Peers : buffer'[q] # <<>> <=> buffer[q] # <<>>
    BY <1>2, <1>5, <1>9
  <2>4. ArmedPending' /\ WritePending'
    BY <2>1, <2>3 DEF ArmedPending, WritePending, Writing
  <2>5. ReadyConn' /\ ServedOnce'
    BY <1>1, <2>1 DEF ReadyConn, ServedOnce
  <2> QED
    BY <2>2, <2>4, <2>5
<1> QED
  BY <1>8, <1>9

\* The process may end: the rest is as it was.
LEMMA WriteBrokenKeeps ==
  ASSUME IInv, NEW p \in Peers, WriteBroken(p)
  PROVE  IInv'
<1> USE DEF IInv
<1>1. UNCHANGED <<wm, told, ready, conn, subs, buffer, armed, up, half, down, peer, asked,
                  answered, seen>>
  BY DEF WriteBroken, wmVars, clientVars, socketVars, peerVars
<1>2. server' = [at |-> "dead"]
  BY DEF WriteBroken
<1>3. TypeOK'
  BY <1>1, <1>2 DEF TypeOK
<1>4. ArmedPending' /\ ReadyConn'
  BY <1>1 DEF ArmedPending, ReadyConn
<1>5. server'.at = "dead"
  BY <1>2
<1>6. ServedOnce'
  BY <1>5 DEF ServedOnce
<1>7. WritePending'
  <2> SUFFICES ASSUME NEW q \in Peers
               PROVE  server' # [at |-> "write", who |-> q]
    BY DEF WritePending, Writing
  <2> QED
    BY <1>5
<1> QED
  BY <1>3, <1>4, <1>6, <1>7

\* A request has been taken: what is left to say is about subs, the buffer and
\* where the process goes next.
LEMMA TakenKeeps ==
  ASSUME IInv, NEW p \in Peers, NEW do, Take(p, do), ArmedPending',
         wm' \in WmState, told' = told,
         subs' \in [Peers -> SUBSET Topic],
         buffer' \in [Peers -> Seq(Message)],
         armed' \in [Peers -> BOOLEAN],
         \/ server' = Idle
         \/ server' = [at |-> "events", mon |-> 1, selmon |-> wm.selmon]
  PROVE  IInv'
<1> USE DEF IInv
<1>1. UNCHANGED <<ready, conn, half, down, peer, asked, answered, seen>>
  BY TakeKeeps DEF peerVars
<1>2. up' \in [Peers -> Seq(Request)]
  BY TakeKeeps
<1>3. 1 \in Mon /\ wm.selmon \in Mon
  BY DEF Mon, TypeOK, WmState
<1>4. server' \in Place
  BY <1>3, IdlePlace DEF Place
<1>5. TypeOK'
  BY <1>1, <1>2, <1>4 DEF TypeOK, Place
<1>6. server'.at \in {"loop", "events"}
  BY IdlePlace
<1>7. WritePending'
  <2> SUFFICES ASSUME NEW q \in Peers
               PROVE  server' # [at |-> "write", who |-> q]
    BY DEF WritePending, Writing
  <2> QED
    BY <1>6
<1>8. ReadyConn' /\ ServedOnce'
  BY <1>1, <1>6 DEF ReadyConn, ServedOnce
<1> QED
  BY <1>5, <1>7, <1>8

\* The requests with one reply.
LEMMA RepliedKeeps ==
  ASSUME IInv, NEW p \in Peers, NEW do, Take(p, do), Queue(p, Reply(Head(up[p]))),
         wm' \in WmState, told' = told,
         subs' \in [Peers -> SUBSET Topic],
         \/ server' = Idle
         \/ server' = [at |-> "events", mon |-> 1, selmon |-> wm.selmon]
  PROVE  IInv'
<1>1. Head(up[p]) \in Request
  BY TakeKeeps DEF IInv
<1>2. Reply(Head(up[p])) \in Seq(Message)
  BY <1>1, ReplyType
<1>3. /\ buffer' \in [Peers -> Seq(Message)]
      /\ armed' \in [Peers -> BOOLEAN]
      /\ ArmedPending'
  BY <1>2, QueueKeeps DEF IInv
<1> QED
  BY <1>3, TakenKeeps

\* A request is read and answered.
LEMMA ReadMessageKeeps ==
  ASSUME IInv, NEW p \in Peers, ReadMessage(p)
  PROVE  IInv'
<1>1. wm \in WmState /\ subs \in [Peers -> SUBSET Topic] /\ up \in [Peers -> Seq(Request)]
  BY DEF IInv, TypeOK
<1>2. CASE Ask(p)
  <2>1. wm' = wm /\ told' = told /\ subs' = subs
    BY <1>2 DEF Ask, wmVars
  <2>2. wm' \in WmState /\ subs' \in [Peers -> SUBSET Topic]
    BY <1>1, <2>1
  <2> QED
    BY <1>2, <2>1, <2>2, RepliedKeeps DEF Ask
<1>3. CASE Mute(p)
  <2>1. wm' = wm /\ told' = told /\ subs' = subs /\ buffer' = buffer /\ armed' = armed
    BY <1>3 DEF Mute, wmVars
  <2>2. /\ wm' \in WmState /\ subs' \in [Peers -> SUBSET Topic]
        /\ buffer' \in [Peers -> Seq(Message)] /\ armed' \in [Peers -> BOOLEAN]
    BY <1>1, <2>1 DEF IInv, TypeOK
  <2>3. ArmedPending'
    BY <2>1 DEF IInv, ArmedPending
  <2> QED
    BY <1>3, <2>1, <2>2, <2>3, TakenKeeps DEF Mute
<1>4. CASE Subscribe(p)
  <2>1. Take(p, "sub") /\ Head(up[p]) \in Request /\ Head(up[p]).do = "sub"
    BY <1>4, TakeKeeps DEF Subscribe, IInv
  <2>2. Head(up[p]).on \in Topic
    BY <2>1 DEF Request
  <2>3. wm' \in WmState /\ told' = told /\ subs' \in [Peers -> SUBSET Topic]
    BY <1>1, <1>4, <2>2 DEF Subscribe, wmVars
  <2> QED
    BY <1>4, <2>3, RepliedKeeps DEF Subscribe
<1>5. CASE Unsubscribe(p)
  <2>1. Take(p, "unsub") /\ Head(up[p]) \in Request /\ Head(up[p]).do = "unsub"
    BY <1>5, TakeKeeps DEF Unsubscribe, IInv
  <2>2. Head(up[p]).on \in Topic
    BY <2>1 DEF Request
  <2>3. wm' \in WmState /\ told' = told /\ subs' \in [Peers -> SUBSET Topic]
    BY <1>1, <1>5, <2>2 DEF Unsubscribe, wmVars
  <2> QED
    BY <1>5, <2>3, RepliedKeeps DEF Unsubscribe
<1>6. CASE RunCommand(p)
  <2>1. wm' \in WmState /\ told' = told /\ subs' \in [Peers -> SUBSET Topic]
    BY <1>1, <1>6 DEF RunCommand
  <2> QED
    BY <1>6, <2>1, RepliedKeeps DEF RunCommand
<1>7. CASE ReadFailed(p)
  <2>1. ready' = ready /\ DropClient(p) /\ server' = Idle /\ UNCHANGED wmVars
    BY <1>7 DEF ReadFailed
  <2>2. ready[p] = {}
    BY <1>7, PlaceOfPeer DEF ReadFailed, IInv, ServedOnce
  <2>3. ready' \in [Source -> SUBSET {"accept", "hup", "out", "in"}]
    BY <2>1 DEF IInv, TypeOK
  <2> QED
    BY <2>1, <2>2, <2>3, DropKeeps
<1> QED
  BY <1>2, <1>3, <1>4, <1>5, <1>6, <1>7 DEF ReadMessage

-----------------------------------------------------------------------------
(* Events.                                                                 *)

\* The window manager handles an event.
LEMMA XEventKeeps ==
  ASSUME IInv, XEvent
  PROVE  IInv'
<1> USE DEF IInv
<1>1. UNCHANGED <<told, conn, subs, buffer, armed, up, half, down, peer, asked, answered, seen>>
  BY DEF XEvent, clientVars, socketVars, peerVars
<1>2. wm' \in WmState /\ server' = [at |-> "events", mon |-> 1, selmon |-> wm'.selmon]
  BY DEF XEvent
<1>3. PICK f \in XFlags : ready' = [ready EXCEPT ![Display] = f]
  BY DEF XEvent
<1>4. f \subseteq {"in"}
  BY DEF XFlags
<1>5. /\ ready' \in [Source -> SUBSET {"accept", "hup", "out", "in"}]
      /\ \A q \in Peers : ready'[q] = ready[q]
  BY <1>3, <1>4 DEF TypeOK, Source
<1>6. 1 \in Mon /\ wm'.selmon \in Mon
  BY <1>2 DEF Mon, WmState
<1>7. TypeOK'
  BY <1>1, <1>2, <1>5, <1>6 DEF TypeOK
<1>8. server'.at = "events"
  BY <1>2
<1>9. WritePending'
  <2> SUFFICES ASSUME NEW q \in Peers
               PROVE  server' # [at |-> "write", who |-> q]
    BY DEF WritePending, Writing
  <2> QED
    BY <1>8
<1>10. ArmedPending' /\ ReadyConn' /\ ServedOnce'
  BY <1>1, <1>5, <1>8 DEF ArmedPending, ReadyConn, ServedOnce
<1> QED
  BY <1>7, <1>9, <1>10

\* The subscribers are told of it.
LEMMA SendEventsKeeps ==
  ASSUME IInv, SendEvents
  PROVE  IInv'
<1> USE DEF IInv
<1> DEFINE m == server.mon
<1>1. server.at = "events" /\ server \in Place
  BY DEF SendEvents, TypeOK, Place
<1>2. server \in [at : {"events"}, mon : Mon, selmon : Mon]
  BY <1>1 DEF Place
<1>3. m \in Mon /\ server.selmon \in Mon /\ (m # NMons => m + 1 \in Mon)
  BY <1>2 DEF Mon
<1>4. PICK win \in WinOf(told.sel[m]) :
        LET New(p) == For(p, "tag", Changed(<<"tag", m>>, told.tag[m], wm.tag[m]))
                      \o For(p, "sel", SelChanged(m, win))
                      \o For(p, "mon", MonChanged(server.selmon))
        IN /\ buffer' = [p \in Peers |-> IF p \in conn THEN buffer[p] \o New(p) ELSE buffer[p]]
           /\ armed' = [p \in Peers |-> armed[p] \/ (p \in conn /\ New(p) # <<>>)]
           /\ told' = [selmon |-> server.selmon,
                       sel |-> [told.sel EXCEPT ![m] = wm.sel[m]],
                       tag |-> [told.tag EXCEPT ![m] = wm.tag[m]]]
           /\ server' = IF m = NMons THEN Idle ELSE [server EXCEPT !.mon = m + 1]
  BY DEF SendEvents
<1> DEFINE New(p) == For(p, "tag", Changed(<<"tag", m>>, told.tag[m], wm.tag[m]))
                     \o For(p, "sel", SelChanged(m, win))
                     \o For(p, "mon", MonChanged(server.selmon))
<1>5. \A p \in Peers : New(p) \in Seq(Message)
  BY <1>3, NewType, Zenon
<1>6. /\ buffer' = [p \in Peers |-> IF p \in conn THEN buffer[p] \o New(p) ELSE buffer[p]]
      /\ armed' = [p \in Peers |-> armed[p] \/ (p \in conn /\ New(p) # <<>>)]
  BY <1>4
<1>7. /\ told' = [selmon |-> server.selmon,
                  sel |-> [told.sel EXCEPT ![m] = wm.sel[m]],
                  tag |-> [told.tag EXCEPT ![m] = wm.tag[m]]]
      /\ server' = IF m = NMons THEN Idle ELSE [server EXCEPT !.mon = m + 1]
  BY <1>4
<1>8. UNCHANGED <<wm, ready, conn, subs, up, half, down, peer, asked, answered, seen>>
  BY DEF SendEvents, socketVars, peerVars
<1> HIDE DEF New, m
<1>9. ASSUME NEW p \in Peers
      PROVE  /\ buffer'[p] \in Seq(Message)
             /\ armed'[p] \in BOOLEAN
             /\ armed'[p] <=> buffer'[p] # <<>>
  <2>1. buffer[p] \in Seq(Message) /\ armed[p] \in BOOLEAN /\ (armed[p] <=> buffer[p] # <<>>)
    BY DEF TypeOK, ArmedPending
  <2>2. CASE p \in conn
    <3>1. buffer'[p] = buffer[p] \o New(p) /\ armed'[p] = (armed[p] \/ New(p) # <<>>)
      BY <1>6, <2>2
    <3>2. /\ buffer[p] \o New(p) \in Seq(Message)
          /\ buffer[p] \o New(p) # <<>> <=> (buffer[p] # <<>> \/ New(p) # <<>>)
      BY <1>5, <2>1, ConcatPending
    <3> QED
      BY <2>1, <3>1, <3>2
  <2>3. CASE p \notin conn
    <3>1. buffer'[p] = buffer[p] /\ armed'[p] = armed[p]
      BY <1>6, <2>1, <2>3
    <3> QED
      BY <2>1, <3>1
  <2> QED
    BY <2>2, <2>3
<1>10. buffer' \in [Peers -> Seq(Message)] /\ armed' \in [Peers -> BOOLEAN] /\ ArmedPending'
  BY <1>6, <1>9 DEF ArmedPending
<1>11. told' \in [selmon : Mon \cup {None}, sel : [Mon -> Clients \cup {None}],
                  tag : [Mon -> Tags \cup {None}]]
  BY <1>3, <1>7 DEF TypeOK, WmState
<1>12. server' = Idle \/ server' = [at |-> "events", mon |-> m + 1, selmon |-> server.selmon]
  BY <1>2, <1>7
<1>13. server' \in Place /\ server'.at \in {"loop", "events"}
  <2>1. CASE m = NMons
    BY <1>7, <2>1, IdlePlace DEF Place
  <2>2. CASE m # NMons
    BY <1>2, <1>3, <1>7, <2>2 DEF Place
  <2> QED
    BY <2>1, <2>2
<1>14. TypeOK'
  BY <1>8, <1>10, <1>11, <1>13 DEF TypeOK, Place
<1>15. WritePending'
  <2> SUFFICES ASSUME NEW q \in Peers
               PROVE  server' # [at |-> "write", who |-> q]
    BY DEF WritePending, Writing
  <2> QED
    BY <1>13
<1>16. ReadyConn' /\ ServedOnce'
  BY <1>8, <1>13 DEF ReadyConn, ServedOnce
<1> QED
  BY <1>10, <1>14, <1>15, <1>16

-----------------------------------------------------------------------------
(* The peers touch nothing that the server keeps.                          *)

\* A reply read is one more request answered, an event read is news.
LEMMA ReceiveTypes ==
  ASSUME TypeOK, NEW p \in Peers, Receive(p)
  PROVE  /\ down' \in [Peers -> Seq(Message)]
         /\ answered' \in [Peers -> Seq(Request)]
         /\ seen' \in [Peers -> [Key -> Value]]
<1> DEFINE msg == Head(down[p])
<1>1. down[p] \in Seq(Message) /\ down[p] # <<>>
  BY DEF TypeOK, Receive
<1>2. msg \in Message /\ Tail(down[p]) \in Seq(Message)
  BY <1>1, HeadTailProperties
<1>3. down' \in [Peers -> Seq(Message)]
  BY <1>2 DEF Receive, TypeOK
<1>4. IF "of" \in DOMAIN msg
      THEN answered' = [answered EXCEPT ![p] = Append(@, msg.of)] /\ seen' = seen
      ELSE seen' = [seen EXCEPT ![p][msg.on] = msg.new] /\ answered' = answered
  BY DEF Receive
<1> HIDE DEF msg
<1>5. CASE msg \in [of : Request]
  <2>1. "of" \in DOMAIN msg /\ msg.of \in Request
    BY <1>5
  <2>2. Append(answered[p], msg.of) \in Seq(Request)
    BY <2>1, AppendProperties DEF TypeOK
  <2>3. answered' = [answered EXCEPT ![p] = Append(answered[p], msg.of)] /\ seen' = seen
    BY <1>4, <2>1
  <2>4. answered' \in [Peers -> Seq(Request)]
    BY <2>2, <2>3 DEF TypeOK
  <2>5. seen' \in [Peers -> [Key -> Value]]
    BY <2>3 DEF TypeOK
  <2> QED
    BY <1>3, <2>4, <2>5
<1>6. CASE msg \in [on : Key, old : Value, new : Value]
  <2>1. "of" \notin DOMAIN msg /\ msg.on \in Key /\ msg.new \in Value
    BY <1>6
  <2>2. seen' = [seen EXCEPT ![p] = [seen[p] EXCEPT ![msg.on] = msg.new]]
    BY <1>4, <2>1
  <2>3. answered' = answered
    BY <1>4, <2>1
  <2>4. seen \in [Peers -> [Key -> Value]] /\ answered \in [Peers -> Seq(Request)]
    BY DEF TypeOK
  <2>5. [seen[p] EXCEPT ![msg.on] = msg.new] \in [Key -> Value]
    BY <2>1, <2>4
  <2>6. seen' \in [Peers -> [Key -> Value]]
    BY <2>2, <2>4, <2>5
  <2> QED
    BY <1>3, <2>3, <2>4, <2>6
<1> QED
  BY <1>2, <1>5, <1>6 DEF Message

\* The types of a peer's own variables after its step.
LEMMA PeerTypes ==
  ASSUME TypeOK, NEW p \in Peers, PeerNext(p)
  PROVE  /\ up' \in [Peers -> Seq(Request)]
         /\ half' \in [Peers -> BOOLEAN]
         /\ down' \in [Peers -> Seq(Message)]
         /\ peer' \in [Peers -> {"out", "open", "closed"}]
         /\ asked' \in [Peers -> Seq(Request)]
         /\ answered' \in [Peers -> Seq(Request)]
         /\ seen' \in [Peers -> [Key -> Value]]
<1>1. CASE Connect(p)
  BY <1>1 DEF Connect, TypeOK, socketVars
<1>2. CASE Send(p)
  <2>1. PICK r \in Requests[p], part \in BOOLEAN :
          /\ up' = [up EXCEPT ![p] = Append(@, r)]
          /\ asked' = [asked EXCEPT ![p] = Append(@, r)]
          /\ half' = [half EXCEPT ![p] = part]
    BY <1>2 DEF Send
  <2>2. r \in Request
    OBVIOUS
  <2>3. Append(up[p], r) \in Seq(Request) /\ Append(asked[p], r) \in Seq(Request)
    BY <2>2, AppendProperties DEF TypeOK
  <2> QED
    BY <1>2, <2>1, <2>3 DEF Send, TypeOK
<1>3. CASE Finish(p)
  BY <1>3 DEF Finish, TypeOK, peerVars
<1>4. CASE Receive(p)
  BY <1>4, ReceiveTypes DEF Receive, TypeOK
<1>5. CASE Close(p)
  BY <1>5 DEF Close, TypeOK
<1> QED
  BY <1>1, <1>2, <1>3, <1>4, <1>5 DEF PeerNext

\* A peer takes a step of its own.
LEMMA PeerKeeps ==
  ASSUME IInv, NEW p \in Peers, PeerNext(p)
  PROVE  IInv'
<1> USE DEF IInv
<1>1. UNCHANGED <<wm, told, server, ready, conn, subs, buffer, armed>>
  BY DEF PeerNext, Connect, Send, Finish, Receive, Close, wmVars, clientVars
<1>2. TypeOK'
  BY <1>1, PeerTypes DEF TypeOK
<1>3. ArmedPending' /\ WritePending'
  BY <1>1 DEF ArmedPending, WritePending, Writing
<1>4. ReadyConn' /\ ServedOnce'
  BY <1>1 DEF ReadyConn, ServedOnce
<1> QED
  BY <1>2, <1>3, <1>4

-----------------------------------------------------------------------------
(* The invariant.                                                          *)

\* The invariant holds when the server has started.
LEMMA InitIInv == Init => IInv
<1> SUFFICES ASSUME Init
             PROVE  IInv
  OBVIOUS
<1>1. TypeOK
  <2>1. wm \in WmState /\ server = Idle /\ conn = {}
    BY DEF Init
  <2>2. told \in [selmon : Mon \cup {None}, sel : [Mon -> Clients \cup {None}],
                  tag : [Mon -> Tags \cup {None}]]
    BY DEF Init
  <2>3. ready \in [Source -> SUBSET {"accept", "hup", "out", "in"}]
    BY DEF Init
  <2>4. /\ buffer \in [Peers -> Seq(Message)] /\ down \in [Peers -> Seq(Message)]
        /\ up \in [Peers -> Seq(Request)] /\ asked \in [Peers -> Seq(Request)]
        /\ answered \in [Peers -> Seq(Request)]
    BY DEF Init
  <2>5. /\ subs \in [Peers -> SUBSET Topic] /\ armed \in [Peers -> BOOLEAN]
        /\ half \in [Peers -> BOOLEAN] /\ peer \in [Peers -> {"out", "open", "closed"}]
    BY DEF Init
  <2>6. seen \in [Peers -> [Key -> Value]]
    BY DEF Init, Value
  <2> QED
    BY <2>1, <2>2, <2>3, <2>4, <2>5, <2>6, IdlePlace DEF TypeOK
<1>2. ArmedPending
  BY Zenon DEF Init, ArmedPending
<1>3. WritePending /\ ServedOnce
  BY IdlePlace DEF Init, WritePending, ServedOnce, Writing, Idle
<1>4. ReadyConn
  BY DEF Init, ReadyConn, Source
<1> QED
  BY <1>1, <1>2, <1>3, <1>4 DEF IInv

\* Every step keeps it.
LEMMA NextIInv == IInv /\ [Next]_vars => IInv'
<1> SUFFICES ASSUME IInv, [Next]_vars
             PROVE  IInv'
  OBVIOUS
<1>1. CASE EpollWait
  BY <1>1, EpollWaitKeeps
<1>2. CASE XEvent
  BY <1>2, XEventKeeps
<1>3. CASE SendEvents
  BY <1>3, SendEventsKeeps
<1>4. ASSUME NEW p \in Peers, ServeClient(p)
      PROVE  IInv'
  BY <1>4, AcceptKeeps, HandleHupKeeps, HandleOutKeeps, HandleInKeeps DEF ServeClient
<1>5. ASSUME NEW p \in Peers, Work(p)
      PROVE  IInv'
  BY <1>5, WriteMessageKeeps, WriteBrokenKeeps, ReadMessageKeeps DEF Work
<1>6. ASSUME NEW p \in Peers, PeerNext(p)
      PROVE  IInv'
  BY <1>6, PeerKeeps
<1>7. CASE UNCHANGED vars
  BY <1>7 DEF vars, IInv, TypeOK, ArmedPending, WritePending, ReadyConn, ServedOnce, Writing
<1> QED
  BY <1>1, <1>2, <1>3, <1>4, <1>5, <1>6, <1>7 DEF Next

\* IInv holds in every state of every behaviour.
THEOREM ServerInductive == Spec => []IInv
  BY InitIInv, NextIInv, PTL DEF Spec

\* The types of the server, its connections, the sockets and the peers
\* (TypeOK): the process serves only connections that exist.
THEOREM ServerTypeCorrect == Spec => []TypeOK
<1>1. IInv => TypeOK
  BY DEF IInv
<1> QED
  BY <1>1, ServerInductive, PTL

\* EPOLLOUT is asked for exactly while something is queued (ArmedPending):
\* nothing queued is forgotten, and the loop does not spin.
THEOREM ArmedStaysPending == Spec => []ArmedPending
<1>1. IInv => ArmedPending
  BY DEF IInv
<1> QED
  BY <1>1, ServerInductive, PTL

-----------------------------------------------------------------------------
(* What a peer hears.                                                      *)

\* The events about key.
On(key) == [on : {key}, old : Value, new : Value]
Event == [on : Key, old : Value, new : Value]

-----------------------------------------------------------------------------
(* Sequences of messages.                                                  *)

\* The requests that the replies in s are to.
Of(s) == [i \in 1..Len(s) |-> s[i].of]

\* The requests of replies are requests, as many.
LEMMA OfType ==
  ASSUME NEW s \in Seq([of : Request])
  PROVE  Of(s) \in Seq(Request) /\ Len(Of(s)) = Len(s)
<1>1. \A i \in 1..Len(s) : s[i] \in [of : Request]
  BY ElementOfSeq
<1>2. \A i \in 1..Len(s) : s[i].of \in Request
  BY <1>1
<1>3. Len(s) \in Nat
  BY LenProperties
<1> QED
  BY <1>2, <1>3 DEF Of

\* Of two sequences of replies, the requests of the one and of the other.
LEMMA OfConcat ==
  ASSUME NEW s \in Seq([of : Request]), NEW t \in Seq([of : Request])
  PROVE  Of(s \o t) = Of(s) \o Of(t)
<1>1. s \o t \in Seq([of : Request])
  BY ConcatProperties
<1>2. /\ Of(s) \in Seq(Request) /\ Len(Of(s)) = Len(s)
      /\ Of(t) \in Seq(Request) /\ Len(Of(t)) = Len(t)
      /\ Of(s \o t) \in Seq(Request) /\ Len(Of(s \o t)) = Len(s \o t)
  BY <1>1, OfType
<1>3. Len(s) \in Nat /\ Len(t) \in Nat /\ Len(s \o t) = Len(s) + Len(t)
  BY LenProperties, ConcatProperties
<1>4. Of(s) \o Of(t) \in Seq(Request) /\ Len(Of(s) \o Of(t)) = Len(s) + Len(t)
  BY <1>2, ConcatProperties
<1>5. ASSUME NEW i \in 1..Len(s) + Len(t)
      PROVE  Of(s \o t)[i] = (Of(s) \o Of(t))[i]
  <2>1. (s \o t)[i] = IF i <= Len(s) THEN s[i] ELSE t[i - Len(s)]
    BY ConcatProperties
  <2>2. (Of(s) \o Of(t))[i] = IF i <= Len(s) THEN Of(s)[i] ELSE Of(t)[i - Len(s)]
    BY <1>2, ConcatProperties
  <2>3. Of(s \o t)[i] = (s \o t)[i].of
    BY <1>3 DEF Of
  <2>4. CASE i <= Len(s)
    <3>1. i \in 1..Len(s) /\ Of(s)[i] = s[i].of
      BY <1>3, <2>4 DEF Of
    <3> QED
      BY <2>1, <2>2, <2>3, <2>4, <3>1
  <2>5. CASE ~(i <= Len(s))
    <3> DEFINE k == i - Len(s)
    <3>1. k \in 1..Len(t)
      BY <1>3, <2>5
    <3>2. (s \o t)[i] = t[k] /\ (Of(s) \o Of(t))[i] = Of(t)[k]
      BY <2>1, <2>2, <2>5
    <3> HIDE DEF k
    <3>3. Of(t)[k] = t[k].of
      BY <3>1 DEF Of
    <3> QED
      BY <2>3, <3>2, <3>3
  <2> QED
    BY <2>4, <2>5
<1> QED
  BY <1>2, <1>3, <1>4, <1>5, SeqEqual

\* Replies and events are the messages, and none is both.
LEMMA MessageKinds ==
  /\ Message = [of : Request] \cup Event
  /\ [of : Request] \cap Event = {}
  /\ \A k \in Key : On(k) \subseteq Event /\ On(k) \cap [of : Request] = {}
  /\ \A k, l \in Key : k # l => On(k) \cap On(l) = {}
<1>1. Message = [of : Request] \cup Event
  BY DEF Message, Event
<1>2. ASSUME NEW x \in [of : Request], x \in Event
      PROVE  FALSE
  <2>1. DOMAIN x = {"of"} /\ DOMAIN x = {"on", "old", "new"}
    BY <1>2 DEF Event
  <2> QED
    BY <2>1
<1>3. \A k \in Key : On(k) \subseteq Event
  BY DEF On, Event
<1>4. ASSUME NEW k \in Key, NEW l \in Key, k # l
      PROVE  On(k) \cap On(l) = {}
  BY <1>4 DEF On
<1> QED
  BY <1>1, <1>2, <1>3, <1>4

\* Replied picks the replies and takes their requests.
LEMMA RepliedOf ==
  ASSUME NEW s
  PROVE  Replied(s) = Of(Only(s, [of : Request]))
  BY DEF Replied, Of

\* What it takes is a sequence of requests.
LEMMA RepliedType ==
  ASSUME NEW s \in Seq(Message)
  PROVE  Only(s, [of : Request]) \in Seq([of : Request]) /\ Replied(s) \in Seq(Request)
<1>1. Message \cap [of : Request] = [of : Request]
  BY MessageKinds
<1>2. Only(s, [of : Request]) \in Seq(Message \cap [of : Request])
  BY OnlyType
<1>3. Only(s, [of : Request]) \in Seq([of : Request])
  BY <1>1, <1>2
<1> QED
  BY <1>3, RepliedOf, OfType

\* Of two sequences of messages, the replies of the one and of the other.
LEMMA RepliedConcat ==
  ASSUME NEW s \in Seq(Message), NEW t \in Seq(Message)
  PROVE  Replied(s \o t) = Replied(s) \o Replied(t)
<1> DEFINE R == [of : Request]
           a == Only(s, R)
           b == Only(t, R)
<1>1. a \in Seq([of : Request]) /\ b \in Seq([of : Request])
  BY RepliedType
<1>2. Only(s \o t, R) = a \o b
  <2> HIDE DEF R
  <2> QED
    BY OnlyConcat DEF a, b
<1>3. Replied(s \o t) = Of(a \o b) /\ Replied(s) = Of(a) /\ Replied(t) = Of(b)
  BY <1>2, RepliedOf
<1> HIDE DEF a, b
<1> QED
  BY <1>1, <1>3, OfConcat

\* A reply is to its request, an event to none.
LEMMA RepliedOne ==
  ASSUME NEW x \in Message
  PROVE  Replied(<<x>>) = IF x \in [of : Request] THEN <<x.of>> ELSE <<>>
<1> DEFINE R == [of : Request]
<1>1. Only(<<x>>, R) = IF x \in R THEN <<x>> ELSE <<>>
  <2> HIDE DEF R
  <2> QED
    BY OnlyOne
<1>2. Of(<<x>>) = <<x.of>> /\ Of(<<>>) = <<>>
  BY DEF Of
<1> HIDE DEF R
<1>3. Replied(<<x>>) = Of(Only(<<x>>, R))
  BY RepliedOf DEF R
<1> QED
  BY <1>1, <1>2, <1>3 DEF R

\* Events reply to nothing.
LEMMA RepliedEvents ==
  ASSUME NEW s \in Seq(Event)
  PROVE  Replied(s) = <<>>
<1>1. Event \cap [of : Request] = {}
  BY MessageKinds
<1>2. Only(s, [of : Request]) = <<>>
  BY <1>1, OnlyOthers
<1>3. Of(<<>>) = <<>>
  BY DEF Of
<1> QED
  BY <1>2, <1>3, RepliedOf

-----------------------------------------------------------------------------
(* Chains of events.                                                       *)

\* News that ends in the state e; c is the state before it, if there is one.
Ends(c, news, e) ==
    /\ news # <<>> => news[Len(news)].new = e
    /\ (news = <<>> /\ c # None) => c = e

\* Each starts from where the one before ended.
Joined(c, news) ==
    /\ \A i \in 1..Len(news) - 1 : news[i + 1].old = news[i].new
    /\ (news # <<>> /\ c # None) => news[1].old = c

\* The old selection of an event may be the window of a freed client, so only
\* the ends of those are told.
Linked(k, c, news, e) == Ends(c, news, e) /\ (k[1] # "sel" => Joined(c, news))

\* A subscription starts with no news.
LEMMA LinkedFirst ==
  ASSUME NEW k, NEW e
  PROVE  Linked(k, None, <<>>, e)
<1>1. Len(<<>>) = 0
  OBVIOUS
<1>2. \A i \in 1..Len(<<>>) - 1 : FALSE
  BY <1>1
<1> QED
  BY <1>2 DEF Linked, Ends, Joined

\* An event from the state that was told to the one that is told next.
LEMMA LinkedAppend ==
  ASSUME NEW k, NEW c, NEW news \in Seq(Event), NEW e, NEW x \in Event,
         Linked(k, c, news, e), k[1] # "sel" => x.old = e
  PROVE  Linked(k, c, Append(news, x), x.new)
<1> DEFINE n == Len(news)
           more == Append(news, x)
<1>1. n \in Nat /\ (news = <<>> <=> n = 0)
  BY LenProperties, EmptySeq
<1>2. /\ more \in Seq(Event) /\ more # <<>> /\ Len(more) = n + 1 /\ more[n + 1] = x
      /\ \A i \in 1..n : more[i] = news[i]
  BY AppendProperties
<1> HIDE DEF more
<1>3. Ends(c, more, x.new)
  BY <1>2 DEF Ends
<1>4. ASSUME k[1] # "sel"
      PROVE  Joined(c, more)
  <2>1. Joined(c, news) /\ Ends(c, news, e) /\ x.old = e
    BY <1>4 DEF Linked
  <2>2. ASSUME NEW i \in 1..n
        PROVE  more[i + 1].old = more[i].new
    <3>1. CASE i = n
      <4>1. news[n].new = e
        BY <1>1, <2>1, <3>1 DEF Ends
      <4> QED
        BY <1>2, <2>1, <3>1, <4>1
    <3>2. CASE i # n
      <4>1. i \in 1..n - 1 /\ i + 1 \in 1..n
        BY <1>1, <3>2
      <4> QED
        BY <1>2, <2>1, <4>1 DEF Joined
    <3> QED
      BY <3>1, <3>2
  <2>3. ASSUME c # None
        PROVE  more[1].old = c
    <3>1. CASE n = 0
      BY <1>1, <1>2, <2>1, <2>3, <3>1 DEF Ends
    <3>2. CASE n # 0
      <4>1. 1 \in 1..n /\ news # <<>>
        BY <1>1, <3>2
      <4> QED
        BY <1>2, <2>1, <2>3, <4>1 DEF Joined
    <3> QED
      BY <3>1, <3>2
  <2>4. Len(more) - 1 = n
    BY <1>1, <1>2
  <2> QED
    BY <2>2, <2>3, <2>4 DEF Joined
<1> QED
  BY <1>3, <1>4 DEF Linked, more

\* The event that is read becomes the state before the others.
LEMMA LinkedTail ==
  ASSUME NEW k, NEW c, NEW news \in Seq(Event), NEW e, news # <<>>, Linked(k, c, news, e)
  PROVE  Linked(k, Head(news).new, Tail(news), e)
<1> DEFINE n == Len(news)
           rest == Tail(news)
<1>0. n \in Nat /\ n # 0
  BY LenProperties, EmptySeq
<1>1. n \in Nat /\ n # 0 /\ Head(news) = news[1]
  BY <1>0
<1>2. /\ rest \in Seq(Event) /\ Len(rest) = n - 1
      /\ \A i \in 1..n - 1 : rest[i] = news[i + 1]
  BY HeadTailProperties
<1>3. rest = <<>> <=> n = 1
  <2>1. PICK q : q = rest
    OBVIOUS
  <2>2. q \in Seq(Event) /\ Len(q) = n - 1 /\ n \in Nat
    BY <1>1, <1>2, <2>1
  <2>3. q = <<>> <=> Len(q) = 0
    BY <2>2, EmptySeq
  <2>4. Len(q) = 0 <=> n = 1
    BY <2>2
  <2> QED
    BY <2>1, <2>3, <2>4
<1> HIDE DEF rest
<1>4. Ends(news[1].new, rest, e)
  <2>1. news[n].new = e
    BY DEF Linked, Ends
  <2>2. CASE n = 1
    BY <1>3, <2>1, <2>2 DEF Ends
  <2>3. CASE n # 1
    <3> DEFINE l == n - 1
    <3>1. l \in 1..n - 1 /\ l + 1 = n /\ Len(rest) = l
      BY <1>1, <1>2, <2>3
    <3> HIDE DEF l
    <3>2. rest[l] = news[l + 1]
      BY <1>2, <3>1
    <3> HIDE DEF n
    <3>3. rest[Len(rest)].new = e
      BY <2>1, <3>1, <3>2
    <3> QED
      BY <1>3, <2>3, <3>3 DEF Ends
  <2> QED
    BY <2>2, <2>3
<1>5. ASSUME k[1] # "sel"
      PROVE  Joined(news[1].new, rest)
  <2>1. \A i \in 1..n - 1 : news[i + 1].old = news[i].new
    BY <1>5 DEF Linked, Joined
  <2>2. ASSUME NEW i \in 1..Len(rest) - 1
        PROVE  rest[i + 1].old = rest[i].new
    <3>1. i \in 1..n - 1 /\ i + 1 \in 1..n - 1
      BY <1>1, <1>2
    <3> QED
      BY <1>2, <2>1, <3>1
  <2>3. ASSUME rest # <<>>
        PROVE  rest[1].old = news[1].new
    <3>0. n # 1
      BY <1>3, <2>3
    <3>1. 1 \in 1..n - 1
      <4> HIDE DEF n
      <4> QED
        BY <1>0, <3>0
    <3>2. rest[1] = news[1 + 1] /\ news[1 + 1].old = news[1].new
      BY <1>2, <2>1, <3>1
    <3> QED
      BY <3>2
  <2> QED
    BY <2>2, <2>3 DEF Joined
<1> QED
  BY <1>1, <1>4, <1>5 DEF Linked, rest

-----------------------------------------------------------------------------
(* The invariant, one connection at a time.                                *)

\* A connection has a peer, and only connections have subscriptions.
Conns ==
    \A p \in Peers :
        /\ ("accept" \in ready[p] \/ p \in conn) => peer[p] # "out"
        /\ subs[p] # {} => p \in conn

\* What is told of the monitors that ipc_send_events has passed is so.
ToldCurrent ==
    \A m \in Mon : (server.at = "events" => m < server.mon) =>
        /\ told.tag[m] \in {None, wm.tag[m]}
        /\ told.sel[m] \in {None, wm.sel[m]}

\* A peer that is not connected has nothing of an earlier connection.
Fresh(p) ==
    peer[p] = "out" =>
        /\ subs[p] = {} /\ Flow(p) = <<>> /\ up[p] = <<>>
        /\ asked[p] = <<>> /\ answered[p] = <<>> /\ seen[p] = [k \in Key |-> None]

Asked(p) == {asked[p][i] : i \in DOMAIN asked[p]}

\* What is still to be read was sent on this connection.
Awaited(p) == \A i \in 1..Len(up[p]) : up[p][i] \in Asked(p)

InOrder(p) ==
    peer[p] = "open" => answered[p] \o Replied(Flow(p)) \o Owed(up[p]) = Owed(asked[p])

\* The state the server keeps as told, by key.
Told(k) ==
    IF k[1] = "mon" THEN told.selmon ELSE IF k[1] = "tag" THEN told.tag[k[2]] ELSE told.sel[k[2]]

\* Before it ever unsubscribes a peer hears all of a topic or nothing of it.
Stream(p, k) ==
    (peer[p] = "open" /\ [do |-> "unsub", on |-> k[1]] \notin Asked(p)) =>
        IF k[1] \in subs[p]
        THEN Linked(k, seen[p][k], News(p, k), Told(k))
        ELSE News(p, k) = <<>> /\ seen[p][k] = None

\* Nobody is told of a selected monitor before the first.
FirstUnsaid(p) ==
    (peer[p] = "open" /\ told.selmon = None) =>
        News(p, <<"mon", 0>>) = <<>> /\ seen[p][<<"mon", 0>>] = None

Sound(p) ==
    /\ Fresh(p) /\ Awaited(p) /\ InOrder(p) /\ FirstUnsaid(p)
    /\ \A k \in Key : Stream(p, k)

SInv == IInv /\ Conns /\ ToldCurrent /\ \A p \in Peers : Sound(p)

\* The types of what goes over a connection.
LEMMA Connection ==
  ASSUME TypeOK, NEW p \in Peers
  PROVE  /\ buffer[p] \in Seq(Message) /\ down[p] \in Seq(Message) /\ Flow(p) \in Seq(Message)
         /\ up[p] \in Seq(Request) /\ asked[p] \in Seq(Request) /\ answered[p] \in Seq(Request)
         /\ seen[p] \in [Key -> Value] /\ subs[p] \subseteq Topic
         /\ peer[p] \in {"out", "open", "closed"}
<1>1. buffer[p] \in Seq(Message) /\ down[p] \in Seq(Message)
  BY DEF TypeOK
<1>2. Flow(p) \in Seq(Message)
  BY <1>1, ConcatProperties DEF Flow
<1> QED
  BY <1>1, <1>2 DEF TypeOK

\* A step that changes nothing of a connection, other than to move a message
\* from the buffer to the socket.
LEMMA FrameSound ==
  ASSUME NEW p \in Peers, Sound(p), Flow(p)' = Flow(p), told' = told,
         peer'[p] = peer[p], subs'[p] = subs[p], up'[p] = up[p], asked'[p] = asked[p],
         answered'[p] = answered[p], seen'[p] = seen[p]
  PROVE  Sound(p)'
<1>1. Fresh(p)' /\ Awaited(p)'
  BY DEF Sound, Fresh, Awaited, Asked
<1>2. InOrder(p)'
  BY DEF Sound, InOrder
<1>3. \A k : News(p, k)' = News(p, k)
  BY DEF News
<1>4. FirstUnsaid(p)'
  BY <1>3 DEF Sound, FirstUnsaid
<1>5. ASSUME NEW k \in Key
      PROVE  Stream(p, k)'
  <2>1. Told(k)' = Told(k) /\ Asked(p)' = Asked(p)
    BY DEF Told, Asked
  <2> QED
    BY <1>3, <2>1 DEF Sound, Stream
<1> QED
  BY <1>1, <1>2, <1>4, <1>5 DEF Sound

\* A connection that ends leaves nothing to the next.
LEMMA DropSound ==
  ASSUME TypeOK, NEW p \in Peers, DropClient(p)
  PROVE  Sound(p)'
<1>1. /\ peer'[p] = "out" /\ subs'[p] = {} /\ buffer'[p] = <<>> /\ down'[p] = <<>>
      /\ up'[p] = <<>> /\ asked'[p] = <<>> /\ answered'[p] = <<>>
      /\ seen'[p] = [k \in Key |-> None]
  BY DEF DropClient, TypeOK
<1>2. Flow(p)' = <<>>
  BY <1>1 DEF Flow
<1>3. Fresh(p)'
  BY <1>1, <1>2 DEF Fresh
<1>4. Awaited(p)'
  <2>1. Len(<<>>) = 0
    OBVIOUS
  <2> QED
    BY <1>1, <2>1 DEF Awaited
<1> QED
  BY <1>1, <1>3, <1>4 DEF Sound, InOrder, FirstUnsaid, Stream

\* Another's connection is as it was.
LEMMA DropOther ==
  ASSUME TypeOK, NEW p \in Peers, NEW q \in Peers, q # p, DropClient(p), told' = told, Sound(q)
  PROVE  Sound(q)'
<1>1. /\ peer'[q] = peer[q] /\ subs'[q] = subs[q] /\ up'[q] = up[q] /\ asked'[q] = asked[q]
      /\ answered'[q] = answered[q] /\ seen'[q] = seen[q]
      /\ buffer'[q] = buffer[q] /\ down'[q] = down[q]
  BY DEF DropClient, TypeOK
<1>2. Flow(q)' = Flow(q)
  BY <1>1 DEF Flow
<1> QED
  BY <1>1, <1>2, FrameSound

-----------------------------------------------------------------------------
(* The peers.                                                              *)

\* A peer connects: nothing is asked, nothing on its way.
LEMMA ConnectSound ==
  ASSUME TypeOK, NEW p \in Peers, Connect(p), Sound(p)
  PROVE  Sound(p)'
<1>1. /\ peer[p] = "out" /\ peer'[p] = "open"
      /\ UNCHANGED <<told, subs, buffer, up, down, asked, answered, seen>>
  BY DEF Connect, TypeOK, wmVars, clientVars, socketVars
<1>2. Flow(p)' = Flow(p)
  BY <1>1 DEF Flow
<1>3. /\ Flow(p) = <<>> /\ up[p] = <<>> /\ asked[p] = <<>> /\ answered[p] = <<>>
      /\ subs[p] = {} /\ seen[p] = [k \in Key |-> None]
  BY <1>1 DEF Sound, Fresh
<1>4. Replied(<<>>) = <<>> /\ Owed(<<>>) = <<>>
  <2>1. <<>> \in Seq(Event)
    OBVIOUS
  <2> QED
    BY <2>1, RepliedEvents, OnlyNone DEF Owed
<1>5. InOrder(p)'
  <2>1. <<>> \o <<>> \o <<>> = <<>>
    OBVIOUS
  <2>2. answered'[p] = <<>> /\ Replied(Flow(p))' = <<>> /\ Owed(up[p])' = <<>>
        /\ Owed(asked[p])' = <<>>
    BY <1>1, <1>2, <1>3, <1>4
  <2> QED
    BY <2>1, <2>2 DEF InOrder
<1>6. \A k : News(p, k)' = <<>>
  BY <1>2, <1>3, OnlyNone DEF News
<1>7. FirstUnsaid(p)' /\ \A k \in Key : Stream(p, k)'
  <2>1. <<"mon", 0>> \in Key
    BY DEF Key
  <2>2. seen'[p] = [k \in Key |-> None] /\ subs'[p] = {}
    BY <1>1, <1>3
  <2> QED
    BY <1>6, <2>1, <2>2 DEF FirstUnsaid, Stream
<1>8. Fresh(p)' /\ Awaited(p)'
  BY <1>1 DEF Fresh, Awaited, Asked, Sound
<1> QED
  BY <1>5, <1>7, <1>8 DEF Sound

\* What is left to read and what was sent grow by the same request.
LEMMA SendSound ==
  ASSUME TypeOK, NEW p \in Peers, Send(p), Sound(p)
  PROVE  Sound(p)'
<1>1. PICK r \in Requests[p] :
        up' = [up EXCEPT ![p] = Append(@, r)] /\ asked' = [asked EXCEPT ![p] = Append(@, r)]
  BY DEF Send
<1>2. r \in Request
  BY RequestsAssumption
<1>3. peer[p] = "open" /\ UNCHANGED <<told, subs, buffer, down, peer, answered, seen>>
  BY DEF Send, wmVars, clientVars
<1>4. up'[p] = Append(up[p], r) /\ asked'[p] = Append(asked[p], r)
  BY <1>1 DEF TypeOK
<1>5. Flow(p)' = Flow(p)
  BY <1>3 DEF Flow
<1>6. InOrder(p)'
  <2> DEFINE O == {x \in Request : x.do # "mute"}
             a == answered[p]
             b == Replied(Flow(p))
             c == Only(up[p], O)
             d == Only(asked[p], O)
  <2>1. a \in Seq(Request) /\ b \in Seq(Request)
    BY Connection, RepliedType
  <2>2. c \in Seq(Request \cap O) /\ d \in Seq(Request \cap O)
    <3> HIDE DEF O
    <3> QED
      BY Connection, OnlyType
  <2>3. c \in Seq(Request) /\ d \in Seq(Request)
    BY <2>2
  <2>4. a \o b \o c = d
    BY <1>3 DEF Sound, InOrder, Owed
  <2>5. /\ Only(Append(up[p], r), O) = IF r \in O THEN Append(c, r) ELSE c
        /\ Only(Append(asked[p], r), O) = IF r \in O THEN Append(d, r) ELSE d
    <3> HIDE DEF O
    <3>1. up[p] \in Seq(Request) /\ asked[p] \in Seq(Request)
      BY Connection
    <3> QED
      BY ONLY <1>2, <3>1, OnlyAppend
  <2> HIDE DEF a, b, c, d
  <2>6. a \o b \o Append(c, r) = Append(a \o b \o c, r)
    <3>1. a \o b \in Seq(Request)
      BY <2>1, ConcatProperties
    <3> QED
      BY <1>2, <2>3, <3>1, AppendLater
  <2>7. a \o b \o Only(Append(up[p], r), O) = Only(Append(asked[p], r), O)
    BY <2>4, <2>5, <2>6
  <2> HIDE DEF O
  <2>8. answered'[p] = a /\ Replied(Flow(p))' = b
    BY <1>3, <1>5 DEF a, b
  <2>9. Owed(up[p])' = Only(Append(up[p], r), O) /\ Owed(asked[p])' = Only(Append(asked[p], r), O)
    BY <1>4 DEF Owed, O
  <2> QED
    BY <2>7, <2>8, <2>9 DEF InOrder
<1>7. Asked(p)' = Asked(p) \cup {r}
  <2> DEFINE s == asked[p]
             t == Append(s, r)
  <2>1. s \in Seq(Request) /\ Len(s) \in Nat
    BY Connection, LenProperties
  <2> HIDE DEF s
  <2>2. /\ DOMAIN s = 1..Len(s) /\ DOMAIN t = 1..Len(s) + 1 /\ t[Len(s) + 1] = r
        /\ \A i \in 1..Len(s) : t[i] = s[i]
    BY <1>2, <2>1, AppendProperties
  <2>3. \A i \in 1..Len(s) + 1 : i \in 1..Len(s) \/ i = Len(s) + 1
    BY <2>1
  <2>4. 1..Len(s) \subseteq 1..Len(s) + 1 /\ Len(s) + 1 \in 1..Len(s) + 1
    BY <2>1
  <2> HIDE DEF t
  <2>5. {t[i] : i \in DOMAIN t} = {s[i] : i \in DOMAIN s} \cup {r}
    BY <2>2, <2>3, <2>4
  <2> QED
    BY <1>4, <2>5 DEF Asked, s, t
<1>8. Awaited(p)'
  <2> DEFINE s == up[p]
             t == Append(s, r)
  <2>1. s \in Seq(Request) /\ Len(s) \in Nat
    BY Connection, LenProperties
  <2>2. \A i \in 1..Len(s) : s[i] \in Asked(p)
    BY DEF Sound, Awaited
  <2> HIDE DEF s
  <2>3. Len(t) = Len(s) + 1 /\ t[Len(s) + 1] = r /\ \A i \in 1..Len(s) : t[i] = s[i]
    BY <1>2, <2>1, AppendProperties
  <2>4. \A i \in 1..Len(s) + 1 : i \in 1..Len(s) \/ i = Len(s) + 1
    BY <2>1
  <2> HIDE DEF t
  <2>5. \A i \in 1..Len(t) : t[i] \in Asked(p) \cup {r}
    BY <2>2, <2>3, <2>4
  <2> QED
    BY <1>4, <1>7, <2>5 DEF Awaited, s, t
<1>9. Fresh(p)'
  BY <1>3 DEF Fresh
<1>10. \A k : News(p, k)' = News(p, k)
  BY <1>5 DEF News
<1>11. FirstUnsaid(p)'
  BY <1>3, <1>10 DEF Sound, FirstUnsaid
<1>12. ASSUME NEW k \in Key
       PROVE  Stream(p, k)'
  <2>1. Told(k)' = Told(k)
    BY <1>3 DEF Told
  <2> QED
    BY <1>3, <1>7, <1>10, <2>1 DEF Sound, Stream
<1> QED
  BY <1>6, <1>8, <1>9, <1>11, <1>12 DEF Sound

\* A peer closes its end.
LEMMA CloseSound ==
  ASSUME TypeOK, NEW p \in Peers, Close(p), Sound(p)
  PROVE  Sound(p)'
<1>1. peer'[p] = "closed" /\ up' = up /\ asked' = asked
  BY DEF Close, TypeOK
<1>2. Fresh(p)' /\ InOrder(p)' /\ FirstUnsaid(p)' /\ \A k \in Key : Stream(p, k)'
  BY <1>1 DEF Fresh, InOrder, FirstUnsaid, Stream
<1> QED
  BY <1>1, <1>2 DEF Sound, Awaited, Asked

\* The message at the head of the flow is taken from it.
LEMMA FlowHead ==
  ASSUME NEW A, NEW d \in Seq(A), NEW b \in Seq(A), d # <<>>
  PROVE  /\ d \o b # <<>> /\ Head(d \o b) = Head(d) /\ Tail(d \o b) = Tail(d) \o b
         /\ d \o b = <<Head(d)>> \o (Tail(d) \o b)
         /\ Head(d) \in A /\ Tail(d) \o b \in Seq(A)
OBVIOUS

\* A reply goes from the flow to what is answered, an event to what was seen.
LEMMA ReceiveSound ==
  ASSUME TypeOK, NEW p \in Peers, Receive(p), Sound(p)
  PROVE  Sound(p)'
<1> DEFINE x == Head(down[p])
           old == Flow(p)
           new == Tail(down[p]) \o buffer[p]
<1>1. /\ peer[p] = "open" /\ down[p] # <<>>
      /\ UNCHANGED <<told, subs, buffer, up, peer, asked>>
      /\ down'[p] = Tail(down[p])
  BY DEF Receive, wmVars, clientVars, TypeOK
<1>2. IF "of" \in DOMAIN x
      THEN answered' = [answered EXCEPT ![p] = Append(@, x.of)] /\ seen' = seen
      ELSE seen' = [seen EXCEPT ![p][x.on] = x.new] /\ answered' = answered
  BY DEF Receive
<1>3. old \in Seq(Message) /\ old # <<>> /\ Head(old) = x /\ Tail(old) = new
  <2> DEFINE d == down[p]
             b == buffer[p]
  <2>1. d \in Seq(Message) /\ b \in Seq(Message) /\ d # <<>> /\ old = d \o b
    BY <1>1, Connection DEF Flow
  <2> HIDE DEF d, b
  <2>2. /\ d \o b \in Seq(Message) /\ d \o b # <<>>
        /\ Head(d \o b) = Head(d) /\ Tail(d \o b) = Tail(d) \o b
    BY <2>1, FlowHead, ConcatProperties
  <2> QED
    BY <2>1, <2>2 DEF d, b
<1>4. x \in Message /\ new \in Seq(Message) /\ old = <<x>> \o new
  <2> HIDE DEF old
  <2>1. Head(old) \in Message /\ Tail(old) \in Seq(Message) /\ old = <<Head(old)>> \o Tail(old)
    BY <1>3
  <2> QED
    BY <1>3, <2>1
<1>5. Flow(p)' = new
  BY <1>1 DEF Flow
<1> HIDE DEF x, old, new
<1>6. \A k : News(p, k)' = Only(new, On(k)) /\ News(p, k) = Only(old, On(k))
  BY <1>5 DEF News, On, old
<1>7. \A k \in Key : Only(old, On(k)) = IF x \in On(k) THEN <<x>> \o Only(new, On(k))
                                       ELSE Only(new, On(k))
  BY <1>3, OnlyHead
<1>8. Replied(old) = (IF x \in [of : Request] THEN <<x.of>> ELSE <<>>) \o Replied(new)
  <2> DEFINE first == <<x>>
  <2>1. first \in Seq(Message) /\ old = first \o new
    BY <1>4
  <2>2. Replied(first) = IF x \in [of : Request] THEN <<x.of>> ELSE <<>>
    BY <1>4, RepliedOne
  <2> HIDE DEF first
  <2> QED
    BY <1>4, <2>1, <2>2, RepliedConcat
<1>9. answered[p] \o Replied(old) \o Owed(up[p]) = Owed(asked[p])
  BY <1>1 DEF Sound, InOrder, old
<1>10. Fresh(p)' /\ Awaited(p)'
  BY <1>1 DEF Fresh, Awaited, Asked, Sound
<1>11. /\ Replied(new) \in Seq(Request) /\ Owed(up[p]) \in Seq(Request)
       /\ answered[p] \in Seq(Request)
  <2>1. Owed(up[p]) \in Seq(Request \cap {r \in Request : r.do # "mute"})
    BY Connection, OnlyType DEF Owed
  <2>2. Owed(up[p]) \in Seq(Request)
    BY <2>1
  <2> QED
    BY <1>4, <2>2, Connection, RepliedType
<1>12. CASE x \in [of : Request]
  <2>1. "of" \in DOMAIN x /\ x.of \in Request
    BY <1>12
  <2>2. answered'[p] = Append(answered[p], x.of) /\ seen' = seen
    BY <1>2, <2>1 DEF TypeOK
  <2>3. InOrder(p)'
    <3> DEFINE a == answered[p]
               b == Replied(new)
               c == Owed(up[p])
               r == x.of
    <3>1. a \in Seq(Request) /\ b \in Seq(Request) /\ c \in Seq(Request) /\ r \in Request
      BY <1>11, <2>1
    <3>2. a \o (<<r>> \o b) \o c = Owed(asked[p])
      BY <1>8, <1>9, <1>12
    <3>3. answered'[p] = Append(a, r) /\ Replied(Flow(p))' = b /\ Owed(up[p])' = c
          /\ Owed(asked[p])' = Owed(asked[p])
      BY <1>1, <1>5, <2>2
    <3> HIDE DEF a, b, c, r
    <3>4. Append(a, r) \o b = a \o (<<r>> \o b)
      BY <3>1
    <3> QED
      BY <3>2, <3>3, <3>4 DEF InOrder
  <2>4. \A k \in Key : News(p, k)' = News(p, k)
    BY <1>6, <1>7, <1>12, MessageKinds
  <2>5. FirstUnsaid(p)'
    <3>1. <<"mon", 0>> \in Key
      BY DEF Key
    <3> QED
      BY <1>1, <2>2, <2>4, <3>1 DEF Sound, FirstUnsaid
  <2>6. ASSUME NEW k \in Key
        PROVE  Stream(p, k)'
    <3>1. Told(k)' = Told(k) /\ Asked(p)' = Asked(p)
      BY <1>1 DEF Told, Asked
    <3> QED
      BY <1>1, <2>2, <2>4, <3>1 DEF Sound, Stream
  <2> QED
    BY <1>10, <2>3, <2>5, <2>6 DEF Sound
<1>13. CASE x \in Event
  <2>1. /\ "of" \notin DOMAIN x /\ x.on \in Key /\ x \notin [of : Request]
        /\ \A k \in Key : x \in On(k) <=> x.on = k
    <3>1. DOMAIN x = {"on", "old", "new"} /\ x.on \in Key
      BY <1>13 DEF Event
    <3>2. \A k \in Key : x \in On(k) <=> x.on = k
      BY <1>13 DEF On, Event
    <3> QED
      BY <1>13, <3>1, <3>2, MessageKinds
  <2>2. answered' = answered /\ seen' = [seen EXCEPT ![p][x.on] = x.new]
    BY <1>2, <2>1
  <2>3. \A k \in Key : seen'[p][k] = IF k = x.on THEN x.new ELSE seen[p][k]
    BY <2>2 DEF TypeOK
  <2>4. InOrder(p)'
    <3>1. Replied(old) = Replied(new)
      BY <1>8, <1>11, <2>1, ConcatEmptySeq
    <3>2. answered'[p] = answered[p] /\ Replied(Flow(p))' = Replied(new)
          /\ Owed(up[p])' = Owed(up[p]) /\ Owed(asked[p])' = Owed(asked[p])
      BY <1>1, <1>5, <2>2
    <3> QED
      BY <1>9, <3>1, <3>2 DEF InOrder
  <2>5. \A k \in Key : Only(new, On(k)) \in Seq(Event)
    <3>1. \A k \in Key : Message \cap On(k) \subseteq Event
      BY MessageKinds
    <3> TAKE k \in Key
    <3>2. Only(new, On(k)) \in Seq(Message \cap On(k))
      BY <1>4, OnlyType
    <3> QED
      BY <3>1, <3>2, SeqMonotonic
  <2>0. PICK key \in Key : key = x.on
    BY <2>1
  <2> DEFINE n == News(p, key)
             l == News(p, key)'
  <2>6. ASSUME NEW k \in Key, k # key
        PROVE  News(p, k)' = News(p, k) /\ seen'[p][k] = seen[p][k]
    BY <1>6, <1>7, <2>0, <2>1, <2>3, <2>6
  <2>7. key \in Key /\ x \in On(key)
    BY <2>0, <2>1
  <2>8. n \in Seq(Event) /\ n # <<>> /\ Head(n) = x /\ Tail(n) = l /\ seen'[p][key] = x.new
    <3>1. Only(old, On(key)) = <<x>> \o Only(new, On(key))
      BY <1>7, <2>7
    <3>2. l \in Seq(Event)
      BY <1>6, <2>5, <2>7
    <3>3. n = <<x>> \o l
      BY <1>6, <3>1
    <3> HIDE DEF l, n
    <3>4. n \in Seq(Event) /\ n # <<>> /\ Head(n) = x /\ Tail(n) = l
      BY <1>13, <3>2, <3>3
    <3> QED
      BY <2>0, <2>3, <2>7, <3>4
  <2>9. FirstUnsaid(p)'
    <3>1. <<"mon", 0>> \in Key
      BY DEF Key
    <3>2. CASE key # <<"mon", 0>>
      BY <1>1, <2>6, <3>1, <3>2 DEF Sound, FirstUnsaid
    <3>3. CASE key = <<"mon", 0>>
      BY <1>1, <2>8, <3>3 DEF Sound, FirstUnsaid
    <3> QED
      BY <3>2, <3>3
  <2>10. ASSUME NEW k \in Key
         PROVE  Stream(p, k)'
    <3>1. Told(k)' = Told(k) /\ Asked(p)' = Asked(p)
      BY <1>1 DEF Told, Asked
    <3>2. Stream(p, k)
      BY DEF Sound
    <3>3. CASE k # key
      BY <1>1, <2>6, <3>1, <3>2, <3>3 DEF Stream
    <3>4. CASE k = key
      <4> SUFFICES ASSUME [do |-> "unsub", on |-> key[1]] \notin Asked(p)
                   PROVE  IF key[1] \in subs[p]
                          THEN Linked(key, x.new, l, Told(key))
                          ELSE l = <<>> /\ x.new = None
        BY <1>1, <2>8, <3>1, <3>4 DEF Stream
      <4> DEFINE c == seen[p][key]
                 e == Told(key)
      <4>1. key[1] \in subs[p] /\ Linked(key, c, n, e)
        BY <1>1, <2>8, <3>2, <3>4 DEF Stream
      <4> HIDE DEF n, l, c, e
      <4>2. Linked(key, Head(n).new, Tail(n), e)
        BY <2>8, <4>1, LinkedTail
      <4> QED
        BY <2>8, <4>1, <4>2 DEF e
    <3> QED
      BY <3>3, <3>4
  <2> QED
    BY <1>10, <2>4, <2>9, <2>10 DEF Sound
<1> QED
  BY <1>4, <1>12, <1>13, MessageKinds

-----------------------------------------------------------------------------
(* Reading and writing.                                                    *)

\* The message goes from the head of the buffer to the end of the socket.
LEMMA WriteSound ==
  ASSUME IInv, NEW p \in Peers, WriteMessage(p), NEW q \in Peers, Sound(q)
  PROVE  Sound(q)'
<1>1. UNCHANGED <<told, subs, up, peer, asked, answered, seen>>
  BY DEF WriteMessage, wmVars, peerVars
<1>2. buffer[p] # <<>>
  BY DEF WriteMessage, IInv, WritePending
<1>3. /\ down' = [down EXCEPT ![p] = Append(@, Head(buffer[p]))]
      /\ buffer' = [buffer EXCEPT ![p] = Tail(@)]
  BY DEF WriteMessage
<1>4. Flow(q)' = Flow(q)
  <2>1. CASE q = p
    <3> DEFINE d == down[p]
               b == buffer[p]
    <3>1. d \in Seq(Message) /\ b \in Seq(Message) /\ b # <<>>
      BY <1>2, Connection DEF IInv
    <3>2. Flow(p) = d \o b /\ Flow(p)' = Append(d, Head(b)) \o Tail(b)
      BY <1>3 DEF Flow, IInv, TypeOK
    <3> HIDE DEF d, b
    <3>3. Append(d, Head(b)) \o Tail(b) = d \o b
      BY <3>1
    <3> QED
      BY <2>1, <3>2, <3>3
  <2>2. CASE q # p
    BY <1>3, <2>2 DEF Flow, IInv, TypeOK
  <2> QED
    BY <2>1, <2>2
<1> QED
  BY <1>1, <1>4, FrameSound

\* What a request that is taken leaves to be read.
LEMMA TakeAwaited ==
  ASSUME TypeOK, NEW p \in Peers, NEW do, Take(p, do), Sound(p)
  PROVE  /\ Awaited(p)' /\ Asked(p)' = Asked(p) /\ Head(up[p]) \in Asked(p)
         /\ Owed(up[p]) = IF do = "mute" THEN Owed(up[p])'
                          ELSE <<Head(up[p])>> \o Owed(up[p])'
<1> DEFINE u == up[p]
           O == {x \in Request : x.do # "mute"}
<1>1. u \in Seq(Request) /\ u # <<>> /\ asked' = asked /\ up'[p] = Tail(u)
  BY DEF Take, Whole, TypeOK, peerVars
<1>2. Asked(p)' = Asked(p)
  BY <1>1 DEF Asked
<1>3. \A i \in 1..Len(u) : u[i] \in Asked(p)
  BY DEF Sound, Awaited
<1>4. Head(u) \in Request /\ Head(u).do = do
  BY TakeKeeps
<1> HIDE DEF u
<1>5. /\ Len(u) \in Nat /\ Len(u) # 0 /\ Head(u) = u[1] /\ Len(Tail(u)) = Len(u) - 1
      /\ \A i \in 1..Len(Tail(u)) : Tail(u)[i] = u[i + 1]
  BY <1>1, LenProperties, EmptySeq, HeadTailProperties
<1>6. Head(u) \in Asked(p)
  <2>1. 1 \in 1..Len(u)
    BY <1>5
  <2> QED
    BY <1>3, <1>5, <2>1
<1>7. \A i \in 1..Len(Tail(u)) : Tail(u)[i] \in Asked(p)
  <2> TAKE i \in 1..Len(Tail(u))
  <2>1. i + 1 \in 1..Len(u)
    BY <1>5
  <2> QED
    BY <1>3, <1>5, <2>1
<1>8. Awaited(p)'
  BY <1>1, <1>2, <1>7 DEF Awaited
<1>9. Only(u, O) = IF Head(u) \in O THEN <<Head(u)>> \o Only(Tail(u), O) ELSE Only(Tail(u), O)
  <2> HIDE DEF O
  <2> QED
    BY <1>1, OnlyHead
<1>10. Head(u) \in O <=> do # "mute"
  BY <1>4
<1>11. Owed(up[p]) = Only(u, O) /\ Owed(up[p])' = Only(Tail(u), O)
  BY <1>1 DEF Owed, u
<1> HIDE DEF O
<1> QED
  BY <1>2, <1>6, <1>8, <1>9, <1>10, <1>11 DEF u

\* What is owed an answer is a sequence of requests.
LEMMA OwedType ==
  ASSUME NEW s \in Seq(Request)
  PROVE  Owed(s) \in Seq(Request)
<1>1. Owed(s) \in Seq(Request \cap {r \in Request : r.do # "mute"})
  BY OnlyType DEF Owed
<1> QED
  BY <1>1

\* A request that cannot be parsed is taken, and owes nothing.
LEMMA MuteSound ==
  ASSUME TypeOK, NEW p \in Peers, Mute(p), Sound(p)
  PROVE  Sound(p)'
<1>1. Take(p, "mute") /\ UNCHANGED <<wm, told, subs, buffer, down, peer, asked, answered, seen>>
  BY DEF Mute, Take, wmVars, peerVars
<1>2. Awaited(p)' /\ Asked(p)' = Asked(p) /\ Owed(up[p]) = Owed(up[p])'
  BY <1>1, TakeAwaited
<1>3. Flow(p)' = Flow(p)
  BY <1>1 DEF Flow
<1>4. InOrder(p)'
  BY <1>1, <1>2, <1>3 DEF Sound, InOrder
<1>5. Fresh(p)'
  <2>1. up[p] # <<>>
    BY <1>1 DEF Take, Whole
  <2>2. peer[p] # "out"
    BY <2>1 DEF Sound, Fresh
  <2> QED
    BY <1>1, <2>2 DEF Fresh
<1>6. \A k : News(p, k)' = News(p, k)
  BY <1>3 DEF News
<1>7. FirstUnsaid(p)'
  BY <1>1, <1>6 DEF Sound, FirstUnsaid
<1>8. ASSUME NEW k \in Key
      PROVE  Stream(p, k)'
  <2>1. Told(k)' = Told(k)
    BY <1>1 DEF Told
  <2> QED
    BY <1>1, <1>2, <1>6, <2>1 DEF Sound, Stream
<1> QED
  BY <1>2, <1>4, <1>5, <1>7, <1>8 DEF Sound

\* A request is taken, its reply joins the flow, and what is subscribed to
\* changes as the request says.
LEMMA ReplySound ==
  ASSUME TypeOK, NEW p \in Peers, NEW do, do # "mute", Take(p, do),
         Queue(p, Reply(Head(up[p]))), told' = told, Sound(p),
         \A t \in Topic : \/ t \in subs'[p] <=> t \in subs[p]
                          \/ t \in subs'[p] /\ t \notin subs[p]
                          \/ [do |-> "unsub", on |-> t] \in Asked(p)
  PROVE  Sound(p)'
<1> DEFINE r == Head(up[p])
           x == [of |-> r]
           old == Flow(p)
           new == old \o <<x>>
<1>1. UNCHANGED <<down, peer, asked, answered, seen>>
  BY DEF Take, peerVars
<1>2. /\ Awaited(p)' /\ Asked(p)' = Asked(p)
      /\ Owed(up[p]) = <<r>> \o Owed(up[p])'
  BY TakeAwaited
<1>3. r \in Request /\ x \in [of : Request]
  BY TakeKeeps
<1>4. x \in Message /\ old \in Seq(Message)
  BY <1>3, MessageKinds, Connection
<1>5. Flow(p)' = new
  <2> DEFINE d == down[p]
             b == buffer[p]
             one == <<x>>
  <2>1. d \in Seq(Message) /\ b \in Seq(Message) /\ one \in Seq(Message) /\ old = d \o b
    BY <1>4, Connection DEF Flow
  <2>2. Flow(p)' = d \o (b \o one)
    BY <1>1 DEF Queue, Reply, Flow, TypeOK
  <2> HIDE DEF d, b, one, old
  <2>3. d \o (b \o one) = (d \o b) \o one
    BY <2>1
  <2> QED
    BY <2>1, <2>2, <2>3 DEF one
<1>6. up' \in [Peers -> Seq(Request)]
  BY TakeKeeps
<1>7. Owed(up[p])' \in Seq(Request) /\ Replied(old) \in Seq(Request) /\ answered[p] \in Seq(Request)
  <2>1. up'[p] \in Seq(Request)
    BY <1>6
  <2>2. Owed(up'[p]) \in Seq(Request)
    BY <2>1, OwedType
  <2> QED
    BY <1>4, <2>2, RepliedType, Connection
<1> HIDE DEF r, old
<1>8. Replied(new) = Replied(old) \o <<r>>
  <2> DEFINE one == <<x>>
  <2>1. one \in Seq(Message)
    BY <1>4
  <2>2. Replied(one) = <<r>>
    BY <1>3, <1>4, RepliedOne
  <2> HIDE DEF one
  <2>3. Replied(old \o one) = Replied(old) \o Replied(one)
    BY <1>4, <2>1, RepliedConcat
  <2> QED
    BY <2>2, <2>3 DEF one
<1>9. InOrder(p)'
  <2> SUFFICES ASSUME peer[p] = "open"
               PROVE  answered[p] \o Replied(new) \o Owed(up[p])' = Owed(asked[p])
    BY <1>1, <1>5 DEF InOrder
  <2> DEFINE a == answered[p]
             b == Replied(old)
             c == Owed(up[p])'
  <2>1. a \o b \o (<<r>> \o c) = Owed(asked[p])
    BY <1>2 DEF Sound, InOrder, old
  <2>2. a \in Seq(Request) /\ b \in Seq(Request) /\ c \in Seq(Request) /\ r \in Request
    BY <1>3, <1>7
  <2> HIDE DEF a, b, c, new
  <2>3. a \o b \o (<<r>> \o c) = a \o (b \o <<r>>) \o c
    BY <2>2
  <2> QED
    BY <1>8, <2>1, <2>3 DEF a, b, c
<1>10. Fresh(p)'
  <2>1. up[p] # <<>>
    BY DEF Take, Whole
  <2>2. peer[p] # "out"
    BY <2>1 DEF Sound, Fresh
  <2> QED
    BY <1>1, <2>2 DEF Fresh
<1>11. ASSUME NEW k \in Key
       PROVE  News(p, k)' = News(p, k)
  <2>1. x \notin On(k)
    BY <1>3, MessageKinds
  <2> DEFINE S == On(k)
  <2>2. News(p, k)' = Only(new, S) /\ News(p, k) = Only(old, S)
    BY <1>5 DEF News, On, old
  <2> HIDE DEF S
  <2>3. Only(old \o <<x>>, S) = IF x \in S THEN Append(Only(old, S), x) ELSE Only(old, S)
    BY <1>4, OnlyMore
  <2> QED
    BY <2>1, <2>2, <2>3 DEF S
<1>12. FirstUnsaid(p)'
  <2>1. <<"mon", 0>> \in Key
    BY DEF Key
  <2> QED
    BY <1>1, <1>11, <2>1 DEF Sound, FirstUnsaid
<1>13. ASSUME NEW k \in Key
       PROVE  Stream(p, k)'
  <2>1. Told(k)' = Told(k) /\ k[1] \in Topic
    BY DEF Told, Key, Topic
  <2>2. News(p, k)' = News(p, k)
    BY <1>11
  <2>3. Stream(p, k)
    BY DEF Sound
  <2>4. CASE k[1] \in subs'[p] <=> k[1] \in subs[p]
    BY <1>1, <1>2, <2>1, <2>2, <2>3, <2>4 DEF Stream
  <2>5. CASE k[1] \in subs'[p] /\ k[1] \notin subs[p]
    <3> SUFFICES ASSUME peer[p] = "open", [do |-> "unsub", on |-> k[1]] \notin Asked(p)
                 PROVE  Linked(k, seen[p][k], News(p, k), Told(k))
      BY <1>1, <1>2, <2>1, <2>2, <2>5 DEF Stream
    <3>1. News(p, k) = <<>> /\ seen[p][k] = None
      BY <2>3, <2>5 DEF Stream
    <3> QED
      BY <3>1, LinkedFirst
  <2>6. CASE [do |-> "unsub", on |-> k[1]] \in Asked(p)
    BY <1>2, <2>6 DEF Stream
  <2> QED
    BY <2>1, <2>4, <2>5, <2>6
<1> QED
  BY <1>2, <1>9, <1>10, <1>12, <1>13 DEF Sound

-----------------------------------------------------------------------------
(* Events.                                                                 *)

\* Nothing, or one event about k.
AtMostOne(k, msgs) == msgs = <<>> \/ \E x \in On(k) : msgs = <<x>>

\* What a subscriber gets of one change is about one key.
LEMMA ForOnly ==
  ASSUME NEW p, NEW topic, NEW l \in Key, NEW msgs, AtMostOne(l, msgs), NEW k \in Key
  PROVE  /\ For(p, topic, msgs) \in Seq(Event)
         /\ Only(For(p, topic, msgs), On(k)) = IF k = l THEN For(p, topic, msgs) ELSE <<>>
<1> DEFINE S == On(k)
<1>1. For(p, topic, msgs) = <<>> \/ \E x \in On(l) : For(p, topic, msgs) = <<x>>
  BY DEF For, AtMostOne
<1>2. CASE For(p, topic, msgs) = <<>>
  BY <1>2, OnlyNone
<1>3. ASSUME NEW x \in On(l), For(p, topic, msgs) = <<x>>
      PROVE  /\ For(p, topic, msgs) \in Seq(Event)
             /\ Only(For(p, topic, msgs), On(k)) = IF k = l THEN For(p, topic, msgs) ELSE <<>>
  <2>1. x \in Event /\ (x \in S <=> k = l)
    BY MessageKinds
  <2> HIDE DEF S
  <2>2. <<x>> \in Seq(Event)
    BY <2>1
  <2>3. Only(<<x>>, S) = IF k = l THEN <<x>> ELSE <<>>
    BY <2>1, OnlyOne
  <2> QED
    BY <1>3, <2>2, <2>3 DEF S
<1> QED
  BY <1>1, <1>2, <1>3

\* Of three sequences Only picks from each.
LEMMA OnlyThree ==
  ASSUME NEW A, NEW a \in Seq(A), NEW b \in Seq(A), NEW c \in Seq(A), NEW S
  PROVE  /\ a \o b \o c \in Seq(A)
         /\ Only(a \o b \o c, S) = Only(a, S) \o Only(b, S) \o Only(c, S)
<1> DEFINE d == a \o b
<1>1. d \in Seq(A)
  BY ConcatProperties
<1>2. Only(d, S) = Only(a, S) \o Only(b, S)
  BY OnlyConcat
<1> HIDE DEF d
<1>3. Only(d \o c, S) = Only(d, S) \o Only(c, S) /\ d \o c \in Seq(A)
  BY <1>1, OnlyConcat, ConcatProperties
<1> QED
  BY <1>2, <1>3 DEF d

\* What a round of ipc_send_events adds to the news of a key: nothing, or one
\* event that takes what was told to what is told now.
Adds(p, k, news) ==
    \/ /\ news = <<>>
       /\ \/ k[1] \notin subs[p]
          \/ Told(k)' = Told(k)
          \/ k = <<"mon", 0>> /\ told.selmon = None
    \/ /\ k[1] \in subs[p]
       /\ \E x \in On(k) : /\ news = <<x>> /\ x.new = Told(k)'
                           /\ k[1] # "sel" => x.old = Told(k)

\* What one round of ipc_send_events queues for a peer continues its streams.
LEMMA RoundAdds ==
  ASSUME IInv, NEW p \in Peers, NEW m \in Mon, NEW win \in WinOf(told.sel[m]), NEW selmon \in Mon,
         told' = [selmon |-> selmon, sel |-> [told.sel EXCEPT ![m] = wm.sel[m]],
                  tag |-> [told.tag EXCEPT ![m] = wm.tag[m]]],
         NEW new, new = For(p, "tag", Changed(<<"tag", m>>, told.tag[m], wm.tag[m]))
                        \o For(p, "sel", SelChanged(m, win))
                        \o For(p, "mon", MonChanged(selmon))
  PROVE  new \in Seq(Event) /\ \A k \in Key : Adds(p, k, Only(new, On(k)))
<1> DEFINE k1 == <<"tag", m>>
           k2 == <<"sel", m>>
           k3 == <<"mon", 0>>
           x1 == [on |-> k1, old |-> told.tag[m], new |-> wm.tag[m]]
           x2 == [on |-> k2, old |-> win, new |-> wm.sel[m]]
           x3 == [on |-> k3, old |-> told.selmon, new |-> selmon]
           a == For(p, "tag", Changed(k1, told.tag[m], wm.tag[m]))
           b == For(p, "sel", SelChanged(m, win))
           c == For(p, "mon", MonChanged(selmon))
<1>1. k1 \in Key /\ k2 \in Key /\ k3 \in Key
  BY DEF Key
<1>2. x1 \in On(k1) /\ x2 \in On(k2) /\ x3 \in On(k3)
  <2>1. TypeOK
    BY DEF IInv
  <2>2. win \in Value
    BY <2>1, ValueTypes DEF WinOf, Value
  <2>3. selmon \in Value
    BY DEF Value
  <2>4. told.tag[m] \in Value /\ wm.tag[m] \in Value /\ wm.sel[m] \in Value /\ told.selmon \in Value
    BY <2>1, ValueTypes
  <2> QED
    BY <2>2, <2>3, <2>4 DEF On
<1>3. told.sel \in [Mon -> Clients \cup {None}] /\ told.tag \in [Mon -> Tags \cup {None}]
  BY DEF IInv, TypeOK
<1>4. /\ told'.selmon = selmon
      /\ \A n \in Mon : told'.sel[n] = IF n = m THEN wm.sel[m] ELSE told.sel[n]
      /\ \A n \in Mon : told'.tag[n] = IF n = m THEN wm.tag[m] ELSE told.tag[n]
  BY <1>3
<1>5. a = IF "tag" \in subs[p] /\ told.tag[m] # wm.tag[m] THEN <<x1>> ELSE <<>>
  BY DEF For, Changed
<1>6. b = IF "sel" \in subs[p] /\ told.sel[m] # wm.sel[m] THEN <<x2>> ELSE <<>>
  BY DEF For, SelChanged
<1>7. c = IF "mon" \in subs[p] /\ told.selmon # None /\ told.selmon # selmon THEN <<x3>> ELSE <<>>
  BY DEF For, MonChanged, Changed
<1>8. /\ new \in Seq(Event)
      /\ Only(new, On(k1)) = a /\ Only(new, On(k2)) = b /\ Only(new, On(k3)) = c
      /\ \A k \in Key \ {k1, k2, k3} : Only(new, On(k)) = <<>>
  <2> DEFINE y1 == Changed(k1, told.tag[m], wm.tag[m])
             y2 == SelChanged(m, win)
             y3 == MonChanged(selmon)
  <2>1. AtMostOne(k1, y1)
    BY <1>2 DEF Changed, AtMostOne
  <2>2. AtMostOne(k2, y2)
    BY <1>2 DEF SelChanged, AtMostOne
  <2>3. AtMostOne(k3, y3)
    BY <1>2 DEF MonChanged, Changed, AtMostOne
  <2>4. k1 # k2 /\ k2 # k3 /\ k1 # k3
    OBVIOUS
  <2>5. new = a \o b \o c
    OBVIOUS
  <2> HIDE DEF k1, k2, k3, x1, x2, x3, y1, y2, y3
  <2>6. \A k \in Key : a \in Seq(Event) /\ Only(a, On(k)) = IF k = k1 THEN a ELSE <<>>
    <3>1. \A k \in Key : /\ For(p, "tag", y1) \in Seq(Event)
                         /\ Only(For(p, "tag", y1), On(k)) = IF k = k1 THEN For(p, "tag", y1) ELSE <<>>
      BY ONLY <1>1, <2>1, ForOnly
    <3> QED
      BY <3>1 DEF y1
  <2>7. \A k \in Key : b \in Seq(Event) /\ Only(b, On(k)) = IF k = k2 THEN b ELSE <<>>
    <3>1. \A k \in Key : /\ For(p, "sel", y2) \in Seq(Event)
                         /\ Only(For(p, "sel", y2), On(k)) = IF k = k2 THEN For(p, "sel", y2) ELSE <<>>
      BY ONLY <1>1, <2>2, ForOnly
    <3> QED
      BY <3>1 DEF y2
  <2>8. \A k \in Key : c \in Seq(Event) /\ Only(c, On(k)) = IF k = k3 THEN c ELSE <<>>
    <3>1. \A k \in Key : /\ For(p, "mon", y3) \in Seq(Event)
                         /\ Only(For(p, "mon", y3), On(k)) = IF k = k3 THEN For(p, "mon", y3) ELSE <<>>
      BY ONLY <1>1, <2>3, ForOnly
    <3> QED
      BY <3>1 DEF y3
  <2> HIDE DEF a, b, c
  <2>9. a \in Seq(Event) /\ b \in Seq(Event) /\ c \in Seq(Event)
    BY ONLY <1>1, <2>6, <2>7, <2>8
  <2>10. /\ a \o b \o c \in Seq(Event)
         /\ \A S : Only(a \o b \o c, S) = Only(a, S) \o Only(b, S) \o Only(c, S)
    <3>1. a \o b \o c \in Seq(Event)
      BY ONLY <2>9
    <3>2. ASSUME NEW S
          PROVE  Only(a \o b \o c, S) = Only(a, S) \o Only(b, S) \o Only(c, S)
      <4>1. \A u, v, w \in Seq(Event) :
               Only(u \o v \o w, S) = Only(u, S) \o Only(v, S) \o Only(w, S)
        BY ONLY OnlyThree
      <4> QED
        BY ONLY <2>9, <4>1
    <3> QED
      BY ONLY <3>1, <3>2
  <2>11. a \o <<>> \o <<>> = a /\ <<>> \o b \o <<>> = b /\ <<>> \o <<>> \o c = c
         /\ <<>> \o <<>> \o <<>> = <<>>
    BY ONLY <2>9
  <2>12. \A k \in Key : Only(new, On(k)) = (IF k = k1 THEN a ELSE <<>>)
                            \o (IF k = k2 THEN b ELSE <<>>) \o (IF k = k3 THEN c ELSE <<>>)
    BY ONLY <2>5, <2>6, <2>7, <2>8, <2>10
  <2>13. new \in Seq(Event)
    BY ONLY <2>5, <2>10
  <2> QED
    BY ONLY <1>1, <2>4, <2>11, <2>12, <2>13
<1> HIDE DEF a, b, c
<1>12. ASSUME NEW k \in Key
       PROVE  Adds(p, k, Only(new, On(k)))
  <2>5. CASE k = k1
    <3>1. Only(new, On(k)) = a
      BY <1>8, <2>5
    <3>2. Told(k) = told.tag[m] /\ Told(k)' = wm.tag[m] /\ k[1] = "tag"
      BY <1>4, <2>5 DEF Told
    <3>3. CASE "tag" \in subs[p] /\ told.tag[m] # wm.tag[m]
      <4>1. a = <<x1>> /\ x1 \in On(k) /\ x1.new = wm.tag[m] /\ x1.old = told.tag[m]
        BY <1>2, <1>5, <2>5, <3>3
      <4> QED
        BY <3>1, <3>2, <3>3, <4>1 DEF Adds
    <3>4. CASE ~("tag" \in subs[p] /\ told.tag[m] # wm.tag[m])
      BY <1>5, <3>1, <3>2, <3>4 DEF Adds
    <3> QED
      BY <3>3, <3>4
  <2>6. CASE k = k2
    <3>1. Only(new, On(k)) = b
      BY <1>8, <2>6
    <3>2. Told(k) = told.sel[m] /\ Told(k)' = wm.sel[m] /\ k[1] = "sel"
      BY <1>4, <2>6 DEF Told
    <3>3. CASE "sel" \in subs[p] /\ told.sel[m] # wm.sel[m]
      <4>1. b = <<x2>> /\ x2 \in On(k) /\ x2.new = wm.sel[m]
        BY <1>2, <1>6, <2>6, <3>3
      <4> QED
        BY <3>1, <3>2, <3>3, <4>1 DEF Adds
    <3>4. CASE ~("sel" \in subs[p] /\ told.sel[m] # wm.sel[m])
      BY <1>6, <3>1, <3>2, <3>4 DEF Adds
    <3> QED
      BY <3>3, <3>4
  <2>7. CASE k = k3
    <3>1. Only(new, On(k)) = c
      BY <1>8, <2>7
    <3>2. Told(k) = told.selmon /\ Told(k)' = selmon /\ k[1] = "mon"
      BY <1>4, <2>7 DEF Told
    <3>3. CASE "mon" \in subs[p] /\ told.selmon # None /\ told.selmon # selmon
      <4>1. c = <<x3>> /\ x3 \in On(k) /\ x3.new = selmon /\ x3.old = told.selmon
        BY <1>2, <1>7, <2>7, <3>3
      <4> QED
        BY <3>1, <3>2, <3>3, <4>1 DEF Adds
    <3>4. CASE ~("mon" \in subs[p] /\ told.selmon # None /\ told.selmon # selmon)
      BY <1>7, <2>7, <3>1, <3>2, <3>4 DEF Adds
    <3> QED
      BY <3>3, <3>4
  <2>8. CASE k # k1 /\ k # k2 /\ k # k3
    <3>1. Only(new, On(k)) = <<>>
      BY <1>8, <2>8
    <3>2. Told(k)' = Told(k)
      <4>1. PICK topic \in {"tag", "sel"}, n \in Mon : k = <<topic, n>>
        BY <2>8 DEF Key
      <4>2. n # m /\ k[1] = topic /\ k[2] = n
        BY <2>8, <4>1
      <4> QED
        BY <1>4, <4>2 DEF Told
    <3> QED
      BY <3>1, <3>2 DEF Adds
  <2> QED
    BY <2>5, <2>6, <2>7, <2>8
<1> QED
  BY <1>8, <1>12

\* A key's news with what a round adds to it still has no gap.
LEMMA AddsLinked ==
  ASSUME NEW p, NEW k, NEW c, NEW news \in Seq(Event), NEW more, k \in Key,
         Linked(k, c, news, Told(k)), Adds(p, k, more), k[1] \in subs[p],
         k = <<"mon", 0>> /\ told.selmon = None => news = <<>> /\ c = None
  PROVE  Linked(k, c, news \o more, Told(k)')
<1> DEFINE e == Told(k)'
<1>1. CASE more = <<>> /\ Told(k)' = Told(k)
  <2>1. news \o <<>> = news
    OBVIOUS
  <2> QED
    BY <1>1, <2>1
<1>2. CASE more = <<>> /\ k = <<"mon", 0>> /\ told.selmon = None
  <2>1. news \o more = <<>> /\ c = None
    BY <1>2
  <2> HIDE DEF e
  <2>2. Linked(k, None, <<>>, e)
    BY LinkedFirst
  <2> QED
    BY <2>1, <2>2 DEF e
<1>3. ASSUME NEW x \in On(k), more = <<x>>, x.new = Told(k)', k[1] # "sel" => x.old = Told(k)
      PROVE  Linked(k, c, news \o more, Told(k)')
  <2>1. x \in Event
    BY MessageKinds
  <2>2. news \o more = Append(news, x)
    BY <1>3, <2>1
  <2> DEFINE d == Told(k)
  <2>3. Linked(k, c, news, d) /\ (k[1] # "sel" => x.old = d)
    BY <1>3
  <2> HIDE DEF d
  <2>4. Linked(k, c, Append(news, x), x.new)
    BY ONLY <2>1, <2>3, LinkedAppend, news \in Seq(Event)
  <2> QED
    BY <1>3, <2>2, <2>4
<1> QED
  BY <1>1, <1>2, <1>3 DEF Adds

\* Such a round keeps every stream sound.
LEMMA SendEventsSound ==
  ASSUME SInv, SendEvents, NEW q \in Peers
  PROVE  Sound(q)'
<1> DEFINE m == server.mon
<1>1. IInv /\ Conns /\ Sound(q) /\ TypeOK
  BY DEF SInv, IInv
<1>2. server.at = "events" /\ server \in Place
  BY <1>1 DEF SendEvents, TypeOK, Place
<1>3. m \in Mon /\ server.selmon \in Mon
  BY <1>2 DEF Place
<1>4. PICK win \in WinOf(told.sel[m]) :
        LET New(p) == For(p, "tag", Changed(<<"tag", m>>, told.tag[m], wm.tag[m]))
                      \o For(p, "sel", SelChanged(m, win))
                      \o For(p, "mon", MonChanged(server.selmon))
        IN /\ buffer' = [p \in Peers |-> IF p \in conn THEN buffer[p] \o New(p) ELSE buffer[p]]
           /\ told' = [selmon |-> server.selmon,
                       sel |-> [told.sel EXCEPT ![m] = wm.sel[m]],
                       tag |-> [told.tag EXCEPT ![m] = wm.tag[m]]]
  BY DEF SendEvents
<1>5. PICK new : new = For(q, "tag", Changed(<<"tag", m>>, told.tag[m], wm.tag[m]))
                       \o For(q, "sel", SelChanged(m, win))
                       \o For(q, "mon", MonChanged(server.selmon))
  OBVIOUS
<1>6. buffer'[q] = IF q \in conn THEN buffer[q] \o new ELSE buffer[q]
  BY <1>4, <1>5
<1>7. told' = [selmon |-> server.selmon, sel |-> [told.sel EXCEPT ![m] = wm.sel[m]],
               tag |-> [told.tag EXCEPT ![m] = wm.tag[m]]]
  BY <1>4
<1>8. UNCHANGED <<wm, ready, conn, subs, up, half, down, peer, asked, answered, seen>>
  BY DEF SendEvents, socketVars, peerVars
<1>9. new \in Seq(Event) /\ \A k \in Key : Adds(q, k, Only(new, On(k)))
  <2> DEFINE selmon == server.selmon
  <2>1. selmon \in Mon /\ m \in Mon
    BY <1>3
  <2> HIDE DEF m, selmon
  <2> QED
    BY <1>1, <1>5, <1>7, <2>1, RoundAdds DEF m, selmon
<1> HIDE DEF m
<1>10. told'.selmon # None
  BY <1>3, <1>7, NamesAssumption
<1>11. FirstUnsaid(q)'
  BY <1>10 DEF FirstUnsaid
<1>12. Awaited(q)' /\ Asked(q)' = Asked(q)
  BY <1>1, <1>8 DEF Sound, Awaited, Asked
<1>13. CASE q \notin conn
  <2>1. Flow(q)' = Flow(q) /\ subs[q] = {}
    BY <1>1, <1>6, <1>8, <1>13 DEF Flow, Conns
  <2>2. Fresh(q)' /\ InOrder(q)'
    BY <1>1, <1>8, <2>1 DEF Sound, Fresh, InOrder
  <2>3. \A k : News(q, k)' = News(q, k)
    BY <2>1 DEF News
  <2>4. \A k \in Key : Stream(q, k)'
    BY <1>1, <1>8, <1>12, <2>1, <2>3 DEF Sound, Stream
  <2> QED
    BY <1>11, <1>12, <2>2, <2>4 DEF Sound
<1>14. CASE q \in conn
  <2> DEFINE old == Flow(q)
  <2>1. old \in Seq(Message) /\ new \in Seq(Message)
    <3>1. Event \subseteq Message
      BY MessageKinds
    <3> QED
      BY <1>1, <1>9, <3>1, Connection, SeqMonotonic
  <2>2. Flow(q)' = old \o new
    <3> DEFINE d == down[q]
               b == buffer[q]
    <3>1. d \in Seq(Message) /\ b \in Seq(Message) /\ old = d \o b
      BY <1>1, Connection DEF Flow
    <3>2. Flow(q)' = d \o (b \o new)
      BY <1>6, <1>8, <1>14 DEF Flow
    <3> HIDE DEF d, b, old
    <3>3. d \o (b \o new) = (d \o b) \o new
      BY ONLY <2>1, <3>1
    <3> QED
      BY <3>1, <3>2, <3>3
  <2> HIDE DEF old
  <2>3. InOrder(q)'
    <3>1. Replied(old \o new) = Replied(old) \o Replied(new) /\ Replied(new) = <<>>
      BY ONLY <1>9, <2>1, RepliedConcat, RepliedEvents
    <3>2. Replied(old) \in Seq(Request)
      BY ONLY <2>1, RepliedType
    <3>3. Replied(old \o new) = Replied(old)
      BY ONLY <3>1, <3>2, ConcatEmptySeq
    <3> QED
      BY <1>1, <1>8, <2>2, <3>3 DEF Sound, InOrder, old
  <2>4. Fresh(q)'
    BY <1>1, <1>8, <1>14 DEF Conns, Fresh
  <2>5. ASSUME NEW k \in Key
        PROVE  Stream(q, k)'
    <3>1. PICK more : more = Only(new, On(k)) /\ Adds(q, k, more)
      BY <1>9
    <3>2. News(q, k) \in Seq(Event) /\ News(q, k)' = News(q, k) \o more
      <4> DEFINE S == On(k)
      <4>1. News(q, k) = Only(old, S) /\ News(q, k)' = Only(old \o new, S)
        BY <2>2 DEF News, On, old
      <4>2. Message \cap S \subseteq Event /\ more = Only(new, S)
        BY <3>1, MessageKinds
      <4> HIDE DEF S
      <4>3. \A u, v \in Seq(Message) : Only(u \o v, S) = Only(u, S) \o Only(v, S)
        BY ONLY OnlyConcat
      <4>4. \A u \in Seq(Message) : Only(u, S) \in Seq(Message \cap S)
        BY ONLY OnlyType
      <4>5. Only(old, S) \in Seq(Event)
        BY ONLY <2>1, <4>2, <4>4, SeqMonotonic
      <4> QED
        BY ONLY <2>1, <4>1, <4>2, <4>3, <4>5
    <3> SUFFICES ASSUME peer[q] = "open", [do |-> "unsub", on |-> k[1]] \notin Asked(q)
                 PROVE  IF k[1] \in subs[q]
                        THEN Linked(k, seen[q][k], News(q, k)', Told(k)')
                        ELSE News(q, k)' = <<>> /\ seen[q][k] = None
      BY <1>8, <1>12 DEF Stream
    <3>3. CASE k[1] \in subs[q]
      <4>1. Linked(k, seen[q][k], News(q, k), Told(k))
        BY <1>1, <3>3 DEF Sound, Stream
      <4>2. k = <<"mon", 0>> /\ told.selmon = None => News(q, k) = <<>> /\ seen[q][k] = None
        BY <1>1 DEF Sound, FirstUnsaid
      <4> DEFINE c == seen[q][k]
                 n == News(q, k)
      <4> HIDE DEF c, n
      <4>3. Linked(k, c, n \o more, Told(k)')
        BY ONLY k \in Key, <3>1, <3>2, <3>3, <4>1, <4>2, AddsLinked DEF c, n
      <4> QED
        BY <3>2, <3>3, <4>3 DEF c, n
    <3>4. CASE k[1] \notin subs[q]
      <4>1. News(q, k) = <<>> /\ seen[q][k] = None
        BY <1>1, <3>4 DEF Sound, Stream
      <4>2. more = <<>>
        BY <3>1, <3>4 DEF Adds
      <4> QED
        BY <3>2, <3>4, <4>1, <4>2
    <3> QED
      BY <3>3, <3>4
  <2> QED
    BY <1>11, <1>12, <2>3, <2>4, <2>5 DEF Sound
<1> QED
  BY <1>13, <1>14

-----------------------------------------------------------------------------
(* Every step.                                                             *)

\* A request of p leaves the connections of the others alone.
LEMMA TakeOther ==
  ASSUME TypeOK, NEW p \in Peers, NEW q \in Peers, q # p, Sound(q), UNCHANGED <<peerVars, told>>,
         up' = [up EXCEPT ![p] = Tail(@)], down' = down,
         buffer'[q] = buffer[q], subs'[q] = subs[q]
  PROVE  Sound(q)'
<1>1. up'[q] = up[q]
  BY DEF TypeOK
<1>2. Flow(q)' = Flow(q)
  BY DEF Flow
<1> QED
  BY <1>1, <1>2, FrameSound DEF peerVars

\* What a request with one reply does to each connection.
LEMMA RepliedSound ==
  ASSUME TypeOK, NEW p \in Peers, NEW q \in Peers, NEW do, do # "mute", Take(p, do),
         Queue(p, Reply(Head(up[p]))), told' = told, Sound(p), Sound(q),
         \A n \in Peers \ {p} : subs'[n] = subs[n],
         \A t \in Topic : \/ t \in subs'[p] <=> t \in subs[p]
                          \/ t \in subs'[p] /\ t \notin subs[p]
                          \/ [do |-> "unsub", on |-> t] \in Asked(p)
  PROVE  Sound(q)'
<1>1. CASE q = p
  BY <1>1, ReplySound
<1>2. CASE q # p
  <2>1. buffer'[q] = buffer[q] /\ subs'[q] = subs[q]
    BY <1>2 DEF Queue, TypeOK
  <2>2. up' = [up EXCEPT ![p] = Tail(@)] /\ down' = down /\ UNCHANGED peerVars
    BY DEF Take
  <2> QED
    BY <1>2, <2>1, <2>2, TakeOther
<1> QED
  BY <1>1, <1>2

\* So does reading one request and answering it.
LEMMA ReadSound ==
  ASSUME SInv, NEW p \in Peers, ReadMessage(p), NEW q \in Peers
  PROVE  Sound(q)'
<1>1. TypeOK /\ IInv /\ Sound(p) /\ Sound(q)
  BY DEF SInv, IInv
<1>2. CASE Ask(p)
  <2>1. Take(p, "ask") /\ Queue(p, Reply(Head(up[p]))) /\ told' = told /\ subs' = subs
    BY <1>2 DEF Ask, wmVars
  <2>2. "ask" # "mute" /\ \A t : t \in subs'[p] <=> t \in subs[p]
    BY <2>1
  <2> QED
    BY <1>1, <2>1, <2>2, RepliedSound
<1>3. CASE Mute(p)
  <2>1. CASE q = p
    BY <1>1, <1>3, <2>1, MuteSound
  <2>2. CASE q # p
    <3>1. told' = told /\ subs' = subs /\ buffer' = buffer /\ down' = down /\ UNCHANGED peerVars
          /\ up' = [up EXCEPT ![p] = Tail(@)]
      BY <1>3 DEF Mute, Take, wmVars
    <3> QED
      BY <1>1, <2>2, <3>1, TakeOther
  <2> QED
    BY <2>1, <2>2
<1>4. CASE Subscribe(p)
  <2>1. Take(p, "sub") /\ Queue(p, Reply(Head(up[p]))) /\ told' = told
    BY <1>4 DEF Subscribe, wmVars
  <2>2. subs' = [subs EXCEPT ![p] = @ \cup {Head(up[p]).on}]
    BY <1>4 DEF Subscribe
  <2>3. subs'[p] = subs[p] \cup {Head(up[p]).on} /\ \A n \in Peers \ {p} : subs'[n] = subs[n]
    BY <1>1, <2>2 DEF TypeOK
  <2>4. "sub" # "mute"
    OBVIOUS
  <2> QED
    BY <1>1, <2>1, <2>3, <2>4, RepliedSound
<1>5. CASE Unsubscribe(p)
  <2>1. Take(p, "unsub") /\ Queue(p, Reply(Head(up[p]))) /\ told' = told
    BY <1>5 DEF Unsubscribe, wmVars
  <2> DEFINE r == Head(up[p])
  <2>2. subs' = [subs EXCEPT ![p] = (@ \ {r.on}) \cup ({r.on} \ @)]
    BY <1>5 DEF Unsubscribe
  <2>3. r \in Request /\ r.do = "unsub" /\ r \in Asked(p)
    BY <1>1, <2>1, TakeKeeps, TakeAwaited
  <2>4. r = [do |-> "unsub", on |-> r.on]
    BY <2>3 DEF Request
  <2> HIDE DEF r
  <2>5. subs'[p] = (subs[p] \ {r.on}) \cup ({r.on} \ subs[p])
        /\ \A n \in Peers \ {p} : subs'[n] = subs[n]
    BY <1>1, <2>2 DEF TypeOK
  <2>6. ASSUME NEW t \in Topic
        PROVE  (t \in subs'[p] <=> t \in subs[p]) \/ [do |-> "unsub", on |-> t] \in Asked(p)
    <3>1. CASE t = r.on
      BY <2>3, <2>4, <3>1
    <3>2. CASE t # r.on
      BY <2>5, <3>2
    <3> QED
      BY <3>1, <3>2
  <2>7. "unsub" # "mute"
    OBVIOUS
  <2> QED
    BY <1>1, <2>1, <2>5, <2>6, <2>7, RepliedSound
<1>6. CASE RunCommand(p)
  <2>1. Take(p, "cmd") /\ Queue(p, Reply(Head(up[p]))) /\ told' = told /\ subs' = subs
    BY <1>6 DEF RunCommand
  <2>2. "cmd" # "mute" /\ \A t : t \in subs'[p] <=> t \in subs[p]
    BY <2>1
  <2> QED
    BY <1>1, <2>1, <2>2, RepliedSound
<1>7. CASE ReadFailed(p)
  <2>1. DropClient(p) /\ told' = told
    BY <1>7 DEF ReadFailed, wmVars
  <2> QED
    BY <1>1, <2>1, DropSound, DropOther
<1> QED
  BY <1>2, <1>3, <1>4, <1>5, <1>6, <1>7 DEF ReadMessage

\* So does a peer's own step.
LEMMA PeerSound ==
  ASSUME SInv, NEW p \in Peers, PeerNext(p), NEW q \in Peers
  PROVE  Sound(q)'
<1>1. TypeOK /\ Sound(p) /\ Sound(q)
  BY DEF SInv, IInv
<1>2. CASE Finish(p)
  <2>1. UNCHANGED <<told, subs, buffer, up, down, peer, asked, answered, seen>>
    BY <1>2 DEF Finish, wmVars, clientVars, peerVars
  <2>2. Flow(q)' = Flow(q)
    BY <2>1 DEF Flow
  <2> QED
    BY <1>1, <2>1, <2>2, FrameSound
<1>3. CASE q # p
  <2>1. UNCHANGED <<told, subs, buffer>>
    BY DEF PeerNext, Connect, Send, Finish, Receive, Close, wmVars, clientVars
  <2>2. /\ peer'[q] = peer[q] /\ up'[q] = up[q] /\ asked'[q] = asked[q] /\ down'[q] = down[q]
        /\ answered'[q] = answered[q] /\ seen'[q] = seen[q]
    <3>1. CASE Connect(p)
      BY <1>1, <1>3, <3>1 DEF Connect, TypeOK, socketVars
    <3>2. CASE Send(p)
      BY <1>1, <1>3, <3>2 DEF Send, TypeOK
    <3>3. CASE Finish(p)
      BY <3>3 DEF Finish, peerVars
    <3>4. CASE Receive(p)
      BY <1>1, <1>3, <3>4 DEF Receive, TypeOK
    <3>5. CASE Close(p)
      BY <1>1, <1>3, <3>5 DEF Close, TypeOK
    <3> QED
      BY <3>1, <3>2, <3>3, <3>4, <3>5 DEF PeerNext
  <2>3. Flow(q)' = Flow(q)
    BY <2>1, <2>2 DEF Flow
  <2> QED
    BY <1>1, <2>1, <2>2, <2>3, FrameSound
<1>4. CASE q = p
  BY <1>1, <1>2, <1>4, ConnectSound, SendSound, ReceiveSound, CloseSound DEF PeerNext
<1> QED
  BY <1>3, <1>4

\* The main loop changes no connection, but for one that hangs up.
LEMMA ServeSound ==
  ASSUME SInv, NEW p \in Peers, ServeClient(p), NEW q \in Peers
  PROVE  Sound(q)'
<1>1. TypeOK /\ Sound(p) /\ Sound(q)
  BY DEF SInv, IInv
<1>2. CASE HandleHup(p)
  <2>1. DropClient(p) /\ told' = told
    BY <1>2 DEF HandleHup, wmVars
  <2> QED
    BY <1>1, <2>1, DropSound, DropOther
<1>3. CASE AcceptClient(p) \/ HandleOut(p) \/ HandleIn(p)
  <2>1. UNCHANGED <<told, subs, buffer, up, down, peer, asked, answered, seen>>
    BY <1>3 DEF AcceptClient, HandleOut, HandleIn, wmVars, clientVars, socketVars, peerVars
  <2>2. Flow(q)' = Flow(q)
    BY <2>1 DEF Flow
  <2> QED
    BY <1>1, <2>1, <2>2, FrameSound
<1> QED
  BY <1>2, <1>3 DEF ServeClient

\* And a step that touches no stream.
LEMMA StillSound ==
  ASSUME SInv, EpollWait \/ XEvent \/ UNCHANGED vars \/ \E p \in Peers : WriteBroken(p), NEW q \in Peers
  PROVE  Sound(q)'
<1>1. UNCHANGED <<told, subs, buffer, up, down, peer, asked, answered, seen>>
  BY DEF EpollWait, XEvent, WriteBroken, vars, wmVars, clientVars, socketVars, peerVars
<1>2. Flow(q)' = Flow(q)
  BY <1>1 DEF Flow
<1> QED
  BY <1>1, <1>2, FrameSound DEF SInv

\* Every step keeps every stream sound.
LEMMA NextSound ==
  ASSUME SInv, [Next]_vars, NEW q \in Peers
  PROVE  Sound(q)'
<1>1. ASSUME NEW p \in Peers, Work(p)
      PROVE  Sound(q)'
  BY <1>1, WriteSound, StillSound, ReadSound DEF Work, SInv
<1> QED
  BY <1>1, StillSound, SendEventsSound, ServeSound, PeerSound DEF Next

\* A peer in the batch stays connected, or not, until it is served.
LEMMA NextConns ==
  ASSUME SInv, [Next]_vars
  PROVE  Conns'
<1>1. TypeOK /\ IInv /\ Conns
  BY DEF SInv, IInv
<1>2. CASE EpollWait
  <2>1. PICK f \in XFlags :
          ready' = [s \in Source |-> IF s = Display THEN f ELSE Flags(s)]
    BY <1>2 DEF EpollWait
  <2>2. UNCHANGED <<conn, subs, peer>>
    BY <1>2 DEF EpollWait, clientVars, peerVars
  <2>3. ASSUME NEW p \in Peers, "accept" \in ready'[p]
        PROVE  peer[p] # "out"
    <3>1. "accept" \in Flags(p)
      BY <2>1, <2>3, PeersAssumption DEF Source
    <3> QED
      BY <3>1 DEF Flags
  <2> QED
    BY <1>1, <2>2, <2>3 DEF Conns
<1>3. CASE XEvent
  <2>1. \A p \in Peers : ready'[p] = ready[p]
    BY <1>1, <1>3, PeersAssumption DEF XEvent, TypeOK, Source
  <2>2. UNCHANGED <<conn, subs, peer>>
    BY <1>3 DEF XEvent, clientVars, peerVars
  <2> QED
    BY <1>1, <2>1, <2>2 DEF Conns
<1>4. CASE SendEvents
  BY <1>1, <1>4 DEF SendEvents, Conns, peerVars
<1>5. ASSUME NEW p \in Peers, DropClient(p), ready'[p] = {}, \A q \in Peers \ {p} : ready'[q] = ready[q]
      PROVE  Conns'
  <2>1. conn' = conn \ {p} /\ subs'[p] = {}
    BY <1>1, <1>5 DEF DropClient, TypeOK
  <2>2. \A q \in Peers \ {p} : peer'[q] = peer[q] /\ subs'[q] = subs[q]
    BY <1>1, <1>5 DEF DropClient, TypeOK
  <2> QED
    BY <1>1, <1>5, <2>1, <2>2 DEF Conns
<1>6. ASSUME NEW p \in Peers, ServeClient(p)
      PROVE  Conns'
  <2>1. Serve(p)
    BY <1>6 DEF ServeClient, AcceptClient, HandleHup, HandleOut, HandleIn
  <2>2. ready'[p] = {} /\ \A q \in Peers \ {p} : ready'[q] = ready[q]
    BY <1>1, <2>1, ServeKeeps
  <2>3. CASE AcceptClient(p)
    <3>1. "accept" \in ready[p] /\ conn' = conn \cup {p} /\ UNCHANGED <<subs, peer>>
      BY <2>3 DEF AcceptClient, peerVars
    <3> QED
      BY <1>1, <2>2, <3>1 DEF Conns
  <2>4. CASE HandleHup(p)
    BY <1>5, <2>2, <2>4 DEF HandleHup
  <2>5. CASE HandleOut(p) \/ HandleIn(p)
    <3>1. UNCHANGED <<conn, subs, peer>>
      BY <2>5 DEF HandleOut, HandleIn, clientVars, peerVars
    <3> QED
      BY <1>1, <2>2, <3>1 DEF Conns
  <2> QED
    BY <1>6, <2>3, <2>4, <2>5 DEF ServeClient
<1>7. ASSUME NEW p \in Peers, Work(p)
      PROVE  Conns'
  <2>1. CASE WriteMessage(p) \/ WriteBroken(p)
    BY <1>1, <2>1 DEF WriteMessage, WriteBroken, Conns, peerVars, clientVars
  <2>2. CASE ReadFailed(p)
    <3>1. ready[p] = {}
      BY <1>1, <2>2, PlaceOfPeer DEF ReadFailed, IInv, ServedOnce
    <3> QED
      BY <1>5, <2>2, <3>1 DEF ReadFailed
  <2>3. CASE Ask(p) \/ Mute(p) \/ Subscribe(p) \/ Unsubscribe(p) \/ RunCommand(p)
    <3>1. UNCHANGED <<ready, conn, peer>> /\ Reading(p)
      BY <2>3 DEF Ask, Mute, Subscribe, Unsubscribe, RunCommand, Take, peerVars
    <3>2. p \in conn
      BY <1>1, <3>1, PlaceOfPeer
    <3>3. \A q \in Peers \ {p} : subs'[q] = subs[q]
      BY <1>1, <2>3 DEF Ask, Mute, Subscribe, Unsubscribe, RunCommand, TypeOK
    <3> QED
      BY <1>1, <3>1, <3>2, <3>3 DEF Conns
  <2> QED
    BY <1>7, <2>1, <2>2, <2>3 DEF Work, ReadMessage
<1>8. ASSUME NEW p \in Peers, PeerNext(p)
      PROVE  Conns'
  <2>1. UNCHANGED <<ready, conn, subs>>
    BY <1>8 DEF PeerNext, Connect, Send, Finish, Receive, Close, clientVars
  <2>2. \A q \in Peers : peer'[q] = peer[q] \/ peer'[q] # "out"
    BY <1>1, <1>8 DEF PeerNext, Connect, Send, Finish, Receive, Close, TypeOK, peerVars
  <2> QED
    BY <1>1, <2>1, <2>2 DEF Conns
<1>9. CASE UNCHANGED vars
  BY <1>1, <1>9 DEF vars, Conns
<1> QED
  BY <1>2, <1>3, <1>4, <1>6, <1>7, <1>8, <1>9 DEF Next

\* ipc_send_events tells the monitors one after the other, all of them after
\* each change of the window manager.
LEMMA NextTold ==
  ASSUME SInv, [Next]_vars
  PROVE  ToldCurrent'
<1>1. TypeOK /\ IInv /\ ToldCurrent
  BY DEF SInv, IInv
<1>2. ASSUME UNCHANGED <<wm, told>>, server.at # "events" \/ server' = server
      PROVE  ToldCurrent'
  BY <1>1, <1>2 DEF ToldCurrent
<1>3. ASSUME server'.at = "events", server'.mon = 1
      PROVE  ToldCurrent'
  <2>1. \A m \in Mon : ~(m < 1)
    BY DEF Mon
  <2> QED
    BY <1>3, <2>1 DEF ToldCurrent
<1>4. CASE EpollWait
  BY <1>2, <1>4 DEF EpollWait, wmVars
<1>5. CASE XEvent
  <2>1. server' = [at |-> "events", mon |-> 1, selmon |-> wm'.selmon]
    BY <1>5 DEF XEvent
  <2> QED
    BY <1>3, <2>1
<1>6. CASE SendEvents
  <2> DEFINE m == server.mon
  <2>1. server.at = "events" /\ server \in Place
    BY <1>1, <1>6 DEF SendEvents, TypeOK, Place
  <2>2. server \in [at : {"events"}, mon : Mon, selmon : Mon]
    BY <2>1 DEF Place
  <2>3. /\ told' = [selmon |-> server.selmon,
                    sel |-> [told.sel EXCEPT ![m] = wm.sel[m]],
                    tag |-> [told.tag EXCEPT ![m] = wm.tag[m]]]
        /\ server' = IF m = NMons THEN Idle ELSE [server EXCEPT !.mon = m + 1]
        /\ wm' = wm
    BY <1>6 DEF SendEvents
  <2>4. m \in Mon
    BY <2>2
  <2>5. ASSUME NEW n \in Mon, server'.at = "events" => n < server'.mon
        PROVE  n = m \/ n < m
    <3>1. CASE m = NMons
      BY <2>4, <2>5, <3>1, MonsAssumption DEF Mon
    <3>2. CASE m # NMons
      <4>1. server' = [at |-> "events", mon |-> m + 1, selmon |-> server.selmon]
        BY <2>2, <2>3, <3>2
      <4>2. n < m + 1
        BY <2>5, <4>1
      <4> QED
        BY <2>4, <4>2, MonsAssumption DEF Mon
    <3> QED
      BY <3>1, <3>2
  <2>6. ASSUME NEW n \in Mon
        PROVE  /\ told'.tag[n] = IF n = m THEN wm.tag[m] ELSE told.tag[n]
               /\ told'.sel[n] = IF n = m THEN wm.sel[m] ELSE told.sel[n]
    BY <1>1, <2>3, <2>4 DEF TypeOK
  <2>7. \A n \in Mon : n < m => /\ told.tag[n] \in {None, wm.tag[n]}
                                /\ told.sel[n] \in {None, wm.sel[n]}
    BY <1>1, <2>1 DEF ToldCurrent
  <2> HIDE DEF m
  <2> QED
    BY <2>3, <2>5, <2>6, <2>7 DEF ToldCurrent
<1>7. ASSUME NEW p \in Peers, ServeClient(p)
      PROVE  ToldCurrent'
  BY <1>2, <1>7, IdlePlace DEF ServeClient, AcceptClient, HandleHup, HandleOut, HandleIn, Serve, wmVars
<1>8. ASSUME NEW p \in Peers, Work(p)
      PROVE  ToldCurrent'
  <2>1. server.at # "events"
    <3>1. Reading(p) \/ Writing(p)
      BY <1>8 DEF Work, WriteMessage, WriteBroken, ReadMessage, Ask, Mute, Subscribe, Unsubscribe,
                  RunCommand, ReadFailed, Take
    <3> QED
      BY <1>1, <3>1, PlaceOfPeer
  <2>2. CASE RunCommand(p)
    <3>1. server' = [at |-> "events", mon |-> 1, selmon |-> wm.selmon]
      BY <2>2 DEF RunCommand
    <3> QED
      BY <1>3, <3>1
  <2>3. CASE ~RunCommand(p)
    <3>1. UNCHANGED <<wm, told>>
      BY <1>8, <2>3 DEF Work, WriteMessage, WriteBroken, ReadMessage, Ask, Mute, Subscribe,
                        Unsubscribe, ReadFailed, wmVars
    <3> QED
      BY <1>2, <2>1, <3>1
  <2> QED
    BY <2>2, <2>3
<1>9. ASSUME NEW p \in Peers, PeerNext(p)
      PROVE  ToldCurrent'
  BY <1>2, <1>9 DEF PeerNext, Connect, Send, Finish, Receive, Close, wmVars
<1>10. CASE UNCHANGED vars
  BY <1>2, <1>10 DEF vars
<1> QED
  BY <1>4, <1>5, <1>6, <1>7, <1>8, <1>9, <1>10 DEF Next

\* Nothing is queued when the server has started.
LEMMA InitSInv == Init => SInv
<1> SUFFICES ASSUME Init
             PROVE  SInv
  OBVIOUS
<1>1. IInv
  BY InitIInv
<1>2. Conns
  BY DEF Init, Conns, Source
<1>3. ToldCurrent
  BY DEF Init, ToldCurrent
<1>4. ASSUME NEW p \in Peers
      PROVE  Sound(p)
  <2>1. /\ peer[p] = "out" /\ subs[p] = {} /\ buffer[p] = <<>> /\ down[p] = <<>> /\ up[p] = <<>>
        /\ asked[p] = <<>> /\ answered[p] = <<>> /\ seen[p] = [k \in Key |-> None]
    BY DEF Init
  <2>2. Flow(p) = <<>> /\ Len(up[p]) = 0
    BY <2>1 DEF Flow
  <2>3. Fresh(p) /\ Awaited(p)
    BY <2>1, <2>2 DEF Fresh, Awaited
  <2> QED
    BY <2>1, <2>3 DEF Sound, InOrder, FirstUnsaid, Stream
<1> QED
  BY <1>1, <1>2, <1>3, <1>4 DEF SInv

\* Every step keeps the invariant and the streams.
LEMMA NextSInv == SInv /\ [Next]_vars => SInv'
<1> SUFFICES ASSUME SInv, [Next]_vars
             PROVE  SInv'
  OBVIOUS
<1>1. IInv'
  BY NextIInv DEF SInv
<1> QED
  BY <1>1, NextConns, NextTold, NextSound DEF SInv

\* SInv holds in every state of every behaviour.
THEOREM StreamsInductive == Spec => []SInv
  BY InitSInv, NextSInv, PTL DEF Spec

\* Each request that can be parsed has one reply, in the order of the requests
\* (AnsweredInOrder), whatever is queued, cut in two or stalled between.
THEOREM RepliesInOrder == Spec => []AnsweredInOrder
<1>1. SInv => AnsweredInOrder
  BY DEF SInv, Sound, InOrder, AnsweredInOrder
<1> QED
  BY <1>1, StreamsInductive, PTL

\* The states a subscriber went through, the ones of the events on their way
\* included: each event starts from the one before, and the last is the one told.
LEMMA StatesOf ==
  ASSUME NEW c \in Value, NEW news \in Seq(Event), NEW e, Ends(c, news, e), Joined(c, news)
  PROVE  LET states == (IF c = None THEN <<>> ELSE <<c>>) \o [i \in 1..Len(news) |-> news[i].new]
             first == IF c = None THEN 1 ELSE 0
         IN /\ \A i \in 1..Len(news) : i > first => news[i].old = states[i - first]
            /\ states # <<>> => states[Len(states)] = e
<1> DEFINE n == Len(news)
           ends == [i \in 1..n |-> news[i].new]
<1>1. n \in Nat /\ (news = <<>> <=> n = 0)
  BY LenProperties, EmptySeq
<1>2. \A i \in 1..n : news[i] \in Event
  BY ElementOfSeq
<1>3. \A i \in 1..n : news[i].new \in Value
  BY <1>2 DEF Event
<1>4. ends \in Seq(Value) /\ Len(ends) = n
  BY <1>1, <1>3
<1>5. \A i \in 1..n : ends[i] = news[i].new
  OBVIOUS
<1> HIDE DEF ends
<1>6. /\ n # 0 => ends[n] = e
      /\ \A i \in 1..n : i > 1 => news[i].old = ends[i - 1]
  <2>1. ASSUME n # 0
        PROVE  ends[n] = e
    <3>1. n \in 1..n /\ news # <<>>
      BY <1>1, <2>1
    <3> QED
      BY <1>5, <3>1 DEF Ends
  <2>2. ASSUME NEW i \in 1..n, i > 1
        PROVE  news[i].old = ends[i - 1]
    <3> DEFINE j == i - 1
    <3>1. j \in 1..n - 1 /\ j \in 1..n /\ i = j + 1
      BY <1>1, <2>2
    <3> HIDE DEF j
    <3>2. news[j + 1].old = news[j].new
      BY <3>1 DEF Joined
    <3>3. ends[j] = news[j].new
      BY <1>5, <3>1
    <3> QED
      BY <3>1, <3>2, <3>3 DEF j
  <2> QED
    BY <2>1, <2>2
<1>7. CASE c = None
  <2>1. <<>> \o ends = ends
    BY <1>4
  <2>2. ends # <<>> <=> n # 0
    BY <1>1, <1>4, EmptySeq
  <2> QED
    BY <1>4, <1>6, <1>7, <2>1, <2>2 DEF ends
<1>8. CASE c # None
  <2> DEFINE one == <<c>>
             states == one \o ends
  <2>1. one \in Seq(Value) /\ Len(one) = 1 /\ one[1] = c
    OBVIOUS
  <2> HIDE DEF one
  <2>2. /\ Len(states) = n + 1
        /\ \A i \in 1..n + 1 : states[i] = IF i <= 1 THEN one[i] ELSE ends[i - 1]
    <3>1. /\ Len(states) = Len(one) + Len(ends)
          /\ \A i \in 1..Len(one) + Len(ends) :
                states[i] = IF i <= Len(one) THEN one[i] ELSE ends[i - Len(one)]
      BY <1>4, <2>1, ConcatProperties
    <3>2. Len(one) + Len(ends) = n + 1
      BY <1>1, <1>4, <2>1
    <3> QED
      BY <2>1, <3>1, <3>2
  <2> HIDE DEF states
  <2>3. states[1] = c /\ \A i \in 1..n : states[i + 1] = ends[i]
    <3>1. 1 \in 1..n + 1
      BY <1>1
    <3>2. states[1] = c
      BY <2>1, <2>2, <3>1
    <3>3. ASSUME NEW i \in 1..n
          PROVE  states[i + 1] = ends[i]
      <4> DEFINE j == i + 1
      <4>1. j \in 1..n + 1 /\ ~(j <= 1) /\ j - 1 = i
        BY <1>1
      <4> HIDE DEF j
      <4>2. states[j] = ends[j - 1]
        BY <2>2, <4>1
      <4> QED
        BY <4>1, <4>2 DEF j
    <3> QED
      BY <3>2, <3>3
  <2>4. ASSUME NEW i \in 1..n
        PROVE  news[i].old = states[i]
    <3>1. CASE i = 1
      <4>1. news # <<>> /\ news[1].old = c
        BY <1>1, <1>8, <3>1 DEF Joined
      <4> QED
        BY <2>3, <3>1, <4>1
    <3>2. CASE i # 1
      <4> DEFINE j == i - 1
      <4>1. j \in 1..n /\ i = j + 1 /\ i > 1
        BY <1>1, <3>2
      <4>2. news[i].old = ends[j]
        BY <1>6, <4>1
      <4> HIDE DEF j
      <4> QED
        BY <2>3, <4>1, <4>2
    <3> QED
      BY <3>1, <3>2
  <2>5. states[n + 1] = e
    <3>1. CASE n = 0
      BY <1>1, <1>8, <2>3, <3>1 DEF Ends
    <3>2. CASE n # 0
      <4>1. n \in 1..n
        BY <1>1, <3>2
      <4> QED
        BY <1>6, <2>3, <3>2, <4>1
    <3> QED
      BY <3>1, <3>2
  <2>6. /\ \A i \in 1..n : i > 0 => news[i].old = states[i - 0]
        /\ states # <<>> => states[Len(states)] = e
    <3>1. \A i \in 1..n : i - 0 = i
      BY <1>1
    <3> QED
      BY <2>2, <2>4, <2>5, <3>1
  <2> QED
    BY <1>8, <2>6 DEF states, one, ends
<1> QED
  BY <1>7, <1>8

\* The events of a topic, as long as it is subscribed to and was never left,
\* are an unbroken chain (EventsChain) up to what the server keeps as told.
THEOREM ChainUnbroken == Spec => []EventsChain
<1>1. SInv => EventsChain
  <2> SUFFICES ASSUME SInv, NEW p \in Peers, NEW key \in Key,
                      key[1] \in {"tag", "mon"}, Follows(p, key[1])
               PROVE  LET news == News(p, key)
                          states == (IF seen[p][key] = None THEN <<>> ELSE <<seen[p][key]>>)
                                    \o [i \in 1..Len(news) |-> news[i].new]
                          first == IF seen[p][key] = None THEN 1 ELSE 0
                      IN /\ \A i \in 1..Len(news) : i > first => news[i].old = states[i - first]
                         /\ states # <<>> =>
                              states[Len(states)] = IF key[1] = "mon" THEN told.selmon
                                                    ELSE told.tag[key[2]]
    BY DEF EventsChain
  <2> DEFINE c == seen[p][key]
             news == News(p, key)
             e == Told(key)
  <2>1. TypeOK /\ Stream(p, key)
    BY DEF SInv, IInv, Sound
  <2>2. key[1] # "sel" /\ e = IF key[1] = "mon" THEN told.selmon ELSE told.tag[key[2]]
    BY DEF Told
  <2>3. Linked(key, c, news, e)
    BY <2>1 DEF Stream, Follows, Asked
  <2>4. Ends(c, news, e) /\ Joined(c, news)
    BY <2>2, <2>3 DEF Linked
  <2>5. c \in Value
    BY <2>1 DEF TypeOK
  <2>6. news \in Seq(Event)
    <3> DEFINE old == Flow(p)
    <3>1. old \in Seq(Message) /\ news = Only(old, On(key))
      BY <2>1, Connection DEF News, On
    <3> HIDE DEF old, news
    <3>2. \A u \in Seq(Message) : Only(u, On(key)) \in Seq(Message \cap On(key))
      BY ONLY OnlyType
    <3>3. Message \cap On(key) \subseteq Event
      BY MessageKinds
    <3> QED
      BY ONLY <3>1, <3>2, <3>3, SeqMonotonic
  <2> HIDE DEF c, news, e
  <2>7. \A d \in Value, s \in Seq(Event) : (Ends(d, s, e) /\ Joined(d, s)) =>
          LET states == (IF d = None THEN <<>> ELSE <<d>>) \o [i \in 1..Len(s) |-> s[i].new]
              first == IF d = None THEN 1 ELSE 0
          IN /\ \A i \in 1..Len(s) : i > first => s[i].old = states[i - first]
             /\ states # <<>> => states[Len(states)] = e
    BY ONLY StatesOf
  <2>8. LET states == (IF c = None THEN <<>> ELSE <<c>>) \o [i \in 1..Len(news) |-> news[i].new]
            first == IF c = None THEN 1 ELSE 0
        IN /\ \A i \in 1..Len(news) : i > first => news[i].old = states[i - first]
           /\ states # <<>> => states[Len(states)] = e
    BY ONLY <2>4, <2>5, <2>6, <2>7
  <2> QED
    BY <2>2, <2>8 DEF c, news
<1> QED
  BY <1>1, StreamsInductive, PTL

\* What a subscriber heard last, with nothing on its way and the server at
\* rest, is so (SubscriberKnows).
THEOREM KnowsWhatIsSo == Spec => []SubscriberKnows
<1>1. SInv => SubscriberKnows
  <2> SUFFICES ASSUME SInv, NEW p \in Peers, NEW m \in Mon,
                      server = Idle, peer[p] = "open", Flow(p) = <<>>
               PROVE  /\ (Follows(p, "tag") /\ seen[p][<<"tag", m>>] # None) =>
                            seen[p][<<"tag", m>>] = wm.tag[m]
                      /\ (Follows(p, "sel") /\ seen[p][<<"sel", m>>] # None) =>
                            seen[p][<<"sel", m>>] = wm.sel[m]
    BY DEF SubscriberKnows
  <2>1. told.tag[m] \in {None, wm.tag[m]} /\ told.sel[m] \in {None, wm.sel[m]}
    BY IdlePlace DEF SInv, ToldCurrent
  <2>2. <<"tag", m>> \in Key /\ <<"sel", m>> \in Key
    BY DEF Key
  <2>3. ASSUME NEW k \in Key, Follows(p, k[1]), seen[p][k] # None
        PROVE  seen[p][k] = Told(k)
    <3>1. Stream(p, k)
      BY DEF SInv, Sound
    <3>2. News(p, k) = <<>>
      BY OnlyNone DEF News
    <3>3. Ends(seen[p][k], News(p, k), Told(k))
      BY <2>3, <3>1 DEF Stream, Follows, Asked, Linked
    <3> QED
      BY <2>3, <3>2, <3>3 DEF Ends
  <2>4. Told(<<"tag", m>>) = told.tag[m] /\ Told(<<"sel", m>>) = told.sel[m]
    BY DEF Told
  <2>5. ASSUME Follows(p, "tag"), seen[p][<<"tag", m>>] # None
        PROVE  seen[p][<<"tag", m>>] = wm.tag[m]
    BY <2>1, <2>2, <2>3, <2>4, <2>5
  <2>6. ASSUME Follows(p, "sel"), seen[p][<<"sel", m>>] # None
        PROVE  seen[p][<<"sel", m>>] = wm.sel[m]
    BY <2>1, <2>2, <2>3, <2>4, <2>6
  <2> QED
    BY <2>5, <2>6
<1> QED
  BY <1>1, StreamsInductive, PTL
=============================================================================
