------------------------------ MODULE IpcServer ------------------------------
(***************************************************************************)
(* The IPC server of dwm-dunc (src/ipc-patch) in the main loop of dwm.c:   *)
(* epoll_wait reports what is ready, the loop serves one descriptor after  *)
(* the other, a peer's request is read and answered in its buffer, and     *)
(* ipc_send_events tells the subscribers what differs from what they were  *)
(* told last.  Peers are other processes: they send, read, stall and leave *)
(* between any two steps.                                                  *)
(*                                                                         *)
(* accept() gives blocking sockets (ipc.c:1086 sets FD_CLOEXEC only), so a *)
(* read waits for the rest of a message and a write for room.  The unit of *)
(* a buffer and of a socket is one message; a request may arrive in two    *)
(* parts, its header and its payload.                                      *)
(***************************************************************************)
EXTENDS Sublists, FiniteSets

CONSTANTS
    Peers,         \* the processes that talk to the server
    Display,       \* the connection to the X server
    NMons,         \* the number of monitors
    Clients,       \* the windows that may be selected
    Tags,          \* the values of a TagState
    None,          \* NULL, and what was told before the first event
    Junk,          \* what a read of freed memory may give
    Requests,      \* the requests each peer may send
    Leavers,       \* the peers that may vanish while something is owed them
    MaxRequests,   \* bound: the requests of all connections
    Cap,           \* the messages a socket holds for a peer that reads none
    MaxBuffer      \* bound: no X event and no peer comes while a buffer is that long

Mon == 1..NMons
Source == Peers \cup {Display}
Topic == {"tag", "sel", "mon"}

\* get_*, subscribe, unsubscribe, run_command; mute is a find or get request
\* that cannot be parsed, garbled a header without the magic string.
Request ==
    [do : {"ask", "cmd", "mute", "garbled"}, on : {None}]
        \cup [do : {"sub", "unsub"}, on : Topic]

\* The key of an event: its type and the monitor it is about.
Key == ({"tag", "sel"} \X Mon) \cup {<<"mon", 0>>}
Value == Mon \cup Clients \cup Tags \cup {None, Junk}
Message ==
    [of : Request] \cup [on : Key, old : Value, new : Value]

\* What ipc_send_events looks at, after any handler of the window manager.
WmState ==
    {w \in [selmon : Mon, sel : [Mon -> Clients \cup {None}],
            tag : [Mon -> Tags], live : SUBSET Clients] :
        \A m \in Mon : w.sel[m] # None =>
            /\ w.sel[m] \in w.live
            /\ \A n \in Mon \ {m} : w.sel[n] # w.sel[m]}

ASSUME MonsAssumption == NMons \in Nat \ {0}
ASSUME NamesAssumption ==
    /\ None \notin Mon \cup Clients \cup Tags
    /\ Junk \notin Mon \cup Clients \cup Tags
ASSUME RequestsAssumption == Requests \in [Peers -> SUBSET Request]
ASSUME PeersAssumption == Leavers \subseteq Peers /\ Display \notin Peers
ASSUME BoundsAssumption == MaxRequests \in Nat /\ Cap \in Nat \ {0} /\ MaxBuffer \in Nat

VARIABLES
    wm,        \* the window manager
    told,      \* m->tagstate, m->lastsel and lastselmon
    server,    \* where the process is
    ready,     \* the events of the last epoll_wait not yet served
    conn,      \* ipc_clients
    subs,      \* c->subscriptions
    buffer,    \* c->buffer
    armed,     \* EPOLLOUT \in c->event.events
    up,        \* sent by the peer, not yet read by the server
    half,      \* of the last request in up only the header was sent
    down,      \* written by the server, not yet read by the peer
    peer,      \* "out", "open" or "closed"
    asked,     \* the requests sent on this connection
    answered,  \* the requests whose replies the peer has read
    seen       \* the last news the peer has read, by key

wmVars == <<wm, told>>
clientVars == <<conn, subs, buffer, armed>>
socketVars == <<up, half, down>>
peerVars == <<peer, asked, answered, seen>>
vars == <<wm, told, server, ready, conn, subs, buffer, armed, up, half, down,
          peer, asked, answered, seen>>

Idle == [at |-> "loop"]

Init ==
    /\ wm \in WmState
    /\ told = [selmon |-> None, sel |-> [m \in Mon |-> None], tag |-> [m \in Mon |-> None]]
    /\ server = Idle
    /\ ready = [s \in Source |-> {}]
    /\ conn = {}
    /\ subs = [p \in Peers |-> {}]
    /\ buffer = [p \in Peers |-> <<>>]
    /\ armed = [p \in Peers |-> FALSE]
    /\ up = [p \in Peers |-> <<>>]
    /\ half = [p \in Peers |-> FALSE]
    /\ down = [p \in Peers |-> <<>>]
    /\ peer = [p \in Peers |-> "out"]
    /\ asked = [p \in Peers |-> <<>>]
    /\ answered = [p \in Peers |-> <<>>]
    /\ seen = [p \in Peers |-> [k \in Key |-> None]]

-----------------------------------------------------------------------------
(* The main loop. *)

\* The events epoll_wait reports for p; "accept" is the listening socket's.
Flags(p) ==
    IF p \notin conn
    THEN {f \in {"accept"} : peer[p] # "out"}
    ELSE {f \in {"hup"} : peer[p] = "closed"}
         \cup {f \in {"out"} : armed[p] /\ (peer[p] = "closed" \/ Len(down[p]) < Cap)}
         \cup {f \in {"in"} : up[p] # <<>> \/ peer[p] = "closed"}

\* What is queued for a peer that does not read has no limit in the code.
Room == \A p \in Peers : Len(buffer[p]) < MaxBuffer

\* X events come when they like.
XFlags == {{}} \cup {f \in {{"in"}} : Room}

\* The events may be out of date when the loop comes to serve them.
EpollWait ==
    /\ server = Idle
    /\ \A s \in Source : ready[s] = {}
    /\ \E f \in XFlags :
         ready' = [s \in Source |-> IF s = Display THEN f ELSE Flags(s)]
    /\ ready' # ready
    /\ UNCHANGED <<wmVars, server, clientVars, socketVars, peerVars>>

Serve(s) ==
    /\ server = Idle
    /\ ready[s] # {}
    /\ ready' = [ready EXCEPT ![s] = {}]

AcceptClient(p) ==
    /\ Serve(p)
    /\ "accept" \in ready[p]
    /\ conn' = conn \cup {p}
    /\ UNCHANGED <<wmVars, server, subs, buffer, armed, socketVars, peerVars>>

\* The connection is gone for both sides; the peer may connect again.
DropClient(p) ==
    /\ conn' = conn \ {p}
    /\ subs' = [subs EXCEPT ![p] = {}]
    /\ buffer' = [buffer EXCEPT ![p] = <<>>]
    /\ armed' = [armed EXCEPT ![p] = FALSE]
    /\ up' = [up EXCEPT ![p] = <<>>]
    /\ half' = [half EXCEPT ![p] = FALSE]
    /\ down' = [down EXCEPT ![p] = <<>>]
    /\ peer' = [peer EXCEPT ![p] = "out"]
    /\ asked' = [asked EXCEPT ![p] = <<>>]
    /\ answered' = [answered EXCEPT ![p] = <<>>]
    /\ seen' = [seen EXCEPT ![p] = [k \in Key |-> None]]

HandleHup(p) ==
    /\ Serve(p)
    /\ "hup" \in ready[p]
    /\ DropClient(p)
    /\ UNCHANGED <<wmVars, server>>

HandleOut(p) ==
    /\ Serve(p)
    /\ "out" \in ready[p] /\ "hup" \notin ready[p]
    /\ server' = IF buffer[p] # <<>> THEN [at |-> "write", who |-> p] ELSE Idle
    /\ UNCHANGED <<wmVars, clientVars, socketVars, peerVars>>

HandleIn(p) ==
    /\ Serve(p)
    /\ ready[p] = {"in"}
    /\ server' = [at |-> "read", who |-> p]
    /\ UNCHANGED <<wmVars, clientVars, socketVars, peerVars>>

-----------------------------------------------------------------------------
(* Writing: the whole buffer, message by message, waiting for room. *)

Writing(p) == server = [at |-> "write", who |-> p]

\* Mutant: EPOLLOUT stays on.
WriteMessageStaysArmed(p) ==
    /\ Writing(p)
    /\ peer[p] = "open"
    /\ Len(down[p]) < Cap
    /\ down' = [down EXCEPT ![p] = Append(@, Head(buffer[p]))]
    /\ buffer' = [buffer EXCEPT ![p] = Tail(@)]
    /\ IF Tail(buffer[p]) = <<>> THEN server' = Idle ELSE UNCHANGED server
    /\ UNCHANGED <<wmVars, ready, conn, subs, armed, up, half, peerVars>>

\* Mutant: a short write counts as the whole one.
WriteMessageShort(p) ==
    /\ Writing(p)
    /\ peer[p] = "open"
    /\ Len(down[p]) < Cap
    /\ down' = [down EXCEPT ![p] = Append(@, Head(buffer[p]))]
    /\ buffer' = [buffer EXCEPT ![p] = <<>>]
    /\ armed' = [armed EXCEPT ![p] = FALSE]
    /\ server' = Idle
    /\ UNCHANGED <<wmVars, ready, conn, subs, up, half, peerVars>>

WriteMessage(p) ==
    /\ Writing(p)
    /\ peer[p] = "open"
    /\ Len(down[p]) < Cap
    /\ down' = [down EXCEPT ![p] = Append(@, Head(buffer[p]))]
    /\ buffer' = [buffer EXCEPT ![p] = Tail(@)]
    /\ IF Tail(buffer[p]) = <<>>
       THEN armed' = [armed EXCEPT ![p] = FALSE] /\ server' = Idle
       ELSE UNCHANGED <<armed, server>>
    /\ UNCHANGED <<wmVars, ready, conn, subs, up, half, peerVars>>

\* write() to a closed connection raises SIGPIPE, for which dwm has no handler.
WriteBroken(p) ==
    /\ Writing(p)
    /\ peer[p] = "closed"
    /\ server' = [at |-> "dead"]
    /\ UNCHANGED <<wmVars, ready, clientVars, socketVars, peerVars>>

-----------------------------------------------------------------------------
(* Reading: a whole request, waiting for the rest of it. *)

Reading(p) == server = [at |-> "read", who |-> p]

\* All of the oldest request has been sent.
Whole(p) == up[p] # <<>> /\ ~(half[p] /\ Len(up[p]) = 1)

\* Mutant: EPOLLOUT is not asked for.
QueueUnarmed(p, msgs) ==
    /\ buffer' = [buffer EXCEPT ![p] = @ \o msgs]
    /\ UNCHANGED armed

\* ipc_prepare_send_message
Queue(p, msgs) ==
    /\ buffer' = [buffer EXCEPT ![p] = @ \o msgs]
    /\ armed' = [armed EXCEPT ![p] = @ \/ msgs # <<>>]

Reply(r) == <<[of |-> r]>>

Take(p, do) ==
    /\ Reading(p)
    /\ Whole(p)
    /\ Head(up[p]).do = do
    /\ up' = [up EXCEPT ![p] = Tail(@)]
    /\ UNCHANGED <<half, down, ready, conn, peerVars>>

\* A get or find request, and one that is refused: each has one reply.
Ask(p) ==
    /\ Take(p, "ask")
    /\ Queue(p, Reply(Head(up[p])))
    /\ server' = Idle
    /\ UNCHANGED <<wmVars, subs>>

\* The parsers of find and get fail, and nothing is queued.
Mute(p) ==
    /\ Take(p, "mute")
    /\ server' = Idle
    /\ UNCHANGED <<wmVars, subs, buffer, armed>>

Subscribe(p) ==
    /\ Take(p, "sub")
    /\ subs' = [subs EXCEPT ![p] = @ \cup {Head(up[p]).on}]
    /\ Queue(p, Reply(Head(up[p])))
    /\ server' = Idle
    /\ UNCHANGED wmVars

\* c->subscriptions ^= event
Unsubscribe(p) ==
    /\ Take(p, "unsub")
    /\ LET e == {Head(up[p]).on} IN
       subs' = [subs EXCEPT ![p] = (@ \ e) \cup (e \ @)]
    /\ Queue(p, Reply(Head(up[p])))
    /\ server' = Idle
    /\ UNCHANGED wmVars

\* Mutant: no events after a command.
RunCommandQuiet(p) ==
    /\ Take(p, "cmd")
    /\ wm' \in WmState
    /\ Queue(p, Reply(Head(up[p])))
    /\ server' = Idle
    /\ UNCHANGED <<told, subs>>

\* ipc_send_events is given the selmon that run read before the command ran.
RunCommand(p) ==
    /\ Take(p, "cmd")
    /\ wm' \in WmState
    /\ Queue(p, Reply(Head(up[p])))
    /\ server' = [at |-> "events", mon |-> 1, selmon |-> wm.selmon]
    /\ UNCHANGED <<told, subs>>

\* Mutant: every error is retried, as EAGAIN is.
ReadFailedRetries(p) ==
    /\ Reading(p)
    /\ \/ peer[p] = "closed" /\ ~Whole(p)
       \/ up[p] # <<>> /\ Head(up[p]).do = "garbled"
    /\ UNCHANGED vars

\* The end of the connection, or a header without the magic string.
ReadFailed(p) ==
    /\ Reading(p)
    /\ \/ peer[p] = "closed" /\ ~Whole(p)
       \/ up[p] # <<>> /\ Head(up[p]).do = "garbled"
    /\ DropClient(p)
    /\ server' = Idle
    /\ UNCHANGED <<wmVars, ready>>

ReadMessage(p) ==
    Ask(p) \/ Mute(p) \/ Subscribe(p) \/ Unsubscribe(p) \/ RunCommand(p) \/ ReadFailed(p)

-----------------------------------------------------------------------------
(* Events. *)

\* handlexevent: a handler, and ipc_send_events after it.  More events may be
\* pending; how they mix with the peers' is left open.
XEvent ==
    /\ server = Idle
    /\ ready[Display] # {}
    /\ \E f \in XFlags : ready' = [ready EXCEPT ![Display] = f]
    /\ wm' \in WmState
    /\ server' = [at |-> "events", mon |-> 1, selmon |-> wm'.selmon]
    /\ UNCHANGED <<told, clientVars, socketVars, peerVars>>

Changed(key, old, new) ==
    IF old = new THEN <<>> ELSE <<[on |-> key, old |-> old, new |-> new]>>

\* Nothing is sent about the first selected monitor.
MonChanged(new) ==
    IF told.selmon = None THEN <<>> ELSE Changed(<<"mon", 0>>, told.selmon, new)

\* The window of a client whose memory may have been freed.
WinOf(c) == IF c \in wm.live \cup {None} THEN {c} ELSE {c, Junk}

SelChanged(m, win) ==
    IF told.sel[m] = wm.sel[m]
    THEN <<>> ELSE <<[on |-> <<"sel", m>>, old |-> win, new |-> wm.sel[m]]>>

For(p, topic, msgs) == IF topic \in subs[p] THEN msgs ELSE <<>>

\* One round of ipc_send_events' loop over the monitors; no peer's message is
\* looked at between two rounds.
SendEvents ==
    /\ server.at = "events"
    /\ LET m == server.mon IN
       \E win \in WinOf(told.sel[m]) :
         LET New(p) == For(p, "tag", Changed(<<"tag", m>>, told.tag[m], wm.tag[m]))
                       \o For(p, "sel", SelChanged(m, win))
                       \o For(p, "mon", MonChanged(server.selmon))
         IN /\ buffer' = [p \in Peers |-> IF p \in conn THEN buffer[p] \o New(p) ELSE buffer[p]]
            /\ armed' = [p \in Peers |-> armed[p] \/ (p \in conn /\ New(p) # <<>>)]
            /\ told' = [selmon |-> server.selmon,
                        sel |-> [told.sel EXCEPT ![m] = wm.sel[m]],
                        tag |-> [told.tag EXCEPT ![m] = wm.tag[m]]]
            /\ server' = IF m = NMons THEN Idle ELSE [server EXCEPT !.mon = m + 1]
    /\ UNCHANGED <<wm, ready, conn, subs, socketVars, peerVars>>

-----------------------------------------------------------------------------
(* The peers. *)

Connect(p) ==
    /\ peer[p] = "out"
    /\ Room
    /\ peer' = [peer EXCEPT ![p] = "open"]
    /\ UNCHANGED <<wmVars, server, ready, clientVars, socketVars, asked, answered, seen>>

\* A request, or its header only.
Send(p) ==
    /\ peer[p] = "open"
    /\ ~half[p]
    /\ Cardinality(UNION {{q} \X DOMAIN asked[q] : q \in Peers}) < MaxRequests
    /\ \E r \in Requests[p], part \in BOOLEAN :
         /\ up' = [up EXCEPT ![p] = Append(@, r)]
         /\ asked' = [asked EXCEPT ![p] = Append(@, r)]
         /\ half' = [half EXCEPT ![p] = part]
    /\ UNCHANGED <<wmVars, server, ready, clientVars, down, peer, answered, seen>>

Finish(p) ==
    /\ peer[p] = "open"
    /\ half[p]
    /\ half' = [half EXCEPT ![p] = FALSE]
    /\ UNCHANGED <<wmVars, server, ready, clientVars, up, down, peerVars>>

Receive(p) ==
    /\ peer[p] = "open"
    /\ down[p] # <<>>
    /\ down' = [down EXCEPT ![p] = Tail(@)]
    /\ LET msg == Head(down[p]) IN
       IF "of" \in DOMAIN msg
       THEN answered' = [answered EXCEPT ![p] = Append(@, msg.of)] /\ UNCHANGED seen
       ELSE seen' = [seen EXCEPT ![p][msg.on] = msg.new] /\ UNCHANGED answered
    /\ UNCHANGED <<wmVars, server, ready, clientVars, up, half, peer, asked>>

\* Nothing is owed to a peer that has its answers and no subscription.
Settled(p) == answered[p] = asked[p] /\ subs[p] = {}

\* What a process that ends has not read is lost, what it sent is not.
Close(p) ==
    /\ peer[p] = "open"
    /\ p \in Leavers \/ Settled(p)
    /\ peer' = [peer EXCEPT ![p] = "closed"]
    /\ down' = [down EXCEPT ![p] = <<>>]
    /\ UNCHANGED <<wmVars, server, ready, clientVars, up, half, asked, answered, seen>>

-----------------------------------------------------------------------------
PeerNext(p) == Connect(p) \/ Send(p) \/ Finish(p) \/ Receive(p) \/ Close(p)

ServeClient(p) == AcceptClient(p) \/ HandleHup(p) \/ HandleOut(p) \/ HandleIn(p)

\* What the server does once it has begun to serve p.
Work(p) == WriteMessage(p) \/ WriteBroken(p) \/ ReadMessage(p)

Next ==
    \/ EpollWait \/ XEvent \/ SendEvents
    \/ \E p \in Peers : ServeClient(p) \/ Work(p) \/ PeerNext(p)

\* The process runs and the loop serves each event of a batch.  Nothing makes
\* the peers do anything.
Fairness ==
    /\ WF_vars(EpollWait) /\ WF_vars(XEvent) /\ WF_vars(SendEvents)
    /\ \A p \in Peers : WF_vars(ServeClient(p)) /\ WF_vars(Work(p))

Spec == Init /\ [][Next]_vars
FairSpec == Spec /\ Fairness

-----------------------------------------------------------------------------
(* Properties. *)

\* Every variable keeps its type: what is stored per connection in
\* ipc_clients, what the kernel holds, what the server is doing.
TypeOK ==
    /\ wm \in WmState
    /\ told \in [selmon : Mon \cup {None}, sel : [Mon -> Clients \cup {None}],
                 tag : [Mon -> Tags \cup {None}]]
    /\ server \in [at : {"loop", "dead"}]
                  \cup [at : {"read", "write"}, who : conn]
                  \cup [at : {"events"}, mon : Mon, selmon : Mon]
    /\ ready \in [Source -> SUBSET {"accept", "hup", "out", "in"}]
    /\ conn \in SUBSET Peers
    /\ subs \in [Peers -> SUBSET Topic]
    /\ buffer \in [Peers -> Seq(Message)]
    /\ armed \in [Peers -> BOOLEAN]
    /\ up \in [Peers -> Seq(Request)]
    /\ half \in [Peers -> BOOLEAN]
    /\ down \in [Peers -> Seq(Message)]
    /\ peer \in [Peers -> {"out", "open", "closed"}]
    /\ asked \in [Peers -> Seq(Request)]
    /\ answered \in [Peers -> Seq(Request)]
    /\ seen \in [Peers -> [Key -> Value]]

\* The server wakes up for a peer that can be written to exactly while there
\* is something to write: what is queued is never forgotten, and the loop
\* never spins on a peer with an empty buffer (ipc_write_client,
\* ipc_prepare_send_message).
ArmedPending == \A p \in Peers : armed[p] <=> buffer[p] # <<>>

Flow(p) == down[p] \o buffer[p]

\* The requests of s that are owed a reply, and those the replies in s are to.
Owed(s) == Only(s, {r \in Request : r.do # "mute"})
Replied(s) ==
    LET replies == Only(s, [of : Request]) IN [i \in 1..Len(replies) |-> replies[i].of]

\* Each request that can be parsed has one reply, in the order of the requests,
\* whatever events are put between the replies and wherever a message was cut
\* in two: the replies read, those on their way and the requests still to be
\* read are the requests sent.
AnsweredInOrder ==
    \A p \in Peers : peer[p] = "open" =>
        answered[p] \o Replied(Flow(p)) \o Owed(up[p]) = Owed(asked[p])

News(p, key) == Only(Flow(p), [on : {key}, old : Value, new : Value])

\* The subscription of p to a topic has no gap.
Follows(p, topic) ==
    /\ peer[p] = "open" /\ topic \in subs[p]
    /\ [do |-> "unsub", on |-> topic] \notin {asked[p][i] : i \in DOMAIN asked[p]}

\* A subscriber to the tags or to the selected monitor sees an unbroken chain:
\* each event starts from the state the one before ended in, and the last one
\* ends in the state the server keeps as told.  Commands of other peers, X
\* events and full sockets come between (ipc_send_events).
EventsChain ==
    \A p \in Peers, key \in Key : (key[1] \in {"tag", "mon"} /\ Follows(p, key[1])) =>
        LET news == News(p, key)
            states == (IF seen[p][key] = None THEN <<>> ELSE <<seen[p][key]>>)
                      \o [i \in 1..Len(news) |-> news[i].new]
            first == IF seen[p][key] = None THEN 1 ELSE 0
        IN /\ \A i \in 1..Len(news) : i > first => news[i].old = states[i - first]
           /\ states # <<>> =>
                states[Len(states)] = IF key[1] = "mon" THEN told.selmon ELSE told.tag[key[2]]

\* When nothing is on its way to a subscriber and the server is at rest, what
\* it heard last of a monitor's tags and selected client is so: a command run
\* over the socket tells it as an X event does (17758-17815, 10029).
SubscriberKnows ==
    \A p \in Peers, m \in Mon : (server = Idle /\ peer[p] = "open" /\ Flow(p) = <<>>) =>
        /\ (Follows(p, "tag") /\ seen[p][<<"tag", m>>] # None) => seen[p][<<"tag", m>>] = wm.tag[m]
        /\ (Follows(p, "sel") /\ seen[p][<<"sel", m>>] # None) => seen[p][<<"sel", m>>] = wm.sel[m]

\* The server is blocked in a read or a write: the peer, still there, has not
\* sent the rest of its request or does not read what it was sent.
WaitsFor(p) ==
    /\ peer[p] = "open"
    /\ \/ Reading(p) /\ ~Whole(p)
       \/ Writing(p) /\ Len(down[p]) = Cap

\* Whatever the peers do, the server comes back to its loop unless the end of
\* a peer kills it or it is blocked by a peer that may still unblock it: it is
\* never left waiting for one that has gone, nor for one that has sent or read
\* its part (ipc.c:198, 1485).
BlockedByPeersOnly ==
    []<>(server = Idle \/ server.at = "dead" \/ \E p \in Peers : WaitsFor(p))

\* The X server lets the loop go on now and then, and there is no more news.
Calm == []<>(ready[Display] = {}) /\ <>[][FALSE]_wm

\* The peers read what they are sent and finish the requests they began.
PeersKeepUp == \A p \in Peers : WF_vars(Receive(p)) /\ WF_vars(Finish(p))

\* With peers that keep up, and once the window manager calms down, each
\* request of a connection that stays open is answered, as long as the server
\* lives; one that cannot be parsed need not be.
Answered ==
    (Calm /\ PeersKeepUp) =>
        \A p \in Peers, n \in 1..MaxRequests :
            Len(Owed(asked[p])) >= n
            ~> (Len(answered[p]) >= n \/ Len(asked[p]) < n \/ server.at = "dead")

=============================================================================
