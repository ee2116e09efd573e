----------------------------- MODULE Lifecycle -----------------------------
(***************************************************************************)
(* How windows become clients and cease to be: manage and unmanage, the    *)
(* links between clients, terminals that are swallowed by the programs     *)
(* started in them, clients whose window is found gone, and a restart.     *)
(* Windows change on the X server's side; dwm learns of it from a queue.   *)
(* Clients are cells that are allocated, freed and used again.             *)
(***************************************************************************)
EXTENDS Sublists, FiniteSets, SequencesExt

CONSTANTS Wins, Ids, None,
          Terms,        \* windows that a rule makes terminals
          NoSwallow,    \* windows with set-noswallow, or of a fixed size
          Floating,     \* windows that float
          NewMaster,    \* windows that take the focus when they appear
          TransientFor, \* the window another one is a transient of, or None
          Proc,         \* the process of a window
          Desc,         \* pairs of processes, the second one a descendant
          BadWindows,   \* whether dwm may use a window that is gone already
          Hasty,        \* windows that may unmap themselves while manage runs
          Remaps        \* windows that may map themselves while swallowed

ASSUME WindowsAssumption ==
  /\ None \notin Wins \cup Ids /\ IsFiniteSet(Wins)
  /\ Terms \cup NoSwallow \cup Floating \cup NewMaster \cup Hasty \cup Remaps \subseteq Wins
  /\ TransientFor \in [Wins -> Wins \cup {None}]

VARIABLES xs,     \* each window on the server: "unmapped", "mapped" or "gone"
          queue,  \* MapRequest, UnmapNotify and DestroyNotify events to come
          wm,     \* dwm's clients
          hid,    \* windows that swallow() unmapped and nobody has mapped since
          lost    \* windows that dwm forgot: their client was freed, not unmanaged
vars == << xs, queue, wm, hid, lost >>

(* wm: cl, the cells, Free when not allocated (own is the window a client  *)
(* was made for, whose process and rules it keeps when win changes); the   *)
(* managed clients in order, oldest first, which is the order of their     *)
(* index; the clients on the stack; the selection.                         *)
Free == [win |-> None, own |-> None, swallowing |-> None, parent |-> None, ult |-> None,
         prevsel |-> None, dormant |-> FALSE]
Blank == [cl |-> [i \in Ids |-> Free], order |-> << >>, stack |-> {}, sel |-> None]

Managed(W) == ToSet(W.order)
OfWindow(W, w) == {c \in Managed(W) : W.cl[c].win = w}
wintoclient(W, w) == IF OfWindow(W, w) = {} THEN None ELSE CHOOSE c \in OfWindow(W, w) : TRUE
Swallower(W, w) ==
  {p \in Managed(W) : W.cl[p].swallowing # None /\ W.cl[W.cl[p].swallowing].win = w}
IsDesc(W, c, w) ==
  LET p == Proc[W.cl[c].own] IN p = Proc[w] \/ << p, Proc[w] >> \in Desc

Freed(W, c) == [W EXCEPT !.cl[c] = Free]
Detached(W, c) == [W EXCEPT !.order = Only(@, Ids \ {c}), !.stack = @ \ {c}]

(* getparentclient: the window it is transient for, else a client whose    *)
(* process is an ancestor; which of them depends on the stack.             *)
ParentsOf(W, w) ==
  LET t == wintoclient(W, TransientFor[w])
      up == {c \in Managed(W) : IsDesc(W, c, w)}
  IN  IF TransientFor[w] # None /\ t # None THEN {t} ELSE IF up = {} THEN {None} ELSE up

(* getultimateparentclient: the client of the same process that has none   *)
(* above it, the client itself if there is no such.                        *)
UltsOf(W, w, c) ==
  LET roots == {d \in Managed(W) : Proc[W.cl[d].own] = Proc[w] /\ W.cl[d].ult = d}
  IN  IF roots = {} THEN {c} ELSE roots

(* termforwin: which terminal is the first depends on the client list. *)
TermsFor(W, w) ==
  {t \in Managed(W) : W.cl[t].own \in Terms /\ W.cl[t].swallowing = None /\ IsDesc(W, t, w)}

(* removelinks: the earliest child takes the place of an ultimate parent. *)
removelinks(W, c) ==
  LET heirs == Only(W.order, {d \in Managed(W) : W.cl[d].ult = c})
  IN  [W EXCEPT !.cl = [d \in Ids |->
         IF d \notin Managed(W) THEN W.cl[d]
         ELSE [W.cl[d] EXCEPT !.prevsel = IF @ = c THEN None ELSE @,
                              !.parent = IF @ = c THEN W.cl[c].parent ELSE @,
                              !.ult = IF @ = c THEN Head(heirs) ELSE @]]]

(* detachstack's next selection is some client in view. *)
Gone(W, c) ==
  LET V == removelinks(Detached(W, c), c)
  IN  {[Freed(V, c) EXCEPT !.sel = IF @ = c THEN s ELSE @] :
         s \in IF W.sel # c \/ V.stack = {} THEN {None} ELSE V.stack}

(* arrange frees the clients whose window was found gone, one after the    *)
(* other.                                                                  *)
Dormant(W) == {c \in Managed(W) : W.cl[c].dormant}
Arrange(W) ==
  LET bad == Only(W.order, Dormant(W))
      upto[k \in 0 .. Len(bad)] ==
        IF k = 0 THEN {W} ELSE UNION {Gone(V, bad[k]) : V \in upto[k - 1]}
  IN  upto[Len(bad)]

(* focus(c), with restack, which drops a selection that is not managed or  *)
(* whose window was found gone.                                            *)
Focus(W, c) ==
  [W EXCEPT !.cl[c].prevsel = IF W.sel = c THEN @ ELSE W.sel,
            !.stack = @ \cup {c},
            !.sel = IF c \in Managed(W) /\ ~W.cl[c].dormant THEN c ELSE None]
FocusAny(W) ==
  IF Managed(W) = {} THEN {[W EXCEPT !.sel = None]} ELSE {Focus(W, c) : c \in Managed(W)}

(* swallow(p, c), c just attached: p's window goes, c's takes its place in *)
(* p, and c keeps p's.                                                     *)
Swallows(w) == w \notin NoSwallow \cup Terms
swallowStacked(W, p, c) ==   \* a mutant: c is not taken off the stack
  LET V == [Detached(W, c) EXCEPT !.stack = @ \cup {c}]
  IN  [V EXCEPT !.cl[p] = [W.cl[p] EXCEPT !.swallowing = c, !.win = W.cl[c].win],
                !.cl[c].win = W.cl[p].win]
swallowInPlace(W, p, c) ==   \* a mutant: the two windows are not exchanged
  [Detached(W, c) EXCEPT !.cl[p].swallowing = c, !.sel = IF @ = c THEN p ELSE @]
swallow(W, p, c) ==
  LET V == Detached(W, c)
  IN  [V EXCEPT !.cl[p] = [W.cl[p] EXCEPT !.swallowing = c, !.win = W.cl[c].win],
                !.cl[c].win = W.cl[p].win,
                !.sel = IF @ = c THEN p ELSE @]

(* What a handler leaves: dwm's state, and the windows it mapped (up) and  *)
(* unmapped (down, in their order).                                        *)
Outcome(W) == [wm |-> W, up |-> {}, down |-> << >>]

(* unswallow frees the cell of the program; when arrange frees c itself    *)
(* then, the code goes on with a freed client, and maps its window or not. *)
unswallowNoMap(W, c) ==   \* a mutant: the terminal's window is not mapped
  LET s == W.cl[c].swallowing
      V == [Freed(W, s) EXCEPT !.cl[c] = [W.cl[c] EXCEPT !.win = W.cl[s].win, !.swallowing = None]]
  IN  UNION {{Outcome(Z) : Z \in UNION {Arrange(Y) : Y \in FocusAny(X)}} : X \in Arrange(V)}
unswallow(W, c) ==
  LET s == W.cl[c].swallowing
      V == [Freed(W, s) EXCEPT !.cl[c] = [W.cl[c] EXCEPT !.win = W.cl[s].win, !.swallowing = None]]
  IN  UNION {
        {[Outcome(Z) EXCEPT !.up = u] :
           Z \in UNION {Arrange(Y) : Y \in FocusAny(X)},
           u \in IF c \in Managed(X) THEN {{W.cl[s].win}} ELSE {{}, {W.cl[s].win}}}
        : X \in Arrange(V)}

(* unmanage of a client, or of the cell that a terminal keeps.  Which      *)
(* client is focused next is Focus.tla's.                                  *)
Unkept(W, p) == [Freed(W, W.cl[p].swallowing) EXCEPT !.cl[p].swallowing = None]
unmanage(W, c) ==
  LET by == Swallower(W, W.cl[c].win)
      left == UNION {Arrange(V) : V \in IF by # {} THEN {Unkept(W, CHOOSE p \in by : TRUE)} ELSE Gone(W, c)}
  IN  IF W.cl[c].swallowing # None
        THEN unswallow([W EXCEPT !.sel = IF @ = W.cl[c].swallowing THEN c ELSE @], c)
        ELSE {Outcome(Y) : Y \in IF W.sel = c THEN UNION {FocusAny(X) : X \in left} ELSE left}

(* The end of a handler.  `late' holds what a window did meanwhile: its    *)
(* event precedes those of what dwm does afterwards.                       *)
Events(type, s) == [k \in DOMAIN s |-> [t |-> type, w |-> s[k]]]
Finish(o, rest, late) ==
  LET up == {w \in o.up : xs[w] # "gone"}
      down == {w \in ToSet(o.down) : xs[w] # "gone"}
  IN  /\ wm' = o.wm
      /\ xs' = [w \in Wins |-> IF w \in down \/ w \in ToSet(late) THEN "unmapped"
                               ELSE IF w \in up THEN "mapped" ELSE xs[w]]
      /\ queue' = rest \o Events("unmap", late)
                       \o Events("unmap", Only(o.down, {w \in Wins : xs[w] = "mapped"}))
      /\ hid' = (hid \ up) \cup down
      /\ lost' = {w \in lost \cup up \cup {v \in hid : Swallower(wm, v) # {}} :
                   wintoclient(o.wm, w) = None /\ Swallower(o.wm, w) = {}}

(* manage(w): the new client, the terminals it may swallow, and what       *)
(* becomes of the two.  A window that takes the focus does so as the       *)
(* client the local variable holds by then: the terminal, if it was        *)
(* selected.                                                               *)
Attached(W, w, i, p, u) ==
  [W EXCEPT !.cl[i] = [win |-> w, own |-> w, swallowing |-> None, parent |-> p, ult |-> u,
                       prevsel |-> None, dormant |-> FALSE],
            !.order = Append(@, i), !.stack = @ \cup {i}]
TermFor(W, w) ==
  IF w \in Terms \/ TransientFor[w] # None \/ TermsFor(W, w) = {} THEN {None} ELSE TermsFor(W, w)
Swallowed(W, w, t, i) ==
  IF t = None \/ ~Swallows(w) \/ w \in Floating THEN {W} ELSE Arrange(swallow(W, t, i))
Begun(W, w, t, i) ==
  IF t # None /\ Swallows(w) /\ t = W.sel THEN Focus(W, t)
  ELSE IF w \in NewMaster THEN Focus(W, i) ELSE W
manage(w, i, late) ==
  \E p \in ParentsOf(wm, w), u \in UltsOf(wm, w, i), t \in TermFor(wm, w) :
    \E Y \in Arrange(Attached(wm, w, i, p, u)) : \E X \in Swallowed(Y, w, t, i) :
      LET down == IF i \in Managed(X) \/ t \notin Managed(X) THEN << >> ELSE << wm.cl[t].win >>
      IN  Finish([wm |-> Begun(X, w, t, i), up |-> {w}, down |-> down], Tail(queue), late)

Init ==
  /\ xs = [w \in Wins |-> "unmapped"] /\ queue = << >> /\ wm = Blank /\ hid = {} /\ lost = {}

Event(type) == queue # << >> /\ Head(queue).t = type
Skip == queue' = Tail(queue) /\ UNCHANGED << xs, wm, hid, lost >>

maprequest ==
  LET w == Head(queue).w
  IN  /\ Event("map")
      /\ IF xs[w] = "gone" \/ wintoclient(wm, w) # None THEN Skip
         ELSE /\ TermsFor(wm, w) \cap Dormant(wm) = {}   \* a bound: manage's own arrange
                                                         \* does not free the terminal
              /\ \E i \in {j \in Ids : wm.cl[j] = Free} :
                   \E late \in IF w \in Hasty THEN {<< >>, << w >>} ELSE {<< >>} : manage(w, i, late)
unmapnotify ==
  LET w == Head(queue).w
  IN  /\ Event("unmap")
      /\ IF wintoclient(wm, w) = None THEN Skip
         ELSE \E o \in unmanage(wm, wintoclient(wm, w)) : Finish(o, Tail(queue), << >>)
destroynotify ==
  LET w == Head(queue).w
      c == wintoclient(wm, w)
  IN  /\ Event("destroy")
      /\ IF c # None THEN \E o \in unmanage(wm, c) : Finish(o, Tail(queue), << >>)
         ELSE IF Swallower(wm, w) = {} THEN Skip
         ELSE \E p \in Swallower(wm, w) : \E o \in unmanage(wm, wm.cl[p].swallowing) :
                Finish(o, Tail(queue), << >>)

(* xerror: some request used the window of a client that is gone. *)
xerror(c) ==
  /\ BadWindows /\ xs[wm.cl[c].win] = "gone" /\ ~wm.cl[c].dormant
  /\ wm' = [wm EXCEPT !.cl[c].dormant = TRUE]
  /\ UNCHANGED << xs, queue, hid, lost >>

(* Any handler that rearranges a monitor, and any that focuses a client. *)
arrange ==
  /\ Dormant(wm) # {}
  /\ \E W \in Arrange(wm) : Finish(Outcome(W), queue, << >>)
focus(c) ==
  /\ c # wm.sel
  /\ wm' = Focus(wm, c)
  /\ UNCHANGED << xs, queue, hid, lost >>

(* cleanup, and the scan of the next process in the order of the windows   *)
(* on the screen or of the stored index.                                   *)
Restart ==
  LET back == {w \in hid : Swallower(wm, w) # {} /\ xs[w] # "gone"}
      shown == back \cup {w \in Wins : xs[w] = "mapped"}
  IN  /\ wm # Blank
      /\ xs' = [w \in Wins |-> IF w \in back THEN "mapped" ELSE xs[w]]
      /\ queue' \in {Events("map", s) : s \in SetToSeqs(shown)}
      /\ wm' = Blank /\ hid' = hid \ back /\ UNCHANGED lost

(* The windows' side. *)
Queued(w) == \E k \in DOMAIN queue : queue[k].w = w
MapWindow(w) ==
  /\ xs[w] = "unmapped" /\ ~Queued(w) /\ (w \in hid => w \in Remaps)
  /\ queue' = Append(queue, [t |-> "map", w |-> w])
  /\ UNCHANGED << xs, wm, hid, lost >>
UnmapWindow(w) ==
  /\ xs[w] = "mapped"
  /\ [t |-> "map", w |-> w] \notin ToSet(queue)   \* a bound: not while dwm scans
  /\ xs' = [xs EXCEPT ![w] = "unmapped"]
  /\ queue' = Append(queue, [t |-> "unmap", w |-> w])
  /\ UNCHANGED << wm, hid, lost >>
DestroyWindow(w) ==
  /\ xs[w] # "gone"
  /\ xs' = [xs EXCEPT ![w] = "gone"]
  /\ queue' = queue \o (IF xs[w] = "mapped" THEN << [t |-> "unmap", w |-> w] >> ELSE << >>)
                    \o << [t |-> "destroy", w |-> w] >>
  /\ hid' = hid \ {w} /\ UNCHANGED << wm, lost >>

Next ==
  \/ maprequest \/ unmapnotify \/ destroynotify \/ arrange \/ Restart
  \/ \E c \in Managed(wm) : xerror(c) \/ focus(c)
  \/ \E w \in Wins : MapWindow(w) \/ UnmapWindow(w) \/ DestroyWindow(w)
Spec == Init /\ [][Next]_vars
-----------------------------------------------------------------------------
Cell == [win : Wins, own : Wins, swallowing : Ids \cup {None}, parent : Ids \cup {None}, ult : Ids,
         prevsel : Ids \cup {None}, dormant : BOOLEAN]

(* Every variable has its type. *)
TypeOK ==
  /\ xs \in [Wins -> {"unmapped", "mapped", "gone"}]
  /\ queue \in Seq([t : {"map", "unmap", "destroy"}, w : Wins])
  /\ wm.cl \in [Ids -> Cell \cup {Free}]
  /\ wm.order \in Seq(Ids) /\ wm.stack \subseteq Ids /\ wm.sel \in Ids \cup {None}
  /\ hid \subseteq Wins /\ lost \subseteq Wins

(* Client list and stack hold the same clients, all of them allocated, and *)
(* every parent, ultimate parent, previous selection and selection is one  *)
(* of them: whatever is unmanaged, swallowed or dropped, no link is left   *)
(* to a cell that was freed.                                               *)
LinksManaged ==
  LET M == Managed(wm)
  IN  /\ wm.stack = M /\ \A c \in M : wm.cl[c] # Free
      /\ wm.sel \in M \cup {None}
      /\ \A c \in M : /\ wm.cl[c].parent \in M \cup {None} /\ wm.cl[c].prevsel \in M \cup {None}
                      /\ wm.cl[c].ult \in M

(* A client's parent is older than the client, so that following parents   *)
(* ends, and an ultimate parent is its own: dwm.c:16437.                   *)
FamiliesRooted ==
  \A c \in Managed(wm) :
    LET q == wm.cl[c]
        At(d) == CHOOSE k \in DOMAIN wm.order : wm.order[k] = d
    IN  /\ wm.cl[q.ult].ult = q.ult
        /\ q.parent # None => At(q.parent) < At(c)

(* No window is a client's twice, as its window or as the one it stands    *)
(* in for.                                                                 *)
OneClient ==
  LET held(c) == {wm.cl[c].win} \cup
                 (IF wm.cl[c].swallowing = None THEN {} ELSE {wm.cl[wm.cl[c].swallowing].win})
  IN  \A c, d \in Managed(wm) : c # d => held(c) \cap held(d) = {}

(* Memory and windows stay in step: the types, the links (LinksManaged),   *)
(* the families (FamiliesRooted) and one client for a window (OneClient).  *)
Consistent == TypeOK /\ LinksManaged /\ FamiliesRooted /\ OneClient

(* A window that dwm unmapped for its program is one some terminal's       *)
(* client still knows of, until the program goes and it is mapped again.   *)
Returns == \A w \in hid \ lost : Swallower(wm, w) # {}

(* When the queue is worked off, the windows on the screen are the ones    *)
(* that have clients.                                                      *)
ScreenManaged ==
  queue = << >> =>
    {w \in Wins : xs[w] = "mapped"} \ lost = {wm.cl[c].win : c \in Managed(wm)}
=============================================================================
