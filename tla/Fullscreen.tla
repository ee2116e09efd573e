----------------------------- MODULE Fullscreen -----------------------------
(***************************************************************************)
(* Fullscreen and fake fullscreen: setfullscreen and everything that calls *)
(* it.  A client is made fullscreen by the user, by its own message, by    *)
(* its _NET_WM_STATE property and by focus() when it had lost the state to *)
(* another client; it may be sent to another monitor, leave the view,      *)
(* reconfigure itself or live through a restart of dwm meanwhile.          *)
(* Geometry is one-dimensional, with monitors side by side.                *)
(***************************************************************************)
EXTENDS Integers, FiniteSets

CONSTANTS Clients, Mons, None,
          MX,          \* left edge of each monitor
          MW,          \* the width of a monitor
          Border,      \* borderpx
          OwnBorder,   \* the border a window had before it was managed
          Never,       \* clients with set-never-fullscreen
          Tilers,      \* bound: clients nobody makes floating
          Floats,      \* geometries of floating clients, relative to a monitor
          Ops,         \* what a message asks: "add", "remove" or "toggle"
          Requests,    \* what a ConfigureRequest asks, its value_mask the domain
          Writers,     \* clients that change _NET_WM_STATE or their type themselves
          Restarts     \* whether dwm may be restarted

ASSUME ClientsAssumption ==
  None \notin Clients /\ Never \cup Writers \cup Tilers \subseteq Clients
ASSUME WidthAssumption == MW \in Nat /\ (\A m \in Mons : MX[m] \in Int) /\ Border \in Nat /\ OwnBorder \in Nat
ASSUME FloatsAssumption == Floats \subseteq [x : Int, w : Int]
ASSUME RequestsAssumption ==
  \A r \in Requests : DOMAIN r \subseteq {"bw", "x", "w"} /\ \A k \in DOMAIN r : r[k] \in Int

VARIABLES wm,      \* the clients (cl), each monitor's selection (sel), selmon
          prop,    \* whether the window's _NET_WM_STATE states fullscreen
          notify,  \* whether a PropertyNotify of it is on its way
          msg      \* the fullscreen client message on its way, "none" when none
vars == << wm, prop, notify, msg >>

Larger(a, b) == IF a > b THEN a ELSE b
Smaller(a, b) == IF a < b THEN a ELSE b

Screen(m) == [x |-> MX[m], w |-> MW]
Tile(m, bw) == [x |-> MX[m], w |-> MW - 2 * bw]
NoGeo == [x |-> 0, w |-> 0]

(* isfullscreen && fakefullscreen != 1. *)
RealFull(p) == p.full /\ p.fake # 1
Vis(W, c) == c # None /\ W.cl[c].vis
Shown(W, m) == {c \in Clients : W.cl[c].mon = m /\ W.cl[c].vis}

(* arrange: a tiled client in view takes its place. *)
Arrange(W, m) ==
  [W EXCEPT !.cl = [c \in Clients |->
     IF c \in Shown(W, m) /\ ~W.cl[c].floating
       THEN [W.cl[c] EXCEPT !.geo = Tile(m, W.cl[c].bw)] ELSE W.cl[c]]]

(* The branch of setfullscreen that stores; the old state's second bit is  *)
(* the lock, the first what isfloating was.                                *)
StoredUnlocked(q) ==   \* a mutant: the lock bit is not set
  [q EXCEPT !.saved = q.floating, !.oldbw = q.bw, !.bw = 0, !.floating = TRUE, !.fake = 0,
            !.old = q.geo, !.geo = Screen(q.mon)]
Stored(q) ==
  [q EXCEPT !.lock = TRUE, !.saved = q.floating, !.oldbw = q.bw, !.bw = 0, !.floating = TRUE,
            !.fake = 0, !.old = q.geo, !.geo = Screen(q.mon)]

(* The branch that restores. *)
RestoredBorderless(q, refake) ==   \* a mutant: the border is not given back
  [q EXCEPT !.lock = FALSE, !.floating = q.saved, !.fake = IF refake THEN 1 ELSE @]
Restored(q, refake) ==
  LET x == Larger(MX[q.mon], q.old.x)
      w == Smaller(MX[q.mon] + MW - x - 2 * q.oldbw, q.old.w)
  IN  [q EXCEPT !.lock = FALSE, !.bw = q.oldbw, !.floating = q.saved, !.saved = FALSE,
                !.fake = IF refake \/ @ = 3 THEN 1 ELSE @, !.old = NoGeo,
                !.geo = IF q.saved THEN [x |-> x, w |-> w] ELSE @]

(* When nothing is stored or restored, a client that is not in real        *)
(* fullscreen keeps its geometry: where two borders are taken off its      *)
(* width (dwm.c:19201), solitary() holds and resizeclient adds them again. *)
SetFullscreen(W, c, f) ==
  LET p       == W.cl[c]
      save    == f /\ (p.fake = 2 \/ (p.fake = 0 /\ ~p.full))
      restore == ~f /\ (p.fake >= 2 \/ (p.fake = 0 /\ p.full))
      refake  == p.fake = 2 /\ ~f /\ p.full
      q       == [p EXCEPT !.full = f \/ refake]
      Put(r)  == [W EXCEPT !.cl[c] = r]
  IN  IF f /\ c \in Never THEN W
      ELSE IF save /\ ~p.lock
        THEN [Put(Stored(q)) EXCEPT !.sel[p.mon] = IF p.vis THEN c ELSE @]
      ELSE IF restore /\ p.lock
        THEN LET V == Put(Restored(q, refake))
             IN  IF p.vis /\ ~V.cl[c].floating THEN Arrange(V, p.mon) ELSE V
      ELSE IF p.vis /\ RealFull(q) THEN Put([q EXCEPT !.geo = Screen(p.mon)])
      ELSE Put(q)

(* focus(c): the selection of that monitor loses fullscreen, a client that *)
(* lost it so before gets it back.                                         *)
Focus(W, c) ==
  LET s == W.sel[W.selmon]
      m == W.cl[c].mon
      loses == s # c /\ Vis(W, s) /\ W.selmon = m /\ RealFull(W.cl[s])
      W1 == IF loses THEN SetFullscreen([W EXCEPT !.cl[s].lost = TRUE], s, FALSE) ELSE W
      W2 == [W1 EXCEPT !.selmon = m, !.sel[m] = c, !.cl[c].lost = FALSE]
  IN  IF W1.cl[c].lost /\ W1.cl[c].fake # 1 THEN SetFullscreen(W2, c, TRUE) ELSE W2

(* focus(NULL): some client in view, or none; which one is Focus.tla's.    *)
FocusAny(W) ==
  LET vis == Shown(W, W.selmon)
  IN  IF vis = {} THEN {[W EXCEPT !.sel[W.selmon] = None]} ELSE {Focus(W, c) : c \in vis}

Sel == wm.sel[wm.selmon]

(* publishwindowstate, from every change of isfullscreen. *)
Publish ==
  /\ prop' = [c \in Clients |->
       IF wm'.cl[c].full # wm.cl[c].full THEN wm'.cl[c].full ELSE prop[c]]
  /\ notify' = [c \in Clients |-> notify[c] \/ wm'.cl[c].full # wm.cl[c].full]
Handle(W) == wm' = W /\ Publish /\ UNCHANGED msg

(* manage, for windows that are not fullscreen yet.  fakefullscreen may be *)
(* set by a rule.                                                          *)
Init ==
  /\ wm \in [cl : [Clients -> {[full |-> FALSE, fake |-> k, lock |-> FALSE, saved |-> FALSE,
                                floating |-> g # NoGeo, bw |-> Border, oldbw |-> OwnBorder,
                                geo |-> IF g = NoGeo THEN Tile(m, Border)
                                        ELSE [g EXCEPT !.x = @ + MX[m]],
                                old |-> NoGeo, mon |-> m, vis |-> TRUE,
                                lost |-> FALSE] : k \in {0, 1}, m \in Mons, g \in Floats}],
             sel : [Mons -> {None}], selmon : Mons]
  /\ \A c \in Tilers : ~wm.cl[c].floating
  /\ prop = [c \in Clients |-> FALSE] /\ notify = prop
  /\ msg = [c \in Clients |-> "none"]

(* EnterNotify, focusstack, an activation: a client in view is focused. *)
FocusClient(c) == c # Sel /\ wm.cl[c].vis /\ Handle(Focus(wm, c))

(* A view is toggled, and the client on it comes or goes. *)
View(c) ==
  LET m == wm.cl[c].mon
      V == Arrange([wm EXCEPT !.cl[c].vis = ~@, !.selmon = m], m)
  IN  \E W \in FocusAny(V) : Handle(W)

togglefullscreen ==
  LET c == Sel
  IN  /\ c # None
      /\ IF wm.cl[c].fake = 1
           THEN Handle(SetFullscreen([wm EXCEPT !.cl[c].fake = 2], c, TRUE))
           ELSE Handle(SetFullscreen(wm, c, ~wm.cl[c].full))

togglefakefullscreen ==
  LET c == Sel
      p == wm.cl[c]
  IN  /\ c # None /\ c \notin Never
      /\ IF p.full
           THEN Handle(SetFullscreen([wm EXCEPT !.cl[c].fake = 2], c, p.fake = 1))
           ELSE Handle([wm EXCEPT !.cl[c].fake = IF @ = 1 THEN 0 ELSE 1])

(* The place where the client floated last, if it did, is any of Floats;   *)
(* resize without interaction keeps it inside the monitor.                 *)
Inside(m, bw, g) ==
  LET w == Smaller(Larger(g.w, 1), MW - 2 * bw)
  IN  [x |-> Larger(MX[m], Smaller(g.x, MX[m] + MW - w - 2 * bw)), w |-> w]

togglefloating ==
  LET c == Sel
      p == wm.cl[c]
  IN  /\ c \notin Tilers \cup {None}
      /\ ~RealFull(p)
      /\ IF p.floating THEN Handle(Arrange([wm EXCEPT !.cl[c].floating = FALSE], p.mon))
         ELSE \E g \in {p.geo} \cup {[h EXCEPT !.x = @ + MX[p.mon]] : h \in Floats \ {NoGeo}} :
                Handle([wm EXCEPT !.cl[c].floating = TRUE, !.cl[c].geo = Inside(p.mon, p.bw, g)])

(* A client asks for another border or geometry. *)
configurerequest(c, r) ==
  LET p  == wm.cl[c]
      bw == IF "bw" \in DOMAIN r THEN r["bw"] ELSE p.bw
      w  == IF "w" \in DOMAIN r THEN r["w"] ELSE p.geo.w
      x  == IF "x" \in DOMAIN r THEN r["x"] ELSE p.geo.x
      cx == IF x + w > MX[p.mon] + MW THEN MX[p.mon] + (MW \div 2) - ((w + 2 * bw) \div 2) ELSE x
  IN  Handle([wm EXCEPT !.cl[c].bw = bw,
                        !.cl[c].geo = IF p.floating /\ ~RealFull(p) THEN [x |-> cx, w |-> w] ELSE @])

(* sendmon of the selected client, from tagmon: a floating client keeps    *)
(* its place relative to the monitor, a fullscreen one fills the new one.  *)
sendmon(m) ==
  LET c == Sel
      p == wm.cl[c]
      x == p.geo.x - MX[p.mon] + MX[m]
      in == IF p.geo.w + 2 * p.bw >= MW THEN x
            ELSE Larger(MX[m], Smaller(x, MX[m] + MW - p.geo.w - 2 * p.bw))
      g == IF RealFull(p) THEN Screen(m)
           ELSE IF p.floating THEN [p.geo EXCEPT !.x = in] ELSE p.geo
      rest == Shown(wm, p.mon) \ {c}
  IN  /\ c # None /\ p.mon # m
      /\ p.geo.w > 0   \* a bound: a client of negative width is not sent on
      /\ \E s \in IF rest = {} THEN {None} ELSE rest :
           LET V == [wm EXCEPT !.cl[c].mon = m, !.selmon = m, !.sel[m] = c, !.sel[p.mon] = s,
                               !.cl[c].geo = g]
           IN  Handle(Focus(Arrange(V, m), c))

(* updatewindowtype: the window turns into a dialog or a splash screen. *)
updatewindowtype(c, t) ==
  Handle([wm EXCEPT !.cl[c].floating = TRUE,
                    !.cl[c].bw = IF t = "splash" THEN wm.cl[c].oldbw ELSE @])

(* The client side: a message to the root window, or the property itself. *)
AskState(c, op) ==
  /\ msg[c] = "none"
  /\ msg' = [msg EXCEPT ![c] = op]
  /\ UNCHANGED << wm, prop, notify >>
WriteState(c) ==
  /\ prop' = [prop EXCEPT ![c] = ~@]
  /\ notify' = [notify EXCEPT ![c] = TRUE]
  /\ UNCHANGED << wm, msg >>

clientmessage(c) ==
  LET p == wm.cl[c]
      V == [wm EXCEPT !.cl[c].fake = IF p.fake = 2 /\ p.full THEN 3 ELSE @]
  IN  /\ msg[c] # "none"
      /\ wm' = SetFullscreen(V, c, msg[c] = "add" \/ (msg[c] = "toggle" /\ ~p.full))
      /\ Publish
      /\ msg' = [msg EXCEPT ![c] = "none"]

(* propertynotify and updatewindowstate.  A change is published again,     *)
(* which sends one more PropertyNotify.                                    *)
propertynotifyOnce(c) ==   \* a mutant: only a client that goes fullscreen is heeded
  /\ notify[c]
  /\ wm' = IF prop[c] /\ ~wm.cl[c].full THEN SetFullscreen(wm, c, TRUE) ELSE wm
  /\ notify' = [notify EXCEPT ![c] = FALSE]
  /\ UNCHANGED << prop, msg >>
updatewindowstateBack(c) ==   \* a mutant: the state is turned round, not taken over
  SetFullscreen(wm, c, ~wm.cl[c].full)
updatewindowstate(c) == IF wm.cl[c].full # prop[c] THEN SetFullscreen(wm, c, prop[c]) ELSE wm
propertynotify(c) ==
  LET V == updatewindowstate(c)
  IN  /\ notify[c]
      /\ \E W \in IF V # wm /\ V.sel[V.selmon] = c /\ ~Vis(V, c) THEN FocusAny(V) ELSE {V} : wm' = W
      /\ prop' = [d \in Clients |-> IF wm'.cl[d].full # wm.cl[d].full THEN wm'.cl[d].full ELSE prop[d]]
      /\ notify' = [d \in Clients |-> wm'.cl[d].full # wm.cl[d].full \/ (d # c /\ notify[d])]
      /\ UNCHANGED msg

(* cleanup takes real fullscreen back and stores the client; manage, in    *)
(* the next process, reads the property first and the stored values then.  *)
Cleanup(W, c) ==
  IF RealFull(W.cl[c]) THEN SetFullscreen([W EXCEPT !.cl[c].fake = 2], c, FALSE).cl[c] ELSE W.cl[c]
Adopted(c) ==
  LET d == Cleanup(wm, c)
      full == prop[c] /\ c \notin Never
  IN  [d EXCEPT !.full = full, !.fake = IF @ \in {0, 1} THEN @ ELSE 0,
                !.lock = FALSE, !.saved = FALSE, !.oldbw = d.bw, !.lost = FALSE, !.old = NoGeo,
                !.geo = IF d.floating THEN @ ELSE Tile(d.mon, d.bw)]
Quiet == \A c \in Clients : ~notify[c]
Restart ==
  /\ Restarts /\ Quiet
  /\ \E W \in FocusAny([wm EXCEPT !.cl = [c \in Clients |-> Adopted(c)]]) : wm' = W
  /\ prop' = [c \in Clients |-> wm'.cl[c].full]
  /\ notify' = [c \in Clients |-> TRUE]
  /\ msg' = [c \in Clients |-> "none"]

Next ==
  \/ \E c \in Clients : FocusClient(c) \/ View(c) \/ clientmessage(c) \/ propertynotify(c)
  \/ \E c \in Writers : WriteState(c)
  \/ \E c \in Writers, op \in Ops : AskState(c, op)
  \/ \E c \in Writers, t \in {"dialog", "splash"} : updatewindowtype(c, t)
  \/ \E c \in Writers, r \in Requests : configurerequest(c, r)
  \/ \E m \in Mons : sendmon(m)
  \/ togglefullscreen \/ togglefakefullscreen \/ togglefloating \/ Restart
Spec == Init /\ [][Next]_vars /\ \A c \in Clients : WF_vars(propertynotify(c))
-----------------------------------------------------------------------------
Geo == [x : Int, w : Int]
Client == [full : BOOLEAN, fake : 0..3, lock : BOOLEAN, saved : BOOLEAN, floating : BOOLEAN,
           bw : Int, oldbw : Int, geo : Geo, old : Geo, mon : Mons,
           vis : BOOLEAN, lost : BOOLEAN]

(* Every variable has its type; a selection is a client of its monitor. *)
TypeOK ==
  /\ wm \in [cl : [Clients -> Client], sel : [Mons -> Clients \cup {None}], selmon : Mons]
  /\ prop \in [Clients -> BOOLEAN] /\ notify \in [Clients -> BOOLEAN]
  /\ msg \in [Clients -> Ops \cup {"none"}]

(* The lock of oldstate (dwm.c:19104) is set exactly while the client is   *)
(* in real fullscreen, and such a client floats without a border of its    *)
(* layout: however the user's toggles, the client's messages and its       *)
(* property interleave, storing and restoring alternate.                   *)
LockMatches ==
  \A c \in Clients : LET p == wm.cl[c] IN (p.lock <=> RealFull(p)) /\ (p.lock => p.floating)

(* What the client goes back to when it leaves real fullscreen. *)
KeptFloating(p) == IF p.lock THEN p.saved ELSE p.floating
KeptBorder(p) == IF p.lock THEN p.oldbw ELSE p.bw

(* No step into real fullscreen, in it or out of it loses whether the      *)
(* client floats or the border it had: neither the toggles nor focus, a    *)
(* message, a configure request, a window type or a restart of dwm.        *)
SettingsKept ==
  [][\A c \in Clients :
       LET p == wm.cl[c]
           q == wm'.cl[c]
       IN  RealFull(p) \/ RealFull(q) =>
             KeptFloating(q) = KeptFloating(p) /\ KeptBorder(q) = KeptBorder(p)]_vars

(* The geometry a client left is still the stored one after any number of  *)
(* steps in real fullscreen, moves to other monitors included.             *)
OldKept ==
  [][\A c \in Clients : wm.cl[c].lock /\ wm'.cl[c].lock => wm'.cl[c].old = wm.cl[c].old]_vars

(* A client in view that is in real fullscreen covers its monitor. *)
FullCovers ==
  \A c \in Clients : LET p == wm.cl[c] IN RealFull(p) => p.geo = Screen(p.mon)

(* The state keeps its type, the lock tells real fullscreen (LockMatches)  *)
(* and a client in it has the whole monitor (FullCovers).                  *)
Consistent == TypeOK /\ LockMatches /\ FullCovers

(* What a client had when it went fullscreen is not lost while it is: its  *)
(* floating state and border (SettingsKept), its geometry (OldKept).       *)
NothingLost == SettingsKept /\ OldKept

(* When no PropertyNotify is on its way, window and window manager agree   *)
(* on whether the window is fullscreen, unless a rule forbids it.          *)
StatesAgree ==
  \A c \in Clients \ Never : ~notify[c] => (prop[c] <=> wm.cl[c].full)

(* Once only notifications are left, they end: no publishing they cause    *)
(* starts another exchange, and window and window manager agree from then  *)
(* on.  A client or a user who acts for ever may keep them from ending.    *)
Settled == Quiet /\ StatesAgree
Settles == <>[][\E c \in Clients : propertynotify(c)]_vars => <>[]Settled
=============================================================================
