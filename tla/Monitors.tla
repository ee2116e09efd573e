------------------------------ MODULE Monitors ------------------------------
(***************************************************************************)
(* Physical monitors that come and go and the virtual monitors they are    *)
(* split into (src/dwm.c: updategeom, updatevirtualmonitors,               *)
(* updateclientmonitors, togglesplit, configurenotify), with the monitor   *)
(* every client is on and the one it wants to be on.                       *)
(*                                                                         *)
(*   screens     what XineramaQueryScreens answers; pending is set when    *)
(*               the ConfigureNotify of the last change is still to come   *)
(*   pmons       the physical monitors: geometry, mon1 and mon2            *)
(*   mons        the list of monitors, each named by its num               *)
(*   enablesplit the monitors with enablesplit set; geom their geometry    *)
(*   selmon      the selected monitor                                      *)
(*   mon         the monitor a client is on, None: the window is unmanaged *)
(*   monindex    the monitor it wants, which may be unplugged              *)
(*   parent      the client a transient window belongs to                  *)
(*                                                                         *)
(* A monitor of num n + 1000 is the second half of the n-th physical one.  *)
(* Nothing but the list and the wish decides where a client goes, so tags, *)
(* stacking and focus are left to Handlers.                                *)
(***************************************************************************)
EXTENDS Sublists, FiniteSets, SequencesExt

CONSTANTS
    Clients,     \* windows
    Setups,      \* the sequences of screens there may be
    SplitOf,     \* "set-split-type" of the layout file, by num: 0, 1 or 2
    StartSplit,  \* the nums with "set-split-enabled"
    Wishes,      \* the "set-monitor" values of the rules
    Most,        \* how many screens there may be at once
    AtOnce,      \* bound: screens lost between two ConfigureNotify handlers
    None

ASSUME NoneAssumption == None \notin Clients /\ None \notin Int

VARIABLES screens, pending, pmons, mons, enablesplit, geom, selmon, mon, monindex, parent
vars == <<screens, pending, pmons, mons, enablesplit, geom, selmon, mon, monindex, parent>>
heads == <<pmons, mons, enablesplit, geom, selmon>>
wins == <<mon, monindex, parent>>

Rect == [x : Int, y : Int, w : Nat, h : Nat]
NoRect == [x |-> 0, y |-> 0, w |-> 0, h |-> 0]
Second == 1000
Indices == 0 .. Most - 1
Nums == Indices \cup {Second + i : i \in Indices}
Managed == {c \in Clients : mon[c] # None}

\* The record the operators work on.
State == [pmons |-> pmons, mons |-> mons, enablesplit |-> enablesplit, geom |-> geom, selmon |-> selmon,
          mon |-> mon, monindex |-> monindex]

-----------------------------------------------------------------------------
(* Monitors made and freed.                                                *)

\* isuniquegeom: a screen that mirrors an earlier one is no monitor.
Unique(q) ==
    LET upto[i \in 0 .. Len(q)] ==
            IF i = 0 THEN <<>>
            ELSE IF Contains(upto[i - 1], q[i]) THEN upto[i - 1] ELSE Append(upto[i - 1], q[i])
    IN  upto[Len(q)]

\* There is always a screen, and beyond 999 of them nothing is split.
ASSUME ScreensAssumption ==
    /\ Most \in 1 .. Second
    /\ \A q \in Setups : q \in Seq(Rect) /\ Len(q) \in 1 .. Most
    /\ SplitOf \in [Indices -> 0 .. 2]
    /\ Wishes \subseteq Nat

\* createmon, at the end of the list, with the layout file's settings.
createmon(s, n) ==
    [s EXCEPT !.mons = Append(@, n), !.enablesplit = @ \cup ({n} \cap StartSplit)]

\* Mutant: the monitor evicted from stays selected.
EvictKeepsSelected(s, n, to) ==
    [s EXCEPT
        !.monindex = [c \in Clients |-> IF s.mon[c] = n /\ @[c] = -1 THEN n ELSE @[c]],
        !.mon = [c \in Clients |-> IF @[c] = n THEN to ELSE @[c]]]

\* Mutant: the wish is overwritten with the monitor moved to.
EvictForgets(s, n, to) ==
    [s EXCEPT
        !.monindex = [c \in Clients |-> IF s.mon[c] = n THEN to ELSE @[c]],
        !.mon = [c \in Clients |-> IF @[c] = n THEN to ELSE @[c]],
        !.selmon = IF @ = n THEN to ELSE @]

\* The clients of monitor n go to monitor to, keeping the wish for the
\* monitor they were on.
Evict(s, n, to) ==
    [s EXCEPT
        !.monindex = [c \in Clients |-> IF s.mon[c] = n /\ @[c] = -1 THEN n ELSE @[c]],
        !.mon = [c \in Clients |-> IF @[c] = n THEN to ELSE @[c]],
        !.selmon = IF @ = n THEN to ELSE @]

cleanupmon(s, n) ==
    [s EXCEPT !.mons = Only(@, Nums \ {n}),
              !.enablesplit = @ \ {n}, !.geom[n] = NoRect]

\* The i-th physical monitor's mon1 or mon2.
FirstIs(s, i, n) ==
    [s EXCEPT !.pmons = ReplaceAt(@, i + 1, [@[i + 1] EXCEPT !.mon1 = n])]
SecondIs(s, i, n) ==
    [s EXCEPT !.pmons = ReplaceAt(@, i + 1, [@[i + 1] EXCEPT !.mon2 = n])]

Placed(s, n, r) == [s EXCEPT !.geom[n] = r]

\* The two halves of a split monitor, side by side or one above the other;
\* the division drops the odd pixel.
FirstHalf(r, split) ==
    IF split = 1 THEN [r EXCEPT !.w = @ \div 2] ELSE [r EXCEPT !.h = @ \div 2]

SecondHalf(r, split) ==
    IF split = 1
    THEN [r EXCEPT !.x = @ + (r.w \div 2), !.w = @ \div 2]
    ELSE [r EXCEPT !.y = @ + (r.h \div 2), !.h = @ \div 2]

\* One round of updatevirtualmonitors' loop: the i-th physical monitor.
UpdateVirtual(s, i) ==
    LET pm == s.pmons[i + 1]
        a == IF pm.mon1 = None THEN FirstIs(createmon(s, i), i, i) ELSE s
        splits == SplitOf[i] # 0 /\ i \in a.enablesplit
        second == Second + i
        b == CASE pm.mon2 # None /\ ~splits ->
                    SecondIs(cleanupmon(Evict(a, second, i), second), i, None)
               [] pm.mon2 = None /\ splits ->
                    SecondIs(createmon(a, second), i, second)
               [] OTHER -> a
    IN  IF splits
        THEN Placed(Placed(b, i, FirstHalf(pm.geom, SplitOf[i])),
                    second, SecondHalf(pm.geom, SplitOf[i]))
        ELSE Placed(b, i, pm.geom)

\* The removal of the i-th physical monitor. Its clients go to the first
\* half of the node before it in the walk, which for the second of two
\* removed neighbours is the node freed a moment ago.
RemovePhysical(s, i) ==
    LET pm == s.pmons[i + 1]
        heir == s.pmons[i].mon1
        Out(t, n) == cleanupmon(Evict(t, n, heir), n)
    IN  Out(IF pm.mon2 = None THEN s ELSE Out(s, pm.mon2), pm.mon1)

\* updatevirtualmonitors with the first n physical monitors still there: one
\* loop over them, and one over the others.
updatevirtualmonitors(s, n) ==
    LET kept[k \in 0 .. n] ==
            IF k = 0 THEN s ELSE UpdateVirtual(kept[k - 1], k - 1)
        left[k \in n .. Len(s.pmons)] ==
            IF k = n THEN kept[n] ELSE RemovePhysical(left[k - 1], k - 1)
    IN  [left[Len(s.pmons)] EXCEPT !.pmons = SubSeq(@, 1, n)]

\* Mutant: only the client that is on no monitor of the list is moved.
updateclientmonitorsLost(s) ==
    [s EXCEPT !.mon = [c \in Clients |->
        IF @[c] # None /\ Contains(s.mons, s.monindex[c]) /\ ~Contains(s.mons, @[c])
        THEN s.monindex[c] ELSE @[c]]]

\* A client whose wish names a monitor that is there goes to it.
updateclientmonitors(s) ==
    [s EXCEPT !.mon = [c \in Clients |->
        IF @[c] # None /\ Contains(s.mons, s.monindex[c]) THEN s.monindex[c] ELSE @[c]]]

-----------------------------------------------------------------------------
(* updategeom.                                                             *)

NewNode(r) == [geom |-> r, mon1 |-> None, mon2 |-> None]

\* The screens in their order are the physical monitors' geometry; monitors
\* are added at the end, and lost ones stay in the list for the next step.
Physical(s, unique) ==
    LET had == Len(s.pmons)
        both == IF had < Len(unique) THEN had ELSE Len(unique)
    IN  [s EXCEPT !.pmons =
            [i \in 1 .. both |-> [@[i] EXCEPT !.geom = unique[i]]]
            \o SubSeq(@, both + 1, had)
            \o [i \in 1 .. (Len(unique) - both) |-> NewNode(unique[both + i])]]

\* What updategeom calls dirty: a screen that is new or has changed, a list
\* that has grown, a client that was moved. A lost screen nobody was on is
\* not. The pointer's monitor is selected then.
updategeom(s, pointer) ==
    LET unique == Unique(screens)
        t == updatevirtualmonitors(Physical(s, unique), Len(unique))
        dirty == \/ \E i \in DOMAIN unique :
                        i > Len(s.pmons) \/ unique[i] # s.pmons[i].geom
                 \/ ~(ToSet(t.mons) \subseteq ToSet(s.mons))
                 \/ t.mon # s.mon
        u == updateclientmonitors(t)
    IN  IF dirty THEN [u EXCEPT !.selmon = pointer] ELSE u

Becomes(s) ==
    /\ pmons' = s.pmons /\ mons' = s.mons /\ selmon' = s.selmon
    /\ enablesplit' = s.enablesplit /\ geom' = s.geom
    /\ mon' = s.mon /\ monindex' = s.monindex

\* The monitor num n names: itself, or the whole monitor of a second half
\* that is not there; other when neither is.
Named(list, n, other) ==
    CASE Contains(list, n) -> n
      [] ~Contains(list, n) /\ n >= Second /\ Contains(list, n % Second) -> n % Second
      [] OTHER -> other

NoMonitors ==
    [pmons |-> <<>>, mons |-> <<>>,
     enablesplit |-> {}, geom |-> [n \in Nums |-> NoRect],
     selmon |-> None, mon |-> [c \in Clients |-> None],
     monindex |-> [c \in Clients |-> -1]]

\* setup on the screens there are; the pointer is on one of the monitors.
Started(s, pointer) == pointer \in ToSet(s.mons) /\ s.selmon = pointer

Init ==
    /\ screens \in Setups
    /\ pending = FALSE
    /\ \E p \in Nums : LET s == updategeom(NoMonitors, p) IN
          /\ Started(s, p)
          /\ pmons = s.pmons /\ mons = s.mons /\ selmon = p
          /\ enablesplit = s.enablesplit /\ geom = s.geom
    /\ mon = NoMonitors.mon /\ monindex = NoMonitors.monindex
    /\ parent = [c \in Clients |-> None]

-----------------------------------------------------------------------------
(* Actions.                                                                *)

\* The X server's screens change.
Hotplug(q) ==
    /\ q # screens /\ Len(pmons) - Len(Unique(q)) <= AtOnce
    /\ screens' = q /\ pending' = TRUE
    /\ UNCHANGED <<heads, wins>>

configurenotify ==
    /\ pending /\ pending' = FALSE
    /\ \E p \in Nums : LET s == updategeom(State, p) IN
          /\ Contains(s.mons, p) /\ Becomes(s)
    /\ UNCHANGED <<screens, parent>>

togglesplit ==
    LET first == selmon % Second
        s == [State EXCEPT !.enablesplit = SymDiff(@, {first})]
    IN  /\ SplitOf[first] # 0
        /\ Becomes(updateclientmonitors(updatevirtualmonitors(s, Len(pmons))))
        /\ UNCHANGED <<screens, pending, parent>>

focusmon(n) ==
    /\ Contains(mons, n) /\ n # selmon
    /\ selmon' = n
    /\ UNCHANGED <<screens, pending, pmons, mons, enablesplit, geom, wins>>

\* sendmon, for a client of no modal group.
sendmon(c, n) ==
    /\ c \in Managed /\ Contains(mons, n) /\ mon[c] # n
    /\ mon' = [mon EXCEPT ![c] = n]
    /\ monindex' = [monindex EXCEPT ![c] = n]
    /\ UNCHANGED <<screens, pending, heads, parent>>

\* manage of a window that is transient for no client: a rule's wish for a
\* monitor that is not there is forgotten.
manage(c, want) ==
    /\ c \notin Managed
    /\ LET n == Named(mons, want, selmon) IN
          mon' = [mon EXCEPT ![c] = n] /\ monindex' = [monindex EXCEPT ![c] = n]
    /\ parent' = [parent EXCEPT ![c] = None]
    /\ UNCHANGED <<screens, pending, heads>>

\* manage of a transient window of t: the wish of the rule, or else t's.
manageTransient(c, t, want) ==
    /\ c \notin Managed /\ t \in Managed /\ parent[t] = None
    /\ mon' = [mon EXCEPT ![c] = Named(mons, want, mon[t])]
    /\ monindex' = [monindex EXCEPT ![c] = IF want = -1 THEN monindex[t] ELSE want]
    /\ parent' = [parent EXCEPT ![c] = t]
    /\ UNCHANGED <<screens, pending, heads>>

unmanage(c) ==
    /\ c \in Managed
    /\ mon' = [mon EXCEPT ![c] = None]
    /\ monindex' = [monindex EXCEPT ![c] = -1]
    /\ parent' = [d \in Clients |-> IF d = c \/ parent[d] = c THEN None ELSE parent[d]]
    /\ UNCHANGED <<screens, pending, heads>>

\* dwm is restarted: new monitors, the layout file's splits, and every window
\* managed again with the wish its property holds (setclienttagprop), windows
\* that are transient for another last (scan).
Restart ==
    LET saved(c) == IF monindex[c] = -1 THEN mon[c] ELSE monindex[c] IN
    \E p \in Nums : LET s == updategeom(NoMonitors, p)
                        Back(c, other) == Named(s.mons, saved(c), other) IN
        /\ Started(s, p)
        /\ Becomes([s EXCEPT
              !.mon = [c \in Clients |->
                  CASE mon[c] = None -> None
                    [] mon[c] # None /\ parent[c] = None -> Back(c, p)
                    [] OTHER -> Back(c, Back(parent[c], p))],
              !.monindex = [c \in Clients |-> IF mon[c] = None THEN -1 ELSE saved(c)]])
        /\ pending' = FALSE
        /\ UNCHANGED <<screens, parent>>

Next ==
    \/ \E q \in Setups : Hotplug(q)
    \/ configurenotify \/ togglesplit \/ Restart
    \/ \E n \in Nums : focusmon(n)
    \/ \E c \in Clients :
          \/ unmanage(c)
          \/ \E n \in Nums : sendmon(c, n)
          \/ \E want \in Wishes \cup {-1} :
                manage(c, want) \/ \E t \in Clients : manageTransient(c, t, want)

Spec == Init /\ [][Next]_vars

-----------------------------------------------------------------------------
(* Properties.                                                             *)

\* Every variable holds a value the code can store in it.
TypeOK ==
    /\ screens \in Setups /\ pending \in BOOLEAN
    /\ pmons \in Seq([geom : Rect, mon1 : Nums, mon2 : Nums \cup {None}])
    /\ mons \in Seq(Nums) /\ selmon \in Nums
    /\ enablesplit \subseteq Nums /\ geom \in [Nums -> Rect]
    /\ mon \in [Clients -> Nums \cup {None}]
    /\ monindex \in [Clients -> Nums \cup Wishes \cup {-1}]
    /\ parent \in [Clients -> Clients \cup {None}]

\* The list holds the monitors of the physical ones, each once: the first half
\* of each under its index, a second half where the split is on, no freed one
\* (updatevirtualmonitors, cleanupmon).
EveryListed ==
    /\ IsInjective(mons)
    /\ \A i \in DOMAIN pmons :
          /\ pmons[i].mon1 = i - 1
          /\ pmons[i].mon2 = IF SplitOf[i - 1] # 0 /\ i - 1 \in enablesplit
                             THEN Second + i - 1 ELSE None
    /\ ToSet(mons) = UNION {{pmons[i].mon1, pmons[i].mon2} \ {None} : i \in DOMAIN pmons}

\* The selected monitor and the monitor of every client are in the list: the
\* clients of a monitor that is unplugged or joined are never left on it
\* (updatevirtualmonitors).
OnMonitor ==
    Contains(mons, selmon) /\ \A c \in Managed : Contains(mons, mon[c])

\* A client whose wish names a monitor that is there is on it, so one that
\* was moved when its monitor went is back as soon as it has returned
\* (updateclientmonitors).
Wanted == \A c \in Managed : Contains(mons, monindex[c]) => mon[c] = monindex[c]

\* What a physical monitor is shown as, with the geometry g of the monitors.
Halves(pm, g) ==
    LET r == pm.geom
        a == g[pm.mon1]
        b == g[pm.mon2]
    IN  CASE pm.mon2 = None -> a = r
          [] pm.mon2 # None /\ SplitOf[pm.mon1] = 1 ->
                /\ a.y = r.y /\ b.y = r.y /\ a.h = r.h /\ b.h = r.h /\ a.x = r.x
                /\ b.x = a.x + a.w /\ a.w = b.w /\ a.w + b.w \in {r.w - 1, r.w}
          [] OTHER ->
                /\ a.x = r.x /\ b.x = r.x /\ a.w = r.w /\ b.w = r.w /\ a.y = r.y
                /\ b.y = a.y + a.h /\ a.h = b.h /\ a.h + b.h \in {r.h - 1, r.h}

\* The monitor a client belongs on.
Home(c) == IF monindex[c] = -1 THEN mon[c] ELSE monindex[c]

\* With no event to come the monitors have the geometry of the screens: the
\* halves of a split one lie in it, do not overlap and leave at most the odd
\* pixel row or column (updategeom).
Follows ==
    ~pending => /\ [i \in DOMAIN pmons |-> pmons[i].geom] = Unique(screens)
                /\ \A i \in DOMAIN pmons : Halves(pmons[i], geom)

\* Whatever comes and goes, the list and its monitors are those of the
\* screens: the types, EveryListed, OnMonitor and Follows.
Consistent == TypeOK /\ EveryListed /\ OnMonitor /\ Follows

\* Only a user who sends it changes which monitor a client belongs on: not
\* unplugging, splitting or a restart (Evict's monindex, setclienttagprop).
HomesKept ==
    \A c \in Managed :
        Home(c)' # Home(c) /\ mon'[c] # None => UNCHANGED <<screens, heads>>

HomeKept == [][HomesKept]_vars
=============================================================================
