------------------------------- MODULE AltTab -------------------------------
(***************************************************************************)
(* The alt-tab switcher of src/dwm.c: altTabStart with its own event loop, *)
(* altTab, highlight, viewmontag while it is open, and altTabEnd.          *)
(*                                                                         *)
(* While the switcher is open altTabStart reads the X events itself and    *)
(* drops those it has no use for; focus() does nothing; a highlighted      *)
(* client is previewed by changing the view of its monitor, which is put   *)
(* back at the end. Clients that went away meanwhile are freed by          *)
(* arrangemon, once an X error has told of them (xerror).                  *)
(*                                                                         *)
(*   stack[m], sel[m]     the stack and the selection of monitor m         *)
(*   selmon               the selected monitor                             *)
(*   view[m]              tagset[seltags] (cur) and the other slot (alt)   *)
(*   hidden               the clients with ishidden set                    *)
(*   sw                   the switcher, see Switcher                       *)
(*   gone, dormant, freed windows destroyed while it is open, the clients  *)
(*                        among them xerror has marked, those freed        *)
(*   asked                those of them a request has been sent for since  *)
(*   before               history: views and selections when it opened,    *)
(*                        None while it is closed                          *)
(*                                                                         *)
(* No client here is fullscreen (Fullscreen), a panel, a desktop, ignored, *)
(* stacked by class or never focused, and monitors do not change.          *)
(***************************************************************************)
EXTENDS Sublists, FiniteSets, SequencesExt

CONSTANTS
    Clients, Monitors, Tags,
    Mons,        \* the list of monitors
    MonOf,       \* the monitor of every client
    TagsOf,      \* its tags
    ClassOf,     \* its class
    NameRank,    \* the order of names (strcmpbynum)
    Modes,       \* the flags the bindings of config.def.h call altTabStart with
    Highlights,  \* tabHighlight
    Dying,       \* the clients whose window may be destroyed meanwhile
    Early,       \* bound: whether that, and its X error, comes with the list up
    None

ASSUME ClientsAssumption ==
    /\ IsFiniteSet(Clients) /\ None \notin Clients \cup Monitors
    /\ MonOf \in [Clients -> Monitors] /\ TagsOf \in [Clients -> (SUBSET Tags) \ {{}}]
ASSUME MonitorsAssumption ==
    /\ Monitors \subseteq Nat /\ Monitors # {}
    /\ Mons \in Seq(Monitors) /\ IsInjective(Mons) /\ ToSet(Mons) = Monitors
ASSUME TagsAssumption == Tags \subseteq Nat /\ Tags # {}
ASSUME RankAssumption == NameRank \in [Clients -> Int] /\ IsInjective(NameRank)

Flags == {"selmon", "reverse", "same_class", "all_tags", "all_monitors",
          "mouse", "hidden", "offset_menu", "sorted", "sorted_by_monitor"}
ASSUME ModesAssumption == Modes \subseteq SUBSET Flags

VARIABLES stack, sel, selmon, view, hidden, sw, gone, dormant, freed, asked, before
vars == <<stack, sel, selmon, view, hidden, sw, gone, dormant, freed, asked, before>>

\* The fields of the monitor that holds the switcher, and altTabStart's locals.
Switcher ==
    [phase : {"closed", "open", "leaving"},
     mon : Monitors \cup {None},           \* altTabMon
     flags : SUBSET Flags,                 \* isAlt
     list : Seq(Clients),                  \* altsnext
     room : Nat,                           \* the entries altsnext has room for
     n : Nat,                              \* altTabN
     active : BOOLEAN,                     \* altTabActive
     highlight : Clients \cup {None},
     origin : Clients \cup {None},         \* altTabSel
     selm : Monitors \cup {None},          \* selm, the monitor selected before
     selTags : [Monitors -> SUBSET Tags]]  \* altTabSelTags, {} for 0

Closed ==
    [phase |-> "closed", mon |-> None, flags |-> {}, list |-> <<>>, room |-> 0,
     n |-> 0, active |-> FALSE, highlight |-> None, origin |-> None,
     selm |-> None, selTags |-> [m \in Monitors |-> {}]]

\* The record the operators work on.
State == [stack |-> stack, sel |-> sel, selmon |-> selmon, view |-> view,
          hidden |-> hidden, sw |-> sw, dormant |-> dormant, freed |-> freed,
          asked |-> asked]

Becomes(s) ==
    /\ stack' = s.stack /\ sel' = s.sel /\ selmon' = s.selmon
    /\ view' = s.view /\ hidden' = s.hidden /\ sw' = s.sw
    /\ dormant' = s.dormant /\ freed' = s.freed /\ asked' = s.asked

-----------------------------------------------------------------------------
(* Selection and the lists.                                                *)

Visible(s, c) == TagsOf[c] \cap s.view[MonOf[c]].cur # {}

FirstIn(q, S) ==
    LET r == Only(q, S) IN IF r = <<>> THEN None ELSE Head(r)

\* getfocusable(m, NULL): the first of the stack that can be selected.
Focusable(s, m) ==
    FirstIn(s.stack[m], {c \in Clients : Visible(s, c) /\ c \notin s.hidden})

\* detachstackex and attachstack: c goes to the top of its stack.
Raised(q, c) == <<c>> \o Only(q, Clients \ {c})

\* focus(c, 1), outside the switcher.
focus(s, c) ==
    LET m == MonOf[c] IN
    [s EXCEPT !.stack[m] = Raised(@, c), !.sel[m] = c, !.selmon = m,
              !.asked = @ \cup ({c} \cap gone)]

\* arrangemon: the clients xerror has marked are freed, a selection among them
\* passes to the next (detachstack), and the others are configured.
arrangemon(s, m) ==
    LET dead == {c \in s.dormant \ s.freed : MonOf[c] = m}
        t == [s EXCEPT !.stack[m] = Only(@, Clients \ dead),
                       !.freed = @ \cup dead,
                       !.asked = @ \cup {c \in gone : MonOf[c] = m}]
    IN  IF s.sel[m] \in dead THEN [t EXCEPT !.sel[m] = Focusable(t, m)] ELSE t

\* Which clients are listed; the count and the list ask the same.
Eligible(s, flags, c) ==
    /\ c \notin s.dormant
    /\ c \in s.hidden => "hidden" \in flags
    /\ Visible(s, c) \/ "all_tags" \in flags

\* A list from one of its elements round to it.
Round(q, x) ==
    LET at == CHOOSE i \in DOMAIN q : q[i] = x
    IN  SubSeq(q, at, Len(q)) \o SubSeq(q, 1, at - 1)

\* The monitors in the order their clients are listed.
Around(m, flags) == IF "all_monitors" \in flags THEN Round(Mons, m) ELSE <<m>>

\* Mutant of From: the round does not stop at the client it began with.
FromRepeats(s, m, k) ==
    IF k # m \/ s.sel[k] = None \/ s.sel[k] = Head(s.stack[k]) THEN s.stack[k]
    ELSE SubSeq(s.stack[k], CHOOSE i \in DOMAIN s.stack[k] : s.stack[k][i] = s.sel[k],
                Len(s.stack[k])) \o s.stack[k]

\* A monitor's stack from its selected client round to it, where it is the
\* switcher's, or else from the top.
From(s, m, k) ==
    IF k # m \/ s.sel[k] = None THEN s.stack[k] ELSE Round(s.stack[k], s.sel[k])

\* nTabs as counted over the clients lists before the list is built: classes
\* are not looked at.
Counted(s, m, flags) ==
    Cardinality({c \in Clients \ s.freed :
        /\ MonOf[c] = m \/ "all_monitors" \in flags
        /\ Eligible(s, flags, c)})

\* The elements of a list in an order, a set of pairs.
Sorted(q, order) ==
    LET S == ToSet(q)
    IN  [i \in DOMAIN q |->
            CHOOSE c \in S : Cardinality({d \in S : <<d, c>> \in order}) = i - 1]
ByName == {p \in Clients \X Clients : NameRank[p[1]] < NameRank[p[2]]}
ByMonitor == {p \in Clients \X Clients :
                 \/ MonOf[p[1]] < MonOf[p[2]]
                 \/ MonOf[p[1]] = MonOf[p[2]] /\ p \in ByName}

\* altsnext, in stack order, by name, or by monitor and name.
Kept(s, flags) ==
    LET class == IF s.sel[s.selmon] = None THEN None ELSE ClassOf[s.sel[s.selmon]]
    IN  {c \in Clients : Eligible(s, flags, c)
                         /\ ("same_class" \in flags => ClassOf[c] = class)}
Gathered(s, m, flags) ==
    LET ms == Around(m, flags)
        upto[i \in 0..Len(ms)] ==
            IF i = 0 THEN <<>>
            ELSE upto[i - 1] \o Only(From(s, m, ms[i]), Kept(s, flags))
    IN  upto[Len(ms)]
Listed(s, m, flags) ==
    LET all == Gathered(s, m, flags)
    IN  CASE "sorted" \in flags -> Sorted(all, ByName)
          [] "sorted" \notin flags /\ "sorted_by_monitor" \in flags -> Sorted(all, ByMonitor)
          [] {"sorted", "sorted_by_monitor"} \cap flags = {} -> all

-----------------------------------------------------------------------------
(* The switcher.                                                           *)

Mouse(s) == "mouse" \in s.sw.flags

\* viewmontag with a tag mask, while the switcher is open: the first preview on
\* a monitor keeps its view in altTabSelTags, and only the mouse's menu
\* changes the slots over. Nothing is focused; the monitor is arranged, unless
\* it is not the selected one and was not to be switched to.
viewmontag(s, m, mask, switchmon) ==
    LET t == IF Mouse(s)
             THEN [s EXCEPT !.view[m] = [cur |-> mask, alt |-> @.cur]]
             ELSE [s EXCEPT !.view[m].cur = mask,
                            !.sw.selTags[m] = IF @ = {} THEN s.view[m].cur ELSE @]
    IN  CASE mask = s.view[m].cur -> s
          [] mask # s.view[m].cur /\ (switchmon \/ m = s.selmon) -> arrangemon(t, m)
          [] mask # s.view[m].cur /\ ~switchmon /\ m # s.selmon -> t

\* highlight(c): the switcher of the keyboard shows the client as it will be.
highlight(s, c) ==
    LET asks == [s EXCEPT !.asked = @ \cup (gone \cap {s.sw.highlight, c})]
        shown == IF ~Visible(s, c) THEN viewmontag(asks, MonOf[c], TagsOf[c], TRUE)
                 ELSE IF MonOf[c] # s.selmon THEN arrangemon(asks, MonOf[c]) ELSE asks
    IN  CASE Mouse(s) \/ ~Highlights -> [s EXCEPT !.sw.highlight = c]
          [] ~Mouse(s) /\ Highlights /\ (c = None \/ c \in s.hidden) ->
                [asks EXCEPT !.sw.highlight = None]
          [] ~Mouse(s) /\ Highlights /\ c # None /\ c \notin s.hidden ->
                [shown EXCEPT !.sw.highlight = c]

\* altTab(d): d entries on, round the list; the first move of the mouse only
\* takes up the entry the menu is at.
altTab(s, d) ==
    LET step == IF s.sw.active THEN d ELSE 0
        to == s.sw.n + step
        n == IF to < 0 THEN Len(s.sw.list) - 1 ELSE IF to >= Len(s.sw.list) THEN 0 ELSE to
    IN  highlight([s EXCEPT !.sw.n = n, !.sw.active = TRUE], s.sw.list[n + 1])

\* altTabEnd: no more previews, and the list is freed.
altTabEnd(s) == [s EXCEPT !.sw = Closed]

\* The monitor the switcher is for, and its flags, with the mark that it is
\* the selected one.
Opened(m, mode) ==
    [Closed EXCEPT !.phase = "open", !.mon = m, !.selm = selmon, !.origin = sel[selmon],
                   !.flags = IF m = selmon THEN mode \cup {"selmon"} ELSE mode \ {"selmon"}]

\* A menu of the tag's own clients needs two, every other list one, unless
\* there are hidden clients to show.
Enough(s, m, flags, k) ==
    \/ k > IF "mouse" \in flags /\ {"all_monitors", "all_tags"} \cap flags = {} THEN 1 ELSE 0
    \/ "hidden" \in flags /\ \E c \in s.hidden :
          Eligible(s, flags, c) /\ (MonOf[c] = m \/ "all_monitors" \in flags)

\* What is highlighted when the list is first drawn.
FirstShown(s) ==
    LET w == s.sw
        here == {i \in DOMAIN w.list : w.list[i] \in {s.sel[w.mon], s.sel[s.selmon]}}
    IN  CASE {"mouse", "offset_menu"} \subseteq w.flags -> s
          [] ~({"mouse", "offset_menu"} \subseteq w.flags)
             /\ {"sorted", "sorted_by_monitor"} \cap w.flags # {} ->
                [s EXCEPT !.sw.highlight = s.sel[w.mon], !.sw.active = TRUE,
                          !.sw.n = IF here = {} THEN 0
                                   ELSE (CHOOSE i \in here : \A j \in here : i <= j) - 1]
          [] ~({"mouse", "offset_menu"} \subseteq w.flags)
             /\ {"sorted", "sorted_by_monitor"} \cap w.flags = {} ->
                altTab([s EXCEPT !.sw.highlight = s.sel[w.mon], !.sw.active = TRUE],
                       IF "mouse" \in w.flags THEN 0
                       ELSE IF "reverse" \in w.flags THEN -1 ELSE 1)

\* altTabStart up to its loop, for the selected monitor or the one the binding
\* names. A list that is too short opens nothing.
altTabStart(m, mode) ==
    LET w == Opened(m, mode)
        list == Listed(State, m, w.flags)
        counted == Counted(State, m, w.flags)
    IN  /\ sw.phase = "closed"
        /\ "selmon" \in mode => m = selmon
        /\ "same_class" \in mode => sel[m] # None
        /\ Enough(State, m, w.flags, counted) /\ Enough(State, m, w.flags, Len(list))
        /\ list # <<>>   \* a bound: drawTab divides by its length
        /\ Becomes(FirstShown([State EXCEPT !.sw = [w EXCEPT !.list = list, !.room = counted]]))
        /\ before' = [view |-> view, sel |-> sel, selmon |-> selmon]
        /\ UNCHANGED gone

\* The cycle key, pressed again, with or without the key for backwards.
Cycle(d) ==
    /\ sw.phase = "open" /\ ~Mouse(State) /\ Len(sw.list) > 1
    /\ Becomes(altTab(State, d))
    /\ UNCHANGED <<gone, before>>

\* Motion over an entry of the menu, and the keys and the wheel that move by
\* one, none of them past an end.
Hover(i) ==
    /\ sw.phase = "open" /\ Mouse(State) /\ i \in DOMAIN sw.list
    /\ sw.active => i # sw.n + 1
    /\ Becomes(altTab(State, i - 1 - sw.n))
    /\ UNCHANGED <<gone, before>>

\* Motion off the menu leaves the highlight.
HoverOff ==
    /\ sw.phase = "open" /\ Mouse(State) /\ sw.active
    /\ sw' = [sw EXCEPT !.active = FALSE]
    /\ UNCHANGED <<stack, sel, selmon, view, hidden, gone, dormant, freed, asked, before>>

\* The modifier is released, an entry is clicked, Return is pressed.
Choose ==
    /\ sw.phase = "open"
    /\ sw' = [sw EXCEPT !.phase = "leaving"]
    /\ UNCHANGED <<stack, sel, selmon, view, hidden, gone, dormant, freed, asked, before>>

\* tabEndKey, a click off the menu, Return on the client it started from or on
\* nothing.
Cancel ==
    /\ sw.phase = "open"
    /\ Becomes([highlight(State, None) EXCEPT !.sw.phase = "leaving"])
    /\ UNCHANGED <<gone, before>>

\* The client the switcher leaves for.
Target(s) == IF s.sw.highlight = None THEN s.sel[s.sw.mon] ELSE s.sw.highlight

\* Mutant of PutBack: only the switcher's monitor is put back.
PutBackHere(s, c) ==
    LET m == s.sw.mon
        mask == IF s.sw.selTags[m] # {} THEN s.sw.selTags[m] ELSE s.view[m].cur
    IN  [viewmontag(s, m, mask, TRUE) EXCEPT !.sw.selTags[m] = {}]

\* The views of the keyboard's switcher put back, but for that of c's monitor
\* where c would not be seen.
PutBackOne(s, m, c) ==
    LET kept == s.sw.selTags[m]
        on == c # None /\ MonOf[c] = m
        mask == IF kept # {} /\ (~on \/ TagsOf[c] \cap kept # {}) THEN kept
                ELSE IF on /\ (kept # {} \/ ~Visible(s, c)) THEN TagsOf[c]
                ELSE s.view[m].cur
    IN  [viewmontag(s, m, mask, TRUE) EXCEPT !.sw.selTags[m] = {}]
PutBack(s, c) ==
    LET ms == IF "all_monitors" \in s.sw.flags THEN Mons ELSE <<s.sw.mon>>
        upto[i \in 0..Len(ms)] ==
            IF i = 0 THEN s ELSE PutBackOne(upto[i - 1], ms[i], c)
    IN  upto[Len(ms)]

\* Mutant of Switched: the client's tags are not viewed.
SwitchedUnseen(s, c) == [s EXCEPT !.selmon = IF c = None THEN s.sw.selm ELSE MonOf[c]]

\* The view of the menu's client, on the monitor that is selected with it.
Switched(s, c) ==
    IF c = None THEN [s EXCEPT !.selmon = s.sw.selm]
    ELSE LET t == IF "selmon" \in s.sw.flags THEN [s EXCEPT !.selmon = MonOf[c]] ELSE s IN
         IF Visible(t, c) THEN t ELSE viewmontag(t, MonOf[c], TagsOf[c], FALSE)

\* The rest of altTabStart, when the key or button has been released or a
\* window came or went.
Leave ==
    LET c == Target(State)
        viewed == IF Mouse(State) THEN Switched(State, c)
                  ELSE [PutBack(State, c) EXCEPT !.selmon =
                            IF c # None /\ "selmon" \in sw.flags THEN MonOf[c] ELSE sw.selm]
        ended == altTabEnd(viewed)
        m == MonOf[c]
        bare == IF c \in hidden THEN arrangemon([ended EXCEPT !.hidden = @ \ {c}], m)
                ELSE ended
    IN  /\ sw.phase = "leaving"
        /\ Becomes(IF c = None THEN ended
                   ELSE IF sw.mon = sw.selm THEN focus(bare, c)
                   ELSE arrangemon([bare EXCEPT !.sel[m] = c, !.stack[m] = Raised(@, c)], m))
        /\ before' = None
        /\ UNCHANGED gone

-----------------------------------------------------------------------------
(* Around the switcher.                                                    *)

\* A window is destroyed while the switcher is open; the DestroyNotify is one
\* of the events dropped.
Destroyed(c) ==
    /\ c \in Dying \ gone
    /\ sw.phase = "leaving" \/ (Early /\ sw.phase = "open")
    /\ gone' = gone \cup {c}
    /\ UNCHANGED <<stack, sel, selmon, view, hidden, sw, dormant, freed, asked, before>>

\* xerror, when the answer to a request for such a window comes.
xerror(c) ==
    /\ c \in asked \ dormant
    /\ Early \/ sw.phase = "closed"
    /\ dormant' = dormant \cup {c}
    /\ UNCHANGED <<stack, sel, selmon, view, hidden, sw, gone, freed, asked, before>>

\* The main loop's events: a client is focused, a tag viewed, a client hidden.
Quiet == sw.phase = "closed" /\ gone = {}
Click(c) ==
    /\ Quiet /\ Visible(State, c) /\ c \notin hidden /\ sel[MonOf[c]] # c
    /\ Becomes(focus(State, c)) /\ UNCHANGED <<gone, before>>
SelectMonitor(m) ==
    /\ Quiet /\ m # selmon /\ selmon' = m
    /\ UNCHANGED <<stack, sel, view, hidden, sw, gone, dormant, freed, asked, before>>
View(t) ==
    LET m == selmon
        s == [State EXCEPT !.view[m] = [cur |-> {t}, alt |-> @.cur]]
    IN  /\ Quiet /\ view[m].cur # {t}
        /\ Becomes([s EXCEPT !.sel[m] = Focusable(s, m)]) /\ UNCHANGED <<gone, before>>
Hide ==
    LET s == [State EXCEPT !.hidden = @ \cup {sel[selmon]}] IN
    /\ Quiet /\ sel[selmon] # None
    /\ Becomes([s EXCEPT !.sel[selmon] = Focusable(s, selmon)]) /\ UNCHANGED <<gone, before>>

Init ==
    /\ stack = [m \in Monitors |-> SetToSeq({c \in Clients : MonOf[c] = m})]
    /\ view = [m \in Monitors |-> [cur |-> {Min(Tags)}, alt |-> {Min(Tags)}]]
    /\ hidden = {} /\ selmon = Head(Mons) /\ sw = Closed
    /\ sel = [m \in Monitors |-> FirstIn(stack[m],
                {c \in Clients : TagsOf[c] \cap view[m].cur # {}})]
    /\ gone = {} /\ dormant = {} /\ freed = {} /\ asked = {}
    /\ before = None

Next ==
    \/ \E m \in Monitors, mode \in Modes : altTabStart(m, mode)
    \/ \E d \in {1, -1} : Cycle(d)
    \/ \E i \in 1 .. Cardinality(Clients) : Hover(i)
    \/ HoverOff \/ Choose \/ Cancel \/ Leave \/ Hide
    \/ \E c \in Clients : Destroyed(c) \/ xerror(c) \/ Click(c)
    \/ \E m \in Monitors : SelectMonitor(m)
    \/ \E t \in Tags : View(t)

Spec == Init /\ [][Next]_vars

-----------------------------------------------------------------------------
(* Properties.                                                             *)

\* Every variable holds a value the code can store in it.
TypeOK ==
    /\ stack \in [Monitors -> Seq(Clients)] /\ sel \in [Monitors -> Clients \cup {None}]
    /\ selmon \in Monitors /\ hidden \subseteq Clients /\ sw \in Switcher
    /\ view \in [Monitors -> [cur : (SUBSET Tags) \ {{}}, alt : (SUBSET Tags) \ {{}}]]
    /\ freed \subseteq dormant /\ dormant \subseteq asked
    /\ asked \subseteq gone /\ gone \subseteq Dying

\* The list is made of room for the clients counted before and holds each
\* client once: the round from the selected client of the stack neither
\* repeats nor misses one, and never writes past the room (altTabStart).
ListFits ==
    sw.phase # "closed" =>
        /\ Len(sw.list) <= sw.room /\ IsInjective(sw.list)
        /\ "same_class" \notin sw.flags => Len(sw.list) = sw.room
        /\ sw.n < Len(sw.list)

\* The state keeps its type and the list its bounds (TypeOK, ListFits).
ListSound == TypeOK /\ ListFits

Leaves == sw.phase = "leaving" /\ sw'.phase = "closed"

\* Once the switcher is closed every view it has changed is as it was, slots
\* and all, but for that of the chosen client's monitor: it is kept too if the
\* client is seen there, and is the client's tags if not (altTabSelTags).
PreviewsPutBack == [][Leaves =>
    \A m \in Monitors :
        LET c == Target(State) IN
        IF c = None \/ MonOf[c] # m \/ TagsOf[c] \cap before.view[m].cur # {}
        THEN view'[m] = before.view[m]
        ELSE view'[m].cur = TagsOf[c]]_vars

\* The selections are those from before, but for c and clients freed since.
SelectionsBut(c) ==
    \A m \in Monitors :
        \/ sel'[m] = IF c # None /\ MonOf[c] = m THEN c ELSE before.sel[m]
        \/ before.sel[m] \in freed'

\* A client that was highlighted last, and is not freed by the switch, is the
\* selection of its monitor, seen and not hidden; its monitor is selected where
\* the switcher was for the selected one, and no other selection has changed
\* (altTabStart).
ChosenSelected == [][Leaves /\ sw.highlight \notin freed' \cup {None} =>
    LET c == sw.highlight IN
    /\ SelectionsBut(c) /\ sel'[MonOf[c]] = c
    /\ c \notin hidden' /\ TagsOf[c] \cap view'[MonOf[c]].cur # {}
    /\ selmon' = IF sw.mon = before.selmon THEN MonOf[c] ELSE before.selmon]_vars

OriginSeen ==
    LET c == before.sel[sw.mon] IN
    c = None \/ (c \notin freed' /\ TagsOf[c] \cap before.view[sw.mon].cur # {})

\* "if this key is hit the while you're in the alt-tab mode, you'll be returned
\* to previous state" (config.def.h:22): views, selections and the selected
\* monitor are those from before, if the client it was opened on was seen and
\* has not been freed.
CancelReturns == [][Leaves /\ sw.highlight = None /\ OriginSeen =>
    view' = before.view /\ SelectionsBut(None) /\ selmon' = before.selmon]_vars

\* However the switcher is left, the windows are as the user asked: the chosen
\* client is selected (ChosenSelected), or nothing has changed (CancelReturns).
LeftAsAsked == ChosenSelected /\ CancelReturns
=============================================================================
