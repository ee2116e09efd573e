------------------------------ MODULE Handlers ------------------------------
(***************************************************************************)
(* The event and command handlers of dwm-dunc (dwm.c) that change which    *)
(* clients are managed, where they are listed, what is viewed and what is  *)
(* selected.  dwm runs one handler at a time to its end, so a handler is   *)
(* one action; what is not ordered is what it reacts to: the X clients map *)
(* and destroy windows when they like, the pointer may be anywhere when a  *)
(* command runs, and an event may be about a client that has since been    *)
(* hidden or left the view.                                                *)
(***************************************************************************)
EXTENDS Focus

CONSTANTS
    ViewMasks,    \* bound: the masks of view, tag and of the rules' tags
    ToggleMasks,  \* bound: the masks of toggleview and toggletag
    MayFloat,     \* bound: the clients that are ever floating
    MayHide       \* bound: the clients that are ever hidden

ASSUME MaskAssumption == ViewMasks \subseteq Mask /\ ToggleMasks \subseteq Mask
ASSUME BoundAssumption == MayFloat \subseteq Client /\ MayHide \subseteq Client

VARIABLE wm

FirstView == [cur |-> {TagToIndex(Tag)}, alt |-> {TagToIndex(Tag)}]

Init ==
    \E m \in Monitor :
        wm = [clients |-> [n \in Monitor |-> <<>>],
              stack |-> [n \in Monitor |-> <<>>],
              mon |-> [c \in Client |-> None],
              tags |-> [c \in Client |-> {}],
              floating |-> {},
              hidden |-> {},
              sel |-> [n \in Monitor |-> None],
              selmon |-> m,
              view |-> [n \in Monitor |-> FirstView],
              focusontag |-> [n \in Monitor |-> [t \in Tag |-> None]],
              xfocus |-> None]

-----------------------------------------------------------------------------
(* manage: a new window, with the attributes its hints and the rules gave  *)
(* it: the monitor and tags (its view when the rules name none), isfloating,*)
(* ishidden, autofocus, newmaster, isurgent.                               *)

\* Mutant: the tags are not masked with TAGMASK.
NewClientUnmasked(s, c, m, mask, float, hide) ==
    [s EXCEPT !.mon[c] = m,
              !.tags[c] = s.view[m].cur \cup mask \cup {0},
              !.floating = IF float THEN @ \cup {c} ELSE @ \ {c},
              !.hidden = IF hide THEN @ \cup {c} ELSE @ \ {c}]

NewClient(s, c, m, mask, float, hide) ==
    [s EXCEPT !.mon[c] = m,
              !.tags[c] = IF mask = {} THEN s.view[m].cur ELSE mask,
              !.floating = IF float THEN @ \cup {c} ELSE @ \ {c},
              !.hidden = IF hide THEN @ \cup {c} ELSE @ \ {c}]

\* Whether the new client may take the focus (s: before it is listed).
TakeFocus(s, c, autofocus, newmaster, urgent) ==
    LET m == s.mon[c]
    IN  /\ c \notin s.hidden
        /\ IF c \in s.floating THEN autofocus ELSE newmaster \/ m \in Monocle
        /\ (Visible(s, c) /\ m = s.selmon) \/ urgent

ManageAttach(s, c, newmaster) ==
    IF newmaster \/ (Visible(s, c) /\ s.mon[c] \in Monocle)
    THEN AttachStack(Attach(s, c), c)
    ELSE AttachStackBelow(AttachBelow(s, c), c)

\* Mutant: the monitor is selected, the tags are not brought into view.
ManageUrgentNoView(s, c) == [s EXCEPT !.selmon = s.mon[c]]

\* An urgent client brings its monitor and its tags into view.
ManageUrgent(s, c) ==
    LET viewed == IF Visible(s, c) THEN s
                  ELSE ViewMonTag(s, s.mon[c], s.tags[c], FALSE)
    IN  [viewed EXCEPT !.selmon = s.mon[c]]

\* The floating client that maps over a selected floating one is focused by
\* focus(c, 0), any other by focus(c, 1).
ManageFocus(s, c) ==
    LET sel == s.sel[s.selmon]
        overFloating == c \in s.floating /\ sel # None /\ sel \in s.floating
        placed == IF overFloating /\ s.mon[c] # s.selmon
                  THEN [s EXCEPT !.sel[s.mon[c]] = c]
                  ELSE s
    IN  IF c \in NeverFocus
        THEN Focus(s, None, FALSE)
        ELSE Focus(placed, c, ~overFloating)

Manage(c, m, mask, float, hide, autofocus, newmaster, urgent) ==
    LET new == NewClient(wm, c, m, mask, float, hide)
        takefocus == TakeFocus(new, c, autofocus, newmaster, urgent)
        listed == ManageAttach(new, c, newmaster)
    IN  /\ wm.mon[c] = None
        /\ wm' = IF ~takefocus THEN listed
                 ELSE IF urgent THEN ManageFocus(ManageUrgent(listed, c), c)
                 ELSE ManageFocus(listed, c)

-----------------------------------------------------------------------------
(* unmanage: the window was unmapped or destroyed.                         *)

\* The record without c: detach, detachstack, removelinks; nothing reaches
\* c any more, so its fields are cleared here and not after the focus moved.
\* The X server reverts the focus of a window that goes away.
Freed(s, c) ==
    LET r == DetachStack(Detach(SetHidden(s, c, FALSE), c), c)
    IN  [r EXCEPT !.mon[c] = None,
                  !.tags[c] = {},
                  !.floating = @ \ {c},
                  !.xfocus = IF @ = c THEN None ELSE @]

\* The client that follows a focused one of monitor m on the screen; pm is
\* where the pointer is, guess what guessnextfocus returned.
FocusAfter(s, m, pm, guess) ==
    LET r == [s EXCEPT !.selmon = pm]
        n == r.mon[guess]
        shownElsewhere ==
            ViewMonTag([r EXCEPT !.sel[n] = guess], n, r.tags[guess], FALSE)
    IN  IF (m # pm /\ r.sel[pm] # None) \/ guess = None THEN Focus(r, None, FALSE)
        ELSE IF n # pm THEN Focus(shownElsewhere, None, FALSE)
        ELSE Focus(r, guess, FALSE)

Unmanage(c, destroyed, pm, guess) ==
    LET m == wm.mon[c]
        wasfocused == Visible(wm, c) /\ c = wm.sel[wm.selmon]
        freed == Freed(wm, c)
        rooted == IF wasfocused /\ ~destroyed THEN [freed EXCEPT !.xfocus = None] ELSE freed
    IN  /\ m # None
        /\ IF wasfocused
           THEN /\ guess \in GuessNextFocus([rooted EXCEPT !.selmon = pm], c, m, pm)
                /\ wm' = FocusAfter(rooted, m, pm, guess)
           ELSE guess = None /\ pm = wm.selmon /\ wm' = rooted

-----------------------------------------------------------------------------
(* Commands.  pm is the monitor the pointer is on, at the client under it. *)

View(pm, mask) ==
    LET s == CheckMouseOverMonitor(wm, pm)
    IN  wm' = ViewMonTag(s, s.selmon, mask, TRUE)

ToggleView(pm, mask) ==
    LET s == CheckMouseOverMonitor(wm, pm)
    IN  wm' = ToggleViewEx(s, s.selmon, mask)

\* With viewontag the view follows the client, unless it got every tag.
TagClient(pm, at, mask, guess) ==
    LET s == CheckMouseOverClient(wm, pm, at)
        c == s.sel[s.selmon]
        tagged == Focus([s EXCEPT !.tags[c] = mask], None, FALSE)
        follow == ViewOnTag /\ mask # Tag
    IN  /\ at \in AtCoords(wm, pm, FALSE)
        /\ mask # {}
        /\ IF c = None THEN wm' = s /\ guess = None
           ELSE /\ guess \in GuessNextFocus(tagged, c, tagged.selmon, pm)
                /\ wm' = IF follow
                         THEN Focus(ViewMonTag(tagged, tagged.selmon, mask, TRUE), c, FALSE)
                         ELSE IF Visible(tagged, c) \/ guess = None THEN tagged
                         ELSE Focus(tagged, guess, FALSE)

ToggleTag(pm, at, mask) ==
    LET s == CheckMouseOverClient(wm, pm, at)
    IN  /\ at \in AtCoords(wm, pm, FALSE)
        /\ wm' = ToggleTagEx(s, s.sel[s.selmon], mask)

\* dirtomon picks a neighbour.
TagMon(pm, at, m) ==
    LET s == CheckMouseOverClient(wm, pm, at)
        c == s.sel[s.selmon]
    IN  /\ at \in AtCoords(wm, pm, FALSE)
        /\ m # s.selmon
        /\ wm' = IF c = None THEN s ELSE SendMon(s, c, m, c)

FocusMon(m) ==
    /\ m # wm.selmon
    /\ LET s == FocusMonEx(wm, m) IN wm' = Focus(s, s.sel[m], FALSE)

\* The next usable client in the layout order, around the end, or the
\* previous one.
FocusStack(pm, next) ==
    LET s == CheckMouseOverMonitor(wm, pm)
        m == s.selmon
        q == s.clients[m]
        S == Usable(s, m)
        from == IF s.sel[m] # None THEN s.sel[m] ELSE FirstIn(s.stack[m], Client)
        near == IF next THEN FirstIn(After(q, from), S) ELSE LastIn(Before(q, from), S)
        c == IF near # None THEN near ELSE IF next THEN FirstIn(q, S) ELSE LastIn(q, S)
    IN  wm' = IF from = None \/ c \in {None, from} THEN s ELSE Focus(s, c, FALSE)

\* A tiled client becomes the head of the layout; the head changes places
\* with the second.
Zoom(pm, at) ==
    LET s == CheckMouseOverClient(wm, pm, at)
        m == s.selmon
        c == s.sel[m]
        S == Tiled(s, m)
        t == IF c = FirstIn(s.clients[m], S) THEN FirstIn(After(s.clients[m], c), S) ELSE c
    IN  /\ at \in AtCoords(wm, pm, FALSE)
        /\ wm' = IF c = None \/ c \in s.floating THEN s
                 ELSE IF t = None THEN s
                 ELSE Focus(Attach(Detach(s, t), t), t, TRUE)

\* Mutant: the client changes places with its neighbour.
MoveTiledSwap(pm, at, down) ==
    LET s == CheckMouseOverClient(wm, pm, at)
        m == s.selmon
        c == s.sel[m]
        q == s.clients[m]
        d == IF down THEN FirstIn(After(q, c), Tiled(s, m)) ELSE LastIn(Before(q, c), Tiled(s, m))
    IN  /\ at \in AtCoords(wm, pm, FALSE)
        /\ wm' = IF c = None \/ c \in s.floating \/ d = None THEN s
                 ELSE Focus([s EXCEPT !.clients[m] =
                          [@ EXCEPT ![Position(q, c)] = d, ![Position(q, d)] = c]], c, TRUE)

\* One place down or up among the tiled clients, then focus(c, 1).
MoveTiled(pm, at, down) ==
    LET s == CheckMouseOverClient(wm, pm, at)
        m == s.selmon
        c == s.sel[m]
        S == Tiled(s, m)
        q == s.clients[m]
        d == IF down THEN FirstIn(After(q, c), S) ELSE LastIn(Before(q, c), S)
        t == IF down THEN d ELSE LastIn(Before(q, d), S)
        r == Detach(s, c)
        moved == IF t = None THEN Attach(r, c)
                 ELSE [r EXCEPT !.clients[m] = PutAfter(@, t, c)]
    IN  /\ at \in AtCoords(wm, pm, FALSE)
        /\ wm' = IF c = None \/ c \in s.floating THEN s
                 ELSE Focus(IF d = None THEN s ELSE moved, c, TRUE)

ToggleFloating(pm, at) ==
    LET s == CheckMouseOverClient(wm, pm, at)
        c == s.sel[s.selmon]
    IN  /\ at \in AtCoords(wm, pm, FALSE)
        /\ c \in MayFloat \cup {None}
        /\ wm' = IF c = None THEN s ELSE
                 [s EXCEPT !.floating = IF c \in @ THEN @ \ {c} ELSE @ \cup {c}]

\* hidewin: the selected client; the next or previous tiled one follows it.
HideWin(pm, at) ==
    LET s == CheckMouseOverClient(wm, pm, at)
        m == s.selmon
        c == s.sel[m]
        r == SetHidden(s, c, TRUE)
        after == FirstIn(After(r.clients[m], c), Tiled(r, m))
        before == LastIn(Before(r.clients[m], c), Tiled(r, m))
        h == IF c \in s.floating THEN None
             ELSE IF after # None THEN after ELSE before
    IN  /\ at \in AtCoords(wm, pm, FALSE)
        /\ c \in MayHide \cup {None}
        /\ wm' = IF c = None \/ c \in s.hidden THEN s ELSE Focus(r, h, FALSE)

\* hidewin with an argument: every other shown client of the monitor.
HideOthers(pm, at) ==
    LET s == CheckMouseOverClient(wm, pm, at)
        m == s.selmon
        H == Shown(s, m) \ {s.sel[m]}
        kept == [t \in Tag |-> IF s.focusontag[m][t] \in H THEN None ELSE s.focusontag[m][t]]
        r == [s EXCEPT !.hidden = @ \cup H,
                       !.focusontag[m] = kept,
                       !.xfocus = IF @ \in H THEN None ELSE @]
    IN  /\ at \in AtCoords(wm, pm, FALSE)
        /\ s.sel[m] # None
        /\ H # {} /\ H \subseteq MayHide
        /\ wm' = Focus(r, None, FALSE)

\* unhidewin: every hidden client of the view comes back, then the focus
\* goes to the client under the pointer.
UnhideWin(pm, under) ==
    LET s == CheckMouseOverMonitor(wm, pm)
        m == s.selmon
        H == {c \in s.hidden : s.mon[c] = m /\ Visible(s, c)}
        r == Focus([s EXCEPT !.hidden = @ \ H], None, FALSE)
    IN  /\ H # {}
        /\ under \in Usable(r, m) \cup {None}
        /\ wm' = IF under = r.sel[m] THEN r ELSE Focus(r, under, FALSE)

-----------------------------------------------------------------------------
(* Events.                                                                 *)

\* enternotify for a client's window.
EnterClient(c) ==
    LET sel == wm.sel[wm.selmon]
    IN  /\ wm.mon[c] # None
        /\ c # sel
        /\ wm' = IF c \in NeverFocus
                 THEN Focus(wm, sel, TRUE)
                 ELSE Focus(FocusMonEx(wm, wm.mon[c]), c, FALSE)

\* enternotify for the bar of a monitor.
EnterBar(m) ==
    /\ m # wm.selmon
    /\ wm' = Focus(FocusMonEx(wm, m), None, FALSE)

\* clientmessage _NET_ACTIVE_WINDOW, when switching is allowed.
ActiveWindowMessage(c) ==
    /\ wm.mon[c] # None
    /\ c # wm.sel[wm.selmon]
    /\ wm' = Focus(IF Visible(wm, c) THEN [wm EXCEPT !.selmon = wm.mon[c]]
                   ELSE ViewMonTag(wm, wm.mon[c], wm.tags[c], TRUE), c, TRUE)

\* clientmessage _NET_WM_STATE_HIDDEN: the client hides or shows itself, and
\* stays what its monitor selects.
HiddenMessage(c, on) ==
    /\ c \in MayHide /\ wm.mon[c] # None
    /\ wm' = SetHidden(wm, c, on)

\* propertynotify, when the client wrote its state and updatewindowstate finds
\* hidden to differ from ishidden: it hides the client, whichever it found.
\* Only a selected client that is out of view makes the focus move on.
HiddenProperty(c) ==
    LET r == SetHidden(wm, c, TRUE)
    IN  /\ c \in MayHide /\ wm.mon[c] # None
        /\ wm' = IF c = r.sel[r.selmon] /\ ~Visible(r, c) THEN Focus(r, None, FALSE) ELSE r

-----------------------------------------------------------------------------

Map ==
    \E c \in Client, m \in Monitor, mask \in ViewMasks,
       float, hide, autofocus, newmaster, urgent \in BOOLEAN :
        /\ float => c \in MayFloat
        /\ hide => c \in MayHide
        /\ Manage(c, m, mask, float, hide, autofocus, newmaster, urgent)

Unmap ==
    \E c \in Client, destroyed \in BOOLEAN, pm \in Monitor, guess \in Client \cup {None} :
        Unmanage(c, destroyed, pm, guess)

TagCommand ==
    \E pm \in Monitor :
        \/ \E mask \in ViewMasks : View(pm, mask)
        \/ \E mask \in ToggleMasks : ToggleView(pm, mask)
        \/ \E at \in AtCoords(wm, pm, FALSE) :
            \/ \E mask \in ViewMasks, guess \in Client \cup {None} :
                  TagClient(pm, at, mask, guess)
            \/ \E mask \in ToggleMasks : ToggleTag(pm, at, mask)
            \/ \E m \in Monitor : TagMon(pm, at, m)

FocusCommand ==
    \E m \in Monitor :
        \/ FocusMon(m)
        \/ \E next \in BOOLEAN : FocusStack(m, next)

ArrangeCommand ==
    \E pm \in Monitor : \E at \in AtCoords(wm, pm, FALSE) :
        \/ Zoom(pm, at)
        \/ \E down \in BOOLEAN : MoveTiled(pm, at, down)
        \/ ToggleFloating(pm, at)

HideCommand ==
    \E pm \in Monitor :
        \/ \E at \in AtCoords(wm, pm, FALSE) : HideWin(pm, at) \/ HideOthers(pm, at)
        \/ \E under \in Client \cup {None} : UnhideWin(pm, under)

XEvent ==
    \/ \E c \in Client : EnterClient(c) \/ ActiveWindowMessage(c)
    \/ \E m \in Monitor : EnterBar(m)
    \/ \E c \in Client : HiddenProperty(c) \/ \E on \in BOOLEAN : HiddenMessage(c, on)

Next ==
    \/ Map \/ Unmap
    \/ TagCommand \/ FocusCommand \/ ArrangeCommand \/ HideCommand
    \/ XEvent

Spec == Init /\ [][Next]_wm

-----------------------------------------------------------------------------
(* Properties.                                                             *)

TypeOK == wm \in WmState

\* detach and detachstack walk a chain until they meet the client, attach*
\* link it in without looking: whatever the handlers do in between, both
\* chains of a monitor hold each of its clients once and no other client.
ListsAgree ==
    \A m \in Monitor :
        /\ IsChain(wm.clients[m], On(wm, m))
        /\ IsChain(wm.stack[m], On(wm, m))

\* sel and focusontag are pointers nothing validates before it follows them:
\* they point to a client of their own monitor, never to one that was freed
\* or sent to another monitor; and the X focus is on a window that exists.
RefsValid ==
    /\ \A m \in Monitor : wm.sel[m] \in On(wm, m) \cup {None}
    /\ \A m \in Monitor, t \in Tag : wm.focusontag[m][t] \in On(wm, m) \cup {None}
    /\ wm.xfocus \in Managed(wm) \cup {None}

\* No sequence of view and toggleview leaves a monitor, or the view that
\* view(0) returns to, without any tag.
NeverBlank ==
    \A m \in Monitor : wm.view[m].cur # {} /\ wm.view[m].alt # {}

\* What a monitor selects is on its screen: killclient, tag, togglefloating
\* and the rest act on sel, so a selection out of sight is a wrong victim.
SelShown ==
    \A m \in Monitor : wm.sel[m] # None => wm.sel[m] \in Shown(wm, m)

\* The keys never go to a window that is not on the screen, or to one that
\* must not have them.
XFocusShown ==
    wm.xfocus # None => wm.xfocus \in Shown(wm, wm.mon[wm.xfocus]) \ NeverFocus

\* What the keys and the commands act on is on the screen (SelShown,
\* XFocusShown).
OnScreen == SelShown /\ XFocusShown

\* While the selected monitor stays and has a client to select, no handler
\* leaves it without a selected client.
SelectionKept ==
    LET m == wm.selmon
    IN  m = wm'.selmon /\ wm.sel[m] # None /\ Usable(wm', m) # {}
          => wm'.sel[m] # None

KeepsSelection == [][SelectionKept]_wm

\* A client that minimizes itself stays selected, and viewmontag remembers it
\* for its tag.  No handler selects one anew: what a monitor begins to select,
\* of the clients it had, is on its screen.
SelectsShown ==
    \A m \in Monitor :
        LET c == wm'.sel[m]
        IN  c \notin {None, wm.sel[m]} /\ wm.mon[c] = m => c \in Shown(wm', m)

PicksShown == [][SelectsShown]_wm

\* A handler moves at most one client in the layout order: the others keep
\* their order, whatever is inserted and removed around them.
OneMove ==
    \E d \in Client \cup {None} : \A m \in Monitor : \A x, y \in Client \ {d} :
        Ahead(wm.clients[m], x, y) => ~Ahead(wm'.clients[m], y, x)

OneMoves == [][OneMove]_wm

\* The views, the selected monitor, its client and the X focus are left alone.
Undisturbed ==
    /\ wm'.view = wm.view
    /\ wm'.selmon = wm.selmon
    /\ wm'.sel[wm.selmon] = wm.sel[wm.selmon]
    /\ wm'.xfocus = wm.xfocus

\* The client managed, or freed, by a step.
Maps(c) == wm.mon[c] = None /\ wm'.mon[c] # None
Unmaps(c) == wm.mon[c] # None /\ wm'.mon[c] = None

\* A new client is focused and on the screen, or disturbs nothing: no
\* combination of rules, layout and urgency leaves it halfway. One that must
\* not have the focus may take the selected monitor along and go unselected.
MapIsQuiet ==
    \A c \in Client \ NeverFocus : Maps(c) =>
        \/ Undisturbed
        \/ c = wm'.sel[wm'.selmon] /\ c \in Shown(wm', wm'.selmon)

\* A client that goes away without having been selected disturbs nothing.
UnmapIsQuiet ==
    \A c \in Client :
        Unmaps(c) /\ c # wm.sel[wm.selmon] /\ c # wm.xfocus => Undisturbed

\* Clients that come and go on their own do not take the user away from what
\* is done.
Quiet == [][MapIsQuiet /\ UnmapIsQuiet]_wm
=============================================================================
