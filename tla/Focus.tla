-------------------------------- MODULE Focus --------------------------------
(***************************************************************************)
(* Selection and input focus in dwm-dunc (dwm.c): which client a monitor   *)
(* selects, which monitor is selected, and which window X sends the keys   *)
(* to, as changed by the functions the event and key handlers share.       *)
(***************************************************************************)
EXTENDS ClientLists

CONSTANT ViewOnTag    \* viewontag: follow a client that is sent away

ASSUME ViewOnTagAssumption == ViewOnTag \in BOOLEAN

\* Mutant: the client asked for is not checked to be in view.
GetFocusableUnseen(s, m, c, force) ==
    IF c # None /\ c \notin s.hidden /\ (c \in NeverFocus => force) THEN c
    ELSE IF s.sel[m] \in Usable(s, m) THEN s.sel[m]
    ELSE FirstIn(s.stack[m], Usable(s, m) \ {c})

\* Mutant: a client that is asked for is focused when it is minimized.
GetFocusableHidden(s, m, c, force) ==
    IF c # None /\ Visible(s, c) /\ (c \in NeverFocus => force) THEN c
    ELSE IF s.sel[m] \in Usable(s, m) THEN s.sel[m]
    ELSE FirstIn(s.stack[m], Usable(s, m) \ {c})

\* Mutant: no fallback to the stack.
GetFocusableNoFallback(s, m, c, force) ==
    IF c # None /\ Visible(s, c) /\ c \notin s.hidden /\ (c \in NeverFocus => force) THEN c
    ELSE IF s.sel[m] \in Usable(s, m) THEN s.sel[m]
    ELSE None

\* getfocusable: c itself when it can be focused, else what m selects, else
\* the first usable client of m's stack.
GetFocusable(s, m, c, force) ==
    LET ok == /\ c # None
              /\ Visible(s, c)
              /\ c \notin s.hidden
              /\ c \in NeverFocus => force
    IN  IF ok THEN c
        ELSE IF s.sel[m] \in Usable(s, m) THEN s.sel[m]
        ELSE FirstIn(s.stack[m], Usable(s, m) \ {c})

\* setfocus: a neverfocus client is selected without getting the X focus.
SetFocus(s, c) ==
    [s EXCEPT !.xfocus = IF c \in NeverFocus THEN @ ELSE c]

\* focus(c, force), c = None for NULL.
Focus(s, arg, force) ==
    LET m == IF arg = None THEN s.selmon ELSE s.mon[arg]
        c == GetFocusable(s, m, arg, force)
        raised == AttachStackEx(DetachStackEx(s, c), c)
        onTag == [t \in Tag |-> IF m \in Monocle /\ t \in s.tags[c] THEN c
                                ELSE s.focusontag[m][t]]
    IN  IF c = None
        THEN [s EXCEPT !.xfocus = None, !.sel[s.selmon] = None]
        ELSE SetFocus([raised EXCEPT !.focusontag[m] = onTag, !.selmon = m, !.sel[m] = c], c)

\* focusmonex: the selected monitor changes, the X focus does not.
FocusMonEx(s, m) == [s EXCEPT !.selmon = m]

\* The clients getclientatcoords can find on monitor m, where the pointer is.
AtCoords(s, m, focusable) ==
    (IF focusable THEN Usable(s, m) ELSE Shown(s, m)) \cup {None}

\* checkmouseoverclient: most commands first select the monitor the pointer
\* is on and the client under it.
CheckMouseOverClient(s, m, at) ==
    LET r == IF m = s.selmon THEN s ELSE FocusMonEx(s, m)
    IN  IF at = None THEN r ELSE Focus(r, at, TRUE)

\* checkmouseovermonitor
CheckMouseOverMonitor(s, m) ==
    IF m = s.selmon THEN s ELSE Focus(FocusMonEx(s, m), None, FALSE)

\* viewmontag. An empty mask returns to the previous one. Under switchmon, or
\* on the selected monitor, the client remembered for the tag is focused.
ViewMonTag(s, m, mask, switchmon) ==
    LET cur == s.view[m].cur
        new == IF mask = {} THEN s.view[m].alt ELSE mask
        leaving == [s EXCEPT !.focusontag[m][TagToIndex(cur)] = s.sel[m]]
        r == [leaving EXCEPT !.view[m] = [cur |-> new, alt |-> cur]]
        c == r.focusontag[m][TagToIndex(new)]
        known == c # None /\ r.mon[c] = m /\ Visible(r, c)
    IN  IF mask = cur THEN s
        ELSE IF switchmon \/ m = s.selmon
        THEN Focus(r, IF known THEN c ELSE None, known)
        ELSE [r EXCEPT !.sel[m] = GetFocusable(r, m, r.sel[m], FALSE)]

\* Mutant: the toggled view may be empty.
ToggleViewExBlank(s, m, mask) ==
    LET cur == s.view[m].cur
    IN  Focus([s EXCEPT !.view[m].cur = (cur \ mask) \cup (mask \ cur)], None, FALSE)

\* toggleviewex
ToggleViewEx(s, m, mask) ==
    LET cur == s.view[m].cur
        toggled == (cur \ mask) \cup (mask \ cur)
    IN  IF toggled = {} THEN s
        ELSE Focus([s EXCEPT !.view[m].cur = toggled], None, FALSE)

\* toggletagex, c = None for NULL.
ToggleTagEx(s, c, mask) ==
    LET toggled == (s.tags[c] \ mask) \cup (mask \ s.tags[c])
    IN  IF c = None \/ toggled = {} THEN s
        ELSE Focus([s EXCEPT !.tags[c] = toggled], None, FALSE)

\* sendmon: c goes to monitor m and takes its tags; leader is the client the
\* command was given for.
SendMon(s, c, m, leader) ==
    LET sel == leader # None /\ leader = s.sel[s.mon[c]]
        moved == [DetachStack(Detach(s, c), c) EXCEPT
                      !.mon[c] = m, !.tags[c] = s.view[m].cur]
        put == IF m \in Monocle
               THEN [AttachStackEx(Attach(moved, c), c) EXCEPT !.sel[m] = c]
               ELSE AttachStackBelow(AttachBelow(moved, c), c)
        followed == Focus([put EXCEPT !.sel[m] = leader, !.selmon = m], leader, TRUE)
        left == Focus(put, None, FALSE)
        onTag == [t \in Tag |-> IF t \in put.tags[c] THEN c ELSE left.focusontag[m][t]]
        stayed == [left EXCEPT !.focusontag[m] = onTag]
    IN  CASE s.mon[c] = m -> s
          [] s.mon[c] # m /\ ~sel -> put
          [] OTHER -> IF ViewOnTag THEN followed ELSE stayed

\* sethidden(c, hidden): minimize forgets the client on every tag, and the
\* X server takes the focus from a window that is unmapped.  It returns early
\* for a client that is minimized already, and leaves the monitor's selection
\* to the caller.
SetHidden(s, c, hidden) ==
    IF ~hidden THEN [s EXCEPT !.hidden = @ \ {c}]
    ELSE IF c \in s.hidden THEN s
    ELSE [ForgetOnTag(s, c) EXCEPT
             !.hidden = @ \cup {c}, !.xfocus = IF @ = c THEN None ELSE @]

\* guessnextfocus after c lost its place on monitor m, with the pointer on
\* monitor pm. Which candidate it picks depends on geometry: the previous
\* selection or the parent when the pointer is in it, the client under the
\* pointer, or the fallback.
GuessNextFocus(s, c, m, pm) ==
    LET near == {d \in Shown(s, m) : m = pm \/ d \in s.floating}
        under == AtCoords(s, pm, TRUE) \ {c, None}
    IN  (near \ {c}) \cup under \cup {GetFocusable(s, m, None, FALSE)}
=============================================================================
