--------------------------------- MODULE Bar ---------------------------------
(***************************************************************************)
(* The bar of one monitor: drawbar and what it draws where, updatestatus,  *)
(* the place of the system tray, and buttonpress, which finds out from the *)
(* sizes drawbar has left what is under the pointer (src/dwm.c).           *)
(*                                                                         *)
(* drawbar draws every element into a pixmap, the status from the right    *)
(* end and the others from the left, and then copies them to the bar       *)
(* window in the order of barlayout. With skiptags the tags and the layout *)
(* symbol are left on the window as they are. The pixmap is shared with    *)
(* the other monitors' bars, so nothing is known of what was there.        *)
(*                                                                         *)
(*   tags[c], urgent    the tags of the monitor's clients, {} for one that *)
(*                      is not there; the clients with isurgent set        *)
(*   view               tagset[seltags]                                    *)
(*   selected           the monitor is selmon                              *)
(*   text               stext: the widths of its blocks, each with its     *)
(*                      signal in front                                    *)
(*   icons              the width of the tray's icons                      *)
(*   alttags, lt, desk  alttags, the symbol's width, and whether the       *)
(*                      button that shows the desktop is there             *)
(*   pending            clients whose WM_HINTS have been set by seturgent, *)
(*                      with the PropertyNotify still to come              *)
(*   bar, tagw, stw     the fields of the monitor                          *)
(*   shown              the bar window: what is seen at every pixel        *)
(*   tray               the place of the tray's window                     *)
(*                                                                         *)
(* Bounds: TagBar is an element of every layout, no tag icons, no fixed    *)
(* status monitor, the tray follows the selected monitor, one bar.         *)
(***************************************************************************)
EXTENDS Integers, Sequences, FiniteSets, SequencesExt

CONSTANTS
    MW,          \* m->mw
    BH,          \* m->bh
    Pad,         \* lrpad / 2
    NTags,       \* LENGTH(tags)
    Low,         \* the tags of the bits of 255, which buttonpress has for all of them
    Clients,
    Taggings,    \* bound: the sets of tags a client may have, {} for none
    NameW, AltW, \* widths of a tag's name and of its alternative
    MasterW,     \* width added by the master client's class, 0 without showmaster
    DeskW,       \* width of the button's text
    Texts,       \* the status texts
    Symbols,     \* the widths of layout symbols
    IconSets,    \* the widths of icons together
    PanelL, PanelR,  \* the widths of the panels at the ends, px and pw
    BarLayout,   \* m->barlayout
    HideVacant,  \* m->hidevacant
    Left,        \* systrayonleft
    Hinted       \* the clients that have WM_HINTS

ASSUME SizeAssumption == MW \in Nat /\ Pad \in Nat /\ NTags \in Nat \ {0}
ASSUME TextAssumption == \A t \in Texts : t # <<>>

\* The elements in the order of m->bar, which buttonpress looks through.
Elements == <<"StatusText", "LtSymbol", "TagBar", "WinTitle", "ShowDesktop">>
Tags == 1 .. NTags
Pixels == 0 .. MW - 1

ASSUME TagsAssumption == Taggings \subseteq SUBSET Tags /\ Low \subseteq Tags

VARIABLES tags, urgent, view, selected, text, icons, alttags, lt, desk, pending,
          bar, tagw, stw, shown, tray
env == <<tags, urgent, view, selected, text, icons, alttags, lt, desk, pending>>
vars == <<env, bar, tagw, stw, shown, tray>>

\* The state drawbar works on.
State == [tags |-> tags, urgent |-> urgent, view |-> view, selected |-> selected,
          text |-> text, icons |-> icons, alttags |-> alttags, lt |-> lt, desk |-> desk,
          bar |-> bar, tagw |-> tagw, stw |-> stw, shown |-> shown, tray |-> tray]

Becomes(s) ==
    /\ tags' = s.tags /\ urgent' = s.urgent /\ view' = s.view /\ selected' = s.selected
    /\ text' = s.text /\ icons' = s.icons /\ alttags' = s.alttags /\ lt' = s.lt
    /\ desk' = s.desk /\ bar' = s.bar /\ tagw' = s.tagw /\ stw' = s.stw
    /\ shown' = s.shown /\ tray' = s.tray

-----------------------------------------------------------------------------
(* Widths.                                                                 *)

TEXTW(w) == w + 2 * Pad

\* An int compared with an unsigned int: below zero is above every size.
Unsigned(n) == IF n < 0 THEN 2 ^ 16 ELSE n

\* f(1) + ... + f(n).
Sum(f(_), n) ==
    LET upto[k \in 0 .. n] == IF k = 0 THEN 0 ELSE upto[k - 1] + f(k) IN upto[n]

\* Where the text of the k-th block begins, from the start of the text; an
\* empty block takes no room.
BlockAt(txt, k) ==
    Pad + Sum(LAMBDA i : IF txt[i] = 0 THEN 0 ELSE txt[i] + Pad, k - 1)

\* m->bar[StatusText].w without the tray.
StatusW(txt) == BlockAt(txt, Len(txt)) + txt[Len(txt)] + Pad + 2

\* getsystraywidth, 0 where the tray is another monitor's.
TrayW(s) == IF ~s.selected THEN 0 ELSE IF s.icons = 0 THEN 1 ELSE s.icons

\* A tag that is not drawn when vacant tags are hidden. Clients with all tags
\* do not make one occupied.
Occupied(s) == UNION {s.tags[c] : c \in {d \in Clients : s.tags[d] # Tags}}
Vacant(s, t) == HideVacant /\ t \notin Occupied(s) \cup s.view

\* The shorter of the name and its alternative is given the room of the other.
TagW(s, t) ==
    LET spare == IF NameW > AltW THEN IF s.alttags THEN NameW - AltW ELSE 0
                 ELSE IF s.alttags THEN 0 ELSE AltW - NameW
    IN  TEXTW((IF s.alttags THEN AltW ELSE NameW)
              + (IF \E c \in Clients : t \in s.tags[c] THEN MasterW ELSE 0)) + spare

\* The colours of a tag.
Mark(s, t) ==
    CASE \E c \in s.urgent : t \in s.tags[c] -> "SchemeUrg"
      [] (\A c \in s.urgent : t \notin s.tags[c]) /\ t \in s.view -> "SchemeTag"
      [] OTHER -> "SchemeTagBar"

-----------------------------------------------------------------------------
(* drawbar. A strip is a part of the pixmap; a later one covers an earlier.*)

Strip(x, w, what) == [x |-> x, w |-> w, what |-> what]

Seen(strips, p) ==
    LET over == {i \in DOMAIN strips : strips[i].x <= p /\ p < strips[i].x + strips[i].w}
    IN  IF over = {} \/ p < 0 THEN <<"old">> ELSE strips[Max(over)].what

\* updatesystray: the tray's window is placed by the status as last drawn.
Tray(s) ==
    IF ~s.selected THEN s
    ELSE LET at == s.bar["StatusText"] IN
         [s EXCEPT !.tray = [x |-> IF Left THEN at.x + 1 ELSE at.x + at.w - TrayW(s),
                             w |-> TrayW(s)]]

\* The status, against the right end; other monitors' bars have none.
Status(s) ==
    LET w == IF s.selected THEN StatusW(s.text) + s.stw ELSE s.stw
    IN  [s EXCEPT !.bar["StatusText"] = [x |-> MW - w - PanelR, w |-> w]]

StatusStrips(s) ==
    LET at == s.bar["StatusText"]
        from == at.x + IF Left THEN s.stw ELSE 0
        blocks == [k \in DOMAIN s.text |->
                      Strip(from + BlockAt(s.text, k), s.text[k], <<"StatusText", k>>)]
    IN  <<Strip(at.x, MW - at.x, <<"StatusText", 0>>)>>
        \o (IF s.selected THEN blocks ELSE <<>>)
        \o <<Strip(IF Left THEN at.x ELSE at.x + at.w - s.stw, s.stw, <<"tray">>)>>

\* The button for the desktop, in front of the status; customwidth is its width.
Custom(s) == IF s.desk THEN TEXTW(DeskW) ELSE 0
Desktop(s) ==
    [s EXCEPT !.bar["ShowDesktop"] =
        IF s.desk THEN [x |-> s.bar["StatusText"].x - Custom(s), w |-> Custom(s)]
        ELSE [@ EXCEPT !.w = 0]]

\* What the elements from the left have to end at. As an unsigned number it is
\* none at all when the status is wider than the bar.
Limit(s) == Unsigned(s.bar["StatusText"].x - Custom(s))

\* Where the t-th tag begins: the widths before it, none past the limit.
TagX(s, t) ==
    LET limit == Limit(s)
        end[u \in 0 .. NTags] ==
            IF u = 0 THEN PanelL
            ELSE IF Vacant(s, u) \/ end[u - 1] >= limit THEN end[u - 1]
            ELSE Min({end[u - 1] + TagW(s, u), limit})
    IN  end[t - 1]

TagBar(s) ==
    [s EXCEPT !.tagw = [t \in Tags |-> TagX(s, t + 1) - TagX(s, t)],
              !.bar["TagBar"] = [x |-> PanelL, w |-> TagX(s, NTags + 1) - PanelL]]

TagStrips(s) == [t \in Tags |-> Strip(TagX(s, t), s.tagw[t], <<"TagBar", t, Mark(s, t)>>)]

\* The symbol of the layout, after the tags.
LtSymbol(s) ==
    LET x == s.bar["TagBar"].x + s.bar["TagBar"].w
        w == IF x + TEXTW(s.lt) > Limit(s) THEN Limit(s) - x ELSE TEXTW(s.lt)
    IN  [s EXCEPT !.bar["LtSymbol"] = IF x > Limit(s) THEN [x |-> -1, w |-> 0]
                                      ELSE [x |-> x, w |-> w]]

\* Mutant of WinTitle: the button behind the title is not taken off its room.
WinTitleWhole(s) ==
    LET x == s.bar["TagBar"].w + s.bar["LtSymbol"].w
        w == s.bar["StatusText"].x - x
    IN  [s EXCEPT !.bar["WinTitle"] = IF w <= BH THEN [x |-> -1, w |-> 0]
                                      ELSE [x |-> x, w |-> w]]

\* The title gets the room that is left. One no wider than the bar is high is
\* left empty, and the width of the tray is taken from it.
WinTitle(s) ==
    LET W(e) == IF s.bar[e].x # -1 THEN s.bar[e].w ELSE 0
        x == W("TagBar") + W("LtSymbol")
        w == s.bar["StatusText"].x - x - Custom(s)
    IN  [s EXCEPT !.bar["WinTitle"] =
            CASE w <= 0 -> [x |-> -1, w |-> 0]
              [] w > BH -> [x |-> x, w |-> w]
              [] OTHER -> [x |-> x, w |-> w - s.stw]]

TitleStrips(s) ==
    LET at == s.bar["WinTitle"] IN
    IF at.x = -1 THEN <<>>
    ELSE <<Strip(at.x, s.bar["StatusText"].x - Custom(s) - at.x, <<"WinTitle">>)>>

\* The elements are copied in the order of barlayout, each behind the one
\* before, the last with what is left of the pixmap; x goes from element to
\* element, and so do their places on the window.
Copied(s, strips, skiptags) ==
    LET kept(e) == skiptags /\ e \in {"TagBar", "LtSymbol"}
        one(t, e) ==
            LET b == t.bar[e]
                w == IF Unsigned(t.x + b.w) > MW THEN MW - t.x ELSE b.w
            IN  CASE kept(e) -> [t EXCEPT !.bar[e].x = t.x, !.x = @ + b.w, !.last = e]
                  [] ~kept(e) /\ t.x >= MW -> [t EXCEPT !.bar[e].w = 0, !.last = e]
                  [] ~kept(e) /\ t.x < MW /\ b.x # -1 /\ b.w # 0 ->
                        [t EXCEPT !.bar[e].x = t.x, !.x = @ + b.w, !.last = e,
                                  !.copies = Append(@, [to |-> t.x, w |-> w, from |-> b.x])]
                  [] OTHER -> [t EXCEPT !.last = e]
        upto[i \in 0 .. Len(BarLayout)] ==
            IF i > 0 THEN one(upto[i - 1], BarLayout[i])
            ELSE [bar |-> s.bar, x |-> PanelL, last |-> "TagBar",
                  copies |-> <<[to |-> 0, from |-> 0, w |->
                      IF PanelL = 0 THEN 0 ELSE s.bar[BarLayout[1]].x]>>]
        all == upto[Len(BarLayout)]
        end == all.bar[all.last].x + all.bar[all.last].w
        copies == IF all.x >= MW THEN all.copies
                  ELSE Append(all.copies, [to |-> all.x, w |-> MW - end, from |-> end])
        onto(p) == {i \in DOMAIN copies : copies[i].to <= p /\ p < copies[i].to + copies[i].w}
        src(p) == LET c == copies[Max(onto(p))] IN c.from + p - c.to
    IN  [s EXCEPT !.bar = all.bar,
                  !.shown = [p \in Pixels |-> IF onto(p) = {} THEN s.shown[p]
                                              ELSE Seen(strips, src(p))]]

\* drawbar: the tags that have no width yet are drawn whatever skiptags says.
drawbar(s, skiptags) ==
    LET trayed == [Tray(s) EXCEPT !.stw = TrayW(s)]
        right == Desktop(Status(trayed))
        skip == skiptags /\ s.bar["TagBar"].w # 0
        left == IF skip THEN right ELSE LtSymbol(TagBar(right))
        done == WinTitle(left)
        sym == done.bar["LtSymbol"]
        but == done.bar["ShowDesktop"]
        strips == StatusStrips(done)
            \o <<Strip(0, PanelL, <<"panel">>), Strip(but.x, but.w, <<"ShowDesktop">>)>>
            \o (IF skip THEN <<>>
                ELSE TagStrips(done) \o <<Strip(sym.x, sym.w, <<"LtSymbol">>)>>)
            \o TitleStrips(done)
            \o <<Strip(IF Left THEN done.bar["StatusText"].x ELSE MW, done.stw, <<"tray">>),
                 Strip(MW - PanelR, PanelR, <<"panel">>)>>
    IN  Copied(done, strips, skip)

\* updatesystray(1): the bar is drawn after the tray has been placed.
updatesystray(s) == IF s.selected THEN drawbar(Tray(s), TRUE) ELSE s
-----------------------------------------------------------------------------
(* buttonpress.                                                            *)

\* The first element, in the order of m->bar, that reaches to p.
Reaches(s, e, p) ==
    LET b == s.bar[e] IN b.x # -1 /\ p >= b.x /\ p <= Unsigned(b.x + b.w)
Zone(s, p) ==
    LET hit == {i \in DOMAIN Elements : Reaches(s, Elements[i], p)}
    IN  IF hit = {} THEN "None" ELSE Elements[Min(hit)]

\* The tag at p, 0 if it is behind the last. The vacancy of tags is found anew,
\* and not by drawbar's test: here it is a client with the tags of 255, eight
\* of the nine in dwm.c, that does not make its tags occupied.
Counted(s) == UNION {s.tags[c] : c \in {d \in Clients : s.tags[d] # Low}}
Present(s, t) == ~HideVacant \/ t \in Counted(s) \cup s.view
TagAt(s, p) ==
    LET end(t) == s.bar["TagBar"].x
                  + Sum(LAMBDA u : IF Present(s, u) THEN s.tagw[u] ELSE 0, t)
        behind == {t \in Tags : p < end(t)}
    IN  IF behind = {} THEN 0 ELSE Min(behind)

\* Mutant of SignalAt: the tray to the left of the text is not counted.
SignalAtLeft(s, p) ==
    Cardinality({k \in DOMAIN s.text : s.bar["StatusText"].x + BlockAt(s.text, k) < p})

\* statussig: the signal of the last block whose end p is not before.
SignalAt(s, p) ==
    LET from == s.bar["StatusText"].x + IF Left THEN s.stw ELSE 0
    IN  Cardinality({k \in DOMAIN s.text : from + BlockAt(s.text, k) < p})

\* The click's monitor is selected, and its bar drawn, before the element is
\* looked for. A tag is viewed, the symbol changes the layout; the other
\* elements change nothing here.
buttonpress ==
    LET s == IF selected THEN State ELSE drawbar([State EXCEPT !.selected = TRUE], FALSE)
        under(e) == {p \in Pixels : Zone(s, p) = e}
    IN  /\ \/ \E t \in {TagAt(s, p) : p \in under("TagBar")} \ {0} :
                 Becomes(drawbar([s EXCEPT !.view = {t}], FALSE))
           \/ \E w \in Symbols :
                 under("LtSymbol") # {} /\ Becomes(drawbar([s EXCEPT !.lt = w], FALSE))
           \/ Becomes(s)
        /\ UNCHANGED pending

-----------------------------------------------------------------------------
(* What changes, and how the bar is drawn then.                            *)

\* updatestatus: the root window's name. Another monitor's bar has no status.
updatestatus(txt) ==
    /\ text # txt
    /\ LET s == [State EXCEPT !.text = txt] IN
       Becomes(IF selected THEN updatesystray(s) ELSE s)
    /\ UNCHANGED pending

\* An icon is docked, is gone, or has another size.
TrayIcons(w) ==
    /\ icons # w
    /\ Becomes(updatesystray([State EXCEPT !.icons = w]))
    /\ UNCHANGED pending

\* A client comes, goes or gets other tags; another view; the button for the
\* desktop; another layout: the monitor is arranged and restacked, and restack
\* draws the bar.
Retag(c, S) ==
    /\ tags[c] # S
    /\ Becomes(drawbar([State EXCEPT !.tags[c] = S,
                                     !.urgent = IF S = {} THEN @ \ {c} ELSE @], FALSE))
    /\ pending' = IF S = {} THEN pending \ {c} ELSE pending
\* Mutant of View: a view leaves the tags as they are.
ViewSkips(S) ==
    view # S /\ Becomes(drawbar([State EXCEPT !.view = S], TRUE)) /\ UNCHANGED pending
\* Another view.
View(S) == view # S /\ Becomes(drawbar([State EXCEPT !.view = S], FALSE)) /\ UNCHANGED pending
DesktopClient ==
    Becomes(drawbar([State EXCEPT !.desk = ~@], FALSE)) /\ UNCHANGED pending
SetLayout(w) ==
    lt # w /\ Becomes(drawbar([State EXCEPT !.lt = w], FALSE)) /\ UNCHANGED pending

\* togglealttags and its key's release.
togglealttags ==
    Becomes(drawbar([State EXCEPT !.alttags = ~@], FALSE)) /\ UNCHANGED pending

\* propertynotify of WM_HINTS: the client's own, or those seturgent has set.
Hints(c, on) ==
    /\ c \in Hinted /\ tags[c] # {} /\ pending = {}
    /\ Becomes(drawbar([State EXCEPT !.urgent = IF on THEN @ \cup {c} ELSE @ \ {c}], FALSE))
    /\ UNCHANGED pending
Notified(c) ==
    /\ c \in pending
    /\ Becomes(drawbar(State, FALSE)) /\ pending' = pending \ {c}

\* clientmessage: a client demands attention. The bar is drawn for a visible
\* one; for the others that is left to the notification of its hints.
Attention(c) ==
    LET s == [State EXCEPT !.urgent = @ \cup {c}] IN
    /\ tags[c] # {} /\ c \notin urgent
    /\ Becomes(IF tags[c] \cap view # {} THEN drawbar(s, FALSE) ELSE s)
    /\ pending' = IF c \in Hinted THEN pending \cup {c} ELSE pending

\* The monitor is left, by the pointer or a key (focusmonex and restack) or by
\* a click on another monitor's bar (buttonpress), or entered: where its
\* selection stays, only what is right of the tags is drawn (enternotify).
Select(on, skiptags) ==
    /\ selected # on
    /\ Becomes(drawbar([State EXCEPT !.selected = on], skiptags))
    /\ UNCHANGED pending

\* expose
expose == Becomes(Tray(drawbar(State, FALSE))) /\ UNCHANGED pending

Init ==
    /\ tags = [c \in Clients |-> {}] /\ urgent = {} /\ view = {1} /\ selected = TRUE
    /\ text \in Texts /\ icons = 0 /\ alttags = FALSE /\ lt \in Symbols /\ desk = FALSE
    /\ pending = {}
    /\ bar = [e \in Range(Elements) |-> [x |-> -1, w |-> 0]]
    /\ tagw = [t \in Tags |-> 0] /\ stw = 0
    /\ shown = [p \in Pixels |-> <<"old">>] /\ tray = [x |-> 0, w |-> 1]

Next ==
    \/ buttonpress
    \/ \E txt \in Texts : updatestatus(txt)
    \/ \E w \in IconSets : TrayIcons(w)
    \/ \E c \in Clients :
          \/ \E S \in Taggings : Retag(c, S)
          \/ \E on \in BOOLEAN : Hints(c, on)
          \/ Notified(c) \/ Attention(c)
    \/ \E t \in Tags : View({t})
    \/ DesktopClient \/ togglealttags \/ expose
    \/ \E w \in Symbols : SetLayout(w)
    \/ \E on, skiptags \in BOOLEAN : Select(on, skiptags)

Spec == Init /\ [][Next]_vars

-----------------------------------------------------------------------------
(* Properties.                                                             *)

\* Every variable holds a value the code can store in it.
TypeOK ==
    /\ tags \in [Clients -> SUBSET Tags] /\ urgent \subseteq Clients
    /\ pending \subseteq urgent /\ view \in (SUBSET Tags) \ {{}}
    /\ \A e \in Range(Elements) : bar[e].x \in -1 .. MW
    /\ tagw \in [Tags -> 0 .. MW] /\ stw \in Nat
    /\ DOMAIN shown = Pixels

\* The bar has been drawn, and the status, the tags and the symbol leave the
\* title more room than the bar is high.
Drawn == bar["TagBar"].w # 0
Roomy == bar["WinTitle"].w > BH

\* An element ends at the pixel before p, or p is the first of a block's.
Edge(p) ==
    \/ \E e \in Range(Elements) : bar[e].x # -1 /\ p = bar[e].x + bar[e].w
    \/ p > 0 /\ shown[p][1] = "StatusText" /\ shown[p - 1] # shown[p]

\* What a click on the bar finds is what is seen under the pointer: the
\* element, the tag, the block of the status (buttonpress against drawbar).
\* The tag may be wrong while vacant tags are hidden and a client has exactly
\* the tags of 255 (dwm.c:4375): those are drawn as occupied and clicked as
\* vacant.
HitsShown ==
    selected /\ Drawn /\ Roomy =>
        \A p \in Pixels :
            LET what == shown[p] IN
            what[1] \in Range(Elements) /\ ~Edge(p) =>
                /\ Zone(State, p) = what[1]
                /\ what[1] = "TagBar" /\ (HideVacant => \A c \in Clients : tags[c] # Low) =>
                      TagAt(State, p) = what[2]
                /\ what[1] = "StatusText" /\ what[2] # 0 => SignalAt(State, p) = what[2]

\* Every element with a width is seen, and all of it, and nothing is left on
\* the window of what was there before (drawbar).
WholeShown ==
    Drawn /\ Roomy =>
        /\ \A e \in Range(Elements) : bar[e].x # -1 =>
              \A p \in bar[e].x .. bar[e].x + bar[e].w - 1 :
                  p < MW /\ (shown[p][1] = e \/ (e = "StatusText" /\ shown[p] = <<"tray">>))
        /\ \A p \in Pixels : shown[p] # <<"old">>

\* The state keeps its type and the bar is seen whole (TypeOK, WholeShown).
BarWhole == TypeOK /\ WholeShown

\* The tags are seen in the colours that are theirs now, once the notice of
\* the hints seturgent has set is in: no draw that leaves the tags out follows
\* a change that concerns them.
TagsCurrent ==
    pending = {} =>
        \A p \in Pixels : shown[p][1] = "TagBar" =>
            shown[p][3] = Mark(State, shown[p][2])
=============================================================================
