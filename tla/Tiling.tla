------------------------------- MODULE Tiling -------------------------------
(***************************************************************************)
(* The commands that change what a layout works from (setgaps and its      *)
(* relations, togglegaps, incnmaster, setmfact, setcfact, togglemirror,    *)
(* setlayout) and the tiled clients that come and go, on one monitor.      *)
(* Every one ends in arrange, so the rectangles are those of the settings. *)
(***************************************************************************)
EXTENDS Layouts

CONSTANTS WX, WY, WW, WH,       \* the window area of the monitor
          BW, BH,               \* the border of a window; the bar's height, also minbh
          InUse,                \* the layouts among LayoutNames that are in use
          DefGaps,              \* oh, ov, ih, iv of config.def.h
          GapSteps,             \* arguments of the incr*gaps commands
          MfactArgs,            \* arguments of setmfact, in hundredths
          CfactArgs,            \* arguments of setcfact, in quarters
          NewSizes,             \* the widths and heights new windows come with
          MaxGap, MaxMasters, MaxClients   \* bounds of the instance

ASSUME AreaAssumption == {WX, WY, BW} \subseteq Nat /\ {WW, WH, BH} \subseteq Nat \ {0}
ASSUME NewAssumption == NewSizes \subseteq Nat \ {0}
ASSUME InUseAssumption == InUse \subseteq LayoutNames
ASSUME GapsAssumption == DefGaps \in [{"oh", "ov", "ih", "iv"} -> Nat]
ASSUME StepsAssumption == MfactArgs \subseteq Int /\ CfactArgs \subseteq Int /\ GapSteps \subseteq Int

VARIABLES lt,           \* the layout
          cf,           \* the cfacts of the tiled clients, in their order
          nmaster, mfact, mirror,
          gaps,         \* gappoh, gappov, gappih, gappiv
          enablegaps,   \* whether they are in force on the tag
          asked,        \* what the layout has asked of resize, client by client
          rects         \* x, y, WIDTH and HEIGHT of each tiled client
tilingVars == << lt, cf, nmaster, mfact, mirror, gaps, enablegaps, asked, rects >>

(* getgaps, with smartgaps: a single window has no outer gaps. *)
getgaps(g, on, n) ==
  [k \in {"oh", "ov", "ih", "iv"} |->
     IF ~on \/ (n = 1 /\ k \in {"oh", "ov"}) THEN 0 ELSE g[k]]

Mon(fs, nm, mf, mir, g, on) ==
  LET e == getgaps(g, on, Len(fs))
  IN  [wx |-> WX, wy |-> WY, ww |-> WW, wh |-> WH, bw |-> BW, bh |-> BH, minbh |-> BH,
       oh |-> e["oh"], ov |-> e["ov"], ih |-> e["ih"], iv |-> e["iv"],
       nmaster |-> nm, mfact |-> mf, mirror |-> mir, cf |-> fs]
mon == Mon(cf, nmaster, mfact, mirror, gaps, enablegaps)

(* WIDTH and HEIGHT of the clients: resizeclient gives a window without    *)
(* neighbours (solitary) the room of its borders, and they count again.    *)
Sizes ==
  LET more == IF Len(cf) = 1 \/ lt = "monocle" THEN 2 * BW ELSE 0
  IN  [j \in DOMAIN rects |-> [w |-> rects[j].w + more, h |-> rects[j].h + more]]

(* arrange, the last thing every command does, with the sizes so far. *)
arrangeFrom(old) ==
  /\ asked' = Arranged(lt', mon')
  /\ rects' = [j \in DOMAIN asked' |-> PullBack(mon', asked'[j], old[j])]
arrange == arrangeFrom(Sizes)

TilingInit ==
  /\ lt \in InUse
  /\ cf = << >> /\ nmaster = 1 /\ mfact = 65 /\ mirror = FALSE
  /\ gaps = DefGaps /\ enablegaps = TRUE
  /\ asked = << >> /\ rects = << >>

(* setgaps keeps every gap at zero or more. *)
setgaps(g) ==
  /\ gaps' = [k \in DOMAIN g |-> Greatest(g[k], 0)]
  /\ \A k \in DOMAIN g : gaps'[k] <= MaxGap
  /\ UNCHANGED << lt, cf, nmaster, mfact, mirror, enablegaps >>
  /\ arrange

(* incrgaps, incrigaps, incrogaps and the four that change one gap. *)
GapGroups == {{"oh", "ov", "ih", "iv"}, {"ih", "iv"}, {"oh", "ov"}, {"oh"}, {"ov"}, {"ih"}, {"iv"}}
incrgaps(keys, i) == setgaps([k \in DOMAIN gaps |-> IF k \in keys THEN gaps[k] + i ELSE gaps[k]])

defaultgaps == setgaps(DefGaps)

togglegaps ==
  /\ enablegaps' = ~enablegaps
  /\ UNCHANGED << lt, cf, nmaster, mfact, mirror, gaps >>
  /\ arrange

incnmaster(i) ==
  /\ nmaster' = Greatest(nmaster + i, 0)
  /\ nmaster' <= MaxMasters
  /\ UNCHANGED << lt, cf, mfact, mirror, gaps, enablegaps >>
  /\ arrange

(* The remainder of C: its sign is that of the dividend. *)
CRem(a, b) ==
  LET d == IF b < 0 THEN -b ELSE b
  IN  IF a < 0 THEN -((-a) % d) ELSE a % d

(* The value setmfact makes of its argument: 0 the default, 1 and more an  *)
(* absolute value, a step otherwise, which ends on a multiple of it.       *)
NewMfactDown(a) ==   \* a mutant: the remainder comes off downwards too
  LET f == a + mfact
  IN  CASE a = 0   -> 65
        [] a >= 100 -> a - 100
        [] a # 0 /\ a < 100 -> f - CRem(f, a)
NewMfact(a) ==
  LET f == a + mfact
      ri == CRem(f, a)
  IN  CASE a = 0            -> 65
        [] a >= 100         -> a - 100
        [] a # 0 /\ a < 100 -> IF ri = 0 THEN f ELSE IF a > 0 THEN f - ri ELSE f - a - ri

setmfact(a) ==
  /\ NewMfact(a) \in 5..95
  /\ mfact' = NewMfact(a)
  /\ UNCHANGED << lt, cf, nmaster, mirror, gaps, enablegaps >>
  /\ arrange

(* setcfact on the selected client, the j-th of the tiled ones. *)
setcfact(j, a) ==
  LET f == IF a = 0 THEN 4 ELSE cf[j] + a
  IN  /\ f \in 1..16
      /\ cf' = [cf EXCEPT ![j] = f]
      /\ UNCHANGED << lt, nmaster, mfact, mirror, gaps, enablegaps >>
      /\ arrange

togglemirror ==
  /\ lt # "monocle"
  /\ mirror' = ~mirror
  /\ UNCHANGED << lt, cf, nmaster, mfact, gaps, enablegaps >>
  /\ arrange

setlayout(l) ==
  /\ lt' = l
  /\ UNCHANGED << cf, nmaster, mfact, mirror, gaps, enablegaps >>
  /\ arrange

(* A client of the usual cfact comes first in the list, or one leaves it. *)
Comes(size) ==
  /\ Len(cf) < MaxClients
  /\ cf' = << 4 >> \o cf
  /\ UNCHANGED << lt, nmaster, mfact, mirror, gaps, enablegaps >>
  /\ arrangeFrom(<< [w |-> size, h |-> size] >> \o Sizes)

Leaves(j) ==
  /\ cf' = RemoveAt(cf, j)
  /\ UNCHANGED << lt, nmaster, mfact, mirror, gaps, enablegaps >>
  /\ arrangeFrom(RemoveAt(Sizes, j))

TilingNext ==
  \/ \E keys \in GapGroups, i \in GapSteps : incrgaps(keys, i)
  \/ defaultgaps
  \/ togglegaps
  \/ \E i \in {1, -1} : incnmaster(i)
  \/ \E a \in MfactArgs : setmfact(a)
  \/ \E j \in DOMAIN cf, a \in CfactArgs : setcfact(j, a)
  \/ togglemirror
  \/ \E l \in InUse : setlayout(l)
  \/ \E size \in NewSizes : Comes(size)
  \/ \E j \in DOMAIN cf : Leaves(j)

TilingSpec == TilingInit /\ [][TilingNext]_tilingVars
-----------------------------------------------------------------------------
TilingTypeOK ==
  /\ lt \in InUse
  /\ cf \in Seq(1..16)
  /\ nmaster \in Nat
  /\ mfact \in 5..95
  /\ mirror \in BOOLEAN
  /\ gaps \in [{"oh", "ov", "ih", "iv"} -> Nat]
  /\ enablegaps \in BOOLEAN
  /\ Len(asked) = Len(cf) /\ Len(rects) = Len(cf)

(* Two rectangles with at least the inner gap between them. *)
Apart(r, s) ==
  \/ r.x + r.w + mon.ih <= s.x \/ s.x + s.w + mon.ih <= r.x
  \/ r.y + r.h + mon.iv <= s.y \/ s.y + s.h + mon.iv <= r.y

(* The windows that share an area with the i-th: the masters, the stack, a *)
(* side of it, a row.                                                      *)
Area(i) ==
  CASE lt = "horizgrid" -> IF Len(cf) = 2 \/ i <= Len(cf) \div 2 THEN 0 ELSE 1
    [] lt = "centredmaster" /\ i > nmaster /\ nmaster > 0 -> 1 + ((i - nmaster) % 2)
    [] lt # "horizgrid" /\ (lt # "centredmaster" \/ i <= nmaster \/ nmaster = 0) ->
         IF i <= nmaster THEN 0 ELSE 1

(* The pairs a layout means to lie on each other. *)
MayOverlap(i, j) ==
  \/ lt = "monocle"
  \/ lt = "deck" /\ Area(i) = 1 /\ Area(j) = 1
  \/ lt = "centredfloatingmaster" /\ Area(i) # Area(j)
  \/ lt \in {"dwindle", "spiral"} /\ rects[i] = rects[j]

(* The pixels some layouts may count twice: spiral in the height of the    *)
(* 4th, 8th... window when it is the last, dwindle and spiral in windows   *)
(* that pile up where no room is left to split, a mirrored bstackhoriz in  *)
(* the height of each window of the stack (FlippedCut).                    *)
Piled(j) == lt \in {"dwindle", "spiral"} /\ \E i \in DOMAIN rects : i # j /\ rects[i] = rects[j]
Higher(j) == lt = "bstackhoriz" /\ mirror /\ Area(j) = 1
Trim(j) ==
  LET last == lt = "spiral" /\ j = Len(cf) /\ j % 4 = 0
  IN  [rects[j] EXCEPT !.x = IF Piled(j) /\ mirror THEN @ + 1 ELSE @,
                       !.w = IF Piled(j) THEN @ - 1 ELSE @,
                       !.h = IF Piled(j) \/ last \/ Higher(j) THEN @ - 1 ELSE @]

(* A window that would get too small is kept at the least size (resize):   *)
(* the next one of its area is moved then, but it may reach into another   *)
(* area, and the last ones may leave theirs.  In a mirrored bstack or      *)
(* bstackhoriz it reaches down, into the windows before it.                *)
Free(i) == rects[i].w > BH + 2 * BW /\ rects[i].h > BH + 2 * BW
Roomy == \A i \in DOMAIN rects : Free(i)
Reaches(i, j) ==
  CASE lt \in {"gaplessgrid", "grid", "nrowgrid"} -> ~Roomy
    [] lt \in {"tile", "deck", "centredmaster"}   -> Area(i) # Area(j) /\ ~(Free(i) /\ Free(j))
    [] lt = "horizgrid"                           -> Area(i) # Area(j) /\ ~Free(i)
    [] lt \in {"bstack", "bstackhoriz"} ->
         IF mirror THEN (Area(i) # Area(j) \/ Higher(j)) /\ ~Free(j)
                   ELSE Area(i) # Area(j) /\ ~Free(i)
    [] OTHER                                      -> FALSE

(* The layout asks for a place in the area: PullBack keeps it.  A window   *)
(* pushed out of the area by the least sizes of others is pulled back over *)
(* them, as far as its size before says.                                   *)
Kept(i) ==
  /\ asked[i].x < WX + WW /\ asked[i].x + Greatest(asked[i].w0, 1 + 2 * BW) > WX
  /\ asked[i].y < WY + WH /\ asked[i].y + Greatest(asked[i].h0, 1 + 2 * BW) > WY

(* Windows that a layout puts side by side do not overlap, and have the    *)
(* inner gap between them, four fifths of it in centredfloatingmaster.     *)
(* The areas a layout computes apart from each other (vanitygaps.c, all    *)
(* layouts) meet where they should, whatever the rest of a division.       *)
AllApart ==
  \A j \in DOMAIN rects : \A i \in 1..(j - 1) :
    Kept(i) /\ Kept(j) =>
      \/ MayOverlap(i, j) \/ Reaches(i, j)
      \/ Apart(Trim(i), Trim(j))
      \/ /\ lt = "centredfloatingmaster"
         /\ rects[i].x + rects[i].w + (8 * mon.ih) \div 10 <= rects[j].x

(* How far a window may go past the outer gaps, what the layouts really    *)
(* do: deck without masters counts one inner gap too many, the mirrored    *)
(* stacks lie two borders too low (bstackhoriz without borders a pixel too *)
(* high), and two windows of horizgrid do not allow for their gap while    *)
(* its top row takes the rest of another division.                         *)
OverRight ==
  CASE lt # "horizgrid" -> 0
    [] lt = "horizgrid" /\ Len(cf) = 2 -> mon.ih + 1
    [] lt = "horizgrid" /\ Len(cf) # 2 -> Greatest(Len(cf) \div 2 - 1, 0)
OverBelow ==
  CASE lt = "deck" /\ nmaster = 0 -> mon.iv
    [] lt \in {"bstack", "bstackhoriz"} /\ mirror -> 2 * BW
    [] OTHER -> 0
OverLeft == IF lt \in {"dwindle", "spiral"} /\ mirror THEN 2 * BW ELSE 0
OverAbove == IF lt = "bstackhoriz" /\ mirror /\ BW = 0 THEN 1 ELSE 0

(* Every window lies in the monitor's window area without its outer gaps,  *)
(* but for the named excesses; monocle takes the whole area.  Where the    *)
(* excess of deck or horizgrid pushes a window out of the area, PullBack   *)
(* places it.                                                              *)
Within(r) ==
  IF lt = "monocle" THEN r = [x |-> WX, y |-> WY, w |-> WW, h |-> WH]
  ELSE /\ r.x >= WX + mon.oh - OverLeft
       /\ r.x + r.w <= WX + WW - mon.oh + OverRight
       /\ r.y >= WY + mon.ov - OverAbove
       /\ r.y + r.h <= WY + WH - mon.ov + OverBelow
AllWithin ==
  Roomy => \A i \in DOMAIN rects :
             Within(Trim(i)) \/ (lt \in {"deck", "horizgrid"} /\ ~Kept(i))

(* No window is lost outside the area, however little room there is.       *)
AllSeen ==
  \A i \in DOMAIN rects :
    /\ rects[i].x < WX + WW /\ rects[i].x + rects[i].w > WX
    /\ rects[i].y < WY + WH /\ rects[i].y + rects[i].h > WY

(* The state keeps its type and every layout places its windows well: the  *)
(* ones side by side apart (AllApart), all of them in the area without the *)
(* gaps where there is room (AllWithin), and none out of sight (AllSeen).  *)
Placed == TilingTypeOK /\ AllApart /\ AllWithin /\ AllSeen

(* The windows of a layout that is to use all of the area, each with an    *)
(* inner gap to its right and below, take exactly the area: no pixel is    *)
(* lost or counted twice by the rests of the divisions.  The grids with    *)
(* free cells, the decks and piles, the excesses named above, and more     *)
(* than two masters in centredmaster (SidePixel) are left out.             *)
UsesAll ==
  \/ lt \in {"tile", "bstack", "bstackhoriz", "gaplessgrid"}
  \/ lt = "centredmaster" /\ nmaster <= 2
  \/ lt \in {"dwindle", "spiral"} /\ (\A j \in DOMAIN rects : ~Piled(j)) /\ (lt = "spiral" => Len(cf) % 4 # 0)
Fills ==
  Roomy /\ UsesAll /\ Len(cf) > 0 =>
    SumOf([i \in DOMAIN rects |-> (rects[i].w + mon.ih) * (rects[i].h + mon.iv)])
      = (WW - 2 * mon.oh + mon.ih) * (WH - 2 * mon.ov + mon.iv)

(* A change of one client's cfact resizes the windows of its own area and  *)
(* leaves those of the other ones where they are (getfacts sums the two    *)
(* areas apart).  A window that is pulled back (Kept) goes by the size it  *)
(* had, and may move.                                                      *)
OwnAreaOnly ==
  [][\A j \in DOMAIN cf :
       cf' # cf /\ DOMAIN cf' = DOMAIN cf /\ cf'[j] # cf[j] =>
         \A i \in DOMAIN cf :
           Area(i) # Area(j) /\ Kept(i) => rects'[i] = rects[i]]_tilingVars

(* Where a window goes when its layout is mirrored: in tile and deck it is *)
(* turned about the middle of the area from left to right, in dwindle and  *)
(* spiral too but two borders further left, in bstack and bstackhoriz from *)
(* top to bottom two borders further down; elsewhere it stays.             *)
XFlip(r) == 2 * WX + WW - r.x - r.w
YFlip(r) == 2 * WY + WH - r.y - r.h
MirrorImage(r) ==
  CASE lt \in {"tile", "deck"} /\ nmaster \in 1..(Len(cf) - 1) -> [r EXCEPT !.x = XFlip(r)]
    [] lt \in {"dwindle", "spiral"}     -> [r EXCEPT !.x = XFlip(r) - 2 * BW]
    [] lt \in {"bstack", "bstackhoriz"} -> [r EXCEPT !.y = YFlip(r) + 2 * BW]
    [] OTHER                            -> r

(* togglemirror puts every window in its mirror image, those of the stack  *)
(* of bstackhoriz up to a pixel higher (FlippedCut).  A window kept at the *)
(* least size is turned by the size it was to have, and one pulled back    *)
(* goes by the size it had: both are left out.                             *)
MirrorTurns ==
  [][mirror' # mirror =>
       \A i \in DOMAIN rects :
         Free(i) /\ Kept(i) /\ Kept(i)' =>
           \/ rects'[i] = MirrorImage(rects[i])
           \/ /\ lt = "bstackhoriz" /\ Area(i) = 1
              /\ rects'[i] = [MirrorImage(rects[i]) EXCEPT !.y = @ - 1]]_tilingVars

(* A change of the tag's settings stays where it belongs: a cfact in the   *)
(* area of its client (OwnAreaOnly), a mirrored layout in the mirror image *)
(* of what it was (MirrorTurns).                                           *)
ChangesLocal == OwnAreaOnly /\ MirrorTurns

(* A step of setmfact ends on a multiple of its argument's size: upwards   *)
(* on the last one not past the step, downwards on the first one not past  *)
(* it, as the remainder always comes off towards the old value.  The       *)
(* comment in the code (dwm.c:19467) has it end on the nearest one.  A     *)
(* step down by more than mfact goes the other way, up to its own size,    *)
(* since the remainder of the negative sum is negative (dwm.c:19497).      *)
MfactSteps ==
  [][\A a \in MfactArgs \cap ((-99..99) \ {0}) :
       mfact' # mfact /\ mfact' = NewMfact(a) =>
         /\ CRem(mfact', a) = 0
         /\ CASE a > 0                    -> mfact' \in (mfact + 1)..(mfact + a)
              [] a < 0 /\ mfact + a >= 0  -> mfact' \in (mfact + a)..(mfact - 1)
              [] a < 0 /\ mfact + a < 0   -> mfact' = -a]_tilingVars
=============================================================================
