------------------------------- MODULE Layouts -------------------------------
(***************************************************************************)
(* The layout functions of vanitygaps.c, and monocle of dwm.c, as          *)
(* functions from a monitor to the rectangles its tiled windows take.      *)
(*                                                                         *)
(* A monitor m is a record: the window area wx, wy, ww, wh; the gaps in    *)
(* force oh, ov, ih, iv (getgaps); nmaster; mfact in hundredths; mirror;   *)
(* bw, the border of every window; bh and minbh, the height of the bar and *)
(* the least size of a window; and cf, the cfact of each tiled client in   *)
(* quarters, in the order of nexttiled.  A rectangle counts the borders,   *)
(* as WIDTH and HEIGHT do.  The size hints of tiled windows are not obeyed *)
(* (config.def.h: resizehints = 0), so a window has the size asked for.    *)
(* Products with mfact and the cfacts are floats in the code and are cut   *)
(* to integers where the code cuts them; the rounding of floats itself is  *)
(* left out, and so is the side a negative product is cut to, which shows  *)
(* only where the area is smaller than its gaps.                           *)
(***************************************************************************)
EXTENDS Lines, SequencesExt

Tiled(m)  == Len(m.cf)
Masters(m) == SubSeq(m.cf, 1, Least(m.nmaster, Tiled(m)))
Stack(m)   == SubSeq(m.cf, m.nmaster + 1, Tiled(m))
Parted(m)  == m.nmaster > 0 /\ Tiled(m) > m.nmaster

(* The size without the outer gaps, and without the inner gaps of k windows. *)
Wide(m)      == m.ww - 2 * m.oh
High(m)      == m.wh - 2 * m.ov
Across(m, k) == Wide(m) - m.ih * (k - 1)
Down(m, k)   == High(m) - m.iv * (k - 1)

(* The stack's part of size, once the gap between it and the masters is off. *)
StackPart(m, size, gap) == ((size - gap) * (100 - m.mfact)) \div 100

tileUnturned(m) ==   \* a mutant: a mirrored master area forgets the outer gap
  LET sw == IF Parted(m) THEN StackPart(m, Wide(m), m.ih) ELSE Wide(m)
      mw == IF Parted(m) THEN Wide(m) - sw - m.ih ELSE Wide(m)
      left == m.wx + m.oh
      mx == IF Parted(m) /\ m.mirror THEN m.wx + m.ww - mw ELSE left
      sx == IF Parted(m) /\ ~m.mirror THEN mx + mw + m.ih ELSE left
  IN  Column(m, mx, m.wy + m.ov, mw,
             EvenSplit(Down(m, Len(Masters(m))), Masters(m)))
      \o Column(m, sx, m.wy + m.ov, sw,
                EvenSplit(Down(m, Tiled(m) - m.nmaster), Stack(m)))

tile(m) ==
  LET sw == IF Parted(m) THEN StackPart(m, Wide(m), m.ih) ELSE Wide(m)
      mw == IF Parted(m) THEN Wide(m) - sw - m.ih ELSE Wide(m)
      left == m.wx + m.oh
      mx == IF Parted(m) /\ m.mirror THEN m.wx + m.ww - mw - m.oh ELSE left
      sx == IF Parted(m) /\ ~m.mirror THEN mx + mw + m.ih ELSE left
  IN  Column(m, mx, m.wy + m.ov, mw,
             EvenSplit(Down(m, Len(Masters(m))), Masters(m)))
      \o Column(m, sx, m.wy + m.ov, sw,
                EvenSplit(Down(m, Tiled(m) - m.nmaster), Stack(m)))

(* deck: the stack's windows lie on each other.  Without masters the       *)
(* height they get is the one counted for no master at all.                *)
deck(m) ==
  LET sw == IF Parted(m) THEN StackPart(m, Wide(m), m.ih) ELSE Wide(m)
      mw == IF Parted(m) THEN Wide(m) - sw - m.ih ELSE Wide(m)
      sh == IF Parted(m) THEN High(m) ELSE Down(m, Len(Masters(m)))
      left == m.wx + m.oh
      mx == IF Parted(m) /\ m.mirror THEN left + sw + m.ih ELSE left
      sx == IF Parted(m) /\ ~m.mirror THEN mx + mw + m.ih ELSE left
  IN  Column(m, mx, m.wy + m.ov, mw,
             EvenSplit(Down(m, Len(Masters(m))), Masters(m)))
      \o [j \in DOMAIN Stack(m) |-> Resize(m, sx, m.wy + m.ov, sw, sh)]

(* The mirror of bstack and bstackhoriz turns a window about the middle of *)
(* the monitor by the height asked for, and puts it 2*bw lower than that.  *)
Flipped(m, y, h) == m.wy + m.wh - (y - m.wy) - (h - 2 * m.bw)
FlipIf(m, y, h)  == IF m.mirror THEN Flipped(m, y, h) ELSE y

bstack(m) ==
  LET sh == IF Parted(m) THEN StackPart(m, High(m), m.iv) ELSE High(m)
      mh == IF Parted(m) THEN High(m) - sh - m.iv ELSE High(m)
      sy == IF Parted(m) THEN m.wy + m.ov + mh + m.iv ELSE m.wy + m.ov
  IN  Row(m, m.wx + m.oh, FlipIf(m, m.wy + m.ov, mh),
          EvenSplit(Across(m, Len(Masters(m))), Masters(m)), mh)
      \o Row(m, m.wx + m.oh, FlipIf(m, sy, sh),
             EvenSplit(Across(m, Tiled(m) - m.nmaster), Stack(m)), sh)

(* The height bstackhoriz turns the j-th window of its stack by is a float *)
(* yet: where the share of size has a fraction, the top is cut a pixel     *)
(* higher.                                                                 *)
FlippedCut(m, y, size, j) ==
  LET top == Flipped(m, y, EvenSplit(size, Stack(m))[j])
      fraction == (size * Stack(m)[j]) % SumOf(Stack(m))
  IN  IF fraction # 0 /\ top > 0 THEN top - 1 ELSE top

bstackhoriz(m) ==
  LET mh == IF Parted(m) THEN High(m) - StackPart(m, High(m), m.iv) - m.iv ELSE High(m)
      sy == IF Parted(m) THEN m.wy + m.ov + mh + m.iv ELSE m.wy + m.ov
      sh == IF Parted(m) THEN High(m) - mh - m.iv * (Tiled(m) - m.nmaster)
                         ELSE Down(m, Tiled(m) - m.nmaster)
      stack == Column(m, m.wx + m.oh, sy, Wide(m), EvenSplit(sh, Stack(m)))
  IN  Row(m, m.wx + m.oh, FlipIf(m, m.wy + m.ov, mh),
          EvenSplit(Across(m, Len(Masters(m))), Masters(m)), mh)
      \o [j \in DOMAIN stack |->
            [stack[j] EXCEPT !.y = IF m.mirror THEN FlippedCut(m, @, sh, j) ELSE @]]

(* centredmaster: the stack's windows go right and left in turn.  The      *)
(* number of a window that takes a pixel of the rest is compared unsigned, *)
(* so that with several masters a window may miss it: the j-th window of   *)
(* the column that starts at number first takes one when                   *)
(* 0 <= first + 2*j - nmaster < 2*rest.                                    *)
SidePixelNone(m, first, rest, j) == FALSE   \* a mutant: the rest is lost
SidePixel(m, first, rest, j) ==
  first + 2 * j - m.nmaster \in 0..(2 * rest - 1)
Side(m, first) ==
  [j \in 1..((Len(Stack(m)) - first + 1) \div 2) |-> Stack(m)[first + 2 * j - 1]]
SideColumn(m, x, w, first) ==
  LET h == Down(m, Len(Side(m, first)))
      rest == Leftover(h, Side(m, first))
  IN  Column(m, x, m.wy + m.ov, w,
             Split(h, Side(m, first), LAMBDA j : SidePixel(m, first, rest, j)))

CentreWidth(m) ==
  CASE ~Parted(m)                        -> Wide(m)
    [] Parted(m) /\ Len(Stack(m)) = 1    -> ((Wide(m) - m.ih) * m.mfact) \div 100
    [] Parted(m) /\ Len(Stack(m)) # 1    -> ((Wide(m) - 2 * m.ih) * m.mfact) \div 100

centredmaster(m) ==
  LET centre == IF m.nmaster = 0 THEN m.cf ELSE Masters(m)
      both == Parted(m) /\ Len(Stack(m)) > 1
      mw == CentreWidth(m)
      lw == IF both THEN (Wide(m) - 2 * m.ih - mw) \div 2 ELSE 0
      rw == Wide(m) - mw - m.ih - IF both THEN lw + m.ih ELSE 0
      mx == m.wx + m.oh + IF both THEN lw + m.ih ELSE 0
      right == SideColumn(m, mx + mw + m.ih, rw, 0)
      left  == SideColumn(m, m.wx + m.oh, lw, 1)
  IN  Column(m, mx, m.wy + m.ov, mw, EvenSplit(Down(m, Len(centre)), centre))
      \o IF m.nmaster = 0 THEN << >>
         ELSE [j \in DOMAIN Stack(m) |-> IF j % 2 = 1 THEN right[(j + 1) \div 2] ELSE left[j \div 2]]

(* centredfloatingmaster: the masters over the middle of the stack, with   *)
(* four fifths of the gap between them.                                    *)
centredfloatingmaster(m) ==
  LET k  == Len(Masters(m))
      factor == IF m.ww > m.wh THEN m.mfact ELSE 90
      mw == IF Parted(m) THEN (10 * m.ww * factor - 800 * m.ih * (k - 1)) \div 1000
                         ELSE Across(m, Tiled(m))
      mh == CASE ~Parted(m)                  -> High(m)
              [] Parted(m) /\ m.ww > m.wh    -> (m.wh * 9) \div 10
              [] Parted(m) /\ ~(m.ww > m.wh) -> (m.wh * m.mfact) \div 100
      mx == IF Parted(m) THEN m.wx + (m.ww - mw) \div 2 ELSE m.wx + m.oh
      my == IF Parted(m) THEN m.wy + (m.wh - mh) \div 2 ELSE m.wy + m.ov
      gap == IF Parted(m) THEN (8 * m.ih) \div 10 ELSE m.ih
  IN  Row([m EXCEPT !.ih = gap], mx, my, EvenSplit(mw, Masters(m)), mh)
      \o Row(m, m.wx + m.oh, m.wy + m.ov,
             EvenSplit(Across(m, Tiled(m) - m.nmaster), Stack(m)), High(m))

(* horizgrid: two rows.  The widths of the top row are split from mw and   *)
(* its rest is counted from mh, and two windows share a row whose width    *)
(* does not allow for the gap between them.                                *)
horizgrid(m) ==
  LET n == Tiled(m)
      ntop == IF n <= 2 THEN n ELSE n \div 2
      top == SubSeq(m.cf, 1, ntop)
      bottom == SubSeq(m.cf, ntop + 1, n)
      two == n > ntop
      sh == (High(m) - m.iv) \div 2
      mh == IF two THEN High(m) - sh - m.iv ELSE High(m)
      mw == IF two THEN Across(m, ntop) ELSE Wide(m)
      rest == Leftover(mh, top)
  IN  Row(m, m.wx + m.oh, m.wy + m.ov, Split(mw, top, LAMBDA j : j < rest), mh)
      \o Row(m, m.wx + m.oh, m.wy + m.ov + mh + m.iv,
             EvenSplit(Across(m, n - ntop), bottom), sh)

(* The number of columns (or rows) the loops of the two grids end with. *)
GridSide(n) == CHOOSE k \in 0..(n \div 2 + 1) :
                 /\ k * k >= n \/ k = n \div 2 + 1
                 /\ \A l \in 0..(k - 1) : l * l < n

(* One cell of a grid of cols by rows. *)
Cell(m, col, cols, row, rows) ==
  LET cw == Across(m, cols) \div cols
      ch == Down(m, rows) \div rows
      crest == Across(m, cols) - cw * cols
      rrest == Down(m, rows) - ch * rows
  IN  Resize(m, m.wx + m.oh + col * (cw + m.ih) + Least(col, crest),
             m.wy + m.ov + row * (ch + m.iv) + Least(row, rrest),
             cw + (IF col < crest THEN 1 ELSE 0),
             ch + (IF row < rrest THEN 1 ELSE 0))

(* gaplessgrid: the last n % cols columns hold one window more. *)
gaplessgrid(m) ==
  LET n == Tiled(m)
      cols == IF n = 5 THEN 2 ELSE GridSide(n)
      rows == n \div cols
      short == cols - (n % cols)    \* columns of rows windows
  IN  [j \in 1..n |->
         LET i == j - 1
             k == i - rows * short  \* the number among the longer columns
         IN  IF k < 0
             THEN Cell(m, i \div rows, cols, i % rows, rows)
             ELSE Cell(m, short + k \div (rows + 1), cols, k % (rows + 1), rows + 1)]

grid(m) ==
  LET n == Tiled(m)
      rows == GridSide(n)
      cols == IF (rows - 1) * rows >= n THEN rows - 1 ELSE rows
  IN  [j \in 1..n |-> Cell(m, (j - 1) \div rows, cols, (j - 1) % rows, rows)]

(* nrowgrid: one row more than there are masters, each window taking its   *)
(* part of what the ones before it in the row have left.                   *)
nrowgrid(m) ==
  LET n == Tiled(m)
      rows == IF n = 2 THEN 1 ELSE Least(n, m.nmaster + 1)
      ch == Down(m, rows) \div rows
      upto[r \in 0..rows] == IF r = 0 THEN 0
                             ELSE upto[r - 1] + (n - upto[r - 1]) \div (rows - r + 1)
      used(cols) ==
        LET u[k \in 0..cols] == IF k = 0 THEN 0
                                ELSE u[k - 1] + (Wide(m) - u[k - 1]) \div (cols - k + 1) + m.ih
        IN  u
  IN  [j \in 1..n |->
         LET r == CHOOSE r \in 1..rows : upto[r - 1] < j /\ j <= upto[r]
             cols == upto[r] - upto[r - 1]
             k == j - upto[r - 1]
             u == used(cols)
         IN  Resize(m, m.wx + m.oh + u[k - 1], m.wy + m.ov + (r - 1) * (ch + m.iv),
                    u[k] - u[k - 1] - m.ih, ch)]

(* fibonacci: the state of the loop after a client, f.i the number of      *)
(* splits.  Once the room is too small (~f.r) the rest pile up.            *)
FibHalve(m, n, f) ==
  LET byHeight == f.i % 2 = 1
      v == IF byHeight THEN (f.nh - m.iv) \div 2 ELSE (f.nw - m.ih) \div 2
      r == v > m.bh + 2 * m.bw
      splits == r /\ f.i < n - 1
  IN  CASE ~splits             -> [f EXCEPT !.r = r]
        [] splits /\ byHeight  -> [f EXCEPT !.hrest = f.nh - 2 * v - m.iv, !.nh = v]
        [] splits /\ ~byHeight -> [f EXCEPT !.wrest = f.nw - 2 * v - m.ih, !.nw = v]

(* With s (dwindle) the windows go right and down, without (spiral) they   *)
(* turn round.                                                             *)
FibMove(m, s, n, f0) ==
  LET turn == f0.i % 4
      moves == f0.r /\ f0.i < n - 1 /\ ~s
      f == [f0 EXCEPT !.nx = IF moves /\ turn = 2 THEN @ + f0.nw + m.ih ELSE @,
                      !.ny = IF moves /\ turn = 3 THEN @ + f0.nh + m.iv ELSE @]
  IN  CASE turn = 0 /\ s  -> [f EXCEPT !.ny = @ + f.nh + m.iv, !.nh = @ + f.hrest]
        [] turn = 0 /\ ~s -> [f EXCEPT !.nh = @ - f.hrest, !.ny = @ - (f.nh - f.hrest + m.iv)]
        [] turn = 1       -> [f EXCEPT !.nx = @ + f.nw + m.ih, !.nw = @ + f.wrest]
        [] turn = 2       -> [f EXCEPT !.ny = @ + f.nh + m.iv, !.nh = @ + f.hrest,
                                       !.nw = IF f.i < n - 1 THEN @ + f.wrest ELSE @]
        [] turn = 3 /\ s  -> [f EXCEPT !.nx = @ + f.nw + m.ih, !.nw = @ - f.wrest]
        [] turn = 3 /\ ~s -> [f EXCEPT !.nw = @ - f.wrest, !.nh = @ + f.hrest,
                                       !.nx = @ - (f.nw - f.wrest + m.ih)]

FibStep(m, s, n, f) ==
  LET g == FibMove(m, s, n, FibHalve(m, n, f))
      part == ((Wide(m) - m.ih) * m.mfact) \div 100
  IN  IF ~f.r THEN f
      ELSE CASE f.i = 0 /\ n # 1 -> [g EXCEPT !.nw = part, !.wrest = 0, !.ny = m.wy + m.ov, !.i = 1]
             [] f.i = 0 /\ n = 1 -> [g EXCEPT !.ny = m.wy + m.ov, !.i = 1]
             [] f.i = 1          -> [g EXCEPT !.nw = Wide(m) - m.ih - @, !.i = 2]
             [] OTHER            -> [g EXCEPT !.i = @ + 1]

fibonacci(m, s) ==
  LET n == Tiled(m)
      f[j \in 0..n] ==
        IF j = 0 THEN [nx |-> m.wx + m.oh, ny |-> m.wy + m.ov, nw |-> Wide(m), nh |-> High(m),
                       hrest |-> 0, wrest |-> 0, r |-> TRUE, i |-> 0]
        ELSE FibStep(m, s, n, f[j - 1])
      x(g) == IF m.mirror THEN m.wx + m.ww - (g.nx - m.wx) - g.nw - 2 * m.bw ELSE g.nx
  IN  [j \in 1..n |-> Resize(m, x(f[j]), f[j].ny, f[j].nw, f[j].nh)]

dwindle(m) == fibonacci(m, TRUE)
spiral(m)  == fibonacci(m, FALSE)

monocle(m) == [j \in 1..Tiled(m) |-> Resize(m, m.wx, m.wy, m.ww, m.wh)]

LayoutNames == {"tile", "deck", "bstack", "bstackhoriz", "centredmaster",
                "centredfloatingmaster", "horizgrid", "gaplessgrid", "grid", "nrowgrid",
                "dwindle", "spiral", "monocle"}

(* arrangemon: what the layout asks of resize; nothing without clients. *)
Arranged(lt, m) ==
  IF Tiled(m) = 0 THEN << >> ELSE
  CASE lt = "tile"                  -> tile(m)
    [] lt = "deck"                  -> deck(m)
    [] lt = "bstack"                -> bstack(m)
    [] lt = "bstackhoriz"           -> bstackhoriz(m)
    [] lt = "centredmaster"         -> centredmaster(m)
    [] lt = "centredfloatingmaster" -> centredfloatingmaster(m)
    [] lt = "horizgrid"             -> horizgrid(m)
    [] lt = "gaplessgrid"           -> gaplessgrid(m)
    [] lt = "grid"                  -> grid(m)
    [] lt = "nrowgrid"              -> nrowgrid(m)
    [] lt = "dwindle"               -> dwindle(m)
    [] lt = "spiral"                -> spiral(m)
    [] lt = "monocle"               -> monocle(m)
=============================================================================
