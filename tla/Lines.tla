------------------------------- MODULE Lines -------------------------------
(***************************************************************************)
(* Windows one beside or below the other, as the layouts of vanitygaps.c   *)
(* make rows and columns of them: a length split by the cfacts, and a      *)
(* window resized to its part of it.  A monitor m is the record of         *)
(* Layouts; only its window area, its gaps and its borders are used here.  *)
(***************************************************************************)
EXTENDS Sums

Greatest(a, b) == IF a < b THEN b ELSE a

(* Of size pixels, the part that factor f has in the total t. *)
Share(size, f, t) == (size * f) \div t

(* What the shares leave of size: the rest of getfacts. *)
Leftover(size, facts) ==
  size - SumOf([j \in DOMAIN facts |-> Share(size, facts[j], SumOf(facts))])

(* The lengths of a split of size by facts when the windows whose number,  *)
(* from 0, satisfies Extra take one pixel of the rest each.                *)
Split(size, facts, Extra(_)) ==
  [j \in DOMAIN facts |->
     Share(size, facts[j], SumOf(facts)) + IF Extra(j - 1) THEN 1 ELSE 0]

EvenSplit(size, facts) ==
  LET rest == Leftover(size, facts) IN Split(size, facts, LAMBDA j : j < rest)

(* resize: no window gets smaller than minbh, and borders come on top.     *)
(* Beside the size it gets, the size asked for (w0, h0) is kept, which     *)
(* PullBack goes by.                                                       *)
Resize(m, x, y, w, h) ==
  [x |-> x, y |-> y,
   w |-> Greatest(w - 2 * m.bw, m.minbh) + 2 * m.bw,
   h |-> Greatest(h - 2 * m.bw, m.minbh) + 2 * m.bw,
   w0 |-> w, h0 |-> h]

(* applysizehints: a window that would begin past the right or the lower   *)
(* edge is pulled back by the size it has had (old), one that would end    *)
(* before the left or the upper edge begins there.                         *)
PullBack(m, r, old) ==
  LET x == IF r.x >= m.wx + m.ww THEN m.wx + m.ww - old.w ELSE r.x
      y == IF r.y >= m.wy + m.wh THEN m.wy + m.wh - old.h ELSE r.y
  IN  [x |-> IF x + Greatest(r.w0, 1 + 2 * m.bw) <= m.wx THEN m.wx ELSE x,
       y |-> IF y + Greatest(r.h0, 1 + 2 * m.bw) <= m.wy THEN m.wy ELSE y,
       w |-> r.w, h |-> r.h]

(* Windows one after the other, each gap after the end of the last one. *)
OffsetTight(lens, gap, m, j) ==   \* a mutant: the gaps are forgotten
  Total([k \in DOMAIN lens |-> Greatest(lens[k], m.minbh + 2 * m.bw)], j - 1)
Offset(lens, gap, m, j) ==
  Total([k \in DOMAIN lens |-> Greatest(lens[k], m.minbh + 2 * m.bw) + gap], j - 1)
Row(m, x, y, lens, h) ==
  [j \in DOMAIN lens |-> Resize(m, x + Offset(lens, m.ih, m, j), y, lens[j], h)]
Column(m, x, y, w, lens) ==
  [j \in DOMAIN lens |-> Resize(m, x, y + Offset(lens, m.iv, m, j), w, lens[j])]
=============================================================================
