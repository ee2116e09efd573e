--------------------------- MODULE Settings_proof ---------------------------
(***************************************************************************)
(* What is proved of the settings of a tag: how the layouts arrange the    *)
(* windows by them (Tiling), and that a monitor keeps them for each of its *)
(* tags (TagView, which implements Views).                                 *)
(***************************************************************************)
EXTENDS Tiling, TagView, Orders_proof, TLAPS

-----------------------------------------------------------------------------
(* The layouts of Tiling.                                                  *)

-----------------------------------------------------------------------------
(* Rows and columns.                                                       *)

\* The windows of the two areas, and how many there are of each.
LEMMA Areas ==
  ASSUME NEW m \in Screen
  PROVE  /\ Tiled(m) \in Nat /\ m.nmaster \in Nat /\ m.cf \in Factors
         /\ Masters(m) \in Factors /\ Stack(m) \in Factors
         /\ Len(Masters(m)) = Least(m.nmaster, Tiled(m))
         /\ Len(Stack(m)) = Tiled(m) - Least(m.nmaster, Tiled(m))
         /\ Parted(m) <=> m.nmaster \in 1..(Tiled(m) - 1)
<1> DEFINE n == Len(m.cf)
           k == Least(m.nmaster, n)
<1>1. m.nmaster \in Nat /\ m.cf \in Seq(Nat \ {0}) /\ n \in Nat
  BY DEF Screen, Factors
<1>2. k \in 0..n /\ (m.nmaster < n => k = m.nmaster) /\ (m.nmaster >= n => k = n)
  BY <1>1 DEF Least
<1> HIDE DEF n, k
<1>3. SubSeq(m.cf, 1, k) \in Seq(Nat \ {0}) /\ Len(SubSeq(m.cf, 1, k)) = k
  BY <1>1, <1>2 DEF n
<1>4. SubSeq(m.cf, m.nmaster + 1, n) \in Seq(Nat \ {0})
      /\ Len(SubSeq(m.cf, m.nmaster + 1, n)) = n - k
  BY <1>1, <1>2 DEF n
<1>5. Parted(m) <=> m.nmaster \in 1..(n - 1)
  BY <1>1 DEF Parted, Tiled, n
<1> QED
  BY <1>1, <1>3, <1>4, <1>5 DEF Masters, Stack, Tiled, Factors, n, k

\* The lengths layouts work from are integers.
LEMMA Lengths ==
  ASSUME NEW m \in Screen, NEW k \in Int
  PROVE  /\ Wide(m) = m.ww - 2 * m.oh /\ High(m) = m.wh - 2 * m.ov
         /\ Wide(m) \in Int /\ High(m) \in Int
         /\ Across(m, k) \in Int /\ Across(m, k) + m.ih * (k - 1) = Wide(m)
         /\ Down(m, k) \in Int /\ Down(m, k) + m.iv * (k - 1) = High(m)
<1>1. /\ m.wx \in Int /\ m.wy \in Int /\ m.ww \in Int /\ m.wh \in Int
      /\ m.oh \in Nat /\ m.ov \in Nat /\ m.ih \in Nat /\ m.iv \in Nat
  BY DEF Screen
<1>2. m.ih * (k - 1) \in Int /\ m.iv * (k - 1) \in Int
  BY <1>1
<1> QED
  BY <1>1, <1>2 DEF Wide, High, Across, Down

\* What the stack leaves to the masters is a number, whatever mfact is.
LEMMA StackPartType ==
  ASSUME NEW m \in Screen, NEW size \in Int, NEW gap \in Int
  PROVE  StackPart(m, size, gap) \in Int
<1>1. m.mfact \in Int
  BY DEF Screen
<1>2. (size - gap) * (100 - m.mfact) \in Int
  BY <1>1
<1> QED
  BY <1>2 DEF StackPart

-----------------------------------------------------------------------------
(* What a layout promises.                                                 *)

\* The edges of the area inside the outer gaps are numbers, and so are the
\* gaps.
LEMMA Edges ==
  ASSUME NEW m \in Screen
  PROVE  /\ LeftEnd(m) \in Int /\ RightEnd(m) \in Int /\ TopEnd(m) \in Int /\ BottomEnd(m) \in Int
         /\ Wide(m) \in Int /\ LeftEnd(m) + Wide(m) = RightEnd(m)
         /\ High(m) \in Int /\ TopEnd(m) + High(m) = BottomEnd(m)
         /\ m.oh \in Nat /\ m.ov \in Nat /\ m.ih \in Nat /\ m.iv \in Nat
<1>1. /\ m.wx \in Int /\ m.wy \in Int /\ m.ww \in Int /\ m.wh \in Int
      /\ m.oh \in Nat /\ m.ov \in Nat /\ m.ih \in Nat /\ m.iv \in Nat
  BY DEF Screen
<1> QED
  BY <1>1 DEF LeftEnd, RightEnd, TopEnd, BottomEnd, Wide, High

\* The first k windows are apart, and so are the others if they are not piled;
\* a window of each are if the first (or both of them, with both) is ample; and
\* if all windows are, all are inside.
Places(m, R, k, piled, both, right, below) ==
  /\ R \in Seq(Rectangle(m)) /\ Len(R) = Tiled(m)
  /\ \A i, j \in 1..Tiled(m) : i < j =>
        /\ j <= k \/ (k < i /\ ~piled) => Beside(m, R[i], R[j])
        /\ i <= k /\ k < j /\ Ample(m, R[i]) /\ (both => Ample(m, R[j])) => Beside(m, R[i], R[j])
  /\ (\A j \in 1..Tiled(m) : Ample(m, R[j])) =>
        \A j \in 1..Tiled(m) : Inside(m, R[j], right, below)

\* Two areas of windows that are placed as Places says.
Two(m, A, B, k, piled, both, right, below) ==
  /\ A \in Seq(Rectangle(m)) /\ B \in Seq(Rectangle(m))
  /\ Tiled(m) = Len(A) + Len(B) /\ Len(A) = k
  /\ \A i, j \in 1..Len(A) : i < j => Beside(m, A[i], A[j])
  /\ ~piled => \A i, j \in 1..Len(B) : i < j => Beside(m, B[i], B[j])
  /\ \A i \in 1..Len(A), j \in 1..Len(B) :
        Ample(m, A[i]) /\ (both => Ample(m, B[j])) => Beside(m, A[i], B[j])
  /\ (\A i \in 1..Len(A) : Ample(m, A[i])) /\ (\A i \in 1..Len(B) : Ample(m, B[i])) =>
        /\ \A i \in 1..Len(A) : Inside(m, A[i], right, below)
        /\ \A i \in 1..Len(B) : Inside(m, B[i], right, below)

\* One after the other in the list of clients, they make a layout.
LEMMA Joined ==
  ASSUME NEW m, NEW A, NEW B, NEW k, NEW piled, NEW both, NEW right, NEW below,
         Two(m, A, B, k, piled, both, right, below)
  PROVE  Places(m, A \o B, k, piled, both, right, below)
<1> DEFINE n == Tiled(m)
           R == A \o B
           l == Len(B)
<1>1. /\ R \in Seq(Rectangle(m)) /\ Len(R) = n /\ n = k + l /\ l \in Nat
      /\ \A i \in 1..k : i \in 1..n /\ R[i] = A[i]
      /\ \A i \in 1..l : k + i \in 1..n /\ R[k + i] = B[i]
      /\ k \in Nat /\ k = Len(A)
  BY DEF Two
<1> HIDE DEF n, R, l
<1>2. ASSUME NEW i \in 1..n, NEW j \in 1..n, i < j
      PROVE  /\ j <= k \/ (k < i /\ ~piled) => Beside(m, R[i], R[j])
             /\ i <= k /\ k < j /\ Ample(m, R[i]) /\ (both => Ample(m, R[j]))
                   => Beside(m, R[i], R[j])
  <2>1. CASE j <= k
    <3>1. i \in 1..k /\ j \in 1..k /\ i < j
      BY <1>1, <1>2, <2>1
    <3>2. Beside(m, A[i], A[j])
      BY <1>1, <3>1 DEF Two
    <3> QED
      BY <1>1, <3>1, <3>2
  <2>2. CASE k < j
    <3>1. j - k \in 1..l /\ R[j] = B[j - k]
      <4>1. j - k \in 1..l /\ k + (j - k) = j
        BY <1>1, <2>2
      <4> QED
        BY <1>1, <4>1
    <3>2. CASE i <= k
      <4>1. i \in 1..k /\ R[i] = A[i]
        BY <1>1, <3>2
      <4>2. Ample(m, A[i]) /\ (both => Ample(m, B[j - k])) => Beside(m, A[i], B[j - k])
        BY <1>1, <3>1, <4>1 DEF l, Two
      <4>3. ~(j <= k) /\ ~(k < i)
        BY <1>1, <2>2, <3>2
      <4> QED
        BY <3>1, <4>1, <4>2, <4>3, Zenon
    <3>3. CASE k < i
      <4>1. i - k \in 1..l /\ R[i] = B[i - k] /\ i - k < j - k
        <5>1. i - k \in 1..l /\ k + (i - k) = i /\ i - k < j - k
          BY <1>1, <1>2, <3>3
        <5> QED
          BY <1>1, <5>1
      <4>2. ~piled => Beside(m, R[i], R[j])
        BY <3>1, <4>1 DEF l, Two
      <4>3. ~(j <= k) /\ ~(i <= k)
        BY <1>1, <2>2, <3>3
      <4> QED
        BY <4>2, <4>3
    <3> QED
      BY <1>1, <3>2, <3>3
  <2> QED
    BY <1>1, <2>1, <2>2
<1>3. ASSUME \A j \in 1..n : Ample(m, R[j]), NEW j \in 1..n
      PROVE  Inside(m, R[j], right, below)
  <2>1. \A i \in 1..k : Ample(m, A[i])
    BY <1>1, <1>3
  <2>2. \A i \in 1..l : Ample(m, B[i])
    BY <1>1, <1>3
  <2>3. CASE j <= k
    <3>1. j \in 1..k
      BY <2>3
    <3> QED
      BY <1>1, <2>1, <2>2, <3>1 DEF l, Two
  <2>4. CASE k < j
    <3>1. j - k \in 1..l /\ k + (j - k) = j
      BY <1>1, <2>4
    <3>2. R[j] = B[j - k]
      BY <1>1, <3>1
    <3> QED
      BY <1>1, <2>1, <2>2, <3>1, <3>2 DEF l, Two
  <2> QED
    BY <1>1, <2>3, <2>4
<1> QED
  BY <1>1, <1>2, <1>3 DEF Places, n, R

\* A share of the height, or width, between two areas.
Part(m, size, gap) == IF Parted(m) THEN StackPart(m, size, gap) ELSE size

Other(m, size, gap) == IF Parted(m) THEN size - Part(m, size, gap) - gap ELSE size

\* The masters' part, the inner gap and the stack's part make up the length
\* that mfact divides (tile, bstack).
LEMMA Parts ==
  ASSUME NEW m \in Screen, NEW size \in Int, NEW gap \in Nat
  PROVE  /\ Part(m, size, gap) \in Int /\ Other(m, size, gap) \in Int
         /\ Parted(m) => Other(m, size, gap) + gap + Part(m, size, gap) = size
         /\ ~Parted(m) => Other(m, size, gap) = size /\ Part(m, size, gap) = size
<1>1. StackPart(m, size, gap) \in Int
  BY StackPartType
<1> QED
  BY <1>1 DEF Part, Other

\* The windows of an area, from its first to its last, are k of n.
LEMMA AreaLengths ==
  ASSUME NEW m \in Screen
  PROVE  /\ Len(Masters(m)) \in Nat /\ Len(Stack(m)) \in Nat
         /\ Tiled(m) = Len(Masters(m)) + Len(Stack(m))
         /\ Parted(m) <=> Masters(m) # << >> /\ Stack(m) # << >>
         /\ Masters(m) # << >> <=> Len(Masters(m)) > 0
         /\ Stack(m) # << >> <=> Len(Stack(m)) > 0
         /\ Stack(m) # << >> => Tiled(m) - m.nmaster = Len(Stack(m))
         /\ Tiled(m) - m.nmaster \in Int
<1> DEFINE n == Tiled(m)
           k == Least(m.nmaster, n)
<1>1. n \in Nat /\ m.nmaster \in Nat /\ Masters(m) \in Factors /\ Stack(m) \in Factors
      /\ Len(Masters(m)) = k /\ Len(Stack(m)) = n - k
      /\ (Parted(m) <=> m.nmaster \in 1..(n - 1))
  BY Areas
<1>2. k \in 0..n /\ (m.nmaster < n => k = m.nmaster) /\ (m.nmaster >= n => k = n)
  BY <1>1 DEF Least
<1>3. (Masters(m) # << >> <=> Len(Masters(m)) # 0) /\ (Stack(m) # << >> <=> Len(Stack(m)) # 0)
  BY <1>1 DEF Factors
<1> HIDE DEF n, k
<1>4. Tiled(m) = n
  BY DEF n
<1> QED
  BY <1>1, <1>2, <1>3, <1>4

\* The masters' windows are a column, or a row, from one end of the area to the
\* other, whatever its breadth, and so are the stack's.
LEMMA AreaColumn ==
  ASSUME NEW m \in Screen, NEW facts \in Factors, NEW l \in Int,
         facts # << >> => l = Len(facts), NEW x \in Int, NEW w \in Int
  PROVE  Upright(m, Column(m, x, TopEnd(m), w, EvenSplit(Down(m, l), facts)), Len(facts),
                 x, TopEnd(m), w, BottomEnd(m))
<1> DEFINE d == Down(m, l)
<1>1. TopEnd(m) \in Int /\ BottomEnd(m) \in Int /\ High(m) \in Int /\ TopEnd(m) + High(m) = BottomEnd(m) /\ m.iv \in Int
  BY Edges
<1>2. d \in Int /\ d + m.iv * (l - 1) = High(m) /\ m.iv * (l - 1) \in Int
  <2>1. m.iv * (l - 1) \in Int
    BY <1>1
  <2> QED
    BY <2>1, Lengths
<1> HIDE DEF d
<1>3. facts # << >> => TopEnd(m) + d + m.iv * (Len(facts) - 1) <= BottomEnd(m)
  BY <1>1, <1>2
<1>4. Upright(m, Column(m, x, TopEnd(m), w, EvenSplit(d, facts)), Len(facts), x, TopEnd(m), w, BottomEnd(m))
  BY <1>1, <1>2, <1>3, EvenColumn
<1> QED
  BY <1>4 DEF d

\* A row that divides the width by size factors starts at the left edge and
\* ends at the right one.
LEMMA AreaRow ==
  ASSUME NEW m \in Screen, NEW facts \in Factors, NEW l \in Int,
         facts # << >> => l = Len(facts), NEW y \in Int, NEW h \in Int
  PROVE  Level(m, Row(m, LeftEnd(m), y, EvenSplit(Across(m, l), facts), h), Len(facts),
               LeftEnd(m), y, h, RightEnd(m))
<1> DEFINE d == Across(m, l)
<1>1. LeftEnd(m) \in Int /\ RightEnd(m) \in Int /\ Wide(m) \in Int /\ LeftEnd(m) + Wide(m) = RightEnd(m) /\ m.ih \in Int
  BY Edges
<1>2. d \in Int /\ d + m.ih * (l - 1) = Wide(m) /\ m.ih * (l - 1) \in Int
  <2>1. m.ih * (l - 1) \in Int
    BY <1>1
  <2> QED
    BY <2>1, Lengths
<1> HIDE DEF d
<1>3. facts # << >> => LeftEnd(m) + d + m.ih * (Len(facts) - 1) <= RightEnd(m)
  BY <1>1, <1>2
<1>4. Level(m, Row(m, LeftEnd(m), y, EvenSplit(d, facts), h), Len(facts), LeftEnd(m), y, h, RightEnd(m))
  BY <1>1, <1>2, <1>3, EvenRow
<1> QED
  BY <1>4 DEF d

-----------------------------------------------------------------------------
(* Areas beside each other.                                                *)

\* A column from the top edge to the bottom one is as a column of a layout must
\* be.
LEMMA UprightColumnar ==
  ASSUME NEW m \in Screen, NEW A, NEW n \in Nat, NEW x \in Int, NEW w \in Int, NEW below \in Nat,
         Upright(m, A, n, x, TopEnd(m), w, BottomEnd(m))
  PROVE  Columnar(m, A, n, x, w, FALSE, below)
<1>1. TopEnd(m) \in Int /\ BottomEnd(m) \in Int
  BY Edges
<1>2. /\ A \in Seq(Rectangle(m)) /\ Len(A) = n /\ \A i, j \in 1..n : i < j => Beside(m, A[i], A[j])
      /\ \A j \in 1..n : A[j] \in Rectangle(m) /\ A[j].x = x /\ TopEnd(m) <= A[j].y
      /\ (\A j \in 1..n : Ample(m, A[j])) => \A j \in 1..n : A[j].y + A[j].h <= BottomEnd(m)
  BY DEF Upright, Beside, Ample
<1>3. ASSUME \A j \in 1..n : Ample(m, A[j]), NEW j \in 1..n
      PROVE  A[j].y + A[j].h <= BottomEnd(m) + below
  <2>1. A[j].y \in Int /\ A[j].h \in Int /\ A[j].y + A[j].h <= BottomEnd(m)
    BY <1>2, <1>3 DEF Rectangle
  <2> QED
    BY <1>1, <2>1
<1>4. ASSUME NEW j \in 1..n, Ample(m, A[j]) PROVE A[j].w = w
  <2>1. A[j].w = Sized(m, w) /\ A[j] \in Rectangle(m)
    BY DEF Upright
  <2> QED
    BY <1>4, <2>1, AmpleExact
<1> QED
  BY <1>2, <1>3, <1>4 DEF Columnar

\* Two columns beside each other.
LEMMA TwoColumns ==
  ASSUME NEW m \in Screen, NEW A, NEW B, NEW k \in Nat, NEW l \in Nat, Tiled(m) = k + l,
         NEW mx \in Int, NEW sx \in Int, NEW mw \in Int, NEW sw \in Int,
         NEW piled \in BOOLEAN, NEW below \in Nat,
         Columnar(m, A, k, mx, mw, FALSE, below), Columnar(m, B, l, sx, sw, piled, below),
         Meet(m, k, l, mx, sx, mw, sw)
  PROVE  Places(m, A \o B, k, piled, TRUE, 0, below)
<1>1. /\ m.ih \in Nat /\ m.iv \in Nat
      /\ LeftEnd(m) \in Int /\ RightEnd(m) \in Int /\ TopEnd(m) \in Int /\ BottomEnd(m) \in Int
  BY Edges
<1>2. /\ A \in Seq(Rectangle(m)) /\ Len(A) = k /\ \A i, j \in 1..k : i < j => Beside(m, A[i], A[j])
      /\ \A j \in 1..k : A[j].x = mx /\ TopEnd(m) <= A[j].y
      /\ \A j \in 1..k : Ample(m, A[j]) => A[j].w = mw
      /\ (\A j \in 1..k : Ample(m, A[j])) => \A j \in 1..k : A[j].y + A[j].h <= BottomEnd(m) + below
  BY DEF Columnar
<1>3. /\ B \in Seq(Rectangle(m)) /\ Len(B) = l
      /\ ~piled => \A i, j \in 1..l : i < j => Beside(m, B[i], B[j])
      /\ \A j \in 1..l : B[j].x = sx /\ TopEnd(m) <= B[j].y
      /\ \A j \in 1..l : Ample(m, B[j]) => B[j].w = sw
      /\ (\A j \in 1..l : Ample(m, B[j])) => \A j \in 1..l : B[j].y + B[j].h <= BottomEnd(m) + below
  BY DEF Columnar
<1>4. ASSUME NEW i \in 1..k, NEW j \in 1..l, Ample(m, A[i]), Ample(m, B[j])
      PROVE  Beside(m, A[i], B[j])
  <2>1. A[i].x = mx /\ A[i].w = mw
    BY <1>2, <1>4
  <2>2. B[j].x = sx /\ B[j].w = sw
    BY <1>3, <1>4
  <2>3. mx + mw + m.ih = sx \/ sx + sw + m.ih = mx
    BY DEF Meet
  <2>4. mx + mw + m.ih <= sx \/ sx + sw + m.ih <= mx
    BY <1>1, <2>3
  <2> QED
    BY <2>1, <2>2, <2>4 DEF Beside
<1>5. ASSUME \A j \in 1..k : Ample(m, A[j]), \A j \in 1..l : Ample(m, B[j])
      PROVE  /\ \A j \in 1..k : Inside(m, A[j], 0, below)
             /\ \A j \in 1..l : Inside(m, B[j], 0, below)
  <2>1. Size0(m) \in Nat
    BY SizedBounds
  <2>2. ASSUME NEW j \in 1..k PROVE mw >= 0 /\ A[j].x = mx /\ A[j].w = mw
                                    /\ TopEnd(m) <= A[j].y /\ A[j].y + A[j].h <= BottomEnd(m) + below
    <3>1. A[j].x = mx /\ A[j].w = mw /\ TopEnd(m) <= A[j].y /\ A[j].y + A[j].h <= BottomEnd(m) + below
      BY <1>2, <1>5
    <3>2. mw > Size0(m)
      BY <3>1, <1>5 DEF Ample
    <3> QED
      BY <2>1, <3>1, <3>2
  <2>3. ASSUME NEW j \in 1..l PROVE sw >= 0 /\ B[j].x = sx /\ B[j].w = sw
                                    /\ TopEnd(m) <= B[j].y /\ B[j].y + B[j].h <= BottomEnd(m) + below
    <3>1. B[j].x = sx /\ B[j].w = sw /\ TopEnd(m) <= B[j].y /\ B[j].y + B[j].h <= BottomEnd(m) + below
      BY <1>3, <1>5
    <3>2. sw > Size0(m)
      BY <3>1, <1>5 DEF Ample
    <3> QED
      BY <2>1, <3>1, <3>2
  <2>4. (k > 0 => 1 \in 1..k) /\ (l > 0 => 1 \in 1..l)
    OBVIOUS
  <2>5. (k > 0 => LeftEnd(m) <= mx /\ mx + mw <= RightEnd(m))
        /\ (l > 0 => LeftEnd(m) <= sx /\ sx + sw <= RightEnd(m))
    BY <2>2, <2>3, <2>4 DEF Meet
  <2>6. RightEnd(m) = RightEnd(m) + 0
    BY <1>1
  <2>7. ASSUME NEW j \in 1..k PROVE Inside(m, A[j], 0, below)
    <3>1. LeftEnd(m) <= mx /\ mx + mw <= RightEnd(m)
      BY <2>5
    <3> QED
      BY <2>2, <2>6, <3>1 DEF Inside
  <2>8. ASSUME NEW j \in 1..l PROVE Inside(m, B[j], 0, below)
    <3>1. LeftEnd(m) <= sx /\ sx + sw <= RightEnd(m)
      BY <2>5
    <3> QED
      BY <2>3, <2>6, <3>1 DEF Inside
  <2> QED
    BY <2>7, <2>8
<1>6. /\ \A i, j \in 1..Len(A) : i < j => Beside(m, A[i], A[j])
      /\ ~piled => \A i, j \in 1..Len(B) : i < j => Beside(m, B[i], B[j])
      /\ \A i \in 1..Len(A), j \in 1..Len(B) :
            Ample(m, A[i]) /\ Ample(m, B[j]) => Beside(m, A[i], B[j])
  BY <1>2, <1>3, <1>4
<1>7. (\A i \in 1..Len(A) : Ample(m, A[i])) /\ (\A i \in 1..Len(B) : Ample(m, B[i])) =>
         /\ \A i \in 1..Len(A) : Inside(m, A[i], 0, below)
         /\ \A i \in 1..Len(B) : Inside(m, B[i], 0, below)
  BY <1>2, <1>3, <1>5
<1>8. Tiled(m) = Len(A) + Len(B) /\ k = Len(A) /\ A \in Seq(Rectangle(m)) /\ B \in Seq(Rectangle(m))
  BY <1>2, <1>3
<1>9. Two(m, A, B, k, piled, TRUE, 0, below)
  BY <1>6, <1>7, <1>8 DEF Two
<1> QED
  BY <1>9, Joined

\* Both tile and deck put the masters at one side and the stack at the other.
LEMMA ColumnsMeet ==
  ASSUME NEW m \in Screen, NEW k \in Nat, NEW l \in Nat, Parted(m) <=> k > 0 /\ l > 0,
         NEW mx \in Int, NEW sx \in Int, NEW mw \in Int, NEW sw \in Int,
         Parted(m) => mw + m.ih + sw = Wide(m), ~Parted(m) => mw = Wide(m) /\ sw = Wide(m),
         Parted(m) /\ ~m.mirror => mx = LeftEnd(m) /\ sx = mx + mw + m.ih,
         Parted(m) /\ m.mirror => sx = LeftEnd(m) /\ mx = sx + sw + m.ih,
         ~Parted(m) => mx = LeftEnd(m) /\ sx = LeftEnd(m)
  PROVE  Meet(m, k, l, mx, sx, mw, sw)
<1>1. /\ Wide(m) \in Int /\ LeftEnd(m) \in Int /\ RightEnd(m) \in Int /\ m.ih \in Nat
      /\ LeftEnd(m) + Wide(m) = RightEnd(m)
  BY Edges
<1>2. CASE Parted(m) /\ m.mirror
  <2>1. k > 0 /\ l > 0 /\ sx = LeftEnd(m) /\ mx = sx + sw + m.ih /\ mw + m.ih + sw = Wide(m)
    BY <1>2
  <2> QED
    BY <1>1, <2>1 DEF Meet
<1>3. CASE Parted(m) /\ ~m.mirror
  <2>1. k > 0 /\ l > 0 /\ mx = LeftEnd(m) /\ sx = mx + mw + m.ih /\ mw + m.ih + sw = Wide(m)
    BY <1>3
  <2> QED
    BY <1>1, <2>1 DEF Meet
<1>4. CASE ~Parted(m)
  <2>1. ~(k > 0 /\ l > 0) /\ mx = LeftEnd(m) /\ sx = LeftEnd(m) /\ mw = Wide(m) /\ sw = Wide(m)
    BY <1>4
  <2>2. LeftEnd(m) <= LeftEnd(m) /\ LeftEnd(m) + Wide(m) <= RightEnd(m)
    BY <1>1
  <2> QED
    BY <2>1, <2>2 DEF Meet
<1> QED
  BY <1>2, <1>3, <1>4, Zenon

\* tile puts two columns side by side.
LEMMA tilePlaces ==
  ASSUME NEW m \in Screen
  PROVE  Places(m, tile(m), Len(Masters(m)), FALSE, TRUE, 0, 0)
<1> DEFINE k == Len(Masters(m))
           l == Len(Stack(m))
           sw == Part(m, Wide(m), m.ih)
           mw == Other(m, Wide(m), m.ih)
           mx == IF Parted(m) /\ m.mirror THEN m.wx + m.ww - mw - m.oh ELSE LeftEnd(m)
           sx == IF Parted(m) /\ ~m.mirror THEN mx + mw + m.ih ELSE LeftEnd(m)
           A == Column(m, mx, TopEnd(m), mw, EvenSplit(Down(m, k), Masters(m)))
           B == Column(m, sx, TopEnd(m), sw, EvenSplit(Down(m, Tiled(m) - m.nmaster), Stack(m)))
<1>1. tile(m) = A \o B
  BY DEF tile, Part, Other, LeftEnd, TopEnd
<1>2. m.wx \in Int /\ m.ww \in Int /\ m.mirror \in BOOLEAN /\ m.oh \in Nat
  BY DEF Screen
<1>3. /\ Wide(m) \in Int /\ LeftEnd(m) \in Int /\ RightEnd(m) \in Int /\ m.ih \in Nat
      /\ LeftEnd(m) + Wide(m) = RightEnd(m)
  BY Edges
<1>4. /\ sw \in Int /\ mw \in Int /\ (Parted(m) => mw + m.ih + sw = Wide(m))
      /\ (~Parted(m) => mw = Wide(m) /\ sw = Wide(m))
  BY <1>3, Parts
<1>5. /\ k \in Nat /\ l \in Nat /\ Tiled(m) = k + l /\ (Parted(m) <=> k > 0 /\ l > 0)
      /\ Masters(m) \in Factors /\ Stack(m) \in Factors
      /\ Tiled(m) - m.nmaster \in Int /\ (Stack(m) # << >> => Tiled(m) - m.nmaster = Len(Stack(m)))
  BY AreaLengths, Areas
<1> HIDE DEF sw, mw
<1>6. m.wx + m.ww - mw - m.oh = RightEnd(m) - mw
  BY <1>2, <1>4 DEF RightEnd
<1>7. mx \in Int /\ sx \in Int
  BY <1>2, <1>3, <1>4
<1>8. /\ Parted(m) /\ ~m.mirror => mx = LeftEnd(m) /\ sx = mx + mw + m.ih
      /\ Parted(m) /\ m.mirror => sx = LeftEnd(m) /\ mx = RightEnd(m) - mw
      /\ ~Parted(m) => mx = LeftEnd(m) /\ sx = LeftEnd(m)
  BY <1>6
<1> HIDE DEF mx, sx
<1>9. Parted(m) /\ m.mirror => mx = sx + sw + m.ih
  <2>1. ASSUME mx = RightEnd(m) - mw, sx = LeftEnd(m), mw + m.ih + sw = Wide(m) PROVE mx = sx + sw + m.ih
    BY <1>3, <1>4, <1>7, <2>1
  <2> QED
    BY <1>4, <1>8, <2>1
<1>10. Columnar(m, A, k, mx, mw, FALSE, 0)
  <2>1. Upright(m, A, k, mx, TopEnd(m), mw, BottomEnd(m))
    BY <1>4, <1>5, <1>7, AreaColumn
  <2> HIDE DEF A, k
  <2> QED
    BY <1>4, <1>5, <1>7, <2>1, UprightColumnar
<1>11. Columnar(m, B, l, sx, sw, FALSE, 0)
  <2>1. Upright(m, B, l, sx, TopEnd(m), sw, BottomEnd(m))
    BY <1>4, <1>5, <1>7, AreaColumn
  <2> HIDE DEF B, l
  <2> QED
    BY <1>4, <1>5, <1>7, <2>1, UprightColumnar
<1> HIDE DEF A, B, k, l
<1>12. Meet(m, k, l, mx, sx, mw, sw)
  BY <1>4, <1>5, <1>7, <1>8, <1>9, ColumnsMeet
<1>13. Places(m, A \o B, k, FALSE, TRUE, 0, 0)
  BY <1>4, <1>5, <1>7, <1>10, <1>11, <1>12, TwoColumns
<1> QED
  BY <1>1, <1>13 DEF k

\* Windows on a pile, each of the same place and size.
LEMMA PileColumnar ==
  ASSUME NEW m \in Screen, NEW n \in Nat, NEW x \in Int, NEW w \in Int, NEW h \in Int,
         NEW below \in Nat, n > 0 => TopEnd(m) + h <= BottomEnd(m) + below
  PROVE  Columnar(m, [j \in 1..n |-> Resize(m, x, TopEnd(m), w, h)], n, x, w, TRUE, below)
<1> DEFINE B == [j \in 1..n |-> Resize(m, x, TopEnd(m), w, h)]
<1>1. TopEnd(m) \in Int /\ BottomEnd(m) \in Int
  BY Edges
<1>2. ASSUME NEW j \in 1..n
      PROVE  /\ B[j] \in Rectangle(m) /\ B[j].x = x /\ B[j].y = TopEnd(m)
             /\ B[j].w = Sized(m, w) /\ B[j].h = Sized(m, h)
  <2>1. B[j] = Resize(m, x, TopEnd(m), w, h)
    OBVIOUS
  <2> HIDE DEF B
  <2> QED
    BY <1>1, <2>1, ResizeRect
<1>3. B \in Seq(Rectangle(m)) /\ Len(B) = n
  <2>1. B \in [1..n -> Rectangle(m)]
    BY <1>2
  <2> QED
    BY <2>1, SeqMade
<1> HIDE DEF B
<1>4. ASSUME NEW j \in 1..n, Ample(m, B[j]) PROVE B[j].w = w /\ B[j].h = h
  BY <1>2, <1>4, AmpleExact
<1>5. ASSUME \A j \in 1..n : Ample(m, B[j]), NEW j \in 1..n
      PROVE  B[j].y + B[j].h <= BottomEnd(m) + below
  <2>1. B[j].h = h /\ n > 0 /\ B[j].y = TopEnd(m)
    BY <1>2, <1>4, <1>5
  <2> QED
    BY <2>1
<1>6. \A j \in 1..n : B[j].x = x /\ TopEnd(m) <= B[j].y
  BY <1>1, <1>2
<1>7. Columnar(m, B, n, x, w, TRUE, below)
  BY <1>3, <1>4, <1>5, <1>6 DEF Columnar
<1> QED
  BY <1>7 DEF B

\* deck puts a column and a pile side by side, and without masters the pile
\* reaches an inner gap too far down.
LEMMA deckPlaces ==
  ASSUME NEW m \in Screen
  PROVE  Places(m, deck(m), Len(Masters(m)), TRUE, TRUE, 0, IF m.nmaster = 0 THEN m.iv ELSE 0)
<1> DEFINE k == Len(Masters(m))
           l == Len(Stack(m))
           sw == Part(m, Wide(m), m.ih)
           mw == Other(m, Wide(m), m.ih)
           sh == IF Parted(m) THEN High(m) ELSE Down(m, k)
           mx == IF Parted(m) /\ m.mirror THEN LeftEnd(m) + sw + m.ih ELSE LeftEnd(m)
           sx == IF Parted(m) /\ ~m.mirror THEN mx + mw + m.ih ELSE LeftEnd(m)
           below == IF m.nmaster = 0 THEN m.iv ELSE 0
           A == Column(m, mx, TopEnd(m), mw, EvenSplit(Down(m, k), Masters(m)))
           B == [j \in 1..l |-> Resize(m, sx, TopEnd(m), sw, sh)]
<1>1. deck(m) = A \o B
  <2>1. DOMAIN Stack(m) = 1..l
    BY Areas DEF Factors
  <2> QED
    BY <2>1 DEF deck, Part, Other, LeftEnd, TopEnd
<1>2. m.mirror \in BOOLEAN /\ m.nmaster \in Nat
  BY DEF Screen
<1>3. /\ Wide(m) \in Int /\ LeftEnd(m) \in Int /\ m.ih \in Nat /\ m.iv \in Nat
      /\ High(m) \in Int /\ TopEnd(m) \in Int /\ BottomEnd(m) \in Int /\ TopEnd(m) + High(m) = BottomEnd(m)
  BY Edges
<1>4. /\ sw \in Int /\ mw \in Int /\ (Parted(m) => mw + m.ih + sw = Wide(m))
      /\ (~Parted(m) => mw = Wide(m) /\ sw = Wide(m))
  BY <1>3, Parts
<1>5. /\ k \in Nat /\ l \in Nat /\ Tiled(m) = k + l /\ (Parted(m) <=> k > 0 /\ l > 0)
      /\ Masters(m) \in Factors
      /\ (l > 0 => Tiled(m) - m.nmaster = l)
  BY AreaLengths, Areas
<1> HIDE DEF sw, mw
<1>6. mx \in Int /\ sx \in Int
  BY <1>3, <1>4
<1>7. /\ Parted(m) /\ ~m.mirror => mx = LeftEnd(m) /\ sx = mx + mw + m.ih
      /\ Parted(m) /\ m.mirror => sx = LeftEnd(m) /\ mx = sx + sw + m.ih
      /\ ~Parted(m) => mx = LeftEnd(m) /\ sx = LeftEnd(m)
  OBVIOUS
<1> HIDE DEF mx, sx
<1>8. below \in Nat
  BY <1>3
<1>9. l > 0 /\ ~Parted(m) => m.nmaster = 0 /\ k = 0
  BY <1>2, <1>5
<1>10. Down(m, k) \in Int /\ (k = 0 => Down(m, k) = High(m) + m.iv)
  BY <1>3, <1>5 DEF Down
<1>11. sh \in Int /\ (l > 0 => TopEnd(m) + sh <= BottomEnd(m) + below)
  <2>1. CASE Parted(m)
    <3>1. sh = High(m)
      BY <2>1
    <3> HIDE DEF sh, below
    <3> QED
      BY <1>3, <1>8, <3>1
  <2>2. CASE ~Parted(m)
    <3>1. sh = Down(m, k) /\ (l > 0 => below = m.iv)
      BY <1>9, <2>2
    <3> HIDE DEF sh, below, k, l
    <3> QED
      BY <1>3, <1>9, <1>10, <2>2, <3>1
  <2> QED
    BY <2>1, <2>2
<1> HIDE DEF sh, below
<1>12. Columnar(m, A, k, mx, mw, FALSE, below)
  <2>1. Upright(m, A, k, mx, TopEnd(m), mw, BottomEnd(m))
    BY <1>4, <1>5, <1>6, AreaColumn
  <2> HIDE DEF A, k
  <2> QED
    BY <1>4, <1>5, <1>6, <1>8, <2>1, UprightColumnar
<1> HIDE DEF k, l
<1>13. Columnar(m, B, l, sx, sw, TRUE, below)
  BY <1>4, <1>5, <1>6, <1>8, <1>11, PileColumnar
<1> HIDE DEF A, B
<1>14. Meet(m, k, l, mx, sx, mw, sw)
  BY <1>4, <1>5, <1>6, <1>7, ColumnsMeet
<1>15. Places(m, A \o B, k, TRUE, TRUE, 0, below)
  BY <1>4, <1>5, <1>6, <1>8, <1>12, <1>13, <1>14, TwoColumns
<1> QED
  BY <1>1, <1>15 DEF k, below

-----------------------------------------------------------------------------
(* Areas one above the other.                                              *)

\* Rows on top of each other down to the bottom edge are as the lower part of a
\* layout must be.
LEMMA UprightLower ==
  ASSUME NEW m \in Screen, NEW B, NEW n \in Nat, NEW y \in Int, NEW w \in Int, NEW right \in Int,
         Upright(m, B, n, LeftEnd(m), y, w, BottomEnd(m)), n > 0 => LeftEnd(m) + w <= RightEnd(m) + right
  PROVE  Lower(m, B, n, y, right)
<1>0. LeftEnd(m) \in Int
  BY Edges
<1>1. ASSUME NEW j \in 1..n, Ample(m, B[j]) PROVE B[j].x + B[j].w <= RightEnd(m) + right
  <2>1. B[j].w = Sized(m, w) /\ B[j] \in Rectangle(m) /\ B[j].x = LeftEnd(m) /\ n > 0
    BY DEF Upright
  <2>2. B[j].w = w
    BY <1>1, <2>1, AmpleExact
  <2> QED
    BY <2>1, <2>2
<1> QED
  BY <1>0, <1>1 DEF Upright, Lower, Beside, Ample

\* Masters in an upper row and the others below it, an inner gap apart, are
\* placed as they must be (bstack, bstackhoriz, horizgrid).
LEMMA TwoRows ==
  ASSUME NEW m \in Screen, NEW A, NEW B, NEW k \in Nat, NEW l \in Nat, Tiled(m) = k + l,
         NEW mh \in Int, NEW sy \in Int, NEW right \in Nat,
         Upper(m, A, k, mh, right), Lower(m, B, l, sy, right),
         k > 0 /\ l > 0 => TopEnd(m) + mh + m.iv = sy,
         k = 0 => sy = TopEnd(m),
         l = 0 => TopEnd(m) + mh <= BottomEnd(m)
  PROVE  Places(m, A \o B, k, FALSE, FALSE, right, 0)
<1>1. /\ m.ih \in Nat /\ m.iv \in Nat
      /\ LeftEnd(m) \in Int /\ RightEnd(m) \in Int /\ TopEnd(m) \in Int /\ BottomEnd(m) \in Int
  BY Edges
<1>2. /\ A \in Seq(Rectangle(m)) /\ Len(A) = k /\ \A i, j \in 1..k : i < j => Beside(m, A[i], A[j])
      /\ \A j \in 1..k : A[j] \in Rectangle(m) /\ A[j].y = TopEnd(m) /\ LeftEnd(m) <= A[j].x
      /\ \A j \in 1..k : Ample(m, A[j]) => A[j].h = mh
      /\ (\A j \in 1..k : Ample(m, A[j])) => \A j \in 1..k : A[j].x + A[j].w <= RightEnd(m) + right
  BY DEF Upper
<1>3. /\ B \in Seq(Rectangle(m)) /\ Len(B) = l /\ \A i, j \in 1..l : i < j => Beside(m, B[i], B[j])
      /\ \A j \in 1..l : B[j] \in Rectangle(m) /\ sy <= B[j].y /\ LeftEnd(m) <= B[j].x
      /\ (\A j \in 1..l : Ample(m, B[j])) =>
            \A j \in 1..l : B[j].x + B[j].w <= RightEnd(m) + right /\ B[j].y + B[j].h <= BottomEnd(m)
  BY DEF Lower
<1>4. ASSUME NEW i \in 1..k, NEW j \in 1..l, Ample(m, A[i])
      PROVE  Beside(m, A[i], B[j])
  <2>1. A[i].y = TopEnd(m) /\ A[i].h = mh /\ sy <= B[j].y /\ B[j].y \in Int
    BY <1>2, <1>3, <1>4 DEF Rectangle
  <2>2. TopEnd(m) + mh + m.iv <= B[j].y
    BY <1>1, <2>1
  <2> QED
    BY <2>1, <2>2 DEF Beside
<1>5. ASSUME \A j \in 1..k : Ample(m, A[j]), \A j \in 1..l : Ample(m, B[j])
      PROVE  /\ \A j \in 1..k : Inside(m, A[j], right, 0)
             /\ \A j \in 1..l : Inside(m, B[j], right, 0)
  <2>1. Size0(m) \in Nat
    BY SizedBounds
  <2>2. ASSUME NEW j \in 1..k
        PROVE  /\ LeftEnd(m) <= A[j].x /\ A[j].x + A[j].w <= RightEnd(m) + right
               /\ A[j].y = TopEnd(m) /\ A[j].h = mh /\ mh >= 0
    <3>1. /\ LeftEnd(m) <= A[j].x /\ A[j].x + A[j].w <= RightEnd(m) + right
          /\ A[j].y = TopEnd(m) /\ A[j].h = mh
      BY <1>2, <1>5
    <3>2. mh > Size0(m)
      BY <1>5, <3>1 DEF Ample
    <3> QED
      BY <2>1, <3>1, <3>2
  <2>3. ASSUME NEW j \in 1..l
        PROVE  /\ LeftEnd(m) <= B[j].x /\ B[j].x + B[j].w <= RightEnd(m) + right
               /\ sy <= B[j].y /\ B[j].y + B[j].h <= BottomEnd(m) /\ sy <= BottomEnd(m)
    <3>1. /\ LeftEnd(m) <= B[j].x /\ B[j].x + B[j].w <= RightEnd(m) + right
          /\ sy <= B[j].y /\ B[j].y + B[j].h <= BottomEnd(m) /\ B[j].y \in Int /\ B[j].h \in Int
      BY <1>3, <1>5 DEF Rectangle
    <3>2. B[j].h > Size0(m)
      BY <1>5 DEF Ample
    <3> QED
      BY <1>1, <2>1, <3>1, <3>2
  <2>4. BottomEnd(m) = BottomEnd(m) + 0
    BY <1>1
  <2>5. ASSUME NEW j \in 1..k PROVE Inside(m, A[j], right, 0)
    <3>1. TopEnd(m) + mh <= BottomEnd(m)
      <4>1. CASE l = 0
        BY <4>1
      <4>2. CASE l > 0
        <5>1. 1 \in 1..l /\ k > 0
          BY <4>2
        <5>2. sy <= BottomEnd(m) /\ TopEnd(m) + mh + m.iv = sy
          BY <2>3, <4>2, <5>1
        <5> QED
          BY <1>1, <5>2
      <4> QED
        BY <4>1, <4>2
    <3>2. TopEnd(m) <= TopEnd(m)
      BY <1>1
    <3> QED
      BY <2>2, <2>4, <3>1, <3>2 DEF Inside
  <2>6. ASSUME NEW j \in 1..l PROVE Inside(m, B[j], right, 0)
    <3>1. TopEnd(m) <= sy
      <4>1. CASE k = 0
        BY <1>1, <4>1
      <4>2. CASE k > 0
        <5>1. 1 \in 1..k /\ l > 0
          BY <4>2
        <5>2. mh >= 0 /\ TopEnd(m) + mh + m.iv = sy
          BY <2>2, <4>2, <5>1
        <5> QED
          BY <1>1, <5>2
      <4> QED
        BY <4>1, <4>2
    <3>2. TopEnd(m) <= B[j].y
      <4>1. B[j].y \in Int /\ sy <= B[j].y
        BY <1>3 DEF Rectangle
      <4> QED
        BY <1>1, <3>1, <4>1
    <3> QED
      BY <2>3, <2>4, <3>2 DEF Inside
  <2> QED
    BY <2>5, <2>6
<1>6. /\ \A i, j \in 1..Len(A) : i < j => Beside(m, A[i], A[j])
      /\ \A i, j \in 1..Len(B) : i < j => Beside(m, B[i], B[j])
      /\ \A i \in 1..Len(A), j \in 1..Len(B) : Ample(m, A[i]) => Beside(m, A[i], B[j])
  BY <1>2, <1>3, <1>4
<1>7. (\A i \in 1..Len(A) : Ample(m, A[i])) /\ (\A i \in 1..Len(B) : Ample(m, B[i])) =>
         /\ \A i \in 1..Len(A) : Inside(m, A[i], right, 0)
         /\ \A i \in 1..Len(B) : Inside(m, B[i], right, 0)
  BY <1>2, <1>3, <1>5
<1>8. Tiled(m) = Len(A) + Len(B) /\ k = Len(A) /\ A \in Seq(Rectangle(m)) /\ B \in Seq(Rectangle(m))
  BY <1>2, <1>3
<1>9. Two(m, A, B, k, FALSE, FALSE, right, 0)
  BY <1>6, <1>7, <1>8 DEF Two
<1> QED
  BY <1>9, Joined

\* The masters' row, and the stack as a row or as rows below it: as they are,
\* and turned over where the layout is mirrored (bstack, bstackhoriz).
MainHeight(m) == Other(m, High(m), m.iv)

PartHeight(m) == Part(m, High(m), m.iv)

MainRow(m, y) == Row(m, LeftEnd(m), y, EvenSplit(Across(m, Len(Masters(m))), Masters(m)), MainHeight(m))

StackY(m) == IF Parted(m) THEN TopEnd(m) + MainHeight(m) + m.iv ELSE TopEnd(m)

StackRow(m, y) == Row(m, LeftEnd(m), y, EvenSplit(Across(m, Tiled(m) - m.nmaster), Stack(m)), PartHeight(m))

StackHeight(m) == IF Parted(m) THEN High(m) - MainHeight(m) - m.iv * (Tiled(m) - m.nmaster)
                  ELSE Down(m, Tiled(m) - m.nmaster)

StackRows(m) == Column(m, LeftEnd(m), StackY(m), Wide(m), EvenSplit(StackHeight(m), Stack(m)))

StackTurned(m) ==
  [j \in DOMAIN StackRows(m) |->
     [StackRows(m)[j] EXCEPT !.y = IF m.mirror THEN FlippedCut(m, @, StackHeight(m), j) ELSE @]]

MainY(m) == FlipIf(m, TopEnd(m), MainHeight(m))

RowY(m) == FlipIf(m, StackY(m), PartHeight(m))

\* bstack and bstackhoriz are their masters' row followed by the stack.
LEMMA RowLayouts ==
  ASSUME NEW m
  PROVE  /\ bstack(m) = MainRow(m, MainY(m)) \o StackRow(m, RowY(m))
         /\ bstackhoriz(m) = MainRow(m, MainY(m)) \o StackTurned(m)
<1>1. bstack(m) = MainRow(m, MainY(m)) \o StackRow(m, RowY(m))
  BY DEF bstack, MainRow, StackRow, StackY, MainY, RowY, MainHeight, PartHeight, Part, Other, LeftEnd, TopEnd
<1>2. bstackhoriz(m) = MainRow(m, MainY(m)) \o StackTurned(m)
  BY DEF bstackhoriz, MainRow, StackTurned, StackRows, StackHeight, StackY, MainY, MainHeight, Part, Other,
         LeftEnd, TopEnd
<1> QED
  BY <1>1, <1>2

\* The room of the two rows: the masters' ends an inner gap above the stack's,
\* which ends at the bottom edge.
LEMMA RowsRoom ==
  ASSUME NEW m \in Screen
  PROVE  /\ MainHeight(m) \in Int /\ PartHeight(m) \in Int /\ StackY(m) \in Int /\ StackHeight(m) \in Int
         /\ Masters(m) # << >> /\ Stack(m) # << >> => TopEnd(m) + MainHeight(m) + m.iv = StackY(m)
         /\ Masters(m) = << >> => StackY(m) = TopEnd(m)
         /\ Stack(m) = << >> => TopEnd(m) + MainHeight(m) <= BottomEnd(m)
         /\ StackY(m) + PartHeight(m) <= BottomEnd(m)
         /\ Stack(m) # << >> => StackY(m) + StackHeight(m) + m.iv * (Len(Stack(m)) - 1) <= BottomEnd(m)
<1> DEFINE mh == MainHeight(m)
           sh == PartHeight(m)
           sy == StackY(m)
           d == Tiled(m) - m.nmaster
           s == StackHeight(m)
<1>1. /\ High(m) \in Int /\ TopEnd(m) \in Int /\ BottomEnd(m) \in Int /\ m.iv \in Nat
      /\ TopEnd(m) + High(m) = BottomEnd(m)
  BY Edges
<1>2. /\ mh \in Int /\ sh \in Int /\ (Parted(m) => mh + m.iv + sh = High(m))
      /\ (~Parted(m) => mh = High(m) /\ sh = High(m))
  BY <1>1, Parts DEF MainHeight, PartHeight
<1>3. /\ d \in Int /\ (Stack(m) # << >> => d = Len(Stack(m)))
      /\ (Parted(m) <=> Masters(m) # << >> /\ Stack(m) # << >>)
  BY AreaLengths
<1>4. /\ sy = IF Parted(m) THEN TopEnd(m) + mh + m.iv ELSE TopEnd(m)
      /\ s = IF Parted(m) THEN High(m) - mh - m.iv * d ELSE Down(m, d)
  BY DEF StackY, StackHeight
<1> HIDE DEF mh, sh, sy, d, s
<1>5. m.iv * (d - 1) \in Int /\ m.iv * d = m.iv * (d - 1) + m.iv /\ m.iv * d \in Int
  BY <1>1, <1>3
<1>6. s \in Int /\ sy \in Int /\ sy + s + m.iv * (d - 1) = BottomEnd(m)
  <2>1. CASE Parted(m)
    BY <1>1, <1>2, <1>4, <1>5, <2>1
  <2>2. CASE ~Parted(m)
    <3>1. Down(m, d) \in Int /\ Down(m, d) + m.iv * (d - 1) = High(m)
      BY <1>3, Lengths
    <3> QED
      BY <1>1, <1>4, <1>5, <2>2, <3>1
  <2> QED
    BY <2>1, <2>2
<1>7. /\ Parted(m) => sy = TopEnd(m) + mh + m.iv
      /\ ~Parted(m) => sy = TopEnd(m) /\ TopEnd(m) + mh <= BottomEnd(m)
      /\ sy + sh <= BottomEnd(m)
  BY <1>1, <1>2, <1>4
<1>8. ASSUME Stack(m) # << >> PROVE sy + s + m.iv * (Len(Stack(m)) - 1) <= BottomEnd(m)
  <2>1. d = Len(Stack(m))
    BY <1>3, <1>8
  <2>2. sy + s + m.iv * (d - 1) <= BottomEnd(m)
    BY <1>1, <1>6
  <2> QED
    BY <2>1, <2>2
<1> QED
  BY <1>2, <1>3, <1>6, <1>7, <1>8 DEF mh, sh, sy, s

\* The lines of the two rows, wherever the masters' row and the stack's are put.
LEMMA RowsLie ==
  ASSUME NEW m \in Screen, NEW y \in Int
  PROVE  /\ Level(m, MainRow(m, y), Len(Masters(m)), LeftEnd(m), y, MainHeight(m), RightEnd(m))
         /\ Level(m, StackRow(m, y), Len(Stack(m)), LeftEnd(m), y, PartHeight(m), RightEnd(m))
         /\ Upright(m, StackRows(m), Len(Stack(m)), LeftEnd(m), StackY(m), Wide(m), BottomEnd(m))
<1>1. /\ Len(Masters(m)) \in Nat /\ Masters(m) \in Factors /\ Stack(m) \in Factors
      /\ Tiled(m) - m.nmaster \in Int /\ (Stack(m) # << >> => Tiled(m) - m.nmaster = Len(Stack(m)))
  BY AreaLengths, Areas
<1>2. /\ MainHeight(m) \in Int /\ PartHeight(m) \in Int /\ StackY(m) \in Int /\ StackHeight(m) \in Int
      /\ Stack(m) # << >> => StackY(m) + StackHeight(m) + m.iv * (Len(Stack(m)) - 1) <= BottomEnd(m)
  BY RowsRoom
<1>3. Level(m, MainRow(m, y), Len(Masters(m)), LeftEnd(m), y, MainHeight(m), RightEnd(m))
  BY <1>1, <1>2, AreaRow DEF MainRow
<1>4. Level(m, StackRow(m, y), Len(Stack(m)), LeftEnd(m), y, PartHeight(m), RightEnd(m))
  BY <1>1, <1>2, AreaRow DEF StackRow
<1>5. LeftEnd(m) \in Int /\ Wide(m) \in Int /\ BottomEnd(m) \in Int
  BY Edges
<1>6. Upright(m, StackRows(m), Len(Stack(m)), LeftEnd(m), StackY(m), Wide(m), BottomEnd(m))
  BY <1>1, <1>2, <1>5, EvenColumn DEF StackRows
<1> QED
  BY <1>3, <1>4, <1>6

\* Neither is turned in a layout that is not mirrored.
LEMMA NotTurned ==
  ASSUME NEW m \in Screen, ~m.mirror
  PROVE  MainY(m) = TopEnd(m) /\ RowY(m) = StackY(m) /\ StackTurned(m) = StackRows(m)
<1>1. MainY(m) = TopEnd(m) /\ RowY(m) = StackY(m)
  BY DEF MainY, RowY, FlipIf
<1>2. StackRows(m) \in Seq(Rectangle(m)) /\ DOMAIN StackRows(m) = 1..Len(StackRows(m))
  <2>1. 0 \in Int
    OBVIOUS
  <2>2. StackRows(m) \in Seq(Rectangle(m))
    BY <2>1, RowsLie DEF Upright
  <2> QED
    BY <2>2
<1>3. \A j \in DOMAIN StackRows(m) : [StackRows(m)[j] EXCEPT !.y = @] = StackRows(m)[j]
  BY <1>2 DEF Rectangle
<1>4. StackTurned(m) = [j \in DOMAIN StackRows(m) |-> StackRows(m)[j]]
  BY <1>3 DEF StackTurned
<1> QED
  BY <1>1, <1>2, <1>4

\* A window turned over is as far from the one edge as it was from the other.
LEMMA FlippedUnder ==
  ASSUME NEW m \in Screen
  PROVE  /\ Under(m) \in Int /\ Under(m) = TopEnd(m) + BottomEnd(m) + 2 * m.bw
         /\ \A y, h \in Int : Flipped(m, y, h) = Under(m) - y - h /\ Flipped(m, y, h) \in Int
<1>1. m.wy \in Int /\ m.wh \in Int /\ m.bw \in Nat /\ m.ov \in Nat
  BY DEF Screen
<1>2. Under(m) \in Int /\ Under(m) = TopEnd(m) + BottomEnd(m) + 2 * m.bw
  BY <1>1 DEF Under, TopEnd, BottomEnd
<1>3. ASSUME NEW y \in Int, NEW h \in Int
      PROVE  Flipped(m, y, h) = Under(m) - y - h /\ Flipped(m, y, h) \in Int
  BY <1>1 DEF Flipped, Under
<1> QED
  BY <1>2, <1>3

\* The rows of bstackhoriz's stack, turned over by the heights asked for, a pixel
\* higher where the share is a fraction (vanitygaps.c:418).
LEMMA TurnedOver ==
  ASSUME NEW m \in Screen, m.mirror
  PROVE  /\ StackTurned(m) \in Seq(Rectangle(m)) /\ Len(StackTurned(m)) = Len(Stack(m))
         /\ \A j \in 1..Len(Stack(m)) : \E c \in {0, 1} :
               StackTurned(m)[j] =
                 [StackRows(m)[j] EXCEPT
                    !.y = Under(m) - StackRows(m)[j].y - StackRows(m)[j].h0 - c]
<1> DEFINE U == StackRows(m)
           R == StackTurned(m)
           n == Len(Stack(m))
           lens == EvenSplit(StackHeight(m), Stack(m))
<1>1. U \in Seq(Rectangle(m)) /\ Len(U) = n /\ n \in Nat /\ DOMAIN U = 1..n
  <2>1. 0 \in Int
    OBVIOUS
  <2>2. U \in Seq(Rectangle(m)) /\ Len(U) = n
    BY <2>1, RowsLie DEF Upright
  <2> QED
    BY <2>2
<1>2. \A j \in 1..n : U[j].h0 = lens[j]
  <2>1. U = [j \in DOMAIN lens |-> Resize(m, LeftEnd(m), StackY(m) + Offset(lens, m.iv, m, j), Wide(m), lens[j])]
    BY DEF StackRows, Column
  <2>2. DOMAIN lens = 1..n
    BY <1>1, <2>1
  <2> HIDE DEF lens, U
  <2> QED
    BY <2>1, <2>2 DEF Resize
<1>3. \A j \in 1..n : R[j] = [U[j] EXCEPT !.y = FlippedCut(m, U[j].y, StackHeight(m), j)]
  BY <1>1 DEF StackTurned
<1>4. ASSUME NEW j \in 1..n
      PROVE  /\ R[j] \in Rectangle(m)
             /\ \E c \in {0, 1} :
                   R[j] = [U[j] EXCEPT !.y = Under(m) - U[j].y - U[j].h0 - c]
  <2> DEFINE u == U[j]
             f == Flipped(m, u.y, u.h0)
             g == FlippedCut(m, u.y, StackHeight(m), j)
  <2>1. u \in Rectangle(m)
    BY <1>1
  <2>2. R[j] = [u EXCEPT !.y = g]
    BY <1>3
  <2>3. g = f \/ g = f - 1
    BY <1>2 DEF FlippedCut
  <2> HIDE DEF u, R, g
  <2>4. u.y \in Int /\ u.h0 \in Int
    BY <2>1 DEF Rectangle
  <2>5. m.wy \in Int /\ m.wh \in Int /\ m.bw \in Nat /\ m.ov \in Nat
    BY DEF Screen
  <2>6. f = Under(m) - u.y - u.h0 /\ f \in Int
    BY <2>4, <2>5, FlippedUnder
  <2> HIDE DEF f
  <2>7. g \in Int /\ (g = f - 0 \/ g = f - 1)
    BY <2>3, <2>6
  <2>8. R[j] \in Rectangle(m)
    BY <2>1, <2>2, <2>7 DEF Rectangle
  <2>9. ASSUME NEW c \in {0, 1}, g = f - c
        PROVE  R[j] = [u EXCEPT !.y = Under(m) - u.y - u.h0 - c]
    <3>1. g = Under(m) - u.y - u.h0 - c
      BY <2>6, <2>9, Zenon
    <3> QED
      BY <2>2, <3>1
  <2> QED
    BY <2>7, <2>8, <2>9 DEF u
<1>5. R = [j \in 1..n |-> R[j]]
  BY <1>1 DEF StackTurned
<1> HIDE DEF R, U, n, lens
<1>6. R \in [1..n -> Rectangle(m)]
  BY <1>4, <1>5
<1>7. R \in Seq(Rectangle(m)) /\ Len(R) = n
  BY <1>1, <1>6, SeqMade
<1> QED
  BY <1>4, <1>7 DEF R, U, n

\* Of a mirrored layout of two rows, the windows of the first k are apart, the
\* others lie above them, if they are ample, and apart, up to a pixel (cut); and
\* if all are ample they lie no more than two borders too low.
Overturned(m, R, k, cut) ==
  /\ R \in Seq(Rectangle(m)) /\ Len(R) = Tiled(m)
  /\ \A i, j \in 1..Tiled(m) : i < j =>
        /\ j <= k \/ (k < i /\ cut = 0) => Beside(m, R[i], R[j])
        /\ i <= k /\ k < j /\ Ample(m, R[j]) => R[j].y + R[j].h + m.iv <= R[i].y
        /\ k < i /\ cut = 1 /\ Ample(m, R[j]) => R[j].y + R[j].h - 1 + m.iv <= R[i].y
  /\ (\A j \in 1..Tiled(m) : Ample(m, R[j])) =>
        \A j \in 1..Tiled(m) :
           /\ LeftEnd(m) <= R[j].x /\ R[j].x + R[j].w <= RightEnd(m)
           /\ TopEnd(m) + 2 * m.bw - cut <= R[j].y /\ R[j].y + R[j].h <= BottomEnd(m) + 2 * m.bw

\* Both areas make such a layout.
LEMMA OverJoined ==
  ASSUME NEW m, NEW A, NEW B, NEW k, NEW cut, Over(m, A, 0), Over(m, B, cut),
         Tiled(m) = Len(A) + Len(B), k = Len(A),
         \A i \in 1..Len(A), j \in 1..Len(B) : Ample(m, B[j]) => B[j].y + B[j].h + m.iv <= A[i].y,
         (\A i \in 1..Len(A) : Ample(m, A[i])) /\ (\A i \in 1..Len(B) : Ample(m, B[i])) =>
            /\ \A j \in 1..Len(A) :
                  /\ LeftEnd(m) <= A[j].x /\ A[j].x + A[j].w <= RightEnd(m)
                  /\ TopEnd(m) + 2 * m.bw - cut <= A[j].y /\ A[j].y + A[j].h <= BottomEnd(m) + 2 * m.bw
            /\ \A j \in 1..Len(B) :
                  /\ LeftEnd(m) <= B[j].x /\ B[j].x + B[j].w <= RightEnd(m)
                  /\ TopEnd(m) + 2 * m.bw - cut <= B[j].y /\ B[j].y + B[j].h <= BottomEnd(m) + 2 * m.bw
  PROVE  Overturned(m, A \o B, k, cut)
<1> DEFINE n == Tiled(m)
           R == A \o B
           l == Len(B)
<1>1. /\ R \in Seq(Rectangle(m)) /\ Len(R) = n /\ n = k + l /\ l \in Nat
      /\ \A i \in 1..k : i \in 1..n /\ R[i] = A[i]
      /\ \A i \in 1..l : k + i \in 1..n /\ R[k + i] = B[i]
      /\ k \in Nat /\ k = Len(A)
  BY DEF Over
<1> HIDE DEF n, R, l
<1>2. ASSUME NEW j \in 1..n, k < j PROVE j - k \in 1..l /\ R[j] = B[j - k]
  <2>1. j - k \in 1..l /\ k + (j - k) = j
    BY <1>1, <1>2
  <2> QED
    BY <1>1, <2>1
<1>3. ASSUME NEW i \in 1..n, NEW j \in 1..n, i < j
      PROVE  /\ j <= k \/ (k < i /\ cut = 0) => Beside(m, R[i], R[j])
             /\ i <= k /\ k < j /\ Ample(m, R[j]) => R[j].y + R[j].h + m.iv <= R[i].y
             /\ k < i /\ cut = 1 /\ Ample(m, R[j]) => R[j].y + R[j].h - 1 + m.iv <= R[i].y
  <2>1. CASE j <= k
    <3>1. i \in 1..k /\ j \in 1..k /\ i < j /\ ~(k < j) /\ ~(k < i)
      BY <1>1, <1>3, <2>1
    <3>2. Beside(m, A[i], A[j])
      BY <1>1, <3>1 DEF Over
    <3> QED
      BY <1>1, <3>1, <3>2
  <2>2. CASE k < j /\ i <= k
    <3>1. i \in 1..k /\ R[i] = A[i] /\ ~(j <= k) /\ ~(k < i)
      BY <1>1, <2>2
    <3>2. j - k \in 1..l /\ R[j] = B[j - k]
      BY <1>2, <2>2
    <3>3. Ample(m, B[j - k]) => B[j - k].y + B[j - k].h + m.iv <= A[i].y
      BY <1>1, <3>1, <3>2 DEF l
    <3> QED
      BY <3>1, <3>2, <3>3
  <2>3. CASE k < i
    <3>1. k < j /\ ~(j <= k) /\ ~(i <= k)
      BY <1>1, <1>3, <2>3
    <3>2. j - k \in 1..l /\ R[j] = B[j - k] /\ i - k \in 1..l /\ R[i] = B[i - k]
      BY <1>2, <2>3, <3>1
    <3>3. i - k < j - k
      BY <1>1, <1>3
    <3>4. /\ cut = 0 => Beside(m, B[i - k], B[j - k])
          /\ cut = 1 /\ Ample(m, B[j - k]) => B[j - k].y + B[j - k].h - 1 + m.iv <= B[i - k].y
      BY <3>2, <3>3 DEF l, Over
    <3> QED
      BY <3>1, <3>2, <3>4
  <2>4. j <= k \/ (k < j /\ i <= k) \/ k < i
    BY <1>1
  <2> QED
    BY <2>1, <2>2, <2>3, <2>4
<1>4. ASSUME \A j \in 1..n : Ample(m, R[j]), NEW j \in 1..n
      PROVE  /\ LeftEnd(m) <= R[j].x /\ R[j].x + R[j].w <= RightEnd(m)
             /\ TopEnd(m) + 2 * m.bw - cut <= R[j].y /\ R[j].y + R[j].h <= BottomEnd(m) + 2 * m.bw
  <2>1. \A i \in 1..k : Ample(m, A[i])
    BY <1>1, <1>4
  <2>2. \A i \in 1..l : Ample(m, B[i])
    BY <1>1, <1>4
  <2>3. CASE j <= k
    <3>1. j \in 1..k /\ R[j] = A[j]
      BY <1>1, <2>3
    <3> QED
      BY <1>1, <2>1, <2>2, <3>1 DEF l
  <2>4. CASE k < j
    <3>1. j - k \in 1..l /\ R[j] = B[j - k]
      BY <1>2, <2>4
    <3> QED
      BY <1>1, <2>1, <2>2, <3>1 DEF l
  <2> QED
    BY <1>1, <2>3, <2>4
<1> QED
  BY <1>1, <1>3, <1>4 DEF Overturned, n, R

\* The masters' row of a mirrored layout, under whatever is above it.
LEMMA MainOver ==
  ASSUME NEW m \in Screen, m.mirror
  PROVE  LET A == MainRow(m, MainY(m)) IN
         /\ Over(m, A, 0) /\ Len(A) = Len(Masters(m)) /\ MainY(m) \in Int
         /\ MainY(m) = Under(m) - TopEnd(m) - MainHeight(m)
         /\ \A j \in 1..Len(A) : A[j].y = MainY(m)
         /\ (\A j \in 1..Len(A) : Ample(m, A[j])) =>
               \A j \in 1..Len(A) : /\ LeftEnd(m) <= A[j].x /\ A[j].x + A[j].w <= RightEnd(m)
                                    /\ A[j].h = MainHeight(m) /\ 0 < MainHeight(m)
<1> DEFINE A == MainRow(m, MainY(m))
           k == Len(Masters(m))
<1>1. /\ MainHeight(m) \in Int /\ TopEnd(m) \in Int /\ LeftEnd(m) \in Int /\ RightEnd(m) \in Int
  BY Edges, RowsRoom
<1>2. MainY(m) = Under(m) - TopEnd(m) - MainHeight(m) /\ MainY(m) \in Int
  BY <1>1, FlippedUnder DEF MainY, FlipIf
<1>3. Level(m, A, k, LeftEnd(m), MainY(m), MainHeight(m), RightEnd(m))
  BY <1>2, RowsLie
<1> HIDE DEF A, k
<1>4. /\ A \in Seq(Rectangle(m)) /\ Len(A) = k
      /\ \A j \in 1..k : /\ A[j].y = MainY(m) /\ A[j].h = Sized(m, MainHeight(m)) /\ LeftEnd(m) <= A[j].x
      /\ \A i, j \in 1..k : i < j => A[i].x + A[i].w + m.ih <= A[j].x
      /\ (\A j \in 1..k : A[j].w > Size0(m)) => \A j \in 1..k : A[j].x + A[j].w <= RightEnd(m)
  BY <1>3 DEF Level
<1>5. Over(m, A, 0)
  BY <1>4 DEF Over, Beside
<1>6. ASSUME \A j \in 1..k : Ample(m, A[j]), NEW j \in 1..k
      PROVE  /\ LeftEnd(m) <= A[j].x /\ A[j].x + A[j].w <= RightEnd(m)
             /\ A[j].h = MainHeight(m) /\ 0 < MainHeight(m)
  <2>1. A[j].h = MainHeight(m) /\ MainHeight(m) > Size0(m)
    BY <1>1, <1>4, <1>6, AmpleExact
  <2>2. Size0(m) \in Nat
    BY <1>1, SizedBounds
  <2>3. \A i \in 1..k : A[i].w > Size0(m)
    BY <1>6 DEF Ample
  <2> QED
    BY <1>1, <1>4, <2>1, <2>2, <2>3
<1> QED
  BY <1>2, <1>4, <1>5, <1>6 DEF A, k

\* bstack puts two rows one above the other, the masters' below when mirrored.
LEMMA bstackPlaces ==
  ASSUME NEW m \in Screen
  PROVE  /\ ~m.mirror => Places(m, bstack(m), Len(Masters(m)), FALSE, FALSE, 0, 0)
         /\ m.mirror => Overturned(m, bstack(m), Len(Masters(m)), 0)
<1> DEFINE k == Len(Masters(m))
           l == Len(Stack(m))
           mh == MainHeight(m)
           sh == PartHeight(m)
           sy == StackY(m)
           A == MainRow(m, MainY(m))
           B == StackRow(m, RowY(m))
<1>1. bstack(m) = A \o B
  BY RowLayouts
<1>2. /\ TopEnd(m) \in Int /\ BottomEnd(m) \in Int /\ LeftEnd(m) \in Int /\ m.iv \in Nat
      /\ RightEnd(m) \in Int /\ RightEnd(m) + 0 = RightEnd(m)
  BY Edges
<1>3. /\ mh \in Int /\ sh \in Int /\ sy \in Int /\ sy + sh <= BottomEnd(m)
      /\ k > 0 /\ l > 0 => TopEnd(m) + mh + m.iv = sy
      /\ k = 0 => sy = TopEnd(m)
      /\ l = 0 => TopEnd(m) + mh <= BottomEnd(m)
  BY RowsRoom, AreaLengths
<1>4. k \in Nat /\ l \in Nat /\ Tiled(m) = k + l
  BY AreaLengths
<1>5. ASSUME ~m.mirror PROVE Places(m, A \o B, k, FALSE, FALSE, 0, 0)
  <2>1. MainY(m) = TopEnd(m) /\ RowY(m) = sy
    BY <1>5, NotTurned
  <2>2. Level(m, A, k, LeftEnd(m), TopEnd(m), mh, RightEnd(m)) /\ Level(m, B, l, LeftEnd(m), sy, sh, RightEnd(m))
    BY <1>2, <1>3, <2>1, RowsLie
  <2> HIDE DEF A, B, k, l, mh, sh, sy
  <2>3. Upper(m, A, k, mh, 0) /\ Lower(m, B, l, sy, 0)
    BY <1>2, <1>3, <1>4, <2>2, LevelUpper, LevelLower
  <2> QED
    BY <1>3, <1>4, <2>3, TwoRows
<1>6. ASSUME m.mirror PROVE Overturned(m, A \o B, k, 0)
  <2>1. /\ Over(m, A, 0) /\ Len(A) = k /\ MainY(m) \in Int
        /\ MainY(m) = Under(m) - TopEnd(m) - mh
        /\ \A j \in 1..Len(A) : A[j].y = MainY(m)
        /\ (\A j \in 1..Len(A) : Ample(m, A[j])) =>
              \A j \in 1..Len(A) : /\ LeftEnd(m) <= A[j].x /\ A[j].x + A[j].w <= RightEnd(m)
                                   /\ A[j].h = mh /\ 0 < mh
    BY <1>6, MainOver
  <2>2. RowY(m) = Under(m) - sy - sh /\ RowY(m) \in Int
    BY <1>3, <1>6, FlippedUnder DEF RowY, FlipIf
  <2>3. Level(m, B, l, LeftEnd(m), RowY(m), sh, RightEnd(m))
    BY <2>2, RowsLie
  <2>4. Under(m) \in Int /\ Under(m) = TopEnd(m) + BottomEnd(m) + 2 * m.bw /\ m.bw \in Int
    BY FlippedUnder DEF Screen
  <2> HIDE DEF A, B, k, l, mh, sh, sy
  <2>5. /\ B \in Seq(Rectangle(m)) /\ Len(B) = l
        /\ \A j \in 1..l : B[j].y = RowY(m) /\ B[j].h = Sized(m, sh) /\ LeftEnd(m) <= B[j].x
        /\ \A i, j \in 1..l : i < j => B[i].x + B[i].w + m.ih <= B[j].x
        /\ (\A j \in 1..l : B[j].w > Size0(m)) => \A j \in 1..l : B[j].x + B[j].w <= RightEnd(m)
    BY <2>3 DEF Level
  <2>6. Over(m, B, 0)
    BY <2>5 DEF Over, Beside
  <2>7. ASSUME NEW j \in 1..l, Ample(m, B[j]) PROVE B[j].h = sh /\ 0 < sh
    <3>1. B[j].h = sh /\ sh > Size0(m)
      BY <1>3, <2>5, <2>7, AmpleExact
    <3>2. Size0(m) \in Nat
      BY <1>3, SizedBounds
    <3> QED
      BY <1>3, <3>1, <3>2
  <2>8. ASSUME NEW i \in 1..k, NEW j \in 1..l, Ample(m, B[j])
        PROVE  B[j].y + B[j].h + m.iv <= A[i].y
    <3>1. A[i].y = Under(m) - TopEnd(m) - mh /\ B[j].y = Under(m) - sy - sh /\ B[j].h = sh
      BY <2>1, <2>2, <2>5, <2>7, <2>8
    <3>2. TopEnd(m) + mh + m.iv = sy
      BY <1>3, <1>4
    <3> QED
      BY <1>2, <1>3, <2>4, <3>1, <3>2
  <2>9. ASSUME \A i \in 1..k : Ample(m, A[i]), \A i \in 1..l : Ample(m, B[i])
        PROVE  /\ \A j \in 1..k :
                     /\ LeftEnd(m) <= A[j].x /\ A[j].x + A[j].w <= RightEnd(m)
                     /\ TopEnd(m) + 2 * m.bw - 0 <= A[j].y /\ A[j].y + A[j].h <= BottomEnd(m) + 2 * m.bw
               /\ \A j \in 1..l :
                     /\ LeftEnd(m) <= B[j].x /\ B[j].x + B[j].w <= RightEnd(m)
                     /\ TopEnd(m) + 2 * m.bw - 0 <= B[j].y /\ B[j].y + B[j].h <= BottomEnd(m) + 2 * m.bw
    <3>1. k > 0 => 0 < mh
      BY <1>4, <2>1, <2>9
    <3>2. l > 0 => 0 < sh
      BY <1>4, <2>7, <2>9
    <3>3. k > 0 => TopEnd(m) + mh <= BottomEnd(m)
      BY <1>2, <1>3, <1>4, <3>2
    <3>4. l > 0 => TopEnd(m) <= sy
      BY <1>2, <1>3, <1>4, <3>1
    <3>5. ASSUME NEW j \in 1..k
          PROVE  /\ LeftEnd(m) <= A[j].x /\ A[j].x + A[j].w <= RightEnd(m)
                 /\ TopEnd(m) + 2 * m.bw - 0 <= A[j].y /\ A[j].y + A[j].h <= BottomEnd(m) + 2 * m.bw
      <4>1. /\ LeftEnd(m) <= A[j].x /\ A[j].x + A[j].w <= RightEnd(m)
            /\ A[j].y = Under(m) - TopEnd(m) - mh /\ A[j].h = mh
        BY <2>1, <2>9
      <4> QED
        BY <1>2, <1>3, <1>4, <2>4, <3>3, <4>1
    <3>6. ASSUME NEW j \in 1..l
          PROVE  /\ LeftEnd(m) <= B[j].x /\ B[j].x + B[j].w <= RightEnd(m)
                 /\ TopEnd(m) + 2 * m.bw - 0 <= B[j].y /\ B[j].y + B[j].h <= BottomEnd(m) + 2 * m.bw
      <4>1. \A i \in 1..l : B[i].w > Size0(m)
        BY <2>9 DEF Ample
      <4>2. /\ LeftEnd(m) <= B[j].x /\ B[j].x + B[j].w <= RightEnd(m)
            /\ B[j].y = Under(m) - sy - sh /\ B[j].h = sh
        BY <2>2, <2>5, <2>7, <2>9, <4>1
      <4>3. TopEnd(m) <= sy
        BY <1>4, <3>4
      <4> QED
        BY <1>2, <1>3, <2>4, <4>2, <4>3
    <3> QED
      BY <3>5, <3>6
  <2> QED
    BY <1>4, <2>1, <2>5, <2>6, <2>8, <2>9, OverJoined
<1> QED
  BY <1>1, <1>5, <1>6 DEF k

\* bstackhoriz puts a column under a row, above it when mirrored.
LEMMA bstackhorizPlaces ==
  ASSUME NEW m \in Screen
  PROVE  /\ ~m.mirror => Places(m, bstackhoriz(m), Len(Masters(m)), FALSE, FALSE, 0, 0)
         /\ m.mirror => Overturned(m, bstackhoriz(m), Len(Masters(m)), 1)
<1> DEFINE k == Len(Masters(m))
           l == Len(Stack(m))
           mh == MainHeight(m)
           sy == StackY(m)
           A == MainRow(m, MainY(m))
           B == StackTurned(m)
           U == StackRows(m)
<1>1. bstackhoriz(m) = A \o B
  BY RowLayouts
<1>2. /\ TopEnd(m) \in Int /\ BottomEnd(m) \in Int /\ LeftEnd(m) \in Int /\ m.iv \in Nat
      /\ RightEnd(m) \in Int /\ RightEnd(m) + 0 = RightEnd(m) /\ Wide(m) \in Int /\ LeftEnd(m) + Wide(m) = RightEnd(m)
  BY Edges
<1>3. /\ mh \in Int /\ sy \in Int
      /\ k > 0 /\ l > 0 => TopEnd(m) + mh + m.iv = sy
      /\ k = 0 => sy = TopEnd(m)
      /\ l = 0 => TopEnd(m) + mh <= BottomEnd(m)
  BY RowsRoom, AreaLengths
<1>4. k \in Nat /\ l \in Nat /\ Tiled(m) = k + l
  BY AreaLengths
<1>5. Upright(m, U, l, LeftEnd(m), sy, Wide(m), BottomEnd(m))
  BY <1>3, RowsLie
<1>6. ASSUME ~m.mirror PROVE Places(m, A \o B, k, FALSE, FALSE, 0, 0)
  <2>1. MainY(m) = TopEnd(m) /\ B = U
    BY <1>6, NotTurned
  <2>2. Level(m, A, k, LeftEnd(m), TopEnd(m), mh, RightEnd(m))
    BY <1>2, <2>1, RowsLie
  <2> HIDE DEF A, B, k, l, mh, sy, U
  <2>3. Upper(m, A, k, mh, 0)
    BY <1>2, <1>3, <1>4, <2>2, LevelUpper
  <2>4. Lower(m, U, l, sy, 0)
    <3>1. LeftEnd(m) + Wide(m) <= RightEnd(m) + 0
      BY <1>2
    <3> QED
      BY <1>2, <1>3, <1>4, <1>5, <3>1, UprightLower
  <2> QED
    BY <1>3, <1>4, <2>1, <2>3, <2>4, TwoRows
<1>7. ASSUME m.mirror PROVE Overturned(m, A \o B, k, 1)
  <2>1. /\ Over(m, A, 0) /\ Len(A) = k /\ MainY(m) \in Int
        /\ MainY(m) = Under(m) - TopEnd(m) - mh
        /\ \A j \in 1..Len(A) : A[j].y = MainY(m)
        /\ (\A j \in 1..Len(A) : Ample(m, A[j])) =>
              \A j \in 1..Len(A) : /\ LeftEnd(m) <= A[j].x /\ A[j].x + A[j].w <= RightEnd(m)
                                   /\ A[j].h = mh /\ 0 < mh
    BY <1>7, MainOver
  <2>2. /\ B \in Seq(Rectangle(m)) /\ Len(B) = l
        /\ \A j \in 1..l : \E c \in {0, 1} : B[j] = [U[j] EXCEPT !.y = Under(m) - U[j].y - U[j].h0 - c]
    BY <1>7, TurnedOver
  <2>3. Under(m) \in Int /\ Under(m) = TopEnd(m) + BottomEnd(m) + 2 * m.bw /\ m.bw \in Int
    BY FlippedUnder DEF Screen
  <2>4. Size0(m) \in Nat
    BY <1>2, SizedBounds
  <2> HIDE DEF A, B, k, l, mh, sy, U
  <2>5. /\ U \in Seq(Rectangle(m)) /\ Len(U) = l
        /\ \A j \in 1..l : U[j].x = LeftEnd(m) /\ U[j].w = Sized(m, Wide(m)) /\ sy <= U[j].y
        /\ \A i, j \in 1..l : i < j => U[i].y + U[i].h + m.iv <= U[j].y
        /\ (\A j \in 1..l : U[j].h > Size0(m)) => \A j \in 1..l : U[j].y + U[j].h <= BottomEnd(m)
    BY <1>5 DEF Upright
  <2>6. ASSUME NEW j \in 1..l
        PROVE  /\ B[j].x = U[j].x /\ B[j].w = U[j].w /\ B[j].h = U[j].h
               /\ U[j].x \in Int /\ U[j].y \in Int /\ U[j].w \in Int /\ U[j].h \in Int /\ U[j].h0 \in Int
               /\ U[j].h0 <= U[j].h /\ (Ample(m, B[j]) => U[j].h0 = U[j].h)
               /\ B[j].y \in Int
               /\ \E c \in {0, 1} : B[j].y = Under(m) - U[j].y - U[j].h0 - c
    <3>1. PICK c \in {0, 1} : B[j] = [U[j] EXCEPT !.y = Under(m) - U[j].y - U[j].h0 - c]
      BY <2>2
    <3>2. U[j] \in Rectangle(m)
      BY <2>5
    <3>3. B[j].x = U[j].x /\ B[j].w = U[j].w /\ B[j].h = U[j].h /\ B[j].y = Under(m) - U[j].y - U[j].h0 - c
      BY <3>1, <3>2 DEF Rectangle
    <3>4. /\ U[j].x \in Int /\ U[j].y \in Int /\ U[j].w \in Int /\ U[j].h \in Int /\ U[j].h0 \in Int
          /\ U[j].h = Sized(m, U[j].h0)
      BY <3>2 DEF Rectangle
    <3>5. U[j].h0 <= U[j].h /\ (Ample(m, B[j]) => U[j].h0 = U[j].h)
      <4>1. /\ U[j].h0 <= Sized(m, U[j].h0)
            /\ Sized(m, U[j].h0) # U[j].h0 => Sized(m, U[j].h0) = Size0(m)
        BY <3>4, SizedBounds
      <4>2. Ample(m, B[j]) => U[j].h > Size0(m)
        BY <3>3 DEF Ample
      <4> QED
        BY <2>4, <3>4, <4>1, <4>2
    <3> QED
      BY <2>3, <3>3, <3>4, <3>5
  <2>7. ASSUME NEW i \in 1..l, NEW j \in 1..l, i < j, Ample(m, B[j])
        PROVE  B[j].y + B[j].h - 1 + m.iv <= B[i].y
    <3>1. PICK c \in {0, 1} : B[i].y = Under(m) - U[i].y - U[i].h0 - c
      BY <2>6
    <3>2. PICK d \in {0, 1} : B[j].y = Under(m) - U[j].y - U[j].h0 - d
      BY <2>6
    <3>3. U[i].y + U[i].h + m.iv <= U[j].y
      BY <2>5, <2>7
    <3>4. B[j].h = U[j].h /\ U[j].h0 = U[j].h /\ U[i].h0 <= U[i].h
      BY <2>6, <2>7
    <3>5. /\ U[i].y \in Int /\ U[i].h \in Int /\ U[i].h0 \in Int /\ U[j].y \in Int /\ U[j].h \in Int
          /\ c \in Int /\ d \in Int /\ 0 <= c /\ c <= 1 /\ 0 <= d
      BY <2>6
    <3> QED
      BY <1>2, <2>3, <3>1, <3>2, <3>3, <3>4, <3>5
  <2>8. Over(m, B, 1)
    BY <2>2, <2>7 DEF Over
  <2>9. ASSUME NEW i \in 1..k, NEW j \in 1..l, Ample(m, B[j])
        PROVE  B[j].y + B[j].h + m.iv <= A[i].y
    <3>1. PICK d \in {0, 1} : B[j].y = Under(m) - U[j].y - U[j].h0 - d
      BY <2>6
    <3>2. A[i].y = Under(m) - TopEnd(m) - mh
      BY <2>1
    <3>3. TopEnd(m) + mh + m.iv = sy /\ sy <= U[j].y
      BY <1>3, <1>4, <2>5
    <3>4. B[j].h = U[j].h /\ U[j].h0 = U[j].h /\ U[j].y \in Int /\ U[j].h \in Int /\ d \in Int /\ 0 <= d
      BY <2>6, <2>9
    <3> QED
      BY <1>2, <1>3, <2>3, <3>1, <3>2, <3>3, <3>4
  <2>10. ASSUME \A i \in 1..k : Ample(m, A[i]), \A i \in 1..l : Ample(m, B[i])
        PROVE  /\ \A j \in 1..k :
                     /\ LeftEnd(m) <= A[j].x /\ A[j].x + A[j].w <= RightEnd(m)
                     /\ TopEnd(m) + 2 * m.bw - 1 <= A[j].y /\ A[j].y + A[j].h <= BottomEnd(m) + 2 * m.bw
               /\ \A j \in 1..l :
                     /\ LeftEnd(m) <= B[j].x /\ B[j].x + B[j].w <= RightEnd(m)
                     /\ TopEnd(m) + 2 * m.bw - 1 <= B[j].y /\ B[j].y + B[j].h <= BottomEnd(m) + 2 * m.bw
    <3>1. k > 0 => 0 < mh
      BY <1>4, <2>1, <2>10
    <3>2. ASSUME NEW j \in 1..l
          PROVE  /\ U[j].h > Size0(m) /\ U[j].y + U[j].h <= BottomEnd(m)
                 /\ U[j].x + U[j].w <= RightEnd(m) /\ 0 < U[j].h
      <4>1. \A i \in 1..l : U[i].h > Size0(m) /\ U[i].w > Size0(m)
        BY <2>6, <2>10 DEF Ample
      <4>2. U[j].x = LeftEnd(m) /\ U[j].w = Sized(m, Wide(m)) /\ U[j].y + U[j].h <= BottomEnd(m)
        BY <2>5, <4>1
      <4>3. Ample(m, U[j]) /\ U[j] \in Rectangle(m)
        BY <2>5, <4>1 DEF Ample
      <4>4. U[j].w = Wide(m)
        BY <1>2, <4>2, <4>3, AmpleExact
      <4> QED
        BY <1>2, <2>4, <2>6, <4>1, <4>2, <4>4
    <3>3. k > 0 => TopEnd(m) + mh <= BottomEnd(m)
      <4>1. CASE l = 0
        BY <1>3, <4>1
      <4>2. CASE l > 0 /\ k > 0
        <5>1. 1 \in 1..l
          BY <1>4, <4>2
        <5>2. U[1].y + U[1].h <= BottomEnd(m) /\ 0 < U[1].h /\ sy <= U[1].y /\ U[1].y \in Int /\ U[1].h \in Int
          BY <2>5, <2>6, <3>2, <5>1
        <5>3. TopEnd(m) + mh + m.iv = sy
          BY <1>3, <4>2
        <5> QED
          BY <1>2, <1>3, <5>2, <5>3
      <4> QED
        BY <1>4, <4>1, <4>2
    <3>4. l > 0 => TopEnd(m) <= sy
      BY <1>2, <1>3, <1>4, <3>1
    <3>5. ASSUME NEW j \in 1..k
          PROVE  /\ LeftEnd(m) <= A[j].x /\ A[j].x + A[j].w <= RightEnd(m)
                 /\ TopEnd(m) + 2 * m.bw - 1 <= A[j].y /\ A[j].y + A[j].h <= BottomEnd(m) + 2 * m.bw
      <4>1. /\ LeftEnd(m) <= A[j].x /\ A[j].x + A[j].w <= RightEnd(m)
            /\ A[j].y = Under(m) - TopEnd(m) - mh /\ A[j].h = mh
        BY <2>1, <2>10
      <4>2. TopEnd(m) + mh <= BottomEnd(m)
        BY <1>4, <3>3
      <4> QED
        BY <1>2, <1>3, <2>3, <4>1, <4>2
    <3>6. ASSUME NEW j \in 1..l
          PROVE  /\ LeftEnd(m) <= B[j].x /\ B[j].x + B[j].w <= RightEnd(m)
                 /\ TopEnd(m) + 2 * m.bw - 1 <= B[j].y /\ B[j].y + B[j].h <= BottomEnd(m) + 2 * m.bw
      <4>1. PICK c \in {0, 1} : B[j].y = Under(m) - U[j].y - U[j].h0 - c
        BY <2>6
      <4>2. /\ B[j].x = U[j].x /\ B[j].w = U[j].w /\ B[j].h = U[j].h /\ U[j].h0 = U[j].h
            /\ U[j].x \in Int /\ U[j].y \in Int /\ U[j].w \in Int /\ U[j].h \in Int
        BY <2>6, <2>10
      <4>3. /\ U[j].x = LeftEnd(m) /\ sy <= U[j].y /\ U[j].y + U[j].h <= BottomEnd(m) /\ U[j].x + U[j].w <= RightEnd(m)
        BY <2>5, <3>2
      <4>4. TopEnd(m) <= sy /\ c \in Int /\ 0 <= c /\ c <= 1
        BY <1>4, <3>4
      <4> QED
        BY <1>2, <1>3, <2>3, <4>1, <4>2, <4>3, <4>4
    <3> QED
      BY <3>5, <3>6
  <2> QED
    BY <1>4, <2>1, <2>2, <2>8, <2>9, <2>10, OverJoined
<1> QED
  BY <1>1, <1>6, <1>7 DEF k

TopExcess(m) == IF Tiled(m) = 2 THEN m.ih + 1 ELSE Greatest(Tiled(m) \div 2 - 1, 0)

\* horizgrid puts two rows one above the other; the upper one may be too long.
LEMMA horizgridPlaces ==
  ASSUME NEW m \in Screen, m.cf # << >>
  PROVE  Places(m, horizgrid(m), TopCount(Tiled(m)), FALSE, FALSE, TopExcess(m), 0)
<1> DEFINE n == Tiled(m)
           k == TopCount(n)
           l == n - k
           facts == SubSeq(m.cf, 1, k)
           others == SubSeq(m.cf, k + 1, n)
           sh == (High(m) - m.iv) \div 2
           mh == IF n > k THEN High(m) - sh - m.iv ELSE High(m)
           mw == IF n > k THEN Across(m, k) ELSE Wide(m)
           rest == Leftover(mh, facts)
           sy == TopEnd(m) + mh + m.iv
           lens == Split(mw, facts, LAMBDA j : j < rest)
           right == TopExcess(m)
           A == Row(m, LeftEnd(m), TopEnd(m), lens, mh)
           B == Row(m, LeftEnd(m), sy, EvenSplit(Across(m, l), others), sh)
<1>1. horizgrid(m) = A \o B
  BY DEF horizgrid, TopCount, LeftEnd, TopEnd
<1>2. /\ High(m) \in Int /\ TopEnd(m) \in Int /\ BottomEnd(m) \in Int /\ m.iv \in Nat /\ m.ih \in Nat
      /\ TopEnd(m) + High(m) = BottomEnd(m) /\ LeftEnd(m) \in Int /\ RightEnd(m) \in Int /\ Wide(m) \in Int
      /\ LeftEnd(m) + Wide(m) = RightEnd(m)
  BY Edges
<1>0. n \in Nat /\ n # 0 /\ m.cf \in Seq(Nat \ {0}) /\ n = Len(m.cf)
  BY DEF Screen, Factors, Tiled
<1>3. n \in Nat /\ n # 0
  BY <1>0
<1>4. /\ k \in 1..n /\ l \in Nat /\ n = k + l /\ (l > 0 <=> n > k)
      /\ (n <= 2 <=> n = k)
      /\ (n > 2 => k = n \div 2) /\ (n <= 2 => k = n)
  <2>1. n \in Nat /\ n # 0
    BY <1>3
  <2> HIDE DEF n
  <2>2. k \in 1..n /\ (n <= 2 => k = n) /\ (n > 2 => k = Half(n) /\ k < n)
    BY <2>1, TopCounts
  <2> HIDE DEF k
  <2> QED
    BY <2>1, <2>2 DEF Half
<1> HIDE DEF k
<1>5. facts \in Factors /\ others \in Factors /\ Len(facts) = k /\ Len(others) = l
  <2>1. facts \in Seq(Nat \ {0}) /\ Len(facts) = k
    BY <1>0, <1>4
  <2>2. others \in Seq(Nat \ {0}) /\ Len(others) = n - k
    BY <1>0, <1>4
  <2> QED
    BY <2>1, <2>2 DEF Factors
<1> HIDE DEF facts, others, n
<1>6. facts # << >>
  <2>1. Len(facts) # 0
    BY <1>3, <1>4, <1>5
  <2> QED
    BY <2>1
<1>7. sh \in Int
  BY <1>2
<1> HIDE DEF sh
<1>8. mh \in Int /\ (n > k => mh + m.iv + sh = High(m)) /\ (~(n > k) => mh = High(m))
  BY <1>2, <1>7
<1>9. Across(m, k) \in Int /\ Across(m, k) + m.ih * (k - 1) = Wide(m) /\ m.ih * (k - 1) \in Int
  <2>1. k \in Int /\ m.ih * (k - 1) \in Int
    BY <1>2, <1>3, <1>4
  <2> QED
    BY <2>1, Lengths
<1>10. mw \in Int /\ (n > k => mw = Across(m, k)) /\ (~(n > k) => mw = Wide(m))
  BY <1>2, <1>9
<1> HIDE DEF mh, mw
<1>11. rest \in 0..(Len(facts) - 1)
  BY <1>5, <1>6, <1>8, LeftoverBounds
<1> HIDE DEF rest
<1>12. lens \in Seq(Int) /\ Len(lens) = k /\ SumOf(lens) \in Int /\ SumOf(lens) <= mw + (k - 1)
  BY <1>5, <1>6, <1>10, <1>11, OddSplitSum
<1> HIDE DEF lens
<1>13. /\ right \in Nat /\ (n = 2 => right = m.ih + 1) /\ (n > 2 => right = k - 1)
  <2>1. CASE n = 2
    BY <1>2, <2>1 DEF TopExcess, n
  <2>2. CASE n # 2
    <3>1. right = Greatest(n \div 2 - 1, 0)
      BY <2>2 DEF TopExcess, n
    <3> HIDE DEF right
    <3>2. ASSUME n > 2 PROVE n \div 2 = k
      BY <1>4, <3>2
    <3>3. n = 1 => n \div 2 = 0
      OBVIOUS
    <3>4. n = 1 \/ n > 2
      BY <1>3, <2>2
    <3>5. CASE n = 1
      BY <3>1, <3>3, <3>5 DEF Greatest
    <3>6. CASE n > 2
      BY <1>3, <1>4, <2>2, <3>1, <3>2, <3>6 DEF Greatest
    <3> QED
      BY <3>4, <3>5, <3>6
  <2> QED
    BY <2>1, <2>2
<1> HIDE DEF right
<1>14. LeftEnd(m) + SumOf(lens) + m.ih * (k - 1) <= RightEnd(m) + right
  <2>1. CASE n > k
    <3>1. right = k - 1 /\ mw = Across(m, k)
      BY <1>3, <1>4, <1>10, <1>13, <2>1
    <3> QED
      BY <1>2, <1>3, <1>4, <1>9, <1>12, <1>13, <3>1
  <2>2. CASE n = k /\ n = 2
    <3>1. mw = Wide(m) /\ right = m.ih + 1 /\ k = 2
      BY <1>10, <1>13, <2>2
    <3>2. m.ih * (k - 1) = m.ih
      BY <1>2, <3>1
    <3> QED
      BY <1>2, <1>12, <3>1, <3>2
  <2>3. CASE n = k /\ n # 2
    <3>1. n = 1 /\ k = 1
      BY <1>3, <1>4, <2>3
    <3>2. m.ih * (k - 1) = 0 /\ mw = Wide(m)
      BY <1>2, <1>10, <3>1, <2>3
    <3> QED
      BY <1>2, <1>12, <1>13, <3>1, <3>2
  <2> QED
    BY <1>3, <1>4, <2>1, <2>2, <2>3
<1>15. Level(m, A, k, LeftEnd(m), TopEnd(m), mh, RightEnd(m) + right)
  <2>1. RightEnd(m) + right \in Int
    BY <1>2, <1>13
  <2>2. lens # << >> => LeftEnd(m) + SumOf(lens) + m.ih * (Len(lens) - 1) <= RightEnd(m) + right
    BY <1>12, <1>14
  <2>3. Level(m, Row(m, LeftEnd(m), TopEnd(m), lens, mh), Len(lens), LeftEnd(m), TopEnd(m), mh, RightEnd(m) + right)
    BY <1>2, <1>8, <1>12, <2>1, <2>2, RowLevel
  <2> QED
    BY <1>12, <2>3
<1>16. sy \in Int
  BY <1>2, <1>8
<1>17. Level(m, B, l, LeftEnd(m), sy, sh, RightEnd(m))
  <2>1. l \in Int
    BY <1>4
  <2> HIDE DEF sy, l
  <2> QED
    BY <1>5, <1>7, <1>16, <2>1, AreaRow
<1>18. Upper(m, A, k, mh, right)
  <2>1. k \in Nat /\ right \in Int
    BY <1>4, <1>13
  <2> HIDE DEF A
  <2> QED
    BY <1>8, <1>15, <2>1, LevelUpper
<1>19. Lower(m, B, l, sy, right)
  <2>1. l > 0 => sy + sh <= BottomEnd(m)
    BY <1>2, <1>4, <1>7, <1>8
  <2>2. Level(m, B, l, LeftEnd(m), sy, sh, RightEnd(m) + right)
    <3>1. B \in Seq(Rectangle(m))
      BY <1>17 DEF Level
    <3> DEFINE C == B
    <3>2. C \in Seq(Rectangle(m)) /\ C = B /\ \A j \in 1..l : C[j] \in Rectangle(m)
      BY <1>17, <3>1 DEF Level
    <3> HIDE DEF C, sy, l
    <3>3. ASSUME NEW j \in 1..l, C[j].x + C[j].w <= RightEnd(m) PROVE C[j].x + C[j].w <= RightEnd(m) + right
      <4>1. C[j].x \in Int /\ C[j].w \in Int
        BY <3>2 DEF Rectangle
      <4> QED
        BY <1>2, <1>13, <3>3, <4>1
    <3>4. Level(m, C, l, LeftEnd(m), sy, sh, RightEnd(m))
      BY <1>17, <3>2
    <3> HIDE DEF B
    <3> QED
      BY <3>2, <3>3, <3>4 DEF Level
  <2> HIDE DEF B, sy, l
  <2>3. l \in Nat /\ right \in Int
    BY <1>4, <1>13
  <2> QED
    BY <1>7, <1>16, <2>1, <2>2, <2>3, LevelLower
<1> HIDE DEF A, B
<1>20. /\ k > 0 /\ l > 0 => TopEnd(m) + mh + m.iv = sy
       /\ k = 0 => sy = TopEnd(m)
       /\ l = 0 => TopEnd(m) + mh <= BottomEnd(m)
  <2>1. sy = TopEnd(m) + mh + m.iv /\ k # 0
    BY <1>3, <1>4
  <2>2. ASSUME l = 0 PROVE TopEnd(m) + mh <= BottomEnd(m)
    <3>1. mh = High(m)
      BY <1>3, <1>4, <1>8, <2>2
    <3> QED
      BY <1>2, <3>1
  <2> QED
    BY <2>1, <2>2
<1> HIDE DEF sy, l
<1>21. Places(m, A \o B, k, FALSE, FALSE, right, 0)
  <2>1. Tiled(m) = k + l /\ k \in Nat /\ l \in Nat
    BY <1>4 DEF n
  <2> QED
    BY <1>8, <1>13, <1>16, <1>18, <1>19, <1>20, <2>1, TwoRows
<1> QED
  BY <1>1, <1>21 DEF k, n, right

\* The windows of a side of centredmaster, and the lengths they get.
SideCount(m, first) == Half(Len(Stack(m)) - first + 1)

SideLens(m, first) ==
  LET h == Down(m, Len(Side(m, first)))
      rest == Leftover(h, Side(m, first))
  IN  Split(h, Side(m, first), LAMBDA j : SidePixel(m, first, rest, j))

\* The windows of one side of centredmaster have the size factors of every
\* other window of the stack.
LEMMA SideFactors ==
  ASSUME NEW m \in Screen, NEW first \in {0, 1}
  PROVE  /\ SideCount(m, first) \in Nat
         /\ Side(m, first) \in Factors /\ Len(Side(m, first)) = SideCount(m, first)
<1> DEFINE l == Len(Stack(m))
           n == SideCount(m, first)
           s == Side(m, first)
<1>1. Stack(m) \in Seq(Nat \ {0}) /\ l \in Nat
  BY Areas DEF Factors
<1>2. s = [j \in 1..n |-> Stack(m)[first + 2 * j - 1]]
  BY DEF Side, SideCount, Half
<1> HIDE DEF l, s
<1>3. l - first + 1 \in Nat
  BY <1>1
<1>4. n = Half(l - first + 1)
  BY DEF SideCount, l
<1> HIDE DEF n
<1>5. n \in Nat /\ 2 * n <= l - first + 1
  <2>1. Half(l - first + 1) \in Nat
        /\ l - first + 1 \in (2 * Half(l - first + 1))..(2 * Half(l - first + 1) + 1)
    BY <1>3, HalfBounds
  <2> QED
    BY <1>3, <1>4, <2>1
<1>6. ASSUME NEW j \in 1..n PROVE Stack(m)[first + 2 * j - 1] \in Nat \ {0}
  <2>1. first + 2 * j - 1 \in 1..l
    BY <1>1, <1>5
  <2> DEFINE i == first + 2 * j - 1
  <2> HIDE DEF i
  <2>2. i \in 1..l
    BY <2>1 DEF i
  <2>3. Stack(m)[i] \in Nat \ {0}
    BY <1>1, <2>2 DEF l
  <2> QED
    BY <2>3 DEF i
<1>7. s \in [1..n -> Nat \ {0}]
  BY <1>2, <1>6
<1>8. s \in Seq(Nat \ {0}) /\ Len(s) = n
  BY <1>5, <1>7, SeqMade
<1> QED
  BY <1>5, <1>8 DEF n, s, Factors

\* The lengths of a side are no more than what it has (SidePixel), and all of it
\* with one or two masters.
LEMMA SideLensSum ==
  ASSUME NEW m \in Screen, NEW first \in {0, 1}
  PROVE  /\ SideLens(m, first) \in Seq(Int) /\ Len(SideLens(m, first)) = SideCount(m, first)
         /\ SideCount(m, first) > 0 =>
               /\ SumOf(SideLens(m, first)) \in Int
               /\ SumOf(SideLens(m, first)) <= Down(m, SideCount(m, first))
               /\ m.nmaster \in 1..2 => SumOf(SideLens(m, first)) = Down(m, SideCount(m, first))
<1> DEFINE n == SideCount(m, first)
           facts == Side(m, first)
           h == Down(m, n)
           rest == Leftover(h, facts)
           s == SideLens(m, first)
           d == m.nmaster - first
<1>1. n \in Nat /\ facts \in Factors /\ Len(facts) = n /\ DOMAIN facts = 1..n
  BY SideFactors, FactorsSum
<1>2. s = [j \in DOMAIN facts |-> Share(h, facts[j], SumOf(facts))
                                  + IF SidePixel(m, first, rest, j - 1) THEN 1 ELSE 0]
  BY <1>1 DEF SideLens, Split
<1>3. m.nmaster \in Nat /\ d \in Int
  BY DEF Screen
<1>4. h \in Int
  <2> HIDE DEF n
  <2> QED
    BY <1>1, Lengths
<1> HIDE DEF n, facts, h, rest, s, d
<1>5. CASE n = 0
  <2>1. DOMAIN facts = {}
    BY <1>1, <1>5
  <2>2. s = << >>
    BY <1>2, <2>1
  <2>3. << >> \in Seq(Int) /\ Len(<< >>) = 0
    OBVIOUS
  <2> QED
    BY <1>5, <2>2, <2>3 DEF s, n
<1>6. CASE n # 0
  <2>1. facts # << >> /\ n \in Nat \ {0}
    BY <1>1, <1>6
  <2>2. rest \in 0..(n - 1)
    BY <1>1, <1>4, <2>1, LeftoverBounds DEF rest
  <2>3. /\ Sides(n, d, rest) \in [1..n -> Int]
        /\ SumOf(Sides(n, d, rest)) \in Int /\ SumOf(Sides(n, d, rest)) <= rest
        /\ d \in 0..2 => SumOf(Sides(n, d, rest)) = rest
    BY <1>3, <2>1, <2>2, SidesSum
  <2>4. ASSUME NEW j \in 1..n
        PROVE  SidePixel(m, first, rest, j - 1) <=> 2 * (j - 1) - d \in 0..(2 * rest - 1)
    <3>1. first + 2 * (j - 1) - m.nmaster = 2 * (j - 1) - d
      BY <1>1, <1>3 DEF d
    <3> QED
      BY <3>1 DEF SidePixel
  <2>5. s = Padded(h, facts, Sides(n, d, rest))
    <3>1. ASSUME NEW j \in 1..n
          PROVE  Sides(n, d, rest)[j] = IF SidePixel(m, first, rest, j - 1) THEN 1 ELSE 0
      BY <2>4 DEF Sides
    <3>2. Padded(h, facts, Sides(n, d, rest))
            = [j \in 1..n |-> Share(h, facts[j], SumOf(facts)) + Sides(n, d, rest)[j]]
      BY <1>1 DEF Padded, Shares
    <3> QED
      BY <1>1, <1>2, <3>1, <3>2
  <2>6. s \in Seq(Int) /\ Len(s) = n /\ SumOf(s) = h - rest + SumOf(Sides(n, d, rest))
    <3>1. Sides(n, d, rest) \in [1..Len(facts) -> Int]
      BY <1>1, <2>3
    <3>2. rest = Leftover(h, facts)
      BY DEF rest
    <3> QED
      BY <1>1, <1>4, <2>1, <2>5, <3>1, <3>2, PaddedSum
  <2>7. SumOf(s) \in Int /\ SumOf(s) <= h /\ (d \in 0..2 => SumOf(s) = h)
    <3> DEFINE e == SumOf(Sides(n, d, rest))
    <3>1. e \in Int /\ e <= rest /\ (d \in 0..2 => e = rest) /\ SumOf(s) = h - rest + e /\ rest \in Int
      BY <2>2, <2>3, <2>6
    <3> HIDE DEF e
    <3> QED
      BY <1>4, <3>1
  <2>8. m.nmaster \in 1..2 => d \in 0..2
    BY <1>3 DEF d
  <2> QED
    BY <2>6, <2>7, <2>8 DEF s, n, h
<1> QED
  BY <1>1, <1>5, <1>6

\* A side is a column.
LEMMA SideUpright ==
  ASSUME NEW m \in Screen, NEW first \in {0, 1}, NEW x \in Int, NEW w \in Int
  PROVE  Upright(m, SideColumn(m, x, w, first), SideCount(m, first), x, TopEnd(m), w, BottomEnd(m))
<1> DEFINE n == SideCount(m, first)
           s == SideLens(m, first)
           d == Down(m, n)
<1>1. SideColumn(m, x, w, first) = Column(m, x, TopEnd(m), w, s)
  BY DEF SideColumn, SideLens, TopEnd
<1>2. n \in Nat /\ s \in Seq(Int) /\ Len(s) = n /\ (n > 0 => SumOf(s) \in Int /\ SumOf(s) <= d)
  BY SideFactors, SideLensSum
<1> HIDE DEF n, s
<1>3. /\ TopEnd(m) \in Int /\ BottomEnd(m) \in Int /\ High(m) \in Int /\ m.iv \in Int
      /\ TopEnd(m) + High(m) = BottomEnd(m)
  BY Edges
<1>4. d \in Int /\ m.iv * (n - 1) \in Int /\ d + m.iv * (n - 1) = High(m)
  <2>1. m.iv * (n - 1) \in Int /\ n \in Int
    BY <1>2, <1>3
  <2> QED
    BY <2>1, Lengths
<1> HIDE DEF d
<1>5. s # << >> => TopEnd(m) + SumOf(s) + m.iv * (Len(s) - 1) <= BottomEnd(m)
  <2>1. s # << >> => n > 0
    BY <1>2
  <2> QED
    BY <1>2, <1>3, <1>4, <2>1
<1>6. Upright(m, Column(m, x, TopEnd(m), w, s), Len(s), x, TopEnd(m), w, BottomEnd(m))
  BY <1>2, <1>3, <1>5, ColumnUpright
<1> QED
  BY <1>1, <1>2, <1>6 DEF n

\* Windows of one column are beside each other, those of two where the columns
\* have room, and all are in the area when no size is raised.
LEMMA ManyColumns ==
  ASSUME NEW m \in Screen, NEW n \in Nat, NEW R,
         NEW S, NEW C, NEW N, NEW X, NEW W, NEW side, NEW pos,
         ColumnsMade(m, n, R, S, C, N, X, W, side, pos)
  PROVE  /\ \A i, j \in 1..n :
               i < j /\ (side[i] = side[j] \/ (Ample(m, R[i]) /\ Ample(m, R[j]))) =>
                  Beside(m, R[i], R[j])
         /\ (\A i \in 1..n : Ample(m, R[i])) => \A i \in 1..n : Inside(m, R[i], 0, 0)
<1> SUFFICES
      ASSUME \A i \in 1..n : R[i] \in Rectangle(m),
             \A s \in S : /\ N[s] \in Nat /\ X[s] \in Int /\ W[s] \in Int
                          /\ Columnar(m, C[s], N[s], X[s], W[s], FALSE, 0),
             \A i \in 1..n : side[i] \in S /\ pos[i] \in 1..N[side[i]] /\ R[i] = C[side[i]][pos[i]],
             \A i, j \in 1..n : i < j /\ side[i] = side[j] => pos[i] < pos[j],
             \A s \in S : \A p \in 1..N[s] : \E i \in 1..n : R[i] = C[s][p],
             \A s, t \in S : s # t /\ N[s] > 0 /\ N[t] > 0 /\ W[s] > 0 /\ W[t] > 0 =>
                X[s] + W[s] + m.ih <= X[t] \/ X[t] + W[t] + m.ih <= X[s],
             (\A t \in S : N[t] > 0 => W[t] > 0) =>
                \A s \in S : N[s] > 0 => LeftEnd(m) <= X[s] /\ X[s] + W[s] <= RightEnd(m)
      PROVE  /\ \A i, j \in 1..n :
                   i < j /\ (side[i] = side[j] \/ (Ample(m, R[i]) /\ Ample(m, R[j]))) =>
                      Beside(m, R[i], R[j])
             /\ (\A i \in 1..n : Ample(m, R[i])) => \A i \in 1..n : Inside(m, R[i], 0, 0)
  BY DEF ColumnsMade
<1>1. Size0(m) \in Nat
  BY SizedBounds
<1>2. ASSUME NEW i \in 1..n
      PROVE  /\ side[i] \in S /\ N[side[i]] > 0 /\ X[side[i]] \in Int /\ W[side[i]] \in Int
             /\ R[i].x = X[side[i]] /\ TopEnd(m) <= R[i].y
             /\ Ample(m, R[i]) => R[i].w = W[side[i]] /\ W[side[i]] > 0
  <2> DEFINE s == side[i]
             p == pos[i]
  <2>1. s \in S /\ p \in 1..N[s] /\ R[i] = C[s][p]
    OBVIOUS
  <2> HIDE DEF s, p
  <2>2. N[s] \in Nat /\ X[s] \in Int /\ W[s] \in Int /\ Columnar(m, C[s], N[s], X[s], W[s], FALSE, 0)
    BY <2>1
  <2>3. C[s][p].x = X[s] /\ TopEnd(m) <= C[s][p].y /\ (Ample(m, C[s][p]) => C[s][p].w = W[s])
    BY <2>1, <2>2 DEF Columnar
  <2>4. Ample(m, R[i]) => R[i].w > Size0(m)
    BY DEF Ample
  <2>5. Ample(m, R[i]) => W[s] > 0
    BY <1>1, <2>1, <2>2, <2>3, <2>4
  <2>6. N[s] > 0
    BY <2>1, <2>2
  <2> QED
    BY <2>1, <2>2, <2>3, <2>5, <2>6 DEF s
<1>3. ASSUME NEW i \in 1..n, NEW j \in 1..n, i < j, side[i] = side[j]
      PROVE  Beside(m, R[i], R[j])
  <2> DEFINE s == side[i]
             p == pos[i]
             q == pos[j]
  <2>1. s \in S /\ p \in 1..N[s] /\ R[i] = C[s][p] /\ q \in 1..N[s] /\ R[j] = C[s][q] /\ p < q
    BY <1>3
  <2> HIDE DEF s, p, q
  <2>2. Columnar(m, C[s], N[s], X[s], W[s], FALSE, 0)
    BY <2>1
  <2> QED
    BY <2>1, <2>2 DEF Columnar
<1>4. ASSUME NEW i \in 1..n, NEW j \in 1..n, side[i] # side[j], Ample(m, R[i]), Ample(m, R[j])
      PROVE  Beside(m, R[i], R[j])
  <2>1. X[side[i]] + W[side[i]] + m.ih <= X[side[j]] \/ X[side[j]] + W[side[j]] + m.ih <= X[side[i]]
    BY <1>2, <1>4
  <2>2. /\ R[i].x = X[side[i]] /\ R[i].w = W[side[i]]
        /\ R[j].x = X[side[j]] /\ R[j].w = W[side[j]]
    BY <1>2, <1>4
  <2> QED
    BY <2>1, <2>2 DEF Beside
<1>5. ASSUME \A i \in 1..n : Ample(m, R[i]), NEW i \in 1..n
      PROVE  Inside(m, R[i], 0, 0)
  <2>1. ASSUME NEW s \in S, NEW p \in 1..N[s] PROVE Ample(m, C[s][p])
    <3>1. PICK k \in 1..n : R[k] = C[s][p]
      OBVIOUS
    <3> QED
      BY <1>5, <3>1
  <2>2. ASSUME NEW t \in S, N[t] > 0 PROVE W[t] > 0
    <3>1. N[t] \in Nat /\ W[t] \in Int /\ Columnar(m, C[t], N[t], X[t], W[t], FALSE, 0)
      OBVIOUS
    <3>2. 1 \in 1..N[t]
      BY <2>2, <3>1
    <3>3. Ample(m, C[t][1]) /\ C[t][1].w = W[t]
      BY <2>1, <3>1, <3>2 DEF Columnar
    <3>4. W[t] > Size0(m)
      BY <3>3 DEF Ample
    <3> QED
      BY <1>1, <3>1, <3>4
  <2> DEFINE s == side[i]
             p == pos[i]
  <2>3. s \in S /\ N[s] > 0 /\ p \in 1..N[s] /\ R[i] = C[s][p]
    BY <1>2
  <2>4. R[i].x = X[s] /\ R[i].w = W[s] /\ TopEnd(m) <= R[i].y
    BY <1>2, <1>5
  <2> HIDE DEF s, p
  <2>5. LeftEnd(m) <= X[s] /\ X[s] + W[s] <= RightEnd(m)
    BY <2>2, <2>3
  <2>6. C[s][p].y + C[s][p].h <= BottomEnd(m) + 0
    <3>1. Columnar(m, C[s], N[s], X[s], W[s], FALSE, 0)
      BY <2>3
    <3> QED
      BY <2>1, <2>3, <3>1 DEF Columnar
  <2>7. RightEnd(m) = RightEnd(m) + 0
    BY Edges
  <2> QED
    BY <2>3, <2>4, <2>5, <2>6, <2>7 DEF Inside
<1> QED
  BY <1>3, <1>4, <1>5

\* The widths and places of centredmaster's columns.
Sides2(m) == Parted(m) /\ Len(Stack(m)) > 1

LeftWidth(m) == IF Sides2(m) THEN (Wide(m) - 2 * m.ih - CentreWidth(m)) \div 2 ELSE 0

RightWidth(m) == Wide(m) - CentreWidth(m) - m.ih - IF Sides2(m) THEN LeftWidth(m) + m.ih ELSE 0

CentreX(m) == LeftEnd(m) + IF Sides2(m) THEN LeftWidth(m) + m.ih ELSE 0

\* The columns of centredmaster meet the centre and each other with the inner
\* gap between them.
LEMMA CentreMeets ==
  ASSUME NEW m \in Screen
  PROVE  /\ CentreWidth(m) \in Int /\ LeftWidth(m) \in Int /\ RightWidth(m) \in Int /\ CentreX(m) \in Int
         /\ ~Parted(m) => CentreX(m) = LeftEnd(m) /\ CentreWidth(m) = Wide(m)
         /\ ~Sides2(m) => CentreX(m) = LeftEnd(m)
         /\ Parted(m) => CentreX(m) + CentreWidth(m) + m.ih + RightWidth(m) = RightEnd(m)
         /\ Sides2(m) => /\ LeftEnd(m) + LeftWidth(m) + m.ih = CentreX(m)
                         /\ LeftWidth(m) > 0 => CentreWidth(m) >= 0
<1> DEFINE wide == Wide(m)
           mw == CentreWidth(m)
           lw == LeftWidth(m)
           rw == RightWidth(m)
           mx == CentreX(m)
           left == LeftEnd(m)
           V == wide - 2 * m.ih
<1> DEFINE l == Len(Stack(m))
<1>1. wide \in Int /\ m.ih \in Nat /\ left \in Int /\ RightEnd(m) \in Int /\ left + wide = RightEnd(m)
  BY Edges
<1>2. m.mfact \in 5..95
  BY DEF Screen
<1>3. l \in Nat /\ (Parted(m) => l > 0) /\ (Sides2(m) <=> Parted(m) /\ l > 1)
  BY AreaLengths DEF Sides2
<1> HIDE DEF wide, left, l
<1>4. V \in Int
  BY <1>1
<1> HIDE DEF V
<1>5. CASE ~Parted(m)
  <2>0. ~Sides2(m)
    BY <1>5 DEF Sides2
  <2>1. ~Sides2(m) /\ mw = wide /\ lw = 0 /\ mx = left + 0 /\ rw = wide - mw - m.ih - 0
    BY <1>5, <2>0 DEF CentreWidth, LeftWidth, RightWidth, CentreX, wide, left
  <2> HIDE DEF mw, lw, rw, mx
  <2>2. mw \in Int /\ lw \in Int /\ rw \in Int /\ mx \in Int /\ mx = left
    BY <1>1, <2>1
  <2> QED
    BY <1>5, <2>1, <2>2 DEF mw, lw, rw, mx, left, wide
<1>6. CASE Parted(m) /\ ~Sides2(m)
  <2>1. Len(Stack(m)) = 1
    <3>1. l = 1
      BY <1>3, <1>6
    <3> QED
      BY <3>1 DEF l
  <2>2. mw = ((wide - m.ih) * m.mfact) \div 100
    BY <1>6, <2>1 DEF CentreWidth, wide
  <2>3. lw = 0 /\ mx = left + 0 /\ rw = wide - mw - m.ih - 0
    BY <1>6 DEF LeftWidth, RightWidth, CentreX, wide, left
  <2>4. mw \in Int
    <3>1. (wide - m.ih) * m.mfact \in Int
      BY <1>1, <1>2
    <3> QED
      BY <2>2, <3>1
  <2> HIDE DEF mw, lw, rw, mx
  <2>5. mw \in Int /\ lw \in Int /\ rw \in Int /\ mx \in Int /\ mx = left /\ mx + mw + m.ih + rw = RightEnd(m)
    BY <1>1, <2>3, <2>4
  <2> QED
    BY <1>6, <2>5 DEF mw, lw, rw, mx, left
<1>7. CASE Parted(m) /\ Sides2(m)
  <2>1. Len(Stack(m)) # 1
    <3>1. l # 1
      BY <1>3, <1>7
    <3> QED
      BY <3>1 DEF l
  <2>2. mw = (V * m.mfact) \div 100
    BY <1>7, <2>1 DEF CentreWidth, wide, V
  <2>3. lw = (V - mw) \div 2 /\ mx = left + (lw + m.ih) /\ rw = wide - mw - m.ih - (lw + m.ih)
    BY <1>7 DEF LeftWidth, RightWidth, CentreX, wide, left, V
  <2> HIDE DEF mw, lw, rw, mx
  <2>4. mw \in Int /\ lw \in Int /\ (lw > 0 => mw >= 0)
    BY <1>2, <1>4, <2>2, <2>3, CentreWidths
  <2>5. rw \in Int /\ mx \in Int /\ left + lw + m.ih = mx /\ mx + mw + m.ih + rw = RightEnd(m)
    BY <1>1, <2>3, <2>4
  <2> QED
    BY <1>7, <2>4, <2>5 DEF mw, lw, rw, mx, left
<1> QED
  BY <1>5, <1>6, <1>7

SidedPlaces(m, R) ==
  /\ R \in Seq(Rectangle(m)) /\ Len(R) = Tiled(m)
  /\ \A i, j \in 1..Tiled(m) :
        i < j /\ (SideOf(m, i) = SideOf(m, j) \/ (Ample(m, R[i]) /\ Ample(m, R[j]))) =>
           Beside(m, R[i], R[j])
  /\ (\A i \in 1..Tiled(m) : Ample(m, R[i])) => \A i \in 1..Tiled(m) : Inside(m, R[i], 0, 0)

\* Without masters all windows are in the middle.
LEMMA centredmasterNone ==
  ASSUME NEW m \in Screen, m.nmaster = 0
  PROVE  SidedPlaces(m, centredmaster(m))
<1> DEFINE n == Tiled(m)
           A == Column(m, LeftEnd(m), TopEnd(m), Wide(m), EvenSplit(Down(m, Len(m.cf)), m.cf))
<1>1. m.cf \in Factors /\ n = Len(m.cf) /\ n \in Nat
  BY DEF Screen, Tiled, Factors
<1>2. ~Parted(m)
  BY DEF Parted
<1>3. CentreWidth(m) = Wide(m)
  BY <1>2 DEF CentreWidth
<1>4. /\ LeftEnd(m) \in Int /\ Wide(m) \in Int /\ LeftEnd(m) + Wide(m) = RightEnd(m) /\ LeftEnd(m) + 0 = LeftEnd(m)
      /\ RightEnd(m) \in Int /\ RightEnd(m) + 0 = RightEnd(m)
  BY Edges
<1>5. centredmaster(m) = A \o << >>
  <2>1. m.wx + m.oh + 0 = m.wx + m.oh
    BY <1>4 DEF LeftEnd
  <2> QED
    BY <1>2, <1>3, <2>1 DEF centredmaster, LeftEnd, TopEnd
<1>6. Upright(m, A, n, LeftEnd(m), TopEnd(m), Wide(m), BottomEnd(m))
  BY <1>1, <1>4, AreaColumn
<1>11. n \in Nat
  BY <1>1
<1> HIDE DEF A, n
<1>7. Columnar(m, A, n, LeftEnd(m), Wide(m), FALSE, 0)
  <2>1. 0 \in Nat /\ LeftEnd(m) \in Int /\ Wide(m) \in Int
    BY <1>4
  <2> QED
    BY <1>6, <1>11, <2>1, UprightColumnar, Zenon
<1>8. /\ A \in Seq(Rectangle(m)) /\ Len(A) = n /\ \A i, j \in 1..n : i < j => Beside(m, A[i], A[j])
      /\ \A j \in 1..n : A[j].x = LeftEnd(m) /\ TopEnd(m) <= A[j].y
      /\ \A j \in 1..n : Ample(m, A[j]) => A[j].w = Wide(m)
      /\ (\A j \in 1..n : Ample(m, A[j])) => \A j \in 1..n : A[j].y + A[j].h <= BottomEnd(m) + 0
  BY <1>7 DEF Columnar
<1>9. A \o << >> = A
  BY <1>8
<1>10. ASSUME \A j \in 1..n : Ample(m, A[j]), NEW j \in 1..n PROVE Inside(m, A[j], 0, 0)
  <2>1. LeftEnd(m) <= LeftEnd(m) /\ LeftEnd(m) + Wide(m) <= RightEnd(m) + 0
    BY <1>4
  <2> QED
    BY <1>8, <1>10, <2>1 DEF Inside
<1> QED
  BY <1>5, <1>8, <1>9, <1>10 DEF SidedPlaces, n

\* The windows of centredmaster's stack take turns: each is one of a side, and
\* each of a side's is one of them.
LEMMA TurnsSide ==
  ASSUME NEW m \in Screen
  PROVE  /\ SideCount(m, 0) \in Nat /\ SideCount(m, 1) \in Nat
         /\ SideCount(m, 0) > 0 <=> Len(Stack(m)) > 0
         /\ SideCount(m, 1) > 0 <=> Len(Stack(m)) > 1
         /\ \A q \in 1..Len(Stack(m)) :
               /\ q % 2 = 1 => SidePos(q) \in 1..SideCount(m, 0)
               /\ q % 2 = 0 => SidePos(q) \in 1..SideCount(m, 1)
         /\ \A p \in 1..SideCount(m, 0) : \E q \in 1..Len(Stack(m)) : q % 2 = 1 /\ SidePos(q) = p
         /\ \A p \in 1..SideCount(m, 1) : \E q \in 1..Len(Stack(m)) : q % 2 = 0 /\ SidePos(q) = p
<1> DEFINE l == Len(Stack(m))
           a == SideCount(m, 0)
           b == SideCount(m, 1)
<1>1. l \in Nat
  BY AreaLengths
<1>2. a \in Nat /\ l + 1 \in (2 * a)..(2 * a + 1)
  <2>1. l - 0 + 1 = l + 1 /\ l + 1 \in Nat
    BY <1>1
  <2>2. a = Half(l + 1)
    BY <2>1 DEF SideCount
  <2> HIDE DEF a, l
  <2>3. Half(l + 1) \in Nat /\ l + 1 \in (2 * Half(l + 1))..(2 * Half(l + 1) + 1)
    BY <2>1, HalfBounds
  <2> QED
    BY <2>2, <2>3
<1>3. b \in Nat /\ l \in (2 * b)..(2 * b + 1)
  <2>1. l - 1 + 1 = l
    BY <1>1
  <2>2. b = Half(l)
    BY <2>1 DEF SideCount
  <2> HIDE DEF b, l
  <2>3. Half(l) \in Nat /\ l \in (2 * Half(l))..(2 * Half(l) + 1)
    BY <1>1, HalfBounds
  <2> QED
    BY <2>2, <2>3
<1> HIDE DEF l, a, b
<1>4. ASSUME NEW q \in 1..l
      PROVE  (q % 2 = 1 => SidePos(q) \in 1..a) /\ (q % 2 = 0 => SidePos(q) \in 1..b)
  <2> DEFINE p == SidePos(q)
             r == q % 2
  <2>1. r \in {0, 1} /\ p \in Nat \ {0} /\ q = 2 * p - r
    BY <1>1, SideTurns
  <2> HIDE DEF p, r
  <2>2. (r = 1 => p \in 1..a) /\ (r = 0 => p \in 1..b)
    BY <1>1, <1>2, <1>3, <2>1
  <2> QED
    BY <2>2 DEF p, r
<1>5. ASSUME NEW p \in 1..a PROVE \E q \in 1..l : q % 2 = 1 /\ SidePos(q) = p
  <2> DEFINE q == 2 * p - 1
  <2>1. q \in 1..l /\ q \in Nat \ {0} /\ q = 2 * p - 1
    BY <1>1, <1>2
  <2> HIDE DEF q
  <2>2. q % 2 \in {0, 1} /\ SidePos(q) \in Nat \ {0} /\ q = 2 * SidePos(q) - (q % 2)
    BY <2>1, SideTurns
  <2> DEFINE r == q % 2
             s == SidePos(q)
  <2>3. r \in {0, 1} /\ s \in Nat \ {0} /\ q = 2 * s - r
    BY <2>2
  <2> HIDE DEF r, s
  <2>4. r = 1 /\ s = p
    BY <1>2, <2>1, <2>3
  <2> QED
    BY <2>1, <2>4 DEF r, s
<1>6. ASSUME NEW p \in 1..b PROVE \E q \in 1..l : q % 2 = 0 /\ SidePos(q) = p
  <2> DEFINE q == 2 * p
  <2>1. q \in 1..l /\ q \in Nat \ {0} /\ q = 2 * p
    BY <1>1, <1>3
  <2> HIDE DEF q
  <2>2. q % 2 \in {0, 1} /\ SidePos(q) \in Nat \ {0} /\ q = 2 * SidePos(q) - (q % 2)
    BY <2>1, SideTurns
  <2> DEFINE r == q % 2
             s == SidePos(q)
  <2>3. r \in {0, 1} /\ s \in Nat \ {0} /\ q = 2 * s - r
    BY <2>2
  <2> HIDE DEF r, s
  <2>4. r = 0 /\ s = p
    BY <1>3, <2>1, <2>3
  <2> QED
    BY <2>1, <2>4 DEF r, s
<1>7. (a > 0 <=> l > 0) /\ (b > 0 <=> l > 1)
  BY <1>1, <1>2, <1>3
<1> QED
  BY <1>2, <1>3, <1>4, <1>5, <1>6, <1>7 DEF a, b, l

\* The columns of centredmaster: the masters' (0), the left one (1), the right one.
ColumnX(m) == [s \in 0..2 |-> IF s = 0 THEN CentreX(m)
                              ELSE IF s = 1 THEN LeftEnd(m) ELSE CentreX(m) + CentreWidth(m) + m.ih]

ColumnW(m) == [s \in 0..2 |-> IF s = 0 THEN CentreWidth(m)
                              ELSE IF s = 1 THEN LeftWidth(m) ELSE RightWidth(m)]

ColumnN(m) == [s \in 0..2 |-> IF s = 0 THEN Len(Masters(m)) ELSE SideCount(m, 2 - s)]

ColumnC(m) ==
  [s \in 0..2 |-> IF s = 0 THEN Column(m, CentreX(m), TopEnd(m), CentreWidth(m),
                                       EvenSplit(Down(m, Len(Masters(m))), Masters(m)))
                  ELSE SideColumn(m, ColumnX(m)[s], ColumnW(m)[s], 2 - s)]

\* Each of the three columns of centredmaster runs from the top edge to the
\* bottom one.
LEMMA CentreColumns ==
  ASSUME NEW m \in Screen, NEW s \in 0..2
  PROVE  /\ ColumnN(m)[s] \in Nat /\ ColumnX(m)[s] \in Int /\ ColumnW(m)[s] \in Int
         /\ Columnar(m, ColumnC(m)[s], ColumnN(m)[s], ColumnX(m)[s], ColumnW(m)[s], FALSE, 0)
<1> DEFINE x == ColumnX(m)[s]
           w == ColumnW(m)[s]
           N == ColumnN(m)[s]
           C == ColumnC(m)[s]
<1>1. /\ CentreX(m) \in Int /\ CentreWidth(m) \in Int /\ LeftWidth(m) \in Int /\ RightWidth(m) \in Int
      /\ LeftEnd(m) \in Int /\ m.ih \in Int
  BY CentreMeets, Edges
<1>2. x \in Int /\ w \in Int
  BY <1>1 DEF ColumnX, ColumnW
<1>3. N \in Nat
  <2>1. Len(Masters(m)) \in Nat /\ SideCount(m, 0) \in Nat /\ SideCount(m, 1) \in Nat
    BY AreaLengths, TurnsSide
  <2> DEFINE k == Len(Masters(m))
  <2> HIDE DEF k
  <2>2. N = IF s = 0 THEN k ELSE SideCount(m, 2 - s)
    BY DEF ColumnN, k
  <2>3. k \in Nat
    BY <2>1 DEF k
  <2> QED
    BY <2>1, <2>2, <2>3
<1>4. Upright(m, C, N, x, TopEnd(m), w, BottomEnd(m))
  <2>1. CASE s = 0
    <3> DEFINE k == Len(Masters(m))
               D == Column(m, CentreX(m), TopEnd(m), CentreWidth(m), EvenSplit(Down(m, k), Masters(m)))
    <3>1. Masters(m) \in Factors /\ k \in Int
      BY Areas, AreaLengths
    <3>2. Upright(m, D, k, CentreX(m), TopEnd(m), CentreWidth(m), BottomEnd(m))
      BY <1>1, <3>1, AreaColumn
    <3>3. C = D /\ N = k /\ x = CentreX(m) /\ w = CentreWidth(m)
      BY <2>1 DEF ColumnC, ColumnN, ColumnX, ColumnW
    <3> QED
      BY <3>2, <3>3
  <2>2. CASE s # 0
    <3> DEFINE f == 2 - s
    <3>1. f \in {0, 1} /\ f = 2 - s
      BY <2>2
    <3>2. C = SideColumn(m, x, w, 2 - s) /\ N = SideCount(m, 2 - s)
      BY <2>2 DEF ColumnC, ColumnN
    <3> HIDE DEF f, x, w, N, C
    <3>3. Upright(m, SideColumn(m, x, w, f), SideCount(m, f), x, TopEnd(m), w, BottomEnd(m))
      BY <1>2, <3>1, SideUpright
    <3> QED
      BY <3>1, <3>2, <3>3
  <2> QED
    BY <2>1, <2>2
<1>5. 0 \in Nat
  OBVIOUS
<1> HIDE DEF x, w, N, C
<1>6. Columnar(m, C, N, x, w, FALSE, 0)
  BY <1>2, <1>3, <1>4, <1>5, UprightColumnar, Zenon
<1> QED
  BY <1>2, <1>3, <1>6 DEF x, w, N, C

\* Two columns of centredmaster that have a width lie an inner gap apart, and
\* all of them inside the area if each has one.
LEMMA CentreApart ==
  ASSUME NEW m \in Screen, m.nmaster > 0
  PROVE  /\ \A s, t \in 0..2 :
               s # t /\ ColumnN(m)[s] > 0 /\ ColumnN(m)[t] > 0 /\ ColumnW(m)[s] > 0 /\ ColumnW(m)[t] > 0 =>
                  \/ ColumnX(m)[s] + ColumnW(m)[s] + m.ih <= ColumnX(m)[t]
                  \/ ColumnX(m)[t] + ColumnW(m)[t] + m.ih <= ColumnX(m)[s]
         /\ (\A t \in 0..2 : ColumnN(m)[t] > 0 => ColumnW(m)[t] > 0) =>
               \A s \in 0..2 : ColumnN(m)[s] > 0 =>
                  LeftEnd(m) <= ColumnX(m)[s] /\ ColumnX(m)[s] + ColumnW(m)[s] <= RightEnd(m)
<1> DEFINE x == ColumnX(m)
           w == ColumnW(m)
           N == ColumnN(m)
           mx == CentreX(m)
           mw == CentreWidth(m)
           lw == LeftWidth(m)
           rw == RightWidth(m)
           left == LeftEnd(m)
           right == RightEnd(m)
           k == Len(Masters(m))
           l == Len(Stack(m))
           a == SideCount(m, 0)
           b == SideCount(m, 1)
<1>1. x[0] = mx /\ x[1] = left /\ x[2] = mx + mw + m.ih
  BY DEF ColumnX
<1>2. w[0] = mw /\ w[1] = lw /\ w[2] = rw
  BY DEF ColumnW
<1>3. N[0] = k /\ N[1] = b /\ N[2] = a
  <2>1. N[0] = k /\ N[1] = SideCount(m, 2 - 1) /\ N[2] = SideCount(m, 2 - 2)
    BY DEF ColumnN
  <2> QED
    BY <2>1
<1>4. /\ k \in Nat /\ l \in Nat /\ a \in Nat /\ b \in Nat
      /\ (a > 0 <=> l > 0) /\ (b > 0 <=> l > 1)
  BY AreaLengths, TurnsSide
<1>5. (Parted(m) <=> k > 0 /\ l > 0) /\ (Sides2(m) <=> Parted(m) /\ l > 1)
  BY AreaLengths DEF Sides2
<1>6. l > 0 => k > 0
  <2>1. Tiled(m) \in Nat /\ m.nmaster \in Nat /\ k = Least(m.nmaster, Tiled(m))
        /\ l = Tiled(m) - Least(m.nmaster, Tiled(m))
    BY Areas
  <2> HIDE DEF k, l
  <2> QED
    BY <2>1 DEF Least
<1>7. /\ mw \in Int /\ lw \in Int /\ rw \in Int /\ mx \in Int
      /\ left \in Int /\ right \in Int /\ m.ih \in Nat
  BY CentreMeets, Edges
<1>8. ~Parted(m) => mx = left /\ mx + mw = right
  <2>1. ~Parted(m) => mx = left /\ mw = Wide(m)
    BY CentreMeets
  <2> QED
    BY <2>1, Edges
<1>9. /\ ~Sides2(m) => mx = left
      /\ Parted(m) => mx + mw + m.ih + rw = right
      /\ Sides2(m) => left + lw + m.ih = mx /\ (lw > 0 => mw >= 0)
  BY CentreMeets
<1> HIDE DEF x, w, N, mx, mw, lw, rw, left, right, k, l, a, b
<1> DEFINE Clear(s, t) == x[s] + w[s] + m.ih <= x[t] \/ x[t] + w[t] + m.ih <= x[s]
           Full(s) == N[s] > 0 /\ w[s] > 0
           Between(s) == left <= x[s] /\ x[s] + w[s] <= right
<1>10. ASSUME Full(0), Full(1) PROVE Clear(0, 1)
  <2>1. l > 1 /\ k > 0 /\ lw > 0
    BY <1>2, <1>3, <1>4, <1>10
  <2>2. Sides2(m)
    BY <1>4, <1>5, <2>1
  <2>3. left + lw + m.ih = mx
    BY <1>9, <2>2
  <2> QED
    BY <1>1, <1>2, <1>7, <2>3
<1>11. Clear(0, 2)
  BY <1>1, <1>2, <1>7
<1>12. ASSUME Full(1), Full(2) PROVE Clear(1, 2)
  <2>1. l > 1 /\ lw > 0
    BY <1>2, <1>3, <1>4, <1>12
  <2>2. Sides2(m)
    BY <1>4, <1>5, <1>6, <2>1
  <2>3. left + lw + m.ih = mx /\ mw >= 0
    BY <1>9, <2>1, <2>2
  <2> QED
    BY <1>1, <1>2, <1>7, <2>3
<1>13. ASSUME NEW s \in 0..2, NEW t \in 0..2, s # t, Full(s), Full(t) PROVE Clear(s, t)
  <2>1. (s = 0 \/ s = 1 \/ s = 2) /\ (t = 0 \/ t = 1 \/ t = 2)
    OBVIOUS
  <2>2. CASE s = 0
    <3>1. CASE t = 1
      BY <1>10, <1>13, <2>2, <3>1
    <3>2. CASE t = 2
      BY <1>11, <2>2, <3>2
    <3> QED
      BY <1>13, <2>1, <2>2, <3>1, <3>2
  <2>3. CASE s = 1
    <3>1. CASE t = 0
      BY <1>10, <1>13, <2>3, <3>1
    <3>2. CASE t = 2
      BY <1>12, <1>13, <2>3, <3>2
    <3> QED
      BY <1>13, <2>1, <2>3, <3>1, <3>2
  <2>4. CASE s = 2
    <3>1. CASE t = 0
      BY <1>11, <2>4, <3>1
    <3>2. CASE t = 1
      BY <1>12, <1>13, <2>4, <3>2
    <3> QED
      BY <1>13, <2>1, <2>4, <3>1, <3>2
  <2> QED
    BY <2>1, <2>2, <2>3, <2>4
<1>14. ASSUME \A t \in 0..2 : N[t] > 0 => w[t] > 0, NEW s \in 0..2, N[s] > 0
       PROVE  Between(s)
  <2>1. (k > 0 => mw > 0) /\ (l > 1 => lw > 0) /\ (l > 0 => rw > 0)
    <3>1. (N[0] > 0 => w[0] > 0) /\ (N[1] > 0 => w[1] > 0) /\ (N[2] > 0 => w[2] > 0)
      BY <1>14
    <3> QED
      BY <1>2, <1>3, <1>4, <3>1
  <2>2. s = 0 \/ s = 1 \/ s = 2
    OBVIOUS
  <2>3. k > 0
    BY <1>3, <1>4, <1>6, <1>14, <2>2
  <2>4. CASE ~Parted(m)
    <3>1. l = 0
      BY <1>4, <1>5, <2>3, <2>4
    <3>2. s = 0
      BY <1>3, <1>4, <1>14, <2>2, <3>1
    <3>3. mx = left /\ mx + mw = right
      BY <1>8, <2>4
    <3> QED
      BY <1>1, <1>2, <1>7, <3>2, <3>3
  <2>5. CASE Parted(m)
    <3>1. mx + mw + m.ih + rw = right /\ l > 0 /\ mw > 0 /\ rw > 0
      BY <1>5, <1>9, <2>1, <2>5
    <3>2. CASE Sides2(m)
      <4>1. left + lw + m.ih = mx /\ lw > 0
        BY <1>5, <1>9, <2>1, <3>2
      <4>2. CASE s = 0
        BY <1>1, <1>2, <1>7, <3>1, <4>1, <4>2
      <4>3. CASE s = 1
        BY <1>1, <1>2, <1>7, <3>1, <4>1, <4>3
      <4>4. CASE s = 2
        BY <1>1, <1>2, <1>7, <3>1, <4>1, <4>4
      <4> QED
        BY <2>2, <4>2, <4>3, <4>4
    <3>3. CASE ~Sides2(m)
      <4>1. mx = left
        BY <1>9, <3>3
      <4>2. b = 0
        BY <1>4, <1>5, <2>5, <3>3
      <4>3. CASE s = 0
        BY <1>1, <1>2, <1>7, <3>1, <4>1, <4>3
      <4>4. CASE s = 2
        BY <1>1, <1>2, <1>7, <3>1, <4>1, <4>4
      <4>5. s # 1
        BY <1>3, <1>14, <4>2
      <4> QED
        BY <2>2, <4>3, <4>4, <4>5
    <3> QED
      BY <3>2, <3>3
  <2> QED
    BY <2>4, <2>5
<1> QED
  BY <1>13, <1>14 DEF x, w, N, left, right

\* The column of a window of centredmaster, and its place there.
ColumnOf(m) == [i \in 1..Tiled(m) |-> SideOf(m, i)]

PlaceOf(m) ==
  [i \in 1..Tiled(m) |-> IF i <= Len(Masters(m)) THEN i ELSE SidePos(i - Len(Masters(m)))]

\* centredmaster places its windows in three columns as they must be.
LEMMA centredmasterSides ==
  ASSUME NEW m \in Screen, m.nmaster > 0
  PROVE  SidedPlaces(m, centredmaster(m))
<1> DEFINE n == Tiled(m)
           k == Len(Masters(m))
           l == Len(Stack(m))
           A == ColumnC(m)[0]
           L1 == ColumnC(m)[1]
           R1 == ColumnC(m)[2]
           T == [j \in 1..l |-> IF j % 2 = 1 THEN R1[(j + 1) \div 2] ELSE L1[j \div 2]]
           R == centredmaster(m)
           a == SideCount(m, 0)
           b == SideCount(m, 1)
           N == ColumnN(m)
<1>1. n \in Nat /\ k \in Nat /\ l \in Nat /\ n = k + l
  BY AreaLengths
<1>2. ASSUME NEW i \in 1..n PROVE i <= m.nmaster <=> i <= k
  <2>1. n \in Nat /\ m.nmaster \in Nat /\ k = Least(m.nmaster, n)
    BY Areas
  <2> HIDE DEF n, k
  <2> QED
    BY <2>1 DEF Least
<1>3. R = A \o T
  <2>1. Sides2(m) <=> Parted(m) /\ l > 1
    BY DEF Sides2
  <2>2. l \in Nat /\ Stack(m) \in Seq(Nat \ {0})
    BY Areas, AreaLengths DEF Factors
  <2>3. DOMAIN Stack(m) = 1..l
    BY <2>2
  <2>4. L1 = SideColumn(m, LeftEnd(m), LeftWidth(m), 1) /\ R1 = SideColumn(m, CentreX(m) + CentreWidth(m) + m.ih, RightWidth(m), 0)
    <3>1. ColumnX(m)[1] = LeftEnd(m) /\ ColumnW(m)[1] = LeftWidth(m)
          /\ ColumnX(m)[2] = CentreX(m) + CentreWidth(m) + m.ih /\ ColumnW(m)[2] = RightWidth(m)
      BY DEF ColumnX, ColumnW
    <3>2. L1 = SideColumn(m, ColumnX(m)[1], ColumnW(m)[1], 2 - 1) /\ R1 = SideColumn(m, ColumnX(m)[2], ColumnW(m)[2], 2 - 2)
      BY DEF ColumnC
    <3>3. 2 - 1 = 1 /\ 2 - 2 = 0
      OBVIOUS
    <3> QED
      BY <3>1, <3>2, <3>3
  <2>5. A = Column(m, CentreX(m), TopEnd(m), CentreWidth(m), EvenSplit(Down(m, k), Masters(m)))
    BY DEF ColumnC
  <2>6. m.nmaster # 0
    BY Areas
  <2> QED
    BY <2>3, <2>4, <2>5, <2>6 DEF centredmaster, Sides2, LeftWidth, RightWidth, CentreX, LeftEnd, TopEnd
<1>4. N[0] = k /\ N[1] = b /\ N[2] = a
  <2>1. N[0] = k /\ N[1] = SideCount(m, 2 - 1) /\ N[2] = SideCount(m, 2 - 2)
    BY DEF ColumnN
  <2> QED
    BY <2>1
<1>5. /\ A \in Seq(Rectangle(m)) /\ Len(A) = k /\ L1 \in Seq(Rectangle(m)) /\ Len(L1) = b
      /\ R1 \in Seq(Rectangle(m)) /\ Len(R1) = a
  <2>0. 0 \in 0..2 /\ 1 \in 0..2 /\ 2 \in 0..2
    OBVIOUS
  <2>1. Columnar(m, ColumnC(m)[0], N[0], ColumnX(m)[0], ColumnW(m)[0], FALSE, 0)
    BY <2>0, CentreColumns, Zenon
  <2>2. Columnar(m, ColumnC(m)[1], N[1], ColumnX(m)[1], ColumnW(m)[1], FALSE, 0)
    BY <2>0, CentreColumns, Zenon
  <2>3. Columnar(m, ColumnC(m)[2], N[2], ColumnX(m)[2], ColumnW(m)[2], FALSE, 0)
    BY <2>0, CentreColumns, Zenon
  <2> QED
    BY <1>4, <2>1, <2>2, <2>3 DEF Columnar
<1>6. /\ a \in Nat /\ b \in Nat
      /\ \A q \in 1..l : /\ q % 2 = 1 => SidePos(q) \in 1..a
                         /\ q % 2 = 0 => SidePos(q) \in 1..b
      /\ \A p \in 1..a : \E q \in 1..l : q % 2 = 1 /\ SidePos(q) = p
      /\ \A p \in 1..b : \E q \in 1..l : q % 2 = 0 /\ SidePos(q) = p
  BY TurnsSide, Zenon
<1>7. ASSUME NEW q \in 1..l
      PROVE  /\ q % 2 \in {0, 1} /\ SidePos(q) \in Nat \ {0} /\ q = 2 * SidePos(q) - (q % 2)
             /\ q % 2 = 1 => T[q] = R1[SidePos(q)]
             /\ q % 2 = 0 => T[q] = L1[SidePos(q)]
  <2>1. q % 2 \in {0, 1} /\ SidePos(q) \in Nat \ {0} /\ q = 2 * SidePos(q) - (q % 2)
    <3>1. q \in 1..l /\ l \in Nat
      BY <1>1
    <3> QED
      BY ONLY <3>1, SideTurns
  <2>2. T[q] = IF q % 2 = 1 THEN R1[(q + 1) \div 2] ELSE L1[q \div 2]
    OBVIOUS
  <2>3. (q % 2 = 1 => SidePos(q) = (q + 1) \div 2) /\ (q % 2 = 0 => SidePos(q) = q \div 2)
    BY DEF SidePos, Half
  <2> HIDE DEF T, R1, L1
  <2> QED
    BY <2>1, <2>2, <2>3
<1> HIDE DEF T, R1, L1, A, a, b, N, R
<1>8. T \in Seq(Rectangle(m)) /\ Len(T) = l
  <2>1. ASSUME NEW q \in 1..l PROVE T[q] \in Rectangle(m)
    <3>1. q % 2 = 0 \/ q % 2 = 1
      BY <1>7
    <3> DEFINE p == SidePos(q)
    <3>2. (q % 2 = 1 => p \in 1..a /\ T[q] = R1[p]) /\ (q % 2 = 0 => p \in 1..b /\ T[q] = L1[p])
      BY <1>6, <1>7, Zenon
    <3>3. (p \in 1..a => R1[p] \in Rectangle(m)) /\ (p \in 1..b => L1[p] \in Rectangle(m))
      <4> HIDE DEF p
      <4> QED
        BY <1>5
    <3> QED
      BY <3>1, <3>2, <3>3, Zenon
  <2>2. T \in [1..l -> Rectangle(m)]
    BY <2>1 DEF T
  <2> HIDE DEF l
  <2> QED
    BY <1>1, <2>2, SeqMade
<1> HIDE DEF l, k, n
<1>9. /\ R \in Seq(Rectangle(m)) /\ Len(R) = n
      /\ \A i \in 1..n : /\ i <= k => R[i] = A[i]
                         /\ i > k => i - k \in 1..l /\ R[i] = T[i - k]
  <2>1. A \o T \in Seq(Rectangle(m)) /\ Len(A \o T) = n
    BY <1>1, <1>5, <1>8
  <2>2. ASSUME NEW i \in 1..n, i <= k PROVE (A \o T)[i] = A[i]
    BY <1>1, <1>5, <1>8, <2>2
  <2>3. ASSUME NEW i \in 1..n, i > k PROVE i - k \in 1..l /\ (A \o T)[i] = T[i - k]
    BY <1>1, <1>5, <1>8, <2>3
  <2> QED
    BY <1>3, <2>1, <2>2, <2>3
<1>10. ASSUME NEW i \in 1..n
       PROVE  /\ i <= k => SideOf(m, i) = 0
              /\ i > k => SideOf(m, i) = 1 + ((i - k) % 2)
  <2>1. m.nmaster \in Nat /\ k = Least(m.nmaster, n)
    BY Areas DEF k, n
  <2>2. m.nmaster # 0
    BY <2>1
  <2>3. i > k => k = m.nmaster
    BY <1>1, <2>1 DEF Least
  <2>4. SideOf(m, i) = IF i <= k THEN 0 ELSE 1 + ((i - m.nmaster) % 2)
    BY <1>2, <2>2 DEF SideOf, n
  <2>5. i > k <=> ~(i <= k)
    BY <1>1
  <2> QED
    BY <2>3, <2>4, <2>5
<1> DEFINE side == ColumnOf(m)
           pos == PlaceOf(m)
           C == ColumnC(m)
<1>11. ASSUME NEW i \in 1..n
       PROVE  /\ side[i] = SideOf(m, i)
              /\ i <= k => pos[i] = i
              /\ i > k => pos[i] = SidePos(i - k)
  <2>1. side[i] = SideOf(m, i) /\ pos[i] = IF i <= k THEN i ELSE SidePos(i - k)
    BY DEF ColumnOf, PlaceOf, n, k
  <2>2. i > k <=> ~(i <= k)
    BY <1>1
  <2> QED
    BY <2>1, <2>2
<1>12. C[0] = A /\ C[1] = L1 /\ C[2] = R1
  BY DEF A, L1, R1
<1> HIDE DEF side, pos, C
<1>13. ASSUME NEW i \in 1..n, i > k
       PROVE  /\ i - k \in 1..l /\ R[i] = T[i - k]
              /\ \/ (i - k) % 2 = 0 /\ side[i] = 1
                 \/ (i - k) % 2 = 1 /\ side[i] = 2
              /\ pos[i] = SidePos(i - k) /\ pos[i] \in Int
              /\ i - k = 2 * pos[i] - side[i] + 1
  <2> DEFINE q == i - k
             r == q % 2
  <2>1. q \in 1..l /\ R[i] = T[q]
    BY <1>9, <1>13
  <2>2. pos[i] = SidePos(q) /\ side[i] = 1 + r
    BY <1>10, <1>11, <1>13
  <2> HIDE DEF q
  <2>3. r \in {0, 1} /\ SidePos(q) \in Nat \ {0} /\ q = 2 * SidePos(q) - r
    BY <1>7, <2>1
  <2> HIDE DEF r
  <2>4. ((r = 0 /\ side[i] = 1) \/ (r = 1 /\ side[i] = 2)) /\ q = 2 * pos[i] - side[i] + 1 /\ pos[i] \in Int
    BY <2>2, <2>3
  <2> QED
    BY <2>1, <2>2, <2>4 DEF q, r
<1>14. \A i \in 1..n : side[i] \in 0..2 /\ pos[i] \in 1..N[side[i]] /\ R[i] = C[side[i]][pos[i]]
  <2> SUFFICES ASSUME NEW i \in 1..n
               PROVE  side[i] \in 0..2 /\ pos[i] \in 1..N[side[i]] /\ R[i] = C[side[i]][pos[i]]
    OBVIOUS
  <2>1. CASE i <= k
    BY <1>1, <1>4, <1>9, <1>10, <1>11, <1>12, <2>1
  <2>2. CASE i > k
    <3>1. /\ i - k \in 1..l /\ R[i] = T[i - k]
          /\ \/ (i - k) % 2 = 0 /\ side[i] = 1
             \/ (i - k) % 2 = 1 /\ side[i] = 2
          /\ pos[i] = SidePos(i - k)
      BY <1>13, <2>2
    <3> DEFINE q == i - k
    <3> HIDE DEF q
    <3>2. /\ q \in 1..l /\ R[i] = T[q]
          /\ \/ q % 2 = 0 /\ side[i] = 1
             \/ q % 2 = 1 /\ side[i] = 2
          /\ pos[i] = SidePos(q)
      BY <3>1 DEF q
    <3>3. CASE q % 2 = 0 /\ side[i] = 1
      BY <1>4, <1>6, <1>7, <1>12, <3>2, <3>3
    <3>4. CASE q % 2 = 1 /\ side[i] = 2
      BY <1>4, <1>6, <1>7, <1>12, <3>2, <3>4
    <3> QED
      BY <3>2, <3>3, <3>4
  <2> QED
    BY <1>1, <2>1, <2>2
<1>15. \A i, j \in 1..n : i < j /\ side[i] = side[j] => pos[i] < pos[j]
  <2> SUFFICES ASSUME NEW i \in 1..n, NEW j \in 1..n, i < j, side[i] = side[j]
               PROVE  pos[i] < pos[j]
    OBVIOUS
  <2>1. CASE j <= k
    BY <1>1, <1>11, <2>1
  <2>2. CASE i <= k /\ j > k
    <3>1. side[i] = 0 /\ side[j] # 0
      BY <1>10, <1>11, <1>13, <2>2
    <3> QED
      BY <3>1
  <2>3. CASE i > k
    <3>1. j > k
      BY <1>1, <2>3
    <3>2. i - k = 2 * pos[i] - side[i] + 1 /\ pos[i] \in Int /\ side[i] \in {1, 2}
      BY <1>13, <2>3
    <3>3. j - k = 2 * pos[j] - side[j] + 1 /\ pos[j] \in Int /\ side[j] \in {1, 2}
      BY <1>13, <3>1
    <3> QED
      BY <1>1, <3>2, <3>3
  <2> QED
    BY <1>1, <2>1, <2>2, <2>3
<1>16. \A s \in 0..2 : \A p \in 1..N[s] : \E i \in 1..n : R[i] = C[s][p]
  <2> SUFFICES ASSUME NEW s \in 0..2, NEW p \in 1..N[s] PROVE \E i \in 1..n : R[i] = C[s][p]
    OBVIOUS
  <2>1. s = 0 \/ s = 1 \/ s = 2
    OBVIOUS
  <2>2. CASE s = 0
    <3>1. p \in 1..n /\ p <= k
      BY <1>1, <1>4, <2>2
    <3> QED
      BY <1>9, <1>12, <2>2, <3>1
  <2>3. ASSUME NEW q \in 1..l, T[q] = C[s][p] PROVE \E i \in 1..n : R[i] = C[s][p]
    <3> DEFINE i == q + k
    <3>1. i \in 1..n /\ i > k /\ i - k = q
      BY <1>1
    <3> HIDE DEF i
    <3>2. R[i] = T[q]
      BY <1>9, <3>1
    <3> QED
      BY <2>3, <3>1, <3>2
  <2>4. CASE s = 1
    <3>1. PICK q \in 1..l : q % 2 = 0 /\ SidePos(q) = p
      BY <1>4, <1>6, <2>4
    <3>2. T[q] = C[s][p]
      BY <1>7, <1>12, <2>4, <3>1
    <3> QED
      BY <2>3, <3>2
  <2>5. CASE s = 2
    <3>1. PICK q \in 1..l : q % 2 = 1 /\ SidePos(q) = p
      BY <1>4, <1>6, <2>5
    <3>2. T[q] = C[s][p]
      BY <1>7, <1>12, <2>5, <3>1
    <3> QED
      BY <2>3, <3>2
  <2> QED
    BY <2>1, <2>2, <2>4, <2>5
<1> DEFINE X == ColumnX(m)
           W == ColumnW(m)
<1>17. \A s \in 0..2 : /\ N[s] \in Nat /\ X[s] \in Int /\ W[s] \in Int
                       /\ Columnar(m, C[s], N[s], X[s], W[s], FALSE, 0)
  BY CentreColumns DEF N, C
<1>18. /\ \A s, t \in 0..2 : s # t /\ N[s] > 0 /\ N[t] > 0 /\ W[s] > 0 /\ W[t] > 0 =>
             X[s] + W[s] + m.ih <= X[t] \/ X[t] + W[t] + m.ih <= X[s]
       /\ (\A t \in 0..2 : N[t] > 0 => W[t] > 0) =>
             \A s \in 0..2 : N[s] > 0 => LeftEnd(m) <= X[s] /\ X[s] + W[s] <= RightEnd(m)
  BY CentreApart DEF N
<1>19. \A i \in 1..n : R[i] \in Rectangle(m)
  BY <1>9
<1> HIDE DEF X, W
<1>20. /\ \A i, j \in 1..n :
             i < j /\ (side[i] = side[j] \/ (Ample(m, R[i]) /\ Ample(m, R[j]))) => Beside(m, R[i], R[j])
       /\ (\A i \in 1..n : Ample(m, R[i])) => \A i \in 1..n : Inside(m, R[i], 0, 0)
  <2>1. ColumnsMade(m, n, R, 0..2, C, N, X, W, side, pos)
    BY <1>14, <1>15, <1>16, <1>17, <1>18, <1>19 DEF ColumnsMade
  <2> QED
    BY <1>1, <2>1, ManyColumns
<1> QED
  BY <1>9, <1>11, <1>20 DEF SidedPlaces, n, R

\* A cell of a grid is where its column and its row start, and as long as they
\* are, unless it was grown to the least size (grid, gaplessgrid).
LEMMA Cells ==
  ASSUME NEW m \in Screen, NEW cols \in Nat \ {0}, NEW rows \in Nat \ {0},
         NEW col \in 0..(cols - 1), NEW row \in 0..(rows - 1)
  PROVE  /\ Cell(m, col, cols, row, rows) \in Rectangle(m)
         /\ Ample(m, Cell(m, col, cols, row, rows)) =>
               /\ Cell(m, col, cols, row, rows).x = LeftEnd(m) + LinePos(Wide(m), m.ih, cols, col)
               /\ Cell(m, col, cols, row, rows).y = TopEnd(m) + LinePos(High(m), m.iv, rows, row)
               /\ Cell(m, col, cols, row, rows).w = LineLen(Wide(m), m.ih, cols, col)
               /\ Cell(m, col, cols, row, rows).h = LineLen(High(m), m.iv, rows, row)
               /\ LineLen(Wide(m), m.ih, cols, col) > 0 /\ LineLen(High(m), m.iv, rows, row) > 0
<1> DEFINE px == LinePos(Wide(m), m.ih, cols, col)
           py == LinePos(High(m), m.iv, rows, row)
           w == LineLen(Wide(m), m.ih, cols, col)
           h == LineLen(High(m), m.iv, rows, row)
           r == Cell(m, col, cols, row, rows)
<1>1. /\ LeftEnd(m) \in Int /\ TopEnd(m) \in Int /\ Wide(m) \in Int /\ High(m) \in Int
      /\ m.ih \in Nat /\ m.iv \in Nat
  BY Edges
<1>2. px \in Int /\ w \in Int
  BY <1>1, Lines
<1>3. py \in Int /\ h \in Int
  BY <1>1, Lines
<1>4. r = Resize(m, LeftEnd(m) + px, TopEnd(m) + py, w, h)
  <2> DEFINE cw == Across(m, cols) \div cols
             ch == Down(m, rows) \div rows
             crest == Across(m, cols) - cw * cols
             rrest == Down(m, rows) - ch * rows
  <2>1. cw = LineStep(Wide(m), m.ih, cols) /\ crest = LineRest(Wide(m), m.ih, cols)
    BY DEF LineStep, LineRest, Across
  <2>2. ch = LineStep(High(m), m.iv, rows) /\ rrest = LineRest(High(m), m.iv, rows)
    BY DEF LineStep, LineRest, Down
  <2>3. r = Resize(m, m.wx + m.oh + col * (cw + m.ih) + Least(col, crest),
                   m.wy + m.ov + row * (ch + m.iv) + Least(row, rrest),
                   cw + (IF col < crest THEN 1 ELSE 0),
                   ch + (IF row < rrest THEN 1 ELSE 0))
    BY DEF Cell
  <2>4. w = cw + (IF col < crest THEN 1 ELSE 0) /\ h = ch + (IF row < rrest THEN 1 ELSE 0)
    BY <2>1, <2>2 DEF LineLen
  <2>5. px = col * (cw + m.ih) + Least(col, crest) /\ py = row * (ch + m.iv) + Least(row, rrest)
    BY <2>1, <2>2 DEF LinePos
  <2>6. cw \in Int /\ crest \in Int /\ ch \in Int /\ rrest \in Int
    <3>1. m.ih * (cols - 1) \in Int /\ m.iv * (rows - 1) \in Int
      BY <1>1
    <3>2. Across(m, cols) \in Int /\ Down(m, rows) \in Int
      BY <1>1, <3>1 DEF Across, Down
    <3>3. cw \in Int /\ ch \in Int
      BY <3>2, DivMod
    <3> HIDE DEF cw, ch
    <3> QED
      BY <3>2, <3>3
  <2> HIDE DEF cw, ch, crest, rrest, px, py, w, h, r
  <2>7. /\ col * (cw + m.ih) \in Int /\ row * (ch + m.iv) \in Int
        /\ Least(col, crest) \in Int /\ Least(row, rrest) \in Int
    <3>1. Least(col, crest) \in Int /\ Least(row, rrest) \in Int
      BY <2>6 DEF Least
    <3> QED
      BY <1>1, <2>6, <3>1
  <2> DEFINE a == col * (cw + m.ih)
             b == row * (ch + m.iv)
             c == Least(col, crest)
             d == Least(row, rrest)
  <2>8. a \in Int /\ b \in Int /\ c \in Int /\ d \in Int
    BY <2>7
  <2> HIDE DEF a, b, c, d
  <2>9. LeftEnd(m) + a + c = LeftEnd(m) + (a + c) /\ TopEnd(m) + b + d = TopEnd(m) + (b + d)
    BY <1>1, <2>8
  <2>10. m.wx + m.oh + a + c = LeftEnd(m) + px /\ m.wy + m.ov + b + d = TopEnd(m) + py
    BY <2>5, <2>9 DEF LeftEnd, TopEnd, a, b, c, d
  <2> QED
    BY <2>3, <2>4, <2>10 DEF a, b, c, d
<1> HIDE DEF px, py, w, h, r
<1>5. LeftEnd(m) + px \in Int /\ TopEnd(m) + py \in Int
  BY <1>1, <1>2, <1>3
<1> DEFINE x == LeftEnd(m) + px
           y == TopEnd(m) + py
<1> HIDE DEF x, y
<1>6. x \in Int /\ y \in Int /\ r = Resize(m, x, y, w, h)
  BY <1>4, <1>5 DEF x, y
<1>7. r \in Rectangle(m) /\ r.x = x /\ r.y = y /\ r.w = Sized(m, w) /\ r.h = Sized(m, h)
  BY <1>2, <1>3, <1>6, ResizeRect
<1>8. ASSUME Ample(m, r) PROVE r.w = w /\ w > Size0(m) /\ r.h = h /\ h > Size0(m)
  BY <1>2, <1>3, <1>7, <1>8, AmpleExact
<1>9. Size0(m) \in Nat
  BY SizedBounds
<1>10. ASSUME Ample(m, r) PROVE w > 0 /\ h > 0
  BY <1>2, <1>3, <1>8, <1>9, <1>10
<1> QED
  BY <1>7, <1>8, <1>10 DEF px, py, w, h, r, x, y

\* The windows of a grid: each has a cell of its own of a column of rows[j] rows.
GridMade(m, R, cols, col, row, rows) ==
  /\ Len(R) = Tiled(m) /\ DOMAIN R = 1..Tiled(m)
  /\ \A j \in 1..Tiled(m) : /\ col[j] \in 0..(cols - 1) /\ rows[j] \in Nat \ {0}
                            /\ row[j] \in 0..(rows[j] - 1)
                            /\ R[j] = Cell(m, col[j], cols, row[j], rows[j])
  /\ \A i, j \in 1..Tiled(m) :
        i < j /\ col[i] = col[j] => rows[i] = rows[j] /\ row[i] # row[j]

\* When there is room for all of its windows a grid has none over another.
GridPlaces(m, R) ==
  /\ R \in Seq(Rectangle(m)) /\ Len(R) = Tiled(m)
  /\ (\A i \in 1..Tiled(m) : Ample(m, R[i])) =>
        /\ \A i, j \in 1..Tiled(m) : i < j => Beside(m, R[i], R[j])
        /\ \A i \in 1..Tiled(m) : Inside(m, R[i], 0, 0)

\* Windows in the cells of a grid, no two in one cell, are placed as they must
\* be.
LEMMA Grids ==
  ASSUME NEW m \in Screen, NEW R, NEW cols \in Nat \ {0}, NEW col, NEW row, NEW rows,
         R = [j \in DOMAIN R |-> R[j]], GridMade(m, R, cols, col, row, rows)
  PROVE  GridPlaces(m, R)
<1> DEFINE n == Tiled(m)
           V == Wide(m)
           H == High(m)
<1>1. n \in Nat
  BY AreaLengths, Areas
<1>2. /\ LeftEnd(m) \in Int /\ RightEnd(m) \in Int /\ TopEnd(m) \in Int /\ BottomEnd(m) \in Int
      /\ V \in Int /\ LeftEnd(m) + V = RightEnd(m) /\ H \in Int /\ TopEnd(m) + H = BottomEnd(m)
      /\ m.ih \in Nat /\ m.iv \in Nat
  BY Edges
<1> HIDE DEF n, V, H
<1>3. ASSUME NEW j \in 1..n
      PROVE  /\ col[j] \in 0..(cols - 1) /\ rows[j] \in Nat \ {0} /\ row[j] \in 0..(rows[j] - 1)
             /\ R[j] \in Rectangle(m)
             /\ Ample(m, R[j]) =>
                   /\ R[j].x = LeftEnd(m) + LinePos(V, m.ih, cols, col[j])
                   /\ R[j].y = TopEnd(m) + LinePos(H, m.iv, rows[j], row[j])
                   /\ R[j].w = LineLen(V, m.ih, cols, col[j])
                   /\ R[j].h = LineLen(H, m.iv, rows[j], row[j])
                   /\ LineLen(V, m.ih, cols, col[j]) > 0 /\ LineLen(H, m.iv, rows[j], row[j]) > 0
  <2>1. /\ col[j] \in 0..(cols - 1) /\ rows[j] \in Nat \ {0} /\ row[j] \in 0..(rows[j] - 1)
        /\ R[j] = Cell(m, col[j], cols, row[j], rows[j])
    BY DEF GridMade, n
  <2> DEFINE c == col[j]
             r == row[j]
             k == rows[j]
  <2> HIDE DEF c, r, k
  <2>2. c \in 0..(cols - 1) /\ k \in Nat \ {0} /\ r \in 0..(k - 1) /\ R[j] = Cell(m, c, cols, r, k)
    BY <2>1 DEF c, r, k
  <2>3. /\ Cell(m, c, cols, r, k) \in Rectangle(m)
        /\ Ample(m, Cell(m, c, cols, r, k)) =>
               /\ Cell(m, c, cols, r, k).x = LeftEnd(m) + LinePos(V, m.ih, cols, c)
               /\ Cell(m, c, cols, r, k).y = TopEnd(m) + LinePos(H, m.iv, k, r)
               /\ Cell(m, c, cols, r, k).w = LineLen(V, m.ih, cols, c)
               /\ Cell(m, c, cols, r, k).h = LineLen(H, m.iv, k, r)
               /\ LineLen(V, m.ih, cols, c) > 0 /\ LineLen(H, m.iv, k, r) > 0
    BY <2>2, Cells DEF V, H
  <2> QED
    BY <2>2, <2>3 DEF c, r, k
<1>4. R \in Seq(Rectangle(m)) /\ Len(R) = n
  <2>1. R \in [1..n -> Rectangle(m)]
    BY <1>3 DEF GridMade, n
  <2> QED
    BY <1>1, <2>1, SeqMade
<1>5. ASSUME NEW k \in Nat \ {0}, NEW W \in Int, NEW g \in Nat, NEW a \in 0..(k - 1), NEW b \in 0..(k - 1),
             a # b, LineLen(W, g, k, a) > 0, LineLen(W, g, k, b) > 0, NEW o \in Int
      PROVE  \/ o + LinePos(W, g, k, a) + LineLen(W, g, k, a) + g <= o + LinePos(W, g, k, b)
             \/ o + LinePos(W, g, k, b) + LineLen(W, g, k, b) + g <= o + LinePos(W, g, k, a)
  <2>1. /\ LinePos(W, g, k, a) \in Int /\ LineLen(W, g, k, a) \in Int
        /\ a < b => LinePos(W, g, k, a) + LineLen(W, g, k, a) + g <= LinePos(W, g, k, b)
    BY <1>5, Lines
  <2>2. /\ LinePos(W, g, k, b) \in Int /\ LineLen(W, g, k, b) \in Int
        /\ b < a => LinePos(W, g, k, b) + LineLen(W, g, k, b) + g <= LinePos(W, g, k, a)
    BY <1>5, Lines
  <2>3. a < b \/ b < a
    BY <1>5
  <2> QED
    BY <2>1, <2>2, <2>3
<1>6. ASSUME NEW i \in 1..n, NEW j \in 1..n, i < j, Ample(m, R[i]), Ample(m, R[j])
      PROVE  Beside(m, R[i], R[j])
  <2>1. CASE col[i] # col[j]
    <3>1. \/ LeftEnd(m) + LinePos(V, m.ih, cols, col[i]) + LineLen(V, m.ih, cols, col[i]) + m.ih
                <= LeftEnd(m) + LinePos(V, m.ih, cols, col[j])
          \/ LeftEnd(m) + LinePos(V, m.ih, cols, col[j]) + LineLen(V, m.ih, cols, col[j]) + m.ih
                <= LeftEnd(m) + LinePos(V, m.ih, cols, col[i])
      BY <1>2, <1>3, <1>5, <1>6, <2>1
    <3> QED
      BY <1>3, <1>6, <3>1 DEF Beside
  <2>2. CASE col[i] = col[j]
    <3>0. rows[i] = rows[j] /\ row[i] # row[j]
      BY <1>6, <2>2 DEF GridMade, n
    <3>1. \/ TopEnd(m) + LinePos(H, m.iv, rows[i], row[i]) + LineLen(H, m.iv, rows[i], row[i]) + m.iv
                <= TopEnd(m) + LinePos(H, m.iv, rows[i], row[j])
          \/ TopEnd(m) + LinePos(H, m.iv, rows[i], row[j]) + LineLen(H, m.iv, rows[i], row[j]) + m.iv
                <= TopEnd(m) + LinePos(H, m.iv, rows[i], row[i])
      BY <1>2, <1>3, <1>5, <1>6, <3>0
    <3> QED
      BY <1>3, <1>6, <3>0, <3>1 DEF Beside
  <2> QED
    BY <2>1, <2>2
<1>7. ASSUME NEW i \in 1..n, Ample(m, R[i]) PROVE Inside(m, R[i], 0, 0)
  <2> DEFINE px == LinePos(V, m.ih, cols, col[i])
             w == LineLen(V, m.ih, cols, col[i])
             py == LinePos(H, m.iv, rows[i], row[i])
             h == LineLen(H, m.iv, rows[i], row[i])
  <2>1. px \in Int /\ w \in Int /\ 0 <= px /\ px + w <= V
    BY <1>2, <1>3, <1>7, Lines
  <2>2. py \in Int /\ h \in Int /\ 0 <= py /\ py + h <= H
    BY <1>2, <1>3, <1>7, Lines
  <2>3. R[i].x = LeftEnd(m) + px /\ R[i].w = w /\ R[i].y = TopEnd(m) + py /\ R[i].h = h
    BY <1>3, <1>7
  <2> HIDE DEF px, py, w, h
  <2>4. /\ LeftEnd(m) <= LeftEnd(m) + px /\ LeftEnd(m) + px + w <= RightEnd(m) + 0
        /\ TopEnd(m) <= TopEnd(m) + py /\ TopEnd(m) + py + h <= BottomEnd(m) + 0
    BY <1>2, <2>1, <2>2
  <2> QED
    BY <2>3, <2>4 DEF Inside
<1> QED
  BY <1>4, <1>6, <1>7 DEF GridPlaces, n

\* The loops of the grids end, with enough columns and rows and at most one for
\* each window.
LEMMA GridSides ==
  ASSUME NEW n \in Nat \ {0}
  PROVE  GridSide(n) \in 1..n /\ n <= GridSide(n) * GridSide(n)
<1> DEFINE h == n \div 2
           k0 == h + 1
           Ends(k) == /\ k * k >= n \/ k = k0
                      /\ \A l \in 0..(k - 1) : l * l < n
           T == {k \in 0..k0 : k * k >= n \/ k = k0}
<1>1. h \in Nat /\ n \in (2 * h)..(2 * h + 1)
  OBVIOUS
<1>2. GridSide(n) = CHOOSE k \in 0..k0 : Ends(k)
  BY DEF GridSide
<1> HIDE DEF h
<1>3. \E k \in 0..k0 : Ends(k)
  <2>1. k0 \in T /\ T \subseteq Nat
    BY <1>1
  <2>2. PICK k \in T : \A y \in T : k <= y
    <3> HIDE DEF T
    <3> QED
      BY <2>1, LeastNat
  <2>3. ASSUME NEW l \in 0..(k - 1) PROVE l * l < n
    <3>1. l \notin T /\ l \in 0..k0 /\ l # k0
      BY <1>1, <2>1, <2>2
    <3>2. ~(l * l >= n) /\ l * l \in Int
      BY <3>1
    <3> QED
      BY <3>2
  <2> QED
    BY <2>2, <2>3
<1> DEFINE k == GridSide(n)
<1>4. k \in 0..k0 /\ Ends(k)
  <2> HIDE DEF Ends
  <2> QED
    BY <1>2, <1>3
<1> HIDE DEF k
<1>5. n <= k * k
  <2>1. k0 * k0 = h * h + 2 * h + 1 /\ h * h >= 0 /\ h * h \in Int
    BY <1>1
  <2>2. n <= k0 * k0
    BY <1>1, <2>1
  <2> QED
    BY <1>4, <2>2
<1>6. k # 0
  <2>1. 0 * 0 = 0
    OBVIOUS
  <2> QED
    BY <1>5, <2>1
<1>7. k <= n
  <2>1. CASE n = 1
    <3>1. 0 * 0 < n \/ k <= 1
      BY <1>4, <2>1
    <3>2. h = 0
      BY <1>1, <2>1
    <3> QED
      BY <1>4, <2>1, <3>2
  <2>2. CASE n # 1
    BY <1>1, <1>4, <2>2
  <2> QED
    BY <2>1, <2>2
<1>8. k \in 1..n
  BY <1>4, <1>6, <1>7
<1> QED
  BY <1>5, <1>8 DEF k

\* A window of a grid is told by its column and its row.
LEMMA gridPlaces ==
  ASSUME NEW m \in Screen, m.cf # << >>
  PROVE  GridPlaces(m, grid(m))
<1> DEFINE n == Tiled(m)
           rows == GridSide(n)
           cols == IF (rows - 1) * rows >= n THEN rows - 1 ELSE rows
           col == [j \in 1..n |-> (j - 1) \div rows]
           row == [j \in 1..n |-> (j - 1) % rows]
           all == [j \in 1..n |-> rows]
           R == grid(m)
<1>1. n \in Nat \ {0}
  BY DEF Screen, Tiled, Factors
<1>2. R = [j \in 1..n |-> Cell(m, (j - 1) \div rows, cols, (j - 1) % rows, rows)]
  BY DEF grid
<1>3. rows \in 1..n /\ n <= rows * rows
  <2> HIDE DEF n
  <2> QED
    BY <1>1, GridSides
<1> HIDE DEF n, R, rows
<1>4. cols \in Nat \ {0} /\ n <= rows * cols
  <2>1. CASE (rows - 1) * rows >= n
    <3>1. rows # 1
      <4>1. (1 - 1) * 1 = 0
        OBVIOUS
      <4> QED
        BY <1>1, <2>1, <4>1
    <3>2. cols = rows - 1 /\ (rows - 1) * rows = rows * (rows - 1)
      BY <1>3, <2>1
    <3> QED
      BY <1>3, <2>1, <3>1, <3>2
  <2>2. CASE ~((rows - 1) * rows >= n)
    BY <1>3, <2>2
  <2> QED
    BY <2>1, <2>2
<1>5. ASSUME NEW j \in 1..n
      PROVE  /\ col[j] \in 0..(cols - 1) /\ row[j] \in 0..(rows - 1)
             /\ j - 1 = (rows * col[j]) + row[j]
             /\ R[j] = Cell(m, col[j], cols, row[j], rows)
  <2> DEFINE i == j - 1
  <2>0. i = j - 1
    OBVIOUS
  <2> HIDE DEF i, cols
  <2>1. i \in Nat /\ i < rows * cols /\ rows \in Nat \ {0}
    <3>1. rows * cols \in Int
      BY <1>3, <1>4
    <3> QED
      BY <1>1, <1>3, <1>4, <2>0, <3>1
  <2>2. i \div rows \in 0..(cols - 1) /\ i % rows \in 0..(rows - 1) /\ i = (rows * (i \div rows)) + (i % rows)
    BY <1>4, <2>1, DivBelow
  <2>3. col[j] = i \div rows /\ row[j] = i % rows
    BY DEF i
  <2>4. R[j] = Cell(m, i \div rows, cols, i % rows, rows)
    BY <1>2 DEF i
  <2> QED
    BY <2>0, <2>2, <2>3, <2>4
<1>6. GridMade(m, R, cols, col, row, all)
  <2>1. Len(R) = n /\ DOMAIN R = 1..n
    BY <1>1, <1>2
  <2>2. ASSUME NEW j \in 1..n
        PROVE  /\ col[j] \in 0..(cols - 1) /\ all[j] \in Nat \ {0} /\ row[j] \in 0..(all[j] - 1)
               /\ R[j] = Cell(m, col[j], cols, row[j], all[j])
    <3>1. all[j] = rows
      OBVIOUS
    <3> HIDE DEF col, row, cols, all
    <3> QED
      BY <1>3, <1>5, <3>1
  <2>3. ASSUME NEW i \in 1..n, NEW j \in 1..n, i < j, col[i] = col[j]
        PROVE  all[i] = all[j] /\ row[i] # row[j]
    <3>1. all[i] = all[j]
      OBVIOUS
    <3>2. i - 1 = (rows * col[i]) + row[i] /\ j - 1 = (rows * col[j]) + row[j]
      BY <1>5
    <3>3. i - 1 # j - 1
      BY <1>1, <2>3
    <3> HIDE DEF col, row, all
    <3> QED
      BY <2>3, <3>1, <3>2, <3>3
  <2> HIDE DEF col, row, cols, all
  <2> QED
    BY <2>1, <2>2, <2>3 DEF GridMade, n
<1>7. R = [j \in DOMAIN R |-> R[j]]
  BY <1>2
<1> HIDE DEF col, row, cols, all
<1>8. GridPlaces(m, R)
  BY <1>4, <1>6, <1>7, Grids
<1> QED
  BY <1>8 DEF R

\* The last columns of gaplessgrid hold one window more.
LEMMA gaplessgridPlaces ==
  ASSUME NEW m \in Screen, m.cf # << >>
  PROVE  GridPlaces(m, gaplessgrid(m))
<1> DEFINE n == Tiled(m)
           cols == IF n = 5 THEN 2 ELSE GridSide(n)
           rows == n \div cols
           q == n % cols
           short == cols - q
           K(i) == i - rows * short
           col == [j \in 1..n |-> IF K(j - 1) < 0 THEN (j - 1) \div rows
                                  ELSE short + K(j - 1) \div (rows + 1)]
           row == [j \in 1..n |-> IF K(j - 1) < 0 THEN (j - 1) % rows ELSE K(j - 1) % (rows + 1)]
           all == [j \in 1..n |-> IF K(j - 1) < 0 THEN rows ELSE rows + 1]
           R == gaplessgrid(m)
<1>1. n \in Nat \ {0}
  BY DEF Screen, Tiled, Factors
<1>2. R = [j \in 1..n |->
             LET i == j - 1
                 k == i - rows * short
             IN  IF k < 0
                 THEN Cell(m, i \div rows, cols, i % rows, rows)
                 ELSE Cell(m, short + k \div (rows + 1), cols, k % (rows + 1), rows + 1)]
  BY DEF gaplessgrid
<1>3. cols \in 1..n
  <2> HIDE DEF n
  <2>1. GridSide(n) \in 1..n
    BY <1>1, GridSides
  <2> QED
    BY <1>1, <2>1
<1> HIDE DEF n, R, cols
<1>4. rows \in Nat \ {0} /\ q \in 0..(cols - 1) /\ n = cols * rows + q /\ short \in 1..cols
  <2>1. n \in Nat /\ n < cols * (n + 1) /\ n + 1 \in Nat /\ cols \in Nat \ {0}
    <3>1. cols * (n + 1) >= n + 1
      <4>1. (cols - 1) * (n + 1) >= 0
        BY <1>1, <1>3
      <4>2. (cols - 1) * (n + 1) = cols * (n + 1) - (n + 1) /\ cols * (n + 1) \in Int
        BY <1>1, <1>3
      <4> QED
        BY <1>1, <4>1, <4>2
    <3>2. cols * (n + 1) \in Int
      BY <1>1, <1>3
    <3> QED
      BY <1>1, <1>3, <3>1, <3>2
  <2>2. n \div cols \in 0..((n + 1) - 1) /\ n % cols \in 0..(cols - 1) /\ n = (cols * (n \div cols)) + (n % cols)
    BY <2>1, DivBelow
  <2> DEFINE d == n \div cols
  <2>3. d \in Nat /\ q \in 0..(cols - 1) /\ n = cols * d + q
    BY <1>1, <2>2
  <2> HIDE DEF d, q
  <2>4. d # 0
    <3>1. cols * 0 = 0
      BY <1>3
    <3> QED
      BY <1>1, <1>3, <2>3, <3>1
  <2>5. short \in 1..cols
    BY <1>3, <2>3
  <2> QED
    BY <2>3, <2>4, <2>5 DEF d
<1> HIDE DEF rows, q
<1> DEFINE split == rows * short
<1>5. /\ split \in Nat /\ n - split = (rows + 1) * q /\ (rows + 1) * q \in Nat
      /\ short = cols - q
  <2>1. rows * (cols - q) = rows * cols - rows * q /\ rows * cols \in Int /\ rows * q \in Nat
    BY <1>3, <1>4
  <2>2. (rows + 1) * q = rows * q + q /\ cols * rows = rows * cols
    BY <1>3, <1>4
  <2>3. rows * (cols - q) \in Nat
    <3>1. cols - q \in Nat
      BY <1>3, <1>4
    <3> QED
      BY <1>4, <3>1
  <2> QED
    BY <1>1, <1>4, <2>1, <2>2, <2>3
<1> HIDE DEF short, split
<1>6. ASSUME NEW j \in 1..n
      PROVE  /\ col[j] \in 0..(cols - 1) /\ all[j] \in Nat \ {0} /\ row[j] \in 0..(all[j] - 1)
             /\ R[j] = Cell(m, col[j], cols, row[j], all[j])
             /\ \/ col[j] < short /\ all[j] = rows /\ j - 1 = (rows * col[j]) + row[j]
                \/ col[j] >= short /\ all[j] = rows + 1
                   /\ j - 1 = split + ((rows + 1) * (col[j] - short) + row[j])
  <2> DEFINE i == j - 1
             k == K(i)
  <2>0. i \in Nat /\ i < n /\ i = j - 1 /\ k = i - split
    BY <1>1 DEF split
  <2>1. /\ col[j] = IF k < 0 THEN i \div rows ELSE short + k \div (rows + 1)
        /\ row[j] = IF k < 0 THEN i % rows ELSE k % (rows + 1)
        /\ all[j] = IF k < 0 THEN rows ELSE rows + 1
        /\ R[j] = IF k < 0 THEN Cell(m, i \div rows, cols, i % rows, rows)
                  ELSE Cell(m, short + k \div (rows + 1), cols, k % (rows + 1), rows + 1)
    BY <1>2
  <2> HIDE DEF i, k, col, row, all
  <2>2. CASE k < 0
    <3>1. i < rows * short /\ short \in Nat
      BY <1>1, <1>3, <1>4, <1>5, <2>0, <2>2 DEF split
    <3>2. i \div rows \in 0..(short - 1) /\ i % rows \in 0..(rows - 1) /\ i = (rows * (i \div rows)) + (i % rows)
      BY <1>4, <2>0, <3>1, DivBelow
    <3>3. col[j] \in 0..(short - 1) /\ row[j] \in 0..(rows - 1) /\ i = rows * col[j] + row[j] /\ all[j] = rows
          /\ R[j] = Cell(m, col[j], cols, row[j], all[j])
      BY <2>1, <2>2, <3>2
    <3>4. col[j] \in 0..(cols - 1) /\ col[j] < short
      BY <1>1, <1>3, <1>4, <3>3
    <3> QED
      BY <1>4, <2>0, <3>3, <3>4
  <2>3. CASE ~(k < 0)
    <3>1. k \in Nat /\ k < (rows + 1) * q /\ rows + 1 \in Nat \ {0} /\ q \in Nat
      BY <1>1, <1>4, <1>5, <2>0, <2>3
    <3> DEFINE b == rows + 1
    <3> HIDE DEF b
    <3>2. k \div b \in 0..(q - 1) /\ k % b \in 0..(b - 1) /\ k = (b * (k \div b)) + (k % b)
      BY <3>1, DivBelow DEF b
    <3> DEFINE d == k \div b
    <3> HIDE DEF d
    <3>3. col[j] = short + d /\ row[j] = k % b /\ all[j] = b /\ R[j] = Cell(m, col[j], cols, row[j], all[j])
      BY <2>1, <2>3 DEF b, d
    <3>4. d \in 0..(q - 1) /\ row[j] \in 0..(b - 1) /\ k = (b * d) + row[j]
      BY <3>2, <3>3 DEF d
    <3>5. col[j] \in 0..(cols - 1) /\ col[j] >= short /\ col[j] - short = d
      BY <1>3, <1>4, <1>5, <3>3, <3>4
    <3>6. i = split + (b * d + row[j])
      <4>1. b * d \in Int
        BY <3>1, <3>4 DEF b
      <4> QED
        BY <1>5, <2>0, <3>1, <3>4, <4>1
    <3>7. b = rows + 1 /\ b \in Nat \ {0}
      BY <3>1 DEF b
    <3> QED
      BY <2>0, <3>3, <3>4, <3>5, <3>6, <3>7
  <2> QED
    BY <2>2, <2>3
<1>7. GridMade(m, R, cols, col, row, all)
  <2>1. Len(R) = n /\ DOMAIN R = 1..n
    BY <1>1, <1>2
  <2> HIDE DEF col, row, all
  <2>2. ASSUME NEW i \in 1..n, NEW j \in 1..n, i < j, col[i] = col[j]
        PROVE  all[i] = all[j] /\ row[i] # row[j]
    <3>0. col[i] \in Int /\ short \in Int /\ (col[i] < short <=> ~(col[i] >= short))
      BY <1>3, <1>4, <1>6
    <3>1. i - 1 # j - 1
      BY <1>1, <2>2
    <3>2. CASE col[i] < short
      <4>1. all[i] = rows /\ i - 1 = (rows * col[i]) + row[i]
        BY ONLY <1>6, <2>2, <3>0, <3>2, Zenon
      <4>2. all[j] = rows /\ j - 1 = (rows * col[i]) + row[j]
        BY ONLY <1>6, <2>2, <3>0, <3>2, Zenon
      <4> QED
        BY ONLY <3>1, <4>1, <4>2, Zenon
    <3>3. CASE ~(col[i] < short)
      <4>1. all[i] = rows + 1 /\ i - 1 = split + ((rows + 1) * (col[i] - short) + row[i])
        BY ONLY <1>6, <2>2, <3>0, <3>3, Zenon
      <4>2. all[j] = rows + 1 /\ j - 1 = split + ((rows + 1) * (col[i] - short) + row[j])
        BY ONLY <1>6, <2>2, <3>0, <3>3, Zenon
      <4> QED
        BY ONLY <3>1, <4>1, <4>2, Zenon
    <3> QED
      BY <3>2, <3>3
  <2> QED
    BY <1>6, <2>1, <2>2 DEF GridMade, n
<1>8. R = [j \in DOMAIN R |-> R[j]]
  BY <1>2
<1>9. cols \in Nat \ {0}
  BY <1>1, <1>3
<1> HIDE DEF col, row, all
<1>10. GridPlaces(m, R)
  BY <1>7, <1>8, <1>9, Grids
<1> QED
  BY <1>10 DEF R

\* The rows of nrowgrid, the number of windows up to the end of each, and where
\* the windows of a row of cols end.
RowCount(m) == IF Tiled(m) = 2 THEN 1 ELSE Least(Tiled(m), m.nmaster + 1)

RowHeight(m) == Down(m, RowCount(m)) \div RowCount(m)

RowEnds(m) ==
  LET upto[r \in 0..RowCount(m)] ==
        IF r = 0 THEN 0
        ELSE upto[r - 1] + (Tiled(m) - upto[r - 1]) \div (RowCount(m) - r + 1)
  IN  upto

CellEnds(m, cols) ==
  LET u[k \in 0..cols] == IF k = 0 THEN 0
                          ELSE u[k - 1] + (Wide(m) - u[k - 1]) \div (cols - k + 1) + m.ih
  IN  u

RowOf(m, j) == CHOOSE r \in 1..RowCount(m) : RowEnds(m)[r - 1] < j /\ j <= RowEnds(m)[r]

\* The rows of nrowgrid end one after the other, the last one at the last
\* window.
LEMMA RowEndsRun ==
  ASSUME NEW m \in Screen, m.cf # << >>
  PROVE  /\ RowCount(m) \in 1..Tiled(m)
         /\ RowEnds(m)[0] = 0 /\ RowEnds(m)[RowCount(m)] = Tiled(m)
         /\ \A r \in 0..RowCount(m) : RowEnds(m)[r] \in 0..Tiled(m)
         /\ \A r \in 1..RowCount(m) : RowEnds(m)[r - 1] <= RowEnds(m)[r]
<1> DEFINE n == Tiled(m)
           k == RowCount(m)
           E(f) == [r \in 0..k |-> IF r = 0 THEN 0 ELSE f[r - 1] + (n - f[r - 1]) \div (k - r + 1)]
           u == CHOOSE f : f = E(f)
<1>1. n \in Nat \ {0}
  BY DEF Screen, Tiled, Factors
<1>2. k \in 1..n
  <2>1. m.nmaster \in Nat
    BY Areas
  <2>2. k = IF n = 2 THEN 1 ELSE Least(n, m.nmaster + 1)
    BY DEF RowCount
  <2> HIDE DEF n, k
  <2> QED
    BY <1>1, <2>1, <2>2 DEF Least
<1>3. RowEnds(m) = u
  BY DEF RowEnds
<1> HIDE DEF n, k
<1>4. PICK f \in [0..k -> Int] :
         f[0] = 0 /\ \A i \in 1..k : f[i] = f[i - 1] + (n - f[i - 1]) \div (k - i + 1) + 0
  <2>1. k \in Nat /\ n \in Int /\ 0 \in Int
    BY <1>1, <1>2
  <2> QED
    BY <2>1, Dealt
<1>5. ASSUME NEW i \in 1..k
      PROVE  /\ f[i - 1] \in Int /\ (n - f[i - 1]) \div (k - i + 1) \in Int
             /\ f[i] = f[i - 1] + (n - f[i - 1]) \div (k - i + 1)
  <2>1. i - 1 \in 0..k /\ k - i + 1 \in Nat \ {0}
    BY <1>2
  <2>2. f[i - 1] \in Int
    BY <1>4, <2>1
  <2>3. n - f[i - 1] \in Int
    BY <1>1, <2>2
  <2>4. (n - f[i - 1]) \div (k - i + 1) \in Int
    BY <2>1, <2>3, DivMod
  <2> DEFINE d == (n - f[i - 1]) \div (k - i + 1)
  <2>5. d \in Int /\ f[i] = f[i - 1] + d + 0
    BY <1>4, <2>4
  <2> HIDE DEF d
  <2>6. f[i] = f[i - 1] + d
    BY <2>2, <2>5
  <2> QED
    BY <2>2, <2>4, <2>6 DEF d
<1>6. f = E(f)
  BY <1>4, <1>5
<1>7. u = E(u)
  <2> HIDE DEF E
  <2> QED
    BY <1>6
<1> HIDE DEF u
<1>8. u[0] = 0 /\ \A r \in 1..k : u[r] = u[r - 1] + (n - u[r - 1]) \div (k - r + 1)
  BY <1>2, <1>7
<1>9. ASSUME NEW r \in 1..k, u[r - 1] \in 0..n
      PROVE  u[r] \in u[r - 1]..n /\ (r = k => u[r] = n)
  <2> DEFINE a == n - u[r - 1]
             b == k - r + 1
             d == a \div b
  <2>1. a \in 0..n /\ b \in Nat \ {0} /\ a = n - u[r - 1] /\ b = k - r + 1
    BY <1>1, <1>2, <1>9
  <2>2. u[r] = u[r - 1] + d
    BY <1>8
  <2> HIDE DEF a, b
  <2>0. a \in Nat
    BY <1>1, <2>1
  <2>3. a < b * (a + 1) /\ a + 1 \in Nat /\ a \in Nat
    <3> DEFINE c == b - 1
    <3>0. c \in Nat /\ b = c + 1
      BY <2>1
    <3> HIDE DEF c
    <3>1. c * (a + 1) >= 0 /\ c * (a + 1) \in Int
      BY <2>0, <3>0
    <3>2. (c + 1) * (a + 1) = c * (a + 1) + (a + 1)
      BY <2>0, <3>0
    <3>3. b * (a + 1) = (c + 1) * (a + 1)
      BY <3>0
    <3> QED
      BY <2>0, <3>1, <3>2, <3>3
  <2>4. d \in 0..((a + 1) - 1)
    BY <2>1, <2>3, DivBelow
  <2>5. b = 1 => d = a
    BY <2>3
  <2> HIDE DEF d
  <2> DEFINE v == u[r - 1]
  <2>6. v \in Int /\ v >= 0 /\ n = v + a /\ d \in 0..a /\ u[r] = v + d /\ (r = k => b = 1)
    BY <1>1, <1>2, <1>9, <2>0, <2>1, <2>2, <2>4
  <2> HIDE DEF v
  <2>7. u[r] \in v..n /\ (r = k => u[r] = n)
    BY <2>0, <2>5, <2>6
  <2> QED
    BY <2>7 DEF v
<1> DEFINE S == {r \in 0..k : u[r] \in 0..n}
<1>10. \A r \in 0..k : r \in S
  <2>1. 0 \in S
    BY <1>1, <1>2, <1>8
  <2>2. ASSUME NEW r \in 0..k, r # k, r \in S PROVE r + 1 \in S
    <3>1. r + 1 \in 1..k /\ (r + 1) - 1 = r /\ r + 1 \in 0..k /\ u[r] \in 0..n
      BY <1>2, <2>2
    <3>2. u[r + 1] \in u[r]..n
      BY <1>9, <3>1
    <3>3. u[r + 1] \in 0..n
      BY <1>1, <3>1, <3>2
    <3> QED
      BY <3>1, <3>3
  <2>3. 0 \in Nat /\ k \in Nat
    BY <1>2
  <2> HIDE DEF S
  <2> QED
    BY <2>1, <2>2, <2>3, Upwards
<1>11. ASSUME NEW r \in 1..k PROVE u[r - 1] <= u[r] /\ (r = k => u[r] = n)
  <2>1. r - 1 \in 0..k
    BY <1>2
  <2>2. u[r - 1] \in 0..n
    BY <1>10, <2>1
  <2>3. u[r] \in u[r - 1]..n /\ (r = k => u[r] = n)
    BY <1>9, <2>2
  <2> QED
    BY <2>2, <2>3
<1>12. u[k] = n
  <2>1. k \in 1..k
    BY <1>2
  <2> QED
    BY <1>11, <2>1
<1> QED
  BY <1>2, <1>3, <1>8, <1>10, <1>11, <1>12 DEF n, k

\* A window is in one row.
LEMMA RowsOf ==
  ASSUME NEW m \in Screen, m.cf # << >>, NEW j \in 1..Tiled(m)
  PROVE  /\ RowOf(m, j) \in 1..RowCount(m)
         /\ RowEnds(m)[RowOf(m, j) - 1] < j /\ j <= RowEnds(m)[RowOf(m, j)]
         /\ \A r \in 1..RowCount(m) :
               RowEnds(m)[r - 1] < j /\ j <= RowEnds(m)[r] => r = RowOf(m, j)
<1> DEFINE n == Tiled(m)
           k == RowCount(m)
           u == RowEnds(m)
           In(r) == u[r - 1] < j /\ j <= u[r]
<1>1. /\ n \in Nat \ {0} /\ k \in 1..n /\ u[0] = 0 /\ u[k] = n
      /\ \A r \in 0..k : u[r] \in 0..n
      /\ \A r \in 1..k : u[r - 1] <= u[r]
  <2>1. n \in Nat \ {0}
    BY DEF Screen, Tiled, Factors
  <2> QED
    BY <2>1, RowEndsRun
<1>0. j \in 1..n /\ RowOf(m, j) = CHOOSE r \in 1..k : In(r)
  BY DEF RowOf
<1> HIDE DEF n, k, u
<1>2. \E r \in 1..k : In(r)
  <2> DEFINE T == {r \in 0..k : j <= u[r]}
  <2>1. k \in T /\ T \subseteq Nat
    BY <1>0, <1>1
  <2>2. PICK r \in T : \A y \in T : r <= y
    <3> HIDE DEF T
    <3> QED
      BY <2>1, LeastNat
  <2>3. r # 0 /\ r \in 1..k
    BY <1>0, <1>1, <2>2
  <2>4. r - 1 \in 0..k /\ ~(r <= r - 1)
    BY <1>1, <2>3
  <2>5. r - 1 \notin T
    BY <2>2, <2>4
  <2>6. u[r - 1] < j
    BY <1>0, <1>1, <2>4, <2>5
  <2> QED
    BY <2>2, <2>3, <2>6
<1>3. RowOf(m, j) \in 1..k /\ In(RowOf(m, j))
  BY <1>0, <1>2
<1>4. ASSUME NEW a \in 0..k PROVE \A b \in a..k : u[a] <= u[b]
  <2> DEFINE S == {b \in a..k : u[a] <= u[b]}
  <2>1. a \in S
    BY <1>1
  <2>2. ASSUME NEW b \in a..k, b # k, b \in S PROVE b + 1 \in S
    <3>1. b + 1 \in 1..k /\ (b + 1) - 1 = b /\ b + 1 \in a..k /\ b \in 0..k /\ b + 1 \in 0..k
      BY <1>1, <2>2
    <3>2. u[b] <= u[b + 1] /\ u[b] \in 0..n /\ u[b + 1] \in 0..n /\ u[a] \in 0..n
      BY <1>1, <3>1
    <3> QED
      BY <1>1, <2>2, <3>1, <3>2
  <2>3. a \in Nat /\ k \in Nat
    BY <1>1
  <2> HIDE DEF S
  <2>4. \A b \in a..k : b \in S
    BY <2>1, <2>2, <2>3, Upwards
  <2> QED
    BY <2>4 DEF S
<1>5. ASSUME NEW r \in 1..k, NEW s \in 1..k, In(r), In(s), r < s PROVE FALSE
  <2>1. r \in 0..k /\ s - 1 \in r..k /\ s - 1 \in 0..k
    BY <1>1, <1>5
  <2>2. u[r] <= u[s - 1] /\ u[r] \in 0..n /\ u[s - 1] \in 0..n
    BY <1>1, <1>4, <2>1
  <2> QED
    BY <1>0, <1>1, <1>5, <2>2
<1>6. ASSUME NEW r \in 1..k, In(r) PROVE r = RowOf(m, j)
  <2> DEFINE s == RowOf(m, j)
  <2> HIDE DEF s
  <2>1. s \in 1..k /\ In(s)
    BY <1>3 DEF s
  <2>2. ~(r < s) /\ ~(s < r)
    BY <1>5, <1>6, <2>1
  <2>3. r = s
    BY <1>1, <2>1, <2>2
  <2> QED
    BY <2>3 DEF s
<1> QED
  BY <1>3, <1>6 DEF k, u

\* The cells of a row of nrowgrid end at the right edge, whatever the number of
\* its cells.
LEMMA CellEndsRun ==
  ASSUME NEW m \in Screen, NEW cols \in Nat \ {0}
  PROVE  /\ \A k \in 0..cols : CellEnds(m, cols)[k] \in Int
         /\ CellEnds(m, cols)[0] = 0
         /\ CellEnds(m, cols)[cols] = Wide(m) + m.ih
<1> DEFINE V == Wide(m)
           g == m.ih
           E(f) == [k \in 0..cols |-> IF k = 0 THEN 0 ELSE f[k - 1] + (V - f[k - 1]) \div (cols - k + 1) + g]
           u == CHOOSE f : f = E(f)
<1>1. V \in Int /\ g \in Int
  BY Edges
<1>2. CellEnds(m, cols) = u
  BY DEF CellEnds
<1> HIDE DEF V, g
<1>3. PICK f \in [0..cols -> Int] :
         f[0] = 0 /\ \A i \in 1..cols : f[i] = f[i - 1] + (V - f[i - 1]) \div (cols - i + 1) + g
  BY <1>1, Dealt
<1>4. f = E(f)
  BY <1>3
<1>5. u = E(u)
  <2> HIDE DEF E
  <2> QED
    BY <1>4
<1> HIDE DEF u
<1>6. u[0] = 0 /\ \A k \in 1..cols : u[k] = u[k - 1] + (V - u[k - 1]) \div (cols - k + 1) + g
  BY <1>5
<1>7. ASSUME NEW k \in 1..cols, u[k - 1] \in Int PROVE u[k] \in Int /\ (k = cols => u[k] = V + g)
  <2> DEFINE a == V - u[k - 1]
             b == cols - k + 1
             d == a \div b
  <2>1. a \in Int /\ b \in Nat \ {0} /\ u[k] = u[k - 1] + d + g
    BY <1>1, <1>6, <1>7
  <2>2. d \in Int
    <3> HIDE DEF a, b
    <3> QED
      BY <2>1, DivMod
  <2>3. k = cols => d = a
    <3>1. k = cols => b = 1
      OBVIOUS
    <3>2. a \div 1 = a
      <4> HIDE DEF a
      <4> QED
        BY <2>1
    <3> HIDE DEF a, b
    <3> QED
      BY <3>1, <3>2
  <2> HIDE DEF d
  <2> QED
    BY <1>1, <1>7, <2>1, <2>2, <2>3
<1> DEFINE S == {k \in 0..cols : u[k] \in Int}
<1>8. \A k \in 0..cols : k \in S
  <2>1. 0 \in S
    BY <1>6
  <2>2. ASSUME NEW k \in 0..cols, k # cols, k \in S PROVE k + 1 \in S
    <3>1. k + 1 \in 1..cols /\ (k + 1) - 1 = k /\ k + 1 \in 0..cols /\ u[k] \in Int
      BY <2>2
    <3>2. u[k + 1] \in Int
      BY <1>7, <3>1
    <3> QED
      BY <3>1, <3>2
  <2>3. 0 \in Nat /\ cols \in Nat
    OBVIOUS
  <2> HIDE DEF S
  <2> QED
    BY <2>1, <2>2, <2>3, Upwards
<1>9. u[cols] = V + g
  <2>1. cols \in 1..cols /\ cols - 1 \in 0..cols
    OBVIOUS
  <2>2. u[cols - 1] \in Int
    BY <1>8, <2>1
  <2> QED
    BY <1>7, <2>1, <2>2
<1> QED
  BY <1>2, <1>6, <1>8, <1>9 DEF V, g

\* Where the i-th window of a row of cols windows is, in its row.
RowCols(m, r) == RowEnds(m)[r] - RowEnds(m)[r - 1]

NumberIn(m, j) == j - RowEnds(m)[RowOf(m, j) - 1]

\* A window of nrowgrid is in the cell that its row and its number in the row
\* give.
LEMMA nrowgridCells ==
  ASSUME NEW m \in Screen, m.cf # << >>
  PROVE  /\ nrowgrid(m) \in Seq(Rectangle(m)) /\ Len(nrowgrid(m)) = Tiled(m)
         /\ RowHeight(m) \in Int
         /\ \A j \in 1..Tiled(m) :
               /\ RowCols(m, RowOf(m, j)) \in Nat \ {0}
               /\ NumberIn(m, j) \in 1..RowCols(m, RowOf(m, j))
               /\ Ample(m, nrowgrid(m)[j]) =>
                     /\ nrowgrid(m)[j].x = LeftEnd(m) + CellEnds(m, RowCols(m, RowOf(m, j)))[NumberIn(m, j) - 1]
                     /\ nrowgrid(m)[j].y = TopEnd(m) + (RowOf(m, j) - 1) * (RowHeight(m) + m.iv)
                     /\ nrowgrid(m)[j].w = CellEnds(m, RowCols(m, RowOf(m, j)))[NumberIn(m, j)]
                                             - CellEnds(m, RowCols(m, RowOf(m, j)))[NumberIn(m, j) - 1] - m.ih
                     /\ nrowgrid(m)[j].h = RowHeight(m)
                     /\ nrowgrid(m)[j].w > 0 /\ nrowgrid(m)[j].h > 0
<1> DEFINE n == Tiled(m)
           R == nrowgrid(m)
           ends == RowEnds(m)
           ch == RowHeight(m)
<1>1. n \in Nat \ {0}
  BY DEF Screen, Tiled, Factors
<1>2. R = [j \in 1..n |->
             LET r == RowOf(m, j)
                 cols == ends[r] - ends[r - 1]
                 k == j - ends[r - 1]
                 u == CellEnds(m, cols)
             IN  Resize(m, m.wx + m.oh + u[k - 1], m.wy + m.ov + (r - 1) * (ch + m.iv),
                        u[k] - u[k - 1] - m.ih, ch)]
  BY DEF nrowgrid, RowOf, RowEnds, CellEnds, RowCount, RowHeight
<1>3. /\ RowCount(m) \in 1..n
      /\ \A r \in 0..RowCount(m) : ends[r] \in 0..n
  BY RowEndsRun
<1>4. /\ LeftEnd(m) \in Int /\ TopEnd(m) \in Int /\ High(m) \in Int /\ Wide(m) \in Int /\ m.ih \in Nat /\ m.iv \in Nat
      /\ LeftEnd(m) = m.wx + m.oh /\ TopEnd(m) = m.wy + m.ov
  BY Edges DEF LeftEnd, TopEnd
<1>5. ch \in Int
  <2> DEFINE c == RowCount(m)
             d == Down(m, c)
  <2>1. c \in Nat \ {0}
    BY <1>1, <1>3
  <2> HIDE DEF c
  <2>2. m.iv * (c - 1) \in Int
    BY <1>4, <2>1
  <2>3. d \in Int
    BY <1>4, <2>2 DEF Down
  <2> HIDE DEF d
  <2>4. d \div c \in Int
    BY <2>1, <2>3, DivMod
  <2>5. ch = d \div c
    BY DEF RowHeight, c, d
  <2> QED
    BY <2>4, <2>5
<1> HIDE DEF n, R, ends, ch
<1>6. ASSUME NEW j \in 1..n
      PROVE  /\ RowCols(m, RowOf(m, j)) \in Nat \ {0}
             /\ NumberIn(m, j) \in 1..RowCols(m, RowOf(m, j))
             /\ R[j] \in Rectangle(m)
             /\ Ample(m, R[j]) =>
                   /\ R[j].x = LeftEnd(m) + CellEnds(m, RowCols(m, RowOf(m, j)))[NumberIn(m, j) - 1]
                   /\ R[j].y = TopEnd(m) + (RowOf(m, j) - 1) * (ch + m.iv)
                   /\ R[j].w = CellEnds(m, RowCols(m, RowOf(m, j)))[NumberIn(m, j)]
                                 - CellEnds(m, RowCols(m, RowOf(m, j)))[NumberIn(m, j) - 1] - m.ih
                   /\ R[j].h = ch /\ R[j].w > 0 /\ R[j].h > 0
  <2> DEFINE r == RowOf(m, j)
             cols == ends[r] - ends[r - 1]
             k == j - ends[r - 1]
             u == CellEnds(m, cols)
             w == u[k] - u[k - 1] - m.ih
             y == (r - 1) * (ch + m.iv)
  <2>1. cols = RowCols(m, r) /\ k = NumberIn(m, j)
    BY DEF RowCols, NumberIn, ends
  <2>2. R[j] = Resize(m, LeftEnd(m) + u[k - 1], TopEnd(m) + y, w, ch)
    BY <1>2, <1>4
  <2>3. r \in 1..RowCount(m) /\ ends[r - 1] < j /\ j <= ends[r]
    BY RowsOf DEF ends, n
  <2>4. ends[r] \in 0..n /\ ends[r - 1] \in 0..n
    <3>1. r \in 0..RowCount(m) /\ r - 1 \in 0..RowCount(m)
      BY <1>3, <2>3
    <3> QED
      BY <1>3, <3>1
  <2>5. cols \in Nat \ {0} /\ k \in 1..cols
    BY <2>3, <2>4
  <2> HIDE DEF r, cols, k
  <2>6. u[k] \in Int /\ u[k - 1] \in Int
    <3>1. k \in 0..cols /\ k - 1 \in 0..cols
      BY <2>5
    <3> QED
      BY <2>5, <3>1, CellEndsRun
  <2> HIDE DEF u
  <2>7. w \in Int /\ y \in Int
    <3>1. r - 1 \in Int /\ ch + m.iv \in Int
      BY <1>3, <1>4, <1>5, <2>3
    <3>2. y \in Int
      BY <3>1
    <3>3. w \in Int
      BY <1>4, <2>6
    <3> QED
      BY <3>2, <3>3
  <2>9. LeftEnd(m) + u[k - 1] \in Int /\ TopEnd(m) + y \in Int
    BY <1>4, <2>6, <2>7
  <2> HIDE DEF w, y
  <2>10. R[j] \in Rectangle(m) /\ R[j].x = LeftEnd(m) + u[k - 1] /\ R[j].y = TopEnd(m) + y
         /\ R[j].w = Sized(m, w) /\ R[j].h = Sized(m, ch)
    <3> DEFINE px == LeftEnd(m) + u[k - 1]
               py == TopEnd(m) + y
    <3>1. px \in Int /\ py \in Int /\ R[j] = Resize(m, px, py, w, ch)
      BY <2>2, <2>9
    <3> HIDE DEF px, py
    <3>2. R[j] \in Rectangle(m) /\ R[j].x = px /\ R[j].y = py /\ R[j].w = Sized(m, w) /\ R[j].h = Sized(m, ch)
      BY <1>5, <2>7, <3>1, ResizeRect
    <3> QED
      BY <3>2 DEF px, py
  <2>11. ASSUME Ample(m, R[j]) PROVE R[j].w = w /\ R[j].h = ch /\ w > Size0(m) /\ ch > Size0(m)
    BY <1>5, <2>7, <2>10, <2>11, AmpleExact
  <2>12. Size0(m) \in Nat
    BY SizedBounds
  <2>13. ASSUME Ample(m, R[j]) PROVE w > 0 /\ ch > 0
    BY <1>5, <2>7, <2>11, <2>12, <2>13
  <2> QED
    BY <2>1, <2>5, <2>10, <2>11, <2>13 DEF r, u, w, y
<1>7. R \in Seq(Rectangle(m)) /\ Len(R) = n
  <2>1. R \in [1..n -> Rectangle(m)]
    BY <1>2, <1>6
  <2> QED
    BY <1>1, <2>1, SeqMade
<1> QED
  BY <1>5, <1>6, <1>7 DEF n, R, ch

\* The rows of nrowgrid share the height.
LEMMA RowsBelow ==
  ASSUME NEW m \in Screen, m.cf # << >>, RowHeight(m) > 0, NEW r \in 1..RowCount(m)
  PROVE  /\ (r - 1) * (RowHeight(m) + m.iv) \in Int /\ 0 <= (r - 1) * (RowHeight(m) + m.iv)
         /\ (r - 1) * (RowHeight(m) + m.iv) + RowHeight(m) <= High(m)
         /\ \A s \in 1..RowCount(m) : r < s =>
               (r - 1) * (RowHeight(m) + m.iv) + RowHeight(m) + m.iv <= (s - 1) * (RowHeight(m) + m.iv)
<1> DEFINE c == RowCount(m)
           d == Down(m, c)
           h == RowHeight(m)
           g == m.iv
           H == High(m)
           p == h + g
<1>1. g \in Nat /\ H \in Int /\ c \in Nat \ {0} /\ r \in 1..c
  <2>1. c \in 1..Tiled(m)
    BY RowEndsRun
  <2> QED
    BY <2>1, Edges
<1>2. d = H - g * (c - 1) /\ h = d \div c
  BY DEF Down, RowHeight
<1> HIDE DEF c, d, h, g, H
<1>3. d \in Int
  <2>1. g * (c - 1) \in Int
    BY <1>1
  <2> QED
    BY <1>1, <1>2, <2>1
<1>4. h \in Int /\ c * h \in Int /\ c * h <= d
  <2>1. d \div c \in Int /\ d % c \in 0..(c - 1) /\ d = (c * (d \div c)) + (d % c)
    BY <1>1, <1>3, DivMod
  <2> DEFINE q == d % c
  <2>2. h \in Int /\ q \in 0..(c - 1) /\ d = c * h + q
    BY <1>2, <2>1
  <2> HIDE DEF q
  <2>3. c * h \in Int
    BY <1>1, <2>2
  <2> QED
    BY <1>1, <2>2, <2>3
<1>5. h > 0
  BY DEF h
<1>6. p \in Nat /\ p = h + g
  BY <1>1, <1>4, <1>5
<1> HIDE DEF p
<1>7. ASSUME NEW s \in 1..(c + 1), r < s PROVE (r - 1) * p + h + g <= (s - 1) * p
  <2>1. s - r - 1 \in Nat
    BY <1>1, <1>7
  <2>2. (s - r - 1) * p >= 0
    BY <1>6, <2>1
  <2>3. (s - r - 1) * p = (s - 1) * p - (r - 1) * p - p /\ (s - 1) * p \in Int /\ (r - 1) * p \in Int
    BY <1>1, <1>6
  <2> QED
    BY <1>1, <1>4, <1>6, <2>2, <2>3
<1>8. (r - 1) * p \in Int /\ 0 <= (r - 1) * p
  <2>1. r - 1 \in Nat
    BY <1>1
  <2> QED
    BY <1>6, <2>1
<1>9. (r - 1) * p + h <= H
  <2>1. c + 1 \in 1..(c + 1) /\ r < c + 1 /\ (c + 1) - 1 = c
    BY <1>1
  <2>2. (r - 1) * p + h + g <= c * p
    BY <1>7, <2>1
  <2>3. c * p = c * h + c * g /\ c * g \in Int
    BY <1>1, <1>4, <1>6
  <2>4. g * (c - 1) = c * g - g
    BY <1>1
  <2> QED
    BY <1>1, <1>2, <1>4, <1>8, <2>2, <2>3, <2>4
<1>10. ASSUME NEW s \in 1..c, r < s PROVE (r - 1) * p + h + g <= (s - 1) * p
  <2>1. s \in 1..(c + 1)
    BY <1>1
  <2> QED
    BY <1>7, <1>10, <2>1
<1> QED
  BY <1>6, <1>8, <1>9, <1>10 DEF h, g, H, c

\* The ends of a row's windows follow each other.
LEMMA EndsFollow ==
  ASSUME NEW m \in Screen, NEW cols \in Nat \ {0},
         \A k \in 1..cols : CellEnds(m, cols)[k] - CellEnds(m, cols)[k - 1] - m.ih > 0
  PROVE  \A a, b \in 0..cols : a <= b => CellEnds(m, cols)[a] <= CellEnds(m, cols)[b]
<1> DEFINE u == CellEnds(m, cols)
<1>1. (\A k \in 0..cols : u[k] \in Int) /\ m.ih \in Nat
  BY CellEndsRun, Edges
<1>2. \A k \in 1..cols : u[k] - u[k - 1] - m.ih > 0
  OBVIOUS
<1> HIDE DEF u
<1>3. ASSUME NEW a \in 0..cols PROVE \A b \in a..cols : u[a] <= u[b]
  <2> DEFINE S == {b \in a..cols : u[a] <= u[b]}
  <2>1. a \in S
    BY <1>1
  <2>2. ASSUME NEW b \in a..cols, b # cols, b \in S PROVE b + 1 \in S
    <3>1. b + 1 \in 1..cols /\ (b + 1) - 1 = b /\ b + 1 \in a..cols /\ b \in 0..cols /\ b + 1 \in 0..cols
      BY <2>2
    <3>2. u[b + 1] - u[b] - m.ih > 0 /\ u[b] \in Int /\ u[b + 1] \in Int /\ u[a] \in Int
      BY <1>1, <1>2, <3>1
    <3> QED
      BY <1>1, <2>2, <3>1, <3>2
  <2>3. a \in Nat /\ cols \in Nat
    OBVIOUS
  <2> HIDE DEF S
  <2>4. \A b \in a..cols : b \in S
    BY <2>1, <2>2, <2>3, Upwards
  <2> QED
    BY <2>4 DEF S
<1>4. \A a, b \in 0..cols : a <= b => b \in a..cols
  OBVIOUS
<1> QED
  BY <1>3, <1>4 DEF u

\* nrowgrid places its windows as they must be.
LEMMA nrowgridPlaces ==
  ASSUME NEW m \in Screen, m.cf # << >>
  PROVE  GridPlaces(m, nrowgrid(m))
<1> DEFINE n == Tiled(m)
           R == nrowgrid(m)
           ends == RowEnds(m)
           c == RowCount(m)
           ch == RowHeight(m)
           row(j) == RowOf(m, j)
           num(j) == NumberIn(m, j)
           cols(r) == RowCols(m, r)
           U(r) == CellEnds(m, cols(r))
           py(r) == (r - 1) * (ch + m.iv)
<1>1. n \in Nat \ {0}
  BY DEF Screen, Tiled, Factors
<1>2. /\ LeftEnd(m) \in Int /\ RightEnd(m) \in Int /\ TopEnd(m) \in Int /\ BottomEnd(m) \in Int
      /\ LeftEnd(m) + Wide(m) = RightEnd(m) /\ Wide(m) \in Int /\ High(m) \in Int
      /\ TopEnd(m) + High(m) = BottomEnd(m) /\ m.ih \in Nat /\ m.iv \in Nat
  BY Edges
<1>3. R \in Seq(Rectangle(m)) /\ Len(R) = n /\ ch \in Int
  BY nrowgridCells
<1>4. ASSUME NEW j \in 1..n
      PROVE  /\ cols(row(j)) \in Nat \ {0} /\ num(j) \in 1..cols(row(j))
             /\ Ample(m, R[j]) =>
                     /\ R[j].x = LeftEnd(m) + U(row(j))[num(j) - 1]
                     /\ R[j].y = TopEnd(m) + py(row(j))
                     /\ R[j].w = U(row(j))[num(j)] - U(row(j))[num(j) - 1] - m.ih
                     /\ R[j].h = ch
                     /\ R[j].w > 0 /\ R[j].h > 0
  BY nrowgridCells
<1>5. ASSUME NEW j \in 1..n
      PROVE  /\ row(j) \in 1..c /\ ends[row(j) - 1] < j /\ j <= ends[row(j)]
             /\ \A r \in 1..c : ends[r - 1] < j /\ j <= ends[r] => r = row(j)
  BY RowsOf
<1>6. c \in 1..n /\ \A r \in 0..c : ends[r] \in 0..n
  BY RowEndsRun
<1>7. \A r : cols(r) = ends[r] - ends[r - 1]
  BY DEF RowCols
<1>8. \A j : num(j) = j - ends[row(j) - 1]
  BY DEF NumberIn
<1> SUFFICES ASSUME \A i \in 1..n : Ample(m, R[i])
             PROVE  /\ \A i, j \in 1..n : i < j => Beside(m, R[i], R[j])
                    /\ \A i \in 1..n : Inside(m, R[i], 0, 0)
  <2> HIDE DEF R, n
  <2>1. R \in Seq(Rectangle(m)) /\ Len(R) = n
    BY <1>3
  <2>2. R = nrowgrid(m) /\ n = Tiled(m)
    BY DEF R, n
  <2> QED
    BY <2>1, <2>2 DEF GridPlaces
<1>9. ASSUME NEW j \in 1..n
      PROVE  \A k \in 1..cols(row(j)) : U(row(j))[k] - U(row(j))[k - 1] - m.ih > 0
  <2> SUFFICES ASSUME NEW k \in 1..cols(row(j))
               PROVE  U(row(j))[k] - U(row(j))[k - 1] - m.ih > 0
    OBVIOUS
  <2> DEFINE r == row(j)
             e == ends[r - 1]
             i == e + k
  <2>1. r \in 1..c /\ e \in 0..n /\ ends[r] \in 0..n
    <3>1. r \in 1..c
      BY <1>5
    <3> HIDE DEF r
    <3>2. r \in 0..c /\ r - 1 \in 0..c
      BY <1>6, <3>1
    <3> QED
      BY <1>6, <3>1, <3>2
  <2>2. cols(r) = ends[r] - e
    BY <1>7
  <2>3. k \in 1..cols(r)
    OBVIOUS
  <2> HIDE DEF r, cols, ends, e, row, num, U, n, R, c, ch, py
  <2>4. i \in 1..n /\ e < i /\ i <= ends[r] /\ i - e = k
    BY <1>1, <2>1, <2>2, <2>3
  <2>5. row(i) = r
    BY <1>5, <2>1, <2>4 DEF e
  <2>6. num(i) = k
    BY <1>8, <2>4, <2>5 DEF e
  <2>7. R[i].w = U(r)[k] - U(r)[k - 1] - m.ih /\ R[i].w > 0
    <3> HIDE DEF i
    <3> QED
      BY <1>4, <2>4, <2>5, <2>6
  <2> QED
    BY <2>7 DEF r
<1>10. ASSUME NEW j \in 1..n
       PROVE  \A a, b \in 0..cols(row(j)) : a <= b => U(row(j))[a] <= U(row(j))[b]
  BY <1>4, <1>9, EndsFollow
<1>11. ASSUME NEW j \in 1..n
       PROVE  /\ \A k \in 0..cols(row(j)) : U(row(j))[k] \in Int
              /\ U(row(j))[0] = 0 /\ U(row(j))[cols(row(j))] = Wide(m) + m.ih
  BY <1>4, CellEndsRun
<1>12. ASSUME NEW r \in 1..c
       PROVE  /\ py(r) \in Int /\ 0 <= py(r) /\ py(r) + ch <= High(m)
              /\ \A s \in 1..c : r < s => py(r) + ch + m.iv <= py(s)
  <2>1. ch > 0
    <3>1. 1 \in 1..n
      BY <1>1
    <3> HIDE DEF R, n, ch, row, num, cols, U, py
    <3> QED
      BY <1>4, <3>1
  <2> QED
    BY <2>1, RowsBelow
<1> HIDE DEF n, R, ends, c, ch, row, num, cols, U, py
<1>13. ASSUME NEW i \in 1..n, NEW j \in 1..n, i < j PROVE Beside(m, R[i], R[j])
  <2>1. CASE row(i) = row(j)
    <3> DEFINE r == row(j)
               u == U(r)
    <3>1. num(i) = i - ends[r - 1] /\ num(j) = j - ends[r - 1]
      BY <1>8, <2>1
    <3>2. num(i) \in 1..cols(r) /\ num(j) \in 1..cols(r) /\ cols(r) \in Nat
      BY <1>4, <2>1
    <3>3. num(i) <= num(j) - 1 /\ num(i) \in 0..cols(r) /\ num(j) - 1 \in 0..cols(r) /\ num(i) - 1 \in 0..cols(r)
      <4>1. ends[r - 1] \in Int
        <5>1. r \in 1..c
          BY <1>5
        <5> HIDE DEF r
        <5>2. r - 1 \in 0..c
          BY <1>6, <5>1
        <5> QED
          BY <1>6, <5>2
      <4> HIDE DEF r
      <4> QED
        BY <1>13, <3>1, <3>2, <4>1
    <3>4. u[num(i)] <= u[num(j) - 1]
      BY <1>10, <3>3
    <3>5. u[num(i)] \in Int /\ u[num(j) - 1] \in Int /\ u[num(i) - 1] \in Int
      BY <1>11, <3>3
    <3>6. /\ R[i].x = LeftEnd(m) + u[num(i) - 1] /\ R[i].w = u[num(i)] - u[num(i) - 1] - m.ih
          /\ R[j].x = LeftEnd(m) + u[num(j) - 1]
      BY <1>4, <2>1
    <3> HIDE DEF u, r
    <3> DEFINE a == u[num(i) - 1]
               b == u[num(i)]
               d == u[num(j) - 1]
               g == m.ih
               l == LeftEnd(m)
    <3>8. /\ a \in Int /\ b \in Int /\ d \in Int /\ g \in Int /\ l \in Int /\ b <= d
          /\ R[i].x = l + a /\ R[i].w = b - a - g /\ R[j].x = l + d
      BY <1>2, <3>4, <3>5, <3>6
    <3> HIDE DEF a, b, d, g, l
    <3>9. R[i].x + R[i].w + g <= R[j].x
      BY <3>8
    <3>7. R[i].x + R[i].w + m.ih <= R[j].x
      BY <3>9 DEF g
    <3> QED
      BY <3>7 DEF Beside
  <2>2. CASE row(i) # row(j)
    <3>1. row(i) \in 1..c /\ row(j) \in 1..c
      BY <1>5
    <3>2. row(i) < row(j) \/ row(j) < row(i)
      BY <2>2, <3>1
    <3>3. py(row(i)) + ch + m.iv <= py(row(j)) \/ py(row(j)) + ch + m.iv <= py(row(i))
      BY <1>12, <3>1, <3>2
    <3>4. R[i].y = TopEnd(m) + py(row(i)) /\ R[i].h = ch /\ R[j].y = TopEnd(m) + py(row(j)) /\ R[j].h = ch
      BY <1>4
    <3>5. py(row(i)) \in Int /\ py(row(j)) \in Int /\ ch \in Int
      BY <1>3, <1>12, <3>1
    <3> DEFINE a == py(row(i))
               b == py(row(j))
               g == m.iv
               t == TopEnd(m)
    <3>7. /\ a \in Int /\ b \in Int /\ g \in Int /\ t \in Int /\ ch \in Int
          /\ a + ch + g <= b \/ b + ch + g <= a
          /\ R[i].y = t + a /\ R[i].h = ch /\ R[j].y = t + b /\ R[j].h = ch
      BY <1>2, <3>3, <3>4, <3>5
    <3> HIDE DEF a, b, g, t
    <3>8. ASSUME a + ch + g <= b PROVE R[i].y + R[i].h + g <= R[j].y
      BY <3>7, <3>8
    <3>9. ASSUME b + ch + g <= a PROVE R[j].y + R[j].h + g <= R[i].y
      BY <3>7, <3>9
    <3>10. R[i].y + R[i].h + g <= R[j].y \/ R[j].y + R[j].h + g <= R[i].y
      BY <3>7, <3>8, <3>9
    <3>6. R[i].y + R[i].h + m.iv <= R[j].y \/ R[j].y + R[j].h + m.iv <= R[i].y
      BY <3>10 DEF g
    <3> QED
      BY <3>6 DEF Beside
  <2> QED
    BY <2>1, <2>2
<1>14. ASSUME NEW i \in 1..n PROVE Inside(m, R[i], 0, 0)
  <2> DEFINE r == row(i)
             u == U(r)
             k == num(i)
             C == cols(r)
  <2>1. C \in Nat \ {0} /\ k \in 1..C
    BY <1>4
  <2>2. /\ R[i].x = LeftEnd(m) + u[k - 1] /\ R[i].w = u[k] - u[k - 1] - m.ih
        /\ R[i].y = TopEnd(m) + py(r) /\ R[i].h = ch
    BY <1>4
  <2>3. py(r) \in Int /\ 0 <= py(r) /\ py(r) + ch <= High(m)
    <3>1. r \in 1..c
      BY <1>5
    <3> QED
      BY <1>12, <3>1
  <2>4. /\ \A a \in 0..C : u[a] \in Int
        /\ u[0] = 0 /\ u[C] = Wide(m) + m.ih
        /\ \A a, b \in 0..C : a <= b => u[a] <= u[b]
    BY <1>10, <1>11
  <2> HIDE DEF r, u, k, C
  <2>5. 0 \in 0..C /\ k - 1 \in 0..C /\ k \in 0..C /\ C \in 0..C /\ 0 <= k - 1 /\ k <= C
    BY <2>1
  <2>6. 0 <= u[k - 1] /\ u[k] <= Wide(m) + m.ih /\ u[k] \in Int /\ u[k - 1] \in Int
    BY <2>4, <2>5
  <2>7. LeftEnd(m) <= R[i].x /\ R[i].x + R[i].w <= RightEnd(m) + 0
    BY <1>2, <2>2, <2>6
  <2>8. TopEnd(m) <= R[i].y /\ R[i].y + R[i].h <= BottomEnd(m) + 0
    BY <1>2, <1>3, <2>2, <2>3
  <2> QED
    BY <2>7, <2>8 DEF Inside
<1> QED
  BY <1>13, <1>14

\* Monitors that differ in no more than the cfacts of their windows and the
\* mirror.
Alike(a, b) ==
  /\ a.wx = b.wx /\ a.wy = b.wy /\ a.ww = b.ww /\ a.wh = b.wh
  /\ a.bw = b.bw /\ a.bh = b.bh /\ a.minbh = b.minbh
  /\ a.oh = b.oh /\ a.ov = b.ov /\ a.ih = b.ih /\ a.iv = b.iv
  /\ a.nmaster = b.nmaster /\ a.mfact = b.mfact /\ Tiled(a) = Tiled(b)

\* They measure alike.
LEMMA AlikeSizes ==
  ASSUME NEW a, NEW b, Alike(a, b)
  PROVE  /\ Wide(a) = Wide(b) /\ High(a) = High(b)
         /\ \A k : Across(a, k) = Across(b, k) /\ Down(a, k) = Down(b, k)
         /\ Parted(a) <=> Parted(b)
         /\ \A size, gap : StackPart(a, size, gap) = StackPart(b, size, gap)
         /\ \A x, y, w, h : Resize(a, x, y, w, h) = Resize(b, x, y, w, h)
<1>1. Wide(a) = Wide(b) /\ High(a) = High(b)
  BY DEF Alike, Wide, High
<1>2. \A k : Across(a, k) = Across(b, k) /\ Down(a, k) = Down(b, k)
  BY <1>1 DEF Alike, Across, Down
<1>3. Parted(a) <=> Parted(b)
  BY DEF Alike, Parted
<1>4. \A size, gap : StackPart(a, size, gap) = StackPart(b, size, gap)
  BY DEF Alike, StackPart
<1>5. \A x, y, w, h : Resize(a, x, y, w, h) = Resize(b, x, y, w, h)
  BY DEF Alike, Resize
<1> QED
  BY <1>1, <1>2, <1>3, <1>4, <1>5

\* Monitors with the same area and gaps have the same rows and columns.
LEMMA AlikeLines ==
  ASSUME NEW a, NEW b, Alike(a, b), NEW x, NEW y, NEW lens, NEW s
  PROVE  Row(a, x, y, lens, s) = Row(b, x, y, lens, s) /\ Column(a, x, y, s, lens) = Column(b, x, y, s, lens)
<1>1. \A gap, j : Offset(lens, gap, a, j) = Offset(lens, gap, b, j)
  BY DEF Alike, Offset
<1>2. a.ih = b.ih /\ a.iv = b.iv
  BY DEF Alike
<1>3. \A p, q, w, h : Resize(a, p, q, w, h) = Resize(b, p, q, w, h)
  BY AlikeSizes
<1> QED
  BY <1>1, <1>2, <1>3 DEF Row, Column

\* What does not look at them is the same on both.
LEMMA AlikeCells ==
  ASSUME NEW a, NEW b, Alike(a, b), NEW col, NEW cols, NEW row, NEW rows
  PROVE  Cell(a, col, cols, row, rows) = Cell(b, col, cols, row, rows)
<1>1. \A x, y, w, h : Resize(a, x, y, w, h) = Resize(b, x, y, w, h)
  BY AlikeSizes
<1>2. Across(a, cols) = Across(b, cols) /\ Down(a, rows) = Down(b, rows)
  BY AlikeSizes
<1>3. a.ih = b.ih /\ a.iv = b.iv /\ a.wx = b.wx /\ a.wy = b.wy /\ a.oh = b.oh /\ a.ov = b.ov
  BY DEF Alike
<1> QED
  BY <1>1, <1>2, <1>3 DEF Cell

\* The layouts without masters are the same on monitors that differ in mfact,
\* nmaster and mirror only.
LEMMA AlikeGrids ==
  ASSUME NEW a, NEW b, Alike(a, b)
  PROVE  /\ grid(a) = grid(b) /\ gaplessgrid(a) = gaplessgrid(b) /\ nrowgrid(a) = nrowgrid(b)
         /\ monocle(a) = monocle(b)
<1>1. \A col, cols, row, rows : Cell(a, col, cols, row, rows) = Cell(b, col, cols, row, rows)
  BY AlikeCells
<1>2. /\ a.wx = b.wx /\ a.wy = b.wy /\ a.oh = b.oh /\ a.ov = b.ov /\ a.nmaster = b.nmaster
      /\ a.ih = b.ih /\ a.iv = b.iv /\ Tiled(a) = Tiled(b) /\ a.ww = b.ww /\ a.wh = b.wh
  BY DEF Alike
<1>3. \A x, y, w, h : Resize(a, x, y, w, h) = Resize(b, x, y, w, h)
  BY AlikeSizes
<1>4. grid(a) = grid(b)
  BY <1>1, <1>2 DEF grid
<1>5. gaplessgrid(a) = gaplessgrid(b)
  BY <1>1, <1>2 DEF gaplessgrid
<1>6. monocle(a) = monocle(b)
  BY <1>2, <1>3 DEF monocle
<1>7. Wide(a) = Wide(b) /\ \A k : Down(a, k) = Down(b, k)
  BY AlikeSizes
<1>8. nrowgrid(a) = nrowgrid(b)
  <2> DEFINE R(m) == [j \in 1..Tiled(m) |->
             LET r == RowOf(m, j)
                 cols == RowEnds(m)[r] - RowEnds(m)[r - 1]
                 k == j - RowEnds(m)[r - 1]
                 u == CellEnds(m, cols)
             IN  Resize(m, m.wx + m.oh + u[k - 1], m.wy + m.ov + (r - 1) * (RowHeight(m) + m.iv),
                        u[k] - u[k - 1] - m.ih, RowHeight(m))]
  <2>1. nrowgrid(a) = R(a) /\ nrowgrid(b) = R(b)
    BY DEF nrowgrid, RowOf, RowEnds, CellEnds, RowCount, RowHeight
  <2>2. RowCount(a) = RowCount(b) /\ RowHeight(a) = RowHeight(b)
    BY <1>2, <1>7 DEF RowCount, RowHeight
  <2>3. RowEnds(a) = RowEnds(b)
    BY <1>2, <2>2 DEF RowEnds
  <2>4. \A cols : CellEnds(a, cols) = CellEnds(b, cols)
    BY <1>2, <1>7 DEF CellEnds
  <2>5. \A j : RowOf(a, j) = RowOf(b, j)
    BY <2>2, <2>3 DEF RowOf
  <2>6. R(a) = R(b)
    BY <1>2, <1>3, <2>2, <2>3, <2>4, <2>5
  <2> HIDE DEF R
  <2> QED
    BY <2>1, <2>6
<1> QED
  BY <1>4, <1>5, <1>6, <1>8

FibFirst(m) == [nx |-> m.wx + m.oh, ny |-> m.wy + m.ov, nw |-> Wide(m), nh |-> High(m),
                hrest |-> 0, wrest |-> 0, r |-> TRUE, i |-> 0]

FibRun(m, s) ==
  LET f[j \in 0..Tiled(m)] == IF j = 0 THEN FibFirst(m) ELSE FibStep(m, s, Tiled(m), f[j - 1])
  IN  f

FibRects(m, f) == [j \in 1..Tiled(m) |-> Resize(m, FibX(m, f[j]), f[j].ny, f[j].nw, f[j].nh)]

\* dwindle and spiral are the rectangles that fibonacci's rounds leave.
LEMMA FibParts ==
  ASSUME NEW m
  PROVE  /\ dwindle(m) = FibRects(m, FibRun(m, TRUE))
         /\ spiral(m) = FibRects(m, FibRun(m, FALSE))
BY DEF dwindle, spiral, fibonacci, FibRects, FibRun, FibFirst, FibX

\* The run does not look at the cfacts and the mirror.
LEMMA AlikeRuns ==
  ASSUME NEW a, NEW b, Alike(a, b)
  PROVE  FibRun(a, TRUE) = FibRun(b, TRUE) /\ FibRun(a, FALSE) = FibRun(b, FALSE)
<1>1. /\ a.wx = b.wx /\ a.wy = b.wy /\ a.oh = b.oh /\ a.ov = b.ov /\ a.mfact = b.mfact
      /\ a.bw = b.bw /\ a.bh = b.bh
      /\ a.ih = b.ih /\ a.iv = b.iv /\ Tiled(a) = Tiled(b) /\ Wide(a) = Wide(b) /\ High(a) = High(b)
  BY AlikeSizes DEF Alike
<1>2. \A n, f : FibHalve(a, n, f) = FibHalve(b, n, f)
  BY <1>1 DEF FibHalve
<1>3. \A s, n, f : FibMove(a, s, n, f) = FibMove(b, s, n, f)
  BY <1>1 DEF FibMove
<1>4. \A s, n, f : FibStep(a, s, n, f) = FibStep(b, s, n, f)
  <2> SUFFICES ASSUME NEW s, NEW n, NEW f PROVE FibStep(a, s, n, f) = FibStep(b, s, n, f)
    OBVIOUS
  <2>1. FibMove(a, s, n, FibHalve(a, n, f)) = FibMove(b, s, n, FibHalve(b, n, f))
    BY <1>2, <1>3
  <2> DEFINE Then(g, part, wide, top) ==
               IF ~f.r THEN f
               ELSE CASE f.i = 0 /\ n # 1 -> [g EXCEPT !.nw = part, !.wrest = 0, !.ny = top, !.i = 1]
                      [] f.i = 0 /\ n = 1 -> [g EXCEPT !.ny = top, !.i = 1]
                      [] f.i = 1          -> [g EXCEPT !.nw = wide - @, !.i = 2]
                      [] OTHER            -> [g EXCEPT !.i = @ + 1]
  <2>2. ASSUME NEW m
        PROVE  FibStep(m, s, n, f) = Then(FibMove(m, s, n, FibHalve(m, n, f)),
                                          ((Wide(m) - m.ih) * m.mfact) \div 100, Wide(m) - m.ih, m.wy + m.ov)
    BY DEF FibStep
  <2> HIDE DEF Then
  <2> QED
    BY <1>1, <2>1, <2>2
<1>5. FibFirst(a) = FibFirst(b)
  BY <1>1 DEF FibFirst
<1>6. ASSUME NEW s PROVE FibRun(a, s) = FibRun(b, s)
  <2> DEFINE E(m, f) == [j \in 0..Tiled(m) |-> IF j = 0 THEN FibFirst(m) ELSE FibStep(m, s, Tiled(m), f[j - 1])]
  <2>1. \A f : E(a, f) = E(b, f)
    BY <1>1, <1>4, <1>5
  <2>2. ASSUME NEW m PROVE FibRun(m, s) = CHOOSE f : f = E(m, f)
    BY DEF FibRun
  <2> HIDE DEF E
  <2>3. (CHOOSE f : f = E(a, f)) = CHOOSE f : f = E(b, f)
    BY <2>1
  <2> QED
    BY <2>2, <2>3
<1>7. FibRun(a, TRUE) = FibRun(b, TRUE) /\ FibRun(a, FALSE) = FibRun(b, FALSE)
  BY <1>6, Zenon
<1> QED
  BY <1>7

\* Halving what is left keeps the state of fibonacci typed.
LEMMA FibHalved ==
  ASSUME NEW m \in Screen, NEW n \in Nat, NEW f \in FibState
  PROVE  FibHalve(m, n, f) \in FibState
<1> DEFINE v == IF f.i % 2 = 1 THEN (f.nh - m.iv) \div 2 ELSE (f.nw - m.ih) \div 2
           r == v > m.bh + 2 * m.bw
<1>1. m.iv \in Int /\ m.ih \in Int /\ f.nh \in Int /\ f.nw \in Int
  BY DEF Screen, FibState
<1>2. v \in Int
  <2>1. (f.nh - m.iv) \div 2 \in Int /\ (f.nw - m.ih) \div 2 \in Int
    <3>1. f.nh - m.iv \in Int /\ f.nw - m.ih \in Int
      BY <1>1
    <3> QED
      BY <3>1, DivMod
  <2> QED
    BY <2>1
<1>3. r \in BOOLEAN
  OBVIOUS
<1>4. FibHalve(m, n, f) =
        CASE ~(r /\ f.i < n - 1)                  -> [f EXCEPT !.r = r]
          [] (r /\ f.i < n - 1) /\ f.i % 2 = 1    -> [f EXCEPT !.hrest = f.nh - 2 * v - m.iv, !.nh = v]
          [] (r /\ f.i < n - 1) /\ ~(f.i % 2 = 1) -> [f EXCEPT !.wrest = f.nw - 2 * v - m.ih, !.nw = v]
  BY DEF FibHalve
<1> HIDE DEF v, r
<1>5. [f EXCEPT !.r = r] \in FibState
  BY <1>3 DEF FibState
<1>6. [f EXCEPT !.hrest = f.nh - 2 * v - m.iv, !.nh = v] \in FibState
  <2> DEFINE u == f.nh - 2 * v - m.iv
  <2>1. u \in Int
    BY <1>1, <1>2
  <2> HIDE DEF u
  <2>2. [f EXCEPT !.hrest = u, !.nh = v] \in FibState
    BY <1>2, <2>1 DEF FibState
  <2> QED
    BY <2>2 DEF u
<1>7. [f EXCEPT !.wrest = f.nw - 2 * v - m.ih, !.nw = v] \in FibState
  <2> DEFINE u == f.nw - 2 * v - m.ih
  <2>1. u \in Int
    BY <1>1, <1>2
  <2> HIDE DEF u
  <2>2. [f EXCEPT !.wrest = u, !.nw = v] \in FibState
    BY <1>2, <2>1 DEF FibState
  <2> QED
    BY <2>2 DEF u
<1> QED
  BY <1>4, <1>5, <1>6, <1>7

\* Each step keeps integers.
LEMMA FibMoved ==
  ASSUME NEW m \in Screen, NEW s, NEW n \in Nat, NEW f0 \in FibState
  PROVE  FibMove(m, s, n, f0) \in FibState
<1> DEFINE turn == f0.i % 4
           moves == f0.r /\ f0.i < n - 1 /\ ~s
           px == IF moves /\ turn = 2 THEN f0.nx + f0.nw + m.ih ELSE f0.nx
           py == IF moves /\ turn = 3 THEN f0.ny + f0.nh + m.iv ELSE f0.ny
           f == [f0 EXCEPT !.nx = px, !.ny = py]
<1>1. m.ih \in Int /\ m.iv \in Int
  BY DEF Screen
<1>2. px \in Int /\ py \in Int
  BY <1>1, FibFields
<1>3. f \in FibState
  <2> HIDE DEF px, py
  <2> QED
    BY <1>2 DEF FibState
<1>4. turn \in 0..3
  <2>1. f0.i \in Int
    BY FibFields
  <2> QED
    BY <2>1
<1>5. FibMove(m, s, n, f0) =
        CASE turn = 0 /\ s  -> [f EXCEPT !.ny = @ + f.nh + m.iv, !.nh = @ + f.hrest]
          [] turn = 0 /\ ~s -> [f EXCEPT !.nh = @ - f.hrest, !.ny = @ - (f.nh - f.hrest + m.iv)]
          [] turn = 1       -> [f EXCEPT !.nx = @ + f.nw + m.ih, !.nw = @ + f.wrest]
          [] turn = 2       -> [f EXCEPT !.ny = @ + f.nh + m.iv, !.nh = @ + f.hrest,
                                         !.nw = IF f.i < n - 1 THEN @ + f.wrest ELSE @]
          [] turn = 3 /\ s  -> [f EXCEPT !.nx = @ + f.nw + m.ih, !.nw = @ - f.wrest]
          [] turn = 3 /\ ~s -> [f EXCEPT !.nw = @ - f.wrest, !.nh = @ + f.hrest,
                                         !.nx = @ - (f.nw - f.wrest + m.ih)]
  BY DEF FibMove
<1> HIDE DEF turn, moves, px, py, f
<1>6. /\ f.nx \in Int /\ f.ny \in Int /\ f.nw \in Int /\ f.nh \in Int
      /\ f.hrest \in Int /\ f.wrest \in Int /\ f.i \in Nat
  BY <1>3, FibFields
<1>7. \A p, q \in Int : [f EXCEPT !.ny = p, !.nh = q] \in FibState
  BY <1>3 DEF FibState
<1>7a. \A p, q \in Int : [f EXCEPT !.nh = p, !.ny = q] \in FibState
  BY <1>3 DEF FibState
<1>7b. \A p, q \in Int : [f EXCEPT !.nx = p, !.nw = q] \in FibState
  BY <1>3 DEF FibState
<1>7c. \A p, q, z \in Int : [f EXCEPT !.ny = p, !.nh = q, !.nw = z] \in FibState
  BY <1>3 DEF FibState
<1>7d. \A p, q, z \in Int : [f EXCEPT !.nw = p, !.nh = q, !.nx = z] \in FibState
  BY <1>3 DEF FibState
<1>8. [f EXCEPT !.ny = @ + f.nh + m.iv, !.nh = @ + f.hrest] \in FibState
  <2>1. f.ny + f.nh + m.iv \in Int /\ f.nh + f.hrest \in Int
    BY <1>1, <1>6
  <2> QED
    BY <1>7, <2>1, Zenon
<1>9. [f EXCEPT !.nh = @ - f.hrest, !.ny = @ - (f.nh - f.hrest + m.iv)] \in FibState
  <2>1. f.nh - f.hrest \in Int /\ f.ny - (f.nh - f.hrest + m.iv) \in Int
    BY <1>1, <1>6
  <2> QED
    BY <1>7a, <2>1, Zenon
<1>10. [f EXCEPT !.nx = @ + f.nw + m.ih, !.nw = @ + f.wrest] \in FibState
  <2>1. f.nx + f.nw + m.ih \in Int /\ f.nw + f.wrest \in Int
    BY <1>1, <1>6
  <2> QED
    BY <1>7b, <2>1, Zenon
<1>11. [f EXCEPT !.ny = @ + f.nh + m.iv, !.nh = @ + f.hrest,
                 !.nw = IF f.i < n - 1 THEN @ + f.wrest ELSE @] \in FibState
  <2>1. f.ny + f.nh + m.iv \in Int /\ f.nh + f.hrest \in Int /\ (IF f.i < n - 1 THEN f.nw + f.wrest ELSE f.nw) \in Int
    BY <1>1, <1>6
  <2> QED
    BY <1>7c, <2>1, Zenon
<1>12. [f EXCEPT !.nx = @ + f.nw + m.ih, !.nw = @ - f.wrest] \in FibState
  <2>1. f.nx + f.nw + m.ih \in Int /\ f.nw - f.wrest \in Int
    BY <1>1, <1>6
  <2> QED
    BY <1>7b, <2>1, Zenon
<1>13. [f EXCEPT !.nw = @ - f.wrest, !.nh = @ + f.hrest, !.nx = @ - (f.nw - f.wrest + m.ih)] \in FibState
  <2>1. f.nw - f.wrest \in Int /\ f.nh + f.hrest \in Int /\ f.nx - (f.nw - f.wrest + m.ih) \in Int
    BY <1>1, <1>6
  <2> QED
    BY <1>7d, <2>1, Zenon
<1>14. CASE s
  BY <1>4, <1>5, <1>8, <1>10, <1>11, <1>12, <1>14
<1>15. CASE ~s
  BY <1>4, <1>5, <1>9, <1>10, <1>11, <1>13, <1>15
<1> QED
  BY <1>14, <1>15

\* A round of fibonacci keeps its state typed.
LEMMA FibStepped ==
  ASSUME NEW m \in Screen, NEW s, NEW n \in Nat, NEW f \in FibState
  PROVE  FibStep(m, s, n, f) \in FibState
<1> DEFINE g == FibMove(m, s, n, FibHalve(m, n, f))
           part == ((Wide(m) - m.ih) * m.mfact) \div 100
<1>1. g \in FibState
  BY FibHalved, FibMoved
<1>2. /\ m.wy \in Int /\ m.ov \in Int /\ m.ih \in Int /\ Wide(m) \in Int
  BY Edges DEF Screen
<1>3. part \in Int
  <2>1. m.mfact \in Int
    <3>1. \A x \in 5..95 : x \in Int
      OBVIOUS
    <3>2. m.mfact \in 5..95
      BY DEF Screen
    <3> QED
      BY <3>1, <3>2, Zenon
  <2>2. Wide(m) - m.ih \in Int
    BY <1>2
  <2>3. \A p, q \in Int : p * q \in Int
    OBVIOUS
  <2>4. (Wide(m) - m.ih) * m.mfact \in Int
    BY <2>1, <2>2, <2>3, Zenon
  <2> QED
    BY <2>4, DivMod
<1>4. FibStep(m, s, n, f) =
        IF ~f.r THEN f
        ELSE CASE f.i = 0 /\ n # 1 -> [g EXCEPT !.nw = part, !.wrest = 0, !.ny = m.wy + m.ov, !.i = 1]
               [] f.i = 0 /\ n = 1 -> [g EXCEPT !.ny = m.wy + m.ov, !.i = 1]
               [] f.i = 1          -> [g EXCEPT !.nw = Wide(m) - m.ih - @, !.i = 2]
               [] OTHER            -> [g EXCEPT !.i = @ + 1]
  BY DEF FibStep
<1> HIDE DEF g, part
<1>5. g.nw \in Int /\ g.i \in Nat
  BY <1>1, FibFields
<1>6. \A p, q \in Int : [g EXCEPT !.nw = p, !.wrest = 0, !.ny = q, !.i = 1] \in FibState
  <2> SUFFICES ASSUME NEW p \in Int, NEW q \in Int
               PROVE  [g EXCEPT !.nw = p, !.wrest = 0, !.ny = q, !.i = 1] \in FibState
    OBVIOUS
  <2> DEFINE h == [g EXCEPT !.nw = p, !.wrest = 0]
  <2>1. h \in FibState
    <3>1. \A z \in Int : [g EXCEPT !.nw = p, !.wrest = z] \in FibState
      BY <1>1 DEF FibState
    <3>2. 0 \in Int
      OBVIOUS
    <3> QED
      BY <3>1, <3>2, Zenon
  <2>2. [g EXCEPT !.nw = p, !.wrest = 0, !.ny = q, !.i = 1] = [h EXCEPT !.ny = q, !.i = 1]
    BY <1>1 DEF FibState
  <2> HIDE DEF h
  <2>3. [h EXCEPT !.ny = q, !.i = 1] \in FibState
    BY <2>1 DEF FibState
  <2> QED
    BY <2>2, <2>3
<1>7. \A q \in Int : [g EXCEPT !.ny = q, !.i = 1] \in FibState
  BY <1>1 DEF FibState
<1>8. \A q \in Nat : [g EXCEPT !.i = q] \in FibState
  BY <1>1 DEF FibState
<1>8a. \A q \in Int : [g EXCEPT !.nw = q, !.i = 2] \in FibState
  BY <1>1 DEF FibState
<1>9. [g EXCEPT !.nw = part, !.wrest = 0, !.ny = m.wy + m.ov, !.i = 1] \in FibState
  <2>1. m.wy + m.ov \in Int
    BY <1>2
  <2> QED
    BY <1>3, <1>6, <2>1, Zenon
<1>10. [g EXCEPT !.ny = m.wy + m.ov, !.i = 1] \in FibState
  <2>1. m.wy + m.ov \in Int
    BY <1>2
  <2> QED
    BY <1>7, <2>1, Zenon
<1>11. [g EXCEPT !.nw = Wide(m) - m.ih - @, !.i = 2] \in FibState
  <2>1. Wide(m) - m.ih - g.nw \in Int
    BY <1>2, <1>5
  <2> QED
    BY <1>8a, <2>1, Zenon
<1>12. [g EXCEPT !.i = @ + 1] \in FibState
  BY <1>5, <1>8
<1> QED
  BY <1>4, <1>9, <1>10, <1>11, <1>12

\* The room of dwindle and spiral has whole numbers after every window.
LEMMA FibTyped ==
  ASSUME NEW m \in Screen, NEW s \in BOOLEAN
  PROVE  \A j \in 0..Tiled(m) : FibRun(m, s)[j] \in FibState
<1> DEFINE n == Tiled(m)
           E(f) == [j \in 0..n |-> IF j = 0 THEN FibFirst(m) ELSE FibStep(m, s, n, f[j - 1])]
           u == CHOOSE f : f = E(f)
           G == [k \in 0..n |-> FibState]
           round == [p \in FibState \X (0..n) |-> FibStep(m, s, n, p[1])]
<1>1. n \in Nat
  BY Areas
<1>2. FibFirst(m) \in FibState
  <2>1. /\ m.wx + m.oh \in Int /\ m.wy + m.ov \in Int /\ Wide(m) \in Int /\ High(m) \in Int
    BY Edges DEF LeftEnd, TopEnd
  <2> QED
    BY <2>1 DEF FibFirst, FibState
<1>3. Leads(round, G, FibState, 0, n)
  <2>1. ASSUME NEW k \in 0..n, k # n, NEW x \in FibState
        PROVE  round[<<x, k>>] \in FibState
    <3>1. <<x, k>> \in FibState \X (0..n) /\ <<x, k>>[1] = x
      BY <2>1
    <3>2. round[<<x, k>>] = FibStep(m, s, n, x)
      BY <3>1
    <3> QED
      BY <1>1, <3>2, FibStepped
  <2>2. \A k \in 0..n : G[k] = FibState
    OBVIOUS
  <2>3. \A k \in 0..n : k # n => k + 1 \in 0..n
    BY <1>1
  <2> HIDE DEF G, round
  <2> QED
    BY <2>1, <2>2, <2>3 DEF Leads
<1>4. PICK f \in [0..n -> FibState] :
         f[0] = FibFirst(m) /\ \A i \in 0..n : i # 0 => f[i] = round[<<f[i - 1], i - 1>>]
  <2>1. 0 \in Nat /\ 0 <= n /\ FibFirst(m) \in G[0]
    BY <1>1, <1>2
  <2> HIDE DEF n, G, round
  <2> QED
    BY <1>1, <1>3, <2>1, LoopRuns
<1>5. ASSUME NEW i \in 0..n, i # 0 PROVE f[i] = FibStep(m, s, n, f[i - 1])
  <2>1. i - 1 \in 0..n
    BY <1>1, <1>5
  <2>2. f[i - 1] \in FibState
    BY <1>4, <2>1
  <2>3. <<f[i - 1], i - 1>> \in FibState \X (0..n) /\ <<f[i - 1], i - 1>>[1] = f[i - 1]
    BY <2>1, <2>2
  <2> QED
    BY <1>4, <1>5, <2>3
<1>6. f = E(f)
  BY <1>4, <1>5
<1>7. u = E(u)
  <2> HIDE DEF E
  <2> QED
    BY <1>6
<1>8. FibRun(m, s) = u
  BY DEF FibRun
<1> HIDE DEF u
<1>9. u[0] = FibFirst(m) /\ \A i \in 1..n : u[i] = FibStep(m, s, n, u[i - 1])
  BY <1>1, <1>7
<1> DEFINE S == {k \in 0..n : u[k] \in FibState}
<1>10. \A k \in 0..n : k \in S
  <2>1. 0 \in S
    BY <1>1, <1>2, <1>9
  <2>2. ASSUME NEW k \in 0..n, k # n, k \in S PROVE k + 1 \in S
    <3>1. k + 1 \in 1..n /\ (k + 1) - 1 = k /\ k + 1 \in 0..n
      BY <1>1, <2>2
    <3>2. u[k + 1] = FibStep(m, s, n, u[k])
      BY <1>9, <3>1
    <3> QED
      BY <1>1, <2>2, <3>1, <3>2, FibStepped
  <2> HIDE DEF S, n
  <2> QED
    BY <1>1, <2>1, <2>2, Upwards
<1> QED
  BY <1>8, <1>10

\* Their windows have whole numbers too.
LEMMA FibRectangles ==
  ASSUME NEW m \in Screen, NEW i \in 1..Tiled(m)
  PROVE  dwindle(m)[i] \in Rectangle(m) /\ spiral(m)[i] \in Rectangle(m)
<1>1. ASSUME NEW s \in BOOLEAN PROVE FibRects(m, FibRun(m, s))[i] \in Rectangle(m)
  <2> DEFINE g == FibRun(m, s)[i]
             x == FibX(m, g)
  <2>1. FibRects(m, FibRun(m, s))[i] = Resize(m, x, g.ny, g.nw, g.nh)
    BY DEF FibRects
  <2>2. g \in FibState
    <3>1. i \in 0..Tiled(m)
      BY Areas
    <3> QED
      BY <3>1, FibTyped
  <2> HIDE DEF g
  <2>3. /\ g.nx \in Int /\ g.ny \in Int /\ g.nw \in Int /\ g.nh \in Int
        /\ m.wx \in Int /\ m.ww \in Int /\ m.bw \in Int
    BY <2>2, FibFields DEF Screen
  <2>4. x \in Int
    <3> DEFINE p == g.nx
               w == g.nw
               y == m.wx
               v == m.ww
               c == m.bw
               z == y + v - (p - y) - w - 2 * c
    <3>1. x = IF m.mirror THEN z ELSE p
      BY DEF FibX
    <3>2. p \in Int /\ w \in Int /\ y \in Int /\ v \in Int /\ c \in Int
      BY <2>3
    <3> HIDE DEF p, w, y, v, c, x
    <3>3. z \in Int
      BY <3>2
    <3> QED
      BY <3>1, <3>2, <3>3
  <2> HIDE DEF x
  <2>5. Resize(m, x, g.ny, g.nw, g.nh) \in Rectangle(m)
    <3> DEFINE y == g.ny
               w == g.nw
               h == g.nh
    <3>1. y \in Int /\ w \in Int /\ h \in Int
      BY <2>3
    <3> HIDE DEF y, w, h
    <3>2. Resize(m, x, y, w, h) \in Rectangle(m)
      BY <2>4, <3>1, ResizeRect
    <3> QED
      BY <3>2 DEF y, w, h
  <2> QED
    BY <2>1, <2>5
<1>2. dwindle(m) = FibRects(m, FibRun(m, TRUE)) /\ spiral(m) = FibRects(m, FibRun(m, FALSE))
  BY FibParts
<1>3. FibRects(m, FibRun(m, TRUE))[i] \in Rectangle(m) /\ FibRects(m, FibRun(m, FALSE))[i] \in Rectangle(m)
  <2>1. TRUE \in BOOLEAN /\ FALSE \in BOOLEAN
    OBVIOUS
  <2> QED
    BY <1>1, <2>1, Zenon
<1> QED
  BY <1>2, <1>3

\* The two rows of centredfloatingmaster.
FloatWidth(m) ==
  IF Parted(m) THEN (10 * m.ww * (IF m.ww > m.wh THEN m.mfact ELSE 90) - 800 * m.ih * (Len(Masters(m)) - 1)) \div 1000
  ELSE Across(m, Tiled(m))

FloatHeight(m) ==
  CASE ~Parted(m)                  -> High(m)
    [] Parted(m) /\ m.ww > m.wh    -> (m.wh * 9) \div 10
    [] Parted(m) /\ ~(m.ww > m.wh) -> (m.wh * m.mfact) \div 100

FloatX(m) == IF Parted(m) THEN m.wx + (m.ww - FloatWidth(m)) \div 2 ELSE m.wx + m.oh

FloatY(m) == IF Parted(m) THEN m.wy + (m.wh - FloatHeight(m)) \div 2 ELSE m.wy + m.ov

Tightened(m) == [m EXCEPT !.ih = IF Parted(m) THEN (8 * m.ih) \div 10 ELSE m.ih]

FloatRow(m) == Row(Tightened(m), FloatX(m), FloatY(m), EvenSplit(FloatWidth(m), Masters(m)), FloatHeight(m))

UnderRow(m) == Row(m, m.wx + m.oh, m.wy + m.ov, EvenSplit(Across(m, Tiled(m) - m.nmaster), Stack(m)), High(m))

\* The layout the settings name gets to place the clients.
LEMMA ArrangedBy ==
  ASSUME NEW m \in Screen, m.cf # << >>
  PROVE  /\ Arranged("tile", m) = tile(m) /\ Arranged("deck", m) = deck(m)
         /\ Arranged("bstack", m) = bstack(m) /\ Arranged("bstackhoriz", m) = bstackhoriz(m)
         /\ Arranged("centredmaster", m) = centredmaster(m)
         /\ Arranged("centredfloatingmaster", m) = centredfloatingmaster(m)
         /\ Arranged("horizgrid", m) = horizgrid(m)
         /\ Arranged("gaplessgrid", m) = gaplessgrid(m)
         /\ Arranged("grid", m) = grid(m) /\ Arranged("nrowgrid", m) = nrowgrid(m)
         /\ Arranged("dwindle", m) = dwindle(m) /\ Arranged("spiral", m) = spiral(m)
         /\ Arranged("monocle", m) = monocle(m)
<1>1. Tiled(m) # 0
  BY DEF Screen, Tiled, Factors
<1> QED
  BY <1>1 DEF Arranged

\* The two rows of centredfloatingmaster have a rectangle for each client.
LEMMA FloatRows ==
  ASSUME NEW m \in Screen
  PROVE  /\ centredfloatingmaster(m) = FloatRow(m) \o UnderRow(m)
         /\ FloatRow(m) \in Seq(Rectangle(m)) /\ Len(FloatRow(m)) = Len(Masters(m))
         /\ UnderRow(m) \in Seq(Rectangle(m)) /\ Len(UnderRow(m)) = Len(Stack(m))
<1> DEFINE k == Len(Masters(m))
<1>1. centredfloatingmaster(m) = FloatRow(m) \o UnderRow(m)
  BY DEF centredfloatingmaster, FloatRow, UnderRow, FloatX, FloatY, FloatWidth, FloatHeight, Tightened
<1>2. /\ Masters(m) \in Factors /\ Stack(m) \in Factors /\ k \in Nat /\ Len(Stack(m)) \in Nat
      /\ Tiled(m) \in Nat /\ m.nmaster \in Nat
  BY Areas, AreaLengths
<1>3. m.mfact \in Int
  <2>1. m.mfact \in 5..95
    BY DEF Screen
  <2>2. \A x \in 5..95 : x \in Int
    OBVIOUS
  <2> QED
    BY <2>1, <2>2, Zenon
<1>4. /\ m.wx \in Int /\ m.wy \in Int /\ m.ww \in Int /\ m.wh \in Int /\ m.oh \in Nat /\ m.ov \in Nat
      /\ m.ih \in Nat /\ Wide(m) \in Int /\ High(m) \in Int
  BY Edges DEF Screen
<1>5. \A p, q \in Int : p * q \in Int /\ p + q \in Int /\ p - q \in Int
  OBVIOUS
<1>6. ASSUME NEW n \in Int PROVE Across(m, n) \in Int
  <2>1. m.ih * (n - 1) \in Int
    <3>1. m.ih \in Int /\ n - 1 \in Int
      BY <1>4
    <3> QED
      BY <1>5, <3>1, Zenon
  <2> QED
    BY <1>4, <2>1 DEF Across
<1>7. FloatWidth(m) \in Int
  <2> DEFINE factor == IF m.ww > m.wh THEN m.mfact ELSE 90
             a == 10 * m.ww * factor
             b == 800 * m.ih * (k - 1)
             c == a - b
  <2>1. FloatWidth(m) = IF Parted(m) THEN c \div 1000 ELSE Across(m, Tiled(m))
    BY DEF FloatWidth
  <2>2. factor \in Int
    BY <1>3
  <2> HIDE DEF factor, k
  <2>3. 10 * m.ww \in Int /\ 800 * m.ih \in Int /\ k - 1 \in Int
    BY <1>2, <1>4
  <2>4. a \in Int /\ b \in Int
    <3>1. 10 * m.ww * factor \in Int
      BY ONLY <1>5, <2>2, <2>3, Zenon
    <3>2. 800 * m.ih * (k - 1) \in Int
      BY ONLY <1>5, <2>3, Zenon
    <3> QED
      BY <3>1, <3>2
  <2> HIDE DEF a, b
  <2>5. c \in Int
    BY <2>4
  <2> HIDE DEF c
  <2>6. c \div 1000 \in Int /\ Across(m, Tiled(m)) \in Int
    BY <1>2, <1>6, <2>5
  <2> QED
    BY <2>1, <2>6
<1>8. FloatHeight(m) \in Int
  <2> DEFINE a == m.wh * m.mfact
  <2>1. FloatHeight(m) = CASE ~Parted(m)                  -> High(m)
                           [] Parted(m) /\ m.ww > m.wh    -> (m.wh * 9) \div 10
                           [] Parted(m) /\ ~(m.ww > m.wh) -> a \div 100
    BY DEF FloatHeight
  <2>2. a \in Int
    BY <1>3, <1>4, <1>5, Zenon
  <2> HIDE DEF a
  <2>3. a \div 100 \in Int /\ (m.wh * 9) \div 10 \in Int
    BY <1>4, <2>2
  <2> QED
    BY <1>4, <2>1, <2>3
<1>9. FloatX(m) \in Int /\ FloatY(m) \in Int
  <2> DEFINE w == m.ww - FloatWidth(m)
             h == m.wh - FloatHeight(m)
  <2>1. w \in Int /\ h \in Int
    BY <1>4, <1>7, <1>8
  <2>2. /\ FloatX(m) = IF Parted(m) THEN m.wx + w \div 2 ELSE m.wx + m.oh
        /\ FloatY(m) = IF Parted(m) THEN m.wy + h \div 2 ELSE m.wy + m.ov
    BY DEF FloatX, FloatY
  <2> HIDE DEF w, h
  <2>3. w \div 2 \in Int /\ h \div 2 \in Int
    BY <2>1
  <2> QED
    BY <1>4, <2>2, <2>3
<1>10. Tightened(m) \in Screen /\ Rectangle(Tightened(m)) = Rectangle(m)
  <2> DEFINE g == IF Parted(m) THEN (8 * m.ih) \div 10 ELSE m.ih
  <2>1. g \in Nat
    BY <1>4
  <2>2. Tightened(m) = [m EXCEPT !.ih = g]
    BY DEF Tightened
  <2> HIDE DEF g
  <2>3. Tightened(m) \in Screen /\ Tightened(m).minbh = m.minbh /\ Tightened(m).bw = m.bw
    BY <2>1, <2>2 DEF Screen
  <2>4. \A len : Sized(Tightened(m), len) = Sized(m, len)
    BY <2>3 DEF Sized, Size0
  <2> QED
    BY <2>3, <2>4 DEF Rectangle
<1>11. /\ EvenSplit(FloatWidth(m), Masters(m)) \in Seq(Int)
       /\ Len(EvenSplit(FloatWidth(m), Masters(m))) = Len(Masters(m))
  BY <1>2, <1>7, EvenSplitSum
<1>12. FloatRow(m) \in Seq(Rectangle(m)) /\ Len(FloatRow(m)) = Len(Masters(m))
  <2> DEFINE t == Tightened(m)
             lens == EvenSplit(FloatWidth(m), Masters(m))
  <2>1. FloatRow(m) = Row(t, FloatX(m), FloatY(m), lens, FloatHeight(m))
    BY DEF FloatRow
  <2> HIDE DEF t, lens
  <2>2. /\ Row(t, FloatX(m), FloatY(m), lens, FloatHeight(m)) \in Seq(Rectangle(t))
        /\ Len(Row(t, FloatX(m), FloatY(m), lens, FloatHeight(m))) = Len(lens)
    BY <1>8, <1>9, <1>10, <1>11, RowSeq DEF t, lens
  <2> QED
    BY <1>10, <1>11, <2>1, <2>2 DEF t, lens
<1>13. UnderRow(m) \in Seq(Rectangle(m)) /\ Len(UnderRow(m)) = Len(Stack(m))
  <2> DEFINE sw == Across(m, Tiled(m) - m.nmaster)
             lens == EvenSplit(sw, Stack(m))
             x == m.wx + m.oh
             y == m.wy + m.ov
  <2>1. UnderRow(m) = Row(m, x, y, lens, High(m))
    BY DEF UnderRow
  <2>2. sw \in Int /\ x \in Int /\ y \in Int
    <3>1. Tiled(m) - m.nmaster \in Int
      BY <1>2
    <3>2. sw \in Int
      BY <1>6, <3>1
    <3> QED
      BY <1>4, <3>2
  <2> HIDE DEF sw, x, y
  <2>3. lens \in Seq(Int) /\ Len(lens) = Len(Stack(m))
    BY <1>2, <2>2, EvenSplitSum
  <2> HIDE DEF lens
  <2> QED
    BY <1>4, <2>1, <2>2, <2>3, RowSeq
<1> QED
  BY <1>1, <1>12, <1>13

\* Every layout asks of resize a rectangle for each client.
LEMMA LayoutRects ==
  ASSUME NEW m \in Screen, m.cf # << >>, NEW l \in LayoutNames
  PROVE  Arranged(l, m) \in Seq(Rectangle(m)) /\ Len(Arranged(l, m)) = Tiled(m)
<1> DEFINE Listed(R) == R \in Seq(Rectangle(m)) /\ Len(R) = Tiled(m)
<1>1. /\ Arranged("tile", m) = tile(m) /\ Arranged("deck", m) = deck(m)
      /\ Arranged("bstack", m) = bstack(m) /\ Arranged("bstackhoriz", m) = bstackhoriz(m)
      /\ Arranged("centredmaster", m) = centredmaster(m)
      /\ Arranged("centredfloatingmaster", m) = centredfloatingmaster(m)
      /\ Arranged("horizgrid", m) = horizgrid(m)
      /\ Arranged("gaplessgrid", m) = gaplessgrid(m)
      /\ Arranged("grid", m) = grid(m) /\ Arranged("nrowgrid", m) = nrowgrid(m)
      /\ Arranged("dwindle", m) = dwindle(m) /\ Arranged("spiral", m) = spiral(m)
      /\ Arranged("monocle", m) = monocle(m)
  BY ArrangedBy
<1>2. Tiled(m) \in Nat
  BY Areas
<1>3. Listed(tile(m)) /\ Listed(deck(m)) /\ Listed(horizgrid(m))
  BY tilePlaces, deckPlaces, horizgridPlaces DEF Places
<1>4. Listed(bstack(m)) /\ Listed(bstackhoriz(m))
  BY bstackPlaces, bstackhorizPlaces DEF Places, Overturned
<1>5. Listed(gaplessgrid(m)) /\ Listed(grid(m)) /\ Listed(nrowgrid(m))
  BY gaplessgridPlaces, gridPlaces, nrowgridPlaces DEF GridPlaces
<1>6. Listed(centredmaster(m))
  <2>1. m.nmaster \in Nat
    BY Areas
  <2>2. CASE m.nmaster = 0
    BY <2>2, centredmasterNone DEF SidedPlaces
  <2>3. CASE m.nmaster # 0
    BY <2>1, <2>3, centredmasterSides DEF SidedPlaces
  <2> QED
    BY <2>2, <2>3
<1>7. Listed(dwindle(m)) /\ Listed(spiral(m))
  <2>1. /\ dwindle(m) = [j \in 1..Tiled(m) |-> dwindle(m)[j]]
        /\ spiral(m) = [j \in 1..Tiled(m) |-> spiral(m)[j]]
    BY FibParts DEF FibRects
  <2>2. dwindle(m) \in [1..Tiled(m) -> Rectangle(m)] /\ spiral(m) \in [1..Tiled(m) -> Rectangle(m)]
    BY <2>1, FibRectangles
  <2> QED
    BY <1>2, <2>2, SeqMade
<1>8. Listed(monocle(m))
  <2>1. m.wx \in Int /\ m.wy \in Int /\ m.ww \in Int /\ m.wh \in Int
    BY DEF Screen
  <2>2. monocle(m) \in [1..Tiled(m) -> Rectangle(m)]
    BY <2>1, ResizeRect DEF monocle
  <2> QED
    BY <1>2, <2>2, SeqMade
<1>9. Listed(centredfloatingmaster(m))
  <2>1. Tiled(m) = Len(Masters(m)) + Len(Stack(m))
    BY AreaLengths
  <2> DEFINE A == FloatRow(m)
             B == UnderRow(m)
  <2>2. centredfloatingmaster(m) = A \o B /\ A \in Seq(Rectangle(m)) /\ B \in Seq(Rectangle(m))
        /\ Len(A) = Len(Masters(m)) /\ Len(B) = Len(Stack(m))
    BY FloatRows
  <2> HIDE DEF A, B
  <2>3. A \o B \in Seq(Rectangle(m)) /\ Len(A \o B) = Len(A) + Len(B)
    BY <2>2, SeqsJoined
  <2>4. Len(A \o B) = Tiled(m)
    BY <2>1, <2>2, <2>3
  <2> QED
    BY <2>2, <2>3, <2>4
<1> QED
  BY <1>1, <1>3, <1>4, <1>5, <1>6, <1>7, <1>8, <1>9 DEF LayoutNames

\* The monitor a layout works from is what the tag's settings make of it.
TilingSettings(fs, nm, mf, mir, g, on) ==
  /\ fs \in Seq(1..16) /\ nm \in Nat /\ mf \in 5..95 /\ mir \in BOOLEAN
  /\ g \in [{"oh", "ov", "ih", "iv"} -> Nat] /\ on \in BOOLEAN

\* The monitor made of the settings of a tag is one of the monitors that the
\* layouts are stated of.
LEMMA MonType ==
  ASSUME NEW fs, NEW nm, NEW mf, NEW mir, NEW g, NEW on, TilingSettings(fs, nm, mf, mir, g, on)
  PROVE  /\ Mon(fs, nm, mf, mir, g, on) \in Screen
         /\ Mon(fs, nm, mf, mir, g, on).cf = fs
         /\ Mon(fs, nm, mf, mir, g, on).nmaster = nm
         /\ Mon(fs, nm, mf, mir, g, on).mirror = mir
         /\ Mon(fs, nm, mf, mir, g, on).mfact = mf
<1> DEFINE e == getgaps(g, on, Len(fs))
<1>0. /\ fs \in Seq(1..16) /\ nm \in Nat /\ mf \in 5..95 /\ mir \in BOOLEAN
      /\ g \in [{"oh", "ov", "ih", "iv"} -> Nat] /\ on \in BOOLEAN
  BY Zenon DEF TilingSettings
<1>1. e \in [{"oh", "ov", "ih", "iv"} -> Nat]
  BY <1>0 DEF getgaps
<1>2. e["oh"] \in Nat /\ e["ov"] \in Nat /\ e["ih"] \in Nat /\ e["iv"] \in Nat
  BY <1>1
<1> HIDE DEF e
<1>3. fs \in Factors
  BY <1>0 DEF Factors
<1>4. WX \in Int /\ WY \in Int /\ WW \in Int /\ WH \in Int /\ BW \in Nat /\ BH \in Nat
  BY AreaAssumption
<1>5. Mon(fs, nm, mf, mir, g, on) =
        [wx |-> WX, wy |-> WY, ww |-> WW, wh |-> WH, bw |-> BW, bh |-> BH, minbh |-> BH,
         oh |-> e["oh"], ov |-> e["ov"], ih |-> e["ih"], iv |-> e["iv"],
         nmaster |-> nm, mfact |-> mf, mirror |-> mir, cf |-> fs]
  BY DEF Mon, e
<1> QED
  BY <1>0, <1>2, <1>3, <1>4, <1>5 DEF Screen

\* The settings have their types, the layout has asked for places by them, and
\* there the clients are, or pulled back.
Settled ==
  /\ lt \in InUse /\ cf \in Seq(1..16) /\ nmaster \in Nat /\ mfact \in 5..95
  /\ mirror \in BOOLEAN /\ gaps \in [{"oh", "ov", "ih", "iv"} -> Nat] /\ enablegaps \in BOOLEAN
  /\ asked = Arranged(lt, mon)
  /\ rects = [j \in DOMAIN asked |-> rects[j]]
  /\ \A j \in DOMAIN asked : Lies(mon, rects[j], asked[j])

\* The monitor in force has the sizes that the constants give.
LEMMA MonFields ==
  /\ mon.wx = WX /\ mon.wy = WY /\ mon.ww = WW /\ mon.wh = WH
  /\ mon.bw = BW /\ mon.bh = BH /\ mon.minbh = BH
BY DEF mon, Mon

\* The monitor in force has the settings in force.
LEMMA SettledMon ==
  ASSUME Settled
  PROVE  /\ mon \in Screen /\ mon.cf = cf /\ mon.nmaster = nmaster /\ mon.mirror = mirror
         /\ Tiled(mon) = Len(cf) /\ Len(cf) \in Nat
<1>1. mon \in Screen /\ mon.cf = cf /\ mon.nmaster = nmaster /\ mon.mirror = mirror
  <2>1. TilingSettings(cf, nmaster, mfact, mirror, gaps, enablegaps)
    BY Zenon DEF Settled, TilingSettings
  <2>2. /\ Mon(cf, nmaster, mfact, mirror, gaps, enablegaps) \in Screen
        /\ Mon(cf, nmaster, mfact, mirror, gaps, enablegaps).cf = cf
        /\ Mon(cf, nmaster, mfact, mirror, gaps, enablegaps).nmaster = nmaster
        /\ Mon(cf, nmaster, mfact, mirror, gaps, enablegaps).mirror = mirror
    BY <2>1, MonType
  <2> QED
    BY <2>2 DEF mon
<1> QED
  BY <1>1 DEF Tiled, Settled

\* A layout asks for nothing without clients, and else for one place for each.
LEMMA AskedFor ==
  ASSUME NEW m \in Screen, NEW l \in LayoutNames
  PROVE  Arranged(l, m) \in Seq(Rectangle(m)) /\ Len(Arranged(l, m)) = Tiled(m)
<1>1. CASE m.cf = << >>
  <2>1. Tiled(m) = 0
    BY <1>1 DEF Tiled
  <2>2. Arranged(l, m) = << >>
    BY <2>1 DEF Arranged
  <2> QED
    BY <2>1, <2>2
<1>2. CASE m.cf # << >>
  BY <1>2, LayoutRects
<1> QED
  BY <1>1, <1>2

\* Every client has been asked to be at a rectangle, and lies there or pulled
\* back.
LEMMA SettledRects ==
  ASSUME Settled
  PROVE  /\ asked \in Seq(Rectangle(mon)) /\ Len(asked) = Len(cf) /\ DOMAIN asked = 1..Len(cf)
         /\ rects \in Seq([x : Int, y : Int, w : Int, h : Int]) /\ Len(rects) = Len(cf)
         /\ DOMAIN rects = 1..Len(cf)
         /\ \A j \in 1..Len(cf) : Lies(mon, rects[j], asked[j])
<1>1. mon \in Screen /\ Tiled(mon) = Len(cf) /\ Len(cf) \in Nat
  BY SettledMon
<1>2. asked = Arranged(lt, mon) /\ lt \in LayoutNames
  BY InUseAssumption DEF Settled
<1>3. asked \in Seq(Rectangle(mon)) /\ Len(asked) = Len(cf)
  BY <1>1, <1>2, AskedFor
<1>4. DOMAIN asked = 1..Len(cf)
  BY <1>3
<1>5. rects = [j \in 1..Len(cf) |-> rects[j]] /\ \A j \in 1..Len(cf) : Lies(mon, rects[j], asked[j])
  BY <1>4 DEF Settled
<1>6. rects \in [1..Len(cf) -> [x : Int, y : Int, w : Int, h : Int]]
  BY <1>5 DEF Lies
<1>7. rects \in Seq([x : Int, y : Int, w : Int, h : Int]) /\ Len(rects) = Len(cf) /\ DOMAIN rects = 1..Len(cf)
  BY <1>1, <1>6, SeqMade
<1> QED
  BY <1>3, <1>4, <1>5, <1>7

\* Settled settings are typed.
LEMMA SettledTyped == Settled => TilingTypeOK
BY SettledRects DEF Settled, TilingTypeOK

\* Every window has a size to be pulled back by.
LEMMA SizesMade ==
  ASSUME Settled
  PROVE  Sizes \in Seq(Size) /\ Len(Sizes) = Len(cf)
<1> DEFINE more == IF Len(cf) = 1 \/ lt = "monocle" THEN 2 * BW ELSE 0
           n == Len(cf)
<1>1. n \in Nat /\ mon \in Screen /\ more \in Nat /\ BH \in Nat \ {0} /\ BW \in Nat
  BY SettledMon, AreaAssumption
<1>2. Sizes = [j \in 1..n |-> [w |-> rects[j].w + more, h |-> rects[j].h + more]]
  BY SettledRects DEF Sizes
<1> HIDE DEF more
<1>3. ASSUME NEW j \in 1..n PROVE [w |-> rects[j].w + more, h |-> rects[j].h + more] \in Size
  <2>1. asked[j] \in Rectangle(mon) /\ rects[j].w = asked[j].w /\ rects[j].h = asked[j].h
    BY SettledRects DEF Lies
  <2>2. /\ asked[j].w0 \in Int /\ asked[j].h0 \in Int
        /\ rects[j].w = Sized(mon, asked[j].w0) /\ rects[j].h = Sized(mon, asked[j].h0)
    BY <2>1 DEF Rectangle
  <2>3. Size0(mon) = BH + 2 * BW
    BY MonFields DEF Size0
  <2>4. /\ Sized(mon, asked[j].w0) \in Nat /\ Size0(mon) <= Sized(mon, asked[j].w0)
        /\ Sized(mon, asked[j].h0) \in Nat /\ Size0(mon) <= Sized(mon, asked[j].h0)
    BY <1>1, <2>2, SizedBounds
  <2>5. rects[j].w + more \in Nat \ {0} /\ rects[j].h + more \in Nat \ {0}
    BY <1>1, <2>2, <2>3, <2>4
  <2> QED
    BY <2>5 DEF Size
<1> HIDE DEF n
<1>4. Sizes \in [1..n -> Size]
  BY <1>2, <1>3
<1> QED
  BY <1>1, <1>4, SeqMade DEF n

\* Settings are settled at the start.
LEMMA SettledInit == TilingInit => Settled
<1> SUFFICES ASSUME TilingInit PROVE Settled
  OBVIOUS
<1>1. /\ lt \in InUse /\ cf \in Seq(1..16) /\ nmaster \in Nat /\ mfact \in 5..95
      /\ mirror \in BOOLEAN /\ gaps \in [{"oh", "ov", "ih", "iv"} -> Nat] /\ enablegaps \in BOOLEAN
  <2>1. << >> \in Seq(1..16) /\ 1 \in Nat /\ 65 \in 5..95
    OBVIOUS
  <2>2. FALSE \in BOOLEAN /\ TRUE \in BOOLEAN
    OBVIOUS
  <2> QED
    BY <2>1, <2>2, GapsAssumption, Zenon DEF TilingInit
<1>2. mon.cf = cf
  <2>1. Mon(cf, nmaster, mfact, mirror, gaps, enablegaps).cf = cf
    <3>1. TilingSettings(cf, nmaster, mfact, mirror, gaps, enablegaps)
      BY <1>1, Zenon DEF TilingSettings
    <3> QED
      BY <3>1, MonType
  <2> QED
    BY <2>1 DEF mon
<1>3. Tiled(mon) = 0
  BY <1>2 DEF Tiled, TilingInit
<1>4. asked = << >> /\ rects = << >>
  BY DEF TilingInit
<1>5. asked = Arranged(lt, mon)
  BY <1>3, <1>4 DEF Arranged
<1>6. DOMAIN asked = {} /\ rects = [j \in DOMAIN asked |-> rects[j]]
  BY <1>4
<1>7. \A j \in DOMAIN asked : Lies(mon, rects[j], asked[j])
  BY <1>6
<1> QED
  BY <1>1, <1>5, <1>6, <1>7 DEF Settled

\* Every command arranges.
LEMMA SettledStep == Settled /\ [TilingNext]_tilingVars => Settled'
<1> SUFFICES ASSUME Settled, [TilingNext]_tilingVars PROVE Settled'
  OBVIOUS
<1> DEFINE Typed(l, fs, nm, mf, mir, g, on) ==
             /\ l \in InUse /\ fs \in Seq(1..16) /\ nm \in Nat /\ mf \in 5..95
             /\ mir \in BOOLEAN /\ g \in [{"oh", "ov", "ih", "iv"} -> Nat] /\ on \in BOOLEAN
<1>1. Typed(lt, cf, nmaster, mfact, mirror, gaps, enablegaps)
  BY DEF Settled
<1>0. ASSUME Typed(lt', cf', nmaster', mfact', mirror', gaps', enablegaps'),
             NEW old \in Seq(Size), Len(old) = Len(cf'), arrangeFrom(old)
      PROVE  Settled'
  <2> DEFINE m == mon'
  <2>1. m = Mon(cf', nmaster', mfact', mirror', gaps', enablegaps')
    BY DEF mon
  <2>2. TilingSettings(cf', nmaster', mfact', mirror', gaps', enablegaps')
    BY <1>0, Zenon DEF TilingSettings
  <2>3. m \in Screen /\ m.cf = cf'
    BY <2>1, <2>2, MonType
  <2>4. m.ww = WW /\ m.wh = WH /\ m.minbh = BH
    BY <2>1 DEF Mon
  <2>5. asked' = Arranged(lt', m) /\ rects' = [j \in DOMAIN asked' |-> PullBack(m, asked'[j], old[j])]
    BY <1>0 DEF arrangeFrom
  <2>6. lt' \in LayoutNames /\ m.ww > 0 /\ m.wh > 0 /\ m.minbh > 0
    BY <1>0, <2>4, InUseAssumption, AreaAssumption
  <2> HIDE DEF m
  <2>7. asked' \in Seq(Rectangle(m)) /\ Len(asked') = Len(cf')
    BY <2>3, <2>5, <2>6, AskedFor DEF Tiled
  <2>8. ASSUME NEW j \in DOMAIN asked' PROVE Lies(m, rects'[j], asked'[j])
    <3>1. asked'[j] \in Rectangle(m) /\ old[j] \in Size
      <4>1. DOMAIN asked' = 1..Len(cf') /\ DOMAIN old = 1..Len(cf')
        BY <1>0, <2>7
      <4> QED
        BY <1>0, <2>7, <4>1
    <3>2. Lies(m, PullBack(m, asked'[j], old[j]), asked'[j])
      BY <2>3, <2>6, <3>1, PulledBack
    <3> QED
      BY <2>5, <3>2
  <2>9. rects' = [j \in DOMAIN asked' |-> rects'[j]]
    BY <2>5
  <2> QED
    BY <1>0, <2>5, <2>8, <2>9 DEF Settled, m
<1>2. ASSUME Typed(lt', cf', nmaster', mfact', mirror', gaps', enablegaps'), Len(cf') = Len(cf), arrange
      PROVE  Settled'
  BY <1>0, <1>2, SizesMade DEF arrange
<1>3. ASSUME NEW g \in [{"oh", "ov", "ih", "iv"} -> Int], setgaps(g) PROVE Settled'
  <2>1. gaps' = [k \in {"oh", "ov", "ih", "iv"} |-> Greatest(g[k], 0)]
        /\ UNCHANGED << lt, cf, nmaster, mfact, mirror, enablegaps >> /\ arrange
    BY <1>3 DEF setgaps
  <2>2. \A k \in {"oh", "ov", "ih", "iv"} : Greatest(g[k], 0) \in Nat
    BY <1>3 DEF Greatest
  <2>3. gaps' \in [{"oh", "ov", "ih", "iv"} -> Nat]
    BY <2>1, <2>2
  <2> QED
    BY <1>1, <1>2, <2>1, <2>3
<1>4. ASSUME NEW keys \in GapGroups, NEW i \in GapSteps, incrgaps(keys, i) PROVE Settled'
  <2> DEFINE g == [k \in DOMAIN gaps |-> IF k \in keys THEN gaps[k] + i ELSE gaps[k]]
  <2>1. g \in [{"oh", "ov", "ih", "iv"} -> Int]
    <3>1. i \in Int /\ gaps \in [{"oh", "ov", "ih", "iv"} -> Nat]
      BY <1>1, StepsAssumption
    <3> QED
      BY <3>1
  <2>2. setgaps(g)
    BY <1>4 DEF incrgaps
  <2> HIDE DEF g
  <2> QED
    BY <1>3, <2>1, <2>2
<1>5. ASSUME defaultgaps PROVE Settled'
  <2>1. DefGaps \in [{"oh", "ov", "ih", "iv"} -> Int] /\ setgaps(DefGaps)
    BY <1>5, GapsAssumption DEF defaultgaps
  <2> QED
    BY <1>3, <2>1
<1>6. ASSUME togglegaps PROVE Settled'
  <2>1. enablegaps' \in BOOLEAN /\ UNCHANGED << lt, cf, nmaster, mfact, mirror, gaps >> /\ arrange
    BY <1>6 DEF togglegaps
  <2> QED
    BY <1>1, <1>2, <2>1
<1>7. ASSUME NEW i \in {1, -1}, incnmaster(i) PROVE Settled'
  <2>1. nmaster' = Greatest(nmaster + i, 0) /\ UNCHANGED << lt, cf, mfact, mirror, gaps, enablegaps >> /\ arrange
    BY <1>7 DEF incnmaster
  <2>2. nmaster' \in Nat
    BY <1>1, <2>1 DEF Greatest
  <2> QED
    BY <1>1, <1>2, <2>1, <2>2
<1>8. ASSUME NEW a \in MfactArgs, setmfact(a) PROVE Settled'
  <2>1. mfact' \in 5..95 /\ UNCHANGED << lt, cf, nmaster, mirror, gaps, enablegaps >> /\ arrange
    BY <1>8 DEF setmfact
  <2> QED
    BY <1>1, <1>2, <2>1
<1>9. ASSUME NEW j \in DOMAIN cf, NEW a \in CfactArgs, setcfact(j, a) PROVE Settled'
  <2>1. PICK f \in 1..16 : cf' = [cf EXCEPT ![j] = f]
    BY <1>9 DEF setcfact
  <2>2. UNCHANGED << lt, nmaster, mfact, mirror, gaps, enablegaps >> /\ arrange
    BY <1>9 DEF setcfact
  <2>3. cf' \in Seq(1..16) /\ Len(cf') = Len(cf)
    BY <1>1, <2>1
  <2> QED
    BY <1>1, <1>2, <2>2, <2>3
<1>10. ASSUME togglemirror PROVE Settled'
  <2>1. mirror' \in BOOLEAN /\ UNCHANGED << lt, cf, nmaster, mfact, gaps, enablegaps >> /\ arrange
    BY <1>10 DEF togglemirror
  <2> QED
    BY <1>1, <1>2, <2>1
<1>11. ASSUME NEW l \in InUse, setlayout(l) PROVE Settled'
  <2>1. lt' \in InUse /\ UNCHANGED << cf, nmaster, mfact, mirror, gaps, enablegaps >> /\ arrange
    BY <1>11 DEF setlayout
  <2> QED
    BY <1>1, <1>2, <2>1
<1>12. ASSUME NEW size \in NewSizes, Comes(size) PROVE Settled'
  <2> DEFINE first == << [w |-> size, h |-> size] >>
             old == first \o Sizes
  <2>1. cf' = << 4 >> \o cf /\ UNCHANGED << lt, nmaster, mfact, mirror, gaps, enablegaps >> /\ arrangeFrom(old)
    BY <1>12 DEF Comes
  <2>2. cf' \in Seq(1..16) /\ Len(cf') = 1 + Len(cf)
    BY <1>1, <2>1
  <2>3. first \in Seq(Size) /\ Len(first) = 1
    BY NewAssumption DEF Size
  <2> HIDE DEF first
  <2>4. old \in Seq(Size) /\ Len(old) = 1 + Len(cf)
    <3>1. Sizes \in Seq(Size) /\ Len(Sizes) = Len(cf)
      BY SizesMade
    <3>2. old \in Seq(Size) /\ Len(old) = Len(first) + Len(Sizes)
      BY <2>3, <3>1, SeqsJoined, Zenon
    <3> QED
      BY <2>3, <3>1, <3>2
  <2> HIDE DEF old
  <2> QED
    BY <1>0, <1>1, <2>1, <2>2, <2>4
<1>13. ASSUME NEW j \in DOMAIN cf, Leaves(j) PROVE Settled'
  <2> DEFINE old == RemoveAt(Sizes, j)
  <2>1. cf' = RemoveAt(cf, j) /\ UNCHANGED << lt, nmaster, mfact, mirror, gaps, enablegaps >> /\ arrangeFrom(old)
    BY <1>13 DEF Leaves
  <2>2. ASSUME NEW T, NEW q \in Seq(T), Len(q) = Len(cf)
        PROVE  RemoveAt(q, j) \in Seq(T) /\ Len(RemoveAt(q, j)) = Len(cf) - 1
    <3>1. Len(cf) \in Nat /\ j \in 1..Len(cf)
      BY <1>1, <1>13
    <3>2. SubSeq(q, 1, j - 1) \in Seq(T) /\ Len(SubSeq(q, 1, j - 1)) = j - 1
      BY <2>2, <3>1
    <3>3. SubSeq(q, j + 1, Len(q)) \in Seq(T) /\ Len(SubSeq(q, j + 1, Len(q))) = Len(cf) - j
      BY <2>2, <3>1
    <3>4. RemoveAt(q, j) = SubSeq(q, 1, j - 1) \o SubSeq(q, j + 1, Len(q))
      BY DEF RemoveAt
    <3>5. /\ RemoveAt(q, j) \in Seq(T)
          /\ Len(RemoveAt(q, j)) = Len(SubSeq(q, 1, j - 1)) + Len(SubSeq(q, j + 1, Len(q)))
      BY <3>2, <3>3, <3>4, SeqsJoined
    <3> QED
      <4> DEFINE a == Len(SubSeq(q, 1, j - 1))
                 b == Len(SubSeq(q, j + 1, Len(q)))
      <4>1. a = j - 1 /\ b = Len(cf) - j /\ Len(RemoveAt(q, j)) = a + b
        BY <3>2, <3>3, <3>5
      <4> HIDE DEF a, b
      <4>2. Len(RemoveAt(q, j)) = Len(cf) - 1
        BY <3>1, <4>1
      <4> QED
        BY <3>5, <4>2
  <2>3. cf' \in Seq(1..16) /\ Len(cf') = Len(cf) - 1
    BY <1>1, <2>1, <2>2
  <2>4. old \in Seq(Size) /\ Len(old) = Len(cf) - 1
    BY <2>2, SizesMade
  <2> HIDE DEF old
  <2> QED
    BY <1>0, <1>1, <2>1, <2>3, <2>4
<1>14. CASE UNCHANGED tilingVars
  BY <1>14 DEF tilingVars, Settled, mon
<1> QED
  BY <1>4, <1>5, <1>6, <1>7, <1>8, <1>9, <1>10, <1>11, <1>12, <1>13, <1>14 DEF TilingNext

\* Settings are settled always (setcfact, setmfact, incnmaster, mirrorlayout,
\* togglegaps).
LEMMA SettledAlways == TilingSpec => []Settled
  BY SettledInit, SettledStep, PTL DEF TilingSpec

\* The settings of a tag keep their types through every command, mfact in the
\* bounds setmfact checks and no gap below zero, and the layout places exactly
\* the tiled clients.
THEOREM TilingTyped == TilingSpec => []TilingTypeOK
  BY SettledAlways, SettledTyped, PTL

\* A client that a layout has asked to be in the area is there, in the size asked
\* for; it is free of the least size where that is.
LEMMA KeptPlace ==
  ASSUME Settled, NEW i \in 1..Len(cf)
  PROVE  /\ asked[i] \in Rectangle(mon) /\ rects[i] \in [x : Int, y : Int, w : Int, h : Int]
         /\ Kept(i) <=> KeepsPlace(mon, asked[i])
         /\ Free(i) <=> Ample(mon, asked[i])
         /\ rects[i].w = asked[i].w /\ rects[i].h = asked[i].h
         /\ Kept(i) => rects[i].x = asked[i].x /\ rects[i].y = asked[i].y
<1>1. asked[i] \in Rectangle(mon) /\ Lies(mon, rects[i], asked[i])
  BY SettledRects
<1>2. Kept(i) <=> KeepsPlace(mon, asked[i])
  BY MonFields DEF Kept, KeepsPlace
<1>3. Size0(mon) = BH + 2 * BW
  BY MonFields DEF Size0
<1>4. Free(i) <=> Ample(mon, asked[i])
  BY <1>1, <1>3 DEF Free, Ample, Lies
<1> QED
  BY <1>1, <1>2, <1>4 DEF Lies

\* Everything is roomy when the layout has got all the sizes it asks for.
LEMMA RoomyFor ==
  ASSUME Settled
  PROVE  Roomy <=> \A i \in 1..Len(cf) : Ample(mon, asked[i])
BY KeptPlace, SettledRects DEF Roomy

\* Of the windows of the layouts but dwindle and spiral no more is taken than a
\* pixel of the height.
LEMMA Trimmed ==
  ASSUME Settled, lt \notin {"dwindle", "spiral"}, NEW i \in 1..Len(cf)
  PROVE  /\ Trim(i) \in [x : Int, y : Int, w : Int, h : Int]
         /\ Trim(i).x = rects[i].x /\ Trim(i).y = rects[i].y /\ Trim(i).w = rects[i].w
         /\ Trim(i).h = IF Higher(i) THEN rects[i].h - 1 ELSE rects[i].h
<1> DEFINE r == rects[i]
           X1 == IF Piled(i) /\ mirror THEN r.x + 1 ELSE r.x
           W1 == IF Piled(i) THEN r.w - 1 ELSE r.w
           H1 == IF Piled(i) \/ (lt = "spiral" /\ i = Len(cf) /\ i % 4 = 0) \/ Higher(i) THEN r.h - 1 ELSE r.h
<1>1. ~Piled(i) /\ lt # "spiral"
  BY DEF Piled
<1>2. Trim(i) = [r EXCEPT !.x = X1, !.w = W1, !.h = H1]
  BY DEF Trim
<1>3. X1 = r.x /\ W1 = r.w /\ H1 = IF Higher(i) THEN r.h - 1 ELSE r.h
  BY <1>1
<1>4. r \in [x : Int, y : Int, w : Int, h : Int]
  BY KeptPlace
<1> HIDE DEF X1, W1, H1, r
<1>5. H1 \in Int /\ X1 \in Int /\ W1 \in Int
  BY <1>3, <1>4
<1>6. /\ [r EXCEPT !.x = X1, !.w = W1, !.h = H1] \in [x : Int, y : Int, w : Int, h : Int]
      /\ [r EXCEPT !.x = X1, !.w = W1, !.h = H1].x = X1 /\ [r EXCEPT !.x = X1, !.w = W1, !.h = H1].y = r.y
      /\ [r EXCEPT !.x = X1, !.w = W1, !.h = H1].w = W1 /\ [r EXCEPT !.x = X1, !.w = W1, !.h = H1].h = H1
  BY <1>4, <1>5
<1> QED
  BY <1>2, <1>3, <1>6 DEF r

\* Windows that are asked to be beside each other, and stay there, are apart.
LEMMA PairApart ==
  ASSUME Settled, lt \notin {"dwindle", "spiral"}, NEW i \in 1..Len(cf), NEW j \in 1..Len(cf),
         Kept(i), Kept(j),
         \/ Beside(mon, asked[i], asked[j])
         \/ Higher(j) /\ asked[j].y + asked[j].h - 1 + mon.iv <= asked[i].y
  PROVE  Apart(Trim(i), Trim(j))
<1> DEFINE r == asked[i]
           s == asked[j]
           a == Trim(i)
           b == Trim(j)
<1>1. /\ a \in [x : Int, y : Int, w : Int, h : Int] /\ b \in [x : Int, y : Int, w : Int, h : Int]
      /\ a.x = r.x /\ a.y = r.y /\ a.w = r.w /\ (a.h = r.h \/ a.h = r.h - 1)
      /\ b.x = s.x /\ b.y = s.y /\ b.w = s.w /\ (b.h = s.h \/ b.h = s.h - 1) /\ (Higher(j) => b.h = s.h - 1)
      /\ r \in Rectangle(mon) /\ s \in Rectangle(mon)
  BY KeptPlace, Trimmed
<1>2. mon.ih \in Nat /\ mon.iv \in Nat
  BY SettledMon, Edges
<1>3. \/ r.x + r.w + mon.ih <= s.x \/ s.x + s.w + mon.ih <= r.x
      \/ r.y + r.h + mon.iv <= s.y \/ s.y + s.h + mon.iv <= r.y
      \/ Higher(j) /\ s.y + s.h - 1 + mon.iv <= r.y
  BY DEF Beside
<1> HIDE DEF a, b, r, s
<1>4. /\ r.x \in Int /\ r.y \in Int /\ r.w \in Int /\ r.h \in Int
      /\ s.x \in Int /\ s.y \in Int /\ s.w \in Int /\ s.h \in Int
  BY <1>1 DEF Rectangle
<1> DEFINE ih == mon.ih
           iv == mon.iv
<1>5. ih \in Nat /\ iv \in Nat
  BY <1>2
<1> HIDE DEF ih, iv
<1>6. \/ r.x + r.w + ih <= s.x \/ s.x + s.w + ih <= r.x
      \/ r.y + r.h + iv <= s.y \/ s.y + s.h + iv <= r.y
      \/ Higher(j) /\ s.y + s.h - 1 + iv <= r.y
  BY <1>3 DEF ih, iv
<1>7. a.h \in Int /\ b.h \in Int /\ a.h <= r.h /\ b.h <= s.h
  BY <1>1, <1>4
<1>8. CASE r.x + r.w + ih <= s.x \/ s.x + s.w + ih <= r.x
  <2>1. a.x + a.w + ih <= b.x \/ b.x + b.w + ih <= a.x
    BY <1>1, <1>8
  <2> QED
    BY <2>1 DEF Apart, a, b, ih
<1>9. CASE r.y + r.h + iv <= s.y
  <2>1. a.y + a.h + iv <= b.y
    BY <1>1, <1>4, <1>5, <1>7, <1>9
  <2> QED
    BY <2>1 DEF Apart, a, b, iv
<1>10. CASE s.y + s.h + iv <= r.y \/ (Higher(j) /\ s.y + s.h - 1 + iv <= r.y)
  <2>1. b.y + b.h + iv <= a.y
    BY <1>1, <1>4, <1>5, <1>7, <1>10
  <2> QED
    BY <2>1 DEF Apart, a, b, iv
<1> QED
  BY <1>6, <1>8, <1>9, <1>10

\* The places a layout asks for are within the area but for the named excess.
Bounded(s) ==
  /\ LeftEnd(mon) <= s.x /\ s.x + s.w <= RightEnd(mon) + OverRight
  /\ TopEnd(mon) - OverAbove <= s.y /\ s.y + s.h <= BottomEnd(mon) + OverBelow

\* When every window is free all are within the area but for that.
LEMMA BoundedWithin ==
  ASSUME Settled, lt \notin {"dwindle", "spiral", "monocle"},
         Roomy => \A i \in 1..Len(cf) :
                     Bounded(asked[i]) /\ (lt \notin {"deck", "horizgrid"} => KeepsPlace(mon, asked[i]))
  PROVE  AllWithin
<1> SUFFICES ASSUME Roomy, NEW i \in 1..Len(cf), lt \in {"deck", "horizgrid"} => Kept(i)
             PROVE  Within(Trim(i))
  BY SettledRects DEF AllWithin
<1>1. Bounded(asked[i]) /\ Kept(i)
  BY KeptPlace
<1> DEFINE t == Trim(i)
           s == asked[i]
<1>2. /\ t \in [x : Int, y : Int, w : Int, h : Int] /\ s \in Rectangle(mon)
      /\ t.x = s.x /\ t.y = s.y /\ t.w = s.w /\ (t.h = s.h \/ t.h = s.h - 1)
  BY <1>1, KeptPlace, Trimmed
<1>3. /\ WX + mon.oh <= s.x /\ s.x + s.w <= WX + WW - mon.oh + OverRight
      /\ WY + mon.ov - OverAbove <= s.y /\ s.y + s.h <= WY + WH - mon.ov + OverBelow
  <2>1. /\ LeftEnd(mon) = WX + mon.oh /\ RightEnd(mon) = WX + WW - mon.oh
        /\ TopEnd(mon) = WY + mon.ov /\ BottomEnd(mon) = WY + WH - mon.ov
    BY MonFields DEF LeftEnd, RightEnd, TopEnd, BottomEnd
  <2>2. /\ WX + mon.oh <= s.x /\ s.x + s.w <= (WX + WW - mon.oh) + OverRight
        /\ (WY + mon.ov) - OverAbove <= s.y /\ s.y + s.h <= (WY + WH - mon.ov) + OverBelow
    BY <1>1, <2>1 DEF Bounded
  <2>3. WY \in Int /\ mon.ov \in Int /\ OverAbove \in Int
    BY SettledMon, Edges, AreaAssumption DEF OverAbove
  <2>4. (WY + mon.ov) - OverAbove = WY + mon.ov - OverAbove
    BY <2>3
  <2> QED
    BY <2>2, <2>4
<1>4. OverLeft = 0
  BY DEF OverLeft
<1>5. mon \in Screen /\ mon.oh \in Int /\ mon.ov \in Int /\ mon.ih \in Nat /\ mon.iv \in Nat
      /\ WX \in Int /\ WY \in Int /\ WW \in Int /\ WH \in Int /\ BW \in Nat
  BY SettledMon, Edges, AreaAssumption
<1>6. OverBelow \in Int
  BY <1>5 DEF OverBelow
<1> HIDE DEF t, s
<1>7. s.x \in Int /\ s.y \in Int /\ s.w \in Int /\ s.h \in Int
  BY <1>2 DEF Rectangle
<1>8. t.x >= WX + mon.oh - OverLeft
  BY <1>2, <1>3, <1>4, <1>5, <1>7
<1>9. t.y + t.h <= WY + WH - mon.ov + OverBelow
  <2> DEFINE e == WY + WH - mon.ov + OverBelow
  <2>1. e \in Int /\ s.y + s.h <= e
    BY <1>3, <1>5, <1>6
  <2> HIDE DEF e
  <2>2. t.y + t.h <= e
    BY <1>2, <1>7, <2>1
  <2> QED
    BY <2>2 DEF e
<1>10. t.x + t.w <= WX + WW - mon.oh + OverRight
  BY <1>2, <1>3
<1>11. t.y >= WY + mon.ov - OverAbove
  <2>1. OverAbove \in Int
    BY DEF OverAbove
  <2> DEFINE e == WY + mon.ov - OverAbove
  <2>2. e \in Int /\ e <= s.y
    BY <1>3, <1>5, <2>1
  <2> HIDE DEF e
  <2>3. t.y >= e
    BY <1>2, <1>7, <2>2
  <2> QED
    BY <2>3 DEF e
<1> QED
  BY <1>8, <1>9, <1>10, <1>11 DEF Within, t

\* A place inside the outer gaps is within the bounds, and is kept unless there
\* is an excess.
LEMMA InsideBounded ==
  ASSUME Settled, NEW i \in 1..Len(cf), Inside(mon, asked[i], OverRight, OverBelow), Ample(mon, asked[i])
  PROVE  Bounded(asked[i]) /\ (OverRight = 0 /\ OverBelow = 0 => KeepsPlace(mon, asked[i]))
<1> DEFINE s == asked[i]
           k == 1 + 2 * mon.bw
<1>1. mon \in Screen /\ s \in Rectangle(mon)
  BY SettledMon, KeptPlace
<1>2. /\ LeftEnd(mon) <= s.x /\ s.x + s.w <= RightEnd(mon) + OverRight
      /\ TopEnd(mon) <= s.y /\ s.y + s.h <= BottomEnd(mon) + OverBelow
  BY DEF Inside
<1>3. s.w > Size0(mon) /\ s.h > Size0(mon) /\ Size0(mon) \in Nat
  BY <1>1, SizedBounds DEF Ample
<1>4. /\ mon.wx \in Int /\ mon.wy \in Int /\ mon.ww \in Int /\ mon.wh \in Int /\ mon.bw \in Nat
      /\ mon.oh \in Nat /\ mon.ov \in Nat
  BY <1>1 DEF Screen
<1> HIDE DEF s
<1>5. s.x \in Int /\ s.y \in Int /\ s.w \in Int /\ s.h \in Int /\ s.w0 \in Int /\ s.h0 \in Int
  BY <1>1 DEF Rectangle
<1>6. OverAbove \in {0, 1} /\ TopEnd(mon) \in Int
  BY <1>4 DEF OverAbove, TopEnd
<1>7. Bounded(s)
  <2>1. TopEnd(mon) - OverAbove <= s.y
    BY <1>2, <1>5, <1>6
  <2> QED
    BY <1>2, <2>1 DEF Bounded
<1>8. k \in Nat /\ k > 0
  BY <1>4
<1> HIDE DEF k
<1>9. Greatest(s.w0, k) \in Int /\ Greatest(s.w0, k) > 0 /\ Greatest(s.h0, k) \in Int /\ Greatest(s.h0, k) > 0
  BY <1>5, <1>8 DEF Greatest
<1>10. ASSUME OverRight = 0, OverBelow = 0 PROVE KeepsPlace(mon, s)
  <2>1. /\ mon.wx + mon.oh <= s.x /\ s.x + s.w <= mon.wx + mon.ww - mon.oh + 0
        /\ mon.wy + mon.ov <= s.y /\ s.y + s.h <= mon.wy + mon.wh - mon.ov + 0
    BY <1>2, <1>10 DEF LeftEnd, RightEnd, TopEnd, BottomEnd
  <2>2. /\ s.x < mon.wx + mon.ww /\ s.x + Greatest(s.w0, k) > mon.wx
        /\ s.y < mon.wy + mon.wh /\ s.y + Greatest(s.h0, k) > mon.wy
    <3> DEFINE p == Greatest(s.w0, k)
               q == Greatest(s.h0, k)
               e == mon.wx + mon.ww - mon.oh + 0
               f == mon.wy + mon.wh - mon.ov + 0
    <3>1. p \in Int /\ p > 0 /\ q \in Int /\ q > 0
      BY <1>9
    <3>2. e \in Int /\ f \in Int /\ e <= mon.wx + mon.ww /\ f <= mon.wy + mon.wh
      <4>1. \A a, b \in Int : \A c \in Nat : a + b - c + 0 \in Int /\ a + b - c + 0 <= a + b
        OBVIOUS
      <4> QED
        BY <1>4, <4>1
    <3>3. s.x + s.w <= e /\ s.y + s.h <= f
      BY <2>1
    <3> HIDE DEF p, q, e, f
    <3>4. s.x < mon.wx + mon.ww /\ s.y < mon.wy + mon.wh
      <4>1. \A a, b, c, g, h \in Int : \A z \in Nat : a + b <= c /\ c <= g + h /\ b > z => a < g + h
        OBVIOUS
      <4> QED
        BY <1>3, <1>4, <1>5, <3>2, <3>3, <4>1
    <3>5. s.x + p > mon.wx /\ s.y + q > mon.wy
      <4>1. \A a, b, g \in Int : \A c \in Nat : g + c <= a /\ b > 0 => a + b > g
        OBVIOUS
      <4> QED
        BY <1>4, <1>5, <2>1, <3>1, <4>1
    <3> QED
      BY <3>4, <3>5 DEF p, q
  <2> QED
    BY <2>2 DEF KeepsPlace, k
<1> QED
  BY <1>7, <1>10 DEF s

\* The areas of the layouts with masters, and of the two rows of horizgrid.
LEMMA MasterArea ==
  ASSUME Settled, lt \notin {"horizgrid", "centredmaster"}, NEW i \in 1..Len(cf)
  PROVE  /\ Area(i) = IF i <= nmaster THEN 0 ELSE 1
         /\ Len(Masters(mon)) \in Nat /\ (i <= Len(Masters(mon)) <=> i <= nmaster)
<1>1. Area(i) = IF i <= nmaster THEN 0 ELSE 1
  BY DEF Area
<1>2. mon \in Screen /\ mon.nmaster = nmaster /\ Tiled(mon) = Len(cf) /\ Len(cf) \in Nat
  BY SettledMon
<1>3. Len(Masters(mon)) = Least(mon.nmaster, Tiled(mon))
  BY <1>2, Areas
<1>4. nmaster \in Nat
  BY DEF Settled
<1>5. Len(Masters(mon)) = Least(nmaster, Len(cf))
  BY <1>2, <1>3
<1>6. Len(Masters(mon)) \in Nat /\ (i <= Len(Masters(mon)) <=> i <= nmaster)
  BY <1>2, <1>4, <1>5 DEF Least
<1> QED
  BY <1>1, <1>6

\* The areas of horizgrid are its two rows.
LEMMA RowArea ==
  ASSUME Settled, lt = "horizgrid", Len(cf) # 1, NEW i \in 1..Len(cf)
  PROVE  TopCount(Len(cf)) \in Nat /\ Area(i) = IF i <= TopCount(Len(cf)) THEN 0 ELSE 1
<1>1. Area(i) = IF Len(cf) = 2 \/ i <= Len(cf) \div 2 THEN 0 ELSE 1
  BY DEF Area
<1>2. Len(cf) \in Nat
  BY SettledMon
<1> DEFINE n == Len(cf)
<1>3. n \in Nat /\ n # 1 /\ i \in 1..n
  BY <1>2
<1> HIDE DEF n
<1>4. TopCount(n) \in Nat /\ (IF n = 2 \/ i <= n \div 2 THEN 0 ELSE 1) = IF i <= TopCount(n) THEN 0 ELSE 1
  BY <1>3 DEF TopCount
<1> QED
  BY <1>1, <1>4 DEF n

\* The windows of two areas, of which the first k are in the one, are asked to be
\* where they do not meet.
Laid(k) ==
  /\ \A i, j \in 1..Len(cf) : i < j =>
        /\ j <= k \/ (k < i /\ lt # "deck") => Beside(mon, asked[i], asked[j])
        /\ i <= k /\ k < j /\ Ample(mon, asked[i]) /\ (lt \in {"tile", "deck"} => Ample(mon, asked[j])) =>
              Beside(mon, asked[i], asked[j])
  /\ (\A i \in 1..Len(cf) : Ample(mon, asked[i])) =>
        \A i \in 1..Len(cf) : Inside(mon, asked[i], OverRight, OverBelow)

\* What is laid in two areas is placed.
LEMMA LaidPlaced ==
  ASSUME Settled, NEW k \in Nat, Laid(k),
         lt \in {"tile", "deck", "bstack", "bstackhoriz", "horizgrid"},
         lt \in {"bstack", "bstackhoriz"} => ~mirror,
         \A i \in 1..Len(cf) : Len(cf) > 1 => Area(i) = IF i <= k THEN 0 ELSE 1
  PROVE  AllApart /\ AllWithin
<1> DEFINE n == Len(cf)
<1>1. n \in Nat /\ DOMAIN rects = 1..n /\ lt \notin {"dwindle", "spiral", "monocle"}
  BY SettledMon, SettledRects
<1>2. AllApart
  <2> SUFFICES ASSUME NEW j \in 1..n, NEW i \in 1..(j - 1), Kept(i), Kept(j)
               PROVE  MayOverlap(i, j) \/ Reaches(i, j) \/ Apart(Trim(i), Trim(j))
    BY <1>1 DEF AllApart
  <2>1. i \in 1..n /\ i < j /\ n > 1
    BY <1>1
  <2>2. Area(i) = (IF i <= k THEN 0 ELSE 1) /\ Area(j) = IF j <= k THEN 0 ELSE 1
    BY <2>1
  <2>3. Beside(mon, asked[i], asked[j]) => Apart(Trim(i), Trim(j))
    BY <2>1, PairApart
  <2>4. (Free(i) <=> Ample(mon, asked[i])) /\ (Free(j) <=> Ample(mon, asked[j]))
    BY <2>1, KeptPlace
  <2>5. /\ j <= k \/ (k < i /\ lt # "deck") => Beside(mon, asked[i], asked[j])
        /\ i <= k /\ k < j /\ Ample(mon, asked[i]) /\ (lt \in {"tile", "deck"} => Ample(mon, asked[j])) =>
              Beside(mon, asked[i], asked[j])
    BY <2>1 DEF Laid
  <2>6. CASE k < i /\ lt = "deck"
    <3>1. Area(i) = 1 /\ Area(j) = 1
      BY <2>1, <2>2, <2>6
    <3> QED
      BY <2>6, <3>1 DEF MayOverlap
  <2>7. CASE i <= k /\ k < j
    <3>1. Area(i) # Area(j)
      BY <2>1, <2>2, <2>7
    <3>2. CASE lt \in {"tile", "deck"}
      <4>1. Reaches(i, j) <=> Area(i) # Area(j) /\ ~(Free(i) /\ Free(j))
        BY <3>2 DEF Reaches
      <4> QED
        BY <2>3, <2>4, <2>5, <2>7, <3>1, <4>1
    <3>3. CASE lt \notin {"tile", "deck"}
      <4>1. Reaches(i, j) <=> Area(i) # Area(j) /\ ~Free(i)
        BY <3>3 DEF Reaches
      <4> QED
        BY <2>3, <2>4, <2>5, <2>7, <3>1, <3>3, <4>1
    <3> QED
      BY <3>2, <3>3
  <2>8. j <= k \/ (k < i /\ lt # "deck") \/ (k < i /\ lt = "deck") \/ (i <= k /\ k < j)
    BY <2>1
  <2> QED
    BY <2>3, <2>5, <2>6, <2>7, <2>8
<1>3. AllWithin
  <2>1. ASSUME Roomy, NEW i \in 1..n
        PROVE  Bounded(asked[i]) /\ (lt \notin {"deck", "horizgrid"} => KeepsPlace(mon, asked[i]))
    <3>1. Ample(mon, asked[i]) /\ Inside(mon, asked[i], OverRight, OverBelow)
      BY <2>1, RoomyFor DEF Laid
    <3>2. lt \notin {"deck", "horizgrid"} => OverRight = 0 /\ OverBelow = 0
      BY DEF OverRight, OverBelow
    <3> QED
      BY <3>1, <3>2, InsideBounded
  <2> QED
    BY <1>1, <2>1, BoundedWithin
<1> QED
  BY <1>2, <1>3

\* What is laid in two areas and turned over is placed.
LEMMA TurnedPlaced ==
  ASSUME Settled, NEW k \in Nat, lt \in {"bstack", "bstackhoriz"}, mirror,
         Overturned(mon, asked, k, IF lt = "bstack" THEN 0 ELSE 1),
         \A i \in 1..Len(cf) : Area(i) = IF i <= k THEN 0 ELSE 1
  PROVE  AllApart /\ AllWithin
<1> DEFINE n == Len(cf)
           cut == IF lt = "bstack" THEN 0 ELSE 1
<1>1. /\ n \in Nat /\ DOMAIN rects = 1..n /\ lt \notin {"dwindle", "spiral", "monocle"}
      /\ mon \in Screen /\ Tiled(mon) = n
  BY SettledMon, SettledRects
<1>2. AllApart
  <2> SUFFICES ASSUME NEW j \in 1..n, NEW i \in 1..(j - 1), Kept(i), Kept(j)
               PROVE  Reaches(i, j) \/ Apart(Trim(i), Trim(j))
    BY <1>1 DEF AllApart
  <2>1. i \in 1..n /\ i < j
    BY <1>1
  <2>2. Area(i) = (IF i <= k THEN 0 ELSE 1) /\ Area(j) = IF j <= k THEN 0 ELSE 1
    BY <2>1
  <2>3. /\ Beside(mon, asked[i], asked[j]) => Apart(Trim(i), Trim(j))
        /\ Higher(j) /\ asked[j].y + asked[j].h - 1 + mon.iv <= asked[i].y => Apart(Trim(i), Trim(j))
    BY <2>1, PairApart
  <2>4. Free(j) <=> Ample(mon, asked[j])
    BY KeptPlace
  <2>5. /\ j <= k \/ (k < i /\ cut = 0) => Beside(mon, asked[i], asked[j])
        /\ i <= k /\ k < j /\ Ample(mon, asked[j]) => asked[j].y + asked[j].h + mon.iv <= asked[i].y
        /\ k < i /\ cut = 1 /\ Ample(mon, asked[j]) => asked[j].y + asked[j].h - 1 + mon.iv <= asked[i].y
    BY <1>1, <2>1 DEF Overturned
  <2>6. Reaches(i, j) <=> (Area(i) # Area(j) \/ Higher(j)) /\ ~Free(j)
    BY DEF Reaches
  <2>7. CASE k < i /\ cut = 1
    <3>1. Area(j) = 1
      BY <2>1, <2>2, <2>7
    <3>2. Higher(j)
      BY <2>7, <3>1 DEF Higher
    <3> QED
      BY <2>3, <2>4, <2>5, <2>6, <2>7, <3>2
  <2>8. CASE i <= k /\ k < j
    <3>1. Area(i) # Area(j)
      BY <2>1, <2>2, <2>8
    <3>2. asked[j].y + asked[j].h + mon.iv <= asked[i].y => Beside(mon, asked[i], asked[j])
      BY DEF Beside
    <3> QED
      BY <2>3, <2>4, <2>5, <2>6, <2>8, <3>1, <3>2
  <2>9. j <= k \/ (k < i /\ cut = 0) \/ (k < i /\ cut = 1) \/ (i <= k /\ k < j)
    BY <2>1
  <2> QED
    BY <2>3, <2>5, <2>7, <2>8, <2>9
<1>3. AllWithin
  <2>1. ASSUME Roomy, NEW i \in 1..n PROVE Bounded(asked[i]) /\ KeepsPlace(mon, asked[i])
    <3> DEFINE s == asked[i]
               b == 1 + 2 * mon.bw
    <3>1. /\ Ample(mon, s) /\ LeftEnd(mon) <= s.x /\ s.x + s.w <= RightEnd(mon)
          /\ TopEnd(mon) + 2 * mon.bw - cut <= s.y /\ s.y + s.h <= BottomEnd(mon) + 2 * mon.bw
      BY <1>1, <2>1, RoomyFor DEF Overturned
    <3>2. s \in Rectangle(mon)
      BY KeptPlace
    <3>3. /\ OverRight = 0 /\ OverBelow = 2 * BW /\ mon.bw = BW /\ mon.minbh = BH
          /\ OverAbove = IF lt = "bstackhoriz" /\ BW = 0 THEN 1 ELSE 0
      BY MonFields DEF OverRight, OverBelow, OverAbove
    <3>4. BW \in Nat /\ BH \in Nat \ {0} /\ cut \in {0, 1}
      BY AreaAssumption
    <3>5. /\ mon.wx \in Int /\ mon.wy \in Int /\ mon.ww \in Int /\ mon.wh \in Int
          /\ mon.oh \in Nat /\ mon.ov \in Nat
      BY <1>1 DEF Screen
    <3> HIDE DEF s
    <3>6. /\ s.x \in Int /\ s.y \in Int /\ s.w \in Int /\ s.h \in Int /\ s.w0 \in Int /\ s.h0 \in Int
          /\ s.w = Sized(mon, s.w0) /\ s.h = Sized(mon, s.h0)
      BY <3>2 DEF Rectangle
    <3>7. s.w = s.w0 /\ s.h = s.h0 /\ s.w > BH + 2 * BW /\ s.h > BH + 2 * BW
      <4>1. s.w = s.w0 /\ s.h = s.h0
        BY <1>1, <3>1, <3>2, <3>6, AmpleExact
      <4> QED
        BY <3>1, <3>3, <4>1 DEF Ample, Size0
    <3>8. /\ LeftEnd(mon) \in Int /\ RightEnd(mon) \in Int /\ TopEnd(mon) \in Int /\ BottomEnd(mon) \in Int
          /\ mon.wx <= LeftEnd(mon) /\ RightEnd(mon) <= mon.wx + mon.ww
          /\ mon.wy <= TopEnd(mon) /\ BottomEnd(mon) <= mon.wy + mon.wh
      <4>1. \A p, q \in Int : \A g \in Nat : /\ p + g \in Int /\ p <= p + g
                                            /\ p + q - g \in Int /\ p + q - g <= p + q
        OBVIOUS
      <4> QED
        BY <3>5, <4>1 DEF LeftEnd, RightEnd, TopEnd, BottomEnd
    <3>9. OverAbove \in Int /\ OverAbove >= cut - 2 * BW /\ cut - 2 * BW <= 1
      <4>1. CASE BW = 0
        BY <3>3, <3>4, <4>1
      <4>2. CASE BW # 0
        BY <3>3, <3>4, <4>2
      <4> QED
        BY <4>1, <4>2
    <3> DEFINE lift == 2 * BW - cut
    <3>16. lift \in Int /\ OverAbove >= 0 - lift /\ lift >= -1 /\ TopEnd(mon) + lift <= s.y
      <4>1. lift \in Int /\ lift >= -1 /\ OverAbove >= 0 - lift
        <5>1. \A c, d, o \in Int : o >= c - d /\ c - d <= 1 =>
                 d - c \in Int /\ d - c >= -1 /\ o >= 0 - (d - c)
          OBVIOUS
        <5>2. cut \in Int /\ 2 * BW \in Int
          BY <3>4
        <5> HIDE DEF cut
        <5> QED
          BY <3>9, <5>1, <5>2
      <4>2. lift = 2 * mon.bw - cut
        BY <3>3
      <4>3. TopEnd(mon) + lift <= s.y
        BY ONLY <3>1, <4>2
      <4> QED
        BY <4>1, <4>3
    <3> HIDE DEF cut, lift
    <3>10. Bounded(s)
      <4>1. TopEnd(mon) - OverAbove <= s.y
        <5>1. \A t, o, u, y \in Int : o >= 0 - u /\ t + u <= y => t - o <= y
          OBVIOUS
        <5> QED
          BY <3>6, <3>8, <3>9, <3>16, <5>1
      <4>2. s.x + s.w <= RightEnd(mon) + OverRight
        BY <3>1, <3>3, <3>6, <3>8
      <4> QED
        BY <3>1, <3>3, <4>1, <4>2 DEF Bounded
    <3>11. b = 1 + 2 * BW /\ Greatest(s.w0, b) \in Int /\ Greatest(s.w0, b) > 0 /\ Greatest(s.h0, b) \in Int /\ Greatest(s.h0, b) > 1
      BY <3>3, <3>4, <3>6, <3>7 DEF Greatest
    <3> DEFINE p == Greatest(s.w0, b)
               q == Greatest(s.h0, b)
    <3>12. p \in Int /\ p > 0 /\ q \in Int /\ q > 1
      BY <3>11
    <3> HIDE DEF p, q
    <3>13. s.x < mon.wx + mon.ww /\ s.x + p > mon.wx
      <4>1. \A x, w, r, g, h \in Int : x + w <= r /\ r <= g + h /\ w > 0 => x < g + h
        OBVIOUS
      <4>2. \A x, v, l, g \in Int : l <= x /\ g <= l /\ v > 0 => x + v > g
        OBVIOUS
      <4>3. s.w > 0
        BY <3>4, <3>6, <3>7
      <4>4. s.x < mon.wx + mon.ww
        BY <3>1, <3>5, <3>6, <3>8, <4>1, <4>3
      <4>5. s.x + p > mon.wx
        BY <3>1, <3>5, <3>6, <3>8, <3>12, <4>2
      <4> QED
        BY <4>4, <4>5
    <3>14. s.y < mon.wy + mon.wh
      <4> DEFINE c == 2 * BW
      <4>1. c \in Int /\ s.h > c /\ s.y + s.h <= BottomEnd(mon) + c
        BY <3>1, <3>3, <3>4, <3>6, <3>7
      <4>2. \A y, h, r, g, z, d \in Int : y + h <= r + d /\ r <= g + z /\ h > d => y < g + z
        OBVIOUS
      <4> HIDE DEF c
      <4> QED
        BY <3>5, <3>6, <3>8, <4>1, <4>2
    <3>15. s.y + q > mon.wy
      <4>1. \A y, t, u, g, v \in Int : t + u <= y /\ u >= -1 /\ g <= t /\ v > 1 => y + v > g
        OBVIOUS
      <4> QED
        BY <3>5, <3>6, <3>8, <3>12, <3>16, <4>1
    <3> QED
      BY <3>10, <3>13, <3>14, <3>15 DEF KeepsPlace, p, q, s
  <2> QED
    BY <1>1, <2>1, BoundedWithin
<1> QED
  BY <1>2, <1>3

\* The layouts of two areas place the windows of the settings.
LEMMA AreasPlaced ==
  ASSUME Settled, cf # << >>, lt \in {"tile", "deck", "bstack", "bstackhoriz"}
  PROVE  AllApart /\ AllWithin
<1> DEFINE k == Len(Masters(mon))
<1>1. /\ mon \in Screen /\ mon.cf = cf /\ mon.nmaster = nmaster /\ mon.mirror = mirror
      /\ Tiled(mon) = Len(cf) /\ asked = Arranged(lt, mon) /\ mon.bw = BW /\ mirror \in BOOLEAN
  BY SettledMon, MonFields DEF Settled
<1>2. /\ Arranged("tile", mon) = tile(mon) /\ Arranged("deck", mon) = deck(mon)
      /\ Arranged("bstack", mon) = bstack(mon) /\ Arranged("bstackhoriz", mon) = bstackhoriz(mon)
  BY <1>1, ArrangedBy
<1>3. k \in Nat
  BY <1>1, AreaLengths
<1>4. \A i \in 1..Len(cf) : Area(i) = IF i <= k THEN 0 ELSE 1
  BY MasterArea
<1>5. CASE lt \in {"tile", "deck"} \/ ~mirror
  <2>1. Laid(k)
    <3>1. CASE lt = "tile"
      <4>1. Places(mon, asked, k, FALSE, TRUE, 0, 0)
        BY <1>1, <1>2, <3>1, tilePlaces
      <4>2. OverRight = 0 /\ OverBelow = 0
        BY <3>1 DEF OverRight, OverBelow
      <4> HIDE DEF k
      <4> QED
        BY <1>1, <3>1, <4>1, <4>2 DEF Places, Laid
    <3>2. CASE lt = "deck"
      <4>1. Places(mon, asked, k, TRUE, TRUE, 0, IF nmaster = 0 THEN mon.iv ELSE 0)
        BY <1>1, <1>2, <3>2, deckPlaces
      <4>2. OverRight = 0 /\ OverBelow = IF nmaster = 0 THEN mon.iv ELSE 0
        BY <3>2 DEF OverRight, OverBelow
      <4> HIDE DEF k
      <4> QED
        BY <1>1, <3>2, <4>1, <4>2 DEF Places, Laid
    <3>3. CASE lt \in {"bstack", "bstackhoriz"}
      <4>1. Places(mon, asked, k, FALSE, FALSE, 0, 0)
        BY <1>1, <1>2, <1>5, <3>3, bstackPlaces, bstackhorizPlaces
      <4>2. OverRight = 0 /\ OverBelow = 0
        BY <1>5, <3>3 DEF OverRight, OverBelow
      <4> HIDE DEF k
      <4> QED
        BY <1>1, <3>3, <4>1, <4>2 DEF Places, Laid
    <3> QED
      BY <3>1, <3>2, <3>3
  <2> HIDE DEF k
  <2> QED
    BY <1>3, <1>4, <1>5, <2>1, LaidPlaced
<1>6. CASE lt \in {"bstack", "bstackhoriz"} /\ mirror
  <2>1. Overturned(mon, asked, k, IF lt = "bstack" THEN 0 ELSE 1)
    <3>1. CASE lt = "bstack"
      BY <1>1, <1>2, <1>6, <3>1, bstackPlaces
    <3>2. CASE lt = "bstackhoriz"
      BY <1>1, <1>2, <1>6, <3>2, bstackhorizPlaces
    <3> QED
      BY <1>6, <3>1, <3>2
  <2> HIDE DEF k
  <2> QED
    BY <1>3, <1>4, <1>6, <2>1, TurnedPlaced
<1> QED
  BY <1>1, <1>5, <1>6

\* horizgrid places them in its two rows.
LEMMA RowsPlaced ==
  ASSUME Settled, cf # << >>, lt = "horizgrid"
  PROVE  AllApart /\ AllWithin
<1> DEFINE k == TopCount(Len(cf))
<1>1. /\ mon \in Screen /\ mon.cf = cf /\ Tiled(mon) = Len(cf) /\ Len(cf) \in Nat
      /\ asked = horizgrid(mon)
  BY SettledMon, ArrangedBy DEF Settled
<1>2. Places(mon, asked, k, FALSE, FALSE, TopExcess(mon), 0)
  BY <1>1, horizgridPlaces
<1>3. OverBelow = 0
  BY DEF OverBelow
<1>4. OverRight = TopExcess(mon)
  BY <1>1 DEF OverRight, TopExcess
<1>5. k \in Nat
  <2> DEFINE n == Len(cf)
  <2>1. n \in Nat
    BY <1>1
  <2> HIDE DEF n
  <2>2. TopCount(n) \in Nat
    BY <2>1 DEF TopCount
  <2> QED
    BY <2>2 DEF n
<1>6. \A i \in 1..Len(cf) : Len(cf) > 1 => Area(i) = IF i <= k THEN 0 ELSE 1
  <2> SUFFICES ASSUME NEW i \in 1..Len(cf), Len(cf) > 1 PROVE Area(i) = IF i <= k THEN 0 ELSE 1
    OBVIOUS
  <2>1. Len(cf) # 1
    BY <1>1
  <2> QED
    BY <2>1, RowArea
<1>7. Laid(k)
  <2> HIDE DEF k
  <2> QED
    BY <1>1, <1>2, <1>3, <1>4 DEF Places, Laid
<1> HIDE DEF k
<1> QED
  BY <1>5, <1>6, <1>7, LaidPlaced

\* The grids place the windows when there is room for each.
LEMMA GridsPlaced ==
  ASSUME Settled, cf # << >>, lt \in {"gaplessgrid", "grid", "nrowgrid"}
  PROVE  AllApart /\ AllWithin
<1> DEFINE n == Len(cf)
<1>1. /\ mon \in Screen /\ mon.cf = cf /\ Tiled(mon) = n /\ n \in Nat
      /\ asked = Arranged(lt, mon) /\ DOMAIN rects = 1..n
  BY SettledMon, SettledRects DEF Settled
<1>2. GridPlaces(mon, asked)
  BY <1>1, ArrangedBy, gridPlaces, gaplessgridPlaces, nrowgridPlaces
<1>3. OverRight = 0 /\ OverBelow = 0 /\ lt \notin {"dwindle", "spiral", "monocle", "deck", "horizgrid"}
  BY DEF OverRight, OverBelow
<1>4. Roomy <=> \A i \in 1..n : Ample(mon, asked[i])
  BY RoomyFor
<1>5. AllApart
  <2> SUFFICES ASSUME NEW j \in 1..n, NEW i \in 1..(j - 1), Kept(i), Kept(j)
               PROVE  Reaches(i, j) \/ Apart(Trim(i), Trim(j))
    BY <1>1 DEF AllApart
  <2>1. i \in 1..n /\ i < j
    BY <1>1
  <2>2. Reaches(i, j) <=> ~Roomy
    BY DEF Reaches
  <2>3. Roomy => Beside(mon, asked[i], asked[j])
    BY <1>1, <1>2, <1>4, <2>1 DEF GridPlaces
  <2> QED
    BY <1>3, <2>1, <2>2, <2>3, PairApart
<1>6. ASSUME Roomy, NEW i \in 1..n PROVE Bounded(asked[i]) /\ KeepsPlace(mon, asked[i])
  <2>1. Ample(mon, asked[i]) /\ Inside(mon, asked[i], 0, 0)
    BY <1>1, <1>2, <1>4, <1>6 DEF GridPlaces
  <2> QED
    BY <1>3, <2>1, InsideBounded
<1> QED
  BY <1>3, <1>5, <1>6, BoundedWithin

\* centredmaster places them in its three columns.
LEMMA CentrePlaced ==
  ASSUME Settled, cf # << >>, lt = "centredmaster"
  PROVE  AllApart /\ AllWithin
<1> DEFINE n == Len(cf)
<1>1. /\ mon \in Screen /\ mon.cf = cf /\ Tiled(mon) = n /\ n \in Nat
      /\ asked = Arranged(lt, mon) /\ mon.nmaster = nmaster /\ nmaster \in Nat
      /\ DOMAIN rects = 1..n
  BY SettledMon, SettledRects DEF Settled
<1>2. SidedPlaces(mon, asked)
  <2>1. asked = centredmaster(mon)
    BY <1>1, ArrangedBy
  <2>2. mon.nmaster = 0 \/ mon.nmaster > 0
    BY <1>1
  <2> QED
    BY <1>1, <2>1, <2>2, centredmasterNone, centredmasterSides
<1>3. OverRight = 0 /\ OverBelow = 0 /\ lt \notin {"dwindle", "spiral", "monocle", "deck", "horizgrid"}
  BY DEF OverRight, OverBelow
<1>4. Roomy <=> \A i \in 1..n : Ample(mon, asked[i])
  BY RoomyFor
<1>5. \A i, j \in 1..n : Area(i) = Area(j) => SideOf(mon, i) = SideOf(mon, j)
  <2>1. ASSUME NEW i \in 1..n
        PROVE  Area(i) = IF i > nmaster /\ nmaster > 0 THEN 1 + ((i - nmaster) % 2)
                         ELSE IF i <= nmaster THEN 0 ELSE 1
    BY <1>1 DEF Area
  <2>2. ASSUME NEW i \in 1..n
        PROVE  SideOf(mon, i) = IF nmaster = 0 \/ i <= nmaster THEN 0 ELSE 1 + ((i - nmaster) % 2)
    BY <1>1 DEF SideOf
  <2> SUFFICES ASSUME NEW i \in 1..n, NEW j \in 1..n, Area(i) = Area(j)
               PROVE  SideOf(mon, i) = SideOf(mon, j)
    OBVIOUS
  <2>3. CASE nmaster = 0
    BY <2>2, <2>3
  <2>4. CASE nmaster # 0
    <3>1. /\ Area(i) = IF i > nmaster THEN 1 + ((i - nmaster) % 2) ELSE 0
          /\ Area(j) = IF j > nmaster THEN 1 + ((j - nmaster) % 2) ELSE 0
      BY <1>1, <2>1, <2>4
    <3>2. /\ SideOf(mon, i) = IF i <= nmaster THEN 0 ELSE 1 + ((i - nmaster) % 2)
          /\ SideOf(mon, j) = IF j <= nmaster THEN 0 ELSE 1 + ((j - nmaster) % 2)
      BY <2>2, <2>4
    <3>3. (i > nmaster <=> ~(i <= nmaster)) /\ (j > nmaster <=> ~(j <= nmaster))
      BY <1>1
    <3> DEFINE a == 1 + ((i - nmaster) % 2)
               b == 1 + ((j - nmaster) % 2)
    <3>4. SideOf(mon, i) = Area(i) /\ SideOf(mon, j) = Area(j)
      <4> HIDE DEF a, b
      <4>1. /\ Area(i) = (IF i > nmaster THEN a ELSE 0) /\ Area(j) = (IF j > nmaster THEN b ELSE 0)
            /\ SideOf(mon, i) = (IF i <= nmaster THEN 0 ELSE a)
            /\ SideOf(mon, j) = (IF j <= nmaster THEN 0 ELSE b)
        BY <3>1, <3>2, Zenon DEF a, b
      <4> QED
        BY <3>3, <4>1
    <3> QED
      BY <3>4
  <2> QED
    BY <2>3, <2>4
<1>6. AllApart
  <2> SUFFICES ASSUME NEW j \in 1..n, NEW i \in 1..(j - 1), Kept(i), Kept(j)
               PROVE  Reaches(i, j) \/ Apart(Trim(i), Trim(j))
    BY <1>1 DEF AllApart
  <2>1. i \in 1..n /\ i < j
    BY <1>1
  <2>2. Reaches(i, j) <=> Area(i) # Area(j) /\ ~(Free(i) /\ Free(j))
    BY DEF Reaches
  <2>3. (Free(i) <=> Ample(mon, asked[i])) /\ (Free(j) <=> Ample(mon, asked[j]))
    BY <2>1, KeptPlace
  <2>4. SideOf(mon, i) = SideOf(mon, j) \/ (Ample(mon, asked[i]) /\ Ample(mon, asked[j])) =>
          Beside(mon, asked[i], asked[j])
    BY <1>1, <1>2, <2>1 DEF SidedPlaces
  <2>5. Beside(mon, asked[i], asked[j]) => Apart(Trim(i), Trim(j))
    BY <1>3, <2>1, PairApart
  <2>6. Area(i) = Area(j) => SideOf(mon, i) = SideOf(mon, j)
    BY <1>5, <2>1
  <2> QED
    BY <2>2, <2>3, <2>4, <2>5, <2>6
<1>7. ASSUME Roomy, NEW i \in 1..n PROVE Bounded(asked[i]) /\ KeepsPlace(mon, asked[i])
  <2>1. Ample(mon, asked[i]) /\ Inside(mon, asked[i], 0, 0)
    BY <1>1, <1>2, <1>4, <1>7 DEF SidedPlaces
  <2> QED
    BY <1>3, <2>1, InsideBounded
<1> QED
  BY <1>3, <1>6, <1>7, BoundedWithin

\* In monocle every window has the whole area.
LEMMA MonoclePlaced ==
  ASSUME Settled, cf # << >>, lt = "monocle"
  PROVE  AllApart /\ AllWithin
<1>1. /\ mon \in Screen /\ Tiled(mon) = Len(cf) /\ Len(cf) \in Nat /\ mon.cf = cf
      /\ asked = Arranged(lt, mon) /\ DOMAIN rects = 1..Len(cf)
  BY SettledMon, SettledRects DEF Settled
<1>2. asked = [j \in 1..Len(cf) |-> Resize(mon, WX, WY, WW, WH)]
  BY <1>1, ArrangedBy, MonFields DEF monocle
<1>3. AllApart
  BY DEF AllApart, MayOverlap
<1>4. AllWithin
  <2> SUFFICES ASSUME Roomy, NEW i \in 1..Len(cf) PROVE Within(Trim(i))
    BY <1>1 DEF AllWithin
  <2>1. {WX, WY, WW, WH} \subseteq Int /\ WW > 0 /\ WH > 0 /\ BW \in Nat
    BY AreaAssumption
  <2> DEFINE r == Resize(mon, WX, WY, WW, WH)
  <2>2. asked[i] = r
    BY <1>2
  <2>3. /\ r \in Rectangle(mon) /\ r.x = WX /\ r.y = WY /\ r.w = Sized(mon, WW) /\ r.h = Sized(mon, WH)
        /\ r.w0 = WW /\ r.h0 = WH
    BY <1>1, <2>1, ResizeRect DEF Resize
  <2>4. Ample(mon, r)
    BY <1>1, <2>2, KeptPlace DEF Roomy
  <2> HIDE DEF r
  <2>5. r.w = WW /\ r.h = WH
    <3>1. WW \in Int /\ WH \in Int
      BY <2>1
    <3> QED
      BY <1>1, <2>3, <2>4, <3>1, AmpleExact
  <2>6. KeepsPlace(mon, r)
    <3>1. /\ Greatest(WW, 1 + 2 * BW) \in Int /\ Greatest(WW, 1 + 2 * BW) > 0
          /\ Greatest(WH, 1 + 2 * BW) \in Int /\ Greatest(WH, 1 + 2 * BW) > 0
      BY <2>1 DEF Greatest
    <3> DEFINE p == Greatest(WW, 1 + 2 * BW)
               q == Greatest(WH, 1 + 2 * BW)
    <3>2. p \in Int /\ p > 0 /\ q \in Int /\ q > 0
      BY <3>1
    <3> HIDE DEF p, q
    <3>3. WX < WX + WW /\ WX + p > WX /\ WY < WY + WH /\ WY + q > WY
      BY <2>1, <3>2
    <3> QED
      BY <2>3, <3>3, MonFields DEF KeepsPlace, p, q
  <2>7. /\ Trim(i) \in [x : Int, y : Int, w : Int, h : Int]
        /\ Trim(i).x = WX /\ Trim(i).y = WY /\ Trim(i).w = WW /\ Trim(i).h = WH
    <3>1. ~Higher(i) /\ lt \notin {"dwindle", "spiral"}
      BY DEF Higher
    <3> QED
      BY <2>2, <2>3, <2>5, <2>6, <3>1, KeptPlace, Trimmed
  <2>8. Trim(i) = [x |-> WX, y |-> WY, w |-> WW, h |-> WH]
    BY <2>7
  <2> QED
    BY <2>8 DEF Within
<1> QED
  BY <1>3, <1>4

\* No window is out of sight, wherever it is pulled back to.
LEMMA SettledSeen ==
  ASSUME Settled
  PROVE  AllSeen
BY SettledRects, MonFields DEF AllSeen, Lies

\* The layouts whose windows are proved to be placed well.  In the other three
\* the code itself gives no such promise for all sizes: the masters of
\* centredfloatingmaster are laid out from mfact of the whole monitor, without
\* the outer gap, and dwindle and spiral halve what is left step by step.
WellPlaced == {"tile", "deck", "bstack", "bstackhoriz", "horizgrid", "centredmaster",
               "gaplessgrid", "grid", "nrowgrid", "monocle"}

\* With settled settings the windows of these layouts are placed as they must
\* be.
LEMMA SettledPlaced == Settled => (lt \in WellPlaced => Placed)
<1> SUFFICES ASSUME Settled, lt \in WellPlaced PROVE AllApart /\ AllWithin
  BY SettledTyped, SettledSeen DEF Placed
<1>1. CASE cf = << >>
  <2>1. DOMAIN rects = {}
    BY <1>1, SettledRects
  <2> QED
    BY <2>1 DEF AllApart, AllWithin
<1>2. CASE cf # << >>
  BY <1>2, AreasPlaced, RowsPlaced, CentrePlaced, GridsPlaced, MonoclePlaced DEF WellPlaced
<1> QED
  BY <1>1, <1>2

\* Whatever commands come, in whatever area, with whatever gaps, cfacts and
\* number of windows: these layouts put their windows side by side, the inner
\* gap between them, and within the outer gaps (vanitygaps.c).
THEOREM LayoutsPlaced == TilingSpec => [](lt \in WellPlaced => Placed)
  BY SettledAlways, SettledPlaced, PTL

\* The value a step makes: the next multiple on its way.
LEMMA StepLands ==
  ASSUME NEW a \in (-99..99) \ {0}, mfact \in 5..95, mfact + a >= 0
  PROVE  /\ CRem(NewMfact(a), a) = 0
         /\ IF a > 0 THEN NewMfact(a) \in (mfact + 1)..(mfact + a)
                     ELSE NewMfact(a) \in (mfact + a)..(mfact - 1)
<1> DEFINE d == IF a < 0 THEN -a ELSE a
           f == a + mfact
           q == f \div d
           r == f % d
           new == NewMfact(a)
<1>1. a \in Int /\ a # 0 /\ a < 100 /\ mfact \in Int /\ mfact >= 5 /\ mfact <= 95
  OBVIOUS
<1>2. d \in Nat \ {0} /\ f \in Int /\ f >= 0 /\ ~(f < 0)
  BY <1>1
<1>3. CRem(f, a) = r
  BY <1>2 DEF CRem
<1>4. new = IF r = 0 THEN f ELSE IF a > 0 THEN f - r ELSE f - a - r
  <2>1. new = IF CRem(f, a) = 0 THEN f ELSE IF a > 0 THEN f - CRem(f, a) ELSE f - a - CRem(f, a)
    BY <1>1 DEF NewMfact
  <2> HIDE DEF new, f, r
  <2> QED
    BY <1>3, <2>1
<1>5. (a < 0 => d = 0 - a) /\ (a > 0 => d = a) /\ f = a + mfact
  BY <1>1
<1> HIDE DEF d, f
<1>6. q \in Int /\ r \in 0..(d - 1) /\ f = (d * q) + r
  BY <1>2, DivMod
<1> HIDE DEF q, r, new
<1>7. \E k \in Int : new = d * k
  <2>1. CASE a > 0 \/ r = 0
    <3>1. d * q \in Int
      BY <1>2, <1>6
    <3>2. new = d * q
      BY <1>2, <1>4, <1>6, <2>1, <3>1
    <3> QED
      BY <1>6, <3>2
  <2>2. CASE ~(a > 0) /\ r # 0
    <3>1. d * q \in Int /\ d * (q + 1) = d * q + d
      BY <1>2, <1>6
    <3>2. new = d * q + d
      BY <1>1, <1>2, <1>4, <1>5, <1>6, <2>2, <3>1
    <3> QED
      BY <1>6, <3>1, <3>2
  <2> QED
    BY <2>1, <2>2
<1>8. IF a > 0 THEN new \in (mfact + 1)..(mfact + a) ELSE new \in (mfact + a)..(mfact - 1)
  BY <1>1, <1>2, <1>4, <1>5, <1>6
<1>9. CRem(new, a) = 0
  <2>1. new % d = 0
    BY <1>2, <1>7, MultipleRem
  <2>2. new \in Int /\ ~(new < 0)
    BY <1>1, <1>2, <1>5, <1>8
  <2>3. CRem(new, a) = new % d
    BY <2>2 DEF CRem, d
  <2> QED
    BY <2>1, <2>3
<1> QED
  BY <1>8, <1>9 DEF new

\* A step down by more than the value goes up to the step's own size.
LEMMA StepOver ==
  ASSUME NEW a \in (-99..99) \ {0}, NEW old \in 5..95, old = mfact, old + a < 0
  PROVE  NewMfact(a) = -a /\ CRem(-a, a) = 0 /\ a < 0
<1> DEFINE d == -a
           f == a + mfact
<1>1. /\ a \in Int /\ a < 0 /\ a < 100 /\ d \in Nat \ {0} /\ f \in Int /\ f < 0
      /\ -f \in Nat /\ -f < d /\ -f # 0
  OBVIOUS
<1>2. (-f) % d = -f /\ d % d = 0
  BY <1>1
<1>3. CRem(f, a) = -((-f) % d)
  BY <1>1 DEF CRem
<1>4. CRem(f, a) = f /\ f # 0
  BY <1>1, <1>2, <1>3
<1>5. NewMfact(a) = IF CRem(f, a) = 0 THEN f ELSE IF a > 0 THEN f - CRem(f, a) ELSE f - a - CRem(f, a)
  BY <1>1 DEF NewMfact
<1>6. NewMfact(a) = f - a - f
  BY <1>1, <1>4, <1>5
<1>7. CRem(-a, a) = d % d
  BY <1>1 DEF CRem
<1> QED
  BY <1>1, <1>2, <1>6, <1>7

\* A step of setmfact ends on a multiple of its argument, not past it and not
\* the other way, unless it is a step down by more than the value, which ends on
\* its own size: for every argument and value (dwm.c:19492).
THEOREM MfactLands == TilingSpec => MfactSteps
<1> DEFINE Lands(a) ==
      mfact' # mfact /\ mfact' = NewMfact(a) =>
         /\ CRem(mfact', a) = 0
         /\ CASE a > 0                    -> mfact' \in (mfact + 1)..(mfact + a)
              [] a < 0 /\ mfact + a >= 0  -> mfact' \in (mfact + a)..(mfact - 1)
              [] a < 0 /\ mfact + a < 0   -> mfact' = -a
<1>1. Settled => \A a \in MfactArgs \cap ((-99..99) \ {0}) : Lands(a)
  <2> SUFFICES ASSUME Settled, NEW a \in (-99..99) \ {0}, mfact' = NewMfact(a)
               PROVE  Lands(a)
    OBVIOUS
  <2>1. mfact \in 5..95
    BY DEF Settled
  <2> DEFINE P == mfact' \in (mfact + 1)..(mfact + a)
             Q == mfact' \in (mfact + a)..(mfact - 1)
             R == mfact' = -a
  <2>2. CASE a > 0
    <3>1. CRem(mfact', a) = 0 /\ P /\ ~(a < 0) /\ a > 0
      BY <2>1, <2>2, StepLands
    <3> HIDE DEF P, Q, R
    <3>2. (CASE a > 0 -> P [] a < 0 /\ mfact + a >= 0 -> Q [] a < 0 /\ mfact + a < 0 -> R)
      BY <3>1
    <3> QED
      BY <3>1, <3>2 DEF P, Q, R
  <2>3. CASE a < 0 /\ mfact + a >= 0
    <3>1. CRem(mfact', a) = 0 /\ Q /\ ~(a > 0) /\ ~(mfact + a < 0)
      BY <2>1, <2>3, StepLands
    <3> HIDE DEF P, Q, R
    <3>2. (CASE a > 0 -> P [] a < 0 /\ mfact + a >= 0 -> Q [] a < 0 /\ mfact + a < 0 -> R)
      BY <2>3, <3>1
    <3> QED
      BY <3>1, <3>2 DEF P, Q, R
  <2>4. CASE a < 0 /\ mfact + a < 0
    <3>1. CRem(mfact', a) = 0 /\ R /\ ~(a > 0) /\ ~(mfact + a >= 0)
      BY <2>1, <2>4, StepOver
    <3> HIDE DEF P, Q, R
    <3>2. (CASE a > 0 -> P [] a < 0 /\ mfact + a >= 0 -> Q [] a < 0 /\ mfact + a < 0 -> R)
      BY <2>4, <3>1
    <3> QED
      BY <3>1, <3>2 DEF P, Q, R
  <2>5. a > 0 \/ (a < 0 /\ mfact + a >= 0) \/ (a < 0 /\ mfact + a < 0)
    BY <2>1
  <2> HIDE DEF Lands
  <2> QED
    BY <2>2, <2>3, <2>4, <2>5, Zenon
<1>2. [](Settled) => MfactSteps
  BY <1>1, PTL DEF MfactSteps
<1> QED
  BY <1>2, SettledAlways, PTL

\* The parts of the layouts of two areas: where the masters' column starts and
\* where the stack's does, and what is in each.
SideWidth(m) == Part(m, Wide(m), m.ih)

MainWidth(m) == Other(m, Wide(m), m.ih)

MainX(m) == IF Parted(m) /\ m.mirror THEN LeftEnd(m) + SideWidth(m) + m.ih ELSE LeftEnd(m)

SideX(m) == IF Parted(m) /\ ~m.mirror THEN LeftEnd(m) + MainWidth(m) + m.ih ELSE LeftEnd(m)

MainColumn(m) == Column(m, MainX(m), TopEnd(m), MainWidth(m), EvenSplit(Down(m, Len(Masters(m))), Masters(m)))

StackColumn(m) == Column(m, SideX(m), TopEnd(m), SideWidth(m), EvenSplit(Down(m, Tiled(m) - m.nmaster), Stack(m)))

PileHeight(m) == IF Parted(m) THEN High(m) ELSE Down(m, Len(Masters(m)))

StackPile(m) == [j \in 1..Len(Stack(m)) |-> Resize(m, SideX(m), TopEnd(m), SideWidth(m), PileHeight(m))]

\* tile and deck are their masters' column followed by the stack.
LEMMA ColumnLayouts ==
  ASSUME NEW m \in Screen
  PROVE  tile(m) = MainColumn(m) \o StackColumn(m) /\ deck(m) = MainColumn(m) \o StackPile(m)
<1>1. /\ Wide(m) \in Int /\ LeftEnd(m) \in Int /\ m.ih \in Nat /\ LeftEnd(m) = m.wx + m.oh
      /\ Wide(m) = m.ww - 2 * m.oh /\ m.wx \in Int /\ m.ww \in Int /\ m.oh \in Nat
  BY Edges DEF LeftEnd, Wide, Screen
<1>2. /\ SideWidth(m) \in Int /\ MainWidth(m) \in Int
      /\ Parted(m) => MainWidth(m) + m.ih + SideWidth(m) = Wide(m)
  BY <1>1, Parts DEF SideWidth, MainWidth
<1>3. Parted(m) => m.wx + m.ww - MainWidth(m) - m.oh = LeftEnd(m) + SideWidth(m) + m.ih
  BY <1>1, <1>2
<1>4. MainX(m) = IF Parted(m) /\ m.mirror THEN m.wx + m.ww - MainWidth(m) - m.oh ELSE LeftEnd(m)
  BY <1>3 DEF MainX
<1>5. SideX(m) = IF Parted(m) /\ ~m.mirror THEN MainX(m) + MainWidth(m) + m.ih ELSE LeftEnd(m)
  BY DEF MainX, SideX
<1>6. tile(m) = MainColumn(m) \o StackColumn(m)
  <2> DEFINE mx == IF Parted(m) /\ m.mirror THEN m.wx + m.ww - MainWidth(m) - m.oh ELSE LeftEnd(m)
             sx == IF Parted(m) /\ ~m.mirror THEN mx + MainWidth(m) + m.ih ELSE LeftEnd(m)
  <2>1. tile(m) = Column(m, mx, TopEnd(m), MainWidth(m), EvenSplit(Down(m, Len(Masters(m))), Masters(m)))
                  \o Column(m, sx, TopEnd(m), SideWidth(m), EvenSplit(Down(m, Tiled(m) - m.nmaster), Stack(m)))
    BY DEF tile, SideWidth, MainWidth, Part, Other, LeftEnd, TopEnd
  <2> QED
    BY <1>4, <1>5, <2>1 DEF MainColumn, StackColumn
<1>7. deck(m) = MainColumn(m) \o StackPile(m)
  <2>1. DOMAIN Stack(m) = 1..Len(Stack(m))
    BY Areas DEF Factors
  <2> DEFINE mx == IF Parted(m) /\ m.mirror THEN LeftEnd(m) + SideWidth(m) + m.ih ELSE LeftEnd(m)
             sx == IF Parted(m) /\ ~m.mirror THEN mx + MainWidth(m) + m.ih ELSE LeftEnd(m)
  <2>2. deck(m) = Column(m, mx, TopEnd(m), MainWidth(m), EvenSplit(Down(m, Len(Masters(m))), Masters(m)))
                  \o [j \in DOMAIN Stack(m) |-> Resize(m, sx, TopEnd(m), SideWidth(m), PileHeight(m))]
    BY DEF deck, SideWidth, MainWidth, PileHeight, Part, Other, LeftEnd, TopEnd
  <2>3. mx = MainX(m) /\ sx = SideX(m)
    BY <1>5 DEF MainX
  <2> HIDE DEF mx, sx
  <2> QED
    BY <2>1, <2>2, <2>3 DEF MainColumn, StackPile
<1> QED
  BY <1>6, <1>7

\* The windows of each area, one for each of its clients.
LEMMA AreaSeqs ==
  ASSUME NEW m \in Screen
  PROVE  /\ \A A \in {MainColumn(m), MainRow(m, MainY(m))} : A \in Seq(Rectangle(m)) /\ Len(A) = Len(Masters(m))
         /\ \A B \in {StackColumn(m), StackPile(m), StackRow(m, RowY(m)), StackRows(m), StackTurned(m)} :
               B \in Seq(Rectangle(m)) /\ Len(B) = Len(Stack(m))
         /\ MainY(m) \in Int /\ RowY(m) \in Int
<1>1. /\ Wide(m) \in Int /\ LeftEnd(m) \in Int /\ TopEnd(m) \in Int /\ High(m) \in Int /\ m.ih \in Nat /\ m.iv \in Nat
  BY Edges
<1>2. SideWidth(m) \in Int /\ MainWidth(m) \in Int
  BY <1>1, Parts DEF SideWidth, MainWidth
<1>3. /\ Len(Masters(m)) \in Int /\ Len(Stack(m)) \in Nat /\ Masters(m) \in Factors /\ Stack(m) \in Factors
      /\ Tiled(m) - m.nmaster \in Int /\ (Stack(m) # << >> => Tiled(m) - m.nmaster = Len(Stack(m)))
  BY AreaLengths, Areas
<1>4. MainX(m) \in Int /\ SideX(m) \in Int
  BY <1>1, <1>2 DEF MainX, SideX
<1>5. MainColumn(m) \in Seq(Rectangle(m)) /\ Len(MainColumn(m)) = Len(Masters(m))
  <2>1. Upright(m, MainColumn(m), Len(Masters(m)), MainX(m), TopEnd(m), MainWidth(m), BottomEnd(m))
    BY <1>2, <1>3, <1>4, AreaColumn DEF MainColumn
  <2> QED
    BY <2>1 DEF Upright
<1>6. StackColumn(m) \in Seq(Rectangle(m)) /\ Len(StackColumn(m)) = Len(Stack(m))
  <2>1. Upright(m, StackColumn(m), Len(Stack(m)), SideX(m), TopEnd(m), SideWidth(m), BottomEnd(m))
    BY <1>2, <1>3, <1>4, AreaColumn DEF StackColumn
  <2> QED
    BY <2>1 DEF Upright
<1>7. MainY(m) \in Int /\ RowY(m) \in Int
  BY <1>1, RowsRoom, FlippedUnder DEF MainY, RowY, FlipIf
<1>8. /\ MainRow(m, MainY(m)) \in Seq(Rectangle(m)) /\ Len(MainRow(m, MainY(m))) = Len(Masters(m))
      /\ StackRow(m, RowY(m)) \in Seq(Rectangle(m)) /\ Len(StackRow(m, RowY(m))) = Len(Stack(m))
      /\ StackRows(m) \in Seq(Rectangle(m)) /\ Len(StackRows(m)) = Len(Stack(m))
  BY <1>7, RowsLie DEF Level, Upright
<1>9. StackPile(m) \in Seq(Rectangle(m)) /\ Len(StackPile(m)) = Len(Stack(m))
  <2>1. PileHeight(m) \in Int
    BY <1>1, <1>3, Lengths DEF PileHeight
  <2>2. StackPile(m) \in [1..Len(Stack(m)) -> Rectangle(m)]
    BY <1>1, <1>2, <1>4, <2>1, ResizeRect DEF StackPile
  <2> QED
    BY <1>3, <2>2, SeqMade
<1>10. StackTurned(m) \in Seq(Rectangle(m)) /\ Len(StackTurned(m)) = Len(Stack(m))
  <2>1. CASE m.mirror
    BY <2>1, TurnedOver
  <2>2. CASE ~m.mirror
    BY <1>8, <2>2, NotTurned
  <2> QED
    BY <2>1, <2>2
<1> QED
  BY <1>5, <1>6, <1>7, <1>8, <1>9, <1>10

\* Of two arrangements, the areas whose clients have the same cfacts are the
\* same.
AreaKept(a, b, R, S) ==
  \A i \in 1..Tiled(a) :
    \/ i <= Len(Masters(a)) /\ Masters(a) = Masters(b)
    \/ Len(Masters(a)) < i /\ Stack(a) = Stack(b)
    => R[i] = S[i]

\* Monitors that differ in the value of a size factor only have as many masters
\* as each other, and as many windows in the stack.
LEMMA AlikeLengths ==
  ASSUME NEW a \in Screen, NEW b \in Screen, Alike(a, b)
  PROVE  /\ Len(Masters(a)) \in Nat /\ Len(Stack(a)) \in Nat
         /\ Tiled(a) = Len(Masters(a)) + Len(Stack(a))
         /\ Len(Masters(a)) = Len(Masters(b)) /\ Len(Stack(a)) = Len(Stack(b))
BY AreaLengths, Areas DEF Alike

\* If the masters' part depends on their factors only and the stack on its own,
\* the layout made of both keeps the area that has no new factor.
LEMMA JoinKept ==
  ASSUME NEW a \in Screen, NEW b \in Screen, Alike(a, b),
         NEW T1, NEW T2, NEW T3, NEW T4,
         NEW A \in Seq(T1), NEW B \in Seq(T2), NEW C \in Seq(T3), NEW D \in Seq(T4),
         Len(A) = Len(Masters(a)), Len(B) = Len(Stack(a)),
         Len(C) = Len(Masters(b)), Len(D) = Len(Stack(b)),
         Masters(a) = Masters(b) => A = C, Stack(a) = Stack(b) => B = D
  PROVE  AreaKept(a, b, A \o B, C \o D)
<1> DEFINE k == Len(Masters(a))
           l == Len(Stack(a))
<1>1. /\ k \in Nat /\ l \in Nat /\ Tiled(a) = k + l
      /\ Len(A) = k /\ Len(B) = l /\ Len(C) = k /\ Len(D) = l
  BY AlikeLengths
<1> SUFFICES ASSUME NEW i \in 1..(k + l),
                    (i <= k /\ Masters(a) = Masters(b)) \/ (k < i /\ Stack(a) = Stack(b))
             PROVE  (A \o B)[i] = (C \o D)[i]
  BY <1>1 DEF AreaKept
<1> HIDE DEF k, l
<1>2. /\ (A \o B)[i] = IF i <= k THEN A[i] ELSE B[i - k]
      /\ (C \o D)[i] = IF i <= k THEN C[i] ELSE D[i - k]
  BY <1>1
<1> QED
  BY <1>1, <1>2

\* tile, deck, bstack and bstackhoriz keep the area that has no new factor.
LEMMA AreasKept ==
  ASSUME NEW a \in Screen, NEW b \in Screen, Alike(a, b), a.mirror = b.mirror
  PROVE  /\ AreaKept(a, b, tile(a), tile(b)) /\ AreaKept(a, b, deck(a), deck(b))
         /\ AreaKept(a, b, bstack(a), bstack(b)) /\ AreaKept(a, b, bstackhoriz(a), bstackhoriz(b))
<1>1. /\ Wide(a) = Wide(b) /\ High(a) = High(b) /\ (Parted(a) <=> Parted(b))
      /\ \A k : Across(a, k) = Across(b, k) /\ Down(a, k) = Down(b, k)
      /\ \A size, gap : StackPart(a, size, gap) = StackPart(b, size, gap)
      /\ \A x, y, w, h : Resize(a, x, y, w, h) = Resize(b, x, y, w, h)
  BY AlikeSizes
<1>2. /\ LeftEnd(a) = LeftEnd(b) /\ TopEnd(a) = TopEnd(b) /\ a.ih = b.ih /\ a.iv = b.iv
      /\ Tiled(a) - a.nmaster = Tiled(b) - b.nmaster
  BY DEF Alike, LeftEnd, TopEnd
<1>3. \A size, gap : Part(a, size, gap) = Part(b, size, gap) /\ Other(a, size, gap) = Other(b, size, gap)
  BY <1>1 DEF Part, Other
<1>4. /\ SideWidth(a) = SideWidth(b) /\ MainWidth(a) = MainWidth(b)
      /\ MainHeight(a) = MainHeight(b) /\ PartHeight(a) = PartHeight(b)
  BY <1>1, <1>2, <1>3 DEF SideWidth, MainWidth, MainHeight, PartHeight
<1>5. MainX(a) = MainX(b) /\ SideX(a) = SideX(b) /\ StackY(a) = StackY(b)
  BY <1>1, <1>2, <1>4 DEF MainX, SideX, StackY
<1>6. /\ Len(Masters(a)) = Len(Masters(b)) /\ Len(Stack(a)) = Len(Stack(b))
      /\ Tiled(a) = Len(Masters(a)) + Len(Stack(a)) /\ Tiled(a) = Tiled(b)
  BY AlikeLengths DEF Alike
<1>7. \A x, y, lens, s : Row(a, x, y, lens, s) = Row(b, x, y, lens, s) /\ Column(a, x, y, s, lens) = Column(b, x, y, s, lens)
  BY AlikeLines
<1>8. \A y, h : Flipped(a, y, h) = Flipped(b, y, h)
  BY DEF Flipped, Alike
<1>9. PileHeight(a) = PileHeight(b) /\ StackHeight(a) = StackHeight(b)
  BY <1>1, <1>2, <1>4, <1>6 DEF PileHeight, StackHeight
<1>10. Masters(a) = Masters(b) => MainColumn(a) = MainColumn(b) /\ MainRow(a, MainY(a)) = MainRow(b, MainY(b))
  <2>1. MainY(a) = MainY(b)
    BY <1>2, <1>4, <1>8 DEF MainY, FlipIf
  <2> QED
    BY <1>1, <1>2, <1>4, <1>5, <1>6, <1>7, <1>9, <2>1 DEF MainColumn, MainRow
<1>11. Stack(a) = Stack(b) => /\ StackColumn(a) = StackColumn(b) /\ StackPile(a) = StackPile(b)
                              /\ StackRow(a, RowY(a)) = StackRow(b, RowY(b)) /\ StackTurned(a) = StackTurned(b)
  <2>1. RowY(a) = RowY(b)
    BY <1>4, <1>5, <1>8 DEF RowY, FlipIf
  <2>2. Stack(a) = Stack(b) => /\ StackColumn(a) = StackColumn(b) /\ StackPile(a) = StackPile(b)
                               /\ StackRow(a, RowY(a)) = StackRow(b, RowY(b)) /\ StackRows(a) = StackRows(b)
    BY <1>1, <1>2, <1>4, <1>5, <1>7, <1>9, <2>1 DEF StackColumn, StackPile, StackRow, StackRows
  <2>3. Stack(a) = Stack(b) => \A y, size, j : FlippedCut(a, y, size, j) = FlippedCut(b, y, size, j)
    BY <1>8 DEF FlippedCut
  <2> QED
    BY <1>9, <2>2, <2>3 DEF StackTurned
<1>12. AreaKept(a, b, tile(a), tile(b)) /\ AreaKept(a, b, deck(a), deck(b))
  <2>1. /\ tile(a) = MainColumn(a) \o StackColumn(a) /\ deck(a) = MainColumn(a) \o StackPile(a)
        /\ tile(b) = MainColumn(b) \o StackColumn(b) /\ deck(b) = MainColumn(b) \o StackPile(b)
    BY ColumnLayouts
  <2>2. /\ AreaKept(a, b, MainColumn(a) \o StackColumn(a), MainColumn(b) \o StackColumn(b))
        /\ AreaKept(a, b, MainColumn(a) \o StackPile(a), MainColumn(b) \o StackPile(b))
    BY <1>10, <1>11, AreaSeqs, JoinKept
  <2> QED
    BY <2>1, <2>2
<1>13. AreaKept(a, b, bstack(a), bstack(b)) /\ AreaKept(a, b, bstackhoriz(a), bstackhoriz(b))
  <2>1. /\ AreaKept(a, b, MainRow(a, MainY(a)) \o StackRow(a, RowY(a)), MainRow(b, MainY(b)) \o StackRow(b, RowY(b)))
        /\ AreaKept(a, b, MainRow(a, MainY(a)) \o StackTurned(a), MainRow(b, MainY(b)) \o StackTurned(b))
    BY <1>10, <1>11, AreaSeqs, JoinKept
  <2> QED
    BY <2>1, RowLayouts
<1> QED
  BY <1>12, <1>13

\* A row has a window for each of its facts.
LEMMA RowListing ==
  ASSUME NEW m, NEW x, NEW y, NEW h, NEW facts \in Factors, NEW lens,
         DOMAIN lens = DOMAIN facts
  PROVE  \E T : Row(m, x, y, lens, h) \in Seq(T) /\ Len(Row(m, x, y, lens, h)) = Len(facts)
<1> DEFINE R == Row(m, x, y, lens, h)
           n == Len(facts)
<1>1. n \in Nat /\ DOMAIN lens = 1..n
  BY DEF Factors
<1>2. R = [j \in 1..n |-> R[j]]
  BY <1>1 DEF Row
<1> HIDE DEF R, n
<1>3. R \in Seq({R[j] : j \in 1..n}) /\ Len(R) = n
  BY <1>1, <1>2, ListingLength
<1> QED
  BY <1>3 DEF R, n

\* centredfloatingmaster keeps the area that has no new factor.
LEMMA FloatKept ==
  ASSUME NEW a \in Screen, NEW b \in Screen, Alike(a, b)
  PROVE  AreaKept(a, b, centredfloatingmaster(a), centredfloatingmaster(b))
<1>2. /\ Wide(a) = Wide(b) /\ High(a) = High(b) /\ (Parted(a) <=> Parted(b))
      /\ \A k : Across(a, k) = Across(b, k)
  BY AlikeSizes
<1>3. /\ a.wx = b.wx /\ a.wy = b.wy /\ a.ww = b.ww /\ a.wh = b.wh /\ a.oh = b.oh /\ a.ov = b.ov
      /\ a.ih = b.ih /\ a.mfact = b.mfact /\ a.nmaster = b.nmaster /\ Tiled(a) = Tiled(b)
      /\ a.bw = b.bw /\ a.bh = b.bh /\ a.minbh = b.minbh /\ a.iv = b.iv
  BY DEF Alike
<1>4. Len(Masters(a)) = Len(Masters(b))
  BY AlikeLengths
<1>5. FloatWidth(a) = FloatWidth(b) /\ FloatHeight(a) = FloatHeight(b)
  BY <1>2, <1>3, <1>4 DEF FloatWidth, FloatHeight
<1>6. FloatX(a) = FloatX(b) /\ FloatY(a) = FloatY(b)
  BY <1>2, <1>3, <1>5 DEF FloatX, FloatY
<1>7. Alike(Tightened(a), Tightened(b))
  <2> DEFINE g == IF Parted(a) THEN (8 * a.ih) \div 10 ELSE a.ih
  <2>1. Tightened(a) = [a EXCEPT !.ih = g] /\ Tightened(b) = [b EXCEPT !.ih = g]
    BY <1>2, <1>3 DEF Tightened
  <2> HIDE DEF g
  <2>2. ASSUME NEW m \in Screen
        PROVE  /\ [m EXCEPT !.ih = g].wx = m.wx /\ [m EXCEPT !.ih = g].wy = m.wy
               /\ [m EXCEPT !.ih = g].ww = m.ww /\ [m EXCEPT !.ih = g].wh = m.wh
               /\ [m EXCEPT !.ih = g].bw = m.bw /\ [m EXCEPT !.ih = g].bh = m.bh
               /\ [m EXCEPT !.ih = g].minbh = m.minbh /\ [m EXCEPT !.ih = g].oh = m.oh
               /\ [m EXCEPT !.ih = g].ov = m.ov /\ [m EXCEPT !.ih = g].iv = m.iv
               /\ [m EXCEPT !.ih = g].ih = g /\ [m EXCEPT !.ih = g].nmaster = m.nmaster
               /\ [m EXCEPT !.ih = g].mfact = m.mfact /\ [m EXCEPT !.ih = g].cf = m.cf
    BY DEF Screen
  <2> QED
    BY <1>3, <2>1, <2>2 DEF Alike, Tiled
<1>8. Masters(a) = Masters(b) => FloatRow(a) = FloatRow(b)
  BY <1>5, <1>6, <1>7, AlikeLines DEF FloatRow
<1>9. Stack(a) = Stack(b) => UnderRow(a) = UnderRow(b)
  BY <1>2, <1>3, AlikeLines DEF UnderRow
<1> QED
  BY <1>8, <1>9, FloatRows, JoinKept

\* The two rows of horizgrid.
TopFacts(m) == SubSeq(m.cf, 1, TopCount(Tiled(m)))

LowFacts(m) == SubSeq(m.cf, TopCount(Tiled(m)) + 1, Tiled(m))

LowHeight(m) == (High(m) - m.iv) \div 2

TopHeight(m) == IF Tiled(m) > TopCount(Tiled(m)) THEN High(m) - LowHeight(m) - m.iv ELSE High(m)

TopWidth(m) == IF Tiled(m) > TopCount(Tiled(m)) THEN Across(m, TopCount(Tiled(m))) ELSE Wide(m)

TopLens(m) == LET rest == Leftover(TopHeight(m), TopFacts(m)) IN Split(TopWidth(m), TopFacts(m), LAMBDA j : j < rest)

TopRow(m) == Row(m, LeftEnd(m), TopEnd(m), TopLens(m), TopHeight(m))

LowRow(m) == Row(m, LeftEnd(m), TopEnd(m) + TopHeight(m) + m.iv,
                 EvenSplit(Across(m, Tiled(m) - TopCount(Tiled(m))), LowFacts(m)), LowHeight(m))

RowKept(a, b, R, S) ==
  \A i \in 1..Tiled(a) :
    \/ i <= TopCount(Tiled(a)) /\ TopFacts(a) = TopFacts(b)
    \/ TopCount(Tiled(a)) < i /\ LowFacts(a) = LowFacts(b)
    => R[i] = S[i]

\* horizgrid keeps the row that has no new factor.
LEMMA RowsKept ==
  ASSUME NEW a \in Screen, NEW b \in Screen, Alike(a, b), a.cf # << >>, b.cf # << >>
  PROVE  RowKept(a, b, horizgrid(a), horizgrid(b))
<1>1. ASSUME NEW m PROVE horizgrid(m) = TopRow(m) \o LowRow(m)
  BY DEF horizgrid, TopRow, LowRow, TopLens, TopWidth, TopHeight, LowHeight, TopFacts, LowFacts, TopCount, LeftEnd, TopEnd
<1>2. /\ Wide(a) = Wide(b) /\ High(a) = High(b) /\ \A k : Across(a, k) = Across(b, k)
  BY AlikeSizes
<1>3. /\ LeftEnd(a) = LeftEnd(b) /\ TopEnd(a) = TopEnd(b) /\ a.ih = b.ih /\ a.iv = b.iv /\ Tiled(a) = Tiled(b)
  BY DEF Alike, LeftEnd, TopEnd
<1>4. LowHeight(a) = LowHeight(b)
  BY <1>2, <1>3 DEF LowHeight
<1>5. TopHeight(a) = TopHeight(b) /\ TopWidth(a) = TopWidth(b)
  BY <1>2, <1>3, <1>4 DEF TopHeight, TopWidth
<1>6. TopFacts(a) = TopFacts(b) => TopRow(a) = TopRow(b)
  <2>1. TopFacts(a) = TopFacts(b) => TopLens(a) = TopLens(b)
    BY <1>5 DEF TopLens, Split
  <2> QED
    BY <1>3, <1>5, <2>1, AlikeLines DEF TopRow
<1>7. LowFacts(a) = LowFacts(b) => LowRow(a) = LowRow(b)
  BY <1>2, <1>3, <1>4, <1>5, AlikeLines DEF LowRow
<1> DEFINE n == Tiled(a)
           k == TopCount(n)
<1>8. n \in Nat /\ k \in 0..n
  <2>1. n \in Nat /\ n # 0
    BY DEF Screen, Tiled, Factors
  <2> HIDE DEF n
  <2> QED
    BY <2>1, TopCounts
<1>9. ASSUME NEW m \in Screen, m = a \/ m = b
      PROVE  /\ \E T : TopRow(m) \in Seq(T) /\ Len(TopRow(m)) = k
             /\ \E T : LowRow(m) \in Seq(T) /\ Len(LowRow(m)) = n - k
  <2>1. m.cf \in Seq(Nat \ {0}) /\ Len(m.cf) = n /\ Tiled(m) = n
    BY <1>3, <1>9 DEF Screen, Factors, Tiled
  <2> HIDE DEF k, n
  <2>2. /\ SubSeq(m.cf, 1, k) \in Seq(Nat \ {0}) /\ Len(SubSeq(m.cf, 1, k)) = k
        /\ SubSeq(m.cf, k + 1, n) \in Seq(Nat \ {0}) /\ Len(SubSeq(m.cf, k + 1, n)) = n - k
    BY <1>8, <2>1
  <2>3. /\ TopFacts(m) \in Factors /\ Len(TopFacts(m)) = k
        /\ LowFacts(m) \in Factors /\ Len(LowFacts(m)) = n - k
    BY <2>1, <2>2 DEF TopFacts, LowFacts, Factors, k
  <2>4. \A size, facts : DOMAIN EvenSplit(size, facts) = DOMAIN facts
    BY DEF EvenSplit, Split
  <2>5. DOMAIN TopLens(m) = DOMAIN TopFacts(m)
    BY DEF TopLens, Split
  <2> QED
    BY <2>3, <2>4, <2>5, RowListing DEF TopRow, LowRow
<1> HIDE DEF k
<1>10. RowKept(a, b, TopRow(a) \o LowRow(a), TopRow(b) \o LowRow(b))
  <2>1. PICK T1 : TopRow(a) \in Seq(T1) /\ Len(TopRow(a)) = k
    BY <1>9
  <2>2. PICK T2 : LowRow(a) \in Seq(T2) /\ Len(LowRow(a)) = n - k
    BY <1>9
  <2>3. PICK T3 : TopRow(b) \in Seq(T3) /\ Len(TopRow(b)) = k
    BY <1>9
  <2>4. PICK T4 : LowRow(b) \in Seq(T4) /\ Len(LowRow(b)) = n - k
    BY <1>9
  <2>5. ASSUME NEW i \in 1..n
        PROVE  /\ (TopRow(a) \o LowRow(a))[i] = IF i <= k THEN TopRow(a)[i] ELSE LowRow(a)[i - k]
               /\ (TopRow(b) \o LowRow(b))[i] = IF i <= k THEN TopRow(b)[i] ELSE LowRow(b)[i - k]
    <3> HIDE DEF n
    <3> QED
      BY <1>8, <2>1, <2>2, <2>3, <2>4
  <2>6. \A i \in 1..n : ~(i <= k /\ k < i)
    BY <1>8
  <2>7. ASSUME NEW i \in 1..n, (i <= k /\ TopFacts(a) = TopFacts(b)) \/ (k < i /\ LowFacts(a) = LowFacts(b))
        PROVE  (TopRow(a) \o LowRow(a))[i] = (TopRow(b) \o LowRow(b))[i]
    <3>1. CASE i <= k
      BY <1>6, <2>5, <2>6, <2>7, <3>1
    <3>2. CASE ~(i <= k)
      BY <1>7, <2>5, <2>7, <3>2
    <3> QED
      BY <3>1, <3>2
  <2> QED
    BY <2>7 DEF RowKept, k
<1> QED
  BY <1>1, <1>10

\* The three columns of centredmaster.
CentreFacts(m) == IF m.nmaster = 0 THEN m.cf ELSE Masters(m)

CentreColumn(m) ==
  Column(m, CentreX(m), TopEnd(m), CentreWidth(m), EvenSplit(Down(m, Len(CentreFacts(m))), CentreFacts(m)))

RightColumn(m) == SideColumn(m, CentreX(m) + CentreWidth(m) + m.ih, RightWidth(m), 0)

LeftColumn(m) == SideColumn(m, LeftEnd(m), LeftWidth(m), 1)

InTurn(m) == [j \in DOMAIN Stack(m) |-> IF j % 2 = 1 THEN RightColumn(m)[(j + 1) \div 2] ELSE LeftColumn(m)[j \div 2]]

\* centredmaster is its centre column followed by the sides by turns.
LEMMA CentreParts ==
  ASSUME NEW m
  PROVE  centredmaster(m) = CentreColumn(m) \o IF m.nmaster = 0 THEN << >> ELSE InTurn(m)
<1> DEFINE both == Parted(m) /\ Len(Stack(m)) > 1
           mw == CentreWidth(m)
           lw == IF both THEN (Wide(m) - 2 * m.ih - mw) \div 2 ELSE 0
           rw == Wide(m) - mw - m.ih - IF both THEN lw + m.ih ELSE 0
           mx == m.wx + m.oh + IF both THEN lw + m.ih ELSE 0
           right == SideColumn(m, mx + mw + m.ih, rw, 0)
           left  == SideColumn(m, m.wx + m.oh, lw, 1)
<1>1. lw = LeftWidth(m) /\ rw = RightWidth(m) /\ mx = CentreX(m)
  BY DEF LeftWidth, RightWidth, CentreX, Sides2, LeftEnd
<1>2. centredmaster(m) = Column(m, mx, m.wy + m.ov, mw, EvenSplit(Down(m, Len(CentreFacts(m))), CentreFacts(m)))
      \o IF m.nmaster = 0 THEN << >>
         ELSE [j \in DOMAIN Stack(m) |-> IF j % 2 = 1 THEN right[(j + 1) \div 2] ELSE left[j \div 2]]
  BY DEF centredmaster, CentreFacts
<1> HIDE DEF lw, rw, mx
<1> QED
  BY <1>1, <1>2 DEF CentreColumn, InTurn, RightColumn, LeftColumn, LeftEnd, TopEnd

\* Columns of the same clients are the same.
LEMMA AlikeCentre ==
  ASSUME NEW a \in Screen, NEW b \in Screen, Alike(a, b)
  PROVE  /\ CentreFacts(a) = CentreFacts(b) => CentreColumn(a) = CentreColumn(b)
         /\ Side(a, 0) = Side(b, 0) => RightColumn(a) = RightColumn(b)
         /\ Side(a, 1) = Side(b, 1) => LeftColumn(a) = LeftColumn(b)
<1>1. /\ Wide(a) = Wide(b) /\ (Parted(a) <=> Parted(b))
      /\ \A k : Down(a, k) = Down(b, k)
  BY AlikeSizes
<1>2. /\ LeftEnd(a) = LeftEnd(b) /\ TopEnd(a) = TopEnd(b) /\ a.ih = b.ih /\ a.iv = b.iv /\ a.mfact = b.mfact
      /\ a.nmaster = b.nmaster /\ a.wy = b.wy /\ a.ov = b.ov
  BY DEF Alike, LeftEnd, TopEnd
<1>3. Len(Stack(a)) = Len(Stack(b))
  BY AlikeLengths
<1>4. Sides2(a) <=> Sides2(b)
  BY <1>1, <1>3 DEF Sides2
<1>5. CentreWidth(a) = CentreWidth(b)
  BY <1>1, <1>2, <1>3 DEF CentreWidth
<1>6. LeftWidth(a) = LeftWidth(b)
  BY <1>1, <1>2, <1>4, <1>5 DEF LeftWidth
<1>7. RightWidth(a) = RightWidth(b) /\ CentreX(a) = CentreX(b)
  BY <1>1, <1>2, <1>4, <1>5, <1>6 DEF RightWidth, CentreX
<1>8. CentreFacts(a) = CentreFacts(b) => CentreColumn(a) = CentreColumn(b)
  BY <1>1, <1>2, <1>5, <1>7, AlikeLines DEF CentreColumn
<1>9. ASSUME NEW x, NEW w, NEW first, Side(a, first) = Side(b, first)
      PROVE  SideColumn(a, x, w, first) = SideColumn(b, x, w, first)
  <2>1. SideLens(a, first) = SideLens(b, first)
    <3>1. \A rest, j : SidePixel(a, first, rest, j) <=> SidePixel(b, first, rest, j)
      BY <1>2 DEF SidePixel
    <3> QED
      BY <1>1, <1>9, <3>1 DEF SideLens, Split
  <2>2. ASSUME NEW m PROVE SideColumn(m, x, w, first) = Column(m, x, m.wy + m.ov, w, SideLens(m, first))
    BY DEF SideColumn, SideLens
  <2> QED
    BY <1>2, <2>1, <2>2, AlikeLines
<1> QED
  BY <1>2, <1>5, <1>6, <1>7, <1>8, <1>9 DEF RightColumn, LeftColumn

\* A client's cfact is one of the facts of its area alone.
Changed(a, b, j) ==
  Alike(a, b) /\ j \in 1..Tiled(a) /\ \A i \in 1..Tiled(a) : i # j => a.cf[i] = b.cf[i]

\* A new factor of one window is none of the factors of the windows outside its
\* area.
LEMMA Spared ==
  ASSUME NEW a \in Screen, NEW b \in Screen, NEW j, Changed(a, b, j)
  PROVE  /\ a.nmaster < j => Masters(a) = Masters(b)
         /\ j <= a.nmaster => Stack(a) = Stack(b)
         /\ TopCount(Tiled(a)) < j => TopFacts(a) = TopFacts(b)
         /\ j <= TopCount(Tiled(a)) => LowFacts(a) = LowFacts(b)
         /\ \A h \in 1..Len(Stack(a)) : h # j - a.nmaster => Stack(a)[h] = Stack(b)[h]
<1> DEFINE n == Tiled(a)
           d == a.nmaster
           t == TopCount(n)
           qa == a.cf
           qb == b.cf
<1>1. /\ Alike(a, b) /\ j \in 1..n /\ \A i \in 1..n : i # j => qa[i] = qb[i]
  BY DEF Changed
<1>2. /\ qa \in Seq(Nat \ {0}) /\ qb \in Seq(Nat \ {0}) /\ Len(qa) = n /\ Len(qb) = n /\ n \in Nat
      /\ d \in Nat /\ d = b.nmaster /\ Tiled(b) = n
  BY <1>1, Areas DEF Alike, Factors, Tiled
<1>3. t \in 0..n
  <2>1. n \in Nat /\ n # 0
    BY <1>1, <1>2
  <2> HIDE DEF n
  <2> QED
    BY <2>1, TopCounts
<1>4. /\ Masters(a) = SubSeq(qa, 1, Least(d, n)) /\ Masters(b) = SubSeq(qb, 1, Least(d, n))
      /\ Stack(a) = SubSeq(qa, d + 1, n) /\ Stack(b) = SubSeq(qb, d + 1, n)
      /\ TopFacts(a) = SubSeq(qa, 1, t) /\ TopFacts(b) = SubSeq(qb, 1, t)
      /\ LowFacts(a) = SubSeq(qa, t + 1, n) /\ LowFacts(b) = SubSeq(qb, t + 1, n)
  BY <1>2 DEF Masters, Stack, TopFacts, LowFacts
<1>5. Len(Stack(a)) = n - Least(d, n)
  BY Areas
<1> HIDE DEF n, d, t, qa, qb
<1>6. Least(d, n) \in Nat /\ Least(d, n) <= n /\ Least(d, n) <= d /\ (d < n => Least(d, n) = d) /\ (d >= n => Least(d, n) = n)
  BY <1>2 DEF Least
<1>7. d < j => Masters(a) = Masters(b)
  <2>1. d < j => \A i \in 1..Least(d, n) : i \in 1..n /\ i # j
    BY <1>1, <1>2, <1>6
  <2>2. d < j => \A i \in 1..Least(d, n) : qa[i] = qb[i]
    BY <1>1, <2>1
  <2>3. 1 \in Nat \ {0}
    OBVIOUS
  <2> QED
    BY <1>2, <1>4, <1>6, <2>2, <2>3, Stretch
<1>8. j <= d => Stack(a) = Stack(b)
  <2>1. j <= d => \A i \in (d + 1)..n : i \in 1..n /\ i # j
    BY <1>1, <1>2
  <2>2. j <= d => \A i \in (d + 1)..n : qa[i] = qb[i]
    BY <1>1, <2>1
  <2> DEFINE p == d + 1
  <2>3. p \in Nat \ {0}
    BY <1>2
  <2> HIDE DEF p
  <2>4. j <= d => \A i \in p..n : qa[i] = qb[i]
    BY <2>2 DEF p
  <2>5. j <= d => SubSeq(qa, p, n) = SubSeq(qb, p, n)
    BY <1>2, <2>3, <2>4, Stretch
  <2> QED
    BY <1>4, <2>5 DEF p
<1>9. t < j => TopFacts(a) = TopFacts(b)
  <2>1. t < j => \A i \in 1..t : i \in 1..n /\ i # j
    BY <1>1, <1>2, <1>3
  <2>2. t < j => \A i \in 1..t : qa[i] = qb[i]
    BY <1>1, <2>1
  <2>3. 1 \in Nat \ {0} /\ t \in Nat
    BY <1>2, <1>3
  <2> QED
    BY <1>2, <1>4, <2>2, <2>3, Stretch
<1>10. j <= t => LowFacts(a) = LowFacts(b)
  <2>1. j <= t => \A i \in (t + 1)..n : i \in 1..n /\ i # j
    BY <1>1, <1>2, <1>3
  <2>2. j <= t => \A i \in (t + 1)..n : qa[i] = qb[i]
    BY <1>1, <2>1
  <2> DEFINE p == t + 1
  <2>3. p \in Nat \ {0}
    BY <1>2, <1>3
  <2> HIDE DEF p
  <2>4. j <= t => \A i \in p..n : qa[i] = qb[i]
    BY <2>2 DEF p
  <2>5. j <= t => SubSeq(qa, p, n) = SubSeq(qb, p, n)
    BY <1>2, <2>3, <2>4, Stretch
  <2> QED
    BY <1>4, <2>5 DEF p
<1>11. ASSUME NEW h \in 1..Len(Stack(a)), h # j - d PROVE Stack(a)[h] = Stack(b)[h]
  <2>1. h \in 1..(n - Least(d, n)) /\ Least(d, n) \in Int /\ j \in Int
    BY <1>1, <1>2, <1>5, <1>6
  <2> DEFINE p == d + 1
             g == d + h
  <2>2. p \in Nat \ {0} /\ g \in 1..n /\ g # j /\ h \in 1..(1 + n - p) /\ p + h - 1 = g
    <3>1. d < n /\ h \in 1..(n - d)
      BY <1>2, <1>6, <2>1
    <3>2. d \in Nat /\ n \in Nat /\ h \in Int /\ 1 <= h /\ h <= n - d
      BY <1>2, <3>1
    <3>3. h # j - d
      BY <1>11
    <3>4. g # j
      BY <2>1, <3>2, <3>3
    <3>5. p \in Nat \ {0} /\ g \in 1..n /\ p + h - 1 = g
      BY <3>2
    <3>6. h \in 1..(1 + n - p)
      BY <3>2
    <3> QED
      BY <3>4, <3>5, <3>6
  <2>3. Stack(a) = SubSeq(qa, p, n) /\ Stack(b) = SubSeq(qb, p, n)
    BY <1>4
  <2> HIDE DEF p, g
  <2>4. Stack(a)[h] = qa[p + h - 1] /\ Stack(b)[h] = qb[p + h - 1]
    BY <1>2, <2>2, <2>3
  <2> QED
    BY <1>1, <2>2, <2>4
<1> QED
  BY <1>7, <1>8, <1>9, <1>10, <1>11 DEF d, t, n

\* A side of centredmaster's stack has every other client, so it is spared a
\* change of a master and of the other side.
LEMMA SideSpared ==
  ASSUME NEW a \in Screen, NEW b \in Screen, NEW j, Changed(a, b, j)
  PROVE  /\ j <= a.nmaster => Side(a, 0) = Side(b, 0) /\ Side(a, 1) = Side(b, 1)
         /\ a.nmaster < j /\ (j - a.nmaster) % 2 = 0 => Side(a, 0) = Side(b, 0)
         /\ a.nmaster < j /\ (j - a.nmaster) % 2 = 1 => Side(a, 1) = Side(b, 1)
<1> DEFINE l == Len(Stack(a))
           q == j - a.nmaster
<1>1. l \in Nat /\ Len(Stack(b)) = l
  BY AlikeLengths DEF Changed
<1>2. j <= a.nmaster => Stack(a) = Stack(b)
  BY Spared
<1>3. \A h \in 1..l : h # q => Stack(a)[h] = Stack(b)[h]
  BY Spared
<1>4. j \in Int /\ a.nmaster \in Nat
  BY Areas DEF Changed
<1>5. ASSUME NEW first \in {0, 1}, a.nmaster < j, first = q % 2 PROVE Side(a, first) = Side(b, first)
  <2>1. q \in Nat \ {0}
    BY <1>4, <1>5
  <2> DEFINE n == SideCount(a, first)
             s == SidePos(q)
  <2>2. s \in Nat \ {0} /\ q = 2 * s - first
    <3> HIDE DEF q, s
    <3> QED
      BY <1>5, <2>1, SideTurns DEF s
  <2>3. /\ Side(a, first) = [g \in 1..n |-> Stack(a)[first + 2 * g - 1]]
        /\ Side(b, first) = [g \in 1..n |-> Stack(b)[first + 2 * g - 1]]
    BY <1>1 DEF Side, SideCount, Half
  <2>4. n \in Nat /\ 2 * n <= l - first + 1
    <3>1. n = Half(l - first + 1)
      BY DEF SideCount
    <3> HIDE DEF n, l
    <3>2. l - first + 1 \in Nat
      BY <1>1
    <3>3. Half(l - first + 1) \in Nat
          /\ l - first + 1 \in (2 * Half(l - first + 1))..(2 * Half(l - first + 1) + 1)
      BY <3>2, HalfBounds
    <3> QED
      BY <1>1, <3>1, <3>2, <3>3
  <2> HIDE DEF n, q, s, l
  <2>5. ASSUME NEW g \in 1..n PROVE Stack(a)[first + 2 * g - 1] = Stack(b)[first + 2 * g - 1]
    <3> DEFINE h == first + 2 * g - 1
    <3>1. h \in 1..l /\ h # q
      BY <1>1, <2>2, <2>4
    <3> HIDE DEF h
    <3>2. Stack(a)[h] = Stack(b)[h]
      BY <1>3, <3>1
    <3> QED
      BY <3>2 DEF h
  <2> QED
    BY <2>3, <2>5
<1>6. j <= a.nmaster => Side(a, 0) = Side(b, 0) /\ Side(a, 1) = Side(b, 1)
  BY <1>2 DEF Side
<1>7. 0 \in {0, 1} /\ 1 \in {0, 1}
  OBVIOUS
<1> HIDE DEF q
<1>8. a.nmaster < j /\ q % 2 = 0 => Side(a, 0) = Side(b, 0)
  BY <1>5, <1>7
<1>9. a.nmaster < j /\ q % 2 = 1 => Side(a, 1) = Side(b, 1)
  BY <1>5, <1>7
<1> QED
  BY <1>6, <1>8, <1>9 DEF q

\* So its columns are.
LEMMA CentreKept ==
  ASSUME NEW a \in Screen, NEW b \in Screen, NEW j, Changed(a, b, j), a.nmaster > 0,
         NEW i \in 1..Tiled(a), SideOf(a, i) # SideOf(a, j)
  PROVE  centredmaster(a)[i] = centredmaster(b)[i]
<1> DEFINE k == Len(Masters(a))
           l == Len(Stack(a))
           d == a.nmaster
<1>1. Alike(a, b) /\ j \in 1..Tiled(a)
  BY DEF Changed
<1>2. /\ k \in Nat /\ l \in Nat /\ Tiled(a) = k + l /\ Len(Masters(b)) = k /\ Len(Stack(b)) = l
      /\ d \in Nat /\ d = b.nmaster /\ d > 0
  BY <1>1, AlikeLengths, Areas DEF Alike
<1>3. k = Least(d, Tiled(a)) /\ Tiled(a) \in Nat
  BY Areas
<1>4. (i <= k <=> i <= d) /\ (j <= k <=> j <= d) /\ (d < Tiled(a) => k = d)
  <2> DEFINE n == Tiled(a)
  <2>1. n \in Nat /\ i \in 1..n /\ j \in 1..n /\ k = Least(d, n)
    BY <1>1, <1>3
  <2> HIDE DEF k, n
  <2> QED
    BY <1>2, <2>1 DEF Least, n
<1>5. /\ DOMAIN Stack(a) = 1..l /\ DOMAIN Stack(b) = 1..l
  BY <1>2, Areas DEF Factors
<1>6. ASSUME NEW m \in Screen, m = a \/ m = b
      PROVE  /\ centredmaster(m) = CentreColumn(m) \o InTurn(m)
             /\ \E T : CentreColumn(m) \in Seq(T) /\ Len(CentreColumn(m)) = k
             /\ InTurn(m) = [h \in 1..l |-> IF h % 2 = 1 THEN RightColumn(m)[(h + 1) \div 2]
                                            ELSE LeftColumn(m)[h \div 2]]
             /\ \E T : InTurn(m) \in Seq(T) /\ Len(InTurn(m)) = l
  <2>1. m.nmaster # 0 /\ Len(Masters(m)) = k
    BY <1>2, <1>6
  <2>2. centredmaster(m) = CentreColumn(m) \o InTurn(m)
    BY <2>1, CentreParts
  <2>3. InTurn(m) = [h \in 1..l |-> IF h % 2 = 1 THEN RightColumn(m)[(h + 1) \div 2] ELSE LeftColumn(m)[h \div 2]]
    BY <1>5, <1>6 DEF InTurn
  <2>4. InTurn(m) = [h \in 1..l |-> InTurn(m)[h]]
    BY <2>3
  <2>5. CentreColumn(m) = [h \in 1..k |-> CentreColumn(m)[h]]
    <3>1. CentreFacts(m) = Masters(m) /\ Masters(m) \in Factors
      BY <2>1, Areas DEF CentreFacts
    <3>2. DOMAIN Masters(m) = 1..k
      BY <2>1, <3>1 DEF Factors
    <3>3. \A size, facts : DOMAIN EvenSplit(size, facts) = DOMAIN facts
      BY DEF EvenSplit, Split
    <3> DEFINE lens == EvenSplit(Down(m, Len(CentreFacts(m))), CentreFacts(m))
    <3>4. DOMAIN lens = 1..k
      BY <3>1, <3>2, <3>3
    <3>5. CentreColumn(m) = Column(m, CentreX(m), TopEnd(m), CentreWidth(m), lens)
      BY DEF CentreColumn
    <3> HIDE DEF lens
    <3> QED
      BY <3>4, <3>5 DEF Column
  <2>6. k \in Nat /\ l \in Nat
    BY <1>2
  <2> HIDE DEF k, l
  <2>7. CentreColumn(m) \in Seq({CentreColumn(m)[h] : h \in 1..k}) /\ Len(CentreColumn(m)) = k
    BY <2>5, <2>6, ListingLength
  <2>8. InTurn(m) \in Seq({InTurn(m)[h] : h \in 1..l}) /\ Len(InTurn(m)) = l
    BY <2>4, <2>6, ListingLength
  <2> QED
    BY <2>2, <2>3, <2>7, <2>8 DEF k, l
<1>7. ASSUME NEW m \in Screen, m = a \/ m = b
      PROVE  centredmaster(m)[i] = IF i <= k THEN CentreColumn(m)[i] ELSE InTurn(m)[i - k]
  <2>1. PICK T1 : CentreColumn(m) \in Seq(T1) /\ Len(CentreColumn(m)) = k
    BY <1>6, <1>7
  <2>2. PICK T2 : InTurn(m) \in Seq(T2) /\ Len(InTurn(m)) = l
    BY <1>6, <1>7
  <2>3. centredmaster(m) = CentreColumn(m) \o InTurn(m)
    BY <1>6, <1>7
  <2>4. i \in 1..(k + l)
    BY <1>2
  <2> HIDE DEF k, l
  <2>5. (CentreColumn(m) \o InTurn(m))[i] = IF i <= k THEN CentreColumn(m)[i] ELSE InTurn(m)[i - k]
    BY <2>1, <2>2, <2>4, JoinAt
  <2> QED
    BY <2>3, <2>5
<1>8. CASE i <= k
  <2>1. a.nmaster < j
    <3>1. i <= d
      BY <1>4, <1>8
    <3>2. SideOf(a, i) = 0
      BY <3>1 DEF SideOf
    <3>3. j <= d => SideOf(a, j) = 0
      BY DEF SideOf
    <3> QED
      BY <1>1, <1>2, <1>3, <3>2, <3>3
  <2>2. Masters(a) = Masters(b)
    BY <2>1, Spared
  <2>3. CentreFacts(a) = CentreFacts(b)
    BY <1>2, <2>2 DEF CentreFacts
  <2>4. CentreColumn(a) = CentreColumn(b)
    BY <1>1, <2>3, AlikeCentre
  <2> QED
    BY <1>7, <1>8, <2>4
<1>9. CASE ~(i <= k)
  <2> DEFINE h == i - k
  <2>1. h \in 1..l /\ ~(i <= d) /\ k = d /\ i \in Nat
    <3>1. ~(i <= d) /\ k = d
      BY <1>2, <1>3, <1>4, <1>9
    <3> QED
      BY <1>2, <1>9, <3>1
  <2>2. SideOf(a, i) = 1 + (h % 2)
    BY <1>2, <2>1 DEF SideOf
  <2>3. h % 2 \in {0, 1}
    BY <2>1
  <2>4. IF h % 2 = 1 THEN Side(a, 0) = Side(b, 0) ELSE Side(a, 1) = Side(b, 1)
    <3>1. CASE j <= d
      BY <3>1, SideSpared
    <3>2. CASE ~(j <= d)
      <4> DEFINE q == j - d
      <4>1. d < j /\ q \in Nat \ {0}
        BY <1>1, <1>2, <1>3, <3>2
      <4>2. SideOf(a, j) = 1 + (q % 2)
        BY <1>2, <3>2 DEF SideOf
      <4>3. q % 2 \in {0, 1}
        BY <4>1
      <4>4. /\ q % 2 = 0 => Side(a, 0) = Side(b, 0)
            /\ q % 2 = 1 => Side(a, 1) = Side(b, 1)
        BY <4>1, SideSpared
      <4> HIDE DEF q, h
      <4>5. h % 2 # q % 2
        BY <2>2, <4>2
      <4> QED
        BY <2>3, <4>3, <4>4, <4>5
    <3> QED
      BY <3>1, <3>2
  <2>5. /\ Side(a, 0) = Side(b, 0) => RightColumn(a) = RightColumn(b)
        /\ Side(a, 1) = Side(b, 1) => LeftColumn(a) = LeftColumn(b)
    BY <1>1, AlikeCentre
  <2> HIDE DEF h
  <2>6. ASSUME NEW m \in Screen, m = a \/ m = b
        PROVE  InTurn(m)[h] = IF h % 2 = 1 THEN RightColumn(m)[(h + 1) \div 2] ELSE LeftColumn(m)[h \div 2]
    BY <1>6, <2>1, <2>6
  <2>7. InTurn(a)[h] = InTurn(b)[h]
    BY <2>4, <2>5, <2>6
  <2> QED
    BY <1>7, <1>9, <2>7 DEF h
<1> QED
  BY <1>8, <1>9

\* Dwindle and spiral do not look at the cfacts.
LEMMA FibKept ==
  ASSUME NEW a \in Screen, NEW b \in Screen, Alike(a, b), a.mirror = b.mirror
  PROVE  dwindle(a) = dwindle(b) /\ spiral(a) = spiral(b)
<1>1. FibRun(a, TRUE) = FibRun(b, TRUE) /\ FibRun(a, FALSE) = FibRun(b, FALSE)
  BY AlikeRuns
<1>2. a.wx = b.wx /\ a.ww = b.ww /\ a.bw = b.bw /\ Tiled(a) = Tiled(b)
  BY DEF Alike
<1>3. \A g : FibX(a, g) = FibX(b, g)
  BY <1>2 DEF FibX
<1>4. \A x, y, w, h : Resize(a, x, y, w, h) = Resize(b, x, y, w, h)
  BY AlikeSizes
<1>5. \A f : FibRects(a, f) = FibRects(b, f)
  BY <1>2, <1>3, <1>4 DEF FibRects
<1>6. /\ dwindle(a) = FibRects(a, FibRun(a, TRUE)) /\ spiral(a) = FibRects(a, FibRun(a, FALSE))
      /\ dwindle(b) = FibRects(b, FibRun(b, TRUE)) /\ spiral(b) = FibRects(b, FibRun(b, FALSE))
  BY FibParts
<1> QED
  BY <1>1, <1>5, <1>6

\* The area of a client, with the layout and the monitor it depends on.
AreaIn(l, m, i) ==
  CASE l = "horizgrid" -> IF Len(m.cf) = 2 \/ i <= Len(m.cf) \div 2 THEN 0 ELSE 1
    [] l = "centredmaster" /\ i > m.nmaster /\ m.nmaster > 0 -> 1 + ((i - m.nmaster) % 2)
    [] l # "horizgrid" /\ (l # "centredmaster" \/ i <= m.nmaster \/ m.nmaster = 0) ->
         IF i <= m.nmaster THEN 0 ELSE 1

\* A change of one client's cfact leaves the windows of the other areas.
LEMMA LayoutKept ==
  ASSUME NEW a \in Screen, NEW b \in Screen, NEW j, Changed(a, b, j), a.mirror = b.mirror,
         a.cf # << >>, b.cf # << >>,
         NEW l \in LayoutNames, NEW i \in 1..Tiled(a), AreaIn(l, a, i) # AreaIn(l, a, j)
  PROVE  Arranged(l, a)[i] = Arranged(l, b)[i]
<1> DEFINE n == Tiled(a)
           k == Len(Masters(a))
           d == a.nmaster
<1>1. Alike(a, b) /\ j \in 1..n
  BY DEF Changed
<1>2. n \in Nat /\ d \in Nat /\ n = Len(a.cf) /\ k = Least(d, n)
  BY Areas DEF Tiled
<1>3. (i <= k <=> i <= d) /\ (k < i <=> d < i)
  <2>1. i \in 1..n
    OBVIOUS
  <2> HIDE DEF n, k, d
  <2> QED
    BY <1>2, <2>1 DEF Least
<1>4. CASE l \in {"tile", "deck", "bstack", "bstackhoriz", "centredfloatingmaster"}
  <2>1. AreaIn(l, a, i) = (IF i <= d THEN 0 ELSE 1) /\ AreaIn(l, a, j) = (IF j <= d THEN 0 ELSE 1)
    BY <1>4 DEF AreaIn
  <2>2. (i <= d /\ ~(j <= d)) \/ (~(i <= d) /\ j <= d)
    BY <2>1
  <2>3. (i <= d /\ d < j) \/ (d < i /\ j <= d)
    <3>1. i \in 1..n
      OBVIOUS
    <3> HIDE DEF n, d
    <3> QED
      BY <1>1, <1>2, <2>2, <3>1
  <2>4. (i <= k /\ Masters(a) = Masters(b)) \/ (k < i /\ Stack(a) = Stack(b))
    BY <1>3, <2>3, Spared
  <2>5. /\ Arranged("tile", a) = tile(a) /\ Arranged("deck", a) = deck(a)
        /\ Arranged("bstack", a) = bstack(a) /\ Arranged("bstackhoriz", a) = bstackhoriz(a)
        /\ Arranged("centredfloatingmaster", a) = centredfloatingmaster(a)
        /\ Arranged("tile", b) = tile(b) /\ Arranged("deck", b) = deck(b)
        /\ Arranged("bstack", b) = bstack(b) /\ Arranged("bstackhoriz", b) = bstackhoriz(b)
        /\ Arranged("centredfloatingmaster", b) = centredfloatingmaster(b)
    BY ArrangedBy
  <2>6. AreaKept(a, b, Arranged(l, a), Arranged(l, b))
    BY <1>1, <1>4, <2>5, AreasKept, FloatKept
  <2> QED
    BY <2>4, <2>6 DEF AreaKept
<1>5. CASE l = "horizgrid"
  <2> DEFINE t == TopCount(n)
  <2>1. i \in 1..n /\ j \in 1..n
    BY <1>1
  <2>2. /\ AreaIn(l, a, i) = (IF n = 2 \/ i <= n \div 2 THEN 0 ELSE 1)
        /\ AreaIn(l, a, j) = (IF n = 2 \/ j <= n \div 2 THEN 0 ELSE 1)
    BY <1>2, <1>5 DEF AreaIn
  <2>3. n # 1
    <3>1. n = 1 => i = j
      BY <2>1
    <3> QED
      BY <3>1
  <2> HIDE DEF n
  <2>4. (i <= t /\ t < j) \/ (t < i /\ j <= t)
    <3>1. n # 2
      BY <2>2
    <3>2. t = n \div 2
      <4>1. ~(n <= 2)
        <5>1. n \in Nat
          BY <1>2
        <5> QED
          BY <2>1, <2>3, <3>1, <5>1
      <4> QED
        BY <4>1 DEF TopCount
    <3>3. t \in Int
      BY <1>2, <3>2
    <3>4. (i <= t /\ ~(j <= t)) \/ (~(i <= t) /\ j <= t)
      BY <2>2, <3>1, <3>2
    <3> HIDE DEF t
    <3> QED
      BY <1>2, <2>1, <3>3, <3>4
  <2>5. (i <= t /\ TopFacts(a) = TopFacts(b)) \/ (t < i /\ LowFacts(a) = LowFacts(b))
    BY <2>4, Spared DEF n
  <2>6. RowKept(a, b, Arranged(l, a), Arranged(l, b))
    BY <1>1, <1>5, RowsKept, ArrangedBy
  <2> QED
    BY <2>5, <2>6 DEF RowKept, n
<1>6. CASE l = "centredmaster"
  <2>1. ASSUME NEW h \in 1..n
        PROVE  AreaIn(l, a, h) = IF d = 0 THEN 1 ELSE SideOf(a, h)
    <3>1. h \in Nat /\ h >= 1
      BY <1>2
    <3>2. CASE h > d /\ d > 0
      <4>2. ~(d = 0) /\ ~(h <= d)
        BY <1>2, <3>1, <3>2
      <4> DEFINE e == 1 + ((h - d) % 2)
      <4>1. AreaIn(l, a, h) = e
        <5>1. l # "horizgrid"
          BY <1>6
        <5> HIDE DEF e
        <5>2. AreaIn(l, a, h) = CASE l = "horizgrid" -> IF Len(a.cf) = 2 \/ h <= Len(a.cf) \div 2 THEN 0 ELSE 1
                [] l = "centredmaster" /\ h > d /\ d > 0 -> e
                [] l # "horizgrid" /\ (l # "centredmaster" \/ h <= d \/ d = 0) -> IF h <= d THEN 0 ELSE 1
          BY DEF AreaIn, e
        <5> QED
          BY <1>6, <3>2, <4>2, <5>1, <5>2
      <4> QED
        BY <4>1, <4>2 DEF SideOf
    <3>3. CASE ~(h > d /\ d > 0)
      <4>1. h <= d \/ d = 0
        BY <1>2, <3>1, <3>3
      <4>2. AreaIn(l, a, h) = IF h <= d THEN 0 ELSE 1
        BY <1>6, <3>3, <4>1 DEF AreaIn
      <4>3. d = 0 => ~(h <= d)
        BY <1>2, <3>1
      <4> QED
        BY <4>1, <4>2, <4>3 DEF SideOf
    <3> QED
      BY <3>2, <3>3
  <2>2. d # 0 /\ SideOf(a, i) # SideOf(a, j)
    BY <1>1, <2>1
  <2>3. d > 0
    BY <1>2, <2>2
  <2>4. Arranged(l, a) = centredmaster(a) /\ Arranged(l, b) = centredmaster(b)
    BY <1>6, ArrangedBy
  <2> QED
    BY <2>2, <2>3, <2>4, CentreKept
<1>7. CASE l \in {"gaplessgrid", "grid", "nrowgrid", "dwindle", "spiral", "monocle"}
  <2>1. /\ Arranged("gaplessgrid", a) = gaplessgrid(a) /\ Arranged("gaplessgrid", b) = gaplessgrid(b)
        /\ Arranged("grid", a) = grid(a) /\ Arranged("grid", b) = grid(b)
        /\ Arranged("nrowgrid", a) = nrowgrid(a) /\ Arranged("nrowgrid", b) = nrowgrid(b)
        /\ Arranged("dwindle", a) = dwindle(a) /\ Arranged("dwindle", b) = dwindle(b)
        /\ Arranged("spiral", a) = spiral(a) /\ Arranged("spiral", b) = spiral(b)
        /\ Arranged("monocle", a) = monocle(a) /\ Arranged("monocle", b) = monocle(b)
    BY ArrangedBy
  <2> QED
    BY <1>1, <1>7, <2>1, AlikeGrids, FibKept
<1> QED
  BY <1>4, <1>5, <1>6, <1>7 DEF LayoutNames

\* The settings make monitors alike that differ in cfacts and mirror alone.
LEMMA MonAlike ==
  ASSUME NEW fs, NEW gs, NEW nm, NEW mf, NEW mir, NEW mir2, NEW g, NEW on,
         TilingSettings(fs, nm, mf, mir, g, on), TilingSettings(gs, nm, mf, mir2, g, on), Len(fs) = Len(gs)
  PROVE  Alike(Mon(fs, nm, mf, mir, g, on), Mon(gs, nm, mf, mir2, g, on))
<1> DEFINE e == getgaps(g, on, Len(fs))
           M(h, mi) == [wx |-> WX, wy |-> WY, ww |-> WW, wh |-> WH, bw |-> BW, bh |-> BH, minbh |-> BH,
                        oh |-> e["oh"], ov |-> e["ov"], ih |-> e["ih"], iv |-> e["iv"],
                        nmaster |-> nm, mfact |-> mf, mirror |-> mi, cf |-> h]
<1>1. Mon(fs, nm, mf, mir, g, on) = M(fs, mir) /\ Mon(gs, nm, mf, mir2, g, on) = M(gs, mir2)
  BY DEF Mon
<1> HIDE DEF e
<1>2. Alike(M(fs, mir), M(gs, mir2))
  BY DEF Alike, Tiled
<1> HIDE DEF M
<1> QED
  BY <1>1, <1>2

\* setcfact alone changes a cfact and keeps the clients.
LEMMA Retouched ==
  ASSUME Settled, [TilingNext]_tilingVars, cf' # cf, DOMAIN cf' = DOMAIN cf
  PROVE  /\ UNCHANGED << lt, nmaster, mfact, mirror, gaps, enablegaps >>
         /\ \E j \in DOMAIN cf : \A i \in DOMAIN cf : i # j => cf'[i] = cf[i]
<1>1. cf \in Seq(1..16) /\ DOMAIN cf = 1..Len(cf) /\ Len(cf) \in Nat
  BY DEF Settled
<1>2. ASSUME NEW j \in DOMAIN cf, NEW a \in CfactArgs, setcfact(j, a)
      PROVE  /\ UNCHANGED << lt, nmaster, mfact, mirror, gaps, enablegaps >>
             /\ \E h \in DOMAIN cf : \A i \in DOMAIN cf : i # h => cf'[i] = cf[i]
  <2>1. PICK f : cf' = [cf EXCEPT ![j] = f]
    BY <1>2 DEF setcfact
  <2>2. \A i \in DOMAIN cf : i # j => cf'[i] = cf[i]
    BY <1>1, <2>1
  <2> QED
    BY <1>2, <2>2 DEF setcfact
<1>3. ASSUME NEW size, Comes(size) PROVE FALSE
  <2> DEFINE u == << 4 >>
             n == Len(cf)
  <2>1. cf' = u \o cf
    BY <1>3 DEF Comes
  <2>2. u \in Seq(1..16) /\ Len(u) = 1
    OBVIOUS
  <2> HIDE DEF u
  <2>3. u \o cf \in Seq(1..16) /\ Len(u \o cf) = Len(u) + n
    BY <1>1, <2>2, SeqsJoined, Zenon
  <2>4. DOMAIN cf' = 1..(n + 1)
    BY <2>1, <2>2, <2>3
  <2>5. n \in Nat /\ n + 1 \in DOMAIN cf' /\ DOMAIN cf' = 1..n
    BY <1>1, <2>4
  <2> HIDE DEF n
  <2> QED
    BY <2>5
<1>4. ASSUME NEW j \in DOMAIN cf, Leaves(j) PROVE FALSE
  <2>0. j \in 1..Len(cf)
    BY <1>1, <1>4
  <2> DEFINE n == Len(cf)
             u == SubSeq(cf, 1, j - 1)
             v == SubSeq(cf, j + 1, n)
  <2>1. cf' = u \o v
    BY <1>4 DEF Leaves, RemoveAt
  <2>2. u \in Seq(1..16) /\ v \in Seq(1..16) /\ Len(u) = j - 1 /\ Len(v) = n - j
    BY <1>1, <2>0
  <2> HIDE DEF u, v
  <2>3. DOMAIN cf' = 1..(Len(u) + Len(v))
    BY <2>1, <2>2
  <2>4. n \in Nat /\ j \in 1..n /\ DOMAIN cf = 1..n
    BY <1>1, <2>0
  <2> HIDE DEF n
  <2>5. 1..(Len(u) + Len(v)) = 1..n
    BY <2>3, <2>4
  <2>6. n \in 1..(Len(u) + Len(v))
    BY <2>4, <2>5
  <2> QED
    BY <2>2, <2>4, <2>6
<1>5. ASSUME NEW g, setgaps(g) PROVE FALSE
  BY <1>5 DEF setgaps
<1>6. CASE \E keys \in GapGroups, i \in GapSteps : incrgaps(keys, i)
  BY <1>5, <1>6 DEF incrgaps
<1>7. CASE defaultgaps
  BY <1>5, <1>7 DEF defaultgaps
<1>8. CASE togglegaps
  BY <1>8 DEF togglegaps
<1>9. CASE \E i \in {1, -1} : incnmaster(i)
  BY <1>9 DEF incnmaster
<1>10. CASE \E a \in MfactArgs : setmfact(a)
  BY <1>10 DEF setmfact
<1>11. CASE togglemirror
  BY <1>11 DEF togglemirror
<1>12. CASE \E l \in InUse : setlayout(l)
  BY <1>12 DEF setlayout
<1>13. CASE UNCHANGED tilingVars
  BY <1>13 DEF tilingVars
<1> QED
  BY <1>2, <1>3, <1>4, <1>6, <1>7, <1>8, <1>9, <1>10, <1>11, <1>12, <1>13 DEF TilingNext

\* The area of a client is the one the layout gives it.
LEMMA AreaOf ==
  ASSUME Settled, NEW i
  PROVE  Area(i) = AreaIn(lt, mon, i)
<1>1. mon.cf = cf /\ mon.nmaster = nmaster
  BY SettledMon
<1> HIDE DEF mon
<1> QED
  BY <1>1 DEF Area, AreaIn

\* Every window lies where the layout asks, or where it has been pulled back to.
AllLie == \A h \in 1..Len(cf) : Lies(mon, rects[h], asked[h])

\* Settled windows all do.
LEMMA SettledLie == Settled => AllLie
BY SettledRects DEF AllLie

\* A window that is to be where it was is there, unless it has been pulled back.
LEMMA StaysPut ==
  ASSUME Settled, Settled', Len(cf') = Len(cf), NEW i \in 1..Len(cf), asked'[i] = asked[i], Kept(i)
  PROVE  rects'[i] = rects[i]
<1> DEFINE s == asked[i]
<1>1. Lies(mon, rects[i], s) /\ KeepsPlace(mon, s)
  BY SettledRects, KeptPlace
<1>2. AllLie'
  BY SettledLie, PTL
<1>3. Lies(mon', rects'[i], s)
  BY <1>2 DEF AllLie
<1>4. /\ mon.wx = mon'.wx /\ mon.wy = mon'.wy /\ mon.ww = mon'.ww /\ mon.wh = mon'.wh /\ mon.bw = mon'.bw
  BY DEF mon, Mon
<1>5. KeepsPlace(mon', s)
  BY <1>1, <1>4 DEF KeepsPlace
<1> HIDE DEF s
<1>6. /\ rects[i] \in [x : Int, y : Int, w : Int, h : Int] /\ rects'[i] \in [x : Int, y : Int, w : Int, h : Int]
      /\ rects[i].x = s.x /\ rects[i].y = s.y /\ rects[i].w = s.w /\ rects[i].h = s.h
      /\ rects'[i].x = s.x /\ rects'[i].y = s.y /\ rects'[i].w = s.w /\ rects'[i].h = s.h
  BY <1>1, <1>3, <1>5 DEF Lies
<1> QED
  BY <1>6

\* A step that gives one window another factor leaves the windows of the other
\* areas where they are (setcfact).
LEMMA OwnArea ==
  ASSUME Settled, [TilingNext]_tilingVars, NEW j \in DOMAIN cf,
         cf' # cf, DOMAIN cf' = DOMAIN cf, cf'[j] # cf[j], NEW i \in DOMAIN cf, Area(i) # Area(j), Kept(i)
  PROVE  rects'[i] = rects[i]
<1>1. UNCHANGED << lt, nmaster, mfact, mirror, gaps, enablegaps >>
  BY Retouched
<1>2. \A h \in DOMAIN cf : h # j => cf'[h] = cf[h]
  BY Retouched
<1>3. Settled'
  BY SettledStep
<1>4. cf \in Seq(1..16) /\ cf' \in Seq(1..16)
  BY <1>3 DEF Settled
<1>5. /\ mon \in Screen /\ mon.cf = cf /\ mon.nmaster = nmaster /\ mon.mirror = mirror
      /\ Tiled(mon) = Len(cf) /\ Len(cf) \in Nat
  BY SettledMon
<1>6. (/\ mon \in Screen /\ mon.cf = cf /\ mon.nmaster = nmaster /\ mon.mirror = mirror
       /\ Tiled(mon) = Len(cf) /\ Len(cf) \in Nat)'
  BY <1>3, SettledMon, PTL
<1>7. Len(cf) = Len(cf')
  <2>1. DOMAIN cf = 1..Len(cf) /\ DOMAIN cf' = 1..Len(cf') /\ Len(cf) \in Nat /\ Len(cf') \in Nat
    BY <1>4
  <2> DEFINE n == Len(cf)
             p == Len(cf')
  <2>2. n \in Nat /\ p \in Nat /\ 1..n = 1..p
    BY <2>1
  <2> HIDE DEF n, p
  <2>3. n = p
    <3>1. n = 0 \/ n \in 1..p
      BY <2>2
    <3>2. p = 0 \/ p \in 1..n
      BY <2>2
    <3>3. n = 0 => p = 0
      BY <2>2, <3>2
    <3>4. p = 0 => n = 0
      BY <2>2, <3>1
    <3> QED
      BY <2>2, <3>1, <3>2, <3>3, <3>4
  <2> QED
    BY <2>3 DEF n, p
<1>8. Alike(mon, mon')
  <2>1. TilingSettings(cf, nmaster, mfact, mirror, gaps, enablegaps)
    BY Zenon DEF Settled, TilingSettings
  <2>2. TilingSettings(cf', nmaster, mfact, mirror, gaps, enablegaps)
    BY <1>4, <2>1, Zenon DEF TilingSettings
  <2>3. mon' = Mon(cf', nmaster, mfact, mirror, gaps, enablegaps)
    BY <1>1 DEF mon
  <2> QED
    BY <1>7, <2>1, <2>2, <2>3, MonAlike DEF mon
<1>9. Changed(mon, mon', j)
  <2>1. DOMAIN cf = 1..Tiled(mon)
    BY <1>4, <1>5
  <2> QED
    BY <1>2, <1>5, <1>6, <1>8, <2>1 DEF Changed
<1>10. mon.mirror = mon'.mirror /\ mon' \in Screen
  BY <1>1, <1>5, <1>6
<1>11. cf # << >> /\ cf' # << >> /\ i \in 1..Tiled(mon)
  BY <1>4, <1>5, <1>7
<1>12. AreaIn(lt, mon, i) # AreaIn(lt, mon, j)
  BY AreaOf
<1>13. lt \in LayoutNames /\ asked = Arranged(lt, mon) /\ asked' = Arranged(lt, mon')
  BY <1>1, <1>3, InUseAssumption DEF Settled
<1>14. mon.cf # << >> /\ mon'.cf # << >>
  BY <1>5, <1>6, <1>11
<1> HIDE DEF mon
<1>15. Arranged(lt, mon)[i] = Arranged(lt, mon')[i]
  BY <1>5, <1>9, <1>10, <1>11, <1>12, <1>13, <1>14, LayoutKept
<1>16. i \in 1..Len(cf) /\ asked'[i] = asked[i]
  BY <1>4, <1>13, <1>15
<1> QED
  BY <1>3, <1>7, <1>16, StaysPut

\* A change of one client's cfact resizes the windows of its own area only, but
\* for those that are pulled back.
THEOREM FactsStay == TilingSpec => OwnAreaOnly
<1> DEFINE Stays == \A j \in DOMAIN cf :
             cf' # cf /\ DOMAIN cf' = DOMAIN cf /\ cf'[j] # cf[j] =>
               \A i \in DOMAIN cf : Area(i) # Area(j) /\ Kept(i) => rects'[i] = rects[i]
<1>1. Settled /\ [TilingNext]_tilingVars => [Stays]_tilingVars
  BY OwnArea
<1> QED
  BY <1>1, SettledAlways, PTL DEF TilingSpec, OwnAreaOnly

\* Two monitors that differ in the mirror alone.
Turned(a, b) ==
  Alike(a, b) /\ a.cf = b.cf /\ (b.mirror <=> ~a.mirror)

\* What the mirror does not touch.
LEMMA TurnedSame ==
  ASSUME NEW a \in Screen, NEW b \in Screen, Turned(a, b), a.cf # << >>
  PROVE  /\ grid(a) = grid(b) /\ gaplessgrid(a) = gaplessgrid(b) /\ nrowgrid(a) = nrowgrid(b)
         /\ monocle(a) = monocle(b) /\ centredmaster(a) = centredmaster(b)
         /\ \A i \in 1..Tiled(a) : horizgrid(a)[i] = horizgrid(b)[i]
         /\ \A i \in 1..Tiled(a) : centredfloatingmaster(a)[i] = centredfloatingmaster(b)[i]
<1>1. Alike(a, b) /\ a.cf = b.cf /\ b.cf # << >>
  BY DEF Turned
<1>2. /\ Masters(a) = Masters(b) /\ Stack(a) = Stack(b) /\ Tiled(a) = Tiled(b) /\ a.nmaster = b.nmaster
      /\ TopFacts(a) = TopFacts(b) /\ LowFacts(a) = LowFacts(b) /\ CentreFacts(a) = CentreFacts(b)
  BY <1>1 DEF Alike, Masters, Stack, TopFacts, LowFacts, CentreFacts
<1>3. \A f : Side(a, f) = Side(b, f)
  BY <1>2 DEF Side
<1>4. centredmaster(a) = centredmaster(b)
  <2>1. CentreColumn(a) = CentreColumn(b) /\ RightColumn(a) = RightColumn(b) /\ LeftColumn(a) = LeftColumn(b)
    BY <1>1, <1>2, <1>3, AlikeCentre
  <2>2. InTurn(a) = InTurn(b)
    BY <1>2, <2>1 DEF InTurn
  <2> QED
    BY <1>2, <2>1, <2>2, CentreParts
<1>5. ASSUME NEW i \in 1..Tiled(a)
      PROVE  horizgrid(a)[i] = horizgrid(b)[i] /\ centredfloatingmaster(a)[i] = centredfloatingmaster(b)[i]
  <2>1. i \in Int /\ TopCount(Tiled(a)) \in Int /\ Len(Masters(a)) \in Int
    BY TopCounts, Areas DEF Tiled
  <2>2. /\ i <= TopCount(Tiled(a)) \/ TopCount(Tiled(a)) < i
        /\ i <= Len(Masters(a)) \/ Len(Masters(a)) < i
    BY <2>1
  <2>3. RowKept(a, b, horizgrid(a), horizgrid(b))
    BY <1>1, RowsKept
  <2>4. AreaKept(a, b, centredfloatingmaster(a), centredfloatingmaster(b))
    BY <1>1, FloatKept
  <2> QED
    BY <1>2, <2>2, <2>3, <2>4 DEF RowKept, AreaKept
<1> QED
  BY <1>1, <1>4, <1>5, AlikeGrids

\* A window with room, turned about the middle of the area.
LEMMA TurnedResize ==
  ASSUME NEW a \in Screen, NEW b, Alike(a, b),
         NEW x \in Int, NEW u \in Int, NEW y \in Int, NEW w \in Int, NEW h \in Int, NEW d \in Int,
         Ample(a, Resize(a, x, y, w, h)), Opposite(a, x, w, u, d)
  PROVE  Resize(b, u, y, w, h) = XTurned(a, Resize(a, x, y, w, h), d)
<1> DEFINE r == Resize(a, x, y, w, h)
<1>1. Resize(b, u, y, w, h) = Resize(a, u, y, w, h)
  BY AlikeSizes
<1>2. Resize(a, u, y, w, h) = [r EXCEPT !.x = u]
  BY DEF Resize
<1>3. r \in Rectangle(a) /\ r.x = x /\ r.w = Sized(a, w)
  <2>1. a \in Screen /\ x \in Int /\ y \in Int /\ w \in Int /\ h \in Int
    OBVIOUS
  <2>2. Resize(a, x, y, w, h) \in Rectangle(a)
    BY <2>1, ResizeRect
  <2>3. Resize(a, x, y, w, h).x = x
    BY <2>1, ResizeRect
  <2>4. Resize(a, x, y, w, h).w = Sized(a, w)
    BY <2>1, ResizeRect
  <2> QED
    BY <2>2, <2>3, <2>4
<1>4. r.w = w
  BY <1>3, AmpleExact
<1>5. u = 2 * a.wx + a.ww - r.x - r.w - d
  BY <1>3, <1>4 DEF Opposite
<1> HIDE DEF r
<1> QED
  BY <1>1, <1>2, <1>5 DEF r, XTurned

\* A column at the opposite side of the area is the column turned from left to
\* right.
LEMMA TurnedColumn ==
  ASSUME NEW a \in Screen, NEW b, Alike(a, b),
         NEW x \in Int, NEW u \in Int, NEW y \in Int, NEW w \in Int, NEW lens \in Seq(Int),
         Opposite(a, x, w, u, 0),
         NEW i \in 1..Len(lens), Ample(a, Column(a, x, y, w, lens)[i])
  PROVE  Column(b, u, y, w, lens)[i] = XTurned(a, Column(a, x, y, w, lens)[i], 0)
<1> DEFINE t == y + Offset(lens, a.iv, a, i)
           r == Resize(a, x, t, w, lens[i])
<1>0. DOMAIN lens = 1..Len(lens) /\ i \in DOMAIN lens /\ lens[i] \in Int
  OBVIOUS
<1>1. Column(a, x, y, w, lens)[i] = r
  BY <1>0 DEF Column
<1>2. Column(b, u, y, w, lens)[i] = Resize(b, u, t, w, lens[i])
  <2>1. Offset(lens, b.iv, b, i) = Offset(lens, a.iv, a, i)
    BY DEF Alike, Offset
  <2> QED
    BY <1>0, <2>1 DEF Column
<1>3. t \in Int
  <2>1. a.iv \in Nat
    BY Edges
  <2>2. Offset(lens, a.iv, a, i) \in Nat
    BY <2>1, OffsetSteps
  <2> QED
    BY <2>2
<1>4. a.wx \in Int /\ a.ww \in Int
  BY DEF Screen
<1> HIDE DEF t
<1>5. Resize(b, u, t, w, lens[i]) = XTurned(a, r, 0)
  <2>1. 0 \in Int /\ Ample(a, r)
    BY <1>1
  <2> QED
    BY <1>0, <1>3, <2>1, TurnedResize
<1> QED
  BY <1>1, <1>2, <1>5

\* The columns of tile and deck change sides.
LEMMA TurnedSides ==
  ASSUME NEW a \in Screen, NEW b \in Screen, Turned(a, b)
  PROVE  /\ Parted(a) => /\ Opposite(a, MainX(a), MainWidth(a), MainX(b), 0)
                         /\ Opposite(a, SideX(a), SideWidth(a), SideX(b), 0)
         /\ ~Parted(a) => MainX(a) = MainX(b) /\ SideX(a) = SideX(b)
         /\ MainX(a) \in Int /\ SideX(a) \in Int /\ MainX(b) \in Int /\ SideX(b) \in Int
         /\ MainWidth(a) \in Int /\ SideWidth(a) \in Int
         /\ MainWidth(a) = MainWidth(b) /\ SideWidth(a) = SideWidth(b)
<1>1. Alike(a, b) /\ (b.mirror <=> ~a.mirror)
  BY DEF Turned
<1>2. /\ Wide(a) = Wide(b) /\ (Parted(a) <=> Parted(b))
      /\ \A size, gap : StackPart(a, size, gap) = StackPart(b, size, gap)
  BY <1>1, AlikeSizes
<1>3. LeftEnd(a) = LeftEnd(b) /\ a.ih = b.ih
  BY <1>1 DEF Alike, LeftEnd
<1>4. MainWidth(a) = MainWidth(b) /\ SideWidth(a) = SideWidth(b)
  BY <1>2, <1>3 DEF MainWidth, SideWidth, Part, Other
<1>5. /\ Wide(a) \in Int /\ LeftEnd(a) \in Int /\ a.ih \in Nat /\ LeftEnd(a) = a.wx + a.oh
      /\ Wide(a) = a.ww - 2 * a.oh /\ a.wx \in Int /\ a.ww \in Int /\ a.oh \in Nat
  BY Edges DEF LeftEnd, Wide, Screen
<1>6. /\ SideWidth(a) \in Int /\ MainWidth(a) \in Int
      /\ Parted(a) => MainWidth(a) + a.ih + SideWidth(a) = Wide(a)
  BY <1>5, Parts DEF SideWidth, MainWidth
<1>7. /\ MainX(a) = IF Parted(a) /\ a.mirror THEN LeftEnd(a) + SideWidth(a) + a.ih ELSE LeftEnd(a)
      /\ SideX(a) = IF Parted(a) /\ ~a.mirror THEN LeftEnd(a) + MainWidth(a) + a.ih ELSE LeftEnd(a)
      /\ MainX(b) = IF Parted(a) /\ ~a.mirror THEN LeftEnd(a) + SideWidth(a) + a.ih ELSE LeftEnd(a)
      /\ SideX(b) = IF Parted(a) /\ a.mirror THEN LeftEnd(a) + MainWidth(a) + a.ih ELSE LeftEnd(a)
  BY <1>1, <1>2, <1>3, <1>4 DEF MainX, SideX
<1>8. ASSUME Parted(a)
      PROVE  /\ LeftEnd(a) + SideWidth(a) + a.ih = 2 * a.wx + a.ww - LeftEnd(a) - MainWidth(a) - 0
             /\ LeftEnd(a) = 2 * a.wx + a.ww - (LeftEnd(a) + SideWidth(a) + a.ih) - MainWidth(a) - 0
             /\ LeftEnd(a) + MainWidth(a) + a.ih = 2 * a.wx + a.ww - LeftEnd(a) - SideWidth(a) - 0
             /\ LeftEnd(a) = 2 * a.wx + a.ww - (LeftEnd(a) + MainWidth(a) + a.ih) - SideWidth(a) - 0
  <2> DEFINE x == a.wx
             w == a.ww
             o == a.oh
             g == a.ih
             p == MainWidth(a)
             q == SideWidth(a)
             u == LeftEnd(a)
  <2>1. /\ x \in Int /\ w \in Int /\ o \in Int /\ g \in Int /\ p \in Int /\ q \in Int /\ u = x + o
        /\ p + g + q = w - 2 * o
    BY <1>5, <1>6, <1>8
  <2> HIDE DEF x, w, o, g, p, q, u
  <2>2. /\ u + q + g = 2 * x + w - u - p - 0 /\ u = 2 * x + w - (u + q + g) - p - 0
        /\ u + p + g = 2 * x + w - u - q - 0 /\ u = 2 * x + w - (u + p + g) - q - 0
    BY <2>1
  <2> QED
    BY <2>2 DEF x, w, o, g, p, q, u
<1>9. LeftEnd(a) + SideWidth(a) + a.ih \in Int /\ LeftEnd(a) + MainWidth(a) + a.ih \in Int
  BY <1>5, <1>6
<1>10. CASE a.mirror
  BY <1>4, <1>5, <1>6, <1>7, <1>8, <1>9, <1>10, Zenon DEF Opposite
<1>11. CASE ~a.mirror
  BY <1>4, <1>5, <1>6, <1>7, <1>8, <1>9, <1>11, Zenon DEF Opposite
<1> QED
  BY <1>10, <1>11

\* The parts of tile and deck turn from left to right with the mirror, and
\* those of bstack and bstackhoriz not until they are flipped.
LEMMA TurnedAreas ==
  ASSUME NEW a \in Screen, NEW b \in Screen, Turned(a, b)
  PROVE  /\ ~Parted(a) => /\ MainColumn(a) = MainColumn(b) /\ StackColumn(a) = StackColumn(b)
                          /\ StackPile(a) = StackPile(b)
         /\ \A i \in 1..Len(Masters(a)) : Parted(a) /\ Ample(a, MainColumn(a)[i]) =>
               MainColumn(b)[i] = XTurned(a, MainColumn(a)[i], 0)
         /\ \A i \in 1..Len(Stack(a)) : Parted(a) /\ Ample(a, StackColumn(a)[i]) =>
               StackColumn(b)[i] = XTurned(a, StackColumn(a)[i], 0)
         /\ \A i \in 1..Len(Stack(a)) : Parted(a) /\ Ample(a, StackPile(a)[i]) =>
               StackPile(b)[i] = XTurned(a, StackPile(a)[i], 0)
         /\ MainHeight(a) = MainHeight(b) /\ PartHeight(a) = PartHeight(b) /\ StackY(a) = StackY(b)
         /\ StackRows(a) = StackRows(b)
         /\ \A y : MainRow(a, y) = MainRow(b, y) /\ StackRow(a, y) = StackRow(b, y)
<1>1. Alike(a, b) /\ a.cf = b.cf
  BY DEF Turned
<1>2. /\ Masters(a) = Masters(b) /\ Stack(a) = Stack(b) /\ Tiled(a) = Tiled(b) /\ a.nmaster = b.nmaster
      /\ LeftEnd(a) = LeftEnd(b) /\ TopEnd(a) = TopEnd(b) /\ a.ih = b.ih /\ a.iv = b.iv
  BY <1>1 DEF Alike, Masters, Stack, LeftEnd, TopEnd
<1>3. /\ Wide(a) = Wide(b) /\ High(a) = High(b) /\ (Parted(a) <=> Parted(b))
      /\ \A k : Across(a, k) = Across(b, k) /\ Down(a, k) = Down(b, k)
      /\ \A size, gap : StackPart(a, size, gap) = StackPart(b, size, gap)
      /\ \A x, y, w, h : Resize(a, x, y, w, h) = Resize(b, x, y, w, h)
  BY <1>1, AlikeSizes
<1>4. \A size, gap : Part(a, size, gap) = Part(b, size, gap) /\ Other(a, size, gap) = Other(b, size, gap)
  BY <1>3 DEF Part, Other
<1>5. /\ MainHeight(a) = MainHeight(b) /\ PartHeight(a) = PartHeight(b)
      /\ StackY(a) = StackY(b) /\ StackHeight(a) = StackHeight(b) /\ PileHeight(a) = PileHeight(b)
  <2>1. MainHeight(a) = MainHeight(b) /\ PartHeight(a) = PartHeight(b)
    BY <1>2, <1>3, <1>4 DEF MainHeight, PartHeight
  <2> QED
    BY <1>2, <1>3, <2>1 DEF StackY, StackHeight, PileHeight
<1>6. \A x, y, lens, s : Row(a, x, y, lens, s) = Row(b, x, y, lens, s) /\ Column(a, x, y, s, lens) = Column(b, x, y, s, lens)
  BY <1>1, AlikeLines
<1>7. /\ StackRows(a) = StackRows(b)
      /\ \A y : MainRow(a, y) = MainRow(b, y) /\ StackRow(a, y) = StackRow(b, y)
  BY <1>2, <1>3, <1>5, <1>6 DEF MainRow, StackRow, StackRows
<1> DEFINE p == EvenSplit(Down(a, Len(Masters(a))), Masters(a))
           q == EvenSplit(Down(a, Tiled(a) - a.nmaster), Stack(a))
<1>8. /\ MainWidth(a) = MainWidth(b) /\ SideWidth(a) = SideWidth(b)
      /\ MainX(a) \in Int /\ SideX(a) \in Int /\ MainX(b) \in Int /\ SideX(b) \in Int
      /\ MainWidth(a) \in Int /\ SideWidth(a) \in Int /\ TopEnd(a) \in Int
  BY TurnedSides, Edges
<1>9. /\ MainColumn(a) = Column(a, MainX(a), TopEnd(a), MainWidth(a), p)
      /\ MainColumn(b) = Column(b, MainX(b), TopEnd(a), MainWidth(a), p)
      /\ StackColumn(a) = Column(a, SideX(a), TopEnd(a), SideWidth(a), q)
      /\ StackColumn(b) = Column(b, SideX(b), TopEnd(a), SideWidth(a), q)
  BY <1>2, <1>3, <1>8 DEF MainColumn, StackColumn
<1>10. p \in Seq(Int) /\ Len(p) = Len(Masters(a))
  <2>1. Masters(a) \in Factors /\ Len(Masters(a)) \in Int
    BY Areas DEF Factors
  <2>2. Down(a, Len(Masters(a))) \in Int
    BY <2>1, Lengths
  <2> QED
    BY ONLY <2>1, <2>2, EvenSplitSum DEF p
<1>11. q \in Seq(Int) /\ Len(q) = Len(Stack(a))
  <2>1. Tiled(a) - a.nmaster \in Int /\ Stack(a) \in Factors
    BY Areas
  <2>2. Down(a, Tiled(a) - a.nmaster) \in Int
    BY <2>1, Lengths
  <2> QED
    BY ONLY <2>1, <2>2, EvenSplitSum DEF q
<1> HIDE DEF p, q
<1>12. ~Parted(a) => /\ MainColumn(a) = MainColumn(b) /\ StackColumn(a) = StackColumn(b)
                     /\ StackPile(a) = StackPile(b)
  <2>1. ~Parted(a) => MainX(a) = MainX(b) /\ SideX(a) = SideX(b)
    BY TurnedSides
  <2> QED
    BY <1>2, <1>3, <1>5, <1>6, <1>8, <1>9, <2>1 DEF StackPile
<1>13. ASSUME Parted(a), NEW i \in 1..Len(Masters(a)), Ample(a, MainColumn(a)[i])
       PROVE  MainColumn(b)[i] = XTurned(a, MainColumn(a)[i], 0)
  <2>1. Opposite(a, MainX(a), MainWidth(a), MainX(b), 0)
    BY <1>13, TurnedSides
  <2>2. i \in 1..Len(p)
    BY <1>10
  <2>3. Ample(a, Column(a, MainX(a), TopEnd(a), MainWidth(a), p)[i])
    BY <1>9, <1>13
  <2> QED
    BY <1>1, <1>8, <1>9, <1>10, <2>1, <2>2, <2>3, TurnedColumn
<1>14. ASSUME Parted(a), NEW i \in 1..Len(Stack(a)), Ample(a, StackColumn(a)[i])
       PROVE  StackColumn(b)[i] = XTurned(a, StackColumn(a)[i], 0)
  <2>1. Opposite(a, SideX(a), SideWidth(a), SideX(b), 0)
    BY <1>14, TurnedSides
  <2>2. i \in 1..Len(q)
    BY <1>11
  <2>3. Ample(a, Column(a, SideX(a), TopEnd(a), SideWidth(a), q)[i])
    BY <1>9, <1>14
  <2> QED
    BY <1>1, <1>8, <1>9, <1>11, <2>1, <2>2, <2>3, TurnedColumn
<1>15. ASSUME Parted(a), NEW i \in 1..Len(Stack(a)), Ample(a, StackPile(a)[i])
       PROVE  StackPile(b)[i] = XTurned(a, StackPile(a)[i], 0)
  <2>1. /\ StackPile(a)[i] = Resize(a, SideX(a), TopEnd(a), SideWidth(a), PileHeight(a))
        /\ StackPile(b)[i] = Resize(b, SideX(b), TopEnd(a), SideWidth(a), PileHeight(a))
    BY <1>2, <1>5, <1>8, <1>15 DEF StackPile
  <2>2. Opposite(a, SideX(a), SideWidth(a), SideX(b), 0)
    BY <1>15, TurnedSides
  <2>3. PileHeight(a) \in Int /\ 0 \in Int
    BY Edges, Areas, Lengths DEF PileHeight
  <2>4. Ample(a, Resize(a, SideX(a), TopEnd(a), SideWidth(a), PileHeight(a)))
    BY <1>15, <2>1
  <2> QED
    BY <1>1, <1>8, <2>1, <2>2, <2>3, <2>4, TurnedResize
<1> QED
  BY <1>5, <1>7, <1>12, <1>13, <1>14, <1>15

\* So do their windows; where no area is parted they stay.
LEMMA TurnedTiles ==
  ASSUME NEW a \in Screen, NEW b \in Screen, Turned(a, b), NEW i \in 1..Tiled(a)
  PROVE  /\ ~Parted(a) => tile(b)[i] = tile(a)[i] /\ deck(b)[i] = deck(a)[i]
         /\ Parted(a) /\ Ample(a, tile(a)[i]) => tile(b)[i] = XTurned(a, tile(a)[i], 0)
         /\ Parted(a) /\ Ample(a, deck(a)[i]) => deck(b)[i] = XTurned(a, deck(a)[i], 0)
<1> DEFINE k == Len(Masters(a))
           l == Len(Stack(a))
<1>1. /\ k \in Nat /\ l \in Nat /\ Tiled(a) = k + l /\ Len(Masters(b)) = k /\ Len(Stack(b)) = l
  BY AlikeLengths DEF Turned
<1>2. /\ tile(a) = MainColumn(a) \o StackColumn(a) /\ deck(a) = MainColumn(a) \o StackPile(a)
      /\ tile(b) = MainColumn(b) \o StackColumn(b) /\ deck(b) = MainColumn(b) \o StackPile(b)
  BY ColumnLayouts
<1>3. ASSUME NEW m \in {a, b}
      PROVE  /\ MainColumn(m) \in Seq(Rectangle(m)) /\ Len(MainColumn(m)) = k
             /\ StackColumn(m) \in Seq(Rectangle(m)) /\ Len(StackColumn(m)) = l
             /\ StackPile(m) \in Seq(Rectangle(m)) /\ Len(StackPile(m)) = l
  BY <1>1, AreaSeqs
<1> HIDE DEF k, l
<1>4. i \in 1..(k + l)
  BY <1>1
<1>5. ASSUME NEW m \in {a, b}
      PROVE  /\ tile(m)[i] = IF i <= k THEN MainColumn(m)[i] ELSE StackColumn(m)[i - k]
             /\ deck(m)[i] = IF i <= k THEN MainColumn(m)[i] ELSE StackPile(m)[i - k]
  <2>1. tile(m) = MainColumn(m) \o StackColumn(m) /\ deck(m) = MainColumn(m) \o StackPile(m)
    BY <1>2
  <2> QED
    BY <1>3, <1>4, <2>1, JoinAt
<1>6. a \in {a, b} /\ b \in {a, b}
  OBVIOUS
<1>7. CASE ~Parted(a)
  BY <1>5, <1>6, <1>7, TurnedAreas
<1>8. CASE Parted(a)
  <2>1. CASE i <= k
    <3>1. i \in 1..Len(Masters(a))
      BY <1>1, <1>4, <2>1 DEF k
    <3> QED
      BY <1>5, <1>6, <1>8, <2>1, <3>1, TurnedAreas
  <2>2. CASE ~(i <= k)
    <3>1. i - k \in 1..Len(Stack(a))
      <4>1. i - k \in 1..l
        BY <1>1, <1>4, <2>2
      <4> QED
        BY <4>1 DEF l
    <3> QED
      BY <1>5, <1>6, <1>8, <2>2, <3>1, TurnedAreas
  <2> QED
    BY <2>1, <2>2
<1> QED
  BY <1>7, <1>8

\* A row at the opposite edge of the area is the row turned over.
LEMMA TurnedRow ==
  ASSUME NEW a \in Screen, NEW b, Alike(a, b),
         NEW x \in Int, NEW y \in Int, NEW u \in Int, NEW h \in Int, NEW lens \in Seq(Int),
         u = Under(a) - y - h, NEW i \in 1..Len(lens), Ample(a, Row(a, x, y, lens, h)[i])
  PROVE  Row(b, x, u, lens, h)[i] = YTurned(a, Row(a, x, y, lens, h)[i], 0)
<1> DEFINE t == x + Offset(lens, a.ih, a, i)
           r == Resize(a, t, y, lens[i], h)
<1>0. DOMAIN lens = 1..Len(lens) /\ i \in DOMAIN lens /\ lens[i] \in Int
  OBVIOUS
<1>1. Row(a, x, y, lens, h)[i] = r
  BY <1>0 DEF Row
<1>2. Row(b, x, u, lens, h)[i] = Resize(b, t, u, lens[i], h)
  <2>1. Offset(lens, b.ih, b, i) = Offset(lens, a.ih, a, i)
    BY DEF Alike, Offset
  <2> QED
    BY <1>0, <2>1 DEF Row
<1>3. t \in Int
  <2>1. a.ih \in Nat
    BY Edges
  <2>2. Offset(lens, a.ih, a, i) \in Nat
    BY <2>1, OffsetSteps
  <2> QED
    BY <2>2
<1> HIDE DEF t
<1>4. Resize(b, t, u, lens[i], h) = Resize(a, t, u, lens[i], h)
  BY AlikeSizes
<1>5. Resize(a, t, u, lens[i], h) = [r EXCEPT !.y = u]
  BY DEF Resize
<1>6. r \in Rectangle(a) /\ r.y = y /\ r.h0 = h
  <2>1. r \in Rectangle(a)
    BY <1>0, <1>3, ResizeRect
  <2> QED
    BY <2>1 DEF Resize
<1>7. r.h = h
  <2>1. Ample(a, r)
    BY <1>1
  <2> HIDE DEF r
  <2> QED
    BY <1>6, <2>1, AmpleExact DEF Rectangle, Ample
<1> HIDE DEF r
<1>8. u = Under(a) - r.y - r.h - 0
  BY <1>6, <1>7, FlippedUnder
<1> QED
  BY <1>1, <1>2, <1>4, <1>5, <1>8 DEF YTurned

\* The rows of bstackhoriz's stack change sides, up to a pixel.
LEMMA TurnedStack ==
  ASSUME NEW a \in Screen, NEW b \in Screen, Turned(a, b),
         NEW i \in 1..Len(Stack(a)), Ample(a, StackTurned(a)[i])
  PROVE  \E c \in {0, 1} : StackTurned(b)[i] = YTurned(a, StackTurned(a)[i], c)
<1> DEFINE r == StackTurned(a)[i]
           s == StackRows(a)[i]
           t == StackTurned(b)[i]
           u == Under(a)
<1>1. StackRows(a) = StackRows(b) /\ Under(a) = Under(b) /\ Len(Stack(a)) = Len(Stack(b)) /\ (b.mirror <=> ~a.mirror)
  BY TurnedAreas, AlikeLengths DEF Turned, Alike, Under
<1>2. r \in Rectangle(a) /\ s \in Rectangle(a) /\ u \in Int
  <2>1. StackTurned(a) \in Seq(Rectangle(a)) /\ Len(StackTurned(a)) = Len(Stack(a))
    BY AreaSeqs
  <2>2. StackRows(a) \in Seq(Rectangle(a)) /\ Len(StackRows(a)) = Len(Stack(a))
    BY AreaSeqs
  <2> QED
    BY <2>1, <2>2, FlippedUnder
<1>3. r.h0 = r.h
  <2>1. Ample(a, r)
    OBVIOUS
  <2> HIDE DEF r
  <2> QED
    BY <1>2, <2>1, AmpleExact DEF Rectangle, Ample
<1>4. CASE a.mirror
  <2>1. PICK c \in {0, 1} : r = [s EXCEPT !.y = u - s.y - s.h0 - c]
    BY <1>4, TurnedOver
  <2>2. t = s
    BY <1>1, <1>4, NotTurned
  <2> HIDE DEF r, s, t, u
  <2>3. /\ s.y \in Int /\ s.h0 \in Int /\ r.y \in Int
        /\ r.x = s.x /\ r.w = s.w /\ r.h = s.h /\ r.w0 = s.w0 /\ r.h0 = s.h0
        /\ r.y = u - s.y - s.h0 - c
    BY <1>2, <2>1 DEF Rectangle
  <2>4. s.y = u - r.y - r.h - c
    BY <1>2, <1>3, <2>3
  <2>5. s = [r EXCEPT !.y = u - r.y - r.h - c]
    BY <1>2, <2>3, <2>4 DEF Rectangle
  <2> QED
    BY <2>2, <2>5 DEF YTurned, u, r, t
<1>5. CASE ~a.mirror
  <2>1. PICK c \in {0, 1} : t = [s EXCEPT !.y = u - s.y - s.h0 - c]
    BY <1>1, <1>5, TurnedOver
  <2>2. r = s
    BY <1>5, NotTurned
  <2>3. t = [r EXCEPT !.y = u - r.y - r.h - c]
    BY <1>3, <2>1, <2>2
  <2> QED
    BY <2>3 DEF YTurned
<1> QED
  BY <1>4, <1>5

\* A mirrored bstack or bstackhoriz is turned upside down, the windows of
\* bstackhoriz's stack up to a pixel.
LEMMA TurnedRows ==
  ASSUME NEW a \in Screen, NEW b \in Screen, Turned(a, b), NEW i \in 1..Tiled(a)
  PROVE  /\ Ample(a, bstack(a)[i]) => bstack(b)[i] = YTurned(a, bstack(a)[i], 0)
         /\ Ample(a, bstackhoriz(a)[i]) =>
              \/ bstackhoriz(b)[i] = YTurned(a, bstackhoriz(a)[i], 0)
              \/ Len(Masters(a)) < i /\ bstackhoriz(b)[i] = YTurned(a, bstackhoriz(a)[i], 1)
<1> DEFINE k == Len(Masters(a))
           l == Len(Stack(a))
           MA == MainRow(a, MainY(a))
           MB == MainRow(b, MainY(b))
           SA == StackRow(a, RowY(a))
           SB == StackRow(b, RowY(b))
           TA == StackTurned(a)
           TB == StackTurned(b)
<1>0. Alike(a, b) /\ (b.mirror <=> ~a.mirror)
  BY DEF Turned
<1>1. /\ k \in Nat /\ l \in Nat /\ Tiled(a) = k + l /\ Len(Masters(b)) = k /\ Len(Stack(b)) = l
  BY AlikeLengths, <1>0
<1>2. /\ MA \in Seq(Rectangle(a)) /\ Len(MA) = k /\ MB \in Seq(Rectangle(b)) /\ Len(MB) = k
      /\ SA \in Seq(Rectangle(a)) /\ Len(SA) = l /\ SB \in Seq(Rectangle(b)) /\ Len(SB) = l
      /\ TA \in Seq(Rectangle(a)) /\ Len(TA) = l /\ TB \in Seq(Rectangle(b)) /\ Len(TB) = l
  BY <1>1, AreaSeqs
<1>3. /\ bstack(a) = MA \o SA /\ bstackhoriz(a) = MA \o TA
      /\ bstack(b) = MB \o SB /\ bstackhoriz(b) = MB \o TB
  BY RowLayouts
<1>4. /\ MainY(a) \in Int /\ MainY(b) \in Int /\ MainHeight(a) \in Int
      /\ MainY(b) = Under(a) - MainY(a) - MainHeight(a)
      /\ RowY(a) \in Int /\ RowY(b) \in Int /\ PartHeight(a) \in Int
      /\ RowY(b) = Under(a) - RowY(a) - PartHeight(a)
  <2>1. /\ MainHeight(a) = MainHeight(b) /\ PartHeight(a) = PartHeight(b) /\ StackY(a) = StackY(b)
        /\ TopEnd(a) = TopEnd(b)
    BY <1>0, TurnedAreas DEF Alike, TopEnd
  <2>2. \A y, h : Flipped(a, y, h) = Flipped(b, y, h)
    BY <1>0 DEF Flipped, Alike
  <2>3. MainHeight(a) \in Int /\ PartHeight(a) \in Int /\ StackY(a) \in Int /\ TopEnd(a) \in Int /\ Under(a) \in Int
    BY Edges, RowsRoom, FlippedUnder
  <2>4. /\ Flipped(a, TopEnd(a), MainHeight(a)) = Under(a) - TopEnd(a) - MainHeight(a)
        /\ Flipped(a, StackY(a), PartHeight(a)) = Under(a) - StackY(a) - PartHeight(a)
    BY <2>3, FlippedUnder
  <2>5. /\ MainY(a) = (IF a.mirror THEN Flipped(a, TopEnd(a), MainHeight(a)) ELSE TopEnd(a))
        /\ MainY(b) = (IF a.mirror THEN TopEnd(a) ELSE Flipped(a, TopEnd(a), MainHeight(a)))
        /\ RowY(a) = (IF a.mirror THEN Flipped(a, StackY(a), PartHeight(a)) ELSE StackY(a))
        /\ RowY(b) = (IF a.mirror THEN StackY(a) ELSE Flipped(a, StackY(a), PartHeight(a)))
    BY <1>0, <2>1, <2>2 DEF MainY, RowY, FlipIf
  <2>6. \A o, t, h \in Int : o - t - h \in Int /\ t = o - (o - t - h) - h
    OBVIOUS
  <2> QED
    BY <2>3, <2>4, <2>5, <2>6
<1>5. ASSUME NEW j \in 1..k, Ample(a, MA[j]) PROVE MB[j] = YTurned(a, MA[j], 0)
  <2> DEFINE lens == EvenSplit(Across(a, k), Masters(a))
  <2>1. MainRow(b, MainY(b)) = MainRow(a, MainY(b))
    BY TurnedAreas
  <2>2. lens \in Seq(Int) /\ Len(lens) = k
    <3>1. Masters(a) \in Factors /\ Len(Masters(a)) \in Int
      BY Areas DEF Factors
    <3>2. Across(a, Len(Masters(a))) \in Int
      BY <3>1, Lengths
    <3> QED
      BY ONLY <3>1, <3>2, EvenSplitSum
  <2>3. /\ MA = Row(a, LeftEnd(a), MainY(a), lens, MainHeight(a))
        /\ MB = Row(a, LeftEnd(a), MainY(b), lens, MainHeight(a))
    BY <2>1 DEF MainRow
  <2>4. LeftEnd(a) \in Int /\ Alike(a, a) /\ j \in 1..Len(lens)
    BY <1>5, <2>2, Edges DEF Alike
  <2>5. Ample(a, Row(a, LeftEnd(a), MainY(a), lens, MainHeight(a))[j])
    BY <1>5, <2>3
  <2> HIDE DEF lens, k, MA, MB
  <2> QED
    BY <1>4, <2>2, <2>3, <2>4, <2>5, TurnedRow
<1>6. ASSUME NEW j \in 1..l, Ample(a, SA[j]) PROVE SB[j] = YTurned(a, SA[j], 0)
  <2> DEFINE lens == EvenSplit(Across(a, Tiled(a) - a.nmaster), Stack(a))
  <2>1. StackRow(b, RowY(b)) = StackRow(a, RowY(b))
    BY TurnedAreas
  <2>2. lens \in Seq(Int) /\ Len(lens) = l
    <3>1. Tiled(a) - a.nmaster \in Int /\ Stack(a) \in Factors
      BY Areas
    <3>2. Across(a, Tiled(a) - a.nmaster) \in Int
      BY <3>1, Lengths
    <3> QED
      BY ONLY <3>1, <3>2, EvenSplitSum
  <2>3. /\ SA = Row(a, LeftEnd(a), RowY(a), lens, PartHeight(a))
        /\ SB = Row(a, LeftEnd(a), RowY(b), lens, PartHeight(a))
    BY <2>1 DEF StackRow
  <2>4. LeftEnd(a) \in Int /\ Alike(a, a) /\ j \in 1..Len(lens)
    BY <1>6, <2>2, Edges DEF Alike
  <2>5. Ample(a, Row(a, LeftEnd(a), RowY(a), lens, PartHeight(a))[j])
    BY <1>6, <2>3
  <2> HIDE DEF lens, l, SA, SB
  <2> QED
    BY <1>4, <2>2, <2>3, <2>4, <2>5, TurnedRow
<1>7. ASSUME NEW j \in 1..l, Ample(a, TA[j]) PROVE TB[j] = YTurned(a, TA[j], 0) \/ TB[j] = YTurned(a, TA[j], 1)
  BY <1>7, TurnedStack
<1> HIDE DEF k, l, MA, MB, SA, SB, TA, TB
<1>8. i \in 1..(k + l) /\ k \in Int /\ (i <= k => i \in 1..k) /\ (~(i <= k) => k < i /\ i - k \in 1..l)
  BY <1>1
<1>9. /\ (MA \o SA)[i] = (IF i <= k THEN MA[i] ELSE SA[i - k]) /\ (MB \o SB)[i] = (IF i <= k THEN MB[i] ELSE SB[i - k])
      /\ (MA \o TA)[i] = (IF i <= k THEN MA[i] ELSE TA[i - k]) /\ (MB \o TB)[i] = (IF i <= k THEN MB[i] ELSE TB[i - k])
  <2>1. i \in 1..(Len(MA) + Len(SA)) /\ i \in 1..(Len(MB) + Len(SB)) /\ i \in 1..(Len(MA) + Len(TA)) /\ i \in 1..(Len(MB) + Len(TB))
    BY <1>2, <1>8
  <2>2. (MA \o SA)[i] = (IF i <= k THEN MA[i] ELSE SA[i - k])
    BY <1>2, <2>1, JoinAt
  <2>3. (MB \o SB)[i] = (IF i <= k THEN MB[i] ELSE SB[i - k])
    BY <1>2, <2>1, JoinAt
  <2>4. (MA \o TA)[i] = (IF i <= k THEN MA[i] ELSE TA[i - k])
    BY <1>2, <2>1, JoinAt
  <2>5. (MB \o TB)[i] = (IF i <= k THEN MB[i] ELSE TB[i - k])
    BY <1>2, <2>1, JoinAt
  <2> QED
    BY <2>2, <2>3, <2>4, <2>5
<1>10. CASE i <= k
  BY <1>3, <1>5, <1>8, <1>9, <1>10
<1>11. CASE ~(i <= k)
  <2> DEFINE j == i - k
  <2>1. j \in 1..l /\ Len(Masters(a)) < i
    BY <1>8, <1>11 DEF k
  <2>2. /\ bstack(a)[i] = SA[j] /\ bstack(b)[i] = SB[j]
        /\ bstackhoriz(a)[i] = TA[j] /\ bstackhoriz(b)[i] = TB[j]
    BY <1>3, <1>9, <1>11
  <2> HIDE DEF j
  <2> QED
    BY <1>6, <1>7, <2>1, <2>2
<1> QED
  BY <1>10, <1>11

\* Where they have room they are turned, and moved two borders to the left.
LEMMA TurnedFib ==
  ASSUME NEW a \in Screen, NEW b \in Screen, Turned(a, b), NEW i \in 1..Tiled(a)
  PROVE  /\ Ample(a, dwindle(a)[i]) => dwindle(b)[i] = XTurned(a, dwindle(a)[i], 2 * a.bw)
         /\ Ample(a, spiral(a)[i]) => spiral(b)[i] = XTurned(a, spiral(a)[i], 2 * a.bw)
<1>1. Alike(a, b) /\ (b.mirror <=> ~a.mirror) /\ Tiled(a) = Tiled(b)
  BY DEF Turned, Alike
<1>2. a.wx = b.wx /\ a.ww = b.ww /\ a.bw = b.bw
  BY <1>1 DEF Alike
<1>3. ASSUME NEW s \in BOOLEAN, Ample(a, FibRects(a, FibRun(a, s))[i])
      PROVE  FibRects(b, FibRun(a, s))[i] = XTurned(a, FibRects(a, FibRun(a, s))[i], 2 * a.bw)
  <2> DEFINE g == FibRun(a, s)[i]
             x == FibX(a, g)
             u == FibX(b, g)
             d == 2 * a.bw
  <2>1. /\ FibRects(a, FibRun(a, s))[i] = Resize(a, x, g.ny, g.nw, g.nh)
        /\ FibRects(b, FibRun(a, s))[i] = Resize(b, u, g.ny, g.nw, g.nh)
    BY <1>1 DEF FibRects
  <2>2. g \in FibState
    <3>1. i \in 0..Tiled(a)
      BY Areas
    <3> QED
      BY <3>1, FibTyped
  <2> HIDE DEF g
  <2>3. /\ g.nx \in Int /\ g.ny \in Int /\ g.nw \in Int /\ g.nh \in Int
        /\ a.wx \in Int /\ a.ww \in Int /\ a.bw \in Int
    BY <2>2, FibFields DEF Screen
  <2> DEFINE p == g.nx
             w == g.nw
             y == a.wx
             v == a.ww
             c == a.bw
             z == y + v - (p - y) - w - 2 * c
  <2>4. (x = IF a.mirror THEN z ELSE p) /\ (u = IF a.mirror THEN p ELSE z)
    BY <1>1, <1>2 DEF FibX
  <2>5. p \in Int /\ w \in Int /\ y \in Int /\ v \in Int /\ c \in Int
    BY <2>3
  <2> HIDE DEF p, w, y, v, c, x, u
  <2>6. z = 2 * y + v - p - w - 2 * c /\ p = 2 * y + v - z - w - 2 * c /\ z \in Int /\ 2 * c \in Int
    BY <2>5
  <2>7. x \in Int /\ u \in Int
    BY <2>4, <2>5, <2>6
  <2>8. u = 2 * y + v - x - w - 2 * c
    BY <2>4, <2>6
  <2>9. Opposite(a, x, g.nw, u, d)
    BY <2>8 DEF Opposite, y, v, w, c
  <2>10. d \in Int /\ Ample(a, Resize(a, x, g.ny, g.nw, g.nh))
    BY <1>3, <2>1, <2>3
  <2> HIDE DEF d
  <2>11. Resize(b, u, g.ny, g.nw, g.nh) = XTurned(a, Resize(a, x, g.ny, g.nw, g.nh), d)
    BY <1>1, <2>3, <2>7, <2>9, <2>10, TurnedResize
  <2> QED
    BY <2>1, <2>11 DEF d
<1>4. FibRun(a, TRUE) = FibRun(b, TRUE) /\ FibRun(a, FALSE) = FibRun(b, FALSE)
  BY <1>1, AlikeRuns
<1>5. /\ dwindle(a) = FibRects(a, FibRun(a, TRUE)) /\ spiral(a) = FibRects(a, FibRun(a, FALSE))
      /\ dwindle(b) = FibRects(b, FibRun(b, TRUE)) /\ spiral(b) = FibRects(b, FibRun(b, FALSE))
  BY FibParts
<1>6. TRUE \in BOOLEAN /\ FALSE \in BOOLEAN
  OBVIOUS
<1>7. /\ Ample(a, FibRects(a, FibRun(a, TRUE))[i]) =>
            FibRects(b, FibRun(a, TRUE))[i] = XTurned(a, FibRects(a, FibRun(a, TRUE))[i], 2 * a.bw)
      /\ Ample(a, FibRects(a, FibRun(a, FALSE))[i]) =>
            FibRects(b, FibRun(a, FALSE))[i] = XTurned(a, FibRects(a, FibRun(a, FALSE))[i], 2 * a.bw)
  BY <1>3, <1>6, Zenon
<1> QED
  BY <1>4, <1>5, <1>7

\* togglemirror alone turns the mirror.
LEMMA Mirrored ==
  ASSUME Settled, [TilingNext]_tilingVars, mirror' # mirror
  PROVE  UNCHANGED << lt, cf, nmaster, mfact, gaps, enablegaps >> /\ mirror' = ~mirror
<1>1. ASSUME NEW g, setgaps(g) PROVE FALSE
  BY <1>1 DEF setgaps
<1>2. CASE \E keys \in GapGroups, i \in GapSteps : incrgaps(keys, i)
  BY <1>1, <1>2 DEF incrgaps
<1>3. CASE defaultgaps
  BY <1>1, <1>3 DEF defaultgaps
<1>4. CASE togglegaps
  BY <1>4 DEF togglegaps
<1>5. CASE \E i \in {1, -1} : incnmaster(i)
  BY <1>5 DEF incnmaster
<1>6. CASE \E a \in MfactArgs : setmfact(a)
  BY <1>6 DEF setmfact
<1>7. CASE \E j \in DOMAIN cf, a \in CfactArgs : setcfact(j, a)
  BY <1>7 DEF setcfact
<1>8. CASE togglemirror
  BY <1>8 DEF togglemirror
<1>9. CASE \E l \in InUse : setlayout(l)
  BY <1>9 DEF setlayout
<1>10. CASE \E size \in NewSizes : Comes(size)
  BY <1>10 DEF Comes
<1>11. CASE \E j \in DOMAIN cf : Leaves(j)
  BY <1>11 DEF Leaves
<1>12. CASE UNCHANGED tilingVars
  BY <1>12 DEF tilingVars
<1> QED
  BY <1>2, <1>3, <1>4, <1>5, <1>6, <1>7, <1>8, <1>9, <1>10, <1>11, <1>12 DEF TilingNext

\* What the window of a client becomes when the layout is mirrored.
TurnedTo(l, m, r) ==
  CASE l \in {"tile", "deck"} /\ Parted(m) -> XTurned(m, r, 0)
    [] l \in {"dwindle", "spiral"} -> XTurned(m, r, 2 * m.bw)
    [] l \in {"bstack", "bstackhoriz"} -> YTurned(m, r, 0)
    [] OTHER -> r

\* It becomes s, which in the stack of bstackhoriz is up to a pixel higher.
TurnsInto(l, m, i, r, s) ==
  s = TurnedTo(l, m, r) \/ (l = "bstackhoriz" /\ Len(Masters(m)) < i /\ s = YTurned(m, r, 1))

\* A layout that is mirrored turns each window as the layout says, if the
\* window was not grown to the least size.
LEMMA LayoutTurned ==
  ASSUME NEW a \in Screen, NEW b \in Screen, Turned(a, b), a.cf # << >>,
         NEW l \in LayoutNames, NEW i \in 1..Tiled(a), Ample(a, Arranged(l, a)[i])
  PROVE  TurnsInto(l, a, i, Arranged(l, a)[i], Arranged(l, b)[i])
<1>0. b.cf # << >>
  BY DEF Turned
<1>1. ASSUME NEW m \in {a, b}
      PROVE  /\ Arranged("tile", m) = tile(m) /\ Arranged("deck", m) = deck(m)
             /\ Arranged("bstack", m) = bstack(m) /\ Arranged("bstackhoriz", m) = bstackhoriz(m)
             /\ Arranged("dwindle", m) = dwindle(m) /\ Arranged("spiral", m) = spiral(m)
  BY <1>0, ArrangedBy
<1>1a. ASSUME NEW m \in {a, b}
      PROVE  /\ Arranged("centredmaster", m) = centredmaster(m)
             /\ Arranged("centredfloatingmaster", m) = centredfloatingmaster(m)
             /\ Arranged("horizgrid", m) = horizgrid(m) /\ Arranged("gaplessgrid", m) = gaplessgrid(m)
             /\ Arranged("grid", m) = grid(m) /\ Arranged("nrowgrid", m) = nrowgrid(m)
             /\ Arranged("monocle", m) = monocle(m)
  BY <1>0, ArrangedBy
<1>2. a \in {a, b} /\ b \in {a, b}
  OBVIOUS
<1>3. CASE l \in {"tile", "deck"}
  <2>1. TurnedTo(l, a, Arranged(l, a)[i]) = IF Parted(a) THEN XTurned(a, Arranged(l, a)[i], 0) ELSE Arranged(l, a)[i]
    BY <1>3 DEF TurnedTo
  <2>2. Arranged(l, b)[i] = TurnedTo(l, a, Arranged(l, a)[i])
    BY <1>1, <1>2, <1>3, <2>1, TurnedTiles
  <2> QED
    BY <2>2 DEF TurnsInto
<1>4. CASE l \in {"dwindle", "spiral"}
  <2>1. TurnedTo(l, a, Arranged(l, a)[i]) = XTurned(a, Arranged(l, a)[i], 2 * a.bw)
    BY <1>4 DEF TurnedTo
  <2>2. Arranged(l, b)[i] = TurnedTo(l, a, Arranged(l, a)[i])
    BY <1>1, <1>2, <1>4, <2>1, TurnedFib
  <2> QED
    BY <2>2 DEF TurnsInto
<1>5. CASE l \in {"bstack", "bstackhoriz"}
  <2>1. TurnedTo(l, a, Arranged(l, a)[i]) = YTurned(a, Arranged(l, a)[i], 0)
    BY <1>5 DEF TurnedTo
  <2> QED
    BY <1>1, <1>2, <1>5, <2>1, TurnedRows DEF TurnsInto
<1>6. CASE l \in {"centredmaster", "centredfloatingmaster", "horizgrid", "gaplessgrid", "grid", "nrowgrid", "monocle"}
  <2>1. TurnedTo(l, a, Arranged(l, a)[i]) = Arranged(l, a)[i]
    BY <1>6 DEF TurnedTo
  <2>2. Arranged(l, b)[i] = TurnedTo(l, a, Arranged(l, a)[i])
    BY <1>1a, <1>2, <1>6, <2>1, TurnedSame
  <2> QED
    BY <2>2 DEF TurnsInto
<1> QED
  BY <1>3, <1>4, <1>5, <1>6 DEF LayoutNames

\* A window that is not pulled back is where the layout asks, and is as large.
AtPlace == \A i \in 1..Len(cf) : Kept(i) => rects[i] = PlaceAt(asked[i])

\* So it is of settled windows.
LEMMA SettledPlace == Settled => AtPlace
<1>1. ASSUME Settled, NEW i \in 1..Len(cf), Kept(i)
      PROVE  rects[i] = PlaceAt(asked[i])
  <2>1. /\ rects[i] \in [x : Int, y : Int, w : Int, h : Int]
        /\ rects[i].x = asked[i].x /\ rects[i].y = asked[i].y /\ rects[i].w = asked[i].w /\ rects[i].h = asked[i].h
    BY <1>1, KeptPlace
  <2> QED
    BY <2>1 DEF PlaceAt
<1> QED
  BY <1>1 DEF AtPlace

\* A step that turns the mirror turns each window that has the size it asked
\* for and is not pulled back (mirrorlayout).
LEMMA WindowTurned ==
  ASSUME Settled, [TilingNext]_tilingVars, mirror' # mirror, NEW i \in DOMAIN rects,
         Free(i), Kept(i), Kept(i)'
  PROVE  \E s : /\ TurnsInto(lt, mon, i, asked[i], s) /\ asked[i] \in Rectangle(mon)
                /\ rects[i] = PlaceAt(asked[i]) /\ rects'[i] = PlaceAt(s)
<1>1. UNCHANGED << lt, cf, nmaster, mfact, gaps, enablegaps >> /\ mirror' = ~mirror
  BY Mirrored
<1>2. Settled'
  BY SettledStep
<1>3. /\ mon \in Screen /\ mon.cf = cf /\ mon.nmaster = nmaster /\ mon.mirror = mirror
      /\ Tiled(mon) = Len(cf) /\ Len(cf) \in Nat
  BY SettledMon
<1>4. (/\ mon \in Screen /\ mon.cf = cf /\ mon.nmaster = nmaster /\ mon.mirror = mirror
       /\ Tiled(mon) = Len(cf) /\ Len(cf) \in Nat)'
  BY <1>2, SettledMon, PTL
<1>5. lt \in LayoutNames /\ asked = Arranged(lt, mon) /\ asked' = Arranged(lt, mon')
  BY <1>1, <1>2, InUseAssumption DEF Settled
<1>6. Alike(mon, mon')
  <2>1. TilingSettings(cf, nmaster, mfact, mirror, gaps, enablegaps)
    BY Zenon DEF Settled, TilingSettings
  <2>2. TilingSettings(cf, nmaster, mfact, mirror', gaps, enablegaps)
    <3>1. mirror' \in BOOLEAN
      BY <1>1
    <3> QED
      BY <2>1, <3>1, Zenon DEF TilingSettings
  <2>3. mon' = Mon(cf, nmaster, mfact, mirror', gaps, enablegaps)
    BY <1>1 DEF mon
  <2> QED
    BY <2>1, <2>2, <2>3, MonAlike DEF mon
<1>7. Turned(mon, mon')
  BY <1>1, <1>3, <1>4, <1>6 DEF Turned
<1>8. i \in 1..Len(cf) /\ cf # << >> /\ cf' = cf
  <2>1. DOMAIN rects = 1..Len(cf)
    BY SettledRects
  <2>2. 1 <= Len(cf)
    BY <1>3, <2>1
  <2>3. cf # << >>
    BY <2>2
  <2> QED
    BY <1>1, <2>1, <2>3
<1>9. Ample(mon, Arranged(lt, mon)[i]) /\ asked[i] \in Rectangle(mon)
  BY <1>5, <1>8, KeptPlace
<1>10. mon' \in Screen /\ mon.cf # << >> /\ i \in 1..Tiled(mon)
  BY <1>3, <1>4, <1>8
<1>11. rects[i] = PlaceAt(asked[i])
  BY <1>8, SettledPlace DEF AtPlace
<1>12. rects'[i] = PlaceAt(asked'[i])
  <2>1. AtPlace'
    BY <1>2, SettledPlace, PTL
  <2>2. Kept(i)'
    OBVIOUS
  <2>3. \A h \in 1..Len(cf') : Kept(h)' => rects'[h] = PlaceAt(asked'[h])
    BY <2>1 DEF AtPlace, PlaceAt
  <2> QED
    BY <1>8, <2>2, <2>3
<1> HIDE DEF mon
<1>13. TurnsInto(lt, mon, i, asked[i], asked'[i])
  BY <1>3, <1>5, <1>7, <1>9, <1>10, LayoutTurned
<1> QED
  BY <1>9, <1>11, <1>12, <1>13

\* The way the layout in force turns a window is the mirror image, but for a
\* pixel in the stack of bstackhoriz.
LEMMA TurnedAs ==
  ASSUME Settled, NEW r \in Rectangle(mon), NEW s, NEW i \in 1..Len(cf), TurnsInto(lt, mon, i, r, s)
  PROVE  \/ PlaceAt(s) = MirrorImage(PlaceAt(r))
         \/ /\ lt = "bstackhoriz" /\ Area(i) = 1
            /\ PlaceAt(s) = [MirrorImage(PlaceAt(r)) EXCEPT !.y = @ - 1]
<1> DEFINE p == PlaceAt(r)
           R == [x : Int, y : Int, w : Int, h : Int]
<1>1. mon.wx = WX /\ mon.wy = WY /\ mon.ww = WW /\ mon.wh = WH /\ mon.bw = BW
  BY MonFields
<1>2. Parted(mon) <=> nmaster \in 1..(Len(cf) - 1)
  BY SettledMon, Areas
<1>3. lt = "bstackhoriz" /\ Len(Masters(mon)) < i => Area(i) = 1
  <2>1. /\ mon \in Screen /\ mon.nmaster = nmaster /\ Tiled(mon) = Len(cf) /\ Len(cf) \in Nat /\ nmaster \in Nat
    BY SettledMon DEF Settled
  <2>2. Len(Masters(mon)) = Least(nmaster, Len(cf))
    BY <2>1, Areas
  <2>3. Len(Masters(mon)) < i => ~(i <= nmaster)
    BY <2>1, <2>2 DEF Least
  <2> QED
    BY <2>3 DEF Area
<1>4. /\ WX \in Int /\ WY \in Int /\ WW \in Int /\ WH \in Int /\ BW \in Int
  BY AreaAssumption
<1> HIDE DEF mon
<1>5. /\ r.x \in Int /\ r.y \in Int /\ r.w \in Int /\ r.h \in Int
      /\ p = [x |-> r.x, y |-> r.y, w |-> r.w, h |-> r.h]
  BY DEF Rectangle, PlaceAt
<1>6. PlaceAt(XTurned(mon, r, 0)) = [p EXCEPT !.x = XFlip(p)]
  <2>1. 2 * mon.wx + mon.ww - r.x - r.w - 0 = XFlip(p)
    BY <1>1, <1>4, <1>5 DEF XFlip
  <2>2. XTurned(mon, r, 0) = [r EXCEPT !.x = XFlip(p)]
    BY <2>1 DEF XTurned
  <2> QED
    BY <2>2 DEF PlaceAt, Rectangle
<1>7. PlaceAt(XTurned(mon, r, 2 * mon.bw)) = [p EXCEPT !.x = XFlip(p) - 2 * BW]
  <2>1. 2 * mon.wx + mon.ww - r.x - r.w - 2 * mon.bw = XFlip(p) - 2 * BW
    BY <1>1, <1>4, <1>5 DEF XFlip
  <2>2. XTurned(mon, r, 2 * mon.bw) = [r EXCEPT !.x = XFlip(p) - 2 * BW]
    BY <2>1 DEF XTurned
  <2> QED
    BY <2>2 DEF PlaceAt, Rectangle
<1>8. ASSUME NEW c \in {0, 1}
      PROVE  PlaceAt(YTurned(mon, r, c)) = [p EXCEPT !.y = YFlip(p) + 2 * BW - c]
  <2>1. Under(mon) - r.y - r.h - c = YFlip(p) + 2 * BW - c
    <3>1. Under(mon) = 2 * WY + WH + 2 * BW
      BY <1>1 DEF Under
    <3>2. YFlip(p) = 2 * WY + WH - r.y - r.h
      BY <1>5 DEF YFlip
    <3>3. \A t, u, v, y, h, d \in Int : 2 * t + u + 2 * v - y - h - d = 2 * t + u - y - h + 2 * v - d
      OBVIOUS
    <3>4. c \in Int
      OBVIOUS
    <3> QED
      BY <1>4, <1>5, <3>1, <3>2, <3>3, <3>4
  <2>2. YTurned(mon, r, c) = [r EXCEPT !.y = YFlip(p) + 2 * BW - c]
    BY <2>1 DEF YTurned
  <2> QED
    BY <2>2 DEF PlaceAt, Rectangle
<1>9. 2 * BW \in Int /\ YFlip(p) \in Int
  BY <1>4, <1>5 DEF YFlip
<1> HIDE DEF p
<1>10. CASE s = TurnedTo(lt, mon, r)
  <2> DEFINE Pick(t, u, v, z) == CASE lt \in {"tile", "deck"} /\ nmaster \in 1..(Len(cf) - 1) -> t
                                   [] lt \in {"dwindle", "spiral"} -> u
                                   [] lt \in {"bstack", "bstackhoriz"} -> v
                                   [] OTHER -> z
             tr == XTurned(mon, r, 0)
             ur == XTurned(mon, r, 2 * mon.bw)
             vr == YTurned(mon, r, 0)
             tp == [p EXCEPT !.x = XFlip(p)]
             up == [p EXCEPT !.x = XFlip(p) - 2 * BW]
             vp == [p EXCEPT !.y = YFlip(p) + 2 * BW]
  <2>1. s = Pick(tr, ur, vr, r)
    BY <1>2, <1>10 DEF TurnedTo
  <2>2. MirrorImage(p) = Pick(tp, up, vp, p)
    BY DEF MirrorImage
  <2>3. PlaceAt(tr) = tp /\ PlaceAt(ur) = up /\ PlaceAt(r) = p
    BY <1>6, <1>7 DEF p
  <2>4. PlaceAt(vr) = vp
    <3>1. YFlip(p) + 2 * BW - 0 = YFlip(p) + 2 * BW
      BY <1>9
    <3>2. 0 \in {0, 1}
      OBVIOUS
    <3> QED
      BY <1>8, <3>1, <3>2
  <2> HIDE DEF tr, ur, vr, tp, up, vp
  <2>5. PlaceAt(Pick(tr, ur, vr, r)) = Pick(PlaceAt(tr), PlaceAt(ur), PlaceAt(vr), PlaceAt(r))
    OBVIOUS
  <2> QED
    BY <2>1, <2>2, <2>3, <2>4, <2>5 DEF p
<1>11. CASE lt = "bstackhoriz" /\ Len(Masters(mon)) < i /\ s = YTurned(mon, r, 1)
  <2>1. MirrorImage(p) = [p EXCEPT !.y = YFlip(p) + 2 * BW]
    BY <1>11 DEF MirrorImage
  <2>2. PlaceAt(s) = [p EXCEPT !.y = YFlip(p) + 2 * BW - 1]
    BY <1>8, <1>11
  <2>3. [[p EXCEPT !.y = YFlip(p) + 2 * BW] EXCEPT !.y = @ - 1] = [p EXCEPT !.y = YFlip(p) + 2 * BW - 1]
    <3>1. (YFlip(p) + 2 * BW) - 1 = YFlip(p) + 2 * BW - 1
      BY <1>9
    <3> QED
      BY <1>5, <3>1
  <2> QED
    BY <1>3, <1>11, <2>1, <2>2, <2>3 DEF p
<1> QED
  BY <1>10, <1>11 DEF TurnsInto

\* A change of a cfact stays in its own area, and a mirrored layout is the mirror
\* image of what it was but for a pixel, for any number of windows of any size.
THEOREM LocalChanges == TilingSpec => ChangesLocal
<1> DEFINE Image(i) == \/ rects'[i] = MirrorImage(rects[i])
                       \/ /\ lt = "bstackhoriz" /\ Area(i) = 1
                          /\ rects'[i] = [MirrorImage(rects[i]) EXCEPT !.y = @ - 1]
           Turns == mirror' # mirror =>
                      \A i \in DOMAIN rects : Free(i) /\ Kept(i) /\ Kept(i)' => Image(i)
<1>1. Settled /\ [TilingNext]_tilingVars => [Turns]_tilingVars
  <2>1. ASSUME Settled, [TilingNext]_tilingVars, mirror' # mirror, NEW i \in DOMAIN rects,
               Free(i), Kept(i), Kept(i)'
        PROVE  Image(i)
    <3>1. PICK s : /\ TurnsInto(lt, mon, i, asked[i], s) /\ asked[i] \in Rectangle(mon)
                   /\ rects[i] = PlaceAt(asked[i]) /\ rects'[i] = PlaceAt(s)
      BY <2>1, WindowTurned
    <3>2. i \in 1..Len(cf)
      BY <2>1, SettledRects
    <3> QED
      BY <2>1, <3>1, <3>2, TurnedAs
  <2> QED
    BY <2>1
<1>2. TilingSpec => MirrorTurns
  BY <1>1, SettledAlways, PTL DEF TilingSpec, MirrorTurns
<1> QED
  BY <1>2, FactsStay DEF ChangesLocal

\* A split of the size without the inner gaps between its parts, the gaps
\* between them and one more.
LEMMA EvenCover ==
  ASSUME NEW m \in Screen, NEW facts \in Factors, facts # << >>
  PROVE  /\ LET lens == EvenSplit(Down(m, Len(facts)), facts) IN SumOf(lens) + m.iv * Len(lens) = High(m) + m.iv
         /\ LET lens == EvenSplit(Across(m, Len(facts)), facts) IN SumOf(lens) + m.ih * Len(lens) = Wide(m) + m.ih
<1> DEFINE k == Len(facts)
           d == Down(m, k)
           a == Across(m, k)
           p == EvenSplit(d, facts)
           q == EvenSplit(a, facts)
<1>1. k \in Nat
  BY DEF Factors
<1>2. k \in Int /\ m.iv \in Int /\ m.ih \in Int
  BY <1>1 DEF Screen
<1>3. d \in Int /\ d + m.iv * (k - 1) = High(m) /\ a \in Int /\ a + m.ih * (k - 1) = Wide(m)
  BY <1>2, Lengths
<1> HIDE DEF d, a
<1>4. SumOf(p) = d /\ Len(p) = k /\ SumOf(q) = a /\ Len(q) = k
  BY <1>3, EvenSplitSum
<1> HIDE DEF p, q, k
<1>5. \A g \in Int : g * (k - 1) = g * k - g /\ g * k \in Int
  BY <1>2
<1>6. d + m.iv * k = High(m) + m.iv /\ a + m.ih * k = Wide(m) + m.ih
  <2> DEFINE v == m.iv
             h == m.ih
  <2>1. v \in Int /\ h \in Int /\ v * (k - 1) = v * k - v /\ v * k \in Int /\ h * (k - 1) = h * k - h /\ h * k \in Int
    BY <1>2, <1>5
  <2> DEFINE x == v * k
             z == h * k
             X == High(m)
             Z == Wide(m)
  <2>2. d + (x - v) = X /\ a + (z - h) = Z
    BY <1>3, <2>1
  <2>3. x \in Int /\ z \in Int
    BY <2>1
  <2> HIDE DEF x, z, X, Z, v, h
  <2>4. d + x = X + v /\ a + z = Z + h
    BY <1>3, <2>1, <2>2, <2>3
  <2> QED
    BY <2>4 DEF x, z, X, Z, v, h
<1> QED
  BY <1>4, <1>6 DEF p, q, d, a, k

\* A column of a split of the whole height, a row of one of the whole width.
LEMMA ColumnFull ==
  ASSUME NEW m \in Screen, NEW x \in Int, NEW y \in Int, NEW w \in Int, NEW facts \in Factors, facts # << >>,
         NEW C, C = Column(m, x, y, w, EvenSplit(Down(m, Len(facts)), facts)),
         C \in Seq(Rectangle(m)), Len(C) = Len(facts), \A i \in 1..Len(C) : Ample(m, C[i])
  PROVE  Covers(m, C, w + m.ih, High(m) + m.iv)
<1> DEFINE d == Down(m, Len(facts))
           lens == EvenSplit(d, facts)
<1>1. d \in Int
  BY Lengths DEF Factors
<1> HIDE DEF d
<1>2. lens \in Seq(Int) /\ Len(lens) = Len(facts)
  BY <1>1, EvenSplitSum
<1>3. SumOf(lens) + m.iv * Len(lens) = High(m) + m.iv
  BY EvenCover DEF d
<1>4. C = Column(m, x, y, w, lens)
  BY DEF d
<1> HIDE DEF lens
<1>5. Len(C) = Len(lens)
  BY <1>2
<1>6. SumOf(Cover(m, C)) = (w + m.ih) * (SumOf(lens) + m.iv * Len(lens))
  BY <1>2, <1>4, <1>5, ColumnCover
<1> QED
  BY <1>3, <1>6 DEF Covers

\* A row that divides the width by size factors covers all of it.
LEMMA RowFull ==
  ASSUME NEW m \in Screen, NEW x \in Int, NEW y \in Int, NEW h \in Int, NEW facts \in Factors, facts # << >>,
         NEW C, C = Row(m, x, y, EvenSplit(Across(m, Len(facts)), facts), h),
         C \in Seq(Rectangle(m)), Len(C) = Len(facts), \A i \in 1..Len(C) : Ample(m, C[i])
  PROVE  Covers(m, C, h + m.iv, Wide(m) + m.ih)
<1> DEFINE d == Across(m, Len(facts))
           lens == EvenSplit(d, facts)
<1>1. d \in Int
  BY Lengths DEF Factors
<1> HIDE DEF d
<1>2. lens \in Seq(Int) /\ Len(lens) = Len(facts)
  BY <1>1, EvenSplitSum
<1>3. SumOf(lens) + m.ih * Len(lens) = Wide(m) + m.ih
  BY EvenCover DEF d
<1>4. C = Row(m, x, y, lens, h)
  BY DEF d
<1> HIDE DEF lens
<1>5. Len(C) = Len(lens)
  BY <1>2
<1>6. SumOf(Cover(m, C)) = (h + m.iv) * (SumOf(lens) + m.ih * Len(lens))
  BY <1>2, <1>4, <1>5, RowCover
<1> QED
  BY <1>3, <1>6 DEF Covers

\* The columns of tile take all of the area, and the rows of bstack.
LEMMA tileCover ==
  ASSUME NEW m \in Screen, m.cf # << >>, \A i \in 1..Tiled(m) : Ample(m, tile(m)[i])
  PROVE  SumOf(Cover(m, tile(m))) = (Wide(m) + m.ih) * (High(m) + m.iv)
<1> DEFINE A == MainColumn(m)
           B == StackColumn(m)
           k == Len(Masters(m))
           l == Len(Stack(m))
           u == High(m) + m.iv
<1>1. A \in Seq(Rectangle(m)) /\ Len(A) = k /\ B \in Seq(Rectangle(m)) /\ Len(B) = l
  BY AreaSeqs
<1>2. /\ k \in Nat /\ l \in Nat /\ Tiled(m) = k + l /\ (Parted(m) <=> k > 0 /\ l > 0)
      /\ (Masters(m) # << >> <=> k > 0) /\ (Stack(m) # << >> <=> l > 0)
      /\ (l > 0 => Tiled(m) - m.nmaster = l)
  BY AreaLengths
<1>3. k + l > 0
  <2>1. Tiled(m) # 0
    BY Areas DEF Tiled, Factors
  <2> QED
    BY <1>2, <2>1
<1>4. /\ Wide(m) \in Int /\ LeftEnd(m) \in Int /\ TopEnd(m) \in Int /\ High(m) \in Int /\ m.ih \in Nat /\ m.iv \in Nat
      /\ Masters(m) \in Factors /\ Stack(m) \in Factors
  BY Edges, Areas
<1>5. /\ SideWidth(m) \in Int /\ MainWidth(m) \in Int
      /\ Parted(m) => MainWidth(m) + m.ih + SideWidth(m) = Wide(m)
      /\ ~Parted(m) => MainWidth(m) = Wide(m) /\ SideWidth(m) = Wide(m)
  BY <1>4, Parts DEF SideWidth, MainWidth
<1>6. MainX(m) \in Int /\ SideX(m) \in Int
  BY <1>4, <1>5 DEF MainX, SideX
<1>7. tile(m) = A \o B
  BY ColumnLayouts
<1> HIDE DEF A, B
<1>8. (\A i \in 1..Len(A) : Ample(m, A[i])) /\ \A i \in 1..Len(B) : Ample(m, B[i])
  BY <1>1, <1>2, <1>7, JoinedAmple
<1>9. SumOf(Cover(m, tile(m))) = SumOf(Cover(m, A)) + SumOf(Cover(m, B))
  BY <1>1, <1>7, CoverJoin
<1>10. k > 0 => SumOf(Cover(m, A)) = (MainWidth(m) + m.ih) * u
  <2> SUFFICES ASSUME k > 0 PROVE SumOf(Cover(m, A)) = (MainWidth(m) + m.ih) * u
    OBVIOUS
  <2> DEFINE x == MainX(m)
             y == TopEnd(m)
             w == MainWidth(m)
             f == Masters(m)
  <2>1. x \in Int /\ y \in Int /\ w \in Int /\ f \in Factors /\ f # << >>
    BY <1>2, <1>4, <1>5, <1>6
  <2>2. A = Column(m, x, y, w, EvenSplit(Down(m, Len(f)), f))
    BY <1>2 DEF A, MainColumn
  <2>3. Len(A) = Len(f)
    BY <1>1
  <2> HIDE DEF x, y, w, f
  <2>4. Covers(m, A, w + m.ih, High(m) + m.iv)
    BY <1>1, <1>8, <2>1, <2>2, <2>3, ColumnFull
  <2> QED
    BY <2>4, Zenon DEF w, Covers
<1>11. l > 0 => SumOf(Cover(m, B)) = (SideWidth(m) + m.ih) * u
  <2> SUFFICES ASSUME l > 0 PROVE SumOf(Cover(m, B)) = (SideWidth(m) + m.ih) * u
    OBVIOUS
  <2> DEFINE x == SideX(m)
             y == TopEnd(m)
             w == SideWidth(m)
             f == Stack(m)
  <2>1. x \in Int /\ y \in Int /\ w \in Int /\ f \in Factors /\ f # << >>
    BY <1>2, <1>4, <1>5, <1>6
  <2>2. B = Column(m, x, y, w, EvenSplit(Down(m, Len(f)), f))
    BY <1>2 DEF B, StackColumn
  <2>3. Len(B) = Len(f)
    BY <1>1
  <2> HIDE DEF x, y, w, f
  <2>4. Covers(m, B, w + m.ih, High(m) + m.iv)
    BY <1>1, <1>8, <2>1, <2>2, <2>3, ColumnFull
  <2> QED
    BY <2>4, Zenon DEF w, Covers
<1>12. /\ k = 0 => SumOf(Cover(m, A)) = 0
       /\ l = 0 => SumOf(Cover(m, B)) = 0
  BY <1>1, EmptyCover
<1>13. u \in Int
  BY <1>4
<1> HIDE DEF u, k, l
<1>14. CASE k > 0 /\ l > 0
  <2> DEFINE p == MainWidth(m)
             q == SideWidth(m)
             g == m.ih
             z == Wide(m)
  <2>1. p \in Int /\ q \in Int /\ g \in Int /\ z \in Int /\ p + g + q = z
    BY <1>2, <1>4, <1>5, <1>14
  <2> HIDE DEF p, q, g, z
  <2>2. (p + g) * u + (q + g) * u = (z + g) * u
    BY <1>13, <2>1, PartsCover
  <2>3. SumOf(Cover(m, tile(m))) = (p + g) * u + (q + g) * u
    BY <1>9, <1>10, <1>11, <1>14 DEF p, q, g
  <2> QED
    BY <2>2, <2>3 DEF u, g, z
<1>15. (Wide(m) + m.ih) * u \in Int
  <2> DEFINE p == Wide(m) + m.ih
  <2>1. p \in Int
    BY <1>4
  <2> HIDE DEF p
  <2>2. p * u \in Int
    BY <1>13, <2>1, Products
  <2> QED
    BY <2>2 DEF p
<1>16. CASE k > 0 /\ l = 0
  BY <1>2, <1>5, <1>9, <1>10, <1>12, <1>15, <1>16 DEF u
<1>17. CASE k = 0 /\ l > 0
  BY <1>2, <1>5, <1>9, <1>11, <1>12, <1>15, <1>17 DEF u
<1> QED
  BY <1>2, <1>3, <1>14, <1>16, <1>17

\* What the rows of bstack, and of bstackhoriz, have in common.
LEMMA RowParts ==
  ASSUME NEW m \in Screen
  PROVE  /\ Wide(m) \in Int /\ LeftEnd(m) \in Int /\ TopEnd(m) \in Int /\ High(m) \in Int /\ m.ih \in Nat /\ m.iv \in Nat
         /\ Masters(m) \in Factors /\ Stack(m) \in Factors /\ StackY(m) \in Int
         /\ Other(m, High(m), m.iv) \in Int /\ Part(m, High(m), m.iv) \in Int
         /\ Parted(m) => Other(m, High(m), m.iv) + m.iv + Part(m, High(m), m.iv) = High(m)
         /\ ~Parted(m) => Other(m, High(m), m.iv) = High(m) /\ Part(m, High(m), m.iv) = High(m)
<1>1. Wide(m) \in Int /\ LeftEnd(m) \in Int /\ TopEnd(m) \in Int /\ High(m) \in Int /\ m.ih \in Nat /\ m.iv \in Nat
  BY Edges
<1>2. Masters(m) \in Factors /\ Stack(m) \in Factors
  BY Areas
<1>3. /\ Other(m, High(m), m.iv) \in Int /\ Part(m, High(m), m.iv) \in Int
      /\ Parted(m) => Other(m, High(m), m.iv) + m.iv + Part(m, High(m), m.iv) = High(m)
      /\ ~Parted(m) => Other(m, High(m), m.iv) = High(m) /\ Part(m, High(m), m.iv) = High(m)
  BY <1>1, Parts
<1>4. StackY(m) \in Int
  BY RowsRoom
<1> QED
  BY <1>1, <1>2, <1>3, <1>4

\* The first row takes the height of the masters' part.
LEMMA MainRowCover ==
  ASSUME NEW m \in Screen, Masters(m) # << >>, NEW y \in Int,
         \A i \in 1..Len(Masters(m)) : Ample(m, MainRow(m, y)[i])
  PROVE  SumOf(Cover(m, MainRow(m, y))) = (Other(m, High(m), m.iv) + m.iv) * (Wide(m) + m.ih)
<1> DEFINE x == LeftEnd(m)
           h == Other(m, High(m), m.iv)
           f == Masters(m)
           A == MainRow(m, y)
<1>1. x \in Int /\ y \in Int /\ h \in Int /\ f \in Factors /\ f # << >>
  BY RowParts
<1>2. A = Row(m, x, y, EvenSplit(Across(m, Len(f)), f), h)
  BY DEF MainRow, MainHeight
<1>3. A \in Seq(Rectangle(m)) /\ Len(A) = Len(f) /\ \A i \in 1..Len(f) : Ample(m, A[i])
  BY RowsLie DEF Level
<1> HIDE DEF x, h, f, A
<1>4. SumOf(Cover(m, A)) = (h + m.iv) * (Wide(m) + m.ih)
  <2>1. \A i \in 1..Len(A) : Ample(m, A[i])
    BY <1>3
  <2>2. Covers(m, A, h + m.iv, Wide(m) + m.ih)
    BY <1>1, <1>2, <1>3, <2>1, RowFull
  <2> QED
    BY <2>2, Zenon DEF Covers
<1> QED
  BY <1>4, Zenon DEF h, A

\* The stack of bstack covers its part of the height.
LEMMA StackRowCover ==
  ASSUME NEW m \in Screen, Stack(m) # << >>, NEW y \in Int,
         \A i \in 1..Len(Stack(m)) : Ample(m, StackRow(m, y)[i])
  PROVE  SumOf(Cover(m, StackRow(m, y))) = (Part(m, High(m), m.iv) + m.iv) * (Wide(m) + m.ih)
<1> DEFINE x == LeftEnd(m)
           h == Part(m, High(m), m.iv)
           f == Stack(m)
           A == StackRow(m, y)
<1>1. x \in Int /\ y \in Int /\ h \in Int /\ f \in Factors /\ f # << >>
  BY RowParts
<1>2. A = Row(m, x, y, EvenSplit(Across(m, Len(f)), f), h)
  <2>1. Tiled(m) - m.nmaster = Len(f)
    BY AreaLengths
  <2> QED
    BY <2>1 DEF StackRow, PartHeight
<1>3. A \in Seq(Rectangle(m)) /\ Len(A) = Len(f) /\ \A i \in 1..Len(f) : Ample(m, A[i])
  BY RowsLie DEF Level
<1> HIDE DEF x, h, f, A
<1>4. SumOf(Cover(m, A)) = (h + m.iv) * (Wide(m) + m.ih)
  <2>1. \A i \in 1..Len(A) : Ample(m, A[i])
    BY <1>3
  <2>2. Covers(m, A, h + m.iv, Wide(m) + m.ih)
    BY <1>1, <1>2, <1>3, <2>1, RowFull
  <2> QED
    BY <2>2, Zenon DEF Covers
<1> QED
  BY <1>4, Zenon DEF h, A

\* The rows of bstackhoriz take the whole width, and the stack's part of the height.
LEMMA StackRowsCover ==
  ASSUME NEW m \in Screen, Stack(m) # << >>, \A i \in 1..Len(Stack(m)) : Ample(m, StackRows(m)[i])
  PROVE  SumOf(Cover(m, StackRows(m))) = (Part(m, High(m), m.iv) + m.iv) * (Wide(m) + m.ih)
<1> DEFINE x == LeftEnd(m)
           y == StackY(m)
           w == Wide(m)
           f == Stack(m)
           A == StackRows(m)
           t == StackHeight(m)
           lens == EvenSplit(t, f)
           l == Len(f)
           g == m.iv
           b == g * l
           H == High(m)
           o == Other(m, H, g)
           p == Part(m, H, g)
<1>1. x \in Int /\ y \in Int /\ w \in Int /\ f \in Factors /\ f # << >>
  BY RowParts
<1>2. l \in Nat /\ Tiled(m) - m.nmaster = l
  BY AreaLengths
<1>3. g \in Int /\ H \in Int /\ o \in Int /\ p \in Int
  BY RowParts
<1>4. b \in Int
  <2>1. l \in Int
    BY <1>2
  <2> QED
    BY <1>3, <2>1, Products
<1>5. /\ Parted(m) => o + g + p = H
      /\ ~Parted(m) => o = H /\ p = H
  BY RowParts
<1>6. t \in Int /\ t + b = p + g
  <2>1. CASE Parted(m)
    <3>1. t = H - o - b
      BY <1>2, <2>1 DEF StackHeight, MainHeight
    <3>2. o + g + p = H
      BY <1>5, <2>1
    <3> HIDE DEF t, b, H, o, p, g
    <3> QED
      BY <1>3, <1>4, <3>1, <3>2
  <2>2. CASE ~Parted(m)
    <3>1. t = Down(m, l)
      BY <1>2, <2>2 DEF StackHeight
    <3>2. Down(m, l) \in Int /\ Down(m, l) + g * (l - 1) = H
      BY <1>2, Lengths
    <3>3. g * (l - 1) = b - g
      <4>1. \A a, c \in Int : a * (c - 1) = a * c - a
        OBVIOUS
      <4> HIDE DEF g, l
      <4> QED
        BY <1>2, <1>3, <4>1
    <3>4. p = H
      BY <1>5, <2>2
    <3> HIDE DEF t, b, H, p, g, l
    <3> QED
      BY <1>3, <1>4, <3>1, <3>2, <3>3, <3>4
  <2> QED
    BY <2>1, <2>2
<1>7. A = Column(m, x, y, w, lens)
  BY DEF StackRows
<1>8. A \in Seq(Rectangle(m)) /\ Len(A) = l /\ \A i \in 1..l : Ample(m, A[i])
  BY AreaSeqs
<1> HIDE DEF t
<1>9. lens \in Seq(Int) /\ Len(lens) = l /\ SumOf(lens) = t
  <2> HIDE DEF f
  <2> QED
    BY <1>1, <1>6, EvenSplitSum
<1> HIDE DEF x, y, w, A, lens
<1>10. SumOf(Cover(m, A)) = (w + m.ih) * (SumOf(lens) + m.iv * Len(lens))
  BY <1>1, <1>7, <1>8, <1>9, ColumnCover
<1>11. SumOf(lens) + m.iv * Len(lens) = p + g
  BY <1>6, <1>9
<1>12. (w + m.ih) * (p + g) = (p + g) * (w + m.ih)
  <2>1. w + m.ih \in Int /\ p + g \in Int
    BY <1>1, <1>3 DEF Screen
  <2> HIDE DEF p, g
  <2> QED
    BY <2>1, Products
<1> QED
  BY <1>10, <1>11, <1>12 DEF w, A

\* The stack of bstackhoriz covers as much when it is turned over.
LEMMA StackTurnedCover ==
  ASSUME NEW m \in Screen, Stack(m) # << >>, \A i \in 1..Len(Stack(m)) : Ample(m, StackTurned(m)[i])
  PROVE  SumOf(Cover(m, StackTurned(m))) = (Part(m, High(m), m.iv) + m.iv) * (Wide(m) + m.ih)
<1> DEFINE U == StackRows(m)
           R == StackTurned(m)
           n == Len(Stack(m))
<1>1. U \in Seq(Rectangle(m)) /\ Len(U) = n /\ R \in Seq(Rectangle(m)) /\ Len(R) = n
  BY AreaSeqs
<1>2. \A j \in 1..n : R[j] = [U[j] EXCEPT !.y = IF m.mirror THEN FlippedCut(m, @, StackHeight(m), j) ELSE @]
  BY <1>1 DEF StackTurned
<1>3. ASSUME NEW j \in 1..n PROVE R[j].w = U[j].w /\ R[j].h = U[j].h
  <2> DEFINE u == U[j]
             v == IF m.mirror THEN FlippedCut(m, u.y, StackHeight(m), j) ELSE u.y
  <2>1. u \in Rectangle(m) /\ R[j] = [u EXCEPT !.y = v]
    BY <1>1, <1>2
  <2> HIDE DEF u, v, R
  <2>2. [u EXCEPT !.y = v].w = u.w /\ [u EXCEPT !.y = v].h = u.h
    BY <2>1 DEF Rectangle
  <2> QED
    BY <2>1, <2>2 DEF u
<1>4. \A j \in 1..n : Ample(m, U[j])
  BY <1>3 DEF Ample
<1> HIDE DEF U, R
<1>5. Cover(m, R) = Cover(m, U)
  BY <1>1, <1>3 DEF Cover
<1> QED
  BY <1>4, <1>5, StackRowsCover DEF U, R

\* A row above and rows below it that cover the masters' part and the stack's
\* cover the whole area.
LEMMA RowsCover ==
  ASSUME NEW m \in Screen, m.cf # << >>, NEW A \in Seq(Rectangle(m)), NEW B \in Seq(Rectangle(m)),
         Len(A) = Len(Masters(m)), Len(B) = Len(Stack(m)), \A i \in 1..Tiled(m) : Ample(m, (A \o B)[i]),
         Masters(m) # << >> /\ (\A i \in 1..Len(A) : Ample(m, A[i])) =>
           SumOf(Cover(m, A)) = (Other(m, High(m), m.iv) + m.iv) * (Wide(m) + m.ih),
         Stack(m) # << >> /\ (\A i \in 1..Len(B) : Ample(m, B[i])) =>
           SumOf(Cover(m, B)) = (Part(m, High(m), m.iv) + m.iv) * (Wide(m) + m.ih)
  PROVE  SumOf(Cover(m, A \o B)) = (Wide(m) + m.ih) * (High(m) + m.iv)
<1> DEFINE k == Len(Masters(m))
           l == Len(Stack(m))
           u == Wide(m) + m.ih
           p == Other(m, High(m), m.iv)
           q == Part(m, High(m), m.iv)
           g == m.iv
           z == High(m)
<1>1. Len(A) = k /\ Len(B) = l
  OBVIOUS
<1>2. /\ k \in Nat /\ l \in Nat /\ Tiled(m) = k + l /\ (Parted(m) <=> k > 0 /\ l > 0)
      /\ (Masters(m) # << >> <=> k > 0) /\ (Stack(m) # << >> <=> l > 0)
  BY AreaLengths
<1>3. k + l > 0
  <2>1. Tiled(m) # 0
    BY Areas DEF Tiled, Factors
  <2> QED
    BY <1>2, <2>1
<1>4. u \in Int /\ p \in Int /\ q \in Int /\ g \in Int /\ z \in Int
  BY RowParts
<1>5. /\ Parted(m) => p + g + q = z
      /\ ~Parted(m) => p = z /\ q = z
  BY RowParts
<1> HIDE DEF k, l
<1>8. \A i \in 1..(k + l) : Ample(m, (A \o B)[i])
  BY <1>2
<1>9. (\A i \in 1..k : Ample(m, A[i])) /\ \A i \in 1..l : Ample(m, B[i])
  BY <1>1, <1>8, JoinedAmple
<1>10. SumOf(Cover(m, A \o B)) = SumOf(Cover(m, A)) + SumOf(Cover(m, B))
  BY CoverJoin
<1>11. k > 0 => SumOf(Cover(m, A)) = (p + g) * u
  BY <1>1, <1>2, <1>9
<1>12. l > 0 => SumOf(Cover(m, B)) = (q + g) * u
  BY <1>1, <1>2, <1>9
<1>13. /\ k = 0 => SumOf(Cover(m, A)) = 0
       /\ l = 0 => SumOf(Cover(m, B)) = 0
  BY <1>1, EmptyCover
<1> HIDE DEF u, p, q, g, z
<1>14. (z + g) * u \in Int /\ (z + g) * u = u * (z + g)
  <2>1. z + g \in Int
    BY <1>4
  <2> DEFINE e == z + g
  <2> HIDE DEF e
  <2>2. e * u \in Int /\ e * u = u * e
    BY <1>4, <2>1, Products DEF e
  <2> QED
    BY <2>2 DEF e
<1>15. CASE k > 0 /\ l > 0
  <2>1. (p + g) * u + (q + g) * u = (z + g) * u
    BY <1>2, <1>4, <1>5, <1>15, PartsCover
  <2> QED
    BY <1>10, <1>11, <1>12, <1>14, <1>15, <2>1 DEF u, z, g
<1>16. CASE k > 0 /\ l = 0
  BY <1>2, <1>5, <1>10, <1>11, <1>13, <1>14, <1>16 DEF u, z, g
<1>17. CASE k = 0 /\ l > 0
  BY <1>2, <1>5, <1>10, <1>12, <1>13, <1>14, <1>17 DEF u, z, g
<1> QED
  BY <1>2, <1>3, <1>15, <1>16, <1>17

\* The rows of bstack, and of bstackhoriz, take all of the area.
LEMMA bstackCover ==
  ASSUME NEW m \in Screen, m.cf # << >>, \A i \in 1..Tiled(m) : Ample(m, bstack(m)[i])
  PROVE  SumOf(Cover(m, bstack(m))) = (Wide(m) + m.ih) * (High(m) + m.iv)
<1> DEFINE A == MainRow(m, MainY(m))
           B == StackRow(m, RowY(m))
<1>1. /\ A \in Seq(Rectangle(m)) /\ Len(A) = Len(Masters(m)) /\ B \in Seq(Rectangle(m)) /\ Len(B) = Len(Stack(m))
      /\ MainY(m) \in Int /\ RowY(m) \in Int
  BY AreaSeqs
<1>2. bstack(m) = A \o B
  BY RowLayouts
<1>3. Masters(m) # << >> /\ (\A i \in 1..Len(A) : Ample(m, A[i])) =>
        SumOf(Cover(m, A)) = (Other(m, High(m), m.iv) + m.iv) * (Wide(m) + m.ih)
  BY <1>1, MainRowCover
<1>4. Stack(m) # << >> /\ (\A i \in 1..Len(B) : Ample(m, B[i])) =>
        SumOf(Cover(m, B)) = (Part(m, High(m), m.iv) + m.iv) * (Wide(m) + m.ih)
  BY <1>1, StackRowCover
<1> HIDE DEF A, B
<1> QED
  BY <1>1, <1>2, <1>3, <1>4, RowsCover

\* bstackhoriz covers the whole area.
LEMMA bstackhorizCover ==
  ASSUME NEW m \in Screen, m.cf # << >>, \A i \in 1..Tiled(m) : Ample(m, bstackhoriz(m)[i])
  PROVE  SumOf(Cover(m, bstackhoriz(m))) = (Wide(m) + m.ih) * (High(m) + m.iv)
<1> DEFINE A == MainRow(m, MainY(m))
           B == StackTurned(m)
<1>1. /\ A \in Seq(Rectangle(m)) /\ Len(A) = Len(Masters(m)) /\ B \in Seq(Rectangle(m)) /\ Len(B) = Len(Stack(m))
      /\ MainY(m) \in Int
  BY AreaSeqs
<1>2. bstackhoriz(m) = A \o B
  BY RowLayouts
<1>3. Masters(m) # << >> /\ (\A i \in 1..Len(A) : Ample(m, A[i])) =>
        SumOf(Cover(m, A)) = (Other(m, High(m), m.iv) + m.iv) * (Wide(m) + m.ih)
  BY <1>1, MainRowCover
<1>4. Stack(m) # << >> /\ (\A i \in 1..Len(B) : Ample(m, B[i])) =>
        SumOf(Cover(m, B)) = (Part(m, High(m), m.iv) + m.iv) * (Wide(m) + m.ih)
  BY <1>1, StackTurnedCover
<1> HIDE DEF A, B
<1> QED
  BY <1>1, <1>2, <1>3, <1>4, RowsCover

\* What Fills says, of the windows as the layout places them.
LEMMA FillsCover ==
  ASSUME Settled, cf # << >>,
         SumOf(Cover(mon, Arranged(lt, mon))) = (Wide(mon) + mon.ih) * (High(mon) + mon.iv)
  PROVE  Fills
<1>1. mon \in Screen /\ mon.cf = cf
  BY SettledMon
<1>2. asked = Arranged(lt, mon) /\ lt \in LayoutNames
  BY InUseAssumption DEF Settled
<1>3. DOMAIN rects = 1..Len(cf) /\ Len(asked) = Len(cf)
  BY SettledRects
<1>4. [i \in DOMAIN rects |-> (rects[i].w + mon.ih) * (rects[i].h + mon.iv)] = Cover(mon, asked)
  <2>1. \A i \in 1..Len(cf) : rects[i].w = asked[i].w /\ rects[i].h = asked[i].h
    BY KeptPlace
  <2> HIDE DEF mon
  <2> QED
    BY <1>3, <2>1 DEF Cover
<1>5. Wide(mon) = WW - 2 * mon.oh /\ High(mon) = WH - 2 * mon.ov
  BY MonFields DEF Wide, High
<1>6. Wide(mon) + mon.ih = WW - 2 * mon.oh + mon.ih /\ High(mon) + mon.iv = WH - 2 * mon.ov + mon.iv
  <2>1. WW \in Int /\ WH \in Int /\ 2 * mon.oh \in Int /\ 2 * mon.ov \in Int /\ mon.ih \in Int /\ mon.iv \in Int
    BY <1>1, AreaAssumption DEF Screen
  <2> HIDE DEF mon
  <2> QED
    BY <1>5, <2>1
<1> QED
  BY <1>2, <1>4, <1>6 DEF Fills

\* In a roomy area no window is kept at the least size.
LEMMA RoomyAmple ==
  ASSUME Settled, cf # << >>, Roomy
  PROVE  \A i \in 1..Tiled(mon) : Ample(mon, Arranged(lt, mon)[i])
<1>1. asked = Arranged(lt, mon) /\ Tiled(mon) = Len(cf)
  BY SettledMon DEF Settled
<1> QED
  BY <1>1, RoomyFor

\* With one or two masters a side takes its width of the whole height.
LEMMA SideCover ==
  ASSUME NEW m \in Screen, m.nmaster \in 1..2, NEW first \in {0, 1}, NEW x \in Int, NEW w \in Int,
         SideCount(m, first) > 0,
         \A i \in 1..SideCount(m, first) : Ample(m, SideColumn(m, x, w, first)[i])
  PROVE  SumOf(Cover(m, SideColumn(m, x, w, first))) = (w + m.ih) * (High(m) + m.iv)
<1> DEFINE n == SideCount(m, first)
           s == SideLens(m, first)
           d == Down(m, n)
           y == TopEnd(m)
           C == SideColumn(m, x, w, first)
           g == m.iv
           H == High(m)
<1>1. C = Column(m, x, y, w, s)
  BY DEF SideColumn, SideLens, TopEnd
<1>2. n \in Nat /\ s \in Seq(Int) /\ Len(s) = n /\ SumOf(s) = d
  BY SideFactors, SideLensSum
<1>3. C \in Seq(Rectangle(m)) /\ Len(C) = n
  <2>1. Upright(m, C, n, x, y, w, BottomEnd(m))
    BY SideUpright
  <2> HIDE DEF C, n, y
  <2> QED
    BY <2>1 DEF Upright
<1>4. y \in Int /\ g \in Int /\ H \in Int
  BY Edges
<1> HIDE DEF n, s, C, y
<1>5. d \in Int /\ d + g * (n - 1) = H
  BY <1>2, Lengths
<1> HIDE DEF d, g, H
<1>6. d + g * n = H + g
  <2>1. g * (n - 1) = g * n - g /\ g * n \in Int
    <3>1. \A u, v \in Int : u * (v - 1) = u * v - u /\ u * v \in Int
      OBVIOUS
    <3> QED
      BY <1>2, <1>4, <3>1
  <2> DEFINE e == g * n
  <2>2. d + (e - g) = H /\ e \in Int
    BY <1>5, <2>1
  <2> HIDE DEF e
  <2>3. d + e = H + g
    BY <1>4, <1>5, <2>2
  <2> QED
    BY <2>3 DEF e
<1>7. \A i \in 1..n : Ample(m, C[i])
  BY DEF n, C
<1>8. SumOf(Cover(m, C)) = (w + m.ih) * (SumOf(s) + m.iv * Len(s))
  <2> DEFINE D == Column(m, x, y, w, s)
  <2>1. D \in Seq(Rectangle(m)) /\ Len(D) = Len(s) /\ \A i \in 1..Len(s) : Ample(m, D[i])
    BY <1>1, <1>2, <1>3, <1>7
  <2>2. SumOf(Cover(m, D)) = (w + m.ih) * (SumOf(s) + m.iv * Len(s))
    BY <1>2, <1>4, <2>1, ColumnCover
  <2> QED
    BY <1>1, <2>2
<1> QED
  BY <1>2, <1>6, <1>8 DEF C, g, H

\* The windows of centredmaster's sides, in their columns and in turn.
LEMMA SidesInTurn ==
  ASSUME NEW m \in Screen
  PROVE  /\ SideCount(m, 0) \in Nat /\ SideCount(m, 1) \in Nat
         /\ Len(Stack(m)) + 1 \in (2 * SideCount(m, 0))..(2 * SideCount(m, 0) + 1)
         /\ Len(Stack(m)) \in (2 * SideCount(m, 1))..(2 * SideCount(m, 1) + 1)
         /\ RightColumn(m) \in Seq(Rectangle(m)) /\ Len(RightColumn(m)) = SideCount(m, 0)
         /\ LeftColumn(m) \in Seq(Rectangle(m)) /\ Len(LeftColumn(m)) = SideCount(m, 1)
         /\ InTurn(m) \in Seq(Rectangle(m)) /\ Len(InTurn(m)) = Len(Stack(m))
         /\ \A i \in 1..SideCount(m, 0) :
               2 * i - 1 \in 1..Len(Stack(m)) /\ InTurn(m)[2 * i - 1] = RightColumn(m)[i]
         /\ \A i \in 1..SideCount(m, 1) :
               2 * i \in 1..Len(Stack(m)) /\ InTurn(m)[2 * i] = LeftColumn(m)[i]
<1> DEFINE l == Len(Stack(m))
           a == SideCount(m, 0)
           b == SideCount(m, 1)
           R1 == RightColumn(m)
           L1 == LeftColumn(m)
           T == InTurn(m)
<1>1. l \in Nat /\ DOMAIN Stack(m) = 1..l
  <2>1. l \in Nat /\ Stack(m) \in Seq(Nat \ {0})
    BY Areas, AreaLengths DEF Factors
  <2> QED
    BY <2>1
<1>2. a \in Nat /\ l + 1 \in (2 * a)..(2 * a + 1) /\ b \in Nat /\ l \in (2 * b)..(2 * b + 1)
  <2>1. l - 0 + 1 = l + 1 /\ l + 1 \in Nat /\ l - 1 + 1 = l
    BY <1>1
  <2>2. a = Half(l + 1) /\ b = Half(l)
    BY <2>1 DEF SideCount
  <2> HIDE DEF a, b, l
  <2>3. /\ Half(l + 1) \in Nat /\ l + 1 \in (2 * Half(l + 1))..(2 * Half(l + 1) + 1)
        /\ Half(l) \in Nat /\ l \in (2 * Half(l))..(2 * Half(l) + 1)
    BY <1>1, <2>1, HalfBounds
  <2> QED
    BY <2>2, <2>3
<1>3. R1 \in Seq(Rectangle(m)) /\ Len(R1) = a /\ L1 \in Seq(Rectangle(m)) /\ Len(L1) = b
  <2> DEFINE x == CentreX(m) + CentreWidth(m) + m.ih
             w == RightWidth(m)
             u == LeftEnd(m)
             v == LeftWidth(m)
  <2>1. x \in Int /\ w \in Int /\ u \in Int /\ v \in Int
    BY CentreMeets, Edges
  <2>2. R1 = SideColumn(m, x, w, 0) /\ L1 = SideColumn(m, u, v, 1)
    BY DEF RightColumn, LeftColumn
  <2> HIDE DEF x, w, u, v
  <2>3. Upright(m, SideColumn(m, x, w, 0), a, x, TopEnd(m), w, BottomEnd(m))
    BY <2>1, SideUpright
  <2>4. Upright(m, SideColumn(m, u, v, 1), b, u, TopEnd(m), v, BottomEnd(m))
    BY <2>1, SideUpright
  <2> QED
    BY <2>2, <2>3, <2>4 DEF Upright
<1>4. T = [q \in 1..l |-> IF q % 2 = 1 THEN R1[(q + 1) \div 2] ELSE L1[q \div 2]]
  BY <1>1 DEF InTurn
<1> HIDE DEF l, a, b, R1, L1, T
<1>5. ASSUME NEW q \in 1..l
      PROVE  /\ q % 2 \in {0, 1} /\ SidePos(q) \in Nat \ {0} /\ q = 2 * SidePos(q) - (q % 2)
             /\ q % 2 = 1 => T[q] = R1[SidePos(q)]
             /\ q % 2 = 0 => T[q] = L1[SidePos(q)]
  <2>1. q % 2 \in {0, 1} /\ SidePos(q) \in Nat \ {0} /\ q = 2 * SidePos(q) - (q % 2)
    <3>1. q \in Nat \ {0}
      BY <1>1
    <3> QED
      BY <3>1, SideTurns, Zenon
  <2>2. T[q] = IF q % 2 = 1 THEN R1[(q + 1) \div 2] ELSE L1[q \div 2]
    BY <1>4
  <2>3. (q % 2 = 1 => SidePos(q) = (q + 1) \div 2) /\ (q % 2 = 0 => SidePos(q) = q \div 2)
    BY DEF SidePos, Half
  <2> QED
    BY <2>1, <2>2, <2>3
<1>6. ASSUME NEW q \in 1..l PROVE T[q] \in Rectangle(m)
  <2> DEFINE p == SidePos(q)
             r == q % 2
  <2>1. r \in {0, 1} /\ p \in Nat \ {0} /\ q = 2 * p - r /\ (r = 1 => T[q] = R1[p]) /\ (r = 0 => T[q] = L1[p])
    BY <1>5
  <2> HIDE DEF p, r
  <2>2. (r = 1 => p \in 1..a) /\ (r = 0 => p \in 1..b)
    BY <1>1, <1>2, <2>1
  <2>3. (p \in 1..a => R1[p] \in Rectangle(m)) /\ (p \in 1..b => L1[p] \in Rectangle(m))
    BY <1>3
  <2> QED
    BY <2>1, <2>2, <2>3
<1>7. T \in Seq(Rectangle(m)) /\ Len(T) = l
  <2>1. T \in [1..l -> Rectangle(m)]
    BY <1>4, <1>6
  <2> QED
    BY <1>1, <2>1, SeqMade
<1>8. ASSUME NEW i \in 1..a PROVE 2 * i - 1 \in 1..l /\ T[2 * i - 1] = R1[i]
  <2> DEFINE q == 2 * i - 1
             p == SidePos(q)
             r == q % 2
  <2>1. q \in 1..l /\ q = 2 * i - 1 /\ i \in Int
    BY <1>1, <1>2
  <2>2. r \in {0, 1} /\ p \in Nat \ {0} /\ q = 2 * p - r /\ (r = 1 => T[q] = R1[p])
    BY <1>5, <2>1
  <2> HIDE DEF p, r, q
  <2>3. r = 1 /\ p = i
    BY <2>1, <2>2
  <2> QED
    BY <2>1, <2>2, <2>3
<1>9. ASSUME NEW i \in 1..b PROVE 2 * i \in 1..l /\ T[2 * i] = L1[i]
  <2> DEFINE q == 2 * i
             p == SidePos(q)
             r == q % 2
  <2>1. q \in 1..l /\ q = 2 * i /\ i \in Int
    BY <1>1, <1>2
  <2>2. r \in {0, 1} /\ p \in Nat \ {0} /\ q = 2 * p - r /\ (r = 0 => T[q] = L1[p])
    BY <1>5, <2>1
  <2> HIDE DEF p, r, q
  <2>3. r = 0 /\ p = i
    BY <2>1, <2>2
  <2> QED
    BY <2>1, <2>2, <2>3
<1> QED
  BY <1>2, <1>3, <1>7, <1>8, <1>9 DEF l, a, b, R1, L1, T

\* What the two sides take together.
LEMMA InTurnCover ==
  ASSUME NEW m \in Screen
  PROVE  SumOf(Cover(m, InTurn(m))) = SumOf(Cover(m, RightColumn(m))) + SumOf(Cover(m, LeftColumn(m)))
<1> DEFINE l == Len(Stack(m))
           a == SideCount(m, 0)
           b == SideCount(m, 1)
           R1 == RightColumn(m)
           L1 == LeftColumn(m)
           T == InTurn(m)
           c == Cover(m, T)
           p == Cover(m, R1)
           q == Cover(m, L1)
<1>1. /\ a \in Nat /\ b \in Nat /\ l + 1 \in (2 * a)..(2 * a + 1) /\ l \in (2 * b)..(2 * b + 1)
      /\ R1 \in Seq(Rectangle(m)) /\ Len(R1) = a /\ L1 \in Seq(Rectangle(m)) /\ Len(L1) = b
      /\ T \in Seq(Rectangle(m)) /\ Len(T) = l
      /\ \A i \in 1..a : 2 * i - 1 \in 1..l /\ T[2 * i - 1] = R1[i]
      /\ \A i \in 1..b : 2 * i \in 1..l /\ T[2 * i] = L1[i]
  BY SidesInTurn
<1>2. l \in Nat
  BY AreaLengths
<1> HIDE DEF l, a, b, R1, L1, T
<1>3. c \in Seq(Int) /\ Len(c) = l /\ p \in Seq(Int) /\ Len(p) = a /\ q \in Seq(Int) /\ Len(q) = b
  BY <1>1, CoverType
<1>4. \A i \in 1..a : c[2 * i - 1] = p[i]
  BY <1>1 DEF Cover
<1>5. \A i \in 1..b : c[2 * i] = q[i]
  BY <1>1 DEF Cover
<1> HIDE DEF c, p, q
<1>6. SumOf(c) = SumOf(p) + SumOf(q)
  <2>1. TakeTurns(c, p, q)
    BY <1>1, <1>3, <1>4, <1>5 DEF TakeTurns
  <2> QED
    BY <1>3, <2>1, TurnsSum
<1> QED
  BY <1>6 DEF c, p, q, T, R1, L1

\* Without masters, and with one or two, centredmaster takes all of the area.
LEMMA centredmasterAlone ==
  ASSUME NEW m \in Screen, m.cf # << >>, m.nmaster = 0, \A i \in 1..Tiled(m) : Ample(m, centredmaster(m)[i])
  PROVE  SumOf(Cover(m, centredmaster(m))) = (Wide(m) + m.ih) * (High(m) + m.iv)
<1> DEFINE x == LeftEnd(m)
           y == TopEnd(m)
           w == Wide(m)
           f == m.cf
           C == Column(m, x, y, w, EvenSplit(Down(m, Len(f)), f))
           n == Tiled(m)
           R == centredmaster(m)
<1>1. f \in Factors /\ n = Len(f) /\ n \in Nat /\ f # << >>
  BY DEF Screen, Tiled, Factors
<1>2. x \in Int /\ y \in Int /\ w \in Int
  BY Edges
<1>3. ~Parted(m)
  BY DEF Parted
<1>4. CentreWidth(m) = w
  BY <1>3 DEF CentreWidth
<1>5. Upright(m, C, n, x, y, w, BottomEnd(m))
  BY <1>1, <1>2, AreaColumn
<1>6. C \in Seq(Rectangle(m)) /\ Len(C) = n
  <2> HIDE DEF C, n, x, y, w
  <2> QED
    BY <1>5 DEF Upright
<1>7. R = C \o << >>
  <2>1. m.wx + m.oh + 0 = m.wx + m.oh
    BY <1>2 DEF LeftEnd
  <2> QED
    BY <1>3, <1>4, <2>1 DEF centredmaster, LeftEnd, TopEnd
<1>8. R = C
  <2> HIDE DEF C, R
  <2> QED
    BY <1>6, <1>7
<1>9. \A i \in 1..Len(C) : Ample(m, C[i])
  BY <1>6, <1>8
<1>10. C = Column(m, x, y, w, EvenSplit(Down(m, Len(f)), f))
  OBVIOUS
<1> HIDE DEF C, R, x, y, f
<1>11. SumOf(Cover(m, C)) = (w + m.ih) * (High(m) + m.iv)
  <2>1. Covers(m, C, w + m.ih, High(m) + m.iv)
    BY <1>1, <1>2, <1>6, <1>9, <1>10, ColumnFull
  <2> QED
    BY <2>1, Zenon DEF Covers
<1> QED
  BY <1>8, <1>11 DEF R

\* centredmaster covers the whole area with two masters or fewer.
LEMMA centredmasterCover ==
  ASSUME NEW m \in Screen, m.cf # << >>, m.nmaster \in 0..2, \A i \in 1..Tiled(m) : Ample(m, centredmaster(m)[i])
  PROVE  SumOf(Cover(m, centredmaster(m))) = (Wide(m) + m.ih) * (High(m) + m.iv)
<1>1. CASE m.nmaster = 0
  BY <1>1, centredmasterAlone
<1>2. CASE m.nmaster # 0
  <2> DEFINE R == centredmaster(m)
             A == CentreColumn(m)
             T == InTurn(m)
             R1 == RightColumn(m)
             L1 == LeftColumn(m)
             k == Len(Masters(m))
             l == Len(Stack(m))
             a == SideCount(m, 0)
             b == SideCount(m, 1)
             g == m.ih
             u == High(m) + m.iv
             W == Wide(m)
             cw == CentreWidth(m)
             lw == LeftWidth(m)
             rw == RightWidth(m)
  <2>1. m.nmaster \in 1..2
    BY <1>2
  <2>2. /\ k \in Nat /\ l \in Nat /\ Tiled(m) = k + l /\ (Parted(m) <=> k > 0 /\ l > 0) /\ (Masters(m) # << >> <=> k > 0)
    BY AreaLengths
  <2>3. k > 0
    <3>1. Tiled(m) # 0 /\ Tiled(m) \in Nat /\ k = Least(m.nmaster, Tiled(m))
      BY Areas DEF Tiled, Factors
    <3> HIDE DEF k
    <3> QED
      BY <2>1, <3>1 DEF Least
  <2>4. /\ a \in Nat /\ b \in Nat /\ l + 1 \in (2 * a)..(2 * a + 1) /\ l \in (2 * b)..(2 * b + 1)
        /\ R1 \in Seq(Rectangle(m)) /\ Len(R1) = a /\ L1 \in Seq(Rectangle(m)) /\ Len(L1) = b
        /\ T \in Seq(Rectangle(m)) /\ Len(T) = l
        /\ \A i \in 1..a : 2 * i - 1 \in 1..l /\ T[2 * i - 1] = R1[i]
        /\ \A i \in 1..b : 2 * i \in 1..l /\ T[2 * i] = L1[i]
    BY SidesInTurn
  <2>5. R = A \o T
    BY <2>1, CentreParts
  <2>6. /\ W \in Int /\ g \in Int /\ u \in Int /\ cw \in Int /\ lw \in Int /\ rw \in Int
        /\ ~(l > 0) => cw = W
        /\ l = 1 => cw + g + rw = W
        /\ l > 1 => lw + g + cw + g + rw = W
    <3> DEFINE x == CentreX(m)
               left == LeftEnd(m)
               right == RightEnd(m)
    <3>1. /\ W \in Int /\ g \in Int /\ left \in Int /\ right \in Int /\ left + W = right /\ High(m) \in Int /\ m.iv \in Int
      BY Edges
    <3>2. /\ cw \in Int /\ lw \in Int /\ rw \in Int /\ x \in Int
          /\ ~Parted(m) => cw = W
          /\ ~Sides2(m) => x = left
          /\ Parted(m) => x + cw + g + rw = right
          /\ Sides2(m) => left + lw + g = x
      BY CentreMeets
    <3>3. (Sides2(m) <=> l > 1) /\ (Parted(m) <=> l > 0)
      BY <2>2, <2>3 DEF Sides2
    <3>4. u \in Int
      BY <3>1
    <3> HIDE DEF W, g, u, cw, lw, rw, x, left, right, l
    <3>5. ~(l > 0) => cw = W
      BY <3>2, <3>3
    <3>6. l = 1 => cw + g + rw = W
      <4>1. l = 1 => l > 0 /\ ~(l > 1)
        OBVIOUS
      <4> QED
        BY <3>1, <3>2, <3>3, <4>1
    <3>7. l > 1 => lw + g + cw + g + rw = W
      <4>1. l > 1 => l > 0
        BY <2>2
      <4> QED
        BY <3>1, <3>2, <3>3, <4>1
    <3> QED
      BY <3>1, <3>2, <3>4, <3>5, <3>6, <3>7
  <2>7. A \in Seq(Rectangle(m)) /\ Len(A) = k /\ (A \in Seq(Rectangle(m)) /\ (\A i \in 1..k : Ample(m, A[i])) => SumOf(Cover(m, A)) = (cw + g) * u)
    <3> DEFINE x == CentreX(m)
               y == TopEnd(m)
               f == Masters(m)
    <3>1. x \in Int /\ y \in Int /\ f \in Factors /\ f # << >>
      BY <2>2, <2>3, CentreMeets, Edges, Areas
    <3>2. A = Column(m, x, y, cw, EvenSplit(Down(m, Len(f)), f))
      BY <1>2 DEF CentreColumn, CentreFacts
    <3>3. k = Len(f) /\ k \in Int
      BY <2>2
    <3> HIDE DEF x, y, f, k, A, cw
    <3>4. Upright(m, Column(m, x, y, cw, EvenSplit(Down(m, Len(f)), f)), Len(f), x, y, cw, BottomEnd(m))
      BY <2>6, <3>1, <3>3, AreaColumn DEF y
    <3>5. A \in Seq(Rectangle(m)) /\ Len(A) = k
      BY <3>2, <3>3, <3>4 DEF Upright
    <3>6. (\A i \in 1..k : Ample(m, A[i])) => SumOf(Cover(m, A)) = (cw + m.ih) * (High(m) + m.iv)
      <4> SUFFICES ASSUME \A i \in 1..k : Ample(m, A[i])
                   PROVE  SumOf(Cover(m, A)) = (cw + m.ih) * (High(m) + m.iv)
        OBVIOUS
      <4>1. \A i \in 1..Len(A) : Ample(m, A[i])
        BY <3>5
      <4>2. Covers(m, A, cw + m.ih, High(m) + m.iv)
        BY <2>6, <3>1, <3>2, <3>3, <3>5, <4>1, ColumnFull
      <4> QED
        BY <4>2, Zenon DEF Covers
    <3> QED
      BY <3>5, <3>6
  <2> HIDE DEF A, T, R1, L1, k, l, a, b
  <2>8. (\A i \in 1..k : Ample(m, A[i])) /\ \A i \in 1..l : Ample(m, T[i])
    <3> DEFINE n == Tiled(m)
    <3>1. \A i \in 1..n : Ample(m, (A \o T)[i])
      BY <2>5
    <3>2. A \in Seq(Rectangle(m)) /\ T \in Seq(Rectangle(m)) /\ Len(A) = k /\ Len(T) = l
      BY <2>4, <2>7
    <3>3. n = Len(A) + Len(T)
      BY <2>2, <3>2
    <3> HIDE DEF n
    <3>4. (\A i \in 1..Len(A) : Ample(m, A[i])) /\ \A i \in 1..Len(T) : Ample(m, T[i])
      BY <3>1, <3>2, <3>3, JoinedAmple
    <3> QED
      BY <3>2, <3>4
  <2>9. SumOf(Cover(m, R)) = SumOf(Cover(m, A)) + SumOf(Cover(m, T))
    BY <2>4, <2>5, <2>7, CoverJoin
  <2>10. SumOf(Cover(m, T)) = SumOf(Cover(m, R1)) + SumOf(Cover(m, L1))
    BY InTurnCover DEF T, R1, L1
  <2>11. SumOf(Cover(m, A)) = (cw + g) * u
    BY <2>7, <2>8
  <2>12. a > 0 => SumOf(Cover(m, R1)) = (rw + g) * u
    <3> SUFFICES ASSUME a > 0 PROVE SumOf(Cover(m, R1)) = (rw + g) * u
      OBVIOUS
    <3> DEFINE x == CentreX(m) + CentreWidth(m) + m.ih
    <3>1. x \in Int
      BY CentreMeets, Edges
    <3>2. R1 = SideColumn(m, x, rw, 0)
      BY DEF R1, RightColumn
    <3>3. \A i \in 1..a : Ample(m, R1[i])
      BY <2>4, <2>8
    <3>4. a = SideCount(m, 0)
      BY DEF a
    <3> HIDE DEF x, rw
    <3>5. SumOf(Cover(m, SideColumn(m, x, rw, 0))) = (rw + m.ih) * (High(m) + m.iv)
      BY <2>1, <2>6, <3>1, <3>2, <3>3, <3>4, SideCover
    <3> QED
      BY <3>2, <3>5
  <2>13. b > 0 => SumOf(Cover(m, L1)) = (lw + g) * u
    <3> SUFFICES ASSUME b > 0 PROVE SumOf(Cover(m, L1)) = (lw + g) * u
      OBVIOUS
    <3> DEFINE x == LeftEnd(m)
    <3>1. x \in Int
      BY Edges
    <3>2. L1 = SideColumn(m, x, lw, 1)
      BY DEF L1, LeftColumn
    <3>3. \A i \in 1..b : Ample(m, L1[i])
      BY <2>4, <2>8
    <3>4. b = SideCount(m, 1)
      BY DEF b
    <3> HIDE DEF x, lw
    <3>5. SumOf(Cover(m, SideColumn(m, x, lw, 1))) = (lw + m.ih) * (High(m) + m.iv)
      BY <2>1, <2>6, <3>1, <3>2, <3>3, <3>4, SideCover
    <3> QED
      BY <3>2, <3>5
  <2>14. (a = 0 => SumOf(Cover(m, R1)) = 0) /\ (b = 0 => SumOf(Cover(m, L1)) = 0)
    BY <2>4, EmptyCover
  <2> HIDE DEF R, W, g, u, cw, lw, rw
  <2>15. \A p \in Int : (p + g) * u \in Int
    <3> SUFFICES ASSUME NEW p \in Int PROVE (p + g) * u \in Int
      OBVIOUS
    <3> DEFINE e == p + g
    <3>1. e \in Int
      BY <2>6
    <3> HIDE DEF e
    <3>2. e * u \in Int
      BY <2>6, <3>1, Products
    <3> QED
      BY <3>2 DEF e
  <2>16. CASE l = 0
    <3>1. a = 0 /\ b = 0 /\ cw = W
      BY <2>4, <2>6, <2>16
    <3> QED
      BY <2>6, <2>9, <2>10, <2>11, <2>14, <2>15, <3>1 DEF R, W, g, u
  <2>17. CASE l = 1
    <3>1. a > 0 /\ b = 0 /\ cw + g + rw = W
      BY <2>4, <2>6, <2>17
    <3>2. (cw + g) * u + (rw + g) * u = (W + g) * u
      BY <2>6, <3>1, PartsCover
    <3>3. SumOf(Cover(m, R)) = (cw + g) * u + (rw + g) * u
      BY <2>6, <2>9, <2>10, <2>11, <2>12, <2>14, <2>15, <3>1
    <3> QED
      BY <3>2, <3>3 DEF R, W, g, u
  <2>18. CASE l > 1
    <3> DEFINE e == lw + g + cw
    <3>1. a > 0 /\ b > 0 /\ e + g + rw = W /\ e \in Int
      BY <2>2, <2>4, <2>6, <2>18
    <3>2. (lw + g) * u + (cw + g) * u = (e + g) * u
      BY <2>6, PartsCover
    <3> HIDE DEF e
    <3>3. (e + g) * u + (rw + g) * u = (W + g) * u
      BY <2>6, <3>1, PartsCover
    <3>4. SumOf(Cover(m, R)) = (cw + g) * u + ((rw + g) * u + (lw + g) * u)
      BY <2>9, <2>10, <2>11, <2>12, <2>13, <3>1
    <3>5. (cw + g) * u \in Int /\ (rw + g) * u \in Int /\ (lw + g) * u \in Int
      BY <2>6, <2>15
    <3> DEFINE X == (cw + g) * u
               Y == (rw + g) * u
               Z == (lw + g) * u
    <3>6. X \in Int /\ Y \in Int /\ Z \in Int /\ SumOf(Cover(m, R)) = X + (Y + Z) /\ Z + X + Y = (W + g) * u
      BY <3>2, <3>3, <3>4, <3>5
    <3> HIDE DEF X, Y, Z
    <3>7. SumOf(Cover(m, R)) = (W + g) * u
      BY <3>6
    <3> QED
      BY <3>7 DEF R, W, g, u
  <2>19. l = 0 \/ l = 1 \/ l > 1
    BY <2>2
  <2> QED
    BY <2>16, <2>17, <2>18, <2>19
<1> QED
  BY <1>1, <1>2

\* The columns of gaplessgrid: how many, the windows of each and those before it.
GapCols(m) == IF Tiled(m) = 5 THEN 2 ELSE GridSide(Tiled(m))

GapRows(m) == Tiled(m) \div GapCols(m)

GapShort(m) == GapCols(m) - (Tiled(m) % GapCols(m))

GapHeight(m, c) == IF c < GapShort(m) THEN GapRows(m) ELSE GapRows(m) + 1

GapBefore(m, c) == GapRows(m) * c + Greatest(c - GapShort(m), 0)

\* gaplessgrid has as many cells as windows: its first columns one cell less
\* than the others.
LEMMA GapNumbers ==
  ASSUME NEW m \in Screen, m.cf # << >>
  PROVE  /\ Tiled(m) \in Nat \ {0} /\ GapCols(m) \in Nat \ {0} /\ GapRows(m) \in Nat \ {0}
         /\ GapShort(m) \in 1..GapCols(m)
         /\ GapRows(m) * GapCols(m) + (GapCols(m) - GapShort(m)) = Tiled(m)
<1> DEFINE n == Tiled(m)
           cols == GapCols(m)
           rows == GapRows(m)
           short == GapShort(m)
           q == n % cols
<1>1. n \in Nat \ {0}
  BY DEF Screen, Tiled, Factors
<1>2. cols \in 1..n
  <2>1. cols = IF n = 5 THEN 2 ELSE GridSide(n)
    BY DEF GapCols
  <2> HIDE DEF n, cols
  <2>2. GridSide(n) \in 1..n
    BY <1>1, GridSides
  <2> QED
    BY <1>1, <2>1, <2>2
<1>3. rows = n \div cols /\ short = cols - q
  BY DEF GapRows, GapShort
<1> HIDE DEF n, cols, rows, short
<1>4. rows \in Int /\ q \in 0..(cols - 1) /\ n = (cols * rows) + q
  <2>1. n \in Int /\ cols \in Nat \ {0}
    BY <1>1, <1>2
  <2>2. n \div cols \in Int /\ n % cols \in 0..(cols - 1) /\ n = (cols * (n \div cols)) + (n % cols)
    BY <2>1, DivMod
  <2> HIDE DEF q
  <2> QED
    BY <1>3, <2>2 DEF q
<1> HIDE DEF q
<1>5. rows > 0
  <2>1. ASSUME rows <= 0 PROVE FALSE
    <3>1. cols * rows <= 0 /\ cols * rows \in Int
      <4> DEFINE z == -rows
      <4>1. z \in Nat /\ rows = -z /\ cols \in Nat
        BY <1>2, <1>4, <2>1
      <4>2. cols * z \in Nat /\ cols * rows = -(cols * z)
        BY <4>1
      <4> QED
        BY <4>2
    <3> QED
      BY <1>1, <1>2, <1>4, <3>1
  <2> QED
    BY <1>4, <2>1
<1>6. short \in 1..cols /\ cols - short = q
  BY <1>2, <1>3, <1>4
<1>7. rows * cols + (cols - short) = n
  <2>1. rows * cols = cols * rows
    BY <1>2, <1>4
  <2> QED
    BY <1>4, <1>6, <2>1
<1> QED
  BY <1>1, <1>2, <1>4, <1>5, <1>6, <1>7 DEF n, cols, rows, short

\* Column after column the windows are all of them.
LEMMA GapRuns ==
  ASSUME NEW m \in Screen, m.cf # << >>
  PROVE  /\ GapBefore(m, 0) = 0 /\ GapBefore(m, GapCols(m)) = Tiled(m)
         /\ \A c \in 0..GapCols(m) : GapBefore(m, c) \in 0..Tiled(m)
         /\ \A c \in 0..(GapCols(m) - 1) : /\ GapHeight(m, c) \in Nat \ {0}
                                           /\ GapBefore(m, c + 1) = GapBefore(m, c) + GapHeight(m, c)
<1> DEFINE n == Tiled(m)
           cols == GapCols(m)
           rows == GapRows(m)
           short == GapShort(m)
           before(c) == rows * c + Greatest(c - short, 0)
           height(c) == IF c < short THEN rows ELSE rows + 1
<1>1. /\ n \in Nat \ {0} /\ cols \in Nat \ {0} /\ rows \in Nat \ {0} /\ short \in 1..cols
      /\ rows * cols + (cols - short) = n
  BY GapNumbers
<1>2. \A c : GapBefore(m, c) = before(c) /\ GapHeight(m, c) = height(c)
  BY DEF GapBefore, GapHeight
<1> HIDE DEF n, cols, rows, short
<1>3. before(0) = 0
  <2>1. rows * 0 = 0
    BY <1>1
  <2> QED
    BY <1>1, <2>1 DEF Greatest
<1>4. before(cols) = n
  BY <1>1 DEF Greatest
<1>5. ASSUME NEW c \in 0..(cols - 1) PROVE height(c) \in Nat \ {0} /\ before(c + 1) = before(c) + height(c)
  <2>1. rows * (c + 1) = rows * c + rows /\ rows * c \in Int
    BY <1>1
  <2>2. Greatest((c + 1) - short, 0) = Greatest(c - short, 0) + (IF c < short THEN 0 ELSE 1) /\ Greatest(c - short, 0) \in Int
    BY <1>1 DEF Greatest
  <2> DEFINE x == rows * c
             y == Greatest(c - short, 0)
             o == IF c < short THEN 0 ELSE 1
  <2>3. x \in Int /\ y \in Int /\ o \in Int /\ before(c) = x + y
    BY <2>1, <2>2
  <2>4. before(c + 1) = (x + rows) + (y + o)
    <3>1. before(c + 1) = rows * (c + 1) + Greatest((c + 1) - short, 0)
      OBVIOUS
    <3>2. rows * (c + 1) = x + rows /\ Greatest((c + 1) - short, 0) = y + o
      BY <2>1, <2>2
    <3> HIDE DEF before, x, y, o
    <3> QED
      BY <3>1, <3>2
  <2>5. height(c) \in Nat \ {0} /\ height(c) = rows + o
    BY <1>1
  <2> HIDE DEF x, y, o, before, height
  <2>6. before(c + 1) = before(c) + height(c)
    BY <1>1, <2>3, <2>4, <2>5
  <2> QED
    BY <2>5, <2>6
<1>6. ASSUME NEW c \in 0..cols PROVE before(c) \in 0..n
  <2>1. rows * c \in Nat /\ rows * (cols - c) \in Nat /\ rows * (cols - c) = rows * cols - rows * c /\ rows * cols \in Int
    <3>1. c \in Nat /\ cols - c \in Nat
      BY <1>1
    <3> QED
      BY <1>1, <3>1
  <2> DEFINE x == rows * c
             y == rows * cols
  <2>2. x \in Nat /\ y \in Int /\ y - x \in Nat /\ y + (cols - short) = n
    BY <1>1, <2>1
  <2>3. before(c) = x + Greatest(c - short, 0)
    OBVIOUS
  <2> HIDE DEF x, y, before
  <2>4. Greatest(c - short, 0) \in Nat /\ Greatest(c - short, 0) <= cols - short
    BY <1>1 DEF Greatest
  <2> QED
    BY <1>1, <2>2, <2>3, <2>4
<1> HIDE DEF before, height
<1>7. /\ GapBefore(m, 0) = 0 /\ GapBefore(m, cols) = n
      /\ \A c \in 0..cols : GapBefore(m, c) \in 0..n
      /\ \A c \in 0..(cols - 1) : GapHeight(m, c) \in Nat \ {0} /\ GapBefore(m, c + 1) = GapBefore(m, c) + GapHeight(m, c)
  BY <1>2, <1>3, <1>4, <1>5, <1>6
<1> QED
  BY <1>7 DEF n, cols

\* The window that is the t-th of column c, from 0.
LEMMA GapCells ==
  ASSUME NEW m \in Screen, m.cf # << >>, NEW c \in 0..(GapCols(m) - 1), NEW t \in 0..(GapHeight(m, c) - 1)
  PROVE  /\ GapBefore(m, c) + t + 1 \in 1..Tiled(m)
         /\ gaplessgrid(m)[GapBefore(m, c) + t + 1] = Cell(m, c, GapCols(m), t, GapHeight(m, c))
<1> DEFINE n == Tiled(m)
           cols == GapCols(m)
           rows == GapRows(m)
           short == GapShort(m)
           h == GapHeight(m, c)
           i == GapBefore(m, c) + t
           j == i + 1
           k == i - rows * short
           R == gaplessgrid(m)
<1>1. /\ n \in Nat \ {0} /\ cols \in Nat \ {0} /\ rows \in Nat \ {0} /\ short \in 1..cols
  BY GapNumbers
<1>2. /\ GapBefore(m, c) \in 0..n /\ h \in Nat \ {0} /\ GapBefore(m, c) + h <= n
  <2>1. c \in 0..cols /\ c + 1 \in 0..cols
    BY <1>1
  <2>2. GapBefore(m, c) \in 0..n /\ GapBefore(m, c + 1) \in 0..n /\ h \in Nat \ {0} /\ GapBefore(m, c + 1) = GapBefore(m, c) + h
    BY <2>1, GapRuns
  <2> QED
    BY <1>1, <2>2
<1>3. i \in Nat /\ j \in 1..n /\ j - 1 = i
  <2> DEFINE b == GapBefore(m, c)
  <2>1. b \in Nat /\ h \in Nat /\ b + h <= n /\ t \in 0..(h - 1)
    BY <1>2
  <2> HIDE DEF b, h, n
  <2>2. b + t \in Nat /\ (b + t) + 1 \in 1..n /\ (b + t) + 1 - 1 = b + t
    BY <1>1, <2>1
  <2> QED
    BY <2>2 DEF b
<1>4. R = [x \in 1..n |->
             LET y == x - 1
                 z == y - rows * short
             IN  IF z < 0
                 THEN Cell(m, y \div rows, cols, y % rows, rows)
                 ELSE Cell(m, short + z \div (rows + 1), cols, z % (rows + 1), rows + 1)]
  BY DEF gaplessgrid, GapCols, GapRows, GapShort
<1>5. i = rows * c + Greatest(c - short, 0) + t /\ h = IF c < short THEN rows ELSE rows + 1
  BY DEF GapBefore, GapHeight
<1> HIDE DEF n, cols, rows, short, h, i, R
<1>6. R[j] = IF k < 0 THEN Cell(m, i \div rows, cols, i % rows, rows)
             ELSE Cell(m, short + k \div (rows + 1), cols, k % (rows + 1), rows + 1)
  BY <1>3, <1>4
<1>7. c \in Nat /\ t \in 0..(h - 1) /\ c < cols
  BY <1>1 DEF h, cols
<1>8. CASE c < short
  <2>1. i = rows * c + t /\ h = rows /\ t \in 0..(rows - 1)
    <3>1. Greatest(c - short, 0) = 0
      BY <1>1, <1>7, <1>8 DEF Greatest
    <3>2. rows * c \in Int
      BY <1>1, <1>7
    <3> QED
      BY <1>1, <1>5, <1>7, <1>8, <3>1, <3>2
  <2>2. k < 0
    <3>1. short - c - 1 \in Nat
      BY <1>1, <1>7, <1>8
    <3>2. rows * (short - c - 1) \in Nat
      BY <1>1, <3>1
    <3>3. rows * (short - c - 1) = rows * short - rows * c - rows /\ rows * short \in Int /\ rows * c \in Int
      BY <1>1, <1>7
    <3> QED
      BY <1>1, <2>1, <3>2, <3>3
  <2>3. i \div rows = c /\ i % rows = t
    <3>1. i \div rows \in Int /\ i % rows \in 0..(rows - 1) /\ i = (rows * (i \div rows)) + (i % rows)
      BY <1>1, <1>3, DivMod
    <3> DEFINE d == i \div rows
               s == i % rows
    <3>2. d \in Int /\ s \in 0..(rows - 1) /\ rows * d + s = rows * c + t
      BY <2>1, <3>1
    <3> HIDE DEF d, s
    <3>3. d = c /\ s = t
      BY <1>1, <1>7, <2>1, <3>2, OneDivision
    <3> QED
      BY <3>3 DEF d, s
  <2>4. R[j] = Cell(m, c, cols, t, h)
    BY <1>6, <2>1, <2>2, <2>3
  <2> QED
    BY <1>3, <2>4 DEF n, cols, h, i, R
<1>9. CASE ~(c < short)
  <2> DEFINE b == rows + 1
             e == c - short
  <2>1. b \in Nat \ {0} /\ e \in Nat /\ h = b /\ t \in 0..(b - 1) /\ short + e = c
    BY <1>1, <1>5, <1>7, <1>9
  <2>2. k = b * e + t
    <3>1. Greatest(c - short, 0) = e
      BY <1>1, <1>7, <1>9 DEF Greatest
    <3>2. rows * c = rows * short + rows * e /\ b * e = rows * e + e /\ rows * short \in Int /\ rows * e \in Int
      BY <1>1, <1>7
    <3> DEFINE x == rows * short
               y == rows * e
               z == rows * c
    <3>3. i = z + e + t /\ z = x + y /\ b * e = y + e /\ x \in Int /\ y \in Int /\ k = i - x
      BY <1>5, <3>1, <3>2
    <3> HIDE DEF x, y, z, k, e, b
    <3>4. k = y + e + t
      BY <1>7, <2>1, <3>3
    <3> QED
      BY <1>7, <2>1, <3>3, <3>4
  <2>3. k \in Nat /\ ~(k < 0)
    <3>1. b * e \in Nat
      BY <2>1
    <3> QED
      BY <2>1, <2>2, <3>1
  <2> HIDE DEF b, e, k
  <2>4. k \div b = e /\ k % b = t
    <3>1. k \div b \in Int /\ k % b \in 0..(b - 1) /\ k = (b * (k \div b)) + (k % b)
      BY <2>1, <2>3, DivMod
    <3> DEFINE d == k \div b
               s == k % b
    <3>2. d \in Int /\ s \in 0..(b - 1) /\ b * d + s = b * e + t
      BY <2>2, <3>1
    <3> HIDE DEF d, s
    <3>3. d = e /\ s = t
      BY <2>1, <3>2, OneDivision
    <3> QED
      BY <3>3 DEF d, s
  <2>5. R[j] = Cell(m, short + k \div b, cols, k % b, b)
    BY <1>6, <2>3 DEF b, k
  <2>6. R[j] = Cell(m, c, cols, t, h)
    BY <2>1, <2>4, <2>5
  <2> QED
    BY <1>3, <2>6 DEF n, cols, h, i, R
<1> QED
  BY <1>8, <1>9

\* gaplessgrid takes all of the area.
LEMMA gaplessgridCover ==
  ASSUME NEW m \in Screen, m.cf # << >>, \A i \in 1..Tiled(m) : Ample(m, gaplessgrid(m)[i])
  PROVE  SumOf(Cover(m, gaplessgrid(m))) = (Wide(m) + m.ih) * (High(m) + m.iv)
<1> DEFINE R == gaplessgrid(m)
           n == Tiled(m)
           cols == GapCols(m)
           W == Wide(m)
           H == High(m)
           gh == m.ih
           gv == m.iv
           q == Cover(m, R)
           pos(c) == LinePos(W, gh, cols, c)
           v == H + gv
           before(c) == GapBefore(m, c)
           S == {c \in 0..cols : Total(q, before(c)) = pos(c) * v}
<1>1. n \in Nat \ {0} /\ cols \in Nat \ {0} /\ W \in Int /\ H \in Int /\ gh \in Nat /\ gv \in Nat /\ v \in Int
  BY GapNumbers, Edges
<1>2. R \in Seq(Rectangle(m)) /\ Len(R) = n
  BY gaplessgridPlaces DEF GridPlaces
<1>3. q \in Seq(Int) /\ Len(q) = n
  BY <1>2, CoverType
<1>4. /\ pos(0) = 0 /\ pos(cols) = W + gh /\ \A c \in 0..cols : pos(c) \in Int
      /\ \A c \in 0..(cols - 1) : LineLen(W, gh, cols, c) \in Int /\ pos(c + 1) = pos(c) + (LineLen(W, gh, cols, c) + gh)
  BY <1>1, LineRuns
<1>5. /\ before(0) = 0 /\ before(cols) = n /\ \A c \in 0..cols : before(c) \in 0..n
      /\ \A c \in 0..(cols - 1) : GapHeight(m, c) \in Nat \ {0} /\ before(c + 1) = before(c) + GapHeight(m, c)
  BY GapRuns
<1>6. ASSUME NEW c \in 0..(cols - 1), NEW t \in 0..(GapHeight(m, c) - 1)
      PROVE  q[before(c) + t + 1] = (LineLen(W, gh, cols, c) + gh) * (LineLen(H, gv, GapHeight(m, c), t) + gv)
  <2> DEFINE j == before(c) + t + 1
             h == GapHeight(m, c)
             r == R[j]
  <2>1. j \in 1..n /\ r = Cell(m, c, cols, t, h)
    BY GapCells
  <2>2. h \in Nat \ {0} /\ Ample(m, r)
    BY <1>5, <2>1
  <2>3. q[j] = (r.w + m.ih) * (r.h + m.iv)
    BY <1>2, <2>1 DEF Cover
  <2> HIDE DEF j, r, h, cols, q
  <2>4. r.w = LineLen(Wide(m), m.ih, cols, c) /\ r.h = LineLen(High(m), m.iv, h, t)
    <3>1. t \in 0..(h - 1) /\ c \in 0..(cols - 1)
      BY DEF h, cols
    <3>2. Ample(m, Cell(m, c, cols, t, h))
      BY <2>1, <2>2
    <3>3. /\ Cell(m, c, cols, t, h).w = LineLen(Wide(m), m.ih, cols, c)
          /\ Cell(m, c, cols, t, h).h = LineLen(High(m), m.iv, h, t)
      BY <1>1, <2>2, <3>1, <3>2, Cells
    <3> QED
      BY <2>1, <3>3
  <2> QED
    BY <2>3, <2>4 DEF j, h
<1> HIDE DEF R, n, cols, W, H, gh, gv, q, pos, v, before
<1>7. 0 \in S
  <2>1. Total(q, 0) = 0
    BY <1>3, TotalRuns
  <2>2. 0 * v = 0 /\ 0 \in 0..cols
    BY <1>1
  <2> QED
    BY <1>4, <1>5, <2>1, <2>2
<1>8. ASSUME NEW c \in 0..cols, c # cols, c \in S PROVE c + 1 \in S
  <2> DEFINE h == GapHeight(m, c)
             u == LineLen(W, gh, cols, c) + gh
             b == before(c)
             P == pos(c)
  <2>1. c \in 0..(cols - 1) /\ c + 1 \in 0..cols
    BY <1>1, <1>8
  <2>2. /\ h \in Nat \ {0} /\ b \in Nat /\ before(c + 1) = b + h /\ b + h <= n
        /\ u \in Int /\ P \in Int /\ pos(c + 1) = P + u
    <3>1. before(c + 1) \in 0..n
      BY <1>5, <2>1
    <3> QED
      BY <1>1, <1>4, <1>5, <2>1, <3>1
  <2>3. LineAt(q, b, H, gv, h, u)
    BY <1>6, <2>1 DEF LineAt
  <2>4. Total(q, b) = P * v
    BY <1>8
  <2> HIDE DEF h, u, b, P, S
  <2>5. Total(q, b + h) = Total(q, b) + u * (H + gv)
    <3>1. b + h <= Len(q) /\ q \in Seq(Int) /\ H \in Int /\ gv \in Nat
      BY <1>1, <1>3, <2>2
    <3>2. h \in Nat \ {0} /\ b \in Nat /\ u \in Int
      BY <2>2
    <3>3. LineSum(q, b, H, gv, h, u)
      BY <2>3, <3>1, <3>2, LineTotal
    <3> QED
      BY <3>3, Zenon DEF LineSum
  <2>6. (P + u) * v = P * v + u * v
    <3>1. v * (P + u) = v * P + v * u
      BY <1>1, <2>2, Products
    <3>2. P * v = v * P /\ u * v = v * u
      BY <1>1, <2>2, Products
    <3> DEFINE e == P + u
    <3>3. e \in Int
      BY <2>2
    <3> HIDE DEF e
    <3>4. e * v = v * e
      BY <1>1, <3>3, Products
    <3> QED
      BY <3>1, <3>2, <3>4 DEF e
  <2>7. Total(q, before(c + 1)) = pos(c + 1) * v
    BY <2>2, <2>4, <2>5, <2>6 DEF v
  <2> QED
    BY <2>1, <2>7 DEF S
<1> HIDE DEF S
<1>9. \A c \in 0..cols : c \in S
  <2>1. cols \in Nat /\ 0 \in Nat
    BY <1>1
  <2> QED
    BY <1>7, <1>8, <2>1, Upwards
<1>10. cols \in S
  BY <1>1, <1>9
<1>11. SumOf(q) = (W + gh) * v
  BY <1>3, <1>4, <1>5, <1>10 DEF S, SumOf
<1> QED
  BY <1>11 DEF q, R, W, gh, v, H, gv

\* The layouts that split the area by division place their windows to fill it.
LEMMA SettledFills == Settled => (lt \notin {"dwindle", "spiral"} => Fills)
<1> SUFFICES ASSUME Settled, lt \notin {"dwindle", "spiral"}, Roomy, UsesAll, cf # << >> PROVE Fills
  <2>1. Settled /\ cf = << >> => Len(cf) = 0
    OBVIOUS
  <2> QED
    BY <2>1 DEF Fills
<1>1. mon \in Screen /\ mon.cf # << >> /\ mon.nmaster = nmaster /\ nmaster \in Nat
  BY SettledMon DEF Settled
<1>2. \A i \in 1..Tiled(mon) : Ample(mon, Arranged(lt, mon)[i])
  BY RoomyAmple
<1>3. /\ Arranged("tile", mon) = tile(mon) /\ Arranged("bstack", mon) = bstack(mon)
      /\ Arranged("bstackhoriz", mon) = bstackhoriz(mon) /\ Arranged("gaplessgrid", mon) = gaplessgrid(mon)
      /\ Arranged("centredmaster", mon) = centredmaster(mon)
  BY <1>1, ArrangedBy
<1>4. SumOf(Cover(mon, Arranged(lt, mon))) = (Wide(mon) + mon.ih) * (High(mon) + mon.iv)
  <2>1. CASE lt = "tile"
    BY <1>1, <1>2, <1>3, <2>1, tileCover
  <2>2. CASE lt = "bstack"
    BY <1>1, <1>2, <1>3, <2>2, bstackCover
  <2>3. CASE lt = "bstackhoriz"
    BY <1>1, <1>2, <1>3, <2>3, bstackhorizCover
  <2>4. CASE lt = "gaplessgrid"
    BY <1>1, <1>2, <1>3, <2>4, gaplessgridCover
  <2>5. CASE lt = "centredmaster" /\ nmaster <= 2
    <3>1. mon.nmaster \in 0..2
      BY <1>1, <2>5
    <3> QED
      BY <1>1, <1>2, <1>3, <2>5, <3>1, centredmasterCover
  <2> QED
    BY <2>1, <2>2, <2>3, <2>4, <2>5 DEF UsesAll
<1> QED
  BY <1>4, FillsCover

\* Whatever the area, the gaps, the cfacts and the number of windows: in tile,
\* bstack, bstackhoriz and gaplessgrid, and in centredmaster with at most two
\* masters, the windows take every pixel of the area once (vanitygaps.c).
THEOREM AreaFilled == TilingSpec => [](lt \notin {"dwindle", "spiral"} => Fills)
  BY SettledAlways, SettledFills, PTL

-----------------------------------------------------------------------------
(* The monitor of TagView.                                                 *)

USE TagsAssumption, LayoutsAssumption, MasksAssumption, ConfigAssumption,
    ArgsAssumption, BoundsAssumption

IInv == TypeOK /\ AppliedFresh

-----------------------------------------------------------------------------
(* What the operators return.                                              *)

\* The lowest tag of a mask is one of its tags.
LEMMA LowestTagIn ==
  ASSUME NEW mask \in Mask, mask # {}
  PROVE  LowestTag(mask) \in mask
<1>1. mask \subseteq Nat
  BY DEF Mask, Tag
<1>2. \E t \in mask : \A u \in mask : t <= u
  BY <1>1, LeastNat
<1> QED
  BY <1>2 DEF LowestTag

\* The remainder is an integer.
LEMMA RemainderType ==
  ASSUME NEW x \in Int, NEW n \in Nat \ {0}
  PROVE  Remainder(x, n) \in Int
<1>1. CASE x >= 0
  BY <1>1 DEF Remainder
<1>2. CASE x < 0
  <2>1. -x \in Int /\ ~(x >= 0)
    BY <1>2
  <2>2. (-x) % n \in Int
    BY <2>1
  <2> QED
    BY <2>1, <2>2 DEF Remainder
<1> QED
  BY <1>1, <1>2

\* So is the size of the master area.
LEMMA MFactOfType ==
  ASSUME TypeOK, NEW arg \in Int
  PROVE  MFactOf(arg) \in Int
<1> DEFINE x == applied.mfact + arg
           size == IF arg < 0 THEN -arg ELSE arg
<1>1. applied.mfact \in Int /\ applied.mfact_def \in Int
  BY DEF TypeOK, Settings
<1>2. x \in Int /\ size \in Nat
  BY <1>1
<1>3. CASE arg = 0
  BY <1>1, <1>3 DEF MFactOf
<1>4. CASE arg # 0
  <2>1. size \in Nat \ {0}
    BY <1>4
  <2> HIDE DEF x, size
  <2>2. Remainder(x, size) \in Int
    BY <1>2, <2>1, RemainderType
  <2>3. MFactOf(arg) \in {arg - 100, x, x - Remainder(x, size), x + size - Remainder(x, size)}
    BY <1>4 DEF MFactOf, x, size
  <2> QED
    BY <1>2, <2>2, <2>3
<1> QED
  BY <1>3, <1>4

\* A bar that is not as the tag has it is toggled to what the tag has: loading
\* leaves pertag as it was.
LEMMA LoadKeeps ==
  ASSUME TypeOK, NEW t \in 0..NTags, NEW stacking \in BOOLEAN, Load(t, stacking)
  PROVE  /\ pertag' = pertag
         /\ applied' = [pertag[t] EXCEPT !.class_stacking = stacking,
                                         !.cursorautohide = applied.cursorautohide]
         /\ applied' \in Settings
<1>1. pertag \in [0..NTags -> Settings] /\ applied \in Settings /\ pertag[t] \in Settings
  BY DEF TypeOK
<1>2. applied.showbar \in BOOLEAN /\ pertag[t].showbar \in BOOLEAN
  BY <1>1 DEF Settings
<1>3. CASE applied.showbar = pertag[t].showbar
  <2>1. /\ pertag' = pertag
        /\ applied' = [pertag[t] EXCEPT !.showbar = applied.showbar,
                                        !.class_stacking = stacking,
                                        !.cursorautohide = applied.cursorautohide]
    BY <1>3, Zenon DEF Load
  <2> QED
    BY <1>1, <1>3, <2>1 DEF Settings
<1>4. CASE applied.showbar # pertag[t].showbar
  <2>1. /\ pertag' = [pertag EXCEPT ![t].showbar = ~applied.showbar]
        /\ applied' = [pertag[t] EXCEPT !.showbar = ~applied.showbar,
                                        !.class_stacking = stacking,
                                        !.cursorautohide = applied.cursorautohide]
    BY <1>4, Zenon DEF Load
  <2>2. (~applied.showbar) = pertag[t].showbar
    BY <1>2, <1>4
  <2>3. [pertag[t] EXCEPT !.showbar = pertag[t].showbar] = pertag[t]
    BY <1>1 DEF Settings
  <2>4. pertag' = pertag
    BY <1>1, <2>1, <2>2, <2>3
  <2> QED
    BY <1>1, <2>1, <2>2, <2>4 DEF Settings
<1> QED
  BY <1>3, <1>4

-----------------------------------------------------------------------------
(* The steps that go to another view.                                      *)

\* View and toggleview load what is stored for the tag they make current.
LEMMA ViewStep ==
  ASSUME IInv, View \/ ToggleView
  PROVE  /\ curtag' \in 0..NTags
         /\ prevtag' \in 0..NTags
         /\ seltags' \in {0, 1}
         /\ tagset' \in [{0, 1} -> Mask \ {{}}]
         /\ UNCHANGED <<pertag, changes>>
         /\ \E stacking \in BOOLEAN : Load(curtag', stacking)
<1> USE DEF IInv, TypeOK
<1>1. CASE View
  <2>1. PICK mask \in ViewMasks, all \in BOOLEAN : ViewMonTag(mask, all) /\ UNCHANGED changes
    BY <1>1 DEF View
  <2>2. mask \in Mask /\ (mask # {} => LowestTag(mask) \in Tag)
    BY <2>1, LowestTagIn DEF Mask
  <2>3. curtag' \in 0..NTags /\ prevtag' \in 0..NTags
    BY <2>1, <2>2 DEF ViewMonTag, Tag
  <2>4. seltags' \in {0, 1} /\ tagset' \in [{0, 1} -> Mask \ {{}}]
    BY <2>1, <2>2 DEF ViewMonTag
  <2>5. pertag[curtag'].class_stacking \in BOOLEAN
    BY <2>3 DEF Settings
  <2>6. Load(curtag', pertag[curtag'].class_stacking)
    BY <2>1 DEF ViewMonTag
  <2>7. pertag' = pertag
    BY <2>3, <2>5, <2>6, LoadKeeps
  <2> QED
    BY <2>1, <2>3, <2>4, <2>5, <2>6, <2>7
<1>2. CASE ToggleView
  <2>1. PICK mask \in ToggleMasks : ToggleViewEx(mask) /\ UNCHANGED changes
    BY <1>2 DEF ToggleView
  <2> DEFINE toggled == (tagset[seltags] \ mask) \cup (mask \ tagset[seltags])
  <2>2. toggled \in Mask \ {{}} /\ LowestTag(toggled) \in Tag
    <3>1. mask \in Mask /\ tagset[seltags] \in Mask
      BY <2>1
    <3>2. toggled \in Mask
      BY <3>1 DEF Mask
    <3>3. toggled # {}
      BY <2>1 DEF ToggleViewEx
    <3> HIDE DEF toggled
    <3> QED
      BY <3>2, <3>3, LowestTagIn DEF Mask
  <2>3. /\ curtag' = IF curtag \in toggled THEN curtag ELSE LowestTag(toggled)
        /\ prevtag' = IF curtag \in toggled THEN prevtag ELSE curtag
        /\ tagset' = [tagset EXCEPT ![seltags] = toggled]
        /\ seltags' = seltags
        /\ Load(curtag', applied.class_stacking)
    BY <2>1 DEF ToggleViewEx
  <2> HIDE DEF toggled
  <2>4. curtag' \in 0..NTags /\ prevtag' \in 0..NTags
    BY <2>2, <2>3 DEF Tag
  <2>5. tagset' \in [{0, 1} -> Mask \ {{}}]
    BY <2>2, <2>3
  <2>6. applied.class_stacking \in BOOLEAN
    BY DEF Settings
  <2>7. pertag' = pertag
    BY <2>3, <2>4, <2>6, LoadKeeps
  <2> QED
    BY <2>1, <2>3, <2>4, <2>5, <2>6, <2>7
<1> QED
  BY <1>1, <1>2

-----------------------------------------------------------------------------
(* The commands that change a setting.                                     *)

\* now is what is in force when stored is what is stored.
Fresh(now, stored) ==
    now = [stored EXCEPT !.class_stacking = now.class_stacking,
                         !.cursorautohide = now.cursorautohide]

\* Every command makes the same change to what is in force and to what is
\* stored for the current tag.
LEMMA ChangeSets ==
  ASSUME IInv, Change
  PROVE  \E stored, now \in Settings :
            /\ Set(stored, now)
            /\ Fresh(now, stored)
            /\ StackingApplied => stored.class_stacking = now.class_stacking
<1> DEFINE old == pertag[curtag]
<1>1. old \in Settings /\ applied \in Settings
  BY DEF IInv, TypeOK
<1>2. Fresh(applied, old)
  BY DEF IInv, AppliedFresh, Fresh
<1>3. StackingApplied <=> applied.class_stacking = old.class_stacking
  BY DEF StackingApplied
<1>4. ASSUME IncNMaster
      PROVE  \E n \in Nat : Set([old EXCEPT !.nmaster = n], [applied EXCEPT !.nmaster = n])
  <2>1. applied.nmaster \in Nat
    BY <1>1 DEF Settings
  <2> HIDE DEF old
  <2>2. PICK i \in {-1, 1} :
          LET n == IF applied.nmaster + i < 0 THEN 0 ELSE applied.nmaster + i
          IN  Set([old EXCEPT !.nmaster = n], [applied EXCEPT !.nmaster = n])
    BY <1>4 DEF IncNMaster, old
  <2> DEFINE n == IF applied.nmaster + i < 0 THEN 0 ELSE applied.nmaster + i
  <2>3. n \in Nat
    BY <2>1
  <2>4. Set([old EXCEPT !.nmaster = n], [applied EXCEPT !.nmaster = n])
    BY <2>2
  <2> HIDE DEF n
  <2> QED
    BY <2>3, <2>4
<1>5. ASSUME SetMFact
      PROVE  \E f \in Int : Set([old EXCEPT !.mfact = f], [applied EXCEPT !.mfact = f])
  <2>1. PICK arg \in MFactArgs :
          Set([old EXCEPT !.mfact = MFactOf(arg)], [applied EXCEPT !.mfact = MFactOf(arg)])
    BY <1>5 DEF SetMFact
  <2>2. MFactOf(arg) \in Int
    BY <2>1, MFactOfType DEF IInv
  <2> QED
    BY <2>1, <2>2
<1>6. ASSUME CycleLayout
      PROVE  \E v \in Layout : Set([old EXCEPT !.lt[applied.sellt] = v],
                                   [applied EXCEPT !.lt[applied.sellt] = v])
  <2> DEFINE l == applied.lt[applied.sellt]
             next == IF l = NLayouts THEN 1 ELSE l + 1
             prev == IF l = 1 THEN NLayouts ELSE l - 1
  <2>1. l \in Layout
    BY <1>1 DEF Settings
  <2>2. PICK v \in {next, prev} : Set([old EXCEPT !.lt[applied.sellt] = v],
                                      [applied EXCEPT !.lt[applied.sellt] = v])
    BY <1>6 DEF CycleLayout
  <2> HIDE DEF l
  <2>3. next \in Layout /\ prev \in Layout
    BY <2>1 DEF Layout
  <2> QED
    BY <2>2, <2>3
<1>7. ASSUME SetLayout
      PROVE  \/ Set([old EXCEPT !.sellt = 1 - old.sellt], [applied EXCEPT !.sellt = 1 - old.sellt])
             \/ \E v \in Layout :
                   Set([[old EXCEPT !.sellt = 1 - old.sellt] EXCEPT !.lt[1 - old.sellt] = v],
                       [[applied EXCEPT !.sellt = 1 - old.sellt] EXCEPT !.lt[1 - old.sellt] = v])
  BY <1>7 DEF SetLayout
<1>8. ASSUME ToggleBar
      PROVE  \E b \in BOOLEAN : Set([old EXCEPT !.showbar = b], [applied EXCEPT !.showbar = b])
  BY <1>8 DEF ToggleBar
<1>9. ASSUME ToggleStacking
      PROVE  Set([old EXCEPT !.class_stacking = ~old.class_stacking],
                 [applied EXCEPT !.class_stacking = ~applied.class_stacking])
  BY <1>9 DEF ToggleStacking
<1>10. IncNMaster \/ SetMFact \/ ToggleBar \/ ToggleStacking \/ CycleLayout \/ SetLayout
  BY DEF Change
<1> HIDE DEF old
<1> QED
  <2>1. CASE IncNMaster
    <3>1. PICK n \in Nat :
            Set([old EXCEPT !.nmaster = n], [applied EXCEPT !.nmaster = n])
      BY <1>4, <2>1
    <3> DEFINE stored == [old EXCEPT !.nmaster = n]
               now == [applied EXCEPT !.nmaster = n]
    <3>2. stored \in Settings /\ now \in Settings
      BY <1>1, <3>1 DEF Settings
    <3>3. stored.class_stacking = old.class_stacking /\ now.class_stacking = applied.class_stacking
      BY <1>1 DEF Settings
    <3>4. Fresh(now, stored)
      BY <1>1, <1>2, <3>1 DEF Fresh, Settings
    <3> QED
      BY <1>3, <3>1, <3>2, <3>3, <3>4
  <2>2. CASE SetMFact
    <3>1. PICK f \in Int :
            Set([old EXCEPT !.mfact = f], [applied EXCEPT !.mfact = f])
      BY <1>5, <2>2
    <3> DEFINE stored == [old EXCEPT !.mfact = f]
               now == [applied EXCEPT !.mfact = f]
    <3>2. stored \in Settings /\ now \in Settings
      BY <1>1, <3>1 DEF Settings
    <3>3. stored.class_stacking = old.class_stacking /\ now.class_stacking = applied.class_stacking
      BY <1>1 DEF Settings
    <3>4. Fresh(now, stored)
      BY <1>1, <1>2, <3>1 DEF Fresh, Settings
    <3> QED
      BY <1>3, <3>1, <3>2, <3>3, <3>4
  <2>3. CASE ToggleBar
    <3>1. PICK b \in BOOLEAN :
            Set([old EXCEPT !.showbar = b], [applied EXCEPT !.showbar = b])
      BY <1>8, <2>3
    <3> DEFINE stored == [old EXCEPT !.showbar = b]
               now == [applied EXCEPT !.showbar = b]
    <3>2. stored \in Settings /\ now \in Settings
      BY <1>1, <3>1 DEF Settings
    <3>3. stored.class_stacking = old.class_stacking /\ now.class_stacking = applied.class_stacking
      BY <1>1 DEF Settings
    <3>4. Fresh(now, stored)
      BY <1>1, <1>2, <3>1 DEF Fresh, Settings
    <3> QED
      BY <1>3, <3>1, <3>2, <3>3, <3>4
  <2>4. CASE ToggleStacking
    <3> DEFINE stored == [old EXCEPT !.class_stacking = ~old.class_stacking]
               now == [applied EXCEPT !.class_stacking = ~applied.class_stacking]
    <3>1. stored \in Settings /\ now \in Settings
      BY <1>1 DEF Settings
    <3>2. StackingApplied => stored.class_stacking = now.class_stacking
      BY <1>1, <1>3 DEF Settings
    <3>3. Fresh(now, stored)
      BY <1>1, <1>2 DEF Fresh, Settings
    <3> QED
      BY <1>9, <2>4, <3>1, <3>2, <3>3
  <2>5. CASE CycleLayout
    <3>1. PICK v \in Layout :
            Set([old EXCEPT !.lt[applied.sellt] = v], [applied EXCEPT !.lt[applied.sellt] = v])
      BY <1>6, <2>5
    <3> DEFINE stored == [old EXCEPT !.lt[applied.sellt] = v]
               now == [applied EXCEPT !.lt[applied.sellt] = v]
    <3>2. stored \in Settings /\ now \in Settings
      BY <1>1, <3>1 DEF Settings
    <3>3. stored.class_stacking = old.class_stacking /\ now.class_stacking = applied.class_stacking
      BY <1>1 DEF Settings
    <3>4. Fresh(now, stored)
      BY <1>1, <1>2, <3>1 DEF Fresh, Settings
    <3> QED
      BY <1>3, <3>1, <3>2, <3>3, <3>4
  <2>6. CASE SetLayout
    <3> DEFINE sellt == 1 - old.sellt
               stored == [old EXCEPT !.sellt = sellt]
               now == [applied EXCEPT !.sellt = sellt]
    <3>1. sellt \in {0, 1}
      BY <1>1 DEF Settings
    <3>2. \/ Set(stored, now)
          \/ \E v \in Layout : Set([stored EXCEPT !.lt[sellt] = v], [now EXCEPT !.lt[sellt] = v])
      BY <1>7, <2>6
    <3>3. stored \in Settings /\ now \in Settings
      BY <1>1, <3>1 DEF Settings
    <3>4. stored.class_stacking = old.class_stacking /\ now.class_stacking = applied.class_stacking
      BY <1>1 DEF Settings
    <3>5. Fresh(now, stored)
      BY <1>1, <1>2, <3>1 DEF Fresh, Settings
    <3> HIDE DEF stored, now, sellt
    <3>6. CASE Set(stored, now)
      BY <1>3, <3>3, <3>4, <3>5, <3>6
    <3>7. ASSUME NEW v \in Layout, Set([stored EXCEPT !.lt[sellt] = v], [now EXCEPT !.lt[sellt] = v])
          PROVE  \E stored_, now_ \in Settings :
                    /\ Set(stored_, now_)
                    /\ Fresh(now_, stored_)
                    /\ StackingApplied => stored_.class_stacking = now_.class_stacking
      <4> DEFINE s == [stored EXCEPT !.lt[sellt] = v]
                 n == [now EXCEPT !.lt[sellt] = v]
      <4>1. s \in Settings /\ n \in Settings
        BY <3>3 DEF Settings
      <4>2. s.class_stacking = stored.class_stacking /\ n.class_stacking = now.class_stacking
        BY <3>3 DEF Settings
      <4>3. Fresh(n, s)
        BY <3>3, <3>5 DEF Fresh, Settings
      <4> QED
        BY <1>3, <3>4, <3>7, <4>1, <4>2, <4>3
    <3> QED
      BY <3>2, <3>6, <3>7
  <2> QED
    BY <1>10, <2>1, <2>2, <2>3, <2>4, <2>5, <2>6

-----------------------------------------------------------------------------
(* The invariant.                                                          *)

\* After Set, what the two have in common is still in common, and nothing is
\* stored for another tag.
LEMMA SetStep ==
  ASSUME IInv, NEW stored \in Settings, NEW now \in Settings,
         Set(stored, now), Fresh(now, stored), UNCHANGED views, changes' \in 0..MaxChanges
  PROVE  /\ IInv'
         /\ pertag'[curtag] = stored
         /\ \A t \in 0..NTags : t # curtag => pertag'[t] = pertag[t]
<1> USE DEF IInv, TypeOK
<1>1. pertag' = [pertag EXCEPT ![curtag] = stored] /\ applied' = now
  BY DEF Set
<1>2. /\ pertag' \in [0..NTags -> Settings]
      /\ pertag'[curtag] = stored
      /\ \A t \in 0..NTags : t # curtag => pertag'[t] = pertag[t]
  BY <1>1
<1>3. seltags' = seltags /\ tagset' = tagset /\ curtag' = curtag /\ prevtag' = prevtag
  BY DEF views
<1>4. AppliedFresh'
  BY <1>1, <1>2, <1>3 DEF AppliedFresh, Fresh
<1> QED
  BY <1>1, <1>2, <1>3, <1>4

\* At start tag 1 is in view and its settings are in force.
LEMMA InitInv == Init => IInv
<1> SUFFICES ASSUME Init PROVE IInv
  OBVIOUS
<1>1. 1 \in Tag /\ {1} \in Mask \ {{}}
  BY DEF Tag, Mask
<1>2. pertag \in [0..NTags -> Settings] /\ applied = pertag[1]
  BY DEF Init
<1>3. applied \in Settings
  BY <1>2
<1>4. TypeOK
  BY <1>1, <1>2, <1>3 DEF Init, TypeOK
<1>5. AppliedFresh
  BY <1>2, <1>3 DEF Init, AppliedFresh, Settings
<1> QED
  BY <1>4, <1>5 DEF IInv

\* Every step keeps what is in force equal to what is stored.
LEMMA NextInv ==
  ASSUME IInv, [Next]_vars
  PROVE  IInv'
<1>1. CASE View \/ ToggleView
  <2>1. PICK stacking \in BOOLEAN : Load(curtag', stacking)
    BY <1>1, ViewStep
  <2>2. /\ curtag' \in 0..NTags
        /\ prevtag' \in 0..NTags
        /\ seltags' \in {0, 1}
        /\ tagset' \in [{0, 1} -> Mask \ {{}}]
        /\ changes' = changes
    BY <1>1, ViewStep
  <2>3. /\ pertag' = pertag
        /\ applied' = [pertag[curtag'] EXCEPT !.class_stacking = stacking,
                                              !.cursorautohide = applied.cursorautohide]
        /\ applied' \in Settings
    BY <2>1, <2>2, LoadKeeps DEF IInv
  <2>4. TypeOK'
    BY <2>2, <2>3 DEF IInv, TypeOK
  <2>5. pertag[curtag'] \in Settings
    BY <2>2 DEF IInv, TypeOK
  <2>6. AppliedFresh'
    BY <2>3, <2>5 DEF AppliedFresh, Settings
  <2> QED
    BY <2>4, <2>6 DEF IInv
<1>2. CASE Change
  <2>1. PICK stored, now \in Settings : Set(stored, now) /\ Fresh(now, stored)
    BY <1>2, ChangeSets
  <2>2. UNCHANGED views /\ changes' \in 0..MaxChanges
    BY <1>2 DEF Change, IInv, TypeOK
  <2> QED
    BY <2>1, <2>2, SetStep
<1>3. CASE UNCHANGED vars
  BY <1>3 DEF vars, IInv, TypeOK, AppliedFresh
<1> QED
  BY <1>1, <1>2, <1>3 DEF Next

\* The invariant is inductive.
LEMMA Inductive == Spec => []IInv
<1>1. Init => IInv
  BY InitInv
<1>2. IInv /\ [Next]_vars => IInv'
  BY NextInv
<1> QED
  BY <1>1, <1>2, PTL DEF Spec

-----------------------------------------------------------------------------
(* The theorems.                                                           *)

\* The two slots hold masks that are not empty, curtag and prevtag index
\* pertag, and the number of masters never goes below zero.
THEOREM TypeCorrect == Spec => []TypeOK
<1>1. IInv => TypeOK
  BY DEF IInv
<1> QED
  BY <1>1, Inductive, PTL

\* The monitor's copies of the settings are those stored for its current tag,
\* whatever views and commands came before.
THEOREM AppliedStaysFresh == Spec => []AppliedFresh
<1>1. IInv => AppliedFresh
  BY DEF IInv
<1> QED
  BY <1>1, Inductive, PTL

\* Going to another view stores nothing, and a command stores only for the
\* current tag.
THEOREM OtherTagsKept == Spec => OthersKept
<1>1. IInv /\ [Next]_vars =>
        [\A t \in 0..NTags : pertag'[t] # pertag[t] => t = curtag /\ UNCHANGED views]_vars
  <2> SUFFICES ASSUME IInv, Next, NEW t \in 0..NTags, pertag'[t] # pertag[t]
               PROVE  t = curtag /\ UNCHANGED views
    OBVIOUS
  <2>1. ~(View \/ ToggleView)
    BY ViewStep
  <2>2. Change
    BY <2>1 DEF Next
  <2>3. PICK stored, now \in Settings : Set(stored, now) /\ Fresh(now, stored)
    BY <2>2, ChangeSets
  <2>4. UNCHANGED views /\ changes' \in 0..MaxChanges
    BY <2>2 DEF Change, IInv, TypeOK
  <2> QED
    BY <2>3, <2>4, SetStep
<1> QED
  BY <1>1, Inductive, PTL DEF Spec, OthersKept

\* Two slots and an index into them, changed over by view and written in place
\* by toggleview, are the view and the last view of Views.
THEOREM SlotsImplementViews == Spec => ImplementsViews
<1> DEFINE cur == tagset[seltags]
           alt == tagset[1 - seltags]
<1>1. Init => Implemented!Init
  BY DEF Init, Implemented!Init
<1>2. IInv /\ [Next]_vars => [Implemented!Next]_<<cur, alt>>
  <2> SUFFICES ASSUME IInv, [Next]_vars
               PROVE  [Implemented!Next]_<<cur, alt>>
    OBVIOUS
  <2>1. seltags \in {0, 1} /\ tagset \in [{0, 1} -> Mask \ {{}}]
    BY DEF IInv, TypeOK
  <2>2. CASE View
    <3>1. PICK mask \in ViewMasks, all \in BOOLEAN : ViewMonTag(mask, all)
      BY <2>2 DEF View
    <3>2. /\ mask # tagset[seltags]
          /\ seltags' = 1 - seltags
          /\ tagset' = IF mask = {} THEN tagset ELSE [tagset EXCEPT ![1 - seltags] = mask]
      BY <3>1 DEF ViewMonTag
    <3>3. cur' = (IF mask = {} THEN alt ELSE mask) /\ alt' = cur
      BY <2>1, <3>2
    <3> QED
      BY <3>2, <3>3 DEF Implemented!Next, Implemented!View
  <2>3. CASE ToggleView
    <3>1. PICK mask \in ToggleMasks : ToggleViewEx(mask)
      BY <2>3 DEF ToggleView
    <3> DEFINE toggled == (cur \ mask) \cup (mask \ cur)
    <3>2. /\ toggled # {}
          /\ tagset' = [tagset EXCEPT ![seltags] = toggled]
          /\ seltags' = seltags
      BY <3>1 DEF ToggleViewEx
    <3>3. cur' = toggled /\ alt' = alt
      <4> HIDE DEF toggled
      <4> QED
        BY <2>1, <3>2
    <3> QED
      BY <3>2, <3>3 DEF Implemented!Next, Implemented!Toggle
  <2>4. CASE Change \/ UNCHANGED vars
    <3>1. seltags' = seltags /\ tagset' = tagset
      BY <2>4 DEF Change, views, vars
    <3> QED
      BY <3>1
  <2> QED
    BY <2>2, <2>3, <2>4 DEF Next
<1> QED
  BY <1>1, <1>2, Inductive, PTL DEF Spec, ImplementsViews, Implemented!Spec

-----------------------------------------------------------------------------
(* Without toggleview.                                                     *)

\* Tag t is one of those in view, or stands for the view of all tags.
Represents(t, mask) == t \in mask \/ (t = 0 /\ mask = Tag)

\* Each slot goes with the tag whose settings it is shown with.
SlotsInv ==
    /\ IInv
    /\ Represents(curtag, tagset[seltags])
    /\ Represents(prevtag, tagset[1 - seltags])
    /\ StackingApplied

\* view changes the slots and the tags over together.
LEMMA SlotsNext ==
  ASSUME ToggleMasks = {}, SlotsInv, [Next]_vars
  PROVE  SlotsInv'
<1>1. IInv /\ IInv'
  BY NextInv DEF SlotsInv
<1>2. seltags \in {0, 1} /\ tagset \in [{0, 1} -> Mask \ {{}}]
  BY <1>1 DEF IInv, TypeOK
<1>3. CASE View
  <2>1. PICK mask \in ViewMasks, all \in BOOLEAN : (all => mask = Tag) /\ ViewMonTag(mask, all)
    BY <1>3 DEF View
  <2>2. /\ seltags' = 1 - seltags
        /\ tagset' = IF mask = {} THEN tagset ELSE [tagset EXCEPT ![1 - seltags] = mask]
        /\ prevtag' = curtag
        /\ curtag' = IF mask = {} THEN prevtag ELSE IF all THEN 0 ELSE LowestTag(mask)
        /\ Load(curtag', pertag[curtag'].class_stacking)
    BY <2>1 DEF ViewMonTag
  <2>3. /\ tagset'[1 - seltags'] = tagset[seltags]
        /\ tagset'[seltags'] = IF mask = {} THEN tagset[1 - seltags] ELSE mask
    BY <1>2, <2>2
  <2>4. mask # {} => LowestTag(mask) \in mask
    BY <2>1, LowestTagIn
  <2>5. Represents(curtag', tagset'[seltags']) /\ Represents(prevtag', tagset'[1 - seltags'])
    BY <2>1, <2>2, <2>3, <2>4 DEF SlotsInv, Represents
  <2>6. curtag' \in 0..NTags /\ pertag[curtag'] \in Settings
    BY <1>1 DEF IInv, TypeOK
  <2>7. pertag[curtag'].class_stacking \in BOOLEAN
    BY <2>6 DEF Settings
  <2>8. /\ pertag' = pertag
        /\ applied' = [pertag[curtag'] EXCEPT !.class_stacking = pertag[curtag'].class_stacking,
                                              !.cursorautohide = applied.cursorautohide]
    <3>1. TypeOK /\ Load(curtag', pertag[curtag'].class_stacking)
      BY <1>1, <2>2 DEF IInv
    <3> HIDE DEF Load
    <3> QED
      BY <2>6, <2>7, <3>1, LoadKeeps
  <2>9. StackingApplied'
    BY <2>6, <2>8 DEF StackingApplied, Settings
  <2> QED
    BY <1>1, <2>5, <2>9 DEF SlotsInv
<1>4. CASE Change
  <2>1. PICK stored, now \in Settings :
          /\ Set(stored, now)
          /\ Fresh(now, stored)
          /\ StackingApplied => stored.class_stacking = now.class_stacking
    BY <1>1, <1>4, ChangeSets
  <2>2. UNCHANGED views /\ changes' \in 0..MaxChanges
    BY <1>1, <1>4 DEF Change, IInv, TypeOK
  <2>3. pertag'[curtag] = stored /\ applied' = now
    BY <1>1, <2>1, <2>2, SetStep DEF Set
  <2>4. seltags' = seltags /\ tagset' = tagset /\ curtag' = curtag /\ prevtag' = prevtag
    BY <2>2 DEF views
  <2> QED
    BY <1>1, <2>1, <2>3, <2>4 DEF SlotsInv, StackingApplied
<1>5. CASE UNCHANGED vars
  BY <1>1, <1>5 DEF vars, SlotsInv, StackingApplied
<1>6. ~ToggleView
  BY DEF ToggleView, SlotsInv
<1> QED
  BY <1>3, <1>4, <1>5, <1>6 DEF SlotsInv, Next

\* A user who never toggles views always sees the settings of a tag in view,
\* class_stacking among them.
THEOREM CurStaysInView ==
  ASSUME ToggleMasks = {}
  PROVE  Spec => [](CurInView /\ StackingApplied)
<1>1. Init => SlotsInv
  <2> SUFFICES ASSUME Init PROVE SlotsInv
    OBVIOUS
  <2>1. IInv
    BY InitInv
  <2>2. /\ Represents(curtag, tagset[seltags])
        /\ Represents(prevtag, tagset[1 - seltags])
        /\ StackingApplied
    BY DEF Init, Represents, StackingApplied
  <2> QED
    BY <2>1, <2>2 DEF SlotsInv
<1>2. SlotsInv /\ [Next]_vars => SlotsInv'
  BY SlotsNext
<1>3. SlotsInv => CurInView /\ StackingApplied
  BY DEF SlotsInv, CurInView, Represents
<1> QED
  BY <1>1, <1>2, <1>3, PTL DEF Spec
=============================================================================
