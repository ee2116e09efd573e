--------------------------- MODULE Monitors_proof ---------------------------
(***************************************************************************)
(* Whatever screens come and go and whatever is split, the monitors are    *)
(* those of the screens, every client is on one of them, and on the one it *)
(* wants if that is there.                                                 *)
(***************************************************************************)
EXTENDS Monitors, Orders_proof

\* The records of the operators.
Node == [geom : Rect, mon1 : Nums \cup {None}, mon2 : Nums \cup {None}]
Heads ==
    [pmons : Seq(Node), mons : Seq(Nums), enablesplit : SUBSET Nums, geom : [Nums -> Rect],
     selmon : Nums \cup {None}, mon : [Clients -> Nums \cup {None}],
     monindex : [Clients -> Nums \cup Wishes \cup {-1}]]

\* The numbers of the halves are different ones, and no number is None.
LEMMA NumsApart ==
  /\ Most \in Nat /\ Indices = 0 .. Most - 1
  /\ Nums \subseteq Nat /\ None \notin Nums /\ -1 \notin Nums
  /\ \A i \in Indices : i \in Nat /\ i < Second /\ i \in Nums /\ Second + i \in Nums
                        /\ i % Second = i /\ (Second + i) % Second = i
  /\ \A i, j \in Indices : i # Second + j /\ (Second + i = Second + j <=> i = j)
  /\ \A n \in Nums : n \in Indices \/ \E i \in Indices : n = Second + i
<1>1. Most \in 1 .. 1000 /\ Second = 1000
  BY ScreensAssumption DEF Second
<1>2. \A i \in Indices : i \in Nat /\ i < 1000
  BY <1>1 DEF Indices
<1>3. Nums \subseteq Nat
  BY <1>1, <1>2 DEF Nums
<1>4. None \notin Nums
  <2>1. \A n \in Nums : n \in Int
    BY <1>3
  <2> QED
    BY <2>1, NoneAssumption
<1>5. \A i \in Indices : i % 1000 = i /\ (1000 + i) % 1000 = i
  BY <1>2
<1>6. \A n \in Nums : n \in Indices \/ \E i \in Indices : n = Second + i
  BY DEF Nums
<1>7. \A i \in Indices : i \in Nums /\ Second + i \in Nums
  BY DEF Nums
<1>8. Most \in Nat /\ Indices = 0 .. Most - 1
  BY <1>1 DEF Indices
<1> QED
  BY <1>1, <1>2, <1>3, <1>4, <1>5, <1>6, <1>7, <1>8

-----------------------------------------------------------------------------
(* The screens.                                                            *)

\* Of the screens there are, one at least is left, and no more than there are.
LEMMA UniqueType ==
  ASSUME NEW q \in Seq(Rect), Len(q) # 0
  PROVE  Unique(q) \in Seq(Rect) /\ Len(Unique(q)) \in 1 .. Len(q)
<1> DEFINE n == Len(q)
           X == Seq(Rect)
           Next1(u, r) == IF Contains(u, r) THEN u ELSE Append(u, r)
           E(g) == [i \in 0 .. n |->
                     IF i = 0 THEN <<>>
                     ELSE IF Contains(g[i - 1], q[i]) THEN g[i - 1] ELSE Append(g[i - 1], q[i])]
           upto == CHOOSE g : g = E(g)
           Fine(u, k) == Len(u) <= k /\ (k # 0 => Len(u) # 0)
           G == [k \in 0 .. n |-> {u \in X : Fine(u, k)}]
           round == [p \in X \X (0 .. n) |-> Next1(p[1], q[p[2] + 1])]
<1>1. Unique(q) = upto[n]
  BY DEF Unique
<1>2. n \in Nat /\ n # 0 /\ \A i \in 1 .. n : q[i] \in Rect
  BY LenProperties, ElementOfSeq
<1>3. \A k \in 0 .. n : G[k] \subseteq X /\ \A u \in X : u \in G[k] <=> Fine(u, k)
  OBVIOUS
<1> HIDE DEF n
<1>4. <<>> \in G[0]
  <2>1. <<>> \in X /\ Len(<<>>) = 0 /\ 0 \in 0 .. n
    BY <1>2
  <2>2. Fine(<<>>, 0)
    BY <2>1
  <2> QED
    BY <1>3, <2>1, <2>2
<1>5. ASSUME NEW k \in 0 .. n, k # n, NEW u \in G[k] PROVE Next1(u, q[k + 1]) \in G[k + 1]
  <2>1. k + 1 \in 0 .. n /\ k + 1 \in 1 .. n /\ k \in Nat /\ k + 1 # 0
    BY <1>2, <1>5
  <2>2. u \in X /\ Fine(u, k)
    BY <1>3
  <2>3. PICK r \in Rect : r = q[k + 1]
    BY <1>2, <2>1
  <2>4. CASE Contains(u, r)
    <3>1. Len(u) # 0
      BY <2>2, <2>4 DEF Contains
    <3>2. Fine(u, k + 1)
      <4>1. Len(u) \in Nat
        BY <2>2, LenProperties
      <4> QED
        BY <2>1, <2>2, <3>1, <4>1
    <3> QED
      BY <1>3, <2>1, <2>2, <2>3, <2>4, <3>2
  <2>5. CASE ~Contains(u, r)
    <3>1. PICK v : v = Append(u, r)
      OBVIOUS
    <3>2. v \in X /\ Len(v) = Len(u) + 1 /\ Len(u) \in Nat
      BY <2>2, <3>1, AppendProperties, LenProperties
    <3>3. Fine(v, k + 1)
      BY <2>1, <2>2, <3>2
    <3> QED
      BY <1>3, <2>1, <2>3, <2>5, <3>1, <3>2, <3>3
  <2> QED
    BY <2>4, <2>5
<1>6. \A k \in 0 .. n : \A u \in G[k] : round[<<u, k>>] = Next1(u, q[k + 1])
  BY <1>3
<1> HIDE DEF G, round, X, Fine
<1>7. PICK f \in [0 .. n -> X] :
         f[0] = <<>> /\ \A i \in 0 .. n : i # 0 => f[i] = round[<<f[i - 1], i - 1>>]
  <2>1. PICK m, e : m = 0 /\ e = <<>>
    OBVIOUS
  <2>2. /\ m \in Nat /\ n \in Nat /\ m <= n /\ e \in G[m]
        /\ Leads(round, G, X, m, n)
    BY <1>2, <1>3, <1>4, <1>5, <1>6, <2>1 DEF Leads
  <2>3. \E f \in [m .. n -> X] :
           f[m] = e /\ \A i \in m .. n : i # m => f[i] = round[<<f[i - 1], i - 1>>]
    BY ONLY <2>2, LoopRuns
  <2> QED
    BY <2>1, <2>3
<1>8. \A i \in 0 .. n : i # 0 => f[i] = Next1(f[i - 1], q[i])
  <2>1. ASSUME NEW i \in 0 .. n, i # 0 PROVE round[<<f[i - 1], i - 1>>] = Next1(f[i - 1], q[i])
    <3>1. i - 1 \in 0 .. n /\ (i - 1) + 1 = i
      BY <1>2, <2>1
    <3>2. f[i - 1] \in X
      BY <3>1
    <3> QED
      BY <3>1, <3>2 DEF round
  <2> QED
    BY <1>7, <2>1
<1>9. f = E(f)
  <2>1. \A i \in 0 .. n : f[i] = E(f)[i]
    BY <1>7, <1>8
  <2>2. E(f) = [i \in 0 .. n |-> E(f)[i]]
    OBVIOUS
  <2> HIDE DEF E
  <2> QED
    BY <2>1, <2>2
<1> HIDE DEF E
<1>10. upto = E(upto)
  BY <1>9
<1> HIDE DEF upto
<1>11. \A i \in 0 .. n : i = 0 => upto[i] = <<>>
  <2>1. \A i \in 0 .. n : upto[i] = E(upto)[i]
    BY <1>10
  <2>2. \A i \in 0 .. n : i = 0 => E(upto)[i] = <<>>
    BY DEF E
  <2> QED
    BY <2>1, <2>2
<1>12. \A i \in 0 .. n : i # 0 => upto[i] = Next1(upto[i - 1], q[i])
  <2>1. \A i \in 0 .. n : upto[i] = E(upto)[i]
    BY <1>10
  <2>2. \A i \in 0 .. n : i # 0 => E(upto)[i] = Next1(upto[i - 1], q[i])
    BY DEF E
  <2> QED
    BY <2>1, <2>2
<1>13. \A i \in 0 .. n : upto[i] \in G[i]
  <2> DEFINE S == {i \in 0 .. n : upto[i] \in G[i]}
  <2>1. 0 \in S
    BY <1>2, <1>4, <1>11
  <2>2. ASSUME NEW i \in 0 .. n, i # n, i \in S PROVE i + 1 \in S
    <3>1. i + 1 \in 0 .. n /\ i + 1 # 0 /\ (i + 1) - 1 = i
      BY <1>2, <2>2
    <3> HIDE DEF Next1
    <3>2. upto[i + 1] = Next1(upto[i], q[i + 1])
      BY <1>12, <3>1
    <3> QED
      BY <1>5, <2>2, <3>1, <3>2
  <2> HIDE DEF S
  <2>3. \A i \in 0 .. n : i \in S
    <3>1. 0 \in Nat /\ \A i \in 0 .. n : i # n /\ i \in S => i + 1 \in S
      BY <2>2
    <3> QED
      BY ONLY <1>2, <2>1, <3>1, Upwards
  <2> QED
    BY <2>3 DEF S
<1>14. upto[n] \in X /\ Fine(upto[n], n)
  <2>1. n \in 0 .. n
    BY <1>2
  <2> QED
    BY <1>3, <1>13, <2>1
<1>15. Len(upto[n]) \in Nat
  BY <1>14, LenProperties DEF X
<1>16. Len(upto[n]) \in 1 .. n
  BY <1>2, <1>14, <1>15 DEF Fine
<1> QED
  BY <1>1, <1>14, <1>16 DEF X, n

\* How many screens there are is a number.
LEMMA ScreensCount ==
  ASSUME NEW q \in Setups
  PROVE  /\ Unique(q) \in Seq(Rect) /\ Len(Unique(q)) \in 1 .. Most
         /\ Len(Unique(q)) \in Nat /\ Len(Unique(q)) # 0
<1>1. q \in Seq(Rect) /\ Len(q) \in 1 .. Most /\ Most \in Nat
  BY ScreensAssumption, NumsApart
<1>2. Len(q) # 0 /\ Len(q) <= Most /\ Len(q) \in Nat
  BY <1>1
<1>3. Unique(q) \in Seq(Rect) /\ Len(Unique(q)) \in 1 .. Len(q)
  BY <1>1, <1>2, UniqueType
<1> QED
  BY <1>1, <1>2, <1>3

-----------------------------------------------------------------------------
(* What the parts of updatevirtualmonitors change.                         *)

\* createmon, on a list the number is not on.
LEMMA CreateEffect ==
  ASSUME NEW s \in Heads, NEW n \in Nums
  PROVE  LET r == createmon(s, n)
         IN  /\ r \in Heads
             /\ r.pmons = s.pmons /\ r.geom = s.geom /\ r.selmon = s.selmon
             /\ r.mon = s.mon /\ r.monindex = s.monindex
             /\ r.enablesplit = s.enablesplit \cup ({n} \cap StartSplit)
             /\ ToSet(r.mons) = ToSet(s.mons) \cup {n}
             /\ IsInjective(s.mons) /\ n \notin ToSet(s.mons) => IsInjective(r.mons)
<1>1. s.mons \in Seq(Nums)
  BY DEF Heads
<1>2. /\ Append(s.mons, n) \in Seq(Nums)
      /\ ToSet(Append(s.mons, n)) = ToSet(s.mons) \cup {n}
      /\ IsInjective(s.mons) /\ n \notin ToSet(s.mons) => IsInjective(Append(s.mons, n))
  BY <1>1, AppendElements
<1> QED
  BY <1>2 DEF createmon, Heads

\* Evict moves clients, their wishes and the selection, and nothing else.
LEMMA EvictEffect ==
  ASSUME NEW s \in Heads, NEW n \in Nums, NEW to \in Nums
  PROVE  LET r == Evict(s, n, to)
         IN  /\ r \in Heads
             /\ r.pmons = s.pmons /\ r.mons = s.mons /\ r.geom = s.geom
             /\ r.enablesplit = s.enablesplit
             /\ r.selmon = IF s.selmon = n THEN to ELSE s.selmon
             /\ \A c \in Clients :
                  /\ r.mon[c] = IF s.mon[c] = n THEN to ELSE s.mon[c]
                  /\ r.monindex[c] = IF s.mon[c] = n /\ s.monindex[c] = -1 THEN n ELSE s.monindex[c]
BY DEF Evict, Heads

\* cleanupmon.
LEMMA CleanupEffect ==
  ASSUME NEW s \in Heads, NEW n \in Nums, IsInjective(s.mons)
  PROVE  LET r == cleanupmon(s, n)
         IN  /\ r \in Heads
             /\ r.pmons = s.pmons /\ r.selmon = s.selmon
             /\ r.mon = s.mon /\ r.monindex = s.monindex
             /\ r.enablesplit = s.enablesplit \ {n}
             /\ \A k \in Nums : k # n => r.geom[k] = s.geom[k]
             /\ ToSet(r.mons) = ToSet(s.mons) \ {n}
             /\ IsInjective(r.mons)
<1> DEFINE left == Only(s.mons, Nums \ {n})
<1>1. s.mons \in Seq(Nums)
  BY DEF Heads
<1>2. left \in Seq(Nums) /\ ToSet(left) = ToSet(s.mons) \cap (Nums \ {n}) /\ IsInjective(left)
  BY <1>1, OnlyElements
<1>3. ToSet(s.mons) \subseteq Nums
  BY <1>1 DEF ToSet
<1>4. NoRect \in Rect
  BY DEF NoRect, Rect
<1> HIDE DEF left
<1>5. ToSet(left) = ToSet(s.mons) \ {n}
  BY <1>2, <1>3
<1>6. cleanupmon(s, n) =
        [s EXCEPT !.mons = left, !.enablesplit = s.enablesplit \ {n},
                  !.geom = [s.geom EXCEPT ![n] = NoRect]]
  BY DEF cleanupmon, left
<1> DEFINE g == [s.geom EXCEPT ![n] = NoRect]
<1>7. g \in [Nums -> Rect] /\ \A k \in Nums : k # n => g[k] = s.geom[k]
  BY <1>4 DEF Heads
<1> HIDE DEF g
<1>8. s.enablesplit \ {n} \in SUBSET Nums
  BY DEF Heads
<1>9. cleanupmon(s, n) = [s EXCEPT !.mons = left, !.enablesplit = s.enablesplit \ {n}, !.geom = g]
  BY <1>6 DEF g
<1> QED
  BY <1>2, <1>5, <1>7, <1>8, <1>9 DEF Heads

\* One physical monitor replaced.
LEMMA NodeEffect ==
  ASSUME NEW s \in Heads, NEW i \in 0 .. Len(s.pmons) - 1, NEW x \in Node
  PROVE  LET r == [s EXCEPT !.pmons = ReplaceAt(@, i + 1, x)]
         IN  /\ r \in Heads
             /\ r.mons = s.mons /\ r.geom = s.geom /\ r.selmon = s.selmon
             /\ r.mon = s.mon /\ r.monindex = s.monindex /\ r.enablesplit = s.enablesplit
             /\ Len(r.pmons) = Len(s.pmons) /\ r.pmons[i + 1] = x
             /\ \A j \in 0 .. Len(s.pmons) - 1 : j # i => r.pmons[j + 1] = s.pmons[j + 1]
<1> DEFINE q == s.pmons
           k == i + 1
           p == [q EXCEPT ![k] = x]
           r == [s EXCEPT !.pmons = p]
<1>1. q \in Seq(Node) /\ Len(q) \in Nat /\ DOMAIN q = 1 .. Len(q)
  BY LenProperties DEF Heads
<1>2. k \in DOMAIN q
  BY <1>1
<1>3. r = [s EXCEPT !.pmons = ReplaceAt(@, i + 1, x)]
  BY DEF ReplaceAt
<1>4. p \in Seq(Node) /\ Len(p) = Len(q) /\ \A j \in DOMAIN q : p[j] = IF j = k THEN x ELSE q[j]
  <2> HIDE DEF q, k
  <2> QED
    BY <1>1, <1>2
<1>5. \A j \in 0 .. Len(q) - 1 : j + 1 \in DOMAIN q /\ (j + 1 = k <=> j = i)
  BY <1>1
<1>6. /\ r \in Heads /\ r.pmons = p
      /\ r.mons = s.mons /\ r.geom = s.geom /\ r.selmon = s.selmon
      /\ r.mon = s.mon /\ r.monindex = s.monindex /\ r.enablesplit = s.enablesplit
  <2> HIDE DEF p
  <2> QED
    BY <1>4 DEF Heads
<1> HIDE DEF p, r
<1> QED
  BY <1>2, <1>3, <1>4, <1>5, <1>6

\* The geometry of one monitor.
LEMMA PlacedEffect ==
  ASSUME NEW s \in Heads, NEW n \in Nums, NEW g \in Rect
  PROVE  LET r == Placed(s, n, g)
         IN  /\ r \in Heads
             /\ r.pmons = s.pmons /\ r.mons = s.mons /\ r.selmon = s.selmon
             /\ r.mon = s.mon /\ r.monindex = s.monindex /\ r.enablesplit = s.enablesplit
             /\ \A k \in Nums : r.geom[k] = IF k = n THEN g ELSE s.geom[k]
BY DEF Placed, Heads
-----------------------------------------------------------------------------
(* The loops.                                                              *)

Splits(s, i) == SplitOf[i] # 0 /\ i \in s.enablesplit

\* A physical monitor before its round: the monitors it may have.
Known(s, i) ==
    /\ s.pmons[i + 1].mon1 \in {i, None} /\ s.pmons[i + 1].mon2 \in {Second + i, None}
    /\ s.pmons[i + 1].mon1 = None => s.pmons[i + 1].mon2 = None

\* And after it: those the split gives it, side by side in it.
Done(s, i) ==
    /\ s.pmons[i + 1].mon1 = i
    /\ s.pmons[i + 1].mon2 = IF Splits(s, i) THEN Second + i ELSE None
    /\ Halves(s.pmons[i + 1], s.geom)

\* The list has the monitors of the first l physical ones.
ListsFirst(s, l) ==
    /\ IsInjective(s.mons)
    /\ \A i \in Indices :
          /\ i \in ToSet(s.mons) <=> i < l /\ s.pmons[i + 1].mon1 = i
          /\ Second + i \in ToSet(s.mons) <=> i < l /\ s.pmons[i + 1].mon2 = Second + i

Occupied(s) ==
    /\ \A c \in Clients : s.mon[c] \in ToSet(s.mons) \cup {None}
    /\ s.selmon \in ToSet(s.mons) \cup {None}

\* The state after k rounds, with l physical monitors in the list.
Rounds(s, k, l) ==
    /\ s \in Heads /\ l <= Len(s.pmons) /\ Len(s.pmons) <= Most
    /\ \A i \in 0 .. Len(s.pmons) - 1 : Known(s, i)
    /\ \A i \in 0 .. k - 1 : Done(s, i)
    /\ ListsFirst(s, l) /\ Occupied(s)

HomeIn(s, c) == IF s.monindex[c] = -1 THEN s.mon[c] ELSE s.monindex[c]

\* What no round changes: where clients belong, whether there are any, and
\* the geometry of the physical monitors. The first halves there are stay.
SameHomes(r, s) ==
    /\ \A c \in Clients : (r.mon[c] = None <=> s.mon[c] = None) /\ HomeIn(r, c) = HomeIn(s, c)
    /\ r.selmon = None <=> s.selmon = None
SameNodes(r, s) ==
    /\ Len(r.pmons) = Len(s.pmons)
    /\ \A i \in 0 .. Len(s.pmons) - 1 :
          /\ r.pmons[i + 1].geom = s.pmons[i + 1].geom
          /\ s.pmons[i + 1].mon1 = i => r.pmons[i + 1].mon1 = i

\* A physical monitor whose own monitors and split are left alone is done as
\* before.
LEMMA DoneSame ==
  ASSUME NEW s, NEW r, NEW i \in Indices, Done(s, i), r.pmons[i + 1] = s.pmons[i + 1],
         i \in r.enablesplit <=> i \in s.enablesplit,
         r.geom[i] = s.geom[i], r.geom[Second + i] = s.geom[Second + i]
  PROVE  Done(r, i)
<1> DEFINE pm == s.pmons[i + 1]
<1>1. pm.mon1 = i /\ pm.mon2 \in {Second + i, None} /\ (Splits(r, i) <=> Splits(s, i))
  BY DEF Done, Splits
<1>2. r.geom[pm.mon1] = s.geom[pm.mon1] /\ (pm.mon2 # None => r.geom[pm.mon2] = s.geom[pm.mon2])
  BY <1>1
<1>3. Halves(pm, r.geom)
  <2>1. Halves(pm, s.geom)
    BY DEF Done
  <2> HIDE DEF pm
  <2> QED
    BY <1>2, <2>1 DEF Halves
<1> QED
  BY <1>1, <1>3 DEF Done

\* What the state after k rounds is, with the lengths.
LEMMA RoundsMean ==
  ASSUME NEW s, NEW k, NEW l, Rounds(s, k, l)
  PROVE  /\ s \in Heads /\ l <= Len(s.pmons) /\ Len(s.pmons) <= Most /\ Len(s.pmons) \in Nat
         /\ \A i \in 0 .. Len(s.pmons) - 1 : Known(s, i) /\ s.pmons[i + 1] \in Node
         /\ \A i \in 0 .. k - 1 : Done(s, i)
         /\ ListsFirst(s, l) /\ Occupied(s)
         /\ Most \in Nat /\ Indices = 0 .. Most - 1
<1>1. s.pmons \in Seq(Node)
  BY DEF Rounds, Heads
<1>2. Len(s.pmons) \in Nat
  BY <1>1, LenProperties
<1>3. ASSUME NEW i \in 0 .. Len(s.pmons) - 1 PROVE s.pmons[i + 1] \in Node
  <2>1. i + 1 \in 1 .. Len(s.pmons)
    BY <1>2
  <2> QED
    BY <1>1, <2>1, ElementOfSeq
<1> QED
  BY <1>2, <1>3, NumsApart DEF Rounds

\* One physical monitor gets other monitors, those the list has for it.
LEMMA NodeChanged ==
  ASSUME NEW k \in Nat, NEW l \in Nat, NEW s, Rounds(s, k, l), k < l,
         NEW b \in Heads, b.pmons = s.pmons, IsInjective(b.mons), Occupied(b), SameHomes(b, s),
         \A i \in Indices : i # k => /\ i \in b.enablesplit <=> i \in s.enablesplit
                                     /\ b.geom[i] = s.geom[i] /\ b.geom[Second + i] = s.geom[Second + i],
         \A n \in Nums : n # k /\ n # Second + k => (n \in ToSet(b.mons) <=> n \in ToSet(s.mons)),
         NEW x \in Node, x.geom = s.pmons[k + 1].geom, x.mon1 = k,
         x.mon2 \in {Second + k, None}, k \in ToSet(b.mons),
         Second + k \in ToSet(b.mons) <=> x.mon2 = Second + k,
         NEW a, a = [b EXCEPT !.pmons = ReplaceAt(@, k + 1, x)]
  PROVE  /\ Rounds(a, k, l) /\ SameHomes(a, s) /\ SameNodes(a, s)
         /\ a.pmons[k + 1] = x /\ a.enablesplit = b.enablesplit /\ a.geom = b.geom
<1>1. /\ s \in Heads /\ l <= Len(s.pmons) /\ Len(s.pmons) <= Most /\ Len(s.pmons) \in Nat
      /\ \A i \in 0 .. Len(s.pmons) - 1 : Known(s, i)
      /\ \A i \in 0 .. k - 1 : Done(s, i)
      /\ ListsFirst(s, l) /\ Occupied(s)
      /\ Most \in Nat /\ Indices = 0 .. Most - 1
  BY RoundsMean
<1>2. k \in Indices /\ k \in 0 .. Len(s.pmons) - 1
  BY <1>1
<1>3. /\ a \in Heads
      /\ a.mons = b.mons /\ a.geom = b.geom /\ a.selmon = b.selmon
      /\ a.mon = b.mon /\ a.monindex = b.monindex /\ a.enablesplit = b.enablesplit
      /\ Len(a.pmons) = Len(s.pmons) /\ a.pmons[k + 1] = x
      /\ \A j \in 0 .. Len(s.pmons) - 1 : j # k => a.pmons[j + 1] = s.pmons[j + 1]
  <2>1. k \in 0 .. Len(b.pmons) - 1 /\ b.pmons = s.pmons
    BY <1>2
  <2> QED
    BY ONLY <2>1, NodeEffect, b \in Heads, x \in Node, a = [b EXCEPT !.pmons = ReplaceAt(@, k + 1, x)]
<1>4. ASSUME NEW i \in 0 .. Len(a.pmons) - 1 PROVE Known(a, i)
  <2>1. i \in 0 .. Len(s.pmons) - 1 /\ Known(s, i)
    BY <1>1, <1>3
  <2>2. CASE i = k
    BY <1>2, <1>3, <2>2, NumsApart DEF Known
  <2>3. CASE i # k
    BY <1>3, <2>1, <2>3 DEF Known
  <2> QED
    BY <2>2, <2>3
<1>5. ASSUME NEW i \in 0 .. k - 1 PROVE Done(a, i)
  <2>1. i \in Indices /\ i # k /\ i \in 0 .. Len(s.pmons) - 1 /\ Done(s, i)
    BY <1>1, <1>2
  <2>2. a.pmons[i + 1] = s.pmons[i + 1]
    BY <1>3, <2>1
  <2>3. /\ i \in b.enablesplit <=> i \in s.enablesplit
        /\ b.geom[i] = s.geom[i] /\ b.geom[Second + i] = s.geom[Second + i]
    BY <2>1
  <2>4. /\ i \in a.enablesplit <=> i \in s.enablesplit
        /\ a.geom[i] = s.geom[i] /\ a.geom[Second + i] = s.geom[Second + i]
    BY <1>3, <2>3
  <2> QED
    BY ONLY <2>1, <2>2, <2>4, DoneSame
<1>6. ListsFirst(a, l)
  <2>1. ASSUME NEW i \in Indices
        PROVE  /\ i \in ToSet(a.mons) <=> i < l /\ a.pmons[i + 1].mon1 = i
               /\ Second + i \in ToSet(a.mons) <=> i < l /\ a.pmons[i + 1].mon2 = Second + i
    <3>1. i < l => i \in 0 .. Len(s.pmons) - 1
      BY <1>1
    <3>2. /\ i \in Nums /\ Second + i \in Nums /\ i # Second + k /\ Second + i # k
          /\ Second + i = Second + k <=> i = k
      BY <1>2, NumsApart
    <3>3. CASE i = k
      BY <1>3, <3>3
    <3>4. CASE i # k
      BY <1>1, <1>3, <3>1, <3>2, <3>4 DEF ListsFirst
    <3> QED
      BY <3>3, <3>4
  <2> QED
    BY <1>3, <2>1 DEF ListsFirst
<1>7. Occupied(a)
  BY <1>3 DEF Occupied
<1>8. SameHomes(a, s)
  BY <1>3 DEF SameHomes, HomeIn
<1>9. SameNodes(a, s)
  BY <1>3 DEF SameNodes
<1> QED
  BY <1>1, <1>3, <1>4, <1>5, <1>6, <1>7, <1>8, <1>9 DEF Rounds

\* The first half is made if it is not there.
LEMMA FirstMade ==
  ASSUME NEW k \in Nat, NEW l \in Nat, NEW s, Rounds(s, k, l), k < l,
         NEW a, a = IF s.pmons[k + 1].mon1 = None THEN FirstIs(createmon(s, k), k, k) ELSE s
  PROVE  /\ Rounds(a, k, l) /\ SameHomes(a, s) /\ SameNodes(a, s)
         /\ a.pmons[k + 1].mon1 = k /\ a.pmons[k + 1].mon2 = s.pmons[k + 1].mon2
<1>1. /\ s \in Heads /\ l <= Len(s.pmons)
      /\ \A i \in 0 .. Len(s.pmons) - 1 : Known(s, i) /\ s.pmons[i + 1] \in Node
      /\ ListsFirst(s, l) /\ Occupied(s)
      /\ k \in Indices /\ k \in 0 .. Len(s.pmons) - 1
  BY RoundsMean
<1>2. Known(s, k) /\ s.pmons[k + 1] \in Node /\ k \in Nums /\ k # None /\ Second + k # k
  BY <1>1, NumsApart
<1>3. CASE s.pmons[k + 1].mon1 # None
  <2>1. a = s /\ s.pmons[k + 1].mon1 = k
    BY <1>2, <1>3 DEF Known
  <2> QED
    BY <2>1 DEF SameHomes, SameNodes
<1>4. CASE s.pmons[k + 1].mon1 = None
  <2> DEFINE b == createmon(s, k)
             x == [b.pmons[k + 1] EXCEPT !.mon1 = k]
  <2>1. k \notin ToSet(s.mons) /\ Second + k \notin ToSet(s.mons) /\ s.pmons[k + 1].mon2 = None
    BY <1>1, <1>2, <1>4, NumsApart DEF ListsFirst, Known
  <2>2. /\ b \in Heads
        /\ b.pmons = s.pmons /\ b.geom = s.geom /\ b.selmon = s.selmon
        /\ b.mon = s.mon /\ b.monindex = s.monindex
        /\ b.enablesplit = s.enablesplit \cup ({k} \cap StartSplit)
        /\ ToSet(b.mons) = ToSet(s.mons) \cup {k}
        /\ IsInjective(b.mons)
    BY <1>1, <1>2, <2>1, CreateEffect DEF ListsFirst
  <2> HIDE DEF b
  <2>3. /\ x \in Node /\ x.mon1 = k /\ x.mon2 = s.pmons[k + 1].mon2
        /\ x.geom = s.pmons[k + 1].geom
    BY <1>2, <2>2 DEF Node
  <2>4. a = [b EXCEPT !.pmons = ReplaceAt(@, k + 1, x)]
    BY <1>4 DEF FirstIs, b
  <2> HIDE DEF x
  <2>5. Occupied(b) /\ SameHomes(b, s)
    BY <1>1, <2>2 DEF Occupied, SameHomes, HomeIn
  <2>6. Second + k \in ToSet(b.mons) <=> x.mon2 = Second + k
    BY <1>1, <1>2, <2>1, <2>2, <2>3, NumsApart
  <2>7. Rounds(a, k, l) /\ SameHomes(a, s) /\ SameNodes(a, s) /\ a.pmons[k + 1] = x
    BY <2>1, <2>2, <2>3, <2>4, <2>5, <2>6, NodeChanged
  <2> QED
    BY <2>3, <2>7
<1> QED
  BY <1>3, <1>4

\* A monitor that goes: its clients are on the heir, and belong where they did.
LEMMA MergedEffect ==
  ASSUME NEW s \in Heads, IsInjective(s.mons), Occupied(s), NEW n \in Nums, NEW to \in Nums,
         to \in ToSet(s.mons), n # to,
         NEW r, r = cleanupmon(Evict(s, n, to), n)
  PROVE  /\ r \in Heads /\ r.pmons = s.pmons /\ IsInjective(r.mons)
         /\ ToSet(r.mons) = ToSet(s.mons) \ {n} /\ r.enablesplit = s.enablesplit \ {n}
         /\ \A k \in Nums : k # n => r.geom[k] = s.geom[k]
         /\ Occupied(r) /\ SameHomes(r, s)
<1> DEFINE e == Evict(s, n, to)
<1>1. /\ e \in Heads
      /\ e.pmons = s.pmons /\ e.mons = s.mons /\ e.geom = s.geom
      /\ e.enablesplit = s.enablesplit
      /\ e.selmon = IF s.selmon = n THEN to ELSE s.selmon
      /\ \A c \in Clients :
           /\ e.mon[c] = IF s.mon[c] = n THEN to ELSE s.mon[c]
           /\ e.monindex[c] = IF s.mon[c] = n /\ s.monindex[c] = -1 THEN n ELSE s.monindex[c]
  BY EvictEffect
<1> HIDE DEF e
<1>2. /\ r \in Heads
      /\ r.pmons = e.pmons /\ r.selmon = e.selmon
      /\ r.mon = e.mon /\ r.monindex = e.monindex
      /\ r.enablesplit = e.enablesplit \ {n}
      /\ \A k \in Nums : k # n => r.geom[k] = e.geom[k]
      /\ ToSet(r.mons) = ToSet(e.mons) \ {n}
      /\ IsInjective(r.mons)
  <2>1. r = cleanupmon(e, n) /\ e \in Heads /\ IsInjective(e.mons)
    BY <1>1 DEF e
  <2> DEFINE t == cleanupmon(e, n)
  <2>2. /\ t \in Heads
        /\ t.pmons = e.pmons /\ t.selmon = e.selmon
        /\ t.mon = e.mon /\ t.monindex = e.monindex
        /\ t.enablesplit = e.enablesplit \ {n}
        /\ \A k \in Nums : k # n => t.geom[k] = e.geom[k]
        /\ ToSet(t.mons) = ToSet(e.mons) \ {n}
        /\ IsInjective(t.mons)
    BY <2>1, CleanupEffect, Zenon
  <2>3. r = t
    BY <2>1
  <2> HIDE DEF t
  <2> QED
    BY ONLY <2>2, <2>3
<1>3. n # None /\ to # None /\ n # -1
  BY NumsApart
<1>4. Occupied(r)
  BY <1>1, <1>2, <1>3 DEF Occupied
<1>5. SameHomes(r, s)
  BY <1>1, <1>2, <1>3 DEF SameHomes, HomeIn
<1> QED
  BY <1>1, <1>2, <1>4, <1>5

\* The second half is joined to the first where the split is off, and made
\* where it is on.
LEMMA SecondMade ==
  ASSUME NEW k \in Nat, NEW l \in Nat, NEW s, Rounds(s, k, l), k < l, s.pmons[k + 1].mon1 = k,
         NEW b,
         b = CASE s.pmons[k + 1].mon2 # None /\ ~Splits(s, k) ->
                     SecondIs(cleanupmon(Evict(s, Second + k, k), Second + k), k, None)
               [] s.pmons[k + 1].mon2 = None /\ Splits(s, k) ->
                     SecondIs(createmon(s, Second + k), k, Second + k)
               [] OTHER -> s
  PROVE  /\ Rounds(b, k, l) /\ SameHomes(b, s) /\ SameNodes(b, s)
         /\ b.pmons[k + 1].mon1 = k
         /\ b.pmons[k + 1].mon2 = IF Splits(s, k) THEN Second + k ELSE None
         /\ Splits(b, k) <=> Splits(s, k)
<1>1. /\ s \in Heads /\ l <= Len(s.pmons)
      /\ \A i \in 0 .. Len(s.pmons) - 1 : Known(s, i) /\ s.pmons[i + 1] \in Node
      /\ ListsFirst(s, l) /\ Occupied(s)
      /\ k \in Indices /\ k \in 0 .. Len(s.pmons) - 1
  BY RoundsMean
<1>2. /\ Known(s, k) /\ s.pmons[k + 1] \in Node /\ k \in Nums /\ Second + k \in Nums
      /\ k # None /\ Second + k # k /\ Second + k # None
      /\ IsInjective(s.mons) /\ k \in ToSet(s.mons)
      /\ Second + k \in ToSet(s.mons) <=> s.pmons[k + 1].mon2 = Second + k
  BY <1>1, NumsApart DEF ListsFirst
<1>3. \A i \in Indices : /\ i \in Nums /\ Second + i \in Nums /\ i # Second + k
                         /\ i # k => Second + i # Second + k
  BY <1>1, NumsApart
<1>4. CASE s.pmons[k + 1].mon2 # None /\ ~Splits(s, k)
  <2> DEFINE r == cleanupmon(Evict(s, Second + k, k), Second + k)
             x == [r.pmons[k + 1] EXCEPT !.mon2 = None]
  <2>1. /\ r \in Heads /\ r.pmons = s.pmons /\ IsInjective(r.mons)
        /\ ToSet(r.mons) = ToSet(s.mons) \ {Second + k} /\ r.enablesplit = s.enablesplit \ {Second + k}
        /\ \A n \in Nums : n # Second + k => r.geom[n] = s.geom[n]
        /\ Occupied(r) /\ SameHomes(r, s)
    <3>1. PICK n : n = Second + k
      OBVIOUS
    <3>2. n \in Nums /\ k \in Nums /\ k \in ToSet(s.mons) /\ n # k /\ s \in Heads /\ IsInjective(s.mons) /\ Occupied(s)
      BY <1>1, <1>2, <3>1
    <3>3. PICK q : q = cleanupmon(Evict(s, n, k), n)
      OBVIOUS
    <3>4. /\ q \in Heads /\ q.pmons = s.pmons /\ IsInjective(q.mons)
          /\ ToSet(q.mons) = ToSet(s.mons) \ {n} /\ q.enablesplit = s.enablesplit \ {n}
          /\ \A i \in Nums : i # n => q.geom[i] = s.geom[i]
          /\ Occupied(q) /\ SameHomes(q, s)
      BY ONLY <3>2, <3>3, MergedEffect
    <3> QED
      BY <3>1, <3>3, <3>4
  <2>2. b = [r EXCEPT !.pmons = ReplaceAt(@, k + 1, x)]
    BY <1>4 DEF SecondIs
  <2> HIDE DEF r
  <2>3. x \in Node /\ x.mon1 = k /\ x.mon2 = None /\ x.geom = s.pmons[k + 1].geom
    BY <1>2, <2>1 DEF Node
  <2> HIDE DEF x
  <2>4. \A i \in Indices : i # k => /\ i \in r.enablesplit <=> i \in s.enablesplit
                                    /\ r.geom[i] = s.geom[i] /\ r.geom[Second + i] = s.geom[Second + i]
    BY <1>3, <2>1
  <2>5. /\ Rounds(b, k, l) /\ SameHomes(b, s) /\ SameNodes(b, s)
        /\ b.pmons[k + 1] = x /\ b.enablesplit = r.enablesplit
    <3>1. k \in ToSet(r.mons) /\ (Second + k \in ToSet(r.mons) <=> x.mon2 = Second + k)
      BY <1>2, <2>1, <2>3
    <3>2. \A n \in Nums : n # k /\ n # Second + k => (n \in ToSet(r.mons) <=> n \in ToSet(s.mons))
      BY <2>1
    <3> QED
      BY <2>1, <2>2, <2>3, <2>4, <3>1, <3>2, NodeChanged
  <2>6. Splits(b, k) <=> Splits(s, k)
    BY <1>2, <2>1, <2>5 DEF Splits
  <2> QED
    BY <1>4, <2>3, <2>5, <2>6
<1>5. CASE s.pmons[k + 1].mon2 = None /\ Splits(s, k)
  <2> DEFINE r == createmon(s, Second + k)
             x == [r.pmons[k + 1] EXCEPT !.mon2 = Second + k]
  <2>1. /\ r \in Heads
        /\ r.pmons = s.pmons /\ r.geom = s.geom /\ r.selmon = s.selmon
        /\ r.mon = s.mon /\ r.monindex = s.monindex
        /\ r.enablesplit = s.enablesplit \cup ({Second + k} \cap StartSplit)
        /\ ToSet(r.mons) = ToSet(s.mons) \cup {Second + k}
        /\ IsInjective(r.mons)
    BY <1>1, <1>2, <1>5, CreateEffect
  <2>2. b = [r EXCEPT !.pmons = ReplaceAt(@, k + 1, x)]
    BY <1>5 DEF SecondIs
  <2> HIDE DEF r
  <2>3. x \in Node /\ x.mon1 = k /\ x.mon2 = Second + k /\ x.geom = s.pmons[k + 1].geom
    BY <1>2, <2>1 DEF Node
  <2> HIDE DEF x
  <2>4. \A i \in Indices : i # k => /\ i \in r.enablesplit <=> i \in s.enablesplit
                                    /\ r.geom[i] = s.geom[i] /\ r.geom[Second + i] = s.geom[Second + i]
    BY <1>3, <2>1
  <2>5. Occupied(r) /\ SameHomes(r, s)
    BY <1>1, <2>1 DEF Occupied, SameHomes, HomeIn
  <2>6. /\ Rounds(b, k, l) /\ SameHomes(b, s) /\ SameNodes(b, s)
        /\ b.pmons[k + 1] = x /\ b.enablesplit = r.enablesplit
    <3>1. k \in ToSet(r.mons) /\ (Second + k \in ToSet(r.mons) <=> x.mon2 = Second + k)
      BY <1>2, <2>1, <2>3
    <3>2. \A n \in Nums : n # k /\ n # Second + k => (n \in ToSet(r.mons) <=> n \in ToSet(s.mons))
      BY <2>1
    <3> QED
      BY <2>1, <2>2, <2>3, <2>4, <2>5, <3>1, <3>2, NodeChanged
  <2>7. Splits(b, k) <=> Splits(s, k)
    BY <1>2, <1>5, <2>1, <2>6 DEF Splits
  <2> QED
    BY <1>5, <2>3, <2>6, <2>7
<1>6. CASE /\ ~(s.pmons[k + 1].mon2 # None /\ ~Splits(s, k))
           /\ ~(s.pmons[k + 1].mon2 = None /\ Splits(s, k))
  <2>1. b = s
    BY <1>6
  <2>2. s.pmons[k + 1].mon2 = IF Splits(s, k) THEN Second + k ELSE None
    BY <1>2, <1>6 DEF Known
  <2> QED
    BY <2>1, <2>2 DEF SameHomes, SameNodes
<1> QED
  BY <1>4, <1>5, <1>6

\* The halves of a split monitor, and the monitor of one that is not split.
LEMMA HalvesOf ==
  ASSUME NEW r \in Rect, NEW split \in 1 .. 2
  PROVE  LET a == FirstHalf(r, split)
             b == SecondHalf(r, split)
         IN  /\ a \in Rect /\ b \in Rect
             /\ IF split = 1
                THEN /\ a.y = r.y /\ b.y = r.y /\ a.h = r.h /\ b.h = r.h /\ a.x = r.x
                     /\ b.x = a.x + a.w /\ a.w = b.w /\ a.w + b.w \in {r.w - 1, r.w}
                ELSE /\ a.x = r.x /\ b.x = r.x /\ a.w = r.w /\ b.w = r.w /\ a.y = r.y
                     /\ b.y = a.y + a.h /\ a.h = b.h /\ a.h + b.h \in {r.h - 1, r.h}
<1>1. r.x \in Int /\ r.y \in Int /\ r.w \in Nat /\ r.h \in Nat
  BY DEF Rect
<1>2. \A n \in Nat : n \div 2 \in Nat /\ (n \div 2) + (n \div 2) \in {n - 1, n}
  OBVIOUS
<1>3. CASE split = 1
  <2>1. PICK m \in Nat : m = r.w \div 2 /\ m + m \in {r.w - 1, r.w}
    BY <1>1, <1>2
  <2>2. r = [x |-> r.x, y |-> r.y, w |-> r.w, h |-> r.h]
    BY DEF Rect
  <2>3. /\ FirstHalf(r, split) = [x |-> r.x, y |-> r.y, w |-> m, h |-> r.h]
        /\ SecondHalf(r, split) = [x |-> r.x + m, y |-> r.y, w |-> m, h |-> r.h]
    BY <1>3, <2>1, <2>2 DEF FirstHalf, SecondHalf
  <2> QED
    BY <1>1, <1>3, <2>1, <2>3 DEF Rect
<1>4. CASE split = 2
  <2>1. PICK m \in Nat : m = r.h \div 2 /\ m + m \in {r.h - 1, r.h}
    BY <1>1, <1>2
  <2>2. r = [x |-> r.x, y |-> r.y, w |-> r.w, h |-> r.h]
    BY DEF Rect
  <2>3. /\ FirstHalf(r, split) = [x |-> r.x, y |-> r.y, w |-> r.w, h |-> m]
        /\ SecondHalf(r, split) = [x |-> r.x, y |-> r.y + m, w |-> r.w, h |-> m]
    <3>1. split # 1 /\ r.h \div 2 = m
      BY <1>4, <2>1
    <3> QED
      BY <2>2, <3>1 DEF FirstHalf, SecondHalf
  <2> QED
    BY <1>1, <1>4, <2>1, <2>3 DEF Rect
<1> QED
  BY <1>3, <1>4

\* One round: the physical monitor has the monitors its split gives it.
LEMMA RoundMade ==
  ASSUME NEW k \in Nat, NEW l \in Nat, NEW s, Rounds(s, k, l), k < l
  PROVE  LET r == UpdateVirtual(s, k)
         IN  Rounds(r, k + 1, l) /\ SameHomes(r, s) /\ SameNodes(r, s)
<1> DEFINE pm == s.pmons[k + 1]
<1>1. /\ s \in Heads /\ l <= Len(s.pmons)
      /\ \A i \in 0 .. Len(s.pmons) - 1 : Known(s, i) /\ s.pmons[i + 1] \in Node
      /\ ListsFirst(s, l) /\ Occupied(s)
      /\ Most \in Nat /\ Indices = 0 .. Most - 1
      /\ k \in Indices /\ k \in 0 .. Len(s.pmons) - 1
  BY RoundsMean
<1>2. PICK a : a = IF pm.mon1 = None THEN FirstIs(createmon(s, k), k, k) ELSE s
  OBVIOUS
<1>3. /\ Rounds(a, k, l) /\ SameHomes(a, s) /\ SameNodes(a, s)
      /\ a.pmons[k + 1].mon1 = k /\ a.pmons[k + 1].mon2 = pm.mon2
  BY <1>2, FirstMade
<1>4. PICK b : b = CASE pm.mon2 # None /\ ~Splits(a, k) ->
                          SecondIs(cleanupmon(Evict(a, Second + k, k), Second + k), k, None)
                     [] pm.mon2 = None /\ Splits(a, k) ->
                          SecondIs(createmon(a, Second + k), k, Second + k)
                     [] OTHER -> a
  OBVIOUS
<1>5. /\ Rounds(b, k, l) /\ SameHomes(b, a) /\ SameNodes(b, a)
      /\ b.pmons[k + 1].mon1 = k
      /\ b.pmons[k + 1].mon2 = IF Splits(a, k) THEN Second + k ELSE None
      /\ Splits(b, k) <=> Splits(a, k)
  <2>1. b = CASE a.pmons[k + 1].mon2 # None /\ ~Splits(a, k) ->
                   SecondIs(cleanupmon(Evict(a, Second + k, k), Second + k), k, None)
              [] a.pmons[k + 1].mon2 = None /\ Splits(a, k) ->
                   SecondIs(createmon(a, Second + k), k, Second + k)
              [] OTHER -> a
    BY <1>3, <1>4
  <2>2. k \in Nat /\ l \in Nat /\ k < l /\ Rounds(a, k, l) /\ a.pmons[k + 1].mon1 = k
    BY <1>3
  <2> QED
    BY ONLY <2>1, <2>2, SecondMade
<1>6. pm.geom \in Rect /\ k \in Nums /\ Second + k \in Nums /\ Second + k # k /\ k # None /\ Second + k # None
  BY <1>1, NumsApart DEF Node
<1>7. PICK r : r = IF Splits(a, k)
                   THEN Placed(Placed(b, k, FirstHalf(pm.geom, SplitOf[k])),
                               Second + k, SecondHalf(pm.geom, SplitOf[k]))
                   ELSE Placed(b, k, pm.geom)
  OBVIOUS
<1>8. UpdateVirtual(s, k) = r
  BY <1>2, <1>4, <1>7 DEF UpdateVirtual, Splits
<1> HIDE DEF pm
<1>9. b \in Heads /\ b.pmons[k + 1].geom = pm.geom /\ Len(b.pmons) = Len(s.pmons)
  BY <1>1, <1>3, <1>5 DEF Rounds, SameNodes, pm
<1>10. SplitOf[k] \in 0 .. 2
  BY <1>1, ScreensAssumption
<1>11. /\ r \in Heads
       /\ r.pmons = b.pmons /\ r.mons = b.mons /\ r.selmon = b.selmon
       /\ r.mon = b.mon /\ r.monindex = b.monindex /\ r.enablesplit = b.enablesplit
       /\ \A n \in Nums : n # k /\ n # Second + k => r.geom[n] = b.geom[n]
       /\ Halves(r.pmons[k + 1], r.geom)
  <2>1. CASE Splits(a, k)
    <3>1. SplitOf[k] \in 1 .. 2
      BY <1>10, <2>1 DEF Splits
    <3>2. PICK g : g = FirstHalf(pm.geom, SplitOf[k])
      OBVIOUS
    <3>3. PICK h : h = SecondHalf(pm.geom, SplitOf[k])
      OBVIOUS
    <3>4. /\ g \in Rect /\ h \in Rect
          /\ IF SplitOf[k] = 1
             THEN /\ g.y = pm.geom.y /\ h.y = pm.geom.y /\ g.h = pm.geom.h /\ h.h = pm.geom.h
                  /\ g.x = pm.geom.x /\ h.x = g.x + g.w /\ g.w = h.w
                  /\ g.w + h.w \in {pm.geom.w - 1, pm.geom.w}
             ELSE /\ g.x = pm.geom.x /\ h.x = pm.geom.x /\ g.w = pm.geom.w /\ h.w = pm.geom.w
                  /\ g.y = pm.geom.y /\ h.y = g.y + g.h /\ g.h = h.h
                  /\ g.h + h.h \in {pm.geom.h - 1, pm.geom.h}
      BY <1>6, <3>1, <3>2, <3>3, HalvesOf
    <3>5. PICK p : p = Placed(b, k, g)
      OBVIOUS
    <3>6. /\ p \in Heads
          /\ p.pmons = b.pmons /\ p.mons = b.mons /\ p.selmon = b.selmon
          /\ p.mon = b.mon /\ p.monindex = b.monindex /\ p.enablesplit = b.enablesplit
          /\ \A n \in Nums : p.geom[n] = IF n = k THEN g ELSE b.geom[n]
      <4>1. b \in Heads /\ k \in Nums /\ g \in Rect /\ p = Placed(b, k, g)
        BY <1>6, <1>9, <3>4, <3>5
      <4> QED
        BY ONLY <4>1, PlacedEffect
    <3>7. /\ r \in Heads
          /\ r.pmons = p.pmons /\ r.mons = p.mons /\ r.selmon = p.selmon
          /\ r.mon = p.mon /\ r.monindex = p.monindex /\ r.enablesplit = p.enablesplit
          /\ \A n \in Nums : r.geom[n] = IF n = Second + k THEN h ELSE p.geom[n]
      <4>1. PICK n : n = Second + k
        OBVIOUS
      <4>2. r = Placed(p, n, h)
        BY <1>7, <2>1, <3>2, <3>3, <3>5, <4>1
      <4>3. p \in Heads /\ n \in Nums /\ h \in Rect
        BY <1>6, <3>4, <3>6, <4>1
      <4>4. /\ r \in Heads
            /\ r.pmons = p.pmons /\ r.mons = p.mons /\ r.selmon = p.selmon
            /\ r.mon = p.mon /\ r.monindex = p.monindex /\ r.enablesplit = p.enablesplit
            /\ \A i \in Nums : r.geom[i] = IF i = n THEN h ELSE p.geom[i]
        BY ONLY <4>2, <4>3, PlacedEffect
      <4> QED
        BY <4>1, <4>4
    <3>8. /\ r.pmons[k + 1].mon1 = k /\ r.pmons[k + 1].mon2 = Second + k
          /\ r.pmons[k + 1].geom = pm.geom /\ r.geom[k] = g /\ r.geom[Second + k] = h
      BY <1>5, <1>6, <1>9, <2>1, <3>6, <3>7
    <3>9. Halves(r.pmons[k + 1], r.geom)
      <4>1. PICK x, y : x = r.pmons[k + 1] /\ y = r.geom
        OBVIOUS
      <4>2. /\ x.mon1 = k /\ x.mon2 = Second + k /\ x.geom = pm.geom /\ y[k] = g /\ y[Second + k] = h
            /\ Second + k # None
        BY <1>6, <3>8, <4>1
      <4>3. Halves(x, y)
        BY ONLY <3>4, <4>2 DEF Halves
      <4> QED
        BY <4>1, <4>3
    <3> QED
      BY <3>6, <3>7, <3>9
  <2>2. CASE ~Splits(a, k)
    <3>1. /\ r \in Heads
          /\ r.pmons = b.pmons /\ r.mons = b.mons /\ r.selmon = b.selmon
          /\ r.mon = b.mon /\ r.monindex = b.monindex /\ r.enablesplit = b.enablesplit
          /\ \A n \in Nums : r.geom[n] = IF n = k THEN pm.geom ELSE b.geom[n]
      BY <1>6, <1>7, <1>9, <2>2, PlacedEffect
    <3>2. r.pmons[k + 1].mon1 = k /\ r.pmons[k + 1].mon2 = None /\ r.pmons[k + 1].geom = pm.geom
          /\ r.geom[k] = pm.geom
      BY <1>5, <1>6, <1>9, <2>2, <3>1
    <3> QED
      BY <3>1, <3>2 DEF Halves
  <2> QED
    BY <2>1, <2>2
<1>12. /\ Len(b.pmons) <= Most /\ l <= Len(b.pmons)
       /\ \A i \in 0 .. Len(b.pmons) - 1 : Known(b, i)
       /\ \A i \in 0 .. k - 1 : Done(b, i)
       /\ ListsFirst(b, l) /\ Occupied(b)
  BY <1>5, RoundsMean
<1>13. ASSUME NEW i \in 0 .. k PROVE Done(r, i)
  <2>1. CASE i = k
    BY <1>5, <1>11, <2>1 DEF Done, Splits
  <2>2. CASE i # k
    <3>1. i \in 0 .. k - 1 /\ i \in Indices
      BY <1>1, <2>2
    <3>2. i \in Nums /\ Second + i \in Nums /\ i # Second + k /\ Second + i # k /\ Second + i # Second + k
      BY <1>1, <2>2, <3>1, NumsApart
    <3>3. /\ Done(b, i) /\ r.pmons[i + 1] = b.pmons[i + 1]
          /\ i \in r.enablesplit <=> i \in b.enablesplit
          /\ r.geom[i] = b.geom[i] /\ r.geom[Second + i] = b.geom[Second + i]
      BY <1>11, <1>12, <2>2, <3>1, <3>2
    <3> QED
      BY ONLY <3>1, <3>3, DoneSame
  <2> QED
    BY <2>1, <2>2
<1>14. Rounds(r, k + 1, l)
  <2>1. k + 1 - 1 = k
    OBVIOUS
  <2>2. \A i \in 0 .. Len(r.pmons) - 1 : Known(r, i)
    BY <1>11, <1>12 DEF Known
  <2>3. ListsFirst(r, l) /\ Occupied(r)
    BY <1>11, <1>12 DEF ListsFirst, Occupied
  <2> QED
    BY <1>11, <1>12, <1>13, <2>1, <2>2, <2>3 DEF Rounds
<1>15. SameHomes(r, s)
  BY <1>3, <1>5, <1>11 DEF SameHomes, HomeIn
<1>16. SameNodes(r, s)
  BY <1>3, <1>5, <1>11 DEF SameNodes
<1> QED
  BY <1>8, <1>14, <1>15, <1>16

\* What a loop that starts at s leaves, before its round k.
LEMMA LoopMade ==
  ASSUME NEW n \in Nat, NEW s, NEW l \in Nat, n <= l, Rounds(s, 0, l),
         NEW kept, kept = CHOOSE g :
             g = [k \in 0 .. n |-> IF k = 0 THEN s ELSE UpdateVirtual(g[k - 1], k - 1)]
  PROVE  \A k \in 0 .. n : Rounds(kept[k], k, l) /\ SameHomes(kept[k], s) /\ SameNodes(kept[k], s)
<1> DEFINE E(g) == [k \in 0 .. n |-> IF k = 0 THEN s ELSE UpdateVirtual(g[k - 1], k - 1)]
           Fine(x, k) == Rounds(x, k, l) /\ SameHomes(x, s) /\ SameNodes(x, s)
           G == [k \in 0 .. n |-> {x \in Heads : Fine(x, k)}]
           round == [p \in Heads \X (0 .. n) |-> UpdateVirtual(p[1], p[2])]
<1>1. \A k \in 0 .. n : G[k] \subseteq Heads /\ \A x \in Heads : x \in G[k] <=> Fine(x, k)
  OBVIOUS
<1>2. s \in G[0]
  <2>1. s \in Heads /\ Fine(s, 0) /\ 0 \in 0 .. n
    BY DEF SameHomes, SameNodes, Rounds
  <2> QED
    BY <1>1, <2>1
<1>3. ASSUME NEW k \in 0 .. n, k # n, NEW x \in G[k] PROVE UpdateVirtual(x, k) \in G[k + 1]
  <2>1. k \in Nat /\ k < l /\ k + 1 \in 0 .. n
    BY <1>3
  <2>2. Fine(x, k)
    BY <1>1
  <2>3. PICK r : r = UpdateVirtual(x, k)
    OBVIOUS
  <2>4. Rounds(r, k + 1, l) /\ SameHomes(r, x) /\ SameNodes(r, x)
    BY ONLY <2>1, <2>2, <2>3, RoundMade, l \in Nat
  <2>5. Fine(r, k + 1)
    BY <2>2, <2>4 DEF SameHomes, SameNodes
  <2>6. r \in Heads
    BY <2>4 DEF Rounds
  <2> QED
    BY <1>1, <2>1, <2>3, <2>5, <2>6
<1>4. \A k \in 0 .. n : \A x \in G[k] : round[<<x, k>>] = UpdateVirtual(x, k)
  BY <1>1
<1> HIDE DEF G, round, Fine
<1>5. PICK f \in [0 .. n -> Heads] :
         f[0] = s /\ \A i \in 0 .. n : i # 0 => f[i] = round[<<f[i - 1], i - 1>>]
  <2>1. \A k \in 0 .. n : k # n => \A x \in G[k] : round[<<x, k>>] \in G[k + 1]
    BY <1>3, <1>4
  <2>2. \A k \in 0 .. n : G[k] \subseteq Heads
    BY <1>1
  <2>3. PICK m : m = 0
    OBVIOUS
  <2>4. /\ m \in Nat /\ n \in Nat /\ m <= n /\ s \in G[m]
        /\ Leads(round, G, Heads, m, n)
    BY <1>2, <2>1, <2>2, <2>3 DEF Leads
  <2>5. \E f \in [m .. n -> Heads] :
           f[m] = s /\ \A i \in m .. n : i # m => f[i] = round[<<f[i - 1], i - 1>>]
    BY ONLY <2>4, LoopRuns
  <2> QED
    BY <2>3, <2>5
<1>6. \A i \in 0 .. n : i # 0 => f[i] = UpdateVirtual(f[i - 1], i - 1)
  <2>1. ASSUME NEW i \in 0 .. n, i # 0 PROVE round[<<f[i - 1], i - 1>>] = UpdateVirtual(f[i - 1], i - 1)
    <3>1. i - 1 \in 0 .. n
      BY <2>1
    <3>2. f[i - 1] \in Heads
      BY <3>1
    <3> QED
      BY <3>1, <3>2 DEF round
  <2> QED
    BY <1>5, <2>1
<1>7. f = E(f)
  <2>1. \A i \in 0 .. n : f[i] = E(f)[i]
    BY <1>5, <1>6
  <2>2. E(f) = [i \in 0 .. n |-> E(f)[i]]
    OBVIOUS
  <2> HIDE DEF E
  <2> QED
    BY <2>1, <2>2
<1>8. kept = E(kept)
  BY <1>7
<1>9. /\ kept[0] = s
      /\ \A i \in 0 .. n : i # 0 => kept[i] = UpdateVirtual(kept[i - 1], i - 1)
  <2> HIDE DEF E
  <2>1. \A i \in 0 .. n : kept[i] = E(kept)[i]
    BY <1>8
  <2> USE DEF E
  <2>2. ASSUME NEW i \in 0 .. n
        PROVE  E(kept)[i] = IF i = 0 THEN s ELSE UpdateVirtual(kept[i - 1], i - 1)
    OBVIOUS
  <2> HIDE DEF E
  <2>3. 0 \in 0 .. n
    OBVIOUS
  <2> QED
    BY <2>1, <2>2, <2>3
<1> HIDE DEF E
<1>10. \A i \in 0 .. n : kept[i] \in G[i]
  <2> DEFINE S == {i \in 0 .. n : kept[i] \in G[i]}
  <2>1. 0 \in S
    BY <1>2, <1>9
  <2>2. ASSUME NEW i \in 0 .. n, i # n, i \in S PROVE i + 1 \in S
    <3>1. i + 1 \in 0 .. n /\ i + 1 # 0 /\ (i + 1) - 1 = i
      BY <2>2
    <3>2. kept[i + 1] = UpdateVirtual(kept[i], i)
      BY <1>9, <3>1
    <3> QED
      BY <1>3, <2>2, <3>1, <3>2
  <2> HIDE DEF S
  <2>3. \A i \in 0 .. n : i \in S
    <3>1. 0 \in Nat /\ \A i \in 0 .. n : i # n /\ i \in S => i + 1 \in S
      BY <2>2
    <3> QED
      BY ONLY <2>1, <3>1, Upwards, n \in Nat
  <2> QED
    BY <2>3 DEF S
<1> QED
  BY <1>1, <1>10 DEF Fine

\* The first n physical monitors are as they were.
FirstNodes(r, s, n) == \A i \in 0 .. n - 1 : r.pmons[i + 1] = s.pmons[i + 1]

\* The last physical monitor goes: its clients are on the first half of the
\* one before it.
LEMMA LastRemoved ==
  ASSUME NEW n \in Nat, NEW s, Rounds(s, n, n + 1), Len(s.pmons) = n + 1, n # 0,
         s.pmons[n + 1].mon1 = n,
         NEW r, r = [RemovePhysical(s, n) EXCEPT !.pmons = SubSeq(@, 1, n)]
  PROVE  Rounds(r, n, n) /\ SameHomes(r, s) /\ Len(r.pmons) = n /\ FirstNodes(r, s, n)
<1>1. /\ s \in Heads /\ n + 1 <= Most
      /\ \A i \in 0 .. n : Known(s, i)
      /\ \A i \in 0 .. n - 1 : Done(s, i)
      /\ ListsFirst(s, n + 1) /\ Occupied(s)
      /\ Most \in Nat /\ Indices = 0 .. Most - 1
      /\ n \in Indices /\ n - 1 \in Indices /\ n - 1 \in 0 .. n - 1
      /\ n \in 0 .. n /\ (n - 1) + 1 = n /\ n - 1 < n + 1 /\ n < n + 1
  <2>1. n + 1 - 1 = n
    OBVIOUS
  <2> QED
    BY <2>1, RoundsMean
<1>2. PICK to : to = n - 1
  OBVIOUS
<1>3. PICK second : second = Second + n
  OBVIOUS
<1>4. /\ n \in Nums /\ to \in Nums /\ second \in Nums /\ n # to /\ second # to /\ n # second
      /\ None # second /\ s.pmons[n].mon1 = to /\ s.pmons[n + 1].mon2 \in {second, None}
      /\ to \in ToSet(s.mons)
      /\ second \in ToSet(s.mons) <=> s.pmons[n + 1].mon2 = second
  <2>1. /\ n \in Nums /\ to \in Nums /\ second \in Nums /\ n # to /\ second # to /\ n # second
        /\ None # second
    BY <1>1, <1>2, <1>3, NumsApart
  <2>2. s.pmons[n].mon1 = to
    BY <1>1, <1>2 DEF Done
  <2>3. Known(s, n)
    BY <1>1
  <2>4. /\ to \in ToSet(s.mons)
        /\ second \in ToSet(s.mons) <=> s.pmons[n + 1].mon2 = second
    BY <1>1, <1>2, <1>3, <2>2 DEF ListsFirst
  <2> QED
    BY <1>3, <2>1, <2>2, <2>3, <2>4 DEF Known
<1>5. PICK a : a = IF s.pmons[n + 1].mon2 = None THEN s ELSE cleanupmon(Evict(s, second, to), second)
  OBVIOUS
<1>6. PICK b : b = cleanupmon(Evict(a, n, to), n)
  OBVIOUS
<1>7. r = [b EXCEPT !.pmons = SubSeq(@, 1, n)]
  BY <1>4, <1>5, <1>6 DEF RemovePhysical
<1>8. /\ a \in Heads /\ a.pmons = s.pmons /\ IsInjective(a.mons)
      /\ ToSet(a.mons) = ToSet(s.mons) \ {second}
      /\ \A i \in Indices : i \in a.enablesplit <=> i \in s.enablesplit
      /\ \A i \in Nums : i # second => a.geom[i] = s.geom[i]
      /\ Occupied(a) /\ SameHomes(a, s)
  <2>1. CASE s.pmons[n + 1].mon2 = None
    BY <1>1, <1>4, <1>5, <2>1 DEF ListsFirst, SameHomes
  <2>2. CASE s.pmons[n + 1].mon2 # None
    <3>1. /\ s \in Heads /\ IsInjective(s.mons) /\ Occupied(s) /\ second \in Nums /\ to \in Nums
          /\ to \in ToSet(s.mons) /\ second # to /\ a = cleanupmon(Evict(s, second, to), second)
      BY <1>1, <1>4, <1>5, <2>2 DEF ListsFirst
    <3>2. /\ a \in Heads /\ a.pmons = s.pmons /\ IsInjective(a.mons)
          /\ ToSet(a.mons) = ToSet(s.mons) \ {second} /\ a.enablesplit = s.enablesplit \ {second}
          /\ \A k \in Nums : k # second => a.geom[k] = s.geom[k]
          /\ Occupied(a) /\ SameHomes(a, s)
      BY ONLY <3>1, MergedEffect
    <3>3. \A i \in Indices : i # second
      BY <1>1, <1>3, NumsApart
    <3> QED
      BY <3>2, <3>3
  <2> QED
    BY <2>1, <2>2
<1>9. /\ b \in Heads /\ b.pmons = s.pmons /\ IsInjective(b.mons)
      /\ ToSet(b.mons) = (ToSet(s.mons) \ {second}) \ {n}
      /\ \A i \in Indices : i # n => (i \in b.enablesplit <=> i \in s.enablesplit)
      /\ \A i \in Nums : i # second /\ i # n => b.geom[i] = s.geom[i]
      /\ Occupied(b) /\ SameHomes(b, s)
  <2>1. /\ a \in Heads /\ IsInjective(a.mons) /\ Occupied(a) /\ n \in Nums /\ to \in Nums
        /\ to \in ToSet(a.mons) /\ n # to
    BY <1>4, <1>8
  <2>2. /\ b \in Heads /\ b.pmons = a.pmons /\ IsInjective(b.mons)
        /\ ToSet(b.mons) = ToSet(a.mons) \ {n} /\ b.enablesplit = a.enablesplit \ {n}
        /\ \A k \in Nums : k # n => b.geom[k] = a.geom[k]
        /\ Occupied(b) /\ SameHomes(b, a)
    BY ONLY <1>6, <2>1, MergedEffect
  <2> QED
    BY <1>8, <2>2 DEF SameHomes
<1>10. /\ r \in Heads /\ Len(r.pmons) = n
       /\ \A i \in 0 .. n - 1 : r.pmons[i + 1] = s.pmons[i + 1]
       /\ r.mons = b.mons /\ r.geom = b.geom /\ r.enablesplit = b.enablesplit
       /\ r.mon = b.mon /\ r.monindex = b.monindex /\ r.selmon = b.selmon
  <2>1. s.pmons \in Seq(Node) /\ Len(s.pmons) = n + 1
    BY <1>1 DEF Heads
  <2>2. PICK q : q = SubSeq(s.pmons, 1, n)
    OBVIOUS
  <2>3. q \in Seq(Node) /\ Len(q) = n /\ \A i \in 1 .. n : q[i] = s.pmons[i]
    BY <2>1, <2>2
  <2>4. \A i \in 0 .. n - 1 : i + 1 \in 1 .. n
    OBVIOUS
  <2>5. r = [b EXCEPT !.pmons = q]
    BY <1>7, <1>9, <2>2
  <2> QED
    BY <1>9, <2>3, <2>4, <2>5 DEF Heads
<1>11. ASSUME NEW i \in 0 .. n - 1 PROVE Done(r, i)
  <2>1. i \in Indices /\ i # n /\ Done(s, i)
    BY <1>1
  <2>2. i \in Nums /\ Second + i \in Nums /\ i # second /\ Second + i # n /\ Second + i # second
    BY <1>1, <1>3, <2>1, NumsApart
  <2>3. /\ r.pmons[i + 1] = s.pmons[i + 1]
        /\ i \in r.enablesplit <=> i \in s.enablesplit
        /\ r.geom[i] = s.geom[i] /\ r.geom[Second + i] = s.geom[Second + i]
    BY <1>9, <1>10, <2>1, <2>2
  <2> QED
    BY ONLY <2>1, <2>3, DoneSame
<1>12. \A i \in 0 .. n - 1 : Known(r, i)
  <2>1. \A i \in 0 .. n - 1 : i \in 0 .. n /\ Known(s, i)
    BY <1>1
  <2> QED
    BY <1>10, <2>1 DEF Known
<1>13. ListsFirst(r, n)
  <2>1. ASSUME NEW i \in Indices
        PROVE  /\ i \in ToSet(r.mons) <=> i < n /\ r.pmons[i + 1].mon1 = i
               /\ Second + i \in ToSet(r.mons) <=> i < n /\ r.pmons[i + 1].mon2 = Second + i
    <3>1. /\ i # second /\ Second + i # n /\ (Second + i = second <=> i = n)
      BY <1>1, <1>3, NumsApart
    <3>2. /\ i \in ToSet(r.mons) <=> i \in ToSet(s.mons) /\ i # n
          /\ Second + i \in ToSet(r.mons) <=> Second + i \in ToSet(s.mons) /\ i # n
      BY <1>9, <1>10, <3>1
    <3>3. i < n + 1 /\ i # n <=> i < n
      BY <1>1
    <3>4. /\ i \in ToSet(s.mons) <=> i < n + 1 /\ s.pmons[i + 1].mon1 = i
          /\ Second + i \in ToSet(s.mons) <=> i < n + 1 /\ s.pmons[i + 1].mon2 = Second + i
      BY <1>1 DEF ListsFirst
    <3>5. i < n => r.pmons[i + 1] = s.pmons[i + 1]
      <4>1. i < n => i \in 0 .. n - 1
        BY <1>1
      <4> QED
        BY <1>10, <4>1
    <3> QED
      BY <3>2, <3>3, <3>4, <3>5
  <2> QED
    BY <1>9, <1>10, <2>1 DEF ListsFirst
<1>14. Occupied(r) /\ SameHomes(r, s)
  BY <1>9, <1>10 DEF Occupied, SameHomes, HomeIn
<1>15. Rounds(r, n, n)
  <2>1. n <= Len(r.pmons) /\ Len(r.pmons) <= Most
    BY <1>1, <1>10
  <2>2. \A i \in 0 .. Len(r.pmons) - 1 : Known(r, i)
    BY <1>10, <1>12
  <2> QED
    BY ONLY <1>10, <1>11, <1>13, <1>14, <2>1, <2>2 DEF Rounds
<1> QED
  BY <1>10, <1>14, <1>15 DEF FirstNodes

\* updatevirtualmonitors with all the physical monitors, or all but the last.
LEMMA VirtualMade ==
  ASSUME NEW s, NEW l \in Nat, Rounds(s, 0, l), Len(s.pmons) = l, NEW n \in Nat, n # 0,
         n = l \/ (n + 1 = l /\ s.pmons[n + 1].mon1 = n)
  PROVE  LET r == updatevirtualmonitors(s, n)
         IN  /\ Rounds(r, n, n) /\ SameHomes(r, s) /\ Len(r.pmons) = n
             /\ \A i \in 0 .. n - 1 : r.pmons[i + 1].geom = s.pmons[i + 1].geom
<1> DEFINE Ek(g) == [k \in 0 .. n |-> IF k = 0 THEN s ELSE UpdateVirtual(g[k - 1], k - 1)]
           kept == CHOOSE g : g = Ek(g)
           El(g) == [k \in n .. l |-> IF k = n THEN kept[n] ELSE RemovePhysical(g[k - 1], k - 1)]
           left == CHOOSE g : g = El(g)
<1>1. updatevirtualmonitors(s, n) = [left[l] EXCEPT !.pmons = SubSeq(@, 1, n)]
  BY DEF updatevirtualmonitors
<1>2. n <= l
  OBVIOUS
<1>3. Rounds(kept[n], n, l) /\ SameHomes(kept[n], s) /\ SameNodes(kept[n], s)
  <2>1. PICK f : f = kept
    OBVIOUS
  <2>2. f = CHOOSE g : g = [k \in 0 .. n |-> IF k = 0 THEN s ELSE UpdateVirtual(g[k - 1], k - 1)]
    BY <2>1
  <2>3. n \in 0 .. n
    OBVIOUS
  <2>4. \A k \in 0 .. n : Rounds(f[k], k, l) /\ SameHomes(f[k], s) /\ SameNodes(f[k], s)
    BY ONLY <1>2, <2>2, LoopMade, n \in Nat, l \in Nat, Rounds(s, 0, l)
  <2> QED
    BY ONLY <2>1, <2>3, <2>4
<1> HIDE DEF kept
<1>4. PICK t : t = kept[n]
  OBVIOUS
<1>5. Len(t.pmons) = l /\ \A i \in 0 .. l - 1 : t.pmons[i + 1].geom = s.pmons[i + 1].geom
  BY <1>3, <1>4 DEF SameNodes
<1>6. left = El(left)
  <2> DEFINE g == [k \in n .. l |-> IF k = n THEN t ELSE RemovePhysical(t, n)]
  <2>1. \A k \in n .. l : k = n \/ (k # n /\ k - 1 = n)
    OBVIOUS
  <2>2. n \in n .. l
    OBVIOUS
  <2>3. g = El(g)
    <3>1. g[n] = t
      BY <2>2
    <3>2. ASSUME NEW k \in n .. l PROVE g[k] = El(g)[k]
      <4>1. CASE k = n
        BY <1>4, <4>1
      <4>2. CASE k # n
        <5>1. k - 1 = n
          BY <2>1, <4>2
        <5>2. g[k] = RemovePhysical(t, n)
          BY <4>2
        <5> HIDE DEF g
        <5>3. El(g)[k] = RemovePhysical(g[k - 1], k - 1)
          BY <4>2
        <5> QED
          BY <3>1, <5>1, <5>2, <5>3
      <4> QED
        BY <4>1, <4>2
    <3>3. g = [k \in n .. l |-> g[k]]
      OBVIOUS
    <3>4. El(g) = [k \in n .. l |-> El(g)[k]]
      OBVIOUS
    <3> HIDE DEF g, El
    <3> QED
      BY <3>2, <3>3, <3>4
  <2> HIDE DEF g, El
  <2> QED
    BY <2>3 DEF left
<1>7. \A k \in n .. l : left[k] = IF k = n THEN t ELSE RemovePhysical(left[k - 1], k - 1)
  <2> HIDE DEF left, El
  <2>1. \A k \in n .. l : left[k] = El(left)[k]
    BY <1>6
  <2> USE DEF El
  <2>2. \A k \in n .. l : El(left)[k] = IF k = n THEN kept[n] ELSE RemovePhysical(left[k - 1], k - 1)
    OBVIOUS
  <2> HIDE DEF El
  <2> QED
    BY <1>4, <2>1, <2>2
<1> HIDE DEF left, El, Ek
<1>8. PICK r : r = [left[l] EXCEPT !.pmons = SubSeq(@, 1, n)]
  OBVIOUS
<1>9. CASE n = l
  <2>1. left[l] = t
    <3>1. l \in n .. l
      BY <1>9
    <3> QED
      BY <1>7, <1>9, <3>1
  <2>2. t \in Heads
    BY <1>3, <1>4 DEF Rounds
  <2>3. SubSeq(t.pmons, 1, n) = t.pmons
    <3>1. t.pmons \in Seq(Node) /\ Len(t.pmons) = n
      BY <1>5, <1>9, <2>2 DEF Heads
    <3>2. PICK q : q = t.pmons
      OBVIOUS
    <3>3. q \in Seq(Node) /\ Len(q) = n
      BY <3>1, <3>2
    <3>4. SubSeq(q, 1, n) = q
      BY ONLY <3>3
    <3> QED
      BY <3>2, <3>4
  <2>4. r = t
    BY <1>8, <2>1, <2>2, <2>3 DEF Heads
  <2> QED
    BY <1>1, <1>3, <1>4, <1>5, <1>8, <1>9, <2>4
<1>10. CASE n # l
  <2>1. n + 1 = l /\ s.pmons[n + 1].mon1 = n
    BY <1>10
  <2>2. left[l] = RemovePhysical(t, n)
    <3>1. l \in n .. l /\ n \in n .. l /\ l - 1 = n /\ l # n
      BY <2>1
    <3>2. left[n] = t
      BY <1>7, <3>1
    <3>3. left[l] = RemovePhysical(left[l - 1], l - 1)
      BY <1>7, <3>1
    <3> QED
      BY <3>1, <3>2, <3>3
  <2>3. t.pmons[n + 1].mon1 = n
    <3>1. n \in 0 .. Len(s.pmons) - 1
      BY <2>1
    <3> QED
      BY <1>3, <1>4, <2>1, <3>1 DEF SameNodes
  <2>4. /\ Rounds(t, n, n + 1) /\ Len(t.pmons) = n + 1
        /\ r = [RemovePhysical(t, n) EXCEPT !.pmons = SubSeq(@, 1, n)]
    BY <1>3, <1>4, <1>5, <1>8, <2>1, <2>2
  <2>5. /\ Rounds(r, n, n) /\ SameHomes(r, t) /\ Len(r.pmons) = n
        /\ \A i \in 0 .. n - 1 : r.pmons[i + 1] = t.pmons[i + 1]
    <3>1. /\ n \in Nat /\ Rounds(t, n, n + 1) /\ Len(t.pmons) = n + 1 /\ n # 0
          /\ t.pmons[n + 1].mon1 = n
          /\ r = [RemovePhysical(t, n) EXCEPT !.pmons = SubSeq(@, 1, n)]
      BY <2>3, <2>4
    <3>2. Rounds(r, n, n) /\ SameHomes(r, t) /\ Len(r.pmons) = n /\ FirstNodes(r, t, n)
      BY ONLY <3>1, LastRemoved
    <3> QED
      BY <3>2 DEF FirstNodes
  <2>6. SameHomes(r, s)
    BY <1>3, <1>4, <2>5 DEF SameHomes
  <2>7. \A i \in 0 .. n - 1 : r.pmons[i + 1].geom = s.pmons[i + 1].geom
    <3>1. \A i \in 0 .. n - 1 : i \in 0 .. l - 1
      BY <2>1
    <3> QED
      BY <1>5, <2>5, <3>1
  <2> QED
    BY <1>1, <1>8, <2>5, <2>6, <2>7
<1> QED
  BY <1>9, <1>10

\* The screens take the places of the physical monitors in their order.
LEMMA PhysicalMade ==
  ASSUME NEW s, NEW l \in Nat, Rounds(s, l, l), Len(s.pmons) = l,
         NEW q \in Seq(Rect), Len(q) \in 1 .. Most, l <= Len(q) + 1
  PROVE  LET r == Physical(s, q)
             m == Len(r.pmons)
         IN  /\ Rounds(r, 0, m) /\ SameHomes(r, s)
             /\ m \in Nat
             /\ m = Len(q) \/ (Len(q) + 1 = m /\ r.pmons[Len(q) + 1].mon1 = Len(q))
             /\ \A i \in 1 .. Len(q) : r.pmons[i].geom = q[i]
<1>1. PICK n : n = Len(q)
  OBVIOUS
<1>2. PICK p : p = s.pmons
  OBVIOUS
<1>3. /\ s \in Heads /\ l <= Most /\ p \in Seq(Node) /\ Len(p) = l
      /\ \A i \in 0 .. l - 1 : Done(s, i)
      /\ ListsFirst(s, l) /\ Occupied(s)
      /\ Most \in Nat /\ Indices = 0 .. Most - 1
      /\ n \in Nat /\ n # 0 /\ n <= Most /\ l <= n + 1
      /\ \A i \in 1 .. n : q[i] \in Rect
  <2>1. n \in Nat /\ \A i \in 1 .. n : q[i] \in Rect
    BY <1>1, LenProperties, ElementOfSeq
  <2>2. s.pmons \in Seq(Node)
    BY DEF Rounds, Heads
  <2> QED
    BY <1>1, <1>2, <2>1, <2>2, RoundsMean
<1>4. \A i \in 1 .. l : p[i] \in Node
  BY <1>3, ElementOfSeq
<1> DEFINE both == IF l < n THEN l ELSE n
           A == [i \in 1 .. both |-> [p[i] EXCEPT !.geom = q[i]]]
           C == [i \in 1 .. (n - both) |-> NewNode(q[both + i])]
           m == IF l < n THEN n ELSE l
<1>5. /\ both \in Nat /\ both <= l /\ both <= n /\ n - both \in Nat /\ m \in Nat
      /\ both = l \/ (both = n /\ m = l)
      /\ \A i \in Nat : i < l /\ i < n => i + 1 <= both
  BY <1>3
<1>6. A \in Seq(Node) /\ Len(A) = both
      /\ \A i \in 1 .. both : A[i] = [p[i] EXCEPT !.geom = q[i]]
  <2> HIDE DEF both
  <2>1. \A i \in 1 .. both : [p[i] EXCEPT !.geom = q[i]] \in Node
    <3>1. \A i \in 1 .. both : i \in 1 .. l /\ i \in 1 .. n
      BY <1>3, <1>5
    <3>2. \A i \in 1 .. both : p[i] \in Node /\ q[i] \in Rect
      BY <1>3, <1>4, <3>1
    <3> QED
      BY <3>2 DEF Node
  <2>2. A \in [1 .. both -> Node]
    BY <2>1
  <2> QED
    BY <1>5, <2>2
<1>7. C \in Seq(Node) /\ Len(C) = n - both
      /\ \A i \in 1 .. n - both : C[i] = NewNode(q[both + i])
  <2> HIDE DEF both
  <2>1. \A i \in 1 .. n - both : both + i \in 1 .. n
    BY <1>5, <1>3
  <2>2. \A i \in 1 .. n - both : NewNode(q[both + i]) \in Node
    BY <1>3, <2>1 DEF NewNode, Node
  <2>3. C \in [1 .. n - both -> Node] /\ \A i \in 1 .. n - both : C[i] = NewNode(q[both + i])
    BY <2>2
  <2> HIDE DEF C
  <2>4. PICK d \in Nat : d = n - both
    BY <1>5
  <2>5. C \in Seq(Node) /\ Len(C) = d
    <3>1. C \in [1 .. d -> Node]
      BY <2>3, <2>4
    <3> QED
      BY <3>1
  <2> QED
    BY <2>3, <2>4, <2>5
<1>8. PICK v : v = A \o SubSeq(p, both + 1, l) \o C
  OBVIOUS
<1>9. PICK r : r = [s EXCEPT !.pmons = v]
  OBVIOUS
<1>10. Physical(s, q) = r
  BY <1>1, <1>2, <1>8, <1>9 DEF Physical
<1> HIDE DEF A, C
<1>11. /\ v \in Seq(Node) /\ Len(v) = m
       /\ \A i \in 1 .. m : v[i] = CASE i <= both -> [p[i] EXCEPT !.geom = q[i]]
                                     [] i > both /\ i > l -> NewNode(q[i])
                                     [] OTHER -> p[i]
  <2>0. PICK B : B = SubSeq(p, both + 1, l)
    OBVIOUS
  <2>1. B \in Seq(Node) /\ Len(B) = l - both /\ \A i \in 1 .. l - both : B[i] = p[both + i]
    BY <1>3, <1>5, <2>0
  <2>5. l + (n - both) = m
    BY <1>3
  <2> HIDE DEF both, m
  <2>2. PICK w : w = A \o B
    OBVIOUS
  <2>3. /\ w \in Seq(Node) /\ Len(w) = l
        /\ \A i \in 1 .. l : w[i] = IF i <= both THEN A[i] ELSE B[i - both]
    <3>1. /\ w \in Seq(Node) /\ Len(w) = Len(A) + Len(B)
          /\ \A i \in 1 .. Len(A) + Len(B) : w[i] = IF i <= Len(A) THEN A[i] ELSE B[i - Len(A)]
      <4>1. A \in Seq(Node) /\ B \in Seq(Node) /\ w = A \o B
        BY <1>6, <2>1, <2>2
      <4> QED
        BY ONLY <4>1, ConcatProperties
    <3>2. Len(A) = both /\ Len(A) + Len(B) = l
      BY <1>3, <1>5, <1>6, <2>1
    <3> QED
      BY <3>1, <3>2
  <2>4. v = w \o C
    BY <1>8, <2>0, <2>2
  <2>6. /\ v \in Seq(Node) /\ Len(v) = m
        /\ \A i \in 1 .. m : v[i] = IF i <= l THEN w[i] ELSE C[i - l]
    <3>1. /\ v \in Seq(Node) /\ Len(v) = Len(w) + Len(C)
          /\ \A i \in 1 .. Len(w) + Len(C) : v[i] = IF i <= Len(w) THEN w[i] ELSE C[i - Len(w)]
      BY ONLY <1>7, <2>3, <2>4, ConcatProperties
    <3>2. Len(w) = l /\ Len(w) + Len(C) = m
      BY <1>7, <2>3, <2>5
    <3> QED
      BY <3>1, <3>2
  <2>7. ASSUME NEW i \in 1 .. m
        PROVE  v[i] = CASE i <= both -> [p[i] EXCEPT !.geom = q[i]]
                        [] i > both /\ i > l -> NewNode(q[i])
                        [] OTHER -> p[i]
    <3>1. CASE i <= both
      <4>1. i \in 1 .. l /\ i <= l /\ i \in 1 .. both
        BY <1>5, <3>1
      <4> QED
        BY <1>6, <2>3, <2>6, <3>1, <4>1
    <3>2. CASE ~(i <= both) /\ i <= l
      <4>1. i \in 1 .. l /\ i - both \in 1 .. l - both /\ both + (i - both) = i /\ ~(i > l)
        BY <1>3, <1>5, <3>2
      <4>2. v[i] = p[i]
        BY <2>1, <2>3, <2>6, <3>2, <4>1
      <4> QED
        BY <3>2, <4>1, <4>2
    <3>3. CASE ~(i <= l)
      <4>1. both = l /\ i - l \in 1 .. n - both /\ l + (i - l) = i /\ i > both /\ i > l
        BY <1>3, <1>5, <2>5, <3>3
      <4>2. v[i] = NewNode(q[i])
        BY <1>7, <2>6, <3>3, <4>1
      <4> QED
        BY <4>1, <4>2
    <3> QED
      BY <1>5, <3>1, <3>2, <3>3
  <2> QED
    BY <2>6, <2>7
<1>12. /\ r \in Heads /\ r.pmons = v
       /\ r.mons = s.mons /\ r.geom = s.geom /\ r.enablesplit = s.enablesplit
       /\ r.mon = s.mon /\ r.monindex = s.monindex /\ r.selmon = s.selmon
  BY <1>3, <1>9, <1>11 DEF Heads
\* A place that was there keeps its monitors, a new one has none.
<1>13. ASSUME NEW i \in 0 .. m - 1
       PROVE  /\ i < l => v[i + 1].mon1 = p[i + 1].mon1 /\ v[i + 1].mon2 = p[i + 1].mon2
              /\ ~(i < l) => v[i + 1].mon1 = None /\ v[i + 1].mon2 = None
              /\ i < n => v[i + 1].geom = q[i + 1]
  <2>1. i + 1 \in 1 .. m /\ i \in Nat
    BY <1>5
  <2>2. CASE i + 1 <= both
    <3>1. i < l /\ i + 1 \in 1 .. l
      <4>1. both \in Nat /\ both <= l
        BY <1>5
      <4> HIDE DEF both, m
      <4> QED
        BY <2>1, <2>2, <4>1
    <3>2. v[i + 1] = [p[i + 1] EXCEPT !.geom = q[i + 1]] /\ p[i + 1] \in Node
      BY <1>4, <1>11, <2>1, <2>2, <3>1
    <3> QED
      BY <3>1, <3>2 DEF Node
  <2>3. CASE ~(i + 1 <= both) /\ i < l
    <3>1. ~(i + 1 > l) /\ ~(i < n)
      BY <1>3, <2>3
    <3>2. v[i + 1] = p[i + 1]
      BY <1>11, <2>1, <2>3, <3>1
    <3> QED
      BY <2>3, <3>1, <3>2
  <2>4. CASE ~(i < l)
    <3>1. i + 1 > both /\ i + 1 > l /\ ~(i + 1 <= both)
      BY <1>3, <1>5, <2>4
    <3>2. v[i + 1] = NewNode(q[i + 1])
      BY <1>11, <2>1, <3>1
    <3> QED
      BY <2>4, <3>2 DEF NewNode
  <2> QED
    BY <2>2, <2>3, <2>4
<1>14. \A i \in 0 .. l - 1 : /\ p[i + 1].mon1 = i
                             /\ p[i + 1].mon2 \in {Second + i, None}
  BY <1>2, <1>3 DEF Done
<1>15. m <= Most /\ l <= m /\ n <= m /\ (m = n \/ (n + 1 = m /\ m = l))
  BY <1>3
<1> HIDE DEF both, m
<1>16. \A i \in 0 .. m - 1 : Known(r, i)
  <2> SUFFICES ASSUME NEW i \in 0 .. m - 1 PROVE Known(r, i)
    OBVIOUS
  <2>1. i \in Indices
    BY <1>3, <1>5, <1>15
  <2>2. i # None
    BY <2>1, NumsApart
  <2>3. CASE i < l
    <3>1. i \in 0 .. l - 1
      BY <2>3
    <3> QED
      BY <1>12, <1>13, <1>14, <2>2, <2>3, <3>1 DEF Known
  <2>4. CASE ~(i < l)
    BY <1>12, <1>13, <2>4 DEF Known
  <2> QED
    BY <2>3, <2>4
<1>17. ListsFirst(r, m)
  <2>1. ASSUME NEW i \in Indices
        PROVE  /\ i \in ToSet(r.mons) <=> i < m /\ r.pmons[i + 1].mon1 = i
               /\ Second + i \in ToSet(r.mons) <=> i < m /\ r.pmons[i + 1].mon2 = Second + i
    <3>1. i # None /\ Second + i # None /\ i \in Nat
      BY NumsApart
    <3>2. /\ i \in ToSet(s.mons) <=> i < l /\ p[i + 1].mon1 = i
          /\ Second + i \in ToSet(s.mons) <=> i < l /\ p[i + 1].mon2 = Second + i
      BY <1>2, <1>3 DEF ListsFirst
    <3>3. i < l => i < m
      BY <1>5, <1>15, <3>1
    <3>4. i < m => i \in 0 .. m - 1
      BY <1>5, <3>1
    <3> QED
      BY <1>12, <1>13, <3>1, <3>2, <3>3, <3>4
  <2> QED
    BY <1>3, <1>12, <2>1 DEF ListsFirst
<1>18. Occupied(r) /\ SameHomes(r, s)
  BY <1>3, <1>12 DEF Occupied, SameHomes, HomeIn
<1>19. Len(r.pmons) = m
  BY <1>11, <1>12
<1>20. Rounds(r, 0, m)
  <2>1. m <= m /\ \A i \in 0 .. 0 - 1 : FALSE
    BY <1>5
  <2> QED
    BY <1>12, <1>15, <1>16, <1>17, <1>18, <1>19, <2>1 DEF Rounds
<1>21. \A i \in 1 .. n : r.pmons[i].geom = q[i]
  <2> SUFFICES ASSUME NEW i \in 1 .. n PROVE r.pmons[i].geom = q[i]
    OBVIOUS
  <2>1. i - 1 \in 0 .. m - 1 /\ i - 1 < n /\ (i - 1) + 1 = i
    BY <1>3, <1>5, <1>15
  <2> QED
    BY <1>12, <1>13, <2>1
<1>22. n + 1 = m => r.pmons[n + 1].mon1 = n
  <2>1. n + 1 = m => n \in 0 .. m - 1 /\ n < l /\ n \in 0 .. l - 1
    BY <1>3, <1>5, <1>15
  <2> QED
    BY <1>12, <1>13, <1>14, <2>1
<1> QED
  BY <1>1, <1>5, <1>10, <1>15, <1>18, <1>19, <1>20, <1>21, <1>22
-----------------------------------------------------------------------------
(* updategeom.                                                             *)

\* Every client whose wish is in the list is where it wants to be.
WantedIn(s) ==
    \A c \in Clients : s.mon[c] # None /\ s.monindex[c] \in ToSet(s.mons) => s.mon[c] = s.monindex[c]

\* Between two handlers: every physical monitor is done.
Settled(s) ==
    /\ Rounds(s, Len(s.pmons), Len(s.pmons)) /\ Len(s.pmons) \in Nat /\ Len(s.pmons) # 0
    /\ s.selmon # None /\ WantedIn(s)

\* The physical monitors have the geometry of the screens q.
FollowsIn(s, q) == Len(s.pmons) = Len(q) /\ \A i \in 1 .. Len(q) : s.pmons[i].geom = q[i]

\* Where the clients belong, and which are managed.
SameClients(r, s) ==
    \A c \in Clients : (r.mon[c] = None <=> s.mon[c] = None) /\ HomeIn(r, c) = HomeIn(s, c)

\* Contains is membership.
LEMMA ContainsMeans ==
  ASSUME NEW S, NEW q \in Seq(S), NEW x
  PROVE  Contains(q, x) <=> x \in ToSet(q)
<1>1. DOMAIN q = 1 .. Len(q)
  BY LenProperties
<1> QED
  BY <1>1 DEF Contains, ToSet

\* A client goes to the monitor it wants.
LEMMA ClientsUpdated ==
  ASSUME NEW n \in Nat, NEW t, Rounds(t, n, n), Len(t.pmons) = n,
         NEW u, u = updateclientmonitors(t)
  PROVE  /\ Rounds(u, n, n) /\ SameHomes(u, t) /\ WantedIn(u)
         /\ u.pmons = t.pmons /\ u.mons = t.mons /\ u.selmon = t.selmon
<1>1. /\ t \in Heads /\ t.mons \in Seq(Nums) /\ ToSet(t.mons) \subseteq Nums
      /\ \A i \in 0 .. n - 1 : Known(t, i)
      /\ \A i \in 0 .. n - 1 : Done(t, i)
      /\ ListsFirst(t, n) /\ Occupied(t) /\ n <= Most
  BY DEF Rounds, Heads, ToSet
<1>2. \A x : Contains(t.mons, x) <=> x \in ToSet(t.mons)
  BY <1>1, ContainsMeans
<1> DEFINE m == [c \in Clients |->
                  IF t.mon[c] # None /\ t.monindex[c] \in ToSet(t.mons) THEN t.monindex[c] ELSE t.mon[c]]
<1>3. u = [t EXCEPT !.mon = m]
  <2>1. t.mon \in [Clients -> Nums \cup {None}]
    BY <1>1 DEF Heads
  <2> QED
    BY <1>2 DEF updateclientmonitors
<1>4. m \in [Clients -> Nums \cup {None}]
  BY <1>1 DEF Heads
<1>5. \A c \in Clients :
         m[c] = IF t.mon[c] # None /\ t.monindex[c] \in ToSet(t.mons) THEN t.monindex[c] ELSE t.mon[c]
  OBVIOUS
<1> HIDE DEF m
<1>6. /\ u \in Heads /\ u.mon = m /\ u.pmons = t.pmons /\ u.mons = t.mons /\ u.selmon = t.selmon
      /\ u.monindex = t.monindex /\ u.enablesplit = t.enablesplit /\ u.geom = t.geom
  BY <1>1, <1>3, <1>4 DEF Heads
<1>7. None \notin ToSet(t.mons) /\ -1 \notin ToSet(t.mons)
  BY <1>1, NumsApart
<1>8. SameHomes(u, t) /\ WantedIn(u)
  BY <1>5, <1>6, <1>7 DEF SameHomes, HomeIn, WantedIn
<1>9. Occupied(u)
  BY <1>1, <1>5, <1>6 DEF Occupied
<1>10. ListsFirst(u, n) /\ (\A i \in 0 .. n - 1 : Known(u, i)) /\ \A i \in 0 .. n - 1 : Done(u, i)
  BY <1>1, <1>6 DEF ListsFirst, Known, Done, Splits
<1> QED
  BY <1>1, <1>6, <1>8, <1>9, <1>10 DEF Rounds

\* What updategeom leaves, but for the selection.
LEMMA GeomUpdated ==
  ASSUME NEW s, NEW l \in Nat, Rounds(s, l, l), Len(s.pmons) = l,
         screens \in Setups, l <= Len(Unique(screens)) + 1, NEW p, NEW r, r = updategeom(s, p)
  PROVE  \E u : /\ Rounds(u, Len(u.pmons), Len(u.pmons)) /\ FollowsIn(u, Unique(screens))
                /\ SameHomes(u, s) /\ WantedIn(u)
                /\ r = u \/ r = [u EXCEPT !.selmon = p]
<1>1. PICK q : q = Unique(screens)
  OBVIOUS
<1>2. q \in Seq(Rect) /\ Len(q) \in 1 .. Most
  BY <1>1, ScreensCount
<1>3. PICK n : n = Len(q)
  OBVIOUS
<1>4. n \in Nat /\ n # 0
  <2>1. Most \in Nat
    BY NumsApart
  <2> QED
    BY <1>2, <1>3, <2>1
<1>5. PICK a : a = Physical(s, q)
  OBVIOUS
<1>6. PICK m : m = Len(a.pmons)
  OBVIOUS
<1>7. /\ Rounds(a, 0, m) /\ SameHomes(a, s) /\ m \in Nat
      /\ m = n \/ (n + 1 = m /\ a.pmons[n + 1].mon1 = n)
      /\ \A i \in 1 .. n : a.pmons[i].geom = q[i]
  <2>1. l \in Nat /\ Rounds(s, l, l) /\ Len(s.pmons) = l /\ l <= Len(q) + 1
    BY <1>1
  <2> QED
    BY ONLY <1>2, <1>3, <1>5, <1>6, <2>1, PhysicalMade
<1>8. PICK t : t = updatevirtualmonitors(a, n)
  OBVIOUS
<1>9. /\ Rounds(t, n, n) /\ SameHomes(t, a) /\ Len(t.pmons) = n
      /\ \A i \in 0 .. n - 1 : t.pmons[i + 1].geom = a.pmons[i + 1].geom
  <2>1. m = Len(a.pmons) /\ (n = m \/ (n + 1 = m /\ a.pmons[n + 1].mon1 = n))
    BY <1>6, <1>7
  <2> QED
    BY ONLY <1>4, <1>7, <1>8, <2>1, VirtualMade
<1>10. PICK u : u = updateclientmonitors(t)
  OBVIOUS
<1>11. /\ Rounds(u, n, n) /\ SameHomes(u, t) /\ WantedIn(u)
       /\ u.pmons = t.pmons /\ u.mons = t.mons /\ u.selmon = t.selmon
  BY ONLY <1>4, <1>9, <1>10, ClientsUpdated
<1>12. FollowsIn(u, q)
  <2>1. \A i \in 1 .. n : i - 1 \in 0 .. n - 1 /\ (i - 1) + 1 = i
    BY <1>4
  <2>2. \A i \in 1 .. n : u.pmons[i].geom = q[i]
    BY <1>7, <1>9, <1>11, <2>1
  <2> QED
    BY <1>3, <1>9, <1>11, <2>2 DEF FollowsIn
<1>13. SameHomes(u, s)
  BY <1>7, <1>9, <1>11 DEF SameHomes
<1>14. r = u \/ r = [u EXCEPT !.selmon = p]
  BY <1>1, <1>3, <1>5, <1>8, <1>10 DEF updategeom
<1>15. Len(u.pmons) = n
  BY <1>9, <1>11
<1> QED
  BY <1>1, <1>11, <1>12, <1>13, <1>14, <1>15

\* And with a selected monitor, the pointer's or the one there was.
LEMMA GeomSettled ==
  ASSUME NEW s, NEW l \in Nat, Rounds(s, l, l), Len(s.pmons) = l,
         screens \in Setups, l <= Len(Unique(screens)) + 1,
         NEW p \in Nums, NEW r, r = updategeom(s, p),
         Contains(r.mons, p), s.selmon # None \/ r.selmon = p
  PROVE  Settled(r) /\ FollowsIn(r, Unique(screens)) /\ SameClients(r, s) /\ r \in Heads
<1>1. PICK u : /\ Rounds(u, Len(u.pmons), Len(u.pmons)) /\ FollowsIn(u, Unique(screens))
               /\ SameHomes(u, s) /\ WantedIn(u)
               /\ r = u \/ r = [u EXCEPT !.selmon = p]
  BY GeomUpdated
<1>2. PICK n : n = Len(u.pmons)
  OBVIOUS
<1>3. /\ u \in Heads /\ u.mons \in Seq(Nums) /\ n <= Most
      /\ \A i \in 0 .. n - 1 : Known(u, i)
      /\ \A i \in 0 .. n - 1 : Done(u, i)
      /\ ListsFirst(u, n) /\ Occupied(u) /\ Rounds(u, n, n)
  BY <1>1, <1>2 DEF Rounds, Heads
<1>4. n \in Nat /\ n # 0
  <2>1. n = Len(Unique(screens)) /\ Len(Unique(screens)) \in 1 .. Most /\ Most \in Nat
    BY <1>1, <1>2, ScreensCount, NumsApart DEF FollowsIn
  <2> QED
    BY <2>1
<1>5. /\ r \in Heads /\ r.mon = u.mon /\ r.pmons = u.pmons /\ r.mons = u.mons
      /\ r.monindex = u.monindex /\ r.enablesplit = u.enablesplit /\ r.geom = u.geom
      /\ r.selmon = u.selmon \/ r.selmon = p
  BY <1>1, <1>3 DEF Heads
<1>6. p \in ToSet(r.mons) /\ p # None
  <2>1. r.mons \in Seq(Nums)
    BY <1>3, <1>5
  <2> QED
    BY <2>1, ContainsMeans, NumsApart
<1>7. r.selmon # None
  BY <1>1, <1>5, <1>6 DEF SameHomes
<1>8. Rounds(r, n, n)
  <2>1. ListsFirst(r, n) /\ (\A i \in 0 .. n - 1 : Known(r, i)) /\ \A i \in 0 .. n - 1 : Done(r, i)
    BY <1>3, <1>5 DEF ListsFirst, Known, Done, Splits
  <2>2. Occupied(r)
    BY <1>3, <1>5, <1>6 DEF Occupied
  <2> QED
    BY <1>2, <1>3, <1>4, <1>5, <2>1, <2>2 DEF Rounds
<1>9. WantedIn(r) /\ FollowsIn(r, Unique(screens)) /\ SameClients(r, s)
  BY <1>1, <1>5 DEF WantedIn, FollowsIn, SameClients, SameHomes, HomeIn
<1> QED
  BY <1>2, <1>4, <1>5, <1>7, <1>8, <1>9 DEF Settled

\* Before setup there is nothing.
LEMMA NothingYet ==
  /\ Rounds(NoMonitors, 0, 0) /\ Len(NoMonitors.pmons) = 0 /\ NoMonitors.selmon = None
  /\ \A c \in Clients : NoMonitors.mon[c] = None /\ NoMonitors.monindex[c] = -1
<1>1. NoRect \in Rect
  BY DEF NoRect, Rect
<1>2. NoMonitors \in Heads
  BY <1>1 DEF NoMonitors, Heads
<1>3. Len(NoMonitors.pmons) = 0 /\ NoMonitors.selmon = None
      /\ \A c \in Clients : NoMonitors.mon[c] = None /\ NoMonitors.monindex[c] = -1
  BY DEF NoMonitors
<1>4. ToSet(NoMonitors.mons) = {} /\ IsInjective(NoMonitors.mons)
  BY DEF NoMonitors, ToSet, IsInjective
<1>5. ListsFirst(NoMonitors, 0) /\ Occupied(NoMonitors)
  <2>1. \A i \in Indices : ~(i < 0)
    BY NumsApart
  <2> QED
    BY <1>3, <1>4, <2>1 DEF ListsFirst, Occupied
<1>6. 0 <= 0 /\ 0 <= Most /\ \A i \in 0 .. 0 - 1 : FALSE
  BY NumsApart
<1> QED
  BY <1>2, <1>3, <1>5, <1>6 DEF Rounds

\* Clients and the selection may move, to monitors of the list.
LEMMA SameMonitors ==
  ASSUME NEW s, Settled(s), NEW r \in Heads, r.pmons = s.pmons, r.mons = s.mons,
         r.enablesplit = s.enablesplit, r.geom = s.geom, r.selmon \in ToSet(s.mons),
         \A c \in Clients : r.mon[c] \in ToSet(s.mons) \cup {None}, WantedIn(r)
  PROVE  Settled(r)
<1>1. PICK n : n = Len(s.pmons)
  OBVIOUS
<1>2. /\ n \in Nat /\ n # 0 /\ n <= Most
      /\ \A i \in 0 .. n - 1 : Known(s, i)
      /\ \A i \in 0 .. n - 1 : Done(s, i)
      /\ ListsFirst(s, n)
  BY <1>1 DEF Settled, Rounds
<1>3. ListsFirst(r, n) /\ (\A i \in 0 .. n - 1 : Known(r, i)) /\ \A i \in 0 .. n - 1 : Done(r, i)
  BY <1>2 DEF ListsFirst, Known, Done, Splits
<1>4. Occupied(r)
  BY DEF Occupied
<1>5. r.selmon # None
  <2>1. s.mons \in Seq(Nums)
    BY DEF Settled, Rounds, Heads
  <2>2. ToSet(s.mons) \subseteq Nums
    BY <2>1 DEF ToSet
  <2> QED
    BY <2>2, NumsApart
<1> QED
  BY <1>1, <1>2, <1>3, <1>4, <1>5 DEF Settled, Rounds

-----------------------------------------------------------------------------
(* The inductive invariant, with screens that go one at a time.            *)

IInv ==
    /\ screens \in Setups /\ pending \in BOOLEAN /\ parent \in [Clients -> Clients \cup {None}]
    /\ Settled(State)
    /\ Len(pmons) <= Len(Unique(screens)) + 1
    /\ ~pending => FollowsIn(State, Unique(screens))

\* The record of the variables, and what IInv says of them.
LEMMA StateMeans ==
  ASSUME IInv
  PROVE  /\ State \in Heads /\ State.pmons = pmons /\ State.mons = mons
         /\ State.enablesplit = enablesplit /\ State.geom = geom /\ State.selmon = selmon
         /\ State.mon = mon /\ State.monindex = monindex
         /\ \E l \in Nat : l = Len(pmons) /\ l # 0 /\ Rounds(State, l, l) /\ l <= Most
         /\ mons \in Seq(Nums) /\ ToSet(mons) \subseteq Nums
         /\ selmon \in ToSet(mons) /\ selmon \in Nums
         /\ mon \in [Clients -> Nums \cup {None}]
         /\ monindex \in [Clients -> Nums \cup Wishes \cup {-1}]
         /\ \A c \in Clients : mon[c] \in ToSet(mons) \cup {None}
         /\ \A c \in Clients : mon[c] # None /\ monindex[c] \in ToSet(mons) => mon[c] = monindex[c]
         /\ \A x : Contains(mons, x) <=> x \in ToSet(mons)
<1>1. /\ State.pmons = pmons /\ State.mons = mons
      /\ State.enablesplit = enablesplit /\ State.geom = geom /\ State.selmon = selmon
      /\ State.mon = mon /\ State.monindex = monindex
  BY DEF State
<1> DEFINE s == State
<1>2. Settled(s)
  BY DEF IInv
<1> HIDE DEF s
<1>3. s \in Heads /\ Occupied(s) /\ Len(s.pmons) <= Most
  BY <1>2 DEF Settled, Rounds
<1>4. /\ s.mons \in Seq(Nums) /\ ToSet(s.mons) \subseteq Nums
      /\ s.mon \in [Clients -> Nums \cup {None}]
      /\ s.monindex \in [Clients -> Nums \cup Wishes \cup {-1}]
  BY <1>3 DEF Heads, ToSet
<1>5. \A x : Contains(s.mons, x) <=> x \in ToSet(s.mons)
  BY <1>4, ContainsMeans
<1>6. \E l \in Nat : l = Len(s.pmons) /\ l # 0 /\ Rounds(s, l, l) /\ l <= Most
  BY <1>2, <1>3 DEF Settled
<1>7. /\ s.selmon \in ToSet(s.mons) /\ \A c \in Clients : s.mon[c] \in ToSet(s.mons) \cup {None}
      /\ \A c \in Clients : s.mon[c] # None /\ s.monindex[c] \in ToSet(s.mons) => s.mon[c] = s.monindex[c]
  BY <1>2, <1>3 DEF Settled, Occupied, WantedIn
<1> QED
  BY <1>1, <1>3, <1>4, <1>5, <1>6, <1>7 DEF s

\* What Named returns is in the list, or is other; and the monitor named, if
\* that is there.
LEMMA NamedMeans ==
  ASSUME NEW S, NEW list \in Seq(S), NEW n, NEW other
  PROVE  /\ Named(list, n, other) \in ToSet(list) \cup {other}
         /\ n \in ToSet(list) => Named(list, n, other) = n
         /\ n = -1 /\ n \notin ToSet(list) => Named(list, n, other) = other
<1>1. \A x : Contains(list, x) <=> x \in ToSet(list)
  BY ContainsMeans
<1>2. n = -1 => ~(n >= Second)
  BY DEF Second
<1> QED
  BY <1>1, <1>2 DEF Named

\* A state in which the clients belong where they did.
LEMMA HomesSame ==
  ASSUME NEW s, Becomes(s), NEW o, o = State, SameClients(s, o)
  PROVE  HomesKept
<1> SUFFICES ASSUME NEW c \in Clients PROVE Home(c)' = Home(c)
  BY DEF HomesKept, Managed
<1>1. HomeIn(s, c) = HomeIn(o, c)
  BY DEF SameClients
<1>2. o.mon = mon /\ o.monindex = monindex
  BY DEF State
<1>3. s.mon = mon' /\ s.monindex = monindex'
  BY DEF Becomes
<1>4. Home(c) = HomeIn(o, c)
  BY <1>2 DEF Home, HomeIn
<1>5. Home(c)' = HomeIn(s, c)
  BY <1>3 DEF Home, HomeIn
<1> QED
  BY <1>1, <1>4, <1>5

\* The variables are those of s in the next state.
LEMMA BecomesMeans ==
  ASSUME NEW s \in Heads, Becomes(s)
  PROVE  State' = s
BY DEF Becomes, State, Heads

-----------------------------------------------------------------------------
(* The steps.                                                              *)

\* setup finds the monitors of the screens.
LEMMA InitInv == Init => IInv
<1> SUFFICES ASSUME Init PROVE IInv
  OBVIOUS
<1>1. screens \in Setups /\ pending = FALSE /\ parent \in [Clients -> Clients \cup {None}]
  BY DEF Init
<1>2. PICK p \in Nums : LET s == updategeom(NoMonitors, p) IN
         /\ Started(s, p)
         /\ pmons = s.pmons /\ mons = s.mons /\ selmon = p
         /\ enablesplit = s.enablesplit /\ geom = s.geom
  BY DEF Init
<1>3. PICK s : s = updategeom(NoMonitors, p)
  OBVIOUS
<1>4. /\ p \in ToSet(s.mons) /\ s.selmon = p
      /\ pmons = s.pmons /\ mons = s.mons /\ selmon = p
      /\ enablesplit = s.enablesplit /\ geom = s.geom
  BY <1>2, <1>3 DEF Started
<1>5. mon = NoMonitors.mon /\ monindex = NoMonitors.monindex
  BY DEF Init
<1>6. Settled(s) /\ FollowsIn(s, Unique(screens)) /\ SameClients(s, NoMonitors) /\ s \in Heads
  <2>1. PICK l : l = 0
    OBVIOUS
  <2>2. /\ l \in Nat /\ Rounds(NoMonitors, l, l) /\ Len(NoMonitors.pmons) = l
        /\ l <= Len(Unique(screens)) + 1
    BY <1>1, <2>1, NothingYet, ScreensCount
  <2>3. Contains(s.mons, p)
    <3>1. \E u : Rounds(u, Len(u.pmons), Len(u.pmons)) /\ (s = u \/ s = [u EXCEPT !.selmon = p])
      BY ONLY <1>1, <1>3, <2>2, GeomUpdated
    <3>2. s.mons \in Seq(Nums)
      BY <3>1 DEF Rounds, Heads
    <3> QED
      BY <1>4, <3>2, ContainsMeans
  <2> QED
    BY ONLY <1>1, <1>2, <1>3, <1>4, <2>2, <2>3, GeomSettled
<1>7. \A c \in Clients : mon[c] = None /\ monindex[c] = -1
  BY <1>5, NothingYet
<1>8. Settled(State)
  <2> DEFINE r == [s EXCEPT !.mon = mon, !.monindex = monindex]
  <2>1. mon \in [Clients -> Nums \cup {None}] /\ monindex \in [Clients -> Nums \cup Wishes \cup {-1}]
    BY <1>5 DEF NoMonitors
  <2>2. /\ r \in Heads /\ r.pmons = s.pmons /\ r.mons = s.mons /\ r.enablesplit = s.enablesplit
        /\ r.geom = s.geom /\ r.selmon = s.selmon /\ r.mon = mon /\ r.monindex = monindex
    BY <1>6, <2>1 DEF Heads
  <2> HIDE DEF r
  <2>3. State = r
    <3>1. r = [pmons |-> r.pmons, mons |-> r.mons, enablesplit |-> r.enablesplit, geom |-> r.geom,
               selmon |-> r.selmon, mon |-> r.mon, monindex |-> r.monindex]
      BY <2>2 DEF Heads
    <3> QED
      BY <1>4, <2>2, <3>1 DEF State
  <2>4. WantedIn(r) /\ \A c \in Clients : r.mon[c] \in ToSet(s.mons) \cup {None}
    BY <1>7, <2>2 DEF WantedIn
  <2>5. r.selmon \in ToSet(s.mons)
    BY <1>4, <2>2
  <2>6. Settled(r)
    BY ONLY <1>6, <2>2, <2>4, <2>5, SameMonitors
  <2> QED
    BY <2>3, <2>6
<1>9. Len(pmons) <= Len(Unique(screens)) + 1 /\ FollowsIn(State, Unique(screens))
  <2>1. State.pmons = s.pmons
    BY <1>4 DEF State
  <2>2. Len(pmons) = Len(Unique(screens)) /\ Len(Unique(screens)) \in Nat
    BY <1>1, <1>4, <1>6, ScreensCount DEF FollowsIn
  <2> QED
    BY <1>6, <2>1, <2>2 DEF FollowsIn
<1> QED
  BY <1>1, <1>8, <1>9 DEF IInv

\* A step that leaves the monitors, the screens and the selection in the list.
LEMMA ClientsMove ==
  ASSUME IInv, UNCHANGED <<screens, pending, pmons, mons, enablesplit, geom>>,
         parent' \in [Clients -> Clients \cup {None}], selmon' \in ToSet(mons),
         mon' \in [Clients -> Nums \cup {None}],
         monindex' \in [Clients -> Nums \cup Wishes \cup {-1}],
         \A c \in Clients : mon'[c] \in ToSet(mons) \cup {None},
         \A c \in Clients : mon'[c] # None /\ monindex'[c] \in ToSet(mons) => mon'[c] = monindex'[c]
  PROVE  IInv'
<1> DEFINE s == State
           r == State'
<1>1. /\ s \in Heads /\ s.pmons = pmons /\ s.mons = mons
      /\ s.enablesplit = enablesplit /\ s.geom = geom /\ s.selmon = selmon
      /\ ToSet(mons) \subseteq Nums
  BY StateMeans
<1>2. /\ r.pmons = pmons' /\ r.mons = mons' /\ r.enablesplit = enablesplit' /\ r.geom = geom'
      /\ r.selmon = selmon' /\ r.mon = mon' /\ r.monindex = monindex'
  BY DEF State
<1>3. r \in Heads
  <2>1. /\ pmons \in Seq(Node) /\ mons \in Seq(Nums) /\ enablesplit \in SUBSET Nums
        /\ geom \in [Nums -> Rect]
    <3> HIDE DEF s
    <3> QED
      BY <1>1 DEF Heads
  <2> QED
    BY <1>1, <2>1 DEF State, Heads
<1>4. Settled(s)
  BY DEF IInv
<1> HIDE DEF s, r
<1>5. /\ r.pmons = s.pmons /\ r.mons = s.mons
      /\ r.enablesplit = s.enablesplit /\ r.geom = s.geom /\ r.selmon \in ToSet(s.mons)
      /\ \A c \in Clients : r.mon[c] \in ToSet(s.mons) \cup {None}
      /\ WantedIn(r)
  BY <1>1, <1>2 DEF WantedIn
<1>6. Settled(r)
  BY ONLY <1>3, <1>4, <1>5, SameMonitors
<1>7. FollowsIn(s, Unique(screens)) => FollowsIn(r, Unique(screens)')
  <2>1. Unique(screens)' = Unique(screens)
    OBVIOUS
  <2> QED
    BY <1>5, <2>1 DEF FollowsIn
<1>8. Len(pmons') <= Len(Unique(screens)') + 1
  BY DEF IInv
<1>9. screens' \in Setups /\ pending' \in BOOLEAN
  BY DEF IInv
<1>10. ~pending' => FollowsIn(r, Unique(screens)')
  BY <1>7 DEF IInv, s
<1> QED
  BY <1>6, <1>8, <1>9, <1>10 DEF IInv, r

\* The user's and the windows' own steps: no monitor comes or goes.
LEMMA ClientSteps ==
  ASSUME IInv,
         \/ \E n \in Nums : focusmon(n)
         \/ \E c \in Clients :
               \/ unmanage(c)
               \/ \E n \in Nums : sendmon(c, n)
               \/ \E want \in Wishes \cup {-1} :
                     manage(c, want) \/ \E t \in Clients : manageTransient(c, t, want)
  PROVE  IInv' /\ HomesKept
<1>1. /\ mons \in Seq(Nums) /\ ToSet(mons) \subseteq Nums
      /\ selmon \in ToSet(mons) /\ selmon \in Nums
      /\ mon \in [Clients -> Nums \cup {None}]
      /\ monindex \in [Clients -> Nums \cup Wishes \cup {-1}]
      /\ \A c \in Clients : mon[c] \in ToSet(mons) \cup {None}
      /\ \A c \in Clients : mon[c] # None /\ monindex[c] \in ToSet(mons) => mon[c] = monindex[c]
      /\ \A x : Contains(mons, x) <=> x \in ToSet(mons)
      /\ parent \in [Clients -> Clients \cup {None}]
  BY StateMeans DEF IInv
<1>2. None \notin Nums /\ -1 \notin Nums /\ None \notin ToSet(mons) /\ -1 \notin ToSet(mons)
  BY <1>1, NumsApart
<1>3. ASSUME NEW n \in Nums, focusmon(n) PROVE IInv' /\ HomesKept
  <2>1. IInv'
    BY <1>1, <1>3, ClientsMove DEF focusmon, wins
  <2>2. HomesKept
    BY <1>3 DEF HomesKept, Home, focusmon, wins
  <2> QED
    BY <2>1, <2>2
<1>4. ASSUME NEW c \in Clients, unmanage(c) PROVE IInv' /\ HomesKept
  <2>1. IInv'
    BY <1>1, <1>2, <1>4, ClientsMove DEF unmanage, heads
  <2>2. HomesKept
    BY <1>4 DEF HomesKept, unmanage
  <2> QED
    BY <2>1, <2>2
<1>5. ASSUME NEW c \in Clients, NEW n \in Nums, sendmon(c, n) PROVE IInv' /\ HomesKept
  <2>1. IInv'
    BY <1>1, <1>2, <1>5, ClientsMove DEF sendmon, heads
  <2>2. HomesKept
    BY <1>5 DEF HomesKept, sendmon
  <2> QED
    BY <2>1, <2>2
<1>6. ASSUME NEW c \in Clients, NEW want \in Wishes \cup {-1}, manage(c, want) PROVE IInv' /\ HomesKept
  <2>1. PICK n : n = Named(mons, want, selmon)
    OBVIOUS
  <2>2. n \in ToSet(mons) /\ n \in Nums
    BY <1>1, <2>1, NamedMeans
  <2>3. mon' = [mon EXCEPT ![c] = n] /\ monindex' = [monindex EXCEPT ![c] = n]
    BY <1>6, <2>1 DEF manage
  <2>4. IInv'
    BY <1>1, <1>2, <1>6, <2>2, <2>3, ClientsMove DEF manage, heads
  <2>5. HomesKept
    BY <1>6 DEF HomesKept, manage
  <2> QED
    BY <2>4, <2>5
<1>7. ASSUME NEW c \in Clients, NEW t \in Clients, NEW want \in Wishes \cup {-1}, manageTransient(c, t, want)
      PROVE  IInv' /\ HomesKept
  <2>1. PICK n : n = Named(mons, want, mon[t])
    OBVIOUS
  <2>2. PICK i : i = IF want = -1 THEN monindex[t] ELSE want
    OBVIOUS
  <2>3. mon[t] \in ToSet(mons) /\ mon[t] # None
    BY <1>1, <1>7 DEF manageTransient, Managed
  <2>4. /\ n \in ToSet(mons) /\ n \in Nums
        /\ want \in ToSet(mons) => n = want
        /\ want = -1 => n = mon[t]
    BY <1>1, <1>2, <2>1, <2>3, NamedMeans
  <2>5. mon' = [mon EXCEPT ![c] = n] /\ monindex' = [monindex EXCEPT ![c] = i]
    BY <1>7, <2>1, <2>2 DEF manageTransient
  <2>6. i \in Nums \cup Wishes \cup {-1} /\ (i \in ToSet(mons) => n = i)
    BY <1>1, <2>2, <2>3, <2>4
  <2>7. IInv'
    BY <1>1, <1>2, <1>7, <2>4, <2>5, <2>6, ClientsMove DEF manageTransient, heads
  <2>8. HomesKept
    BY <1>7 DEF HomesKept, manageTransient
  <2> QED
    BY <2>7, <2>8
<1> QED
  BY <1>3, <1>4, <1>5, <1>6, <1>7

\* The X server's screens change, by one that goes at most.
LEMMA HotplugStep ==
  ASSUME IInv, AtOnce \in Nat, AtOnce <= 1, NEW q \in Setups, Hotplug(q)
  PROVE  IInv' /\ HomesKept
<1>1. State' = State
  BY DEF Hotplug, heads, wins, State
<1>2. Len(pmons') <= Len(Unique(screens)') + 1
  <2>1. \E l \in Nat : l = Len(pmons)
    BY StateMeans
  <2>2. Len(Unique(q)) \in Nat
    BY ScreensCount
  <2>3. Len(pmons) - Len(Unique(q)) <= AtOnce /\ pmons' = pmons /\ Unique(screens)' = Unique(q)
    BY DEF Hotplug, heads
  <2> QED
    BY <2>1, <2>2, <2>3
<1>3. screens' \in Setups /\ pending' = TRUE /\ parent' = parent
  BY DEF Hotplug, wins
<1>4. Settled(State')
  BY <1>1 DEF IInv
<1>5. HomesKept
  BY DEF HomesKept, Home, Hotplug, wins
<1> QED
  BY <1>2, <1>3, <1>4, <1>5 DEF IInv

\* dwm hears of them.
LEMMA ConfigureStep ==
  ASSUME IInv, configurenotify
  PROVE  IInv' /\ HomesKept
<1>1. PICK p \in Nums : LET s == updategeom(State, p) IN Contains(s.mons, p) /\ Becomes(s)
  BY DEF configurenotify
<1>2. PICK s : s = updategeom(State, p)
  OBVIOUS
<1>3. Contains(s.mons, p) /\ Becomes(s)
  BY <1>1, <1>2
<1>4. PICK l \in Nat : l = Len(pmons) /\ l # 0 /\ Rounds(State, l, l)
  BY StateMeans
<1>5. PICK o : o = State
  OBVIOUS
<1>6. /\ Rounds(o, l, l) /\ Len(o.pmons) = l /\ screens \in Setups /\ l <= Len(Unique(screens)) + 1
      /\ s = updategeom(o, p) /\ o.selmon # None
  <2>1. State.pmons = pmons
    BY StateMeans
  <2>2. State.selmon # None
    BY DEF IInv, Settled
  <2> QED
    BY <1>2, <1>4, <1>5, <2>1, <2>2 DEF IInv
<1>7. Settled(s) /\ FollowsIn(s, Unique(screens)) /\ SameClients(s, o) /\ s \in Heads
  BY ONLY <1>1, <1>3, <1>4, <1>6, GeomSettled
<1>8. State' = s
  BY <1>3, <1>7, BecomesMeans
<1>9. screens' = screens /\ pending' = FALSE /\ parent' = parent
  BY DEF configurenotify
<1>10. Len(pmons') <= Len(Unique(screens)) + 1
  <2>1. pmons' = s.pmons
    BY <1>3 DEF Becomes
  <2>2. Len(Unique(screens)) \in Nat
    BY ScreensCount DEF IInv
  <2> QED
    BY <1>7, <2>1, <2>2 DEF FollowsIn
<1>11. HomesKept
  BY ONLY <1>3, <1>5, <1>7, HomesSame
<1>12. Unique(screens)' = Unique(screens)
  BY <1>9
<1> QED
  BY <1>7, <1>8, <1>9, <1>10, <1>11, <1>12 DEF IInv

\* The selected physical monitor is split or joined.
LEMMA SplitStep ==
  ASSUME IInv, togglesplit
  PROVE  IInv' /\ HomesKept
<1>1. PICK first : first = selmon % Second
  OBVIOUS
<1>2. PICK l \in Nat : l = Len(pmons) /\ l # 0 /\ Rounds(State, l, l)
  BY StateMeans
<1>3. PICK o : o = State
  OBVIOUS
<1>4. PICK s : s = [o EXCEPT !.enablesplit = SymDiff(@, {first})]
  OBVIOUS
<1>5. PICK t : t = updatevirtualmonitors(s, l)
  OBVIOUS
<1>6. PICK u : u = updateclientmonitors(t)
  OBVIOUS
<1>7. Becomes(u) /\ screens' = screens /\ pending' = pending /\ parent' = parent
  BY <1>1, <1>2, <1>3, <1>4, <1>5, <1>6 DEF togglesplit
<1>8. first \in Nums
  <2>1. selmon \in Nums
    BY StateMeans
  <2>2. selmon \in Indices \/ \E i \in Indices : selmon = Second + i
    BY <2>1, NumsApart
  <2> QED
    BY <1>1, <2>2, NumsApart
<1>9. /\ o \in Heads /\ o.pmons = pmons /\ Len(o.pmons) = l /\ Settled(o)
      /\ \A i \in 0 .. l - 1 : Known(o, i)
      /\ ListsFirst(o, l) /\ Occupied(o) /\ l <= Most
  <2>1. /\ \A i \in 0 .. l - 1 : Known(State, i)
        /\ ListsFirst(State, l) /\ Occupied(State) /\ l <= Most
    BY <1>2, StateMeans DEF Rounds
  <2> QED
    BY <1>2, <1>3, <2>1, StateMeans DEF IInv
<1>10. /\ s \in Heads /\ s.pmons = o.pmons /\ s.mons = o.mons /\ s.geom = o.geom
       /\ s.selmon = o.selmon /\ s.mon = o.mon /\ s.monindex = o.monindex
  BY <1>4, <1>8, <1>9 DEF Heads, SymDiff
<1>11. Rounds(s, 0, l)
  <2>1. \A i \in 0 .. 0 - 1 : FALSE
    OBVIOUS
  <2>2. \A i \in 0 .. l - 1 : Known(s, i)
    BY <1>9, <1>10 DEF Known
  <2>3. ListsFirst(s, l) /\ Occupied(s)
    BY <1>9, <1>10 DEF ListsFirst, Occupied
  <2> QED
    BY <1>9, <1>10, <2>1, <2>2, <2>3 DEF Rounds
<1>12. /\ Rounds(t, l, l) /\ SameHomes(t, s) /\ Len(t.pmons) = l
       /\ \A i \in 0 .. l - 1 : t.pmons[i + 1].geom = s.pmons[i + 1].geom
  <2>1. l \in Nat /\ Rounds(s, 0, l) /\ Len(s.pmons) = l /\ l # 0
    BY <1>2, <1>9, <1>10, <1>11
  <2> QED
    BY ONLY <1>5, <2>1, VirtualMade
<1>13. /\ Rounds(u, l, l) /\ SameHomes(u, t) /\ WantedIn(u)
       /\ u.pmons = t.pmons /\ u.mons = t.mons /\ u.selmon = t.selmon
  BY <1>6, <1>12, ClientsUpdated
<1>14. State' = u
  <2>1. u \in Heads
    BY <1>13 DEF Rounds
  <2> QED
    BY <1>7, <2>1, BecomesMeans
<1>15. Settled(u)
  <2>1. u.selmon # None
    BY <1>9, <1>10, <1>12, <1>13 DEF Settled, SameHomes
  <2> QED
    BY <1>2, <1>12, <1>13, <2>1 DEF Settled
<1>16. FollowsIn(o, Unique(screens)) => FollowsIn(u, Unique(screens))
  <2>1. \A i \in 1 .. l : i - 1 \in 0 .. l - 1 /\ (i - 1) + 1 = i
    BY <1>2
  <2>2. \A i \in 1 .. l : u.pmons[i].geom = o.pmons[i].geom
    BY <1>10, <1>12, <1>13, <2>1
  <2> QED
    BY <1>9, <1>12, <1>13, <2>2 DEF FollowsIn
<1>17. HomesKept
  <2>1. SameClients(u, o)
    BY <1>10, <1>12, <1>13 DEF SameClients, SameHomes, HomeIn
  <2> QED
    BY ONLY <1>3, <1>7, <2>1, HomesSame
<1>18. Len(pmons') = Len(pmons)
  BY <1>2, <1>7, <1>12, <1>13 DEF Becomes
<1>19. Unique(screens)' = Unique(screens)
  BY <1>7
<1> QED
  BY <1>3, <1>7, <1>14, <1>15, <1>16, <1>17, <1>18, <1>19 DEF IInv

\* dwm is restarted on the screens there are.
LEMMA RestartStep ==
  ASSUME IInv, Restart
  PROVE  IInv' /\ HomesKept
<1> DEFINE saved(c) == IF monindex[c] = -1 THEN mon[c] ELSE monindex[c]
<1>1. PICK p \in Nums : LET s == updategeom(NoMonitors, p)
                            Back(c, other) == Named(s.mons, saved(c), other) IN
        /\ Started(s, p)
        /\ Becomes([s EXCEPT
              !.mon = [c \in Clients |->
                  CASE mon[c] = None -> None
                    [] mon[c] # None /\ parent[c] = None -> Back(c, p)
                    [] OTHER -> Back(c, Back(parent[c], p))],
              !.monindex = [c \in Clients |-> IF mon[c] = None THEN -1 ELSE saved(c)]])
        /\ pending' = FALSE
        /\ UNCHANGED <<screens, parent>>
  BY DEF Restart
<1>2. PICK s : s = updategeom(NoMonitors, p)
  OBVIOUS
<1> DEFINE back(c, other) == Named(s.mons, saved(c), other)
           m == [c \in Clients |->
                  CASE mon[c] = None -> None
                    [] mon[c] # None /\ parent[c] = None -> back(c, p)
                    [] OTHER -> back(c, back(parent[c], p))]
           w == [c \in Clients |-> IF mon[c] = None THEN -1 ELSE saved(c)]
<1>3. /\ Started(s, p) /\ Becomes([s EXCEPT !.mon = m, !.monindex = w])
      /\ pending' = FALSE /\ screens' = screens /\ parent' = parent
  BY <1>1, <1>2
<1>4. p \in ToSet(s.mons) /\ s.selmon = p
  BY <1>3 DEF Started
<1>5. screens \in Setups /\ parent \in [Clients -> Clients \cup {None}]
  BY DEF IInv
<1>6. Settled(s) /\ FollowsIn(s, Unique(screens)) /\ s \in Heads
  <2>1. PICK l : l = 0
    OBVIOUS
  <2>2. /\ l \in Nat /\ Rounds(NoMonitors, l, l) /\ Len(NoMonitors.pmons) = l
        /\ l <= Len(Unique(screens)) + 1
    BY <1>5, <2>1, NothingYet, ScreensCount
  <2>3. Contains(s.mons, p)
    <3>1. \E u : Rounds(u, Len(u.pmons), Len(u.pmons)) /\ (s = u \/ s = [u EXCEPT !.selmon = p])
      BY ONLY <1>2, <1>5, <2>2, GeomUpdated
    <3>2. s.mons \in Seq(Nums)
      BY <3>1 DEF Rounds, Heads
    <3> QED
      BY <1>4, <3>2, ContainsMeans
  <2> QED
    BY ONLY <1>1, <1>2, <1>4, <1>5, <2>2, <2>3, GeomSettled
<1>7. /\ mon \in [Clients -> Nums \cup {None}]
      /\ monindex \in [Clients -> Nums \cup Wishes \cup {-1}]
  BY StateMeans
<1>8. s.mons \in Seq(Nums) /\ ToSet(s.mons) \subseteq Nums /\ None \notin Nums
  BY <1>6, NumsApart DEF Heads, ToSet
<1>9. \A c \in Clients : mon[c] # None => saved(c) \in Nums \cup Wishes /\ saved(c) # -1
  BY <1>7, NumsApart
<1> HIDE DEF saved
<1>10. \A x, y : y \in ToSet(s.mons) => Named(s.mons, x, y) \in ToSet(s.mons)
  BY <1>8, NamedMeans
<1>11. \A x, y : x \in ToSet(s.mons) => Named(s.mons, x, y) = x
  BY <1>8, NamedMeans
<1>12. ASSUME NEW c \in Clients
       PROVE  /\ mon[c] = None => m[c] = None /\ w[c] = -1
              /\ mon[c] # None => /\ m[c] \in ToSet(s.mons) /\ w[c] = saved(c)
                                  /\ saved(c) \in ToSet(s.mons) => m[c] = saved(c)
  <2>1. back(c, p) \in ToSet(s.mons) /\ back(parent[c], p) \in ToSet(s.mons)
    BY <1>4, <1>10
  <2>2. back(c, back(parent[c], p)) \in ToSet(s.mons)
    BY <1>10, <2>1
  <2>3. saved(c) \in ToSet(s.mons) => back(c, p) = saved(c) /\ back(c, back(parent[c], p)) = saved(c)
    BY <1>11
  <2> HIDE DEF back
  <2> QED
    BY <2>1, <2>2, <2>3
<1>13. m \in [Clients -> Nums \cup {None}] /\ w \in [Clients -> Nums \cup Wishes \cup {-1}]
  <2>1. m = [c \in Clients |-> m[c]] /\ w = [c \in Clients |-> w[c]]
    OBVIOUS
  <2> HIDE DEF m, w
  <2>2. \A c \in Clients : m[c] \in Nums \cup {None} /\ w[c] \in Nums \cup Wishes \cup {-1}
    BY <1>8, <1>9, <1>12
  <2> QED
    BY <2>1, <2>2
<1> HIDE DEF m, w
<1>14. PICK r : r = [s EXCEPT !.mon = m, !.monindex = w]
  OBVIOUS
<1>15. /\ r \in Heads /\ r.pmons = s.pmons /\ r.mons = s.mons /\ r.enablesplit = s.enablesplit
       /\ r.geom = s.geom /\ r.selmon = s.selmon /\ r.mon = m /\ r.monindex = w
  BY <1>6, <1>13, <1>14 DEF Heads
<1>16. State' = r
  BY <1>3, <1>14, <1>15, BecomesMeans
<1>17. Settled(r)
  <2>1. WantedIn(r) /\ \A c \in Clients : r.mon[c] \in ToSet(s.mons) \cup {None}
    BY <1>12, <1>15 DEF WantedIn
  <2>2. r.selmon \in ToSet(s.mons)
    BY <1>4, <1>15
  <2> QED
    BY ONLY <1>6, <1>15, <2>1, <2>2, SameMonitors
<1>18. FollowsIn(r, Unique(screens)) /\ Unique(screens)' = Unique(screens)
  BY <1>3, <1>6, <1>15 DEF FollowsIn
<1>19. Len(pmons') <= Len(Unique(screens)) + 1
  <2>1. pmons' = r.pmons
    BY <1>3, <1>14 DEF Becomes
  <2>2. Len(Unique(screens)) \in Nat
    BY <1>5, ScreensCount
  <2> QED
    BY <1>18, <2>1, <2>2 DEF FollowsIn
<1>20. HomesKept
  <2>1. mon' = m /\ monindex' = w
    BY <1>3, <1>14, <1>15 DEF Becomes
  <2>2. \A c \in Managed : Home(c) = saved(c) /\ saved(c) # -1 /\ monindex'[c] = saved(c)
    BY <1>9, <1>12, <2>1 DEF Home, saved, Managed
  <2>3. \A c \in Managed : Home(c)' = Home(c)
    BY <2>2 DEF Home
  <2> QED
    BY <2>3 DEF HomesKept
<1> QED
  BY <1>3, <1>5, <1>16, <1>17, <1>18, <1>19, <1>20 DEF IInv

\* Every step keeps the invariant and where the clients belong.
LEMMA NextInv ==
  ASSUME AtOnce \in Nat, AtOnce <= 1, IInv, Next
  PROVE  IInv' /\ HomesKept
<1>1. ASSUME NEW q \in Setups, Hotplug(q) PROVE IInv' /\ HomesKept
  BY <1>1, HotplugStep
<1>2. CASE configurenotify
  BY <1>2, ConfigureStep
<1>3. CASE togglesplit
  BY <1>3, SplitStep
<1>4. CASE Restart
  BY <1>4, RestartStep
<1>5. CASE \/ \E n \in Nums : focusmon(n)
           \/ \E c \in Clients :
                 \/ unmanage(c)
                 \/ \E n \in Nums : sendmon(c, n)
                 \/ \E want \in Wishes \cup {-1} :
                       manage(c, want) \/ \E t \in Clients : manageTransient(c, t, want)
  BY <1>5, ClientSteps
<1> QED
  BY <1>1, <1>2, <1>3, <1>4, <1>5 DEF Next

\* A step that changes nothing keeps it as well.
LEMMA StutterInv ==
  ASSUME IInv, UNCHANGED vars
  PROVE  IInv'
<1>1. State' = State
  BY DEF State, vars
<1>2. screens' = screens /\ pending' = pending /\ parent' = parent /\ pmons' = pmons
  BY DEF vars
<1>3. Unique(screens)' = Unique(screens)
  BY <1>2
<1> QED
  BY <1>1, <1>2, <1>3 DEF IInv

-----------------------------------------------------------------------------
(* The theorems.                                                           *)

\* What is so between two handlers, whatever comes, goes, is split or sent,
\* as long as one screen goes at a time.
THEOREM MonitorsInductive ==
  ASSUME AtOnce \in Nat, AtOnce <= 1
  PROVE  Spec => []IInv
<1>1. IInv /\ [Next]_vars => IInv'
  BY NextInv, StutterInv
<1> QED
  BY <1>1, InitInv, PTL DEF Spec

\* The types, as they follow from it.
LEMMA TypesFollow == IInv => TypeOK
<1> SUFFICES ASSUME IInv PROVE TypeOK
  OBVIOUS
<1>1. /\ State \in Heads /\ State.pmons = pmons /\ State.mons = mons
      /\ State.enablesplit = enablesplit /\ State.geom = geom
  BY StateMeans
<1>2. PICK l \in Nat : l = Len(pmons) /\ l # 0 /\ Rounds(State, l, l) /\ l <= Most
  BY StateMeans
<1>3. \A i \in 0 .. l - 1 : Done(State, i)
  BY <1>2 DEF Rounds
<1>4. PICK s : s = State
  OBVIOUS
<1>5. pmons \in Seq(Node) /\ enablesplit \subseteq Nums /\ geom \in [Nums -> Rect]
  BY <1>1, <1>4 DEF Heads
<1>6. pmons \in Seq([geom : Rect, mon1 : Nums, mon2 : Nums \cup {None}])
  <2>1. DOMAIN pmons = 1 .. l /\ \A i \in 1 .. l : pmons[i] \in Node
    BY <1>2, <1>5, LenProperties, ElementOfSeq
  <2>2. \A i \in 1 .. l : pmons[i] \in [geom : Rect, mon1 : Nums, mon2 : Nums \cup {None}]
    <3> SUFFICES ASSUME NEW i \in 1 .. l
                 PROVE  pmons[i] \in [geom : Rect, mon1 : Nums, mon2 : Nums \cup {None}]
      OBVIOUS
    <3>1. i - 1 \in 0 .. l - 1 /\ (i - 1) + 1 = i /\ i - 1 \in Indices
      BY <1>2, NumsApart
    <3>2. pmons[i].mon1 = i - 1
      BY <1>1, <1>3, <3>1 DEF Done
    <3>3. pmons[i].mon1 \in Nums
      BY <3>1, <3>2, NumsApart
    <3> QED
      BY <2>1, <3>3 DEF Node
  <2>3. pmons \in [1 .. l -> [geom : Rect, mon1 : Nums, mon2 : Nums \cup {None}]]
    <3>1. pmons = [i \in 1 .. l |-> pmons[i]]
      BY <1>5, <2>1
    <3> QED
      BY <2>2, <3>1
  <2>4. PICK T : T = [geom : Rect, mon1 : Nums, mon2 : Nums \cup {None}]
    OBVIOUS
  <2>5. pmons \in [1 .. l -> T]
    BY <2>3, <2>4
  <2>6. pmons \in Seq(T)
    BY ONLY <2>5, l \in Nat
  <2> QED
    BY <2>4, <2>6
<1>7. screens \in Setups /\ pending \in BOOLEAN /\ parent \in [Clients -> Clients \cup {None}]
  BY DEF IInv
<1>8. /\ mons \in Seq(Nums) /\ selmon \in Nums
      /\ mon \in [Clients -> Nums \cup {None}]
      /\ monindex \in [Clients -> Nums \cup Wishes \cup {-1}]
  BY StateMeans
<1> QED
  BY <1>5, <1>6, <1>7, <1>8 DEF TypeOK

\* The list is that of the physical monitors, as it follows from it.
LEMMA ListFollows == IInv => EveryListed
<1> SUFFICES ASSUME IInv PROVE EveryListed
  OBVIOUS
<1>1. /\ State.pmons = pmons /\ State.mons = mons /\ State.enablesplit = enablesplit
      /\ mons \in Seq(Nums) /\ ToSet(mons) \subseteq Nums
  BY StateMeans
<1>2. PICK l \in Nat : l = Len(pmons) /\ l # 0 /\ Rounds(State, l, l) /\ l <= Most
  BY StateMeans
<1>3. /\ \A i \in 0 .. l - 1 : Done(State, i)
      /\ ListsFirst(State, l)
  BY <1>2 DEF Rounds
<1>4. DOMAIN pmons = 1 .. l
  <2>1. State \in Heads
    BY <1>2 DEF Rounds
  <2>2. State.pmons \in Seq(Node)
    BY <2>1 DEF Heads
  <2> QED
    BY <1>1, <1>2, <2>2, LenProperties
<1>5. \A i \in 1 .. l : i - 1 \in 0 .. l - 1 /\ (i - 1) + 1 = i /\ i - 1 \in Indices /\ i - 1 < l
  BY <1>2, NumsApart
<1>6. \A i \in 0 .. l - 1 : i + 1 \in 1 .. l /\ (i + 1) - 1 = i
  BY <1>2
<1>7. \A i \in 1 .. l : /\ pmons[i].mon1 = i - 1
                        /\ pmons[i].mon2 = IF SplitOf[i - 1] # 0 /\ i - 1 \in enablesplit
                                           THEN Second + (i - 1) ELSE None
  BY <1>1, <1>3, <1>5 DEF Done, Splits
<1>8. \A i \in 1 .. l : Second + (i - 1) = Second + i - 1
  BY DEF Second
<1>9. ToSet(mons) = UNION {{pmons[i].mon1, pmons[i].mon2} \ {None} : i \in 1 .. l}
  <2>1. ASSUME NEW n \in ToSet(mons) PROVE \E i \in 1 .. l : n \in {pmons[i].mon1, pmons[i].mon2} \ {None}
    <3>1. n # None /\ (n \in Indices \/ \E j \in Indices : n = Second + j)
      BY <1>1, NumsApart
    <3>2. CASE n \in Indices
      <4>1. n < l /\ pmons[n + 1].mon1 = n
        BY <1>1, <1>3, <3>2 DEF ListsFirst
      <4>2. n + 1 \in 1 .. l
        BY <3>2, <4>1, NumsApart
      <4> QED
        BY <3>1, <4>1, <4>2
    <3>3. ASSUME NEW j \in Indices, n = Second + j
          PROVE  \E i \in 1 .. l : n \in {pmons[i].mon1, pmons[i].mon2} \ {None}
      <4>1. j < l /\ pmons[j + 1].mon2 = n
        BY <1>1, <1>3, <3>3 DEF ListsFirst
      <4>2. j + 1 \in 1 .. l
        BY <4>1, NumsApart
      <4> QED
        BY <3>1, <4>1, <4>2
    <3> QED
      BY <3>1, <3>2, <3>3
  <2>2. ASSUME NEW i \in 1 .. l, NEW n \in {pmons[i].mon1, pmons[i].mon2} \ {None}
        PROVE  n \in ToSet(mons)
    <3>1. PICK j : j = i - 1
      OBVIOUS
    <3>2. j \in Indices /\ j < l /\ j + 1 = i
      BY <1>5, <3>1
    <3>3. /\ pmons[i].mon1 = j
          /\ pmons[i].mon2 \in {Second + j, None}
      BY <1>7, <3>1
    <3>4. n = j \/ (n = Second + j /\ pmons[j + 1].mon2 = Second + j)
      BY <2>2, <3>2, <3>3
    <3>5. /\ pmons[j + 1].mon1 = j => j \in ToSet(mons)
          /\ pmons[j + 1].mon2 = Second + j => Second + j \in ToSet(mons)
      BY <1>1, <1>3, <3>2 DEF ListsFirst
    <3> QED
      BY <3>2, <3>3, <3>4, <3>5
  <2> QED
    BY <2>1, <2>2
<1>10. IsInjective(mons)
  BY <1>1, <1>3 DEF ListsFirst
<1> QED
  BY <1>4, <1>7, <1>8, <1>9, <1>10 DEF EveryListed

\* Whatever comes and goes, the monitors are those of the screens: every
\* physical one has its halves as it is split, they lie side by side in it and
\* are in the list, and every client and the selection is on one of them
\* (updategeom, updatevirtualmonitors).
THEOREM MonitorsConsistent ==
  ASSUME AtOnce \in Nat, AtOnce <= 1
  PROVE  Spec => []Consistent
<1>1. IInv => OnMonitor
  <2> SUFFICES ASSUME IInv PROVE OnMonitor
    OBVIOUS
  <2> QED
    BY StateMeans DEF OnMonitor, Managed
<1>2. IInv => Follows
  <2> SUFFICES ASSUME IInv, ~pending PROVE Follows
    BY DEF Follows
  <2>1. PICK l \in Nat : l = Len(pmons) /\ l # 0 /\ Rounds(State, l, l)
    BY StateMeans
  <2>2. State.pmons = pmons /\ State.geom = geom /\ State \in Heads
    BY StateMeans
  <2>3. PICK q : q = Unique(screens)
    OBVIOUS
  <2>4. q \in Seq(Rect) /\ Len(q) = l /\ \A i \in 1 .. l : pmons[i].geom = q[i]
    BY <2>1, <2>2, <2>3, ScreensCount DEF IInv, FollowsIn
  <2>5. DOMAIN pmons = 1 .. l /\ DOMAIN q = 1 .. l
    <3>1. PICK s : s = State
      OBVIOUS
    <3>2. s.pmons \in Seq(Node) /\ s.pmons = pmons
      BY <2>2, <3>1 DEF Heads
    <3> QED
      BY <2>1, <2>4, <3>2, LenProperties
  <2>6. [i \in DOMAIN pmons |-> pmons[i].geom] = q
    <3>1. q = [i \in 1 .. l |-> q[i]]
      BY <2>4, <2>5
    <3> QED
      BY <2>4, <2>5, <3>1
  <2>7. \A i \in 1 .. l : Halves(pmons[i], geom)
    <3>1. \A i \in 1 .. l : i - 1 \in 0 .. l - 1 /\ (i - 1) + 1 = i
      BY <2>1
    <3>2. \A i \in 0 .. l - 1 : Halves(pmons[i + 1], geom)
      BY <2>1, <2>2 DEF Rounds, Done
    <3> QED
      BY <3>1, <3>2
  <2> QED
    BY <2>3, <2>5, <2>6, <2>7 DEF Follows
<1>3. IInv => Consistent
  BY <1>1, <1>2, TypesFollow, ListFollows DEF Consistent
<1> QED
  BY <1>3, MonitorsInductive, PTL

\* A client is on the monitor it wants whenever that is there: one that was
\* moved when its monitor went is back as soon as it has returned
\* (updateclientmonitors).
THEOREM WishesGranted ==
  ASSUME AtOnce \in Nat, AtOnce <= 1
  PROVE  Spec => []Wanted
<1>1. IInv => Wanted
  <2> SUFFICES ASSUME IInv PROVE Wanted
    OBVIOUS
  <2> QED
    BY StateMeans DEF Wanted, Managed
<1> QED
  BY <1>1, MonitorsInductive, PTL

\* No screen that goes, no split and no restart changes which monitor a client
\* belongs on: only the user does (Evict's monindex, setclienttagprop).
THEOREM HomesStay ==
  ASSUME AtOnce \in Nat, AtOnce <= 1
  PROVE  Spec => HomeKept
<1>1. IInv /\ [Next]_vars => [HomesKept]_vars
  BY NextInv
<1> QED
  BY <1>1, MonitorsInductive, PTL DEF Spec, HomeKept
=============================================================================
