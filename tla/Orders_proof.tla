---------------------------- MODULE Orders_proof ----------------------------
(***************************************************************************)
(* What the other proofs need of naturals and of sequences: the least and  *)
(* the greatest element of a set of naturals, that the lowest tag of a     *)
(* mask and the ends of a chain are chosen by, loops, and what Only picks; *)
(* and sums of numbers and what is left of divisions, that the layouts     *)
(* share an area by.                                                       *)
(***************************************************************************)
EXTENDS Sublists, Lines, SequencesExt, WellFoundedInduction, SequenceTheorems, TLAPS

\* A set of naturals that is not empty has a least element.
LEMMA LeastNat ==
  ASSUME NEW T, T \subseteq Nat, T # {}
  PROVE  \E x \in T : \A y \in T : x <= y
<1> DEFINE Less == OpToRel(<, Nat)
<1>1. IsWellFoundedOn(Less, Nat)
  BY NatLessThanWellFounded
<1>2. \A x, y \in Nat : y < x => <<y, x>> \in Less
  BY DEF OpToRel
<1> HIDE DEF Less
<1>3. PICK x \in T : \A y \in T : <<y, x>> \notin Less
  BY <1>1, WFMin
<1>4. ASSUME NEW y \in T PROVE x <= y
  <2>1. x \in Nat /\ y \in Nat
    OBVIOUS
  <2>2. ~(y < x)
    BY <1>2, <1>3, <2>1
  <2> QED
    BY <2>1, <2>2
<1> QED
  BY <1>4

\* A set of naturals with an upper bound has a greatest element.
LEMMA GreatestNat ==
  ASSUME NEW T, NEW n \in Nat, T \subseteq 1..n, T # {}
  PROVE  \E x \in T : \A y \in T : y <= x
<1> DEFINE U == {n - x : x \in T}
<1>1. \A x \in T : n - x \in Nat
  OBVIOUS
<1>2. U \subseteq Nat
  BY <1>1
<1>3. U # {}
  OBVIOUS
<1>4. PICK u \in U : \A v \in U : u <= v
  BY <1>2, <1>3, LeastNat
<1>5. PICK x \in T : u = n - x
  BY <1>4
<1>6. \A y \in T : n - y \in U /\ n - x <= n - y
  BY <1>4, <1>5
<1> QED
  BY <1>5, <1>6

-----------------------------------------------------------------------------
(* Loops.                                                                  *)

\* What holds at the first of some integers and is kept from each to the next
\* holds at all of them.
LEMMA Upwards ==
  ASSUME NEW m \in Nat, NEW n \in Nat, NEW S, m \in S,
         \A i \in m..n : i # n /\ i \in S => i + 1 \in S
  PROVE  \A i \in m..n : i \in S
<1> DEFINE Bad == {i \in m..n : i \notin S}
<1>1. SUFFICES ASSUME Bad # {} PROVE FALSE
  OBVIOUS
<1>2. PICK k \in Bad : \A j \in Bad : k <= j
  <2>1. Bad \subseteq Nat
    OBVIOUS
  <2> HIDE DEF Bad
  <2> QED
    BY <1>1, <2>1, LeastNat
<1>3. k \in m..n /\ k \notin S /\ k # m
  OBVIOUS
<1>4. k - 1 \in m..n /\ ~(k <= k - 1) /\ k - 1 # n /\ (k - 1) + 1 = k
  BY <1>3
<1>5. k - 1 \in S
  BY <1>2, <1>4
<1> QED
  BY <1>3, <1>4, <1>5

\* Round k of a loop takes a member of G[k], what is so before it, to one of
\* G[k + 1].
Leads(round, G, X, m, n) ==
    \A k \in m..n :
        /\ G[k] \subseteq X
        /\ k # n => \A x \in G[k] : round[<<x, k>>] \in G[k + 1]

\* A loop has a run, the values of its variable before each round.
LEMMA LoopRuns ==
  ASSUME NEW m \in Nat, NEW n \in Nat, m <= n, NEW X, NEW G, NEW round,
         Leads(round, G, X, m, n), NEW a, a \in G[m]
  PROVE  \E f \in [m..n -> X] :
            f[m] = a /\ \A i \in m..n : i # m => f[i] = round[<<f[i - 1], i - 1>>]
<1> DEFINE Run(k, f) ==
             /\ f[m] = a /\ f[k] \in G[k]
             /\ \A i \in m..k : i # m => f[i] = round[<<f[i - 1], i - 1>>]
           S == {k \in m..n : \E f \in [m..k -> X] : Run(k, f)}
<1>0. \A k \in m..n : G[k] \subseteq X /\ (k # n => \A x \in G[k] : round[<<x, k>>] \in G[k + 1])
  BY DEF Leads
<1>1. m \in S
  <2> DEFINE f == [i \in m..m |-> a]
  <2>1. m \in m..n /\ a \in X
    BY <1>0
  <2>2. f \in [m..m -> X] /\ f[m] = a /\ \A i \in m..m : i = m
    BY <2>1
  <2> HIDE DEF f
  <2>3. Run(m, f)
    BY <2>2
  <2> QED
    BY <2>1, <2>2, <2>3
<1>2. ASSUME NEW k \in m..n, k # n, k \in S PROVE k + 1 \in S
  <2>1. PICK g \in [m..k -> X] : Run(k, g)
    BY <1>2
  <2>2. k \in m..k /\ k + 1 \in m..n
    BY <1>2
  <2> DEFINE next == round[<<g[k], k>>]
             f == [i \in m..(k + 1) |-> IF i = k + 1 THEN next ELSE g[i]]
  <2>3. next \in G[k + 1] /\ next \in X
    BY <1>0, <1>2, <2>1, <2>2
  <2> HIDE DEF next
  <2>4. f \in [m..(k + 1) -> X] /\ f[k + 1] = next /\ \A i \in m..k : f[i] = g[i]
    BY <1>2, <2>3
  <2> HIDE DEF f
  <2>5. f[m] = a
    BY <2>1, <2>2, <2>4
  <2>6. ASSUME NEW i \in m..(k + 1), i # m PROVE f[i] = round[<<f[i - 1], i - 1>>]
    <3>1. CASE i = k + 1
      <4>1. i - 1 = k
        BY <2>2, <3>1
      <4> QED
        BY <2>2, <2>4, <3>1, <4>1 DEF next
    <3>2. CASE i # k + 1
      <4>1. i \in m..k /\ i - 1 \in m..k
        BY <2>6, <3>2
      <4> QED
        BY <2>1, <2>4, <2>6, <4>1
    <3> QED
      BY <3>1, <3>2
  <2>7. Run(k + 1, f)
    BY <2>3, <2>4, <2>5, <2>6
  <2> QED
    BY <2>2, <2>4, <2>7
<1> HIDE DEF S
<1>3. \A k \in m..n : k \in S
  BY <1>1, <1>2, Upwards
<1>4. n \in S
  BY <1>3
<1> QED
  BY <1>4 DEF S

-----------------------------------------------------------------------------
(* Only.  Induction over the length is written with the least length the   *)
(* claim fails for.                                                        *)

\* f[i] is what Only picks of the first i elements of q.
Picks(f, q, S) ==
    /\ f[0] = <<>>
    /\ \A i \in 1..Len(q) :
          f[i] = IF q[i] \in S THEN Append(f[i - 1], q[i]) ELSE f[i - 1]

\* Every sequence has such a function.
LEMMA PicksExist ==
  ASSUME NEW A, NEW q \in Seq(A), NEW S
  PROVE  \E f \in [0..Len(q) -> Seq(A \cap S)] : Picks(f, q, S)
<1> DEFINE Upto(n) == \E f \in [0..n -> Seq(A \cap S)] :
              /\ f[0] = <<>>
              /\ \A i \in 1..n :
                    f[i] = IF q[i] \in S THEN Append(f[i - 1], q[i]) ELSE f[i - 1]
           Bad == {n \in 0..Len(q) : ~Upto(n)}
<1>0. Len(q) \in Nat
  BY LenProperties
<1>1. SUFFICES ASSUME Bad # {} PROVE FALSE
  <2>1. Len(q) \in 0..Len(q)
    BY <1>0
  <2>2. Upto(Len(q))
    BY <1>1, <2>1
  <2> QED
    BY <2>2 DEF Picks
<1>2. PICK n \in Bad : \A k \in Bad : n <= k
  <2>1. Bad \subseteq Nat
    OBVIOUS
  <2> HIDE DEF Bad
  <2> QED
    BY <1>1, <2>1, LeastNat
<1>3. n \in 0..Len(q) /\ ~Upto(n)
  OBVIOUS
<1>4. CASE n = 0
  <2> DEFINE f == [i \in 0..0 |-> <<>>]
  <2>1. f \in [0..0 -> Seq(A \cap S)] /\ f[0] = <<>>
    OBVIOUS
  <2>2. 1..0 = {}
    OBVIOUS
  <2>3. Upto(0)
    BY <2>1, <2>2
  <2> HIDE DEF Upto
  <2> QED
    BY <1>3, <1>4, <2>3
<1>5. CASE n # 0
  <2>1. n - 1 \in 0..Len(q) /\ ~(n <= n - 1)
    BY <1>0, <1>3, <1>5
  <2>2. Upto(n - 1)
    <3> HIDE DEF Upto
    <3> QED
      BY <1>2, <2>1
  <2>3. PICK g \in [0..n - 1 -> Seq(A \cap S)] :
           /\ g[0] = <<>>
           /\ \A i \in 1..n - 1 :
                 g[i] = IF q[i] \in S THEN Append(g[i - 1], q[i]) ELSE g[i - 1]
    BY <2>2
  <2> DEFINE last == IF q[n] \in S THEN Append(g[n - 1], q[n]) ELSE g[n - 1]
             f == [i \in 0..n |-> IF i = n THEN last ELSE g[i]]
  <2>4. n \in 1..Len(q) /\ q[n] \in A
    <3>1. n \in 1..Len(q)
      BY <1>0, <1>3, <1>5
    <3> QED
      BY <3>1, ElementOfSeq
  <2>5. g[n - 1] \in Seq(A \cap S)
    BY <2>3, <2>4, <1>0
  <2>6. last \in Seq(A \cap S)
    BY <2>4, <2>5, AppendProperties
  <2> HIDE DEF last
  <2>7. f \in [0..n -> Seq(A \cap S)]
    BY <1>0, <2>4, <2>6
  <2>8. f[0] = <<>>
    BY <2>3, <2>4, <1>0
  <2>9. ASSUME NEW i \in 1..n
        PROVE  f[i] = IF q[i] \in S THEN Append(f[i - 1], q[i]) ELSE f[i - 1]
    <3>1. f[i - 1] = g[i - 1]
      BY <1>0, <2>4
    <3>2. CASE i = n
      BY <2>4, <1>0, <3>1, <3>2 DEF last
    <3>3. CASE i # n
      <4>1. i \in 1..n - 1 /\ f[i] = g[i]
        BY <1>0, <2>4, <3>3
      <4> HIDE DEF f
      <4> QED
        BY <2>3, <3>1, <4>1
    <3> QED
      BY <3>2, <3>3
  <2>10. Upto(n)
    <3> HIDE DEF f
    <3> QED
      BY <2>7, <2>8, <2>9
  <2> HIDE DEF Upto
  <2> QED
    BY <1>3, <2>10
<1> QED
  BY <1>4, <1>5

\* There is one such function only.
LEMMA PicksAgree ==
  ASSUME NEW A, NEW q \in Seq(A), NEW S, NEW f, NEW g, Picks(f, q, S), Picks(g, q, S)
  PROVE  \A i \in 0..Len(q) : f[i] = g[i]
<1> DEFINE Bad == {i \in 0..Len(q) : f[i] # g[i]}
<1>0. Len(q) \in Nat
  BY LenProperties
<1>1. SUFFICES ASSUME Bad # {} PROVE FALSE
  OBVIOUS
<1>2. PICK n \in Bad : \A k \in Bad : n <= k
  <2>1. Bad \subseteq Nat
    OBVIOUS
  <2> HIDE DEF Bad
  <2> QED
    BY <1>1, <2>1, LeastNat
<1>3. n # 0
  BY DEF Picks
<1>4. n \in 1..Len(q) /\ n - 1 \in 0..Len(q) /\ ~(n <= n - 1)
  BY <1>0, <1>3
<1>5. f[n - 1] = g[n - 1]
  BY <1>2, <1>4
<1>6. f[n] = g[n]
  BY <1>4, <1>5 DEF Picks
<1> QED
  BY <1>6

\* Only is the last value of any such function.
LEMMA OnlyPicks ==
  ASSUME NEW A, NEW q \in Seq(A), NEW S, NEW f, Picks(f, q, S)
  PROVE  Only(q, S) = f[Len(q)]
<1> DEFINE E(g) == [i \in 0..Len(q) |->
                IF i = 0 THEN <<>>
                ELSE IF q[i] \in S THEN Append(g[i - 1], q[i]) ELSE g[i - 1]]
           upto == CHOOSE g : g = E(g)
<1>0. Len(q) \in Nat
  BY LenProperties
<1>1. PICK g \in [0..Len(q) -> Seq(A \cap S)] : Picks(g, q, S)
  BY PicksExist
<1>2. g = E(g)
  <2>1. \A i \in 0..Len(q) : i = 0 \/ i \in 1..Len(q)
    BY <1>0
  <2>2. \A i \in 0..Len(q) : g[i] = E(g)[i]
    BY <1>0, <1>1, <2>1 DEF Picks
  <2>3. DOMAIN E(g) = 0..Len(q)
    OBVIOUS
  <2> HIDE DEF E
  <2> QED
    <3>1. E(g) = [i \in 0..Len(q) |-> E(g)[i]]
      BY DEF E
    <3> QED
      BY <2>2, <3>1
<1>3. upto = E(upto)
  BY <1>2
<1>4. Picks(upto, q, S)
  <2> HIDE DEF upto
  <2>1. upto[0] = <<>>
    BY <1>0, <1>3
  <2>2. ASSUME NEW i \in 1..Len(q)
        PROVE  upto[i] = IF q[i] \in S THEN Append(upto[i - 1], q[i]) ELSE upto[i - 1]
    <3>1. i \in 0..Len(q) /\ i # 0
      BY <1>0
    <3>2. upto[i] = E(upto)[i]
      BY <1>3
    <3> QED
      BY <3>1, <3>2
  <2> QED
    BY <2>1, <2>2 DEF Picks
<1>5. Only(q, S) = upto[Len(q)]
  BY DEF Only
<1> HIDE DEF upto
<1> QED
  BY <1>0, <1>4, <1>5, PicksAgree

\* What Only returns is a sequence of elements of the set.
LEMMA OnlyType ==
  ASSUME NEW A, NEW q \in Seq(A), NEW S
  PROVE  Only(q, S) \in Seq(A \cap S)
<1>1. PICK f \in [0..Len(q) -> Seq(A \cap S)] : Picks(f, q, S)
  BY PicksExist
<1>2. Len(q) \in 0..Len(q)
  BY LenProperties
<1> QED
  BY <1>1, <1>2, OnlyPicks

\* Of nothing it picks nothing.
LEMMA OnlyNone ==
  ASSUME NEW S
  PROVE  Only(<<>>, S) = <<>>
<1>1. <<>> \in Seq({}) /\ Len(<<>>) = 0
  OBVIOUS
<1> DEFINE f == [i \in 0..0 |-> <<>>]
<1>2. Picks(f, <<>>, S) /\ f[0] = <<>>
  BY <1>1 DEF Picks
<1> HIDE DEF f
<1> QED
  BY <1>1, <1>2, OnlyPicks

\* Of one element it picks that, or nothing.
LEMMA OnlyOne ==
  ASSUME NEW x, NEW S
  PROVE  Only(<<x>>, S) = IF x \in S THEN <<x>> ELSE <<>>
<1>1. <<x>> \in Seq({x}) /\ Len(<<x>>) = 1 /\ <<x>>[1] = x
  OBVIOUS
<1> DEFINE f == [i \in 0..1 |-> IF i = 0 THEN <<>> ELSE IF x \in S THEN <<x>> ELSE <<>>]
<1>2. f[0] = <<>> /\ f[1] = IF x \in S THEN <<x>> ELSE <<>>
  OBVIOUS
<1>3. Append(<<>>, x) = <<x>>
  OBVIOUS
<1> HIDE DEF f
<1>4. Picks(f, <<x>>, S)
  <2>1. \A i \in 1..1 : i = 1 /\ i - 1 = 0
    OBVIOUS
  <2> QED
    BY <1>1, <1>2, <1>3, <2>1 DEF Picks
<1> QED
  BY <1>1, <1>2, <1>4, OnlyPicks

\* Appending to the second of two sequences is appending to both.
LEMMA AppendLater ==
  ASSUME NEW A, NEW p \in Seq(A), NEW q \in Seq(A), NEW x \in A
  PROVE  p \o Append(q, x) = Append(p \o q, x)
OBVIOUS

\* Of two sequences it picks what it picks of the one and then of the other.
LEMMA OnlyConcat ==
  ASSUME NEW A, NEW p \in Seq(A), NEW q \in Seq(A), NEW S
  PROVE  Only(p \o q, S) = Only(p, S) \o Only(q, S)
<1>0. Len(p) \in Nat /\ Len(q) \in Nat
  BY LenProperties
<1>1. PICK f : f \in [0..Len(p) -> Seq(A \cap S)] /\ Picks(f, p, S)
  BY PicksExist
<1>2. PICK g : g \in [0..Len(q) -> Seq(A \cap S)] /\ Picks(g, q, S)
  BY PicksExist
<1>3. /\ p \o q \in Seq(A)
      /\ Len(p \o q) = Len(p) + Len(q)
      /\ \A k \in 1..Len(p) + Len(q) : (p \o q)[k] = IF k <= Len(p) THEN p[k] ELSE q[k - Len(p)]
  BY ConcatProperties
<1>4. f[Len(p)] \in Seq(A \cap S) /\ \A k \in 0..Len(q) : g[k] \in Seq(A \cap S)
  <2>1. Len(p) \in 0..Len(p)
    BY <1>0
  <2> QED
    BY <1>1, <1>2, <2>1
<1> DEFINE h == [i \in 0..Len(p) + Len(q) |->
                    IF i <= Len(p) THEN f[i] ELSE f[Len(p)] \o g[i - Len(p)]]
<1>5. \A k \in Len(p)..Len(p) + Len(q) : h[k] = f[Len(p)] \o g[k - Len(p)]
  <2>1. g[0] = <<>> /\ f[Len(p)] \o <<>> = f[Len(p)]
    BY <1>2, <1>4, ConcatEmptySeq DEF Picks
  <2> TAKE k \in Len(p)..Len(p) + Len(q)
  <2>2. CASE k = Len(p)
    <3>1. k - Len(p) = 0 /\ h[k] = f[Len(p)]
      BY <1>0, <2>2
    <3> HIDE DEF h
    <3> QED
      BY <2>1, <3>1
  <2>3. CASE k # Len(p)
    <3>1. k \in 0..Len(p) + Len(q) /\ ~(k <= Len(p))
      BY <1>0, <2>3
    <3> QED
      BY <3>1
  <2> HIDE DEF h
  <2> QED
    BY <2>2, <2>3
<1>6. \A k \in 0..Len(p) : h[k] = f[k]
  BY <1>0
<1> HIDE DEF h
<1>7. Picks(h, p \o q, S)
  <2>1. h[0] = <<>>
    BY <1>0, <1>1, <1>6 DEF Picks
  <2>2. ASSUME NEW i \in 1..Len(p) + Len(q)
        PROVE  h[i] = IF (p \o q)[i] \in S THEN Append(h[i - 1], (p \o q)[i]) ELSE h[i - 1]
    <3>1. CASE i <= Len(p)
      <4>1. i \in 1..Len(p) /\ h[i] = f[i] /\ h[i - 1] = f[i - 1] /\ (p \o q)[i] = p[i]
        BY <1>0, <1>3, <1>6, <3>1
      <4> QED
        BY <1>1, <4>1 DEF Picks
    <3>2. CASE i > Len(p)
      <4> DEFINE k == i - Len(p)
      <4>1. /\ k \in 1..Len(q) /\ k - 1 = (i - 1) - Len(p) /\ k - 1 \in 0..Len(q)
            /\ i \in Len(p)..Len(p) + Len(q) /\ i - 1 \in Len(p)..Len(p) + Len(q)
        BY <1>0, <3>2
      <4>2. h[i] = f[Len(p)] \o g[k] /\ h[i - 1] = f[Len(p)] \o g[k - 1]
        BY <1>5, <4>1
      <4>3. (p \o q)[i] = q[k]
        BY <1>0, <1>3, <3>2
      <4>4. g[k] = IF q[k] \in S THEN Append(g[k - 1], q[k]) ELSE g[k - 1]
        BY <1>2, <4>1 DEF Picks
      <4>5. q[k] \in A /\ g[k - 1] \in Seq(A \cap S)
        BY <1>4, <4>1, ElementOfSeq
      <4> HIDE DEF k
      <4>6. CASE q[k] \in S
        <5>1. q[k] \in A \cap S
          BY <4>5, <4>6
        <5>2. f[Len(p)] \o Append(g[k - 1], q[k]) = Append(f[Len(p)] \o g[k - 1], q[k])
          <6> DEFINE T == A \cap S
                     a == f[Len(p)]
                     b == g[k - 1]
                     x == q[k]
          <6>1. a \in Seq(T) /\ b \in Seq(T) /\ x \in T
            BY <1>4, <4>5, <5>1
          <6> HIDE DEF T, a, b, x
          <6>2. a \o Append(b, x) = Append(a \o b, x)
            BY <6>1, AppendLater
          <6> QED
            BY <6>2 DEF a, b, x
        <5> QED
          BY <4>2, <4>3, <4>4, <4>6, <5>2
      <4>7. CASE q[k] \notin S
        BY <4>2, <4>3, <4>4, <4>7
      <4> QED
        BY <4>6, <4>7
    <3> QED
      BY <1>0, <3>1, <3>2
  <2> QED
    BY <1>3, <2>1, <2>2 DEF Picks
<1>8. Only(p \o q, S) = h[Len(p) + Len(q)]
  BY <1>3, <1>7, OnlyPicks
<1>9. h[Len(p) + Len(q)] = f[Len(p)] \o g[Len(q)]
  <2> DEFINE k == Len(p) + Len(q)
  <2>1. k \in Len(p)..Len(p) + Len(q) /\ k - Len(p) = Len(q)
    BY <1>0
  <2> HIDE DEF k
  <2>2. h[k] = f[Len(p)] \o g[k - Len(p)]
    BY <1>5, <2>1
  <2> QED
    BY <2>1, <2>2 DEF k
<1> QED
  BY <1>1, <1>2, <1>8, <1>9, OnlyPicks

\* What Only picks of a sequence is what it picks of the head and of the rest.
LEMMA OnlyHead ==
  ASSUME NEW A, NEW q \in Seq(A), q # <<>>, NEW S
  PROVE  Only(q, S) = IF Head(q) \in S THEN <<Head(q)>> \o Only(Tail(q), S) ELSE Only(Tail(q), S)
<1> DEFINE first == <<Head(q)>>
           rest == Tail(q)
<1>1. Head(q) \in A /\ Tail(q) \in Seq(A) /\ q = first \o rest
  OBVIOUS
<1>2. first \in Seq(A) /\ rest \in Seq(A)
  BY <1>1
<1>3. Only(q, S) = Only(first, S) \o Only(Tail(q), S)
  <2> HIDE DEF first, rest
  <2>1. Only(first \o rest, S) = Only(first, S) \o Only(rest, S)
    BY <1>2, OnlyConcat
  <2> QED
    BY <1>1, <2>1 DEF rest
<1>4. Only(Tail(q), S) \in Seq(A \cap S)
  BY <1>1, OnlyType
<1>5. <<>> \o Only(Tail(q), S) = Only(Tail(q), S)
  BY <1>4, ConcatEmptySeq
<1> QED
  BY <1>3, <1>5, OnlyOne

\* Of a sequence with one more element it picks that one more, or not.
LEMMA OnlyAppend ==
  ASSUME NEW A, NEW q \in Seq(A), NEW x \in A, NEW S
  PROVE  Only(Append(q, x), S) = IF x \in S THEN Append(Only(q, S), x) ELSE Only(q, S)
<1> DEFINE one == <<x>>
<1>1. one \in Seq(A) /\ Append(q, x) = q \o one
  OBVIOUS
<1>2. Only(q \o one, S) = Only(q, S) \o Only(one, S)
  <2> HIDE DEF one
  <2> QED
    BY <1>1, OnlyConcat
<1>3. Only(q, S) \in Seq(A \cap S)
  BY OnlyType
<1>4. Only(q, S) \o <<>> = Only(q, S)
  BY <1>3, ConcatEmptySeq
<1>5. ASSUME x \in S
      PROVE  Only(q, S) \o <<x>> = Append(Only(q, S), x)
  <2> DEFINE a == Only(q, S)
             T == A \cap S
  <2>1. a \in Seq(T) /\ x \in T
    BY <1>3, <1>5
  <2> HIDE DEF a, T
  <2>2. a \o <<x>> = Append(a, x)
    BY <2>1
  <2> QED
    BY <2>2 DEF a
<1> QED
  BY <1>1, <1>2, <1>4, <1>5, OnlyOne

\* The same, with the one more as a sequence.
LEMMA OnlyMore ==
  ASSUME NEW A, NEW q \in Seq(A), NEW x \in A, NEW S
  PROVE  Only(q \o <<x>>, S) = IF x \in S THEN Append(Only(q, S), x) ELSE Only(q, S)
<1>1. q \o <<x>> = Append(q, x)
  OBVIOUS
<1>2. Only(Append(q, x), S) = IF x \in S THEN Append(Only(q, S), x) ELSE Only(q, S)
  BY OnlyAppend
<1> QED
  BY <1>1, <1>2

\* Where there is nothing to pick it picks nothing.
LEMMA OnlyOthers ==
  ASSUME NEW A, NEW q \in Seq(A), NEW S, A \cap S = {}
  PROVE  Only(q, S) = <<>>
<1>1. Only(q, S) \in Seq({})
  BY OnlyType
<1> QED
  BY <1>1

\* The elements of a list that is one longer.
LEMMA AppendElements ==
  ASSUME NEW S, NEW q \in Seq(S), NEW x \in S
  PROVE  /\ Append(q, x) \in Seq(S)
         /\ ToSet(Append(q, x)) = ToSet(q) \cup {x}
         /\ IsInjective(q) /\ x \notin ToSet(q) => IsInjective(Append(q, x))
<1> DEFINE r == Append(q, x)
<1>1. /\ r \in Seq(S) /\ Len(r) = Len(q) + 1 /\ Len(q) \in Nat
      /\ \A i \in 1 .. Len(q) : r[i] = q[i]
      /\ r[Len(q) + 1] = x
  BY AppendProperties, LenProperties
<1>2. DOMAIN r = 1 .. Len(q) + 1 /\ DOMAIN q = 1 .. Len(q)
  BY <1>1, LenProperties
<1> HIDE DEF r
<1>3. ToSet(r) = ToSet(q) \cup {x}
  <2>1. \A i \in DOMAIN r : i \in DOMAIN q \/ i = Len(q) + 1
    BY <1>1, <1>2
  <2>2. \A i \in DOMAIN q : i \in DOMAIN r
    BY <1>1, <1>2
  <2>3. Len(q) + 1 \in DOMAIN r
    BY <1>1, <1>2
  <2> QED
    BY <1>1, <1>2, <2>1, <2>2, <2>3 DEF ToSet
<1>4. ASSUME IsInjective(q), x \notin ToSet(q) PROVE IsInjective(r)
  <2> SUFFICES ASSUME NEW i \in DOMAIN r, NEW j \in DOMAIN r, r[i] = r[j] PROVE i = j
    BY DEF IsInjective
  <2>1. \A k \in DOMAIN q : q[k] # x
    BY <1>4 DEF ToSet
  <2> QED
    BY <1>1, <1>2, <1>4, <2>1 DEF IsInjective
<1> QED
  BY <1>1, <1>3, <1>4 DEF r

\* What is left of a list without repetition.
LEMMA OnlyElements ==
  ASSUME NEW A, NEW q \in Seq(A), NEW S, IsInjective(q)
  PROVE  /\ Only(q, S) \in Seq(A)
         /\ ToSet(Only(q, S)) = ToSet(q) \cap S
         /\ IsInjective(Only(q, S))
<1>1. PICK f \in [0..Len(q) -> Seq(A \cap S)] : Picks(f, q, S)
  BY PicksExist
<1>2. Only(q, S) = f[Len(q)]
  BY <1>1, OnlyPicks
<1> DEFINE upto(i) == {q[j] : j \in 1..i}
           T == {i \in 0..Len(q) : ToSet(f[i]) = upto(i) \cap S /\ IsInjective(f[i])}
<1>3. Len(q) \in Nat /\ DOMAIN q = 1..Len(q) /\ \A i \in 1..Len(q) : q[i] \in A
  BY LenProperties, ElementOfSeq
<1>9. \A i \in 0..Len(q) : i # Len(q) => i + 1 \in 1..Len(q) /\ (i + 1) - 1 = i /\ i + 1 \in 0..Len(q)
  <2>1. Len(q) \in Nat
    BY <1>3
  <2> QED
    BY ONLY <2>1
<1>4. 0 \in T
  <2>1. f[0] = <<>>
    BY <1>1 DEF Picks
  <2>2. DOMAIN <<>> = {} /\ 1..0 = {}
    OBVIOUS
  <2> QED
    BY <1>3, <2>1, <2>2 DEF ToSet, IsInjective
<1>5. ASSUME NEW i \in 0..Len(q), i # Len(q), i \in T PROVE i + 1 \in T
  <2>1. i + 1 \in 1..Len(q) /\ (i + 1) - 1 = i /\ i + 1 \in 0..Len(q)
    BY <1>9, <1>5
  <2>2. f[i + 1] = IF q[i + 1] \in S THEN Append(f[i], q[i + 1]) ELSE f[i]
    BY <1>1, <2>1 DEF Picks
  <2>3. upto(i + 1) = upto(i) \cup {q[i + 1]}
    <3>1. 1..(i + 1) = 1..i \cup {i + 1}
      BY <2>1
    <3> QED
      BY <3>1
  <2>4. q[i + 1] \notin upto(i)
    <3>1. \A j \in 1..i : j \in DOMAIN q /\ j # i + 1
      BY <1>3, <2>1
    <3>2. i + 1 \in DOMAIN q
      BY <1>3, <2>1
    <3> QED
      BY <3>1, <3>2 DEF IsInjective
  <2>5. f[i] \in Seq(A \cap S)
    BY <1>1
  <2> HIDE DEF upto
  <2>6. CASE q[i + 1] \in S
    <3>1. q[i + 1] \in A \cap S
      BY <1>3, <2>1, <2>6
    <3>2. q[i + 1] \notin ToSet(f[i])
      BY <1>5, <2>4
    <3>3. ToSet(f[i + 1]) = ToSet(f[i]) \cup {q[i + 1]} /\ IsInjective(f[i + 1])
      BY <1>5, <2>2, <2>5, <2>6, <3>1, <3>2, AppendElements
    <3> QED
      BY <1>5, <2>1, <2>3, <2>6, <3>3
  <2>7. CASE q[i + 1] \notin S
    BY <1>5, <2>1, <2>2, <2>3, <2>7
  <2> QED
    BY <2>6, <2>7
<1> HIDE DEF T
<1>6. Len(q) \in T
  <2>1. \A i \in 0..Len(q) : i \in T
    BY <1>3, <1>4, <1>5, Upwards
  <2> QED
    BY <1>3, <2>1
<1>7. upto(Len(q)) = ToSet(q)
  BY <1>3 DEF ToSet
<1>8. Only(q, S) \in Seq(A)
  <2>1. Only(q, S) \in Seq(A \cap S)
    BY OnlyType
  <2> QED
    BY <2>1
<1> QED
  BY <1>2, <1>6, <1>7, <1>8 DEF T

-----------------------------------------------------------------------------
(* What comes before what.                                                 *)

Precedes(q, a, b) == \E i, j \in 1..Len(q) : i < j /\ q[i] = a /\ q[j] = b

\* One more element is after all others.
LEMMA AppendPrecedes ==
  ASSUME NEW A, NEW q \in Seq(A), NEW x \in A
  PROVE  \A a, b : Precedes(Append(q, x), a, b) <=> Precedes(q, a, b) \/ (b = x /\ a \in ToSet(q))
<1> DEFINE r == Append(q, x)
<1>1. /\ r \in Seq(A) /\ Len(r) = Len(q) + 1 /\ Len(q) \in Nat
      /\ \A i \in 1 .. Len(q) : r[i] = q[i]
      /\ r[Len(q) + 1] = x /\ DOMAIN q = 1 .. Len(q)
  BY AppendProperties, LenProperties
<1> HIDE DEF r
<1> TAKE a, b
<1>2. ASSUME Precedes(r, a, b) PROVE Precedes(q, a, b) \/ (b = x /\ a \in ToSet(q))
  <2>1. PICK i \in 1..Len(r), j \in 1..Len(r) : i < j /\ r[i] = a /\ r[j] = b
    BY <1>2 DEF Precedes
  <2>2. i \in 1..Len(q) /\ q[i] = a
    BY <1>1, <2>1
  <2>3. CASE j = Len(q) + 1
    BY <1>1, <2>1, <2>2, <2>3 DEF ToSet
  <2>4. CASE j # Len(q) + 1
    <3>1. j \in 1..Len(q) /\ q[j] = b
      BY <1>1, <2>1, <2>4
    <3> QED
      BY <2>1, <2>2, <3>1 DEF Precedes
  <2> QED
    BY <2>3, <2>4
<1>3. ASSUME Precedes(q, a, b) PROVE Precedes(r, a, b)
  <2>1. PICK i \in 1..Len(q), j \in 1..Len(q) : i < j /\ q[i] = a /\ q[j] = b
    BY <1>3 DEF Precedes
  <2>2. i \in 1..Len(r) /\ j \in 1..Len(r) /\ r[i] = a /\ r[j] = b
    BY <1>1, <2>1
  <2> QED
    BY <2>1, <2>2 DEF Precedes
<1>4. ASSUME b = x, a \in ToSet(q) PROVE Precedes(r, a, b)
  <2>1. PICK i \in 1..Len(q) : q[i] = a
    BY <1>1, <1>4 DEF ToSet
  <2>2. /\ i \in 1..Len(r) /\ Len(q) + 1 \in 1..Len(r) /\ i < Len(q) + 1
        /\ r[i] = a /\ r[Len(q) + 1] = b
    BY <1>1, <1>4, <2>1
  <2> QED
    BY <2>2 DEF Precedes
<1> QED
  BY <1>2, <1>3, <1>4 DEF r

\* What is left of a list is in the order it was in.
LEMMA OnlyPrecedes ==
  ASSUME NEW A, NEW q \in Seq(A), NEW S, IsInjective(q)
  PROVE  \A a, b : Precedes(Only(q, S), a, b) <=> Precedes(q, a, b) /\ a \in S /\ b \in S
<1>1. PICK f \in [0..Len(q) -> Seq(A \cap S)] : Picks(f, q, S)
  BY PicksExist
<1>2. Only(q, S) = f[Len(q)]
  BY <1>1, OnlyPicks
<1> DEFINE upto(i) == {q[j] : j \in 1..i}
           Upto(i, a, b) == \E j, k \in 1..i : j < k /\ q[j] = a /\ q[k] = b
           T == {i \in 0..Len(q) :
                   /\ ToSet(f[i]) = upto(i) \cap S
                   /\ \A a, b : Precedes(f[i], a, b) <=> Upto(i, a, b) /\ a \in S /\ b \in S}
<1>3. Len(q) \in Nat /\ DOMAIN q = 1..Len(q) /\ \A i \in 1..Len(q) : q[i] \in A
  BY LenProperties, ElementOfSeq
<1>4. \A i \in 0..Len(q) : i # Len(q) => i + 1 \in 1..Len(q) /\ (i + 1) - 1 = i /\ i + 1 \in 0..Len(q)
  <2>1. Len(q) \in Nat
    BY <1>3
  <2> QED
    BY ONLY <2>1
<1>5. 0 \in T
  <2>1. f[0] = <<>>
    BY <1>1 DEF Picks
  <2>2. DOMAIN <<>> = {} /\ 1..0 = {} /\ Len(<<>>) = 0
    OBVIOUS
  <2> QED
    BY <1>3, <2>1, <2>2 DEF ToSet, Precedes
<1>6. ASSUME NEW i \in 0..Len(q), i # Len(q), i \in T PROVE i + 1 \in T
  <2>1. i + 1 \in 1..Len(q) /\ (i + 1) - 1 = i /\ i + 1 \in 0..Len(q)
    BY <1>4, <1>6
  <2>2. f[i + 1] = IF q[i + 1] \in S THEN Append(f[i], q[i + 1]) ELSE f[i]
    BY <1>1, <2>1 DEF Picks
  <2>3. 1..(i + 1) = 1..i \cup {i + 1} /\ \A j \in 1..i : j < i + 1
    BY <2>1
  <2>4. upto(i + 1) = upto(i) \cup {q[i + 1]}
    BY <2>3
  <2>5. \A a, b : Upto(i + 1, a, b) <=> Upto(i, a, b) \/ (b = q[i + 1] /\ a \in upto(i))
    <3>1. \A j, k \in 1..(i + 1) : j < k => j \in 1..i /\ (k \in 1..i \/ k = i + 1)
      BY <2>1
    <3> QED
      BY <2>3, <3>1
  <2>6. f[i] \in Seq(A \cap S)
    BY <1>1
  <2>7. ToSet(f[i]) = upto(i) \cap S
    BY <1>6
  <2>8. \A a, b : Precedes(f[i], a, b) <=> Upto(i, a, b) /\ a \in S /\ b \in S
    BY <1>6
  <2> HIDE DEF upto, Upto
  <2>9. CASE q[i + 1] \in S
    <3>1. q[i + 1] \in A \cap S
      BY <1>3, <2>1, <2>9
    <3>2. PICK x : x = q[i + 1]
      OBVIOUS
    <3>3. ToSet(f[i + 1]) = ToSet(f[i]) \cup {x}
      BY <2>2, <2>6, <2>9, <3>1, <3>2, AppendElements
    <3>4. \A a, b : Precedes(f[i + 1], a, b) <=> Precedes(f[i], a, b) \/ (b = x /\ a \in ToSet(f[i]))
      BY <2>2, <2>6, <2>9, <3>1, <3>2, AppendPrecedes
    <3> QED
      BY <2>1, <2>4, <2>5, <2>7, <2>8, <2>9, <3>2, <3>3, <3>4
  <2>10. CASE q[i + 1] \notin S
    BY <2>1, <2>2, <2>4, <2>5, <2>7, <2>8, <2>10
  <2> QED
    BY <2>9, <2>10
<1> HIDE DEF T
<1>7. Len(q) \in T
  <2>1. \A i \in 0..Len(q) : i \in T
    BY <1>3, <1>5, <1>6, Upwards
  <2> QED
    BY <1>3, <2>1
<1>8. \A a, b : Precedes(f[Len(q)], a, b) <=> Upto(Len(q), a, b) /\ a \in S /\ b \in S
  BY <1>7 DEF T
<1>9. \A a, b : Precedes(q, a, b) <=> Upto(Len(q), a, b)
  BY DEF Precedes
<1> QED
  BY <1>2, <1>8, <1>9

\* The first of a list is before the others, and nothing is before itself or
\* before what it is after.
LEMMA PrecedesOrder ==
  ASSUME NEW A, NEW q \in Seq(A), IsInjective(q)
  PROVE  /\ \A a, b : Precedes(q, a, b) => a # b /\ a \in ToSet(q) /\ b \in ToSet(q) /\ ~Precedes(q, b, a)
         /\ q # <<>> => Head(q) \in ToSet(q) /\ \A a \in ToSet(q) : a = Head(q) \/ Precedes(q, Head(q), a)
<1>1. Len(q) \in Nat /\ DOMAIN q = 1..Len(q)
  BY LenProperties
<1>2. ASSUME NEW a, NEW b, Precedes(q, a, b)
      PROVE  a # b /\ a \in ToSet(q) /\ b \in ToSet(q) /\ ~Precedes(q, b, a)
  <2>1. PICK i \in 1..Len(q), j \in 1..Len(q) : i < j /\ q[i] = a /\ q[j] = b
    BY <1>2 DEF Precedes
  <2>2. \A k \in 1..Len(q) : (q[k] = a => k = i) /\ (q[k] = b => k = j)
    BY <1>1, <2>1 DEF IsInjective
  <2>3. i # j /\ ~(j < i)
    BY <1>1, <2>1
  <2> QED
    BY <1>1, <2>1, <2>2, <2>3 DEF ToSet, Precedes
<1>3. ASSUME q # <<>>
      PROVE  Head(q) \in ToSet(q) /\ \A a \in ToSet(q) : a = Head(q) \/ Precedes(q, Head(q), a)
  <2>1. Head(q) = q[1] /\ 1 \in 1..Len(q)
    BY <1>1, <1>3, EmptySeq
  <2>2. \A i \in 1..Len(q) : i = 1 \/ 1 < i
    BY <1>1
  <2>3. ASSUME NEW a \in ToSet(q) PROVE a = Head(q) \/ Precedes(q, Head(q), a)
    <3>1. PICK i \in 1..Len(q) : q[i] = a
      BY <1>1 DEF ToSet
    <3> QED
      BY <2>1, <2>2, <3>1 DEF Precedes
  <2> QED
    BY <1>1, <2>1, <2>3 DEF ToSet
<1> QED
  BY <1>2, <1>3

\* What is before what is before something is before it.
LEMMA PrecedesOn ==
  ASSUME NEW A, NEW q \in Seq(A), IsInjective(q), NEW a, NEW b, NEW c,
         Precedes(q, a, b), Precedes(q, b, c)
  PROVE  Precedes(q, a, c)
<1>1. Len(q) \in Nat /\ DOMAIN q = 1..Len(q)
  BY LenProperties
<1>2. PICK i \in 1..Len(q), j \in 1..Len(q) : i < j /\ q[i] = a /\ q[j] = b
  BY DEF Precedes
<1>3. PICK k \in 1..Len(q), l \in 1..Len(q) : k < l /\ q[k] = b /\ q[l] = c
  BY DEF Precedes
<1>4. j = k
  BY <1>1, <1>2, <1>3 DEF IsInjective
<1>5. i < l
  BY <1>1, <1>2, <1>3, <1>4
<1> QED
  BY <1>2, <1>3, <1>5 DEF Precedes

-----------------------------------------------------------------------------
(* Sums and divisions.                                                     *)

\* A function on 1..n is a sequence of n elements.
LEMMA SeqMade ==
  ASSUME NEW n \in Nat, NEW A, NEW f \in [1..n -> A]
  PROVE  f \in Seq(A) /\ Len(f) = n /\ DOMAIN f = 1..n
OBVIOUS

\* Division leaves a remainder less than the divisor.
LEMMA DivMod ==
  ASSUME NEW a \in Int, NEW b \in Nat \ {0}
  PROVE  /\ a \div b \in Int /\ a % b \in 0..(b - 1)
         /\ a = (b * (a \div b)) + (a % b)
OBVIOUS

\* Sums are taken from left to right (getfacts).
LEMMA TotalRuns ==
  ASSUME NEW q \in Seq(Int)
  PROVE  /\ Total(q, 0) = 0
         /\ \A k \in 0..Len(q) : Total(q, k) \in Int
         /\ \A k \in 1..Len(q) : Total(q, k) = Total(q, k - 1) + q[k]
<1> DEFINE n == Len(q)
           E(f) == [i \in 0..n |-> IF i = 0 THEN 0 ELSE f[i - 1] + q[i]]
           u == CHOOSE f : f = E(f)
           G == [k \in 0..n |-> Int]
           round == [p \in Int \X (0..n) |-> p[1] + q[p[2] + 1]]
<1>1. n \in Nat /\ \A k \in 1..n : q[k] \in Int
  OBVIOUS
<1>2. Leads(round, G, Int, 0, n)
  <2>1. ASSUME NEW k \in 0..n, k # n, NEW x \in Int
        PROVE  round[<<x, k>>] \in Int
    <3>1. k + 1 \in 1..n /\ <<x, k>> \in Int \X (0..n)
      BY <1>1, <2>1
    <3> QED
      BY <1>1, <3>1
  <2> QED
    BY <2>1 DEF Leads
<1>3. PICK f \in [0..n -> Int] :
         f[0] = 0 /\ \A i \in 0..n : i # 0 => f[i] = round[<<f[i - 1], i - 1>>]
  <2>1. 0 \in Nat /\ 0 <= n /\ 0 \in G[0]
    BY <1>1
  <2> HIDE DEF n, G, round
  <2> QED
    BY <1>1, <1>2, <2>1, LoopRuns
<1>4. ASSUME NEW i \in 0..n, i # 0 PROVE f[i] = f[i - 1] + q[i]
  <2>1. i - 1 \in 0..n /\ <<f[i - 1], i - 1>> \in Int \X (0..n) /\ (i - 1) + 1 = i
    BY <1>1, <1>3, <1>4
  <2> QED
    BY <1>3, <1>4, <2>1
<1>5. f = E(f)
  BY <1>3, <1>4
<1>6. u = E(u)
  <2> HIDE DEF E
  <2> QED
    BY <1>5
<1>7. \A k : Total(q, k) = u[k]
  BY DEF Total
<1> HIDE DEF u
<1>8. u[0] = 0 /\ \A i \in 1..n : u[i] = u[i - 1] + q[i]
  BY <1>1, <1>6
<1> DEFINE S == {k \in 0..n : u[k] \in Int}
<1>9. \A k \in 0..n : k \in S
  <2>1. 0 \in S
    BY <1>1, <1>8
  <2>2. ASSUME NEW k \in 0..n, k # n, k \in S PROVE k + 1 \in S
    <3>1. k + 1 \in 1..n /\ (k + 1) - 1 = k /\ k + 1 \in 0..n
      BY <1>1, <2>2
    <3>2. u[k + 1] = u[k] + q[k + 1]
      BY <1>8, <3>1
    <3> QED
      BY <1>1, <2>2, <3>1, <3>2
  <2> HIDE DEF S, n
  <2> QED
    BY <1>1, <2>1, <2>2, Upwards
<1> QED
  BY <1>7, <1>8, <1>9

\* A sum depends on the numbers that are summed.
LEMMA TotalSame ==
  ASSUME NEW q \in Seq(Int), NEW r \in Seq(Int), NEW n \in Nat, n <= Len(q), n <= Len(r),
         \A i \in 1..n : q[i] = r[i]
  PROVE  \A k \in 0..n : Total(q, k) = Total(r, k)
<1> DEFINE S == {k \in 0..n : Total(q, k) = Total(r, k)}
<1>1. 0 \in S
  BY TotalRuns
<1>2. ASSUME NEW k \in 0..n, k # n, k \in S PROVE k + 1 \in S
  <2>1. k + 1 \in 1..n /\ (k + 1) - 1 = k /\ k + 1 \in 1..Len(q) /\ k + 1 \in 1..Len(r)
    BY <1>2
  <2>2. Total(q, k + 1) = Total(q, k) + q[k + 1] /\ Total(r, k + 1) = Total(r, k) + r[k + 1]
    BY <2>1, TotalRuns
  <2> QED
    BY <1>2, <2>1, <2>2
<1> HIDE DEF S
<1>3. \A k \in 0..n : k \in S
  BY <1>1, <1>2, Upwards
<1> QED
  BY <1>3 DEF S

\* Sums of numbers that are in proportion, but for a constant, are so as well.
LEMMA TotalLinear ==
  ASSUME NEW q \in Seq(Int), NEW r \in Seq(Int), NEW n \in Nat, n <= Len(q), n <= Len(r),
         NEW a \in Int, NEW b \in Int, \A i \in 1..n : r[i] = a * q[i] + b
  PROVE  \A k \in 0..n : Total(r, k) = a * Total(q, k) + b * k
<1> DEFINE S == {k \in 0..n : Total(r, k) = a * Total(q, k) + b * k}
<1>1. 0 \in S
  <2>1. Total(r, 0) = 0 /\ Total(q, 0) = 0
    BY TotalRuns
  <2> QED
    BY <2>1
<1>2. ASSUME NEW k \in 0..n, k # n, k \in S PROVE k + 1 \in S
  <2>1. k + 1 \in 1..n /\ (k + 1) - 1 = k /\ k + 1 \in 1..Len(q) /\ k + 1 \in 1..Len(r)
        /\ k \in 0..Len(q)
    BY <1>2
  <2>2. Total(q, k + 1) = Total(q, k) + q[k + 1] /\ Total(r, k + 1) = Total(r, k) + r[k + 1]
    BY <2>1, TotalRuns
  <2>3. Total(q, k) \in Int /\ q[k + 1] \in Int /\ r[k + 1] = a * q[k + 1] + b
    BY <2>1, TotalRuns
  <2>4. a * (Total(q, k) + q[k + 1]) = a * Total(q, k) + a * q[k + 1] /\ b * (k + 1) = b * k + b
    BY <2>3
  <2> HIDE DEF S
  <2>5. Total(r, k) = a * Total(q, k) + b * k
    BY <1>2 DEF S
  <2>6. a * Total(q, k) \in Int /\ a * q[k + 1] \in Int /\ b * k \in Int
    BY <2>3
  <2>7. Total(r, k + 1) = a * Total(q, k + 1) + b * (k + 1)
    BY <2>2, <2>3, <2>4, <2>5, <2>6
  <2> QED
    BY <2>1, <2>7 DEF S
<1> HIDE DEF S
<1>3. \A k \in 0..n : k \in S
  BY <1>1, <1>2, Upwards
<1> QED
  BY <1>3 DEF S

\* The sum of sums.
LEMMA TotalPlus ==
  ASSUME NEW q \in Seq(Int), NEW r \in Seq(Int), NEW s \in Seq(Int), NEW n \in Nat,
         n <= Len(q), n <= Len(r), n <= Len(s), \A i \in 1..n : s[i] = q[i] + r[i]
  PROVE  \A k \in 0..n : Total(s, k) = Total(q, k) + Total(r, k)
<1> DEFINE S == {k \in 0..n : Total(s, k) = Total(q, k) + Total(r, k)}
<1>1. 0 \in S
  BY TotalRuns
<1>2. ASSUME NEW k \in 0..n, k # n, k \in S PROVE k + 1 \in S
  <2>1. k + 1 \in 1..n /\ (k + 1) - 1 = k /\ k + 1 \in 1..Len(q) /\ k + 1 \in 1..Len(r)
        /\ k + 1 \in 1..Len(s) /\ k \in 0..Len(q) /\ k \in 0..Len(r)
    BY <1>2
  <2>2. /\ Total(q, k + 1) = Total(q, k) + q[k + 1] /\ Total(r, k + 1) = Total(r, k) + r[k + 1]
        /\ Total(s, k + 1) = Total(s, k) + s[k + 1]
    BY <2>1, TotalRuns
  <2>3. q[k + 1] \in Int /\ r[k + 1] \in Int /\ s[k + 1] = q[k + 1] + r[k + 1]
    BY <2>1
  <2>4. Total(q, k) \in Int /\ Total(r, k) \in Int
    BY <2>1, TotalRuns
  <2> QED
    BY <1>2, <2>1, <2>2, <2>3, <2>4
<1> HIDE DEF S
<1>3. \A k \in 0..n : k \in S
  BY <1>1, <1>2, Upwards
<1> QED
  BY <1>3 DEF S

\* A sum of naturals grows with each.
LEMMA TotalGrows ==
  ASSUME NEW q \in Seq(Int), \A i \in 1..Len(q) : q[i] >= 0
  PROVE  \A i, j \in 0..Len(q) : i <= j => 0 <= Total(q, i) /\ Total(q, i) <= Total(q, j)
<1> DEFINE n == Len(q)
           S(i) == {k \in i..n : Total(q, i) <= Total(q, k)}
<1>0. n \in Nat
  OBVIOUS
<1>1. ASSUME NEW i \in 0..n PROVE \A j \in i..n : Total(q, i) <= Total(q, j)
  <2>1. i \in S(i)
    BY TotalRuns
  <2>2. ASSUME NEW k \in i..n, k # n, k \in S(i) PROVE k + 1 \in S(i)
    <3>1. k + 1 \in 1..n /\ (k + 1) - 1 = k /\ k \in 0..n /\ k + 1 \in i..n /\ k + 1 \in 0..n
      BY <2>2
    <3>2. Total(q, k + 1) = Total(q, k) + q[k + 1] /\ q[k + 1] \in Int /\ q[k + 1] >= 0
      BY <3>1, TotalRuns
    <3>3. Total(q, k) \in Int /\ Total(q, i) \in Int
      BY <3>1, TotalRuns
    <3> QED
      BY <2>2, <3>1, <3>2, <3>3
  <2> HIDE DEF S
  <2>3. \A k \in i..n : k \in S(i)
    <3>1. i \in Nat
      BY <1>1
    <3> QED
      BY <3>1, <1>0, <2>1, <2>2, Upwards
  <2> QED
    BY <2>3 DEF S
<1>2. Total(q, 0) = 0 /\ 0 \in 0..n
  BY TotalRuns
<1> QED
  BY <1>0, <1>1, <1>2, TotalRuns

\* The sum of a sequence made of two.
LEMMA TotalConcat ==
  ASSUME NEW q \in Seq(Int), NEW r \in Seq(Int)
  PROVE  /\ q \o r \in Seq(Int) /\ Len(q \o r) = Len(q) + Len(r)
         /\ SumOf(q \o r) = SumOf(q) + SumOf(r)
<1> DEFINE c == q \o r
           a == Len(q)
           b == Len(r)
           S == {k \in 0..b : Total(c, a + k) = Total(q, a) + Total(r, k)}
<1>1. /\ c \in Seq(Int) /\ Len(c) = a + b /\ a \in Nat /\ b \in Nat
      /\ \A i \in 1..a : c[i] = q[i]
      /\ \A i \in 1..b : c[a + i] = r[i]
  OBVIOUS
<1>2. 0 \in S
  <2>1. Total(c, a) = Total(q, a)
    <3>1. a <= Len(c) /\ a <= Len(q) /\ a \in 0..a
      BY <1>1
    <3> HIDE DEF c, a
    <3> QED
      BY <1>1, <3>1, TotalSame
  <2>2. Total(r, 0) = 0 /\ a + 0 = a /\ Total(q, a) \in Int
    BY <1>1, TotalRuns
  <2> QED
    BY <1>1, <2>1, <2>2
<1>3. ASSUME NEW k \in 0..b, k # b, k \in S PROVE k + 1 \in S
  <2>1. k + 1 \in 1..b /\ (k + 1) - 1 = k /\ a + (k + 1) \in 1..Len(c)
        /\ (a + (k + 1)) - 1 = a + k /\ k \in 0..b
    <3>1. k \in 0..b /\ k # b /\ a \in Nat /\ b \in Nat /\ Len(c) = a + b
      BY <1>1, <1>3
    <3> HIDE DEF a, b, c, S
    <3> QED
      BY <3>1
  <2>2. Total(c, a + (k + 1)) = Total(c, a + k) + c[a + (k + 1)]
    BY <1>1, <2>1, TotalRuns
  <2>3. Total(r, k + 1) = Total(r, k) + r[k + 1] /\ Total(r, k) \in Int /\ r[k + 1] \in Int
    BY <2>1, TotalRuns
  <2>4. c[a + (k + 1)] = r[k + 1] /\ Total(q, a) \in Int
    BY <1>1, <2>1, TotalRuns
  <2> QED
    BY <1>3, <2>1, <2>2, <2>3, <2>4
<1> HIDE DEF S
<1>4. \A k \in 0..b : k \in S
  BY <1>1, <1>2, <1>3, Upwards
<1>5. b \in S
  BY <1>1, <1>4
<1> QED
  BY <1>1, <1>5 DEF S, SumOf

(* The parts of a length (getfacts).                                       *)

\* Multiples are in the order of what they are multiples of.
LEMMA MultiplesOrder ==
  ASSUME NEW t \in Nat \ {0}, NEW a \in Int, NEW b \in Int
  PROVE  /\ t * a <= t * b => a <= b
         /\ t * a < t * b => a < b
<1>1. ASSUME a > b PROVE t * a >= t * b + t
  <2>1. PICK d \in Nat \ {0} : a = b + d
    <3>1. a - b \in Nat \ {0} /\ a = b + (a - b)
      BY <1>1
    <3> QED
      BY <3>1
  <2>2. t * a = t * b + t * d
    BY <2>1
  <2>3. t * d >= t
    BY <2>1
  <2> QED
    BY <2>2, <2>3
<1>2. ASSUME a >= b PROVE t * a >= t * b
  BY <1>1, <1>2
<1>3. t * a \in Int /\ t * b \in Int
  OBVIOUS
<1> QED
  BY <1>1, <1>2, <1>3

\* One pixel for each of the first windows.
Firsts(n, rest) == [j \in 1..n |-> IF j - 1 < rest THEN 1 ELSE 0]

\* They are as many as there are to be.
LEMMA FirstsSum ==
  ASSUME NEW n \in Nat, NEW rest \in 0..n
  PROVE  Firsts(n, rest) \in [1..n -> Int] /\ SumOf(Firsts(n, rest)) = rest
<1> DEFINE e == Firsts(n, rest)
<1>1. e \in [1..n -> Int] /\ \A j \in 1..n : e[j] = IF j - 1 < rest THEN 1 ELSE 0
  BY DEF Firsts
<1> HIDE DEF e
<1>2. e \in Seq(Int) /\ Len(e) = n
  BY <1>1, SeqMade
<1> DEFINE S == {k \in 0..n : Total(e, k) = Least(k, rest)}
<1>3. 0 \in S
  BY <1>2, TotalRuns DEF Least
<1>4. ASSUME NEW k \in 0..n, k # n, k \in S PROVE k + 1 \in S
  <2>1. k + 1 \in 1..n /\ (k + 1) - 1 = k /\ k + 1 \in 0..n
    BY <1>4
  <2>2. Total(e, k + 1) = Total(e, k) + e[k + 1]
    BY <1>2, <2>1, TotalRuns
  <2>3. e[k + 1] = IF k < rest THEN 1 ELSE 0
    BY <1>1, <2>1
  <2> QED
    BY <1>4, <2>1, <2>2, <2>3 DEF Least
<1> HIDE DEF S
<1>5. \A k \in 0..n : k \in S
  BY <1>3, <1>4, Upwards
<1>6. n \in S
  BY <1>5
<1> QED
  BY <1>1, <1>2, <1>6 DEF S, Least, SumOf, e

\* The pixels of a side of centredmaster, d windows after the first master.
Sides(n, d, rest) ==
  [j \in 1..n |-> IF 2 * (j - 1) - d \in 0..(2 * rest - 1) THEN 1 ELSE 0]

\* They are no more than there are to be, and all with one or two masters.
LEMMA SidesSum ==
  ASSUME NEW n \in Nat \ {0}, NEW rest \in 0..(n - 1), NEW d \in Int
  PROVE  /\ Sides(n, d, rest) \in [1..n -> Int]
         /\ SumOf(Sides(n, d, rest)) \in Int /\ SumOf(Sides(n, d, rest)) <= rest
         /\ d \in 0..2 => SumOf(Sides(n, d, rest)) = rest
<1> DEFINE e == Sides(n, d, rest)
<1>1. e \in [1..n -> Int]
      /\ \A j \in 1..n : e[j] = IF 2 * (j - 1) - d \in 0..(2 * rest - 1) THEN 1 ELSE 0
  BY DEF Sides
<1> HIDE DEF e
<1>2. e \in Seq(Int) /\ Len(e) = n
  BY <1>1, SeqMade
<1> DEFINE S == {k \in 0..n : /\ 0 <= Total(e, k) /\ Total(e, k) <= rest
                              /\ 2 * k <= d => Total(e, k) = 0
                              /\ 2 * k >= d => 2 * Total(e, k) <= 2 * k - d
                              /\ d = 0 => Total(e, k) = Least(k, rest)
                              /\ d \in {1, 2} /\ k > 0 => Total(e, k) = Least(k - 1, rest)}
<1>3. 0 \in S
  BY <1>2, TotalRuns DEF Least
<1>4. ASSUME NEW k \in 0..n, k # n, k \in S PROVE k + 1 \in S
  <2>1. k + 1 \in 1..n /\ (k + 1) - 1 = k /\ k + 1 \in 0..n
    BY <1>4
  <2>2. Total(e, k + 1) = Total(e, k) + e[k + 1]
    BY <1>2, <2>1, TotalRuns
  <2>3. e[k + 1] = IF 2 * k - d \in 0..(2 * rest - 1) THEN 1 ELSE 0
    BY <1>1, <2>1
  <2>4. Total(e, k) \in Int
    BY <1>2, TotalRuns
  <2> DEFINE a == Total(e, k)
             b == Total(e, k + 1)
  <2>5. /\ 0 <= a /\ a <= rest /\ (2 * k <= d => a = 0)
        /\ 2 * k >= d => 2 * a <= 2 * k - d
        /\ d = 0 => a = Least(k, rest)
        /\ d \in {1, 2} /\ k > 0 => a = Least(k - 1, rest)
    BY <1>4
  <2> HIDE DEF a, b, S
  <2>6. b = a + IF 2 * k - d \in 0..(2 * rest - 1) THEN 1 ELSE 0
    BY <2>2, <2>3 DEF a, b
  <2>7. a \in Int /\ b \in Int
    BY <2>4, <2>6 DEF a
  <2>8. 0 <= b /\ b <= rest /\ (2 * (k + 1) <= d => b = 0)
        /\ (2 * (k + 1) >= d => 2 * b <= 2 * (k + 1) - d)
    BY <2>1, <2>5, <2>6, <2>7
  <2>9. d = 0 => b = Least(k + 1, rest)
    BY <2>1, <2>5, <2>6, <2>7 DEF Least
  <2>10. d \in {1, 2} => b = Least(k, rest)
    BY <2>1, <2>5, <2>6, <2>7 DEF Least
  <2> QED
    BY <2>1, <2>8, <2>9, <2>10 DEF S, b
<1> HIDE DEF S
<1>5. \A k \in 0..n : k \in S
  BY <1>3, <1>4, Upwards
<1>6. n \in S /\ Total(e, n) \in Int
  BY <1>2, <1>5, TotalRuns
<1> QED
  BY <1>1, <1>2, <1>6 DEF S, Least, SumOf, e

\* The lines of a grid: k of them share the size V with gaps of g between them.
LineStep(V, g, k)    == (V - g * (k - 1)) \div k

LineRest(V, g, k)    == (V - g * (k - 1)) - LineStep(V, g, k) * k

LinePos(V, g, k, i)  == i * (LineStep(V, g, k) + g) + Least(i, LineRest(V, g, k))

LineLen(V, g, k, i)  == LineStep(V, g, k) + (IF i < LineRest(V, g, k) THEN 1 ELSE 0)

\* Lines that have room follow each other with the gap between them and take
\* exactly the size.
LEMMA Lines ==
  ASSUME NEW V \in Int, NEW g \in Nat, NEW k \in Nat \ {0}, NEW i \in 0..(k - 1)
  PROVE  /\ LinePos(V, g, k, i) \in Int /\ LineLen(V, g, k, i) \in Int
         /\ LineLen(V, g, k, i) > 0 =>
               /\ 0 <= LinePos(V, g, k, i) /\ LinePos(V, g, k, i) + LineLen(V, g, k, i) <= V
               /\ \A j \in 0..(k - 1) :
                     i < j => LinePos(V, g, k, i) + LineLen(V, g, k, i) + g <= LinePos(V, g, k, j)
<1> DEFINE c == LineStep(V, g, k)
           r == LineRest(V, g, k)
           U == V - g * (k - 1)
           p == c + g
           pos(x) == x * p + Least(x, r)
           len == LineLen(V, g, k, i)
<1>1. g * (k - 1) \in Int /\ U \in Int
  OBVIOUS
<1>2. c \in Int /\ r \in 0..(k - 1) /\ U = c * k + r
  <2>1. U \div k \in Int /\ U % k \in 0..(k - 1) /\ U = (k * (U \div k)) + (U % k)
    BY <1>1, DivMod
  <2>2. c = U \div k /\ r = U - c * k
    BY DEF LineStep, LineRest
  <2> HIDE DEF c, r, U
  <2>3. c \in Int /\ U % k \in 0..(k - 1) /\ U = k * c + (U % k)
    BY <2>1, <2>2
  <2> DEFINE q == U % k
  <2> HIDE DEF q
  <2>4. q \in 0..(k - 1) /\ U = k * c + q /\ k * c = c * k /\ c * k \in Int
    BY <2>3 DEF q
  <2> QED
    BY <1>1, <2>2, <2>3, <2>4
<1>3. len = c + (IF i < r THEN 1 ELSE 0)
  BY DEF LineLen
<1>4. \A x \in 0..(k - 1) : LinePos(V, g, k, x) = pos(x)
  BY DEF LinePos
<1> HIDE DEF c, r, U, len
<1>5. p \in Int /\ k \in Int /\ i \in Int
  BY <1>2
<1>6. \A x \in 0..k : x * p \in Int /\ Least(x, r) \in Int /\ pos(x) \in Int
  <2> SUFFICES ASSUME NEW x \in 0..k PROVE x * p \in Int /\ Least(x, r) \in Int /\ pos(x) \in Int
    OBVIOUS
  <2>1. x \in Int /\ x * p \in Int
    BY <1>5
  <2>2. Least(x, r) \in Int
    BY <1>2, <2>1 DEF Least
  <2> QED
    BY <2>1, <2>2
<1>7. len \in Int
  BY <1>2, <1>3
<1>8. ASSUME len > 0
      PROVE  /\ 0 <= pos(i)
             /\ \A j \in 0..k : i < j => pos(i) + len + g <= pos(j)
             /\ pos(k) = V + g
  <2>1. c >= 0 /\ p >= 0 /\ p \in Int
    BY <1>2, <1>3, <1>8
  <2>2. 0 <= pos(i)
    <3>1. i * p >= 0 /\ i * p \in Int
      BY <1>5, <2>1
    <3>2. Least(i, r) >= 0 /\ Least(i, r) \in Int
      BY <1>2 DEF Least
    <3> HIDE DEF p
    <3> QED
      BY <3>1, <3>2
  <2>3. ASSUME NEW j \in 0..k, i < j PROVE pos(i) + len + g <= pos(j)
    <3>1. i * p + p <= j * p /\ i * p \in Int /\ j * p \in Int
      <4>1. j - i - 1 \in Nat /\ (j - i - 1) * p >= 0
        BY <2>1, <2>3
      <4>2. (j - i - 1) * p = j * p - i * p - p /\ i * p \in Int /\ j * p \in Int
        BY <1>5
      <4> HIDE DEF p
      <4> QED
        BY <2>1, <4>1, <4>2
    <3>2. Least(i, r) + (IF i < r THEN 1 ELSE 0) <= Least(j, r) /\ Least(i, r) \in Int /\ Least(j, r) \in Int
      BY <1>2, <2>3 DEF Least
    <3>3. len + g = p + (IF i < r THEN 1 ELSE 0)
      BY <1>2, <1>3
    <3>4. CASE i < r
      <4>1. len + g = p + 1 /\ Least(i, r) + 1 <= Least(j, r)
        BY <3>2, <3>3, <3>4
      <4> HIDE DEF p
      <4> QED
        BY <1>7, <2>1, <3>1, <3>2, <4>1
    <3>5. CASE ~(i < r)
      <4>1. len + g = p + 0 /\ Least(i, r) + 0 <= Least(j, r)
        BY <3>2, <3>3, <3>5
      <4> HIDE DEF p
      <4> QED
        BY <1>7, <2>1, <3>1, <3>2, <4>1
    <3> QED
      BY <3>4, <3>5
  <2>4. pos(k) = V + g
    <3>1. Least(k, r) = r
      BY <1>2 DEF Least
    <3>2. k * p = c * k + g * k /\ c * k \in Int /\ g * k \in Int
      BY <1>2
    <3>3. U = V - g * k + g
      <4>1. g * (k - 1) = g * k - g
        OBVIOUS
      <4> QED
        BY <3>2, <4>1 DEF U
    <3> HIDE DEF p
    <3> QED
      BY <1>2, <3>1, <3>2, <3>3
  <2> QED
    BY <2>2, <2>3, <2>4
<1>9. ASSUME len > 0 PROVE pos(i) + len <= V
  <2>1. k \in 0..k /\ i < k /\ i \in 0..k
    OBVIOUS
  <2>2. pos(i) + len + g <= V + g
    BY <1>8, <1>9, <2>1
  <2>3. pos(i) \in Int
    BY <1>6, <2>1
  <2> HIDE DEF pos
  <2> QED
    BY <1>7, <2>2, <2>3
<1>10. i \in 0..k /\ \A j \in 0..(k - 1) : j \in 0..k
  OBVIOUS
<1>11. LinePos(V, g, k, i) = pos(i) /\ pos(i) \in Int
  BY <1>4, <1>6, <1>10
<1>12. ASSUME len > 0, NEW j \in 0..(k - 1), i < j
       PROVE  LinePos(V, g, k, i) + len + g <= LinePos(V, g, k, j)
  <2>1. LinePos(V, g, k, j) = pos(j)
    BY <1>4
  <2> HIDE DEF pos
  <2> QED
    BY <1>8, <1>10, <1>11, <1>12, <2>1
<1> HIDE DEF pos
<1> QED
  BY <1>7, <1>8, <1>9, <1>11, <1>12 DEF len

\* A number below b * c counts less than c times b, and is told by the count
\* and what is left.
LEMMA DivBelow ==
  ASSUME NEW b \in Nat \ {0}, NEW c \in Nat, NEW a \in Nat, a < b * c
  PROVE  /\ a \div b \in 0..(c - 1) /\ a % b \in 0..(b - 1)
         /\ a = (b * (a \div b)) + (a % b)
<1> DEFINE d == a \div b
           r == a % b
<1>1. d \in Int /\ r \in 0..(b - 1) /\ a = (b * d) + r
  BY DivMod
<1> HIDE DEF d, r
<1>2. d >= 0
  <2>1. ASSUME d < 0 PROVE FALSE
    <3>1. b * d <= -b
      <4>1. (-1 - d) * b >= 0
        BY <1>1, <2>1
      <4>2. (-1 - d) * b = -b - b * d
        BY <1>1
      <4>3. b * d \in Int
        BY <1>1
      <4> QED
        BY <4>1, <4>2, <4>3
    <3>2. b * d \in Int
      BY <1>1
    <3> QED
      BY <1>1, <3>1, <3>2
  <2> QED
    BY <1>1, <2>1
<1>3. d < c
  <2>1. b * d < b * c
    <3>1. b * d \in Int /\ b * c \in Int
      BY <1>1
    <3> QED
      BY <1>1, <3>1
  <2> QED
    BY <1>1, <2>1, MultiplesOrder
<1>4. d \in 0..(c - 1)
  BY <1>1, <1>2, <1>3
<1> QED
  BY <1>1, <1>4 DEF d, r

\* A loop over the integers that starts from nothing runs from its first round to its last.
LEMMA IntRuns ==
  ASSUME NEW k \in Nat, NEW G, NEW round, Leads(round, G, Int, 0, k), 0 \in G[0]
  PROVE  \E f \in [0..k -> Int] :
            f[0] = 0 /\ \A i \in 0..k : i # 0 => f[i] = round[<<f[i - 1], i - 1>>]
<1>1. 0 \in Nat /\ 0 <= k
  OBVIOUS
<1> QED
  BY ONLY k \in Nat, <1>1, Leads(round, G, Int, 0, k), 0 \in G[0], LoopRuns

\* What is left is dealt out part by part, the last part takes all of it.
LEMMA Dealt ==
  ASSUME NEW k \in Nat, NEW V \in Int, NEW g \in Int
  PROVE  \E f \in [0..k -> Int] :
            f[0] = 0 /\ \A i \in 1..k : f[i] = f[i - 1] + (V - f[i - 1]) \div (k - i + 1) + g
<1> DEFINE G == [i \in 0..k |-> Int]
           round == [p \in Int \X (0..k) |-> p[1] + (V - p[1]) \div (k - p[2]) + g]
<1>1. ASSUME NEW i \in 0..k, i # k, NEW x \in Int
      PROVE  /\ round[<<x, i>>] \in Int
             /\ round[<<x, i>>] = x + (V - x) \div (k - i) + g
  <2>1. <<x, i>> \in Int \X (0..k)
    OBVIOUS
  <2>2. k - i \in Nat \ {0} /\ V - x \in Int
    BY <1>1
  <2>3. (V - x) \div (k - i) \in Int
    BY <2>2, DivMod
  <2>4. round[<<x, i>>] = x + (V - x) \div (k - i) + g
    BY <2>1
  <2> HIDE DEF round
  <2> DEFINE d == (V - x) \div (k - i)
  <2> HIDE DEF d
  <2>5. d \in Int /\ round[<<x, i>>] = x + d + g
    BY <2>3, <2>4 DEF d
  <2>6. round[<<x, i>>] \in Int
    BY <2>5
  <2> QED
    BY <2>4, <2>6
<1>2. Leads(round, G, Int, 0, k)
  BY <1>1 DEF Leads
<1>3. PICK f \in [0..k -> Int] :
         f[0] = 0 /\ \A i \in 0..k : i # 0 => f[i] = round[<<f[i - 1], i - 1>>]
  <2>1. 0 \in Nat /\ 0 <= k /\ 0 \in G[0]
    OBVIOUS
  <2>2. k \in Nat
    OBVIOUS
  <2> HIDE DEF G, round
  <2> QED
    BY <1>2, <2>1, <2>2, IntRuns
<1>4. ASSUME NEW i \in 1..k PROVE f[i] = f[i - 1] + (V - f[i - 1]) \div (k - i + 1) + g
  <2>1. i - 1 \in 0..k /\ i - 1 # k /\ i \in 0..k /\ i # 0 /\ f[i - 1] \in Int /\ k - (i - 1) = k - i + 1
    BY <1>3
  <2>2. f[i] = round[<<f[i - 1], i - 1>>]
    BY <1>3, <2>1
  <2> HIDE DEF round
  <2> QED
    BY <1>1, <2>1, <2>2
<1> QED
  BY <1>3, <1>4

\* A multiple leaves no remainder.
LEMMA MultipleRem ==
  ASSUME NEW d \in Nat \ {0}, NEW k \in Int
  PROVE  (d * k) % d = 0
<1> DEFINE p == d * k
           q == p \div d
           r == p % d
<1>1. p \in Int
  OBVIOUS
<1> HIDE DEF p
<1>2. q \in Int /\ r \in 0..(d - 1) /\ p = (d * q) + r
  BY <1>1, DivMod
<1> HIDE DEF q, r
<1>3. r = d * (k - q)
  BY <1>2 DEF p
<1> DEFINE e == k - q
<1>4. e \in Int /\ r = d * e
  BY <1>2, <1>3
<1> HIDE DEF e
<1>5. e < 0 => d * e <= 0 - d
  <2> SUFFICES ASSUME e < 0 PROVE d * e <= 0 - d
    OBVIOUS
  <2>1. d * (0 - e - 1) >= 0
    <3>1. 0 - e - 1 \in Nat
      BY <1>4
    <3>2. \A v \in Nat : d * v >= 0
      OBVIOUS
    <3> QED
      BY <3>1, <3>2
  <2>2. d * (0 - e - 1) = 0 - d * e - d /\ d * e \in Int
    BY <1>4
  <2> QED
    BY <2>1, <2>2
<1>6. e > 0 => d * e >= d
  <2> SUFFICES ASSUME e > 0 PROVE d * e >= d
    OBVIOUS
  <2>1. d * (e - 1) >= 0
    <3>1. e - 1 \in Nat
      BY <1>4
    <3>2. \A v \in Nat : d * v >= 0
      OBVIOUS
    <3> QED
      BY <3>1, <3>2
  <2>2. d * (e - 1) = d * e - d /\ d * e \in Int
    BY <1>4
  <2> QED
    BY <2>1, <2>2
<1>7. r = 0
  <2>1. e = 0 => d * e = 0
    BY <1>4
  <2>2. r \in Int /\ 0 <= r /\ r < d
    BY <1>2
  <2> QED
    BY <1>4, <1>5, <1>6, <2>1, <2>2
<1> QED
  BY <1>7 DEF r, p

\* The elements of a list after another.
LEMMA JoinAt ==
  ASSUME NEW T1, NEW T2, NEW A \in Seq(T1), NEW B \in Seq(T2), NEW i \in 1..(Len(A) + Len(B))
  PROVE  (A \o B)[i] = IF i <= Len(A) THEN A[i] ELSE B[i - Len(A)]
OBVIOUS

\* Products of integers can be taken in any order.
LEMMA Products ==
  /\ \A p, q \in Int : p * q \in Int /\ p * q = q * p
  /\ \A p, q, z \in Int : p * (q + z) = p * q + p * z
  /\ \A p, q, z \in Int : (p * q) * z = p * (q * z)
OBVIOUS

\* A list of numbers put before another one.
LEMMA NumbersJoined ==
  ASSUME NEW p \in Seq(Int), NEW q \in Seq(Int), NEW i \in 1..(Len(p) + Len(q))
  PROVE  (p \o q)[i] = IF i <= Len(p) THEN p[i] ELSE q[i - Len(p)]
BY JoinAt

\* Numbers in proportion to those of a list, with a gap each.
LEMMA Stripes ==
  ASSUME NEW lens \in Seq(Int), NEW c \in Seq(Int), Len(c) = Len(lens), NEW a \in Int, NEW gap \in Int,
         \A i \in 1..Len(lens) : c[i] = a * (lens[i] + gap)
  PROVE  SumOf(c) = a * (SumOf(lens) + gap * Len(lens))
<1> DEFINE n == Len(lens)
           b == a * gap
           s == SumOf(lens)
<1>1. n \in Nat /\ n = Len(c)
  OBVIOUS
<1>2. b \in Int /\ s \in Int
  <2>1. n \in 0..n
    BY <1>1
  <2> QED
    BY <2>1, Products, TotalRuns DEF SumOf
<1>3. \A i \in 1..n : c[i] = a * lens[i] + b
  <2>1. \A i \in 1..n : lens[i] \in Int
    OBVIOUS
  <2> QED
    BY <2>1, Products
<1>4. SumOf(c) = a * s + b * n
  <2>1. n \in 0..n
    BY <1>1
  <2> HIDE DEF b
  <2>2. \A k \in 0..n : Total(c, k) = a * Total(lens, k) + b * k
    <3>1. n <= Len(lens) /\ n <= Len(c) /\ n \in Nat
      BY <1>1
    <3> HIDE DEF n
    <3> QED
      BY <1>2, <1>3, <3>1, TotalLinear
  <2> QED
    BY <1>1, <2>1, <2>2 DEF SumOf
<1>5. a * (s + gap * n) = a * s + b * n
  <2> HIDE DEF s
  <2>1. gap * n \in Int /\ b * n = a * (gap * n)
    BY <1>1, Products
  <2> DEFINE g == gap * n
  <2>2. g \in Int
    BY <2>1
  <2> HIDE DEF g
  <2>3. a * (s + g) = a * s + a * g
    BY <1>2, <2>2, Products
  <2> QED
    BY <2>1, <2>3 DEF g
<1> QED
  BY <1>4, <1>5

\* Two lists whose numbers take turns in a third.
TakeTurns(c, p, q) ==
  /\ Len(c) + 1 \in (2 * Len(p))..(2 * Len(p) + 1) /\ Len(c) \in (2 * Len(q))..(2 * Len(q) + 1)
  /\ \A i \in 1..Len(p) : c[2 * i - 1] = p[i]
  /\ \A i \in 1..Len(q) : c[2 * i] = q[i]

\* Its sum is that of the two.
LEMMA TurnsSum ==
  ASSUME NEW c \in Seq(Int), NEW p \in Seq(Int), NEW q \in Seq(Int), TakeTurns(c, p, q)
  PROVE  SumOf(c) = SumOf(p) + SumOf(q)
<1> DEFINE l == Len(c)
           a == Len(p)
           b == Len(q)
<1>0. /\ l \in Nat /\ a \in Nat /\ b \in Nat /\ l + 1 \in (2 * a)..(2 * a + 1) /\ l \in (2 * b)..(2 * b + 1)
      /\ \A i \in 1..a : c[2 * i - 1] = p[i]
      /\ \A i \in 1..b : c[2 * i] = q[i]
  BY DEF TakeTurns
<1>9. Len(c) = l /\ Len(p) = a /\ Len(q) = b
  OBVIOUS
<1> HIDE DEF l, a, b
<1> USE <1>0, <1>9
<1> DEFINE S == {k \in 0..b : Total(c, 2 * k) = Total(p, k) + Total(q, k)}
<1>1. 0 \in S
  <2>1. Total(c, 0) = 0 /\ Total(p, 0) = 0 /\ Total(q, 0) = 0
    BY TotalRuns
  <2>2. 2 * 0 = 0
    OBVIOUS
  <2> QED
    BY <2>1, <2>2
<1>2. ASSUME NEW k \in 0..b, k # b, k \in S PROVE k + 1 \in S
  <2> DEFINE i == k + 1
             j == 2 * k
  <2>1. i \in 1..b /\ i \in 1..a /\ i - 1 = k /\ i \in Int
    BY <1>2
  <2>2. /\ j \in Nat /\ j + 1 \in 1..l /\ j + 2 \in 1..l /\ j \in 0..l
        /\ (j + 1) - 1 = j /\ (j + 2) - 1 = j + 1 /\ 2 * i = j + 2 /\ 2 * i - 1 = j + 1
    BY <1>2, <2>1
  <2>3. Total(c, j) = Total(p, k) + Total(q, k)
    BY <1>2
  <2> HIDE DEF S, i, j
  <2>4. Total(c, j + 1) = Total(c, j) + c[j + 1] /\ Total(c, j + 2) = Total(c, j + 1) + c[j + 2]
    <3>1. \A x \in 1..Len(c) : Total(c, x) = Total(c, x - 1) + c[x]
      BY TotalRuns
    <3> QED
      BY <2>2, <3>1
  <2>5. Total(p, i) = Total(p, k) + p[i] /\ Total(q, i) = Total(q, k) + q[i]
    BY <2>1, TotalRuns
  <2>6. c[j + 1] = p[i] /\ c[j + 2] = q[i]
    BY <2>1, <2>2
  <2>7. Total(p, k) \in Int /\ Total(q, k) \in Int /\ p[i] \in Int /\ q[i] \in Int
    <3>1. k \in 0..Len(p) /\ k \in 0..Len(q) /\ i \in 1..Len(p) /\ i \in 1..Len(q)
      BY <1>2, <2>1
    <3> QED
      BY <3>1, TotalRuns
  <2>8. Total(c, 2 * i) = Total(p, i) + Total(q, i)
    <3> DEFINE C0 == Total(c, j)
               C1 == Total(c, j + 1)
               C2 == Total(c, j + 2)
               P0 == Total(p, k)
               P1 == Total(p, i)
               Q0 == Total(q, k)
               Q1 == Total(q, i)
               u == p[i]
               v == q[i]
    <3>1. /\ C0 = P0 + Q0 /\ C1 = C0 + u /\ C2 = C1 + v /\ P1 = P0 + u /\ Q1 = Q0 + v
          /\ P0 \in Int /\ Q0 \in Int /\ u \in Int /\ v \in Int
      BY <2>3, <2>4, <2>5, <2>6, <2>7
    <3>2. Total(c, 2 * i) = C2
      BY <2>2
    <3> HIDE DEF C0, C1, C2, P0, P1, Q0, Q1, u, v
    <3>3. C2 = P1 + Q1
      BY <3>1
    <3> QED
      BY <3>2, <3>3 DEF P1, Q1
  <2>9. i \in 0..b
    BY <2>1
  <2> QED
    BY <2>8, <2>9 DEF S, i
<1> HIDE DEF S
<1>3. \A k \in 0..b : k \in S
  BY <1>1, <1>2, Upwards
<1>4. Total(c, 2 * b) = Total(p, b) + SumOf(q)
  <2>1. b \in S
    BY <1>3
  <2> QED
    BY <2>1 DEF S, SumOf
<1>5. CASE a = b
  <2>1. l = 2 * b
    <3>1. l \in Nat /\ b \in Nat /\ l + 1 \in (2 * b)..(2 * b + 1) /\ l \in (2 * b)..(2 * b + 1)
      BY <1>5
    <3> QED
      BY ONLY <3>1
  <2> QED
    BY <1>4, <1>5, <2>1 DEF SumOf
<1>6. CASE a # b
  <2>1. a = b + 1 /\ l = 2 * b + 1 /\ 2 * a - 1 = l /\ a \in 1..a /\ l \in 1..l /\ a - 1 = b /\ l - 1 = 2 * b
    BY <1>6
  <2>2. Total(c, l) = Total(c, 2 * b) + c[l] /\ Total(p, a) = Total(p, b) + p[a]
    <3>1. Total(c, l) = Total(c, l - 1) + c[l]
      BY <2>1, TotalRuns
    <3>2. Total(p, a) = Total(p, a - 1) + p[a]
      BY <2>1, TotalRuns
    <3> QED
      BY <2>1, <3>1, <3>2
  <2>3. c[l] = p[a]
    BY <2>1
  <2>4. Total(p, b) \in Int /\ p[a] \in Int /\ SumOf(q) \in Int
    <3>1. b \in 0..Len(p) /\ Len(q) \in 0..Len(q) /\ a \in 1..Len(p)
      <4>1. a \in Nat /\ b \in Nat /\ a = b + 1 /\ Len(p) = a /\ Len(q) = b
        BY <2>1
      <4> QED
        BY ONLY <4>1
    <3> QED
      <4>1. Total(p, b) \in Int /\ p[a] \in Int
        BY <3>1, TotalRuns
      <4>2. SumOf(q) \in Int
        BY <3>1, TotalRuns DEF SumOf
      <4> QED
        BY <4>1, <4>2
  <2>5. Total(c, l) = Total(p, a) + SumOf(q)
    BY <1>4, <2>2, <2>3, <2>4
  <2> QED
    BY <2>5 DEF SumOf
<1> QED
  BY <1>5, <1>6

\* There is one way to divide.
LEMMA OneDivision ==
  ASSUME NEW b \in Nat \ {0}, NEW c \in Int, NEW d \in Int, NEW s \in 0..(b - 1), NEW t \in 0..(b - 1),
         b * c + s = b * d + t
  PROVE  c = d /\ s = t
<1>1. b * c \in Int /\ b * d \in Int
  OBVIOUS
<1>2. ASSUME NEW x \in Int, NEW y \in Int, x < y PROVE b * y >= b * x + b
  <2> DEFINE z == y - x - 1
  <2>1. z \in Nat /\ y = x + (z + 1)
    BY <1>2
  <2> HIDE DEF z
  <2>2. b * z \in Nat /\ b * (x + (z + 1)) = b * x + (b * z + b) /\ b * x \in Int
    BY <2>1
  <2>3. b * y = b * (x + (z + 1))
    BY <2>1
  <2> QED
    BY <2>2, <2>3
<1>3. ~(c < d)
  <2>1. c < d => b * d >= b * c + b
    BY <1>2
  <2> QED
    BY <1>1, <2>1
<1>4. ~(d < c)
  <2>1. d < c => b * c >= b * d + b
    BY <1>2
  <2> QED
    BY <1>1, <2>1
<1>5. c = d
  BY <1>3, <1>4
<1> QED
  BY <1>1, <1>5

\* A line of windows takes its length, each with its gap.
LEMMA LineRuns ==
  ASSUME NEW V \in Int, NEW g \in Nat, NEW k \in Nat \ {0}
  PROVE  /\ LinePos(V, g, k, 0) = 0 /\ LinePos(V, g, k, k) = V + g
         /\ \A i \in 0..k : LinePos(V, g, k, i) \in Int
         /\ \A i \in 0..(k - 1) : LineLen(V, g, k, i) \in Int
                                  /\ LinePos(V, g, k, i + 1) = LinePos(V, g, k, i) + (LineLen(V, g, k, i) + g)
<1> DEFINE a == V - g * (k - 1)
           d == a \div k
           r == a - d * k
           e == d + g
<1>1. a \in Int
  BY Products
<1>2. d \in Int /\ r \in 0..(k - 1)
  <2> HIDE DEF a
  <2>1. a \div k \in Int /\ a % k \in 0..(k - 1) /\ a = (k * (a \div k)) + (a % k)
    BY <1>1, DivMod
  <2>2. (a \div k) * k = k * (a \div k) /\ k * (a \div k) \in Int
    BY <2>1, Products
  <2>3. r = a % k
    BY <1>1, <2>1, <2>2
  <2> QED
    BY <2>1, <2>3
<1>3. /\ \A i : LinePos(V, g, k, i) = i * e + Least(i, r)
      /\ \A i : LineLen(V, g, k, i) = d + (IF i < r THEN 1 ELSE 0)
  BY DEF LinePos, LineLen, LineStep, LineRest
<1>4. LinePos(V, g, k, k) = V + g
  <2>1. Least(k, r) = r
    BY <1>2 DEF Least
  <2>2. k * (d + g) = k * d + k * g /\ k * d = d * k /\ k * d \in Int /\ k * g \in Int /\ g * (k - 1) = k * g - g
    <3>1. g * (k - 1) = g * k - g /\ g * k = k * g
      OBVIOUS
    <3> HIDE DEF d
    <3> QED
      BY <1>2, <3>1, Products
  <2> DEFINE x == k * d
             y == k * g
  <2>3. x \in Int /\ y \in Int /\ r = (V - (y - g)) - x /\ LinePos(V, g, k, k) = (x + y) + r
    BY <1>3, <2>1, <2>2
  <2> HIDE DEF x, y, r
  <2>4. LinePos(V, g, k, k) = V + g
    BY <2>3
  <2> QED
    BY <2>4
<1> HIDE DEF a, d, r
<1>5. e \in Int
  BY <1>2
<1> HIDE DEF e
<1>6. 0 * e + Least(0, r) = 0
  BY <1>2, <1>5 DEF Least
<1>7. ASSUME NEW i \in 0..k PROVE i * e + Least(i, r) \in Int
  BY <1>2, <1>5 DEF Least
<1>8. ASSUME NEW i \in 0..(k - 1)
      PROVE  /\ d + (IF i < r THEN 1 ELSE 0) \in Int
             /\ (i + 1) * e + Least(i + 1, r) = (i * e + Least(i, r)) + (d + (IF i < r THEN 1 ELSE 0) + g)
  <2>1. (i + 1) * e = i * e + e /\ i * e \in Int
    BY <1>5
  <2>2. Least(i + 1, r) = Least(i, r) + (IF i < r THEN 1 ELSE 0)
    BY <1>2 DEF Least
  <2>3. Least(i, r) \in Int
    BY <1>2 DEF Least
  <2> DEFINE x == i * e
             y == Least(i, r)
             o == IF i < r THEN 1 ELSE 0
  <2>4. /\ x \in Int /\ y \in Int /\ o \in Int
        /\ (i + 1) * e + Least(i + 1, r) = (x + e) + (y + o)
    BY <2>1, <2>2, <2>3
  <2>5. e = d + g
    BY DEF e
  <2> HIDE DEF x, y, o
  <2>6. (x + e) + (y + o) = (x + y) + (d + o + g) /\ d + o \in Int
    BY <1>2, <2>4, <2>5
  <2> QED
    BY <2>4, <2>6 DEF x, y, o
<1> QED
  BY <1>3, <1>4, <1>6, <1>7, <1>8

\* After its first b numbers a list counts the windows of a line, each u wide.
LineAt(q, b, V, g, k, u) == \A t \in 0..(k - 1) : q[b + t + 1] = u * (LineLen(V, g, k, t) + g)

\* They add to the sum of the numbers before them the size of the line.
LineSum(q, b, V, g, k, u) == Total(q, b + k) = Total(q, b) + u * (V + g)

\* The windows of one line of a grid, one after the other in a list.
LEMMA LineTotal ==
  ASSUME NEW q \in Seq(Int), NEW b \in Nat, NEW V \in Int, NEW g \in Nat, NEW k \in Nat \ {0}, b + k <= Len(q),
         NEW u \in Int, LineAt(q, b, V, g, k, u)
  PROVE  LineSum(q, b, V, g, k, u)
<1> DEFINE pos(t) == LinePos(V, g, k, t)
           S == {t \in 0..k : Total(q, b + t) = Total(q, b) + u * pos(t)}
<1>1. /\ pos(0) = 0 /\ pos(k) = V + g /\ \A i \in 0..k : pos(i) \in Int
      /\ \A i \in 0..(k - 1) : LineLen(V, g, k, i) \in Int /\ pos(i + 1) = pos(i) + (LineLen(V, g, k, i) + g)
  BY LineRuns
<1> HIDE DEF pos
<1>2. \A t \in 0..k : Total(q, b + t) \in Int
  <2>1. \A t \in 0..k : b + t \in 0..Len(q)
    OBVIOUS
  <2> QED
    BY <2>1, TotalRuns
<1>3. 0 \in S
  <2>1. b + 0 = b /\ u * 0 = 0 /\ 0 \in 0..k
    OBVIOUS
  <2>2. Total(q, b) \in Int
    BY <1>2, <2>1
  <2> QED
    BY <1>1, <2>1, <2>2
<1>4. ASSUME NEW t \in 0..k, t # k, t \in S PROVE t + 1 \in S
  <2> DEFINE len == LineLen(V, g, k, t) + g
             T0 == Total(q, b)
             T1 == Total(q, b + t)
             T2 == Total(q, b + (t + 1))
             P == pos(t)
  <2>1. t \in 0..(k - 1) /\ t + 1 \in 0..k
    BY <1>4
  <2>2. len \in Int /\ P \in Int /\ pos(t + 1) = P + len
    <3>1. LineLen(V, g, k, t) \in Int /\ pos(t + 1) = pos(t) + (LineLen(V, g, k, t) + g)
      BY <1>1, <2>1, Zenon
    <3>2. pos(t) \in Int
      BY <1>1
    <3> QED
      BY <3>1, <3>2
  <2>3. T2 = T1 + q[b + t + 1]
    <3>1. b + t + 1 \in 1..Len(q) /\ (b + t + 1) - 1 = b + t /\ b + (t + 1) = b + t + 1
      BY <2>1
    <3>2. Total(q, b + t + 1) = Total(q, (b + t + 1) - 1) + q[b + t + 1]
      BY <3>1, TotalRuns
    <3> QED
      BY <3>1, <3>2
  <2>4. q[b + t + 1] = u * len
    BY <2>1 DEF LineAt
  <2>5. T1 = T0 + u * P
    BY <1>4
  <2>6. T0 \in Int
    <3>1. 0 \in 0..k /\ b + 0 = b
      OBVIOUS
    <3> QED
      BY <1>2, <3>1
  <2> HIDE DEF len, P, T0, T1, T2, S
  <2>7. u * (P + len) = u * P + u * len /\ u * P \in Int /\ u * len \in Int
    BY <2>2, Products
  <2>8. T2 = T0 + u * (P + len)
    BY <2>3, <2>4, <2>5, <2>6, <2>7
  <2> QED
    BY <2>1, <2>2, <2>8 DEF S, T0, T2
<1> HIDE DEF S
<1>5. \A t \in 0..k : t \in S
  BY <1>3, <1>4, Upwards
<1>6. k \in S
  BY <1>5
<1> QED
  BY <1>1, <1>6 DEF S, LineSum

-----------------------------------------------------------------------------
(* The rows and the columns of windows of Lines, and the area they cover.  *)

Factors == Seq(Nat \ {0})

\* A list of size factors is a sequence of positive numbers, and so is its sum
\* unless the list is empty (getfacts).
LEMMA FactorsSum ==
  ASSUME NEW facts \in Factors
  PROVE  /\ facts \in Seq(Int) /\ Len(facts) \in Nat /\ DOMAIN facts = 1..Len(facts)
         /\ \A j \in 1..Len(facts) : facts[j] \in Nat \ {0}
         /\ SumOf(facts) \in Nat /\ (facts # << >> => SumOf(facts) # 0)
<1>1. /\ facts \in Seq(Int) /\ Len(facts) \in Nat /\ DOMAIN facts = 1..Len(facts)
      /\ \A j \in 1..Len(facts) : facts[j] \in Nat \ {0}
  BY DEF Factors
<1>2. SumOf(facts) \in Int /\ SumOf(facts) >= 0
  <2>1. \A i \in 1..Len(facts) : facts[i] >= 0
    BY <1>1
  <2>2. Len(facts) \in 0..Len(facts) /\ Len(facts) <= Len(facts)
    BY <1>1
  <2> QED
    BY <1>1, <2>1, <2>2, TotalRuns, TotalGrows DEF SumOf
<1>3. ASSUME facts # << >> PROVE SumOf(facts) # 0
  <2>1. 0 \in 0..Len(facts) /\ 1 \in 0..Len(facts) /\ 1 \in 1..Len(facts) /\ 1 - 1 = 0
        /\ Len(facts) \in 0..Len(facts) /\ 1 <= Len(facts)
    BY <1>1, <1>3
  <2>2. Total(facts, 0) = 0 /\ Total(facts, 1) = Total(facts, 0) + facts[1]
    BY <1>1, <2>1, TotalRuns
  <2>3. \A i \in 1..Len(facts) : facts[i] >= 0
    BY <1>1
  <2>4. Total(facts, 1) <= Total(facts, Len(facts))
    BY <1>1, <2>1, <2>3, TotalGrows
  <2>5. Total(facts, Len(facts)) \in Int
    BY <1>1, <2>1, TotalRuns
  <2> QED
    BY <1>1, <2>1, <2>2, <2>4, <2>5 DEF SumOf
<1> QED
  BY <1>1, <1>2, <1>3

\* The share of a factor, times the total, is within a total of its part.
LEMMA ShareBounds ==
  ASSUME NEW size \in Int, NEW f \in Int, NEW t \in Nat \ {0}
  PROVE  /\ Share(size, f, t) \in Int
         /\ t * Share(size, f, t) <= size * f
         /\ size * f < t * Share(size, f, t) + t
<1> DEFINE a == size * f
           s == a \div t
<1>1. a \in Int
  OBVIOUS
<1> HIDE DEF a
<1>2. s \in Int /\ a % t \in 0..(t - 1) /\ a = (t * s) + (a % t)
  BY <1>1, DivMod
<1> HIDE DEF s
<1>3. t * s \in Int
  BY <1>2
<1>4. s \in Int /\ t * s <= a /\ a < t * s + t
  BY <1>1, <1>2, <1>3
<1> QED
  BY <1>4 DEF s, a, Share

Shares(size, facts) == [j \in DOMAIN facts |-> Share(size, facts[j], SumOf(facts))]

\* What the shares leave of a size is less than one pixel for each of them.
LEMMA LeftoverBounds ==
  ASSUME NEW size \in Int, NEW facts \in Factors, facts # << >>
  PROVE  /\ Shares(size, facts) \in Seq(Int) /\ Len(Shares(size, facts)) = Len(facts)
         /\ Leftover(size, facts) \in 0..(Len(facts) - 1)
         /\ SumOf(Shares(size, facts)) = size - Leftover(size, facts)
<1> DEFINE n == Len(facts)
           t == SumOf(facts)
           s == Shares(size, facts)
<1>1. facts \in Seq(Int) /\ n = Len(facts) /\ n \in Nat \ {0} /\ t \in Nat \ {0} /\ DOMAIN facts = 1..n
      /\ \A j \in 1..n : facts[j] \in Nat \ {0}
  BY FactorsSum
<1>2. \A j \in 1..n : s[j] = Share(size, facts[j], t)
  BY <1>1 DEF Shares
<1>3. s \in Seq(Int) /\ Len(s) = n
  <2>1. ASSUME NEW j \in 1..n PROVE Share(size, facts[j], t) \in Int
    <3>1. facts[j] \in Int
      BY <1>1
    <3> HIDE DEF t
    <3> QED
      BY <1>1, <3>1, ShareBounds
  <2>2. s \in [1..n -> Int]
    BY <1>1, <2>1 DEF Shares
  <2> QED
    BY <1>1, <2>2, SeqMade
<1> HIDE DEF s, t, n
<1> DEFINE S == {k \in 0..n : /\ t * Total(s, k) <= size * Total(facts, k)
                              /\ size * Total(facts, k) <= t * (Total(s, k) + k)
                              /\ k # 0 => size * Total(facts, k) < t * (Total(s, k) + k)}
<1>4. 0 \in S
  <2>1. Total(s, 0) = 0 /\ Total(facts, 0) = 0
    BY <1>1, <1>3, TotalRuns
  <2> QED
    BY <1>1, <2>1
<1>5. ASSUME NEW k \in 0..n, k # n, k \in S PROVE k + 1 \in S
  <2>1. k + 1 \in 1..n /\ (k + 1) - 1 = k /\ k + 1 \in 0..n /\ k \in Int /\ k + 1 # 0
    BY <1>1, k # n
  <2> DEFINE a == Total(s, k)
             d == s[k + 1]
             b == Total(facts, k)
             f == facts[k + 1]
  <2>2. a \in Int /\ b \in Int /\ d \in Int /\ f \in Int
    BY <1>1, <1>3, <2>1, TotalRuns
  <2>3. Total(s, k + 1) = a + d /\ Total(facts, k + 1) = b + f
    BY <1>1, <1>3, <2>1, TotalRuns
  <2>4. t * d <= size * f /\ size * f < t * d + t
    BY <1>1, <1>2, <2>1, <2>2, ShareBounds
  <2>5. t * a <= size * b /\ size * b <= t * (a + k)
    BY <1>5
  <2> HIDE DEF a, b, d, f, S
  <2>6. t * (a + d) = t * a + t * d /\ size * (b + f) = size * b + size * f
        /\ t * (a + k) = t * a + t * k /\ t * ((a + d) + (k + 1)) = t * a + t * d + t * k + t
    BY <1>1, <2>1, <2>2
  <2>7. t * a \in Int /\ t * d \in Int /\ t * k \in Int /\ size * b \in Int /\ size * f \in Int
    BY <1>1, <2>1, <2>2
  <2>8. /\ t * (a + d) <= size * (b + f)
        /\ size * (b + f) < t * ((a + d) + (k + 1))
    BY <1>1, <2>4, <2>5, <2>6, <2>7
  <2>9. size * (b + f) <= t * ((a + d) + (k + 1))
    BY <1>1, <2>1, <2>2, <2>7, <2>8
  <2> QED
    BY <2>1, <2>3, <2>8, <2>9 DEF S
<1> HIDE DEF S
<1>6. \A k \in 0..n : k \in S
  BY <1>1, <1>4, <1>5, Upwards
<1> DEFINE a == Total(s, n)
<1>7. n \in S /\ a \in Int /\ n \in Int
  BY <1>1, <1>3, <1>6, TotalRuns
<1>8. t * a <= size * t /\ size * t < t * (a + n)
  BY <1>1, <1>7 DEF S, t, SumOf
<1> HIDE DEF a
<1>9. size * t = t * size
  BY <1>1
<1>10. a <= size /\ size < a + n
  BY <1>1, <1>7, <1>8, <1>9, MultiplesOrder
<1>11. Leftover(size, facts) = size - a
  BY <1>3 DEF Leftover, SumOf, Shares, s, a, t
<1>12. SumOf(s) = a
  BY <1>3 DEF SumOf, a
<1>13. size - a \in 0..(n - 1) /\ a = size - (size - a)
  BY <1>7, <1>10
<1> QED
  BY <1>1, <1>3, <1>11, <1>12, <1>13 DEF s

\* Shares with some pixels more.
Padded(size, facts, e) == [j \in DOMAIN facts |-> Shares(size, facts)[j] + e[j]]

\* They sum to what they and the pixels sum to.
LEMMA PaddedSum ==
  ASSUME NEW size \in Int, NEW facts \in Factors, facts # << >>,
         NEW e \in [1..Len(facts) -> Int]
  PROVE  /\ Padded(size, facts, e) \in Seq(Int) /\ Len(Padded(size, facts, e)) = Len(facts)
         /\ SumOf(Padded(size, facts, e)) = size - Leftover(size, facts) + SumOf(e)
<1> DEFINE n == Len(facts)
           s == Shares(size, facts)
           p == Padded(size, facts, e)
<1>1. n \in Nat /\ n = Len(facts) /\ DOMAIN facts = 1..n /\ n <= n /\ n \in 0..n
  BY FactorsSum
<1>2. s \in Seq(Int) /\ Len(s) = n /\ SumOf(s) = size - Leftover(size, facts)
      /\ Leftover(size, facts) \in Int
  BY <1>1, LeftoverBounds
<1>3. e \in Seq(Int) /\ Len(e) = n
  BY <1>1, SeqMade
<1>4. p = [j \in 1..n |-> s[j] + e[j]]
  BY <1>1 DEF Padded
<1> HIDE DEF s, p, n
<1>5. \A j \in 1..n : s[j] \in Int /\ e[j] \in Int
  BY <1>2, <1>3
<1>6. p \in [1..n -> Int] /\ \A j \in 1..n : p[j] = s[j] + e[j]
  BY <1>4, <1>5
<1>7. p \in Seq(Int) /\ Len(p) = n
  BY <1>1, <1>6, SeqMade
<1>8. Total(p, n) = Total(s, n) + Total(e, n)
  BY <1>1, <1>2, <1>3, <1>6, <1>7, TotalPlus
<1>9. SumOf(p) = SumOf(s) + SumOf(e)
  BY <1>2, <1>3, <1>7, <1>8 DEF SumOf
<1> QED
  BY <1>1, <1>2, <1>7, <1>9 DEF p

\* An even split takes all of the length.
LEMMA EvenSplitSum ==
  ASSUME NEW size \in Int, NEW facts \in Factors
  PROVE  /\ EvenSplit(size, facts) \in Seq(Int) /\ Len(EvenSplit(size, facts)) = Len(facts)
         /\ facts # << >> => SumOf(EvenSplit(size, facts)) = size
<1> DEFINE rest == Leftover(size, facts)
           n == Len(facts)
<1>1. EvenSplit(size, facts) = [j \in DOMAIN facts |-> Share(size, facts[j], SumOf(facts))
                                                       + IF j - 1 < rest THEN 1 ELSE 0]
  BY DEF EvenSplit, Split
<1>2. CASE facts = << >>
  <2>1. DOMAIN facts = {}
    BY <1>2
  <2>2. EvenSplit(size, facts) = << >>
    BY <1>1, <2>1
  <2>3. << >> \in Seq(Int) /\ Len(<< >>) = 0
    OBVIOUS
  <2> QED
    BY <1>2, <2>2, <2>3
<1>3. CASE facts # << >>
  <2>1. n \in Nat /\ DOMAIN facts = 1..n /\ rest \in 0..(n - 1)
    BY <1>3, LeftoverBounds, FactorsSum
  <2>2. EvenSplit(size, facts) = Padded(size, facts, Firsts(n, rest))
    BY <1>1, <2>1 DEF Padded, Shares, Firsts
  <2> HIDE DEF rest, n
  <2>3. rest \in 0..n /\ rest \in Int
    BY <2>1
  <2>4. Firsts(n, rest) \in [1..n -> Int] /\ SumOf(Firsts(n, rest)) = rest
    BY <2>1, <2>3, FirstsSum
  <2> DEFINE p == Padded(size, facts, Firsts(n, rest))
  <2>5. p \in Seq(Int) /\ Len(p) = n /\ SumOf(p) = size - rest + SumOf(Firsts(n, rest))
    <3>1. Firsts(n, rest) \in [1..Len(facts) -> Int]
      BY <2>4 DEF n
    <3> QED
      BY <1>3, <3>1, PaddedSum DEF n, rest
  <2> HIDE DEF p
  <2>6. SumOf(p) = size
    BY <2>3, <2>4, <2>5
  <2> QED
    BY <2>2, <2>5, <2>6 DEF n, p
<1> QED
  BY <1>2, <1>3

Screen == [wx : Int, wy : Int, ww : Int, wh : Int, bw : Nat, bh : Nat, minbh : Nat,
            oh : Nat, ov : Nat, ih : Nat, iv : Nat,
            nmaster : Nat, mfact : 5..95, mirror : BOOLEAN, cf : Factors]

\* The least size of a window, and the size resize gives one.
Size0(m) == m.minbh + 2 * m.bw

Sized(m, len) == Greatest(len, Size0(m))

\* What a layout asks of resize: the window gets the size asked for, or the
\* least one.
Rectangle(m) ==
  {r \in [x : Int, y : Int, w : Int, h : Int, w0 : Int, h0 : Int] :
     r.w = Sized(m, r.w0) /\ r.h = Sized(m, r.h0)}

\* The length a window is given is the one asked for, or the least size of a
\* window if that is more (resizeclient).
LEMMA SizedBounds ==
  ASSUME NEW m \in Screen, NEW len \in Int
  PROVE  /\ Size0(m) \in Nat /\ Sized(m, len) \in Nat /\ len <= Sized(m, len)
         /\ Size0(m) <= Sized(m, len)
         /\ Sized(m, len) # len => Sized(m, len) = Size0(m)
         /\ len >= Size0(m) => Sized(m, len) = len
<1>1. m.minbh \in Nat /\ m.bw \in Nat
  BY DEF Screen
<1> QED
  BY <1>1 DEF Size0, Sized, Greatest

\* resize moves nothing and gives no less than the least size.
LEMMA ResizeRect ==
  ASSUME NEW m \in Screen, NEW x \in Int, NEW y \in Int, NEW w \in Int, NEW h \in Int
  PROVE  /\ Resize(m, x, y, w, h) \in Rectangle(m)
         /\ Resize(m, x, y, w, h).x = x /\ Resize(m, x, y, w, h).y = y
         /\ Resize(m, x, y, w, h).w = Sized(m, w) /\ Resize(m, x, y, w, h).h = Sized(m, h)
         /\ Resize(m, x, y, w, h).w0 = w /\ Resize(m, x, y, w, h).h0 = h
<1>1. m.minbh \in Nat /\ m.bw \in Nat
  BY DEF Screen
<1>2. Greatest(w - 2 * m.bw, m.minbh) + 2 * m.bw = Sized(m, w)
  BY <1>1 DEF Sized, Size0, Greatest
<1>3. Greatest(h - 2 * m.bw, m.minbh) + 2 * m.bw = Sized(m, h)
  BY <1>1 DEF Sized, Size0, Greatest
<1>4. Resize(m, x, y, w, h) = [x |-> x, y |-> y, w |-> Sized(m, w), h |-> Sized(m, h),
                               w0 |-> w, h0 |-> h]
  BY <1>2, <1>3 DEF Resize
<1>5. Sized(m, w) \in Int /\ Sized(m, h) \in Int
  BY SizedBounds
<1> QED
  BY <1>4, <1>5 DEF Rectangle

\* Each window begins a gap after the one before it, and where none is enlarged
\* the last one ends where the lengths and gaps do.
LEMMA OffsetSteps ==
  ASSUME NEW m \in Screen, NEW gap \in Nat, NEW lens \in Seq(Int)
  PROVE  /\ \A j \in 1..Len(lens) : Offset(lens, gap, m, j) \in Nat
         /\ \A i, j \in 1..Len(lens) : i < j =>
               Offset(lens, gap, m, i) + Sized(m, lens[i]) + gap <= Offset(lens, gap, m, j)
         /\ (\A j \in 1..Len(lens) : lens[j] >= Size0(m)) =>
               \A j \in 1..Len(lens) :
                  Offset(lens, gap, m, j) + Sized(m, lens[j])
                     <= SumOf(lens) + gap * (Len(lens) - 1)
<1> DEFINE n == Len(lens)
           q == [k \in 1..n |-> Sized(m, lens[k]) + gap]
<1>1. n \in Nat /\ n = Len(lens) /\ DOMAIN lens = 1..n /\ \A k \in 1..n : lens[k] \in Int
  OBVIOUS
<1>2. \A k \in 1..n : Greatest(lens[k], m.minbh + 2 * m.bw) + gap = Sized(m, lens[k]) + gap
  BY DEF Sized, Size0
<1>3. \A j : Offset(lens, gap, m, j) = Total(q, j - 1)
  BY <1>1, <1>2 DEF Offset
<1> HIDE DEF n
<1>4. \A k \in 1..n : Sized(m, lens[k]) \in Nat /\ lens[k] <= Sized(m, lens[k])
                      /\ Size0(m) \in Nat /\ (lens[k] >= Size0(m) => Sized(m, lens[k]) = lens[k])
  <2>1. ASSUME NEW k \in 1..n
        PROVE  Sized(m, lens[k]) \in Nat /\ lens[k] <= Sized(m, lens[k])
               /\ Size0(m) \in Nat /\ (lens[k] >= Size0(m) => Sized(m, lens[k]) = lens[k])
    <3>1. lens[k] \in Int
      BY <1>1
    <3> QED
      BY <3>1, SizedBounds
  <2> QED
    BY <2>1
<1>5. q \in [1..n -> Int] /\ \A k \in 1..n : q[k] = Sized(m, lens[k]) + gap
  BY <1>4
<1> HIDE DEF q
<1>6. q \in Seq(Int) /\ Len(q) = n
  BY <1>1, <1>5, SeqMade
<1>7. \A k \in 1..n : q[k] >= 0
  BY <1>4, <1>5
<1>8. ASSUME NEW j \in 1..n
      PROVE  /\ Total(q, j - 1) \in Nat /\ Total(q, j) \in Int
             /\ Total(q, j) = Total(q, j - 1) + Sized(m, lens[j]) + gap
  <2>1. j - 1 \in 0..n /\ j \in 0..n
    BY <1>1
  <2>2. Total(q, j - 1) \in Int /\ Total(q, j) \in Int /\ Total(q, j) = Total(q, j - 1) + q[j]
    BY <1>6, <2>1, TotalRuns
  <2>3. 0 <= Total(q, j - 1)
    BY <1>6, <1>7, <2>1, TotalGrows
  <2>4. q[j] = Sized(m, lens[j]) + gap /\ Sized(m, lens[j]) \in Int
    BY <1>4, <1>5
  <2> QED
    BY <2>2, <2>3, <2>4
<1>9. ASSUME NEW i \in 1..n, NEW j \in 1..n, i < j
      PROVE  Total(q, i - 1) + Sized(m, lens[i]) + gap <= Total(q, j - 1)
  <2>1. i \in 0..n /\ j - 1 \in 0..n /\ i <= j - 1
    BY <1>1, <1>9
  <2>2. Total(q, i) <= Total(q, j - 1)
    BY <1>6, <1>7, <2>1, TotalGrows
  <2> QED
    BY <1>8, <2>2
<1>10. ASSUME \A j \in 1..n : lens[j] >= Size0(m), NEW j \in 1..n
       PROVE  Total(q, j - 1) + Sized(m, lens[j]) <= SumOf(lens) + gap * (n - 1)
  <2> DEFINE one == 1
  <2>1. \A k \in 1..n : q[k] = one * lens[k] + gap
    BY <1>1, <1>4, <1>5, <1>10
  <2>2. n \in 0..n /\ j \in 0..n /\ j <= n /\ n <= n
    BY <1>1
  <2>3. Total(q, n) = one * Total(lens, n) + gap * n
    <3>1. one \in Int /\ gap \in Int
      OBVIOUS
    <3>2. n <= Len(lens) /\ n <= Len(q) /\ lens \in Seq(Int)
      BY <1>1, <1>6, <2>2
    <3> HIDE DEF one
    <3>3. \A k \in 0..n : Total(q, k) = one * Total(lens, k) + gap * k
      BY <1>1, <1>6, <2>1, <3>1, <3>2, TotalLinear
    <3> QED
      BY <2>2, <3>3
  <2>4. Total(q, j) <= Total(q, n)
    BY <1>6, <1>7, <2>2, TotalGrows
  <2>5. Total(lens, n) \in Int /\ Total(q, n) \in Int
    BY <1>1, <1>6, <2>2, TotalRuns
  <2>6. gap * (n - 1) = gap * n - gap /\ gap * n \in Int
    BY <1>1
  <2>7. SumOf(lens) = Total(lens, n)
    BY <1>1 DEF SumOf
  <2>8. Sized(m, lens[j]) \in Int
    BY <1>4
  <2> QED
    BY <1>8, <2>3, <2>4, <2>5, <2>6, <2>7, <2>8
<1> QED
  BY <1>1, <1>3, <1>8, <1>9, <1>10

\* R is n windows one above the other, w wide, from y on and, if none of them
\* is enlarged, down to the end.
Upright(m, R, n, x, y, w, end) ==
  /\ R \in Seq(Rectangle(m)) /\ Len(R) = n
  /\ \A j \in 1..n : /\ R[j].x = x /\ R[j].w = Sized(m, w)
                     /\ y <= R[j].y /\ R[j].h >= Size0(m)
  /\ \A i, j \in 1..n : i < j => R[i].y + R[i].h + m.iv <= R[j].y
  /\ (\A j \in 1..n : R[j].h > Size0(m)) => \A j \in 1..n : R[j].y + R[j].h <= end

\* R is n windows side by side, h high.
Level(m, R, n, x, y, h, end) ==
  /\ R \in Seq(Rectangle(m)) /\ Len(R) = n
  /\ \A j \in 1..n : /\ R[j].y = y /\ R[j].h = Sized(m, h)
                     /\ x <= R[j].x /\ R[j].w >= Size0(m)
  /\ \A i, j \in 1..n : i < j => R[i].x + R[i].w + m.ih <= R[j].x
  /\ (\A j \in 1..n : R[j].w > Size0(m)) => \A j \in 1..n : R[j].x + R[j].w <= end

\* A column is.
LEMMA ColumnUpright ==
  ASSUME NEW m \in Screen, NEW x \in Int, NEW y \in Int, NEW w \in Int, NEW lens \in Seq(Int),
         NEW end \in Int, lens # << >> => y + SumOf(lens) + m.iv * (Len(lens) - 1) <= end
  PROVE  Upright(m, Column(m, x, y, w, lens), Len(lens), x, y, w, end)
<1> DEFINE n == Len(lens)
           R == Column(m, x, y, w, lens)
           B(j) == Offset(lens, m.iv, m, j)
<1>1. n \in Nat /\ n = Len(lens) /\ DOMAIN lens = 1..n /\ \A k \in 1..n : lens[k] \in Int
  OBVIOUS
<1>2. m.iv \in Nat
  BY DEF Screen
<1>3. /\ \A j \in 1..n : B(j) \in Nat
      /\ \A i, j \in 1..n : i < j => B(i) + Sized(m, lens[i]) + m.iv <= B(j)
      /\ (\A j \in 1..n : lens[j] >= Size0(m)) =>
            \A j \in 1..n : B(j) + Sized(m, lens[j]) <= SumOf(lens) + m.iv * (n - 1)
  BY <1>2, OffsetSteps
<1>4. R = [j \in 1..n |-> Resize(m, x, y + B(j), w, lens[j])]
  BY <1>1 DEF Column
<1> HIDE DEF n, R, B
<1>5. ASSUME NEW j \in 1..n
      PROVE  /\ R[j] \in Rectangle(m)
             /\ R[j].x = x /\ R[j].y = y + B(j) /\ R[j].w = Sized(m, w)
             /\ R[j].h = Sized(m, lens[j])
  <2> DEFINE at == y + B(j)
  <2>1. at \in Int /\ lens[j] \in Int
    BY <1>1, <1>3
  <2>2. R[j] = Resize(m, x, at, w, lens[j])
    BY <1>4
  <2> HIDE DEF at
  <2>3. /\ R[j] \in Rectangle(m)
        /\ R[j].x = x /\ R[j].y = at /\ R[j].w = Sized(m, w) /\ R[j].h = Sized(m, lens[j])
    <3> DEFINE lj == lens[j]
               r == Resize(m, x, at, w, lj)
    <3>0. lj \in Int
      BY <2>1
    <3> HIDE DEF lj
    <3>1. /\ r \in Rectangle(m) /\ r.x = x /\ r.y = at
          /\ r.w = Sized(m, w) /\ r.h = Sized(m, lj)
      BY ONLY m \in Screen, x \in Int, w \in Int, <2>1, <3>0, ResizeRect
    <3> HIDE DEF r
    <3> QED
      BY <2>2, <3>1 DEF r, lj
  <2> QED
    BY <2>3 DEF at
<1>6. R \in Seq(Rectangle(m)) /\ Len(R) = n
  <2>1. R \in [1..n -> Rectangle(m)]
    BY <1>4, <1>5
  <2> QED
    BY <1>1, <2>1, SeqMade
<1>7. \A j \in 1..n : Sized(m, lens[j]) \in Nat /\ Size0(m) <= Sized(m, lens[j])
                      /\ (Sized(m, lens[j]) # lens[j] => Sized(m, lens[j]) = Size0(m))
  BY <1>1, SizedBounds
<1>8. Size0(m) \in Nat
  BY SizedBounds
<1>9. \A j \in 1..n : y <= R[j].y /\ R[j].h >= Size0(m)
  BY <1>3, <1>5, <1>7, <1>8
<1>10. \A i, j \in 1..n : i < j => R[i].y + R[i].h + m.iv <= R[j].y
  BY <1>2, <1>3, <1>5, <1>7
<1>11. ASSUME \A j \in 1..n : R[j].h > Size0(m), NEW j \in 1..n
       PROVE  R[j].y + R[j].h <= end
  <2>1. ASSUME NEW k \in 1..n PROVE lens[k] >= Size0(m)
    <3>1. Sized(m, lens[k]) > Size0(m) /\ lens[k] \in Int
      BY <1>1, <1>5, <1>11
    <3> QED
      BY <3>1, <1>7, <1>8
  <2>2. B(j) + Sized(m, lens[j]) <= SumOf(lens) + m.iv * (n - 1)
    BY <1>3, <2>1
  <2>3. lens # << >> /\ n \in 0..n
    BY <1>1
  <2>4. SumOf(lens) \in Int /\ m.iv * (n - 1) \in Int
    BY <1>1, <1>2, <2>3, TotalRuns DEF SumOf
  <2>5. y + SumOf(lens) + m.iv * (n - 1) <= end
    BY <1>1, <2>3
  <2>6. B(j) \in Int /\ Sized(m, lens[j]) \in Int
    BY <1>3, <1>7
  <2>7. R[j].y = y + B(j) /\ R[j].h = Sized(m, lens[j])
    BY <1>5
  <2> QED
    BY <2>2, <2>4, <2>5, <2>6, <2>7
<1> QED
  BY <1>1, <1>5, <1>6, <1>9, <1>10, <1>11 DEF Upright, R

\* And so is a row.
LEMMA RowLevel ==
  ASSUME NEW m \in Screen, NEW x \in Int, NEW y \in Int, NEW h \in Int, NEW lens \in Seq(Int),
         NEW end \in Int, lens # << >> => x + SumOf(lens) + m.ih * (Len(lens) - 1) <= end
  PROVE  Level(m, Row(m, x, y, lens, h), Len(lens), x, y, h, end)
<1> DEFINE n == Len(lens)
           R == Row(m, x, y, lens, h)
           B(j) == Offset(lens, m.ih, m, j)
<1>1. n \in Nat /\ n = Len(lens) /\ DOMAIN lens = 1..n /\ \A k \in 1..n : lens[k] \in Int
  OBVIOUS
<1>2. m.ih \in Nat
  BY DEF Screen
<1>3. /\ \A j \in 1..n : B(j) \in Nat
      /\ \A i, j \in 1..n : i < j => B(i) + Sized(m, lens[i]) + m.ih <= B(j)
      /\ (\A j \in 1..n : lens[j] >= Size0(m)) =>
            \A j \in 1..n : B(j) + Sized(m, lens[j]) <= SumOf(lens) + m.ih * (n - 1)
  BY <1>2, OffsetSteps
<1>4. R = [j \in 1..n |-> Resize(m, x + B(j), y, lens[j], h)]
  BY <1>1 DEF Row
<1> HIDE DEF n, R, B
<1>5. ASSUME NEW j \in 1..n
      PROVE  /\ R[j] \in Rectangle(m)
             /\ R[j].y = y /\ R[j].x = x + B(j) /\ R[j].h = Sized(m, h)
             /\ R[j].w = Sized(m, lens[j])
  <2> DEFINE at == x + B(j)
  <2>1. at \in Int /\ lens[j] \in Int
    BY <1>1, <1>3
  <2>2. R[j] = Resize(m, at, y, lens[j], h)
    BY <1>4
  <2> HIDE DEF at
  <2>3. /\ R[j] \in Rectangle(m)
        /\ R[j].y = y /\ R[j].x = at /\ R[j].h = Sized(m, h) /\ R[j].w = Sized(m, lens[j])
    <3> DEFINE lj == lens[j]
               r == Resize(m, at, y, lj, h)
    <3>0. lj \in Int
      BY <2>1
    <3> HIDE DEF lj
    <3>1. /\ r \in Rectangle(m) /\ r.y = y /\ r.x = at
          /\ r.h = Sized(m, h) /\ r.w = Sized(m, lj)
      BY ONLY m \in Screen, y \in Int, h \in Int, <2>1, <3>0, ResizeRect
    <3> HIDE DEF r
    <3> QED
      BY <2>2, <3>1 DEF r, lj
  <2> QED
    BY <2>3 DEF at
<1>6. R \in Seq(Rectangle(m)) /\ Len(R) = n
  <2>1. R \in [1..n -> Rectangle(m)]
    BY <1>4, <1>5
  <2> QED
    BY <1>1, <2>1, SeqMade
<1>7. \A j \in 1..n : Sized(m, lens[j]) \in Nat /\ Size0(m) <= Sized(m, lens[j])
                      /\ (Sized(m, lens[j]) # lens[j] => Sized(m, lens[j]) = Size0(m))
  BY <1>1, SizedBounds
<1>8. Size0(m) \in Nat
  BY SizedBounds
<1>9. \A j \in 1..n : x <= R[j].x /\ R[j].w >= Size0(m)
  BY <1>3, <1>5, <1>7, <1>8
<1>10. \A i, j \in 1..n : i < j => R[i].x + R[i].w + m.ih <= R[j].x
  BY <1>2, <1>3, <1>5, <1>7
<1>11. ASSUME \A j \in 1..n : R[j].w > Size0(m), NEW j \in 1..n
       PROVE  R[j].x + R[j].w <= end
  <2>1. ASSUME NEW k \in 1..n PROVE lens[k] >= Size0(m)
    <3>1. Sized(m, lens[k]) > Size0(m) /\ lens[k] \in Int
      BY <1>1, <1>5, <1>11
    <3> QED
      BY <3>1, <1>7, <1>8
  <2>2. B(j) + Sized(m, lens[j]) <= SumOf(lens) + m.ih * (n - 1)
    BY <1>3, <2>1
  <2>3. lens # << >> /\ n \in 0..n
    BY <1>1
  <2>4. SumOf(lens) \in Int /\ m.ih * (n - 1) \in Int
    BY <1>1, <1>2, <2>3, TotalRuns DEF SumOf
  <2>5. x + SumOf(lens) + m.ih * (n - 1) <= end
    BY <1>1, <2>3
  <2>6. B(j) \in Int /\ Sized(m, lens[j]) \in Int
    BY <1>3, <1>7
  <2>7. R[j].x = x + B(j) /\ R[j].w = Sized(m, lens[j])
    BY <1>5
  <2> QED
    BY <2>2, <2>4, <2>5, <2>6, <2>7
<1> QED
  BY <1>1, <1>5, <1>6, <1>9, <1>10, <1>11 DEF Level, R

\* A length that is split evenly makes a column that ends where it does.
LEMMA EvenColumn ==
  ASSUME NEW m \in Screen, NEW x \in Int, NEW y \in Int, NEW w \in Int, NEW size \in Int,
         NEW facts \in Factors, NEW end \in Int,
         facts # << >> => y + size + m.iv * (Len(facts) - 1) <= end
  PROVE  Upright(m, Column(m, x, y, w, EvenSplit(size, facts)), Len(facts), x, y, w, end)
<1> DEFINE lens == EvenSplit(size, facts)
<1>1. lens \in Seq(Int) /\ Len(lens) = Len(facts) /\ (facts # << >> => SumOf(lens) = size)
  BY EvenSplitSum
<1>2. lens # << >> <=> facts # << >>
  BY <1>1, FactorsSum
<1> HIDE DEF lens
<1>3. lens # << >> => y + SumOf(lens) + m.iv * (Len(lens) - 1) <= end
  BY <1>1, <1>2
<1>4. Upright(m, Column(m, x, y, w, lens), Len(lens), x, y, w, end)
  BY <1>1, <1>3, ColumnUpright
<1> QED
  BY <1>1, <1>4 DEF lens

\* Or a row.
LEMMA EvenRow ==
  ASSUME NEW m \in Screen, NEW x \in Int, NEW y \in Int, NEW h \in Int, NEW size \in Int,
         NEW facts \in Factors, NEW end \in Int,
         facts # << >> => x + size + m.ih * (Len(facts) - 1) <= end
  PROVE  Level(m, Row(m, x, y, EvenSplit(size, facts), h), Len(facts), x, y, h, end)
<1> DEFINE lens == EvenSplit(size, facts)
<1>1. lens \in Seq(Int) /\ Len(lens) = Len(facts) /\ (facts # << >> => SumOf(lens) = size)
  BY EvenSplitSum
<1>2. lens # << >> <=> facts # << >>
  BY <1>1, FactorsSum
<1> HIDE DEF lens
<1>3. lens # << >> => x + SumOf(lens) + m.ih * (Len(lens) - 1) <= end
  BY <1>1, <1>2
<1>4. Level(m, Row(m, x, y, lens, h), Len(lens), x, y, h, end)
  BY <1>1, <1>3, RowLevel
<1> QED
  BY <1>1, <1>4 DEF lens

Beside(m, r, s) ==
  \/ r.x + r.w + m.ih <= s.x \/ s.x + s.w + m.ih <= r.x
  \/ r.y + r.h + m.iv <= s.y \/ s.y + s.h + m.iv <= r.y

\* resize has not enlarged the window.
Ample(m, r) == r.w > Size0(m) /\ r.h > Size0(m)

\* The edges of the area without its outer gaps.
LeftEnd(m)   == m.wx + m.oh

RightEnd(m)  == m.wx + m.ww - m.oh

TopEnd(m)    == m.wy + m.ov

BottomEnd(m) == m.wy + m.wh - m.ov

Inside(m, r, right, below) ==
  /\ LeftEnd(m) <= r.x /\ r.x + r.w <= RightEnd(m) + right
  /\ TopEnd(m) <= r.y /\ r.y + r.h <= BottomEnd(m) + below

\* An ample window of a column, or row, is as wide, or high, as was asked for.
LEMMA AmpleExact ==
  ASSUME NEW m \in Screen, NEW r \in Rectangle(m), Ample(m, r), NEW len \in Int
  PROVE  /\ r.w = Sized(m, len) => r.w = len /\ len > Size0(m)
         /\ r.h = Sized(m, len) => r.h = len /\ len > Size0(m)
<1>1. r.w \in Int /\ r.h \in Int
  BY DEF Rectangle
<1> QED
  BY <1>1, SizedBounds DEF Ample

\* Windows from x on that are w wide where they are ample.
Columnar(m, A, n, x, w, piled, below) ==
  /\ A \in Seq(Rectangle(m)) /\ Len(A) = n
  /\ ~piled => \A i, j \in 1..n : i < j => Beside(m, A[i], A[j])
  /\ \A j \in 1..n : A[j].x = x /\ TopEnd(m) <= A[j].y
  /\ \A j \in 1..n : Ample(m, A[j]) => A[j].w = w
  /\ (\A j \in 1..n : Ample(m, A[j])) => \A j \in 1..n : A[j].y + A[j].h <= BottomEnd(m) + below

\* The two lie beside each other, in the area.
Meet(m, k, l, mx, sx, mw, sw) ==
  /\ k > 0 /\ (l > 0 => sw >= 0) => LeftEnd(m) <= mx /\ mx + mw <= RightEnd(m)
  /\ l > 0 /\ (k > 0 => mw >= 0) => LeftEnd(m) <= sx /\ sx + sw <= RightEnd(m)
  /\ k > 0 /\ l > 0 => mx + mw + m.ih = sx \/ sx + sw + m.ih = mx

\* A row of windows below the upper edge, h high where they are ample.
Upper(m, A, n, h, right) ==
  /\ A \in Seq(Rectangle(m)) /\ Len(A) = n
  /\ \A i, j \in 1..n : i < j => Beside(m, A[i], A[j])
  /\ \A j \in 1..n : A[j].y = TopEnd(m) /\ LeftEnd(m) <= A[j].x
  /\ \A j \in 1..n : Ample(m, A[j]) => A[j].h = h
  /\ (\A j \in 1..n : Ample(m, A[j])) => \A j \in 1..n : A[j].x + A[j].w <= RightEnd(m) + right

\* Windows from y on.
Lower(m, B, n, y, right) ==
  /\ B \in Seq(Rectangle(m)) /\ Len(B) = n
  /\ \A i, j \in 1..n : i < j => Beside(m, B[i], B[j])
  /\ \A j \in 1..n : y <= B[j].y /\ LeftEnd(m) <= B[j].x
  /\ (\A j \in 1..n : Ample(m, B[j])) =>
        \A j \in 1..n : B[j].x + B[j].w <= RightEnd(m) + right /\ B[j].y + B[j].h <= BottomEnd(m)

\* A row at the top edge is as the upper row of a layout must be.
LEMMA LevelUpper ==
  ASSUME NEW m \in Screen, NEW A, NEW n \in Nat, NEW h \in Int, NEW right \in Int,
         Level(m, A, n, LeftEnd(m), TopEnd(m), h, RightEnd(m) + right)
  PROVE  Upper(m, A, n, h, right)
<1>1. ASSUME NEW j \in 1..n, Ample(m, A[j]) PROVE A[j].h = h
  <2>1. A[j].h = Sized(m, h) /\ A[j] \in Rectangle(m)
    BY DEF Level
  <2> QED
    BY <1>1, <2>1, AmpleExact
<1> QED
  BY <1>1 DEF Level, Upper, Beside, Ample

\* A row that ends above the bottom edge is as the lower row of a layout must
\* be.
LEMMA LevelLower ==
  ASSUME NEW m \in Screen, NEW B, NEW n \in Nat, NEW y \in Int, NEW h \in Int, NEW right \in Int,
         Level(m, B, n, LeftEnd(m), y, h, RightEnd(m) + right), n > 0 => y + h <= BottomEnd(m)
  PROVE  Lower(m, B, n, y, right)
<1>1. ASSUME NEW j \in 1..n, Ample(m, B[j]) PROVE B[j].y + B[j].h <= BottomEnd(m)
  <2>1. B[j].h = Sized(m, h) /\ B[j] \in Rectangle(m) /\ B[j].y = y /\ n > 0
    BY DEF Level
  <2>2. B[j].h = h
    BY <1>1, <2>1, AmpleExact
  <2> QED
    BY <2>1, <2>2
<1> QED
  BY <1>1 DEF Level, Lower, Beside, Ample

\* The sum of the edges between which a mirrored layout turns its windows, two
\* borders below the area's own.
Under(m) == 2 * m.wy + m.wh + 2 * m.bw

\* One area of it.
Over(m, A, cut) ==
  /\ A \in Seq(Rectangle(m))
  /\ \A i, j \in 1..Len(A) : i < j =>
        /\ cut = 0 => Beside(m, A[i], A[j])
        /\ cut = 1 /\ Ample(m, A[j]) => A[j].y + A[j].h - 1 + m.iv <= A[i].y

\* Windows of a row that take the rest of another division (horizgrid) may be
\* too long for it together, by less than a pixel each.
LEMMA OddSplitSum ==
  ASSUME NEW size \in Int, NEW facts \in Factors, facts # << >>,
         NEW rest \in 0..(Len(facts) - 1)
  PROVE  /\ Split(size, facts, LAMBDA j : j < rest) \in Seq(Int)
         /\ Len(Split(size, facts, LAMBDA j : j < rest)) = Len(facts)
         /\ SumOf(Split(size, facts, LAMBDA j : j < rest)) \in Int
         /\ SumOf(Split(size, facts, LAMBDA j : j < rest)) <= size + (Len(facts) - 1)
<1> DEFINE n == Len(facts)
           s == Split(size, facts, LAMBDA j : j < rest)
<1>1. n \in Nat /\ DOMAIN facts = 1..n
  BY FactorsSum
<1>2. s = [j \in DOMAIN facts |-> Share(size, facts[j], SumOf(facts)) + IF j - 1 < rest THEN 1 ELSE 0]
  BY DEF Split
<1>3. s = Padded(size, facts, Firsts(n, rest))
  BY <1>1, <1>2 DEF Padded, Shares, Firsts
<1> HIDE DEF s, n
<1>4. rest \in 0..n /\ rest \in Int /\ rest <= n - 1 /\ n = Len(facts)
  BY <1>1 DEF n
<1>5. Firsts(n, rest) \in [1..n -> Int] /\ SumOf(Firsts(n, rest)) = rest
  BY <1>1, <1>4, FirstsSum
<1>6. Firsts(n, rest) \in [1..Len(facts) -> Int]
  BY <1>4, <1>5
<1>7. s \in Seq(Int) /\ Len(s) = n /\ SumOf(s) = size - Leftover(size, facts) + rest
  BY <1>3, <1>4, <1>5, <1>6, PaddedSum
<1>8. Leftover(size, facts) \in Int /\ 0 <= Leftover(size, facts)
  BY LeftoverBounds
<1>9. SumOf(s) \in Int /\ SumOf(s) <= size + (n - 1)
  BY <1>1, <1>4, <1>7, <1>8
<1> QED
  BY <1>7, <1>9 DEF s, n

\* The half of a number.
Half(n) == n \div 2

\* Half of the windows, rounded down, is at least one window and not all of
\* them from two windows on (horizgrid).
LEMMA HalfBounds ==
  ASSUME NEW n \in Nat
  PROVE  /\ Half(n) \in Nat /\ n \in (2 * Half(n))..(2 * Half(n) + 1)
         /\ n >= 2 => Half(n) \in 1..(n - 1)
<1> DEFINE h == Half(n)
           two == 2
<1>1. two \in Nat \ {0} /\ two = 2
  OBVIOUS
<1> HIDE DEF two
<1>2. n \div two \in Int /\ n % two \in 0..(two - 1) /\ n = (two * (n \div two)) + (n % two)
  BY <1>1, DivMod
<1>3. h \in Int /\ n - 2 * h \in 0..1
  BY <1>1, <1>2 DEF Half
<1> HIDE DEF h
<1>4. h \in Nat /\ n \in (2 * h)..(2 * h + 1) /\ (n >= 2 => h \in 1..(n - 1))
  BY <1>3
<1> QED
  BY <1>4 DEF h

TopCount(n) == IF n <= 2 THEN n ELSE n \div 2

\* horizgrid puts half of the windows in the upper row, and all of them if they
\* are no more than two.
LEMMA TopCounts ==
  ASSUME NEW n \in Nat, n # 0
  PROVE  /\ TopCount(n) \in 1..n
         /\ n <= 2 => TopCount(n) = n
         /\ n > 2 => TopCount(n) = Half(n) /\ TopCount(n) < n
<1>1. CASE n <= 2
  BY <1>1 DEF TopCount
<1>2. CASE n > 2
  <2>1. TopCount(n) = Half(n)
    BY <1>2 DEF TopCount, Half
  <2>2. n >= 2
    BY <1>2
  <2>3. Half(n) \in 1..(n - 1)
    BY <2>2, HalfBounds
  <2> QED
    BY <1>2, <2>1, <2>3
<1> QED
  BY <1>1, <1>2

\* Columns whose windows come in any order in the list of clients: R is the
\* windows', S the columns, each s with the place C[s] of its N[s] windows, its
\* left edge and its width; the i-th window is the pos[i]-th of side[i].
ColumnsMade(m, n, R, S, C, N, X, W, side, pos) ==
  /\ \A s \in S : /\ N[s] \in Nat /\ X[s] \in Int /\ W[s] \in Int
                  /\ Columnar(m, C[s], N[s], X[s], W[s], FALSE, 0)
  /\ \A i \in 1..n : /\ R[i] \in Rectangle(m)
                     /\ side[i] \in S /\ pos[i] \in 1..N[side[i]] /\ R[i] = C[side[i]][pos[i]]
  /\ \A i, j \in 1..n : i < j /\ side[i] = side[j] => pos[i] < pos[j]
  /\ \A s \in S : \A p \in 1..N[s] : \E i \in 1..n : R[i] = C[s][p]
  /\ \A s, t \in S : s # t /\ N[s] > 0 /\ N[t] > 0 /\ W[s] > 0 /\ W[t] > 0 =>
        X[s] + W[s] + m.ih <= X[t] \/ X[t] + W[t] + m.ih <= X[s]
  /\ (\A t \in S : N[t] > 0 => W[t] > 0) =>
        \A s \in S : N[s] > 0 => LeftEnd(m) <= X[s] /\ X[s] + W[s] <= RightEnd(m)

\* The widths of centredmaster with a column at each side: if there is any room
\* at the left there is some in the middle.
LEMMA CentreWidths ==
  ASSUME NEW V \in Int, NEW f \in 5..95, NEW mw, mw = (V * f) \div 100,
         NEW lw, lw = (V - mw) \div 2
  PROVE  mw \in Int /\ lw \in Int /\ (lw > 0 => mw >= 0)
<1> DEFINE hundred == 100
           two == 2
           p == V * f
<1>1. hundred \in Nat \ {0} /\ hundred = 100 /\ two \in Nat \ {0} /\ two = 2 /\ p \in Int
  OBVIOUS
<1>2. /\ V >= 0 => p >= 0
      /\ V < 0 => p >= 100 * V
  <2>1. V >= 0 => V * f >= 0
    OBVIOUS
  <2>2. ASSUME V < 0 PROVE V * f >= V * 100
    <3>1. f \in Int /\ f <= 100
      OBVIOUS
    <3>2. V * (100 - f) <= 0
      BY <2>2, <3>1
    <3>3. V * (100 - f) = V * 100 - V * f
      BY <3>1
    <3> QED
      BY <3>1, <3>2, <3>3
  <2> QED
    BY <2>1, <2>2
<1> HIDE DEF hundred, two, p
<1>3. /\ p \div hundred \in Int /\ p % hundred \in 0..(hundred - 1)
      /\ p = (hundred * (p \div hundred)) + (p % hundred)
  BY <1>1, DivMod
<1>4. mw = p \div hundred
  BY <1>1 DEF p
<1>5. mw \in Int /\ (V >= 0 => mw >= 0) /\ (V < 0 => mw >= V)
  <2>1. mw \in Int /\ p % hundred \in 0..99 /\ p = (100 * mw) + (p % hundred)
    BY <1>1, <1>3, <1>4
  <2> QED
    BY <1>1, <1>2, <2>1
<1>6. V - mw \in Int
  BY <1>5
<1> DEFINE e == V - mw
<1>7. e \in Int /\ lw = e \div two
  BY <1>1, <1>6
<1> HIDE DEF e
<1>8. lw \in Int /\ e % two \in 0..1 /\ e = (2 * lw) + (e % two)
  <2>1. /\ e \div two \in Int /\ e % two \in 0..(two - 1) /\ e = (two * (e \div two)) + (e % two)
    BY <1>1, <1>7, DivMod
  <2> QED
    BY <1>1, <1>7, <2>1
<1>9. lw > 0 => e > 0
  BY <1>8
<1>10. e > 0 => V > mw
  BY <1>5 DEF e
<1> QED
  BY <1>5, <1>8, <1>9, <1>10

\* The stack's windows go right and left in turn: the number among those of its
\* side of the q-th.
SidePos(q) == IF q % 2 = 1 THEN Half(q + 1) ELSE Half(q)

\* Each window of the stack has a side, by turns, and a place on it
\* (centredmaster).
LEMMA SideTurns ==
  ASSUME NEW q \in Nat \ {0}
  PROVE  q % 2 \in {0, 1} /\ SidePos(q) \in Nat \ {0} /\ q = 2 * SidePos(q) - (q % 2)
<1> DEFINE two == 2
           h == Half(q)
           g == Half(q + 1)
           r == q % 2
<1>1. two \in Nat \ {0} /\ two = 2
  OBVIOUS
<1> HIDE DEF two
<1>2. q \div two \in Int /\ q % two \in 0..(two - 1) /\ q = (two * (q \div two)) + (q % two)
  BY <1>1, DivMod
<1>3. h \in Int /\ r \in 0..1 /\ q = 2 * h + r
  BY <1>1, <1>2 DEF Half
<1>4. g \in Nat /\ q + 1 \in (2 * g)..(2 * g + 1)
  <2> HIDE DEF g
  <2>1. q + 1 \in Nat
    OBVIOUS
  <2>2. Half(q + 1) \in Nat /\ q + 1 \in (2 * Half(q + 1))..(2 * Half(q + 1) + 1)
    BY <2>1, HalfBounds
  <2> QED
    BY <2>2 DEF g
<1>5. SidePos(q) = IF r = 1 THEN g ELSE h
  BY DEF SidePos
<1> HIDE DEF h, g, r
<1>6. CASE r = 1
  BY <1>3, <1>4, <1>5, <1>6 DEF r
<1>7. CASE r = 0
  BY <1>3, <1>4, <1>5, <1>7 DEF r
<1> QED
  BY <1>3, <1>6, <1>7

\* The windows of centredmaster are in the middle, left (1) or right (2).
SideOf(m, i) == IF m.nmaster = 0 \/ i <= m.nmaster THEN 0 ELSE 1 + ((i - m.nmaster) % 2)

\* The room that is left, after each window of dwindle and spiral.
FibState == [nx : Int, ny : Int, nw : Int, nh : Int, hrest : Int, wrest : Int, r : BOOLEAN, i : Nat]

FibX(m, g) == IF m.mirror THEN m.wx + m.ww - (g.nx - m.wx) - g.nw - 2 * m.bw ELSE g.nx

\* The state of fibonacci holds numbers.
LEMMA FibFields ==
  ASSUME NEW f \in FibState
  PROVE  /\ f.nx \in Int /\ f.ny \in Int /\ f.nw \in Int /\ f.nh \in Int
         /\ f.hrest \in Int /\ f.wrest \in Int /\ f.i \in Nat
BY DEF FibState

\* A list has as many elements as it numbers.
LEMMA ListingLength ==
  ASSUME NEW n \in Nat, NEW f, f = [j \in 1..n |-> f[j]]
  PROVE  f \in Seq({f[j] : j \in 1..n}) /\ Len(f) = n
<1>1. f \in [1..n -> {f[j] : j \in 1..n}]
  OBVIOUS
<1> QED
  BY <1>1, SeqMade

\* A row has a rectangle for each of its lengths.
LEMMA RowSeq ==
  ASSUME NEW m \in Screen, NEW x \in Int, NEW y \in Int, NEW h \in Int, NEW lens \in Seq(Int)
  PROVE  Row(m, x, y, lens, h) \in Seq(Rectangle(m)) /\ Len(Row(m, x, y, lens, h)) = Len(lens)
<1> DEFINE R == Row(m, x, y, lens, h)
           n == Len(lens)
<1>1. n \in Nat /\ DOMAIN lens = 1..n /\ \A j \in 1..n : lens[j] \in Int
  OBVIOUS
<1>2. \A j \in 1..n : Offset(lens, m.ih, m, j) \in Nat
  BY OffsetSteps DEF Screen
<1>3. R = [j \in 1..n |-> Resize(m, x + Offset(lens, m.ih, m, j), y, lens[j], h)]
  BY <1>1 DEF Row
<1>4. ASSUME NEW j \in 1..n
      PROVE  Resize(m, x + Offset(lens, m.ih, m, j), y, lens[j], h) \in Rectangle(m)
  <2> DEFINE at == x + Offset(lens, m.ih, m, j)
  <2>1. at \in Int /\ lens[j] \in Int
    BY <1>1, <1>2
  <2> HIDE DEF at
  <2>2. Resize(m, at, y, lens[j], h) \in Rectangle(m)
    BY <2>1, ResizeRect
  <2> QED
    BY <2>2 DEF at
<1> HIDE DEF R, n
<1>5. R \in [1..n -> Rectangle(m)]
  BY <1>3, <1>4
<1>6. R \in Seq(Rectangle(m)) /\ Len(R) = n
  BY <1>1, <1>5, SeqMade
<1> QED
  BY <1>6 DEF R, n

\* Two lists make one.
LEMMA SeqsJoined ==
  ASSUME NEW T, NEW p \in Seq(T), NEW q \in Seq(T)
  PROVE  p \o q \in Seq(T) /\ Len(p \o q) = Len(p) + Len(q)
OBVIOUS

\* The size a window has had before, as far as it tells where it is pulled back.
Size == [w : Nat \ {0}, h : Nat \ {0}]

\* A window that is asked to be at s stays there if that is in the area.
KeepsPlace(m, s) ==
  /\ s.x < m.wx + m.ww /\ s.x + Greatest(s.w0, 1 + 2 * m.bw) > m.wx
  /\ s.y < m.wy + m.wh /\ s.y + Greatest(s.h0, 1 + 2 * m.bw) > m.wy

\* It lies at r, with the size asked for, and a part of it is in the area.
Lies(m, r, s) ==
  /\ r \in [x : Int, y : Int, w : Int, h : Int] /\ r.w = s.w /\ r.h = s.h
  /\ KeepsPlace(m, s) => r.x = s.x /\ r.y = s.y
  /\ r.x < m.wx + m.ww /\ r.x + r.w > m.wx
  /\ r.y < m.wy + m.wh /\ r.y + r.h > m.wy

\* A window is pulled back far enough to be seen (applysizehints).
LEMMA PulledBack ==
  ASSUME NEW m \in Screen, m.ww > 0, m.wh > 0, m.minbh > 0, NEW s \in Rectangle(m), NEW old \in Size
  PROVE  Lies(m, PullBack(m, s, old), s)
<1>1. /\ m.wx \in Int /\ m.wy \in Int /\ m.ww \in Int /\ m.wh \in Int /\ m.minbh \in Nat /\ m.bw \in Nat
  BY DEF Screen
<1>2. /\ s.x \in Int /\ s.y \in Int /\ s.w0 \in Int /\ s.h0 \in Int
      /\ s.w = Sized(m, s.w0) /\ s.h = Sized(m, s.h0)
  BY DEF Rectangle
<1>3. old.w \in Nat /\ old.h \in Nat /\ old.w > 0 /\ old.h > 0
  BY DEF Size
<1> DEFINE Back(p, q, at, len, had) ==
             LET to == IF at >= p + q THEN p + q - had ELSE at
             IN  IF to + Greatest(len, 1 + 2 * m.bw) <= p THEN p ELSE to
<1>4. ASSUME NEW p \in Int, NEW q \in Int, q > 0, NEW at \in Int, NEW len \in Int, NEW had \in Nat, had > 0
      PROVE  /\ Back(p, q, at, len, had) \in Int /\ Sized(m, len) \in Int
             /\ at < p + q /\ at + Greatest(len, 1 + 2 * m.bw) > p => Back(p, q, at, len, had) = at
             /\ Back(p, q, at, len, had) < p + q /\ Back(p, q, at, len, had) + Sized(m, len) > p
  <2> DEFINE k == Greatest(len, 1 + 2 * m.bw)
             z == Sized(m, len)
             to == IF at >= p + q THEN p + q - had ELSE at
             b == IF to + k <= p THEN p ELSE to
  <2>1. k \in Int /\ z \in Int /\ k <= z /\ z > 0
    BY <1>1 DEF Greatest, Sized, Size0
  <2> HIDE DEF k, z
  <2>2. to \in Int /\ to < p + q /\ (at < p + q => to = at)
    BY <1>4
  <2> HIDE DEF to
  <2>3. /\ b \in Int /\ (at < p + q /\ at + k > p => b = at)
        /\ b < p + q /\ b + z > p
    BY <1>4, <2>1, <2>2
  <2> QED
    BY <2>1, <2>3 DEF k, z, to
<1> DEFINE r == PullBack(m, s, old)
<1>5. r = [x |-> Back(m.wx, m.ww, s.x, s.w0, old.w), y |-> Back(m.wy, m.wh, s.y, s.h0, old.h), w |-> s.w, h |-> s.h]
  BY DEF PullBack
<1> HIDE DEF Back
<1>6. /\ Back(m.wx, m.ww, s.x, s.w0, old.w) \in Int /\ Sized(m, s.w0) \in Int
      /\ s.x < m.wx + m.ww /\ s.x + Greatest(s.w0, 1 + 2 * m.bw) > m.wx =>
            Back(m.wx, m.ww, s.x, s.w0, old.w) = s.x
      /\ Back(m.wx, m.ww, s.x, s.w0, old.w) < m.wx + m.ww
      /\ Back(m.wx, m.ww, s.x, s.w0, old.w) + Sized(m, s.w0) > m.wx
  BY <1>1, <1>2, <1>3, <1>4
<1>7. /\ Back(m.wy, m.wh, s.y, s.h0, old.h) \in Int /\ Sized(m, s.h0) \in Int
      /\ s.y < m.wy + m.wh /\ s.y + Greatest(s.h0, 1 + 2 * m.bw) > m.wy =>
            Back(m.wy, m.wh, s.y, s.h0, old.h) = s.y
      /\ Back(m.wy, m.wh, s.y, s.h0, old.h) < m.wy + m.wh
      /\ Back(m.wy, m.wh, s.y, s.h0, old.h) + Sized(m, s.h0) > m.wy
  BY <1>1, <1>2, <1>3, <1>4
<1> HIDE DEF r
<1> DEFINE px == Back(m.wx, m.ww, s.x, s.w0, old.w)
           py == Back(m.wy, m.wh, s.y, s.h0, old.h)
<1>8. r = [x |-> px, y |-> py, w |-> s.w, h |-> s.h]
  BY <1>5
<1> HIDE DEF px, py
<1>9. r \in [x : Int, y : Int, w : Int, h : Int] /\ r.x = px /\ r.y = py /\ r.w = s.w /\ r.h = s.h
  BY <1>2, <1>6, <1>7, <1>8 DEF px, py
<1> QED
  BY <1>2, <1>6, <1>7, <1>9 DEF Lies, KeepsPlace, r, px, py

\* Lists that agree on a stretch have the same stretch.
LEMMA Stretch ==
  ASSUME NEW T, NEW q \in Seq(T), NEW r \in Seq(T), NEW p \in Nat \ {0}, NEW e \in Nat,
         \A i \in p..e : q[i] = r[i]
  PROVE  SubSeq(q, p, e) = SubSeq(r, p, e)
<1>1. \A i \in 1..(1 + e - p) : p + i - 1 \in p..e /\ q[p + i - 1] = r[p + i - 1]
  OBVIOUS
<1> QED
  BY <1>1

\* u is where a window at x goes that is w wide, when the area is turned about
\* its middle and moved d to the left.
Opposite(m, x, w, u, d) == u = 2 * m.wx + m.ww - x - w - d

XTurned(m, r, d) == [r EXCEPT !.x = 2 * m.wx + m.ww - r.x - r.w - d]

\* A window turned from top to bottom about the middle of the area, two borders
\* further down but for the c pixels it may be higher.
YTurned(m, r, c) == [r EXCEPT !.y = Under(m) - r.y - r.h - c]

\* Where a window is that has been asked for at r.
PlaceAt(r) == [x |-> r.x, y |-> r.y, w |-> r.w, h |-> r.h]

\* What windows take of the area, each with an inner gap to its right and below.
Cover(m, R) == [i \in 1..Len(R) |-> (R[i].w + m.ih) * (R[i].h + m.iv)]

\* The areas covered by rectangles are as many numbers as there are rectangles.
LEMMA CoverType ==
  ASSUME NEW m \in Screen, NEW R \in Seq(Rectangle(m))
  PROVE  Cover(m, R) \in Seq(Int) /\ Len(Cover(m, R)) = Len(R)
<1> DEFINE n == Len(R)
<1>1. n \in Nat /\ \A i \in 1..n : R[i] \in Rectangle(m)
  OBVIOUS
<1>2. ASSUME NEW i \in 1..n PROVE (R[i].w + m.ih) * (R[i].h + m.iv) \in Int
  <2> DEFINE p == R[i].w + m.ih
             q == R[i].h + m.iv
  <2>1. p \in Int /\ q \in Int
    <3>1. R[i].w \in Int /\ R[i].h \in Int
      BY <1>1 DEF Rectangle
    <3>2. m.ih \in Int /\ m.iv \in Int
      BY DEF Screen
    <3> QED
      BY <3>1, <3>2
  <2> HIDE DEF p, q
  <2>2. p * q \in Int
    BY <2>1, Products
  <2> QED
    BY <2>2 DEF p, q
<1>3. Cover(m, R) \in [1..n -> Int]
  BY <1>2 DEF Cover
<1> QED
  BY <1>1, <1>3, SeqMade

\* Two parts of a layout cover the sum of what each covers.
LEMMA CoverJoin ==
  ASSUME NEW m \in Screen, NEW A \in Seq(Rectangle(m)), NEW B \in Seq(Rectangle(m))
  PROVE  SumOf(Cover(m, A \o B)) = SumOf(Cover(m, A)) + SumOf(Cover(m, B))
<1> DEFINE k == Len(A)
           l == Len(B)
           c(r) == (r.w + m.ih) * (r.h + m.iv)
           p == Cover(m, A)
           q == Cover(m, B)
<1>1. k \in Nat /\ l \in Nat /\ Len(A \o B) = k + l
  OBVIOUS
<1>2. p \in Seq(Int) /\ Len(p) = k /\ q \in Seq(Int) /\ Len(q) = l
  BY CoverType
<1>3. /\ Cover(m, A \o B) = [i \in 1..(k + l) |-> c((A \o B)[i])]
      /\ p = [i \in 1..k |-> c(A[i])] /\ q = [i \in 1..l |-> c(B[i])]
  BY <1>1 DEF Cover
<1> HIDE DEF c, p, q
<1>4. \A i \in 1..(k + l) : (A \o B)[i] = IF i <= k THEN A[i] ELSE B[i - k]
  BY JoinAt
<1> HIDE DEF k, l
<1>5. \A i \in 1..(k + l) : c((A \o B)[i]) = IF i <= k THEN p[i] ELSE q[i - k]
  BY <1>1, <1>3, <1>4
<1> DEFINE e == Cover(m, A \o B)
           d == p \o q
<1>6. e \in Seq(Int) /\ Len(e) = k + l
  <2>1. A \o B \in Seq(Rectangle(m))
    OBVIOUS
  <2> QED
    BY <1>1, <2>1, CoverType
<1>7. d \in Seq(Int) /\ Len(d) = k + l /\ SumOf(d) = SumOf(p) + SumOf(q)
  BY <1>2, TotalConcat
<1>8. ASSUME NEW i \in 1..(k + l) PROVE d[i] = IF i <= k THEN p[i] ELSE q[i - k]
  <2>1. i \in 1..(Len(p) + Len(q))
    BY <1>2
  <2>2. (p \o q)[i] = IF i <= Len(p) THEN p[i] ELSE q[i - Len(p)]
    BY <1>2, <2>1, NumbersJoined
  <2> QED
    BY <1>2, <2>2
<1>9. \A i \in 1..(k + l) : e[i] = d[i]
  BY <1>3, <1>5, <1>8
<1> HIDE DEF d, e
<1>10. d = e
  BY <1>1, <1>6, <1>7, <1>9
<1> QED
  BY <1>7, <1>10 DEF e, p, q

\* A column takes its width, a row its height, of all it is given.
LEMMA ColumnCover ==
  ASSUME NEW m \in Screen, NEW x \in Int, NEW y \in Int, NEW w \in Int, NEW lens \in Seq(Int),
         Column(m, x, y, w, lens) \in Seq(Rectangle(m)), Len(Column(m, x, y, w, lens)) = Len(lens),
         \A i \in 1..Len(lens) : Ample(m, Column(m, x, y, w, lens)[i])
  PROVE  SumOf(Cover(m, Column(m, x, y, w, lens))) = (w + m.ih) * (SumOf(lens) + m.iv * Len(lens))
<1> DEFINE C == Column(m, x, y, w, lens)
           n == Len(lens)
           a == w + m.ih
           c == Cover(m, C)
<1>1. C \in Seq(Rectangle(m)) /\ Len(C) = n /\ n \in Nat /\ DOMAIN lens = 1..n
  OBVIOUS
<1>2. m.ih \in Int /\ m.iv \in Int /\ m.iv \in Nat
  BY DEF Screen
<1>3. a \in Int
  BY <1>2
<1>4. ASSUME NEW i \in 1..n PROVE C[i].w = w /\ C[i].h = lens[i]
  <2> DEFINE t == y + Offset(lens, m.iv, m, i)
             z == lens[i]
  <2>1. C[i] = Resize(m, x, t, w, z)
    BY <1>1 DEF Column
  <2>2. Offset(lens, m.iv, m, i) \in Nat
    BY <1>1, <1>2, OffsetSteps
  <2>3. t \in Int /\ z \in Int
    BY <2>2
  <2>4. Ample(m, C[i]) /\ C[i] \in Rectangle(m)
    BY <1>1
  <2> HIDE DEF t, z, C
  <2>5. C[i].w = Sized(m, w) /\ C[i].h = Sized(m, z)
    <3>1. Resize(m, x, t, w, z).w = Sized(m, w)
      BY <2>3, ResizeRect
    <3>2. Resize(m, x, t, w, z).h = Sized(m, z)
      BY <2>3, ResizeRect
    <3> QED
      BY <2>1, <3>1, <3>2
  <2>6. C[i].w = w /\ C[i].h = z
    BY <2>3, <2>4, <2>5, AmpleExact
  <2> QED
    BY <2>6 DEF z
<1> HIDE DEF C
<1>5. c \in Seq(Int) /\ Len(c) = n
  BY <1>1, CoverType
<1>6. \A i \in 1..n : c[i] = a * (lens[i] + m.iv)
  BY <1>1, <1>4 DEF Cover
<1> HIDE DEF a, c, n
<1>7. SumOf(c) = a * (SumOf(lens) + m.iv * Len(lens))
  BY <1>2, <1>3, <1>5, <1>6, Stripes DEF n
<1> QED
  BY <1>7 DEF a, c, C

\* Windows in a row cover, gaps included, the height of the row times its
\* lengths.
LEMMA RowCover ==
  ASSUME NEW m \in Screen, NEW x \in Int, NEW y \in Int, NEW h \in Int, NEW lens \in Seq(Int),
         Row(m, x, y, lens, h) \in Seq(Rectangle(m)), Len(Row(m, x, y, lens, h)) = Len(lens),
         \A i \in 1..Len(lens) : Ample(m, Row(m, x, y, lens, h)[i])
  PROVE  SumOf(Cover(m, Row(m, x, y, lens, h))) = (h + m.iv) * (SumOf(lens) + m.ih * Len(lens))
<1> DEFINE C == Row(m, x, y, lens, h)
           n == Len(lens)
           a == h + m.iv
           c == Cover(m, C)
<1>1. C \in Seq(Rectangle(m)) /\ Len(C) = n /\ n \in Nat /\ DOMAIN lens = 1..n
  OBVIOUS
<1>2. m.ih \in Int /\ m.iv \in Int /\ m.ih \in Nat
  BY DEF Screen
<1>3. a \in Int
  BY <1>2
<1>4. ASSUME NEW i \in 1..n PROVE C[i].h = h /\ C[i].w = lens[i]
  <2> DEFINE t == x + Offset(lens, m.ih, m, i)
             z == lens[i]
  <2>1. C[i] = Resize(m, t, y, z, h)
    BY <1>1 DEF Row
  <2>2. Offset(lens, m.ih, m, i) \in Nat
    BY <1>1, <1>2, OffsetSteps
  <2>3. t \in Int /\ z \in Int
    BY <2>2
  <2>4. Ample(m, C[i]) /\ C[i] \in Rectangle(m)
    BY <1>1
  <2> HIDE DEF t, z, C
  <2>5. C[i].h = Sized(m, h) /\ C[i].w = Sized(m, z)
    <3>1. Resize(m, t, y, z, h).h = Sized(m, h)
      BY <2>3, ResizeRect
    <3>2. Resize(m, t, y, z, h).w = Sized(m, z)
      BY <2>3, ResizeRect
    <3> QED
      BY <2>1, <3>1, <3>2
  <2>6. C[i].h = h /\ C[i].w = z
    BY <2>3, <2>4, <2>5, AmpleExact
  <2> QED
    BY <2>6 DEF z
<1> HIDE DEF C
<1>5. c \in Seq(Int) /\ Len(c) = n
  BY <1>1, CoverType
<1>6. \A i \in 1..n : c[i] = a * (lens[i] + m.ih)
  <2>1. ASSUME NEW i \in 1..n PROVE c[i] = a * (lens[i] + m.ih)
    <3> DEFINE u == lens[i] + m.ih
    <3>1. u \in Int
      BY <1>1, <1>2
    <3>2. c[i] = u * a
      BY <1>1, <1>4 DEF Cover
    <3> HIDE DEF u, c, a
    <3> QED
      BY <1>3, <3>1, <3>2, Products DEF u
  <2> QED
    BY <2>1
<1> HIDE DEF a, c, n
<1>7. SumOf(c) = a * (SumOf(lens) + m.ih * Len(lens))
  BY <1>2, <1>3, <1>5, <1>6, Stripes DEF n
<1> QED
  BY <1>7 DEF a, c, C

\* No windows cover nothing.
LEMMA EmptyCover ==
  ASSUME NEW m \in Screen, NEW R \in Seq(Rectangle(m)), Len(R) = 0
  PROVE  SumOf(Cover(m, R)) = 0
<1> DEFINE c == Cover(m, R)
<1>1. c \in Seq(Int) /\ Len(c) = 0
  BY CoverType
<1> HIDE DEF c
<1>2. Total(c, 0) = 0
  BY <1>1, TotalRuns
<1>3. SumOf(c) = 0
  BY <1>1, <1>2 DEF SumOf
<1> QED
  BY <1>3 DEF c

\* If every window of a layout has the size it asked for, so has every window
\* of its parts.
LEMMA JoinedAmple ==
  ASSUME NEW m \in Screen, NEW A \in Seq(Rectangle(m)), NEW B \in Seq(Rectangle(m)), NEW n, n = Len(A) + Len(B),
         \A i \in 1..n : Ample(m, (A \o B)[i])
  PROVE  /\ \A i \in 1..Len(A) : Ample(m, A[i])
         /\ \A i \in 1..Len(B) : Ample(m, B[i])
<1>1. Len(A) \in Nat /\ Len(B) \in Nat
  OBVIOUS
<1>2. \A i \in 1..n : (A \o B)[i] = IF i <= Len(A) THEN A[i] ELSE B[i - Len(A)]
  BY JoinAt
<1>3. ASSUME NEW i \in 1..Len(A) PROVE Ample(m, A[i])
  <2>1. i \in 1..n /\ i <= Len(A)
    BY <1>1
  <2> QED
    BY <1>2, <2>1
<1>4. ASSUME NEW i \in 1..Len(B) PROVE Ample(m, B[i])
  <2> DEFINE j == i + Len(A)
  <2>1. j \in 1..n /\ ~(j <= Len(A)) /\ j - Len(A) = i
    BY <1>1
  <2> HIDE DEF j
  <2> QED
    BY <1>2, <2>1
<1> QED
  BY <1>3, <1>4

\* Rectangles cover, gaps included, as much as one of two lengths.
Covers(m, R, a, b) == SumOf(Cover(m, R)) = a * b

\* Two parts of a size with a gap between them, each with a gap of its own.
LEMMA PartsCover ==
  ASSUME NEW p \in Int, NEW q \in Int, NEW t \in Int, NEW g \in Int, NEW u \in Int, p + g + q = t
  PROVE  (p + g) * u + (q + g) * u = (t + g) * u
<1> DEFINE a == p + g
           b == q + g
<1>1. a \in Int /\ b \in Int /\ t + g = a + b
  OBVIOUS
<1> HIDE DEF a, b
<1>2. u * (a + b) = u * a + u * b
  BY <1>1, Products
<1>3. (a + b) * u = u * (a + b) /\ a * u = u * a /\ b * u = u * b
  BY <1>1, Products
<1>4. a * u + b * u = (t + g) * u
  BY <1>1, <1>2, <1>3
<1> QED
  BY <1>4 DEF a, b
=============================================================================
