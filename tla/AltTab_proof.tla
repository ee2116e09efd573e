---------------------------- MODULE AltTab_proof ----------------------------
(***************************************************************************)
(* That the switcher of AltTab keeps its list in bounds, puts every view   *)
(* back and leaves the windows as it was asked to, for every number of     *)
(* clients, monitors and tags.                                             *)
(***************************************************************************)
EXTENDS AltTab, Orders_proof, FiniteSetTheorems

\* What the assumptions say of each client and monitor.
LEMMA Facts ==
  /\ \A c \in Clients : MonOf[c] \in Monitors /\ MonOf[c] \in Int /\ c # None
                        /\ TagsOf[c] \in (SUBSET Tags) \ {{}}
  /\ \A m \in Monitors : m \in Nat /\ m # None
  /\ None \notin Clients /\ None \notin Monitors
<1>1. \A c \in Clients : MonOf[c] \in Monitors /\ TagsOf[c] \in (SUBSET Tags) \ {{}}
  BY ClientsAssumption
<1>2. Monitors \subseteq Nat
  BY MonitorsAssumption
<1>3. None \notin Clients \cup Monitors
  BY ClientsAssumption
<1>4. \A m \in Monitors : m \in Nat /\ m \in Int /\ m # None
  BY <1>2, <1>3
<1>5. ASSUME NEW c \in Clients
      PROVE  MonOf[c] \in Int /\ c # None
  BY <1>1, <1>3, <1>4
<1> QED
  BY <1>1, <1>3, <1>4, <1>5

-----------------------------------------------------------------------------
(* Lists without repetitions.                                              *)

\* A list that repeats nothing is as long as it has elements.
LEMMA LengthCounts ==
  ASSUME NEW A, NEW q \in Seq(A), IsInjective(q)
  PROVE  IsFiniteSet(ToSet(q)) /\ Cardinality(ToSet(q)) = Len(q)
<1>1. Len(q) \in Nat /\ DOMAIN q = 1 .. Len(q)
  OBVIOUS
<1>2. q \in Bijection(1 .. Len(q), ToSet(q))
  BY <1>1 DEF Bijection, Injection, Surjection, ToSet
<1>3. ExistsBijection(1 .. Len(q), ToSet(q))
  BY <1>2 DEF ExistsBijection
<1>4. IsFiniteSet(1 .. Len(q)) /\ Cardinality(1 .. Len(q)) = Len(q)
  BY <1>1, FS_Interval
<1> QED
  BY <1>3, <1>4, FS_Bijection

\* A finite set can be listed, each element once.
LEMMA SetListed ==
  ASSUME NEW S, IsFiniteSet(S)
  PROVE  /\ SetToSeq(S) \in Seq(S) /\ IsInjective(SetToSeq(S))
         /\ ToSet(SetToSeq(S)) = S
<1> DEFINE n == Cardinality(S)
           q == SetToSeq(S)
<1>1. n \in Nat /\ ExistsBijection(1 .. n, S)
  BY FS_CardinalityType
<1>2. \E f \in [1 .. n -> S] : IsInjective(f)
  BY <1>1 DEF ExistsBijection, Bijection, Injection
<1>3. q \in [1 .. n -> S] /\ IsInjective(q)
  BY <1>2 DEF SetToSeq
<1> HIDE DEF q
<1>4. q \in Seq(S) /\ Len(q) = n /\ DOMAIN q = 1 .. n
  BY <1>1, <1>3
<1>5. q \in Injection(1 .. n, S)
  BY <1>3 DEF Injection
<1>6. Cardinality(1 .. n) = n
  BY <1>1, FS_Interval
<1>7. q \in Surjection(1 .. n, S)
  BY <1>5, <1>6, FS_Injection
<1>8. ToSet(q) = S
  BY <1>3, <1>4, <1>7 DEF ToSet, Surjection
<1> QED
  BY <1>3, <1>4, <1>8 DEF q

\* Two lists that share no element make one without repetitions.
LEMMA Joined ==
  ASSUME NEW A, NEW p \in Seq(A), NEW q \in Seq(A)
  PROVE  /\ p \o q \in Seq(A) /\ ToSet(p \o q) = ToSet(p) \cup ToSet(q)
         /\ IsInjective(p) /\ IsInjective(q) /\ ToSet(p) \cap ToSet(q) = {}
              => IsInjective(p \o q)
<1> DEFINE r == p \o q
<1>1. /\ r \in Seq(A) /\ Len(r) = Len(p) + Len(q)
      /\ \A i \in 1 .. Len(p) : r[i] = p[i]
      /\ \A i \in 1 .. Len(q) : r[i + Len(p)] = q[i]
  OBVIOUS
<1> HIDE DEF r
<1>2. \A i \in 1 .. Len(r) : i > Len(p) =>
         i - Len(p) \in 1 .. Len(q) /\ r[i] = q[i - Len(p)]
  <2> SUFFICES ASSUME NEW i \in 1 .. Len(r), i > Len(p)
               PROVE  i - Len(p) \in 1 .. Len(q) /\ r[i] = q[i - Len(p)]
    OBVIOUS
  <2> DEFINE j == i - Len(p)
  <2>1. j \in 1 .. Len(q) /\ j + Len(p) = i
    BY <1>1
  <2> QED
    BY <1>1, <2>1
<1>3. /\ DOMAIN p = 1 .. Len(p) /\ DOMAIN q = 1 .. Len(q) /\ DOMAIN r = 1 .. Len(r)
      /\ Len(p) \in Nat /\ Len(q) \in Nat /\ Len(r) \in Nat
  BY <1>1
<1>4. ToSet(r) = ToSet(p) \cup ToSet(q)
  <2>1. ASSUME NEW x \in ToSet(r) PROVE x \in ToSet(p) \cup ToSet(q)
    <3>1. PICK i \in 1 .. Len(r) : x = r[i]
      BY <1>3 DEF ToSet
    <3>2. CASE i <= Len(p)
      <4>1. i \in 1 .. Len(p)
        BY <1>3, <3>2
      <4> QED
        BY <1>1, <1>3, <3>1, <4>1 DEF ToSet
    <3>3. CASE i > Len(p)
      BY <1>2, <1>3, <3>1, <3>3 DEF ToSet
    <3> QED
      BY <1>3, <3>2, <3>3
  <2>2. ASSUME NEW x \in ToSet(p) PROVE x \in ToSet(r)
    <3>1. PICK i \in 1 .. Len(p) : x = p[i]
      BY <1>3 DEF ToSet
    <3> QED
      BY <1>1, <1>3, <3>1 DEF ToSet
  <2>3. ASSUME NEW x \in ToSet(q) PROVE x \in ToSet(r)
    <3>1. PICK i \in 1 .. Len(q) : x = q[i]
      BY <1>3 DEF ToSet
    <3>2. i + Len(p) \in 1 .. Len(r)
      BY <1>1, <1>3
    <3> QED
      BY <1>1, <1>3, <3>1, <3>2 DEF ToSet
  <2> QED
    BY <2>1, <2>2, <2>3
<1>5. ASSUME IsInjective(p), IsInjective(q), ToSet(p) \cap ToSet(q) = {}
      PROVE  IsInjective(r)
  <2> SUFFICES ASSUME NEW i \in 1 .. Len(r), NEW j \in 1 .. Len(r), r[i] = r[j], i < j
               PROVE  FALSE
    BY <1>3 DEF IsInjective
  <2>1. CASE j <= Len(p)
    <3>1. i \in 1 .. Len(p) /\ j \in 1 .. Len(p)
      BY <1>3, <2>1
    <3> QED
      BY <1>1, <1>3, <1>5, <3>1 DEF IsInjective
  <2>2. CASE i > Len(p)
    <3>1. j > Len(p)
      BY <1>3, <2>2
    <3>2. /\ i - Len(p) \in 1 .. Len(q) /\ j - Len(p) \in 1 .. Len(q)
          /\ q[i - Len(p)] = q[j - Len(p)]
      BY <1>2, <2>2, <3>1
    <3>3. i - Len(p) = j - Len(p)
      BY <1>3, <1>5, <3>2 DEF IsInjective
    <3> QED
      BY <1>3, <3>3
  <2>3. CASE i <= Len(p) /\ j > Len(p)
    <3>1. i \in 1 .. Len(p) /\ j - Len(p) \in 1 .. Len(q) /\ r[j] = q[j - Len(p)]
      BY <1>2, <1>3, <2>3
    <3>2. r[i] \in ToSet(p) /\ r[j] \in ToSet(q)
      BY <1>1, <1>3, <3>1 DEF ToSet
    <3> QED
      BY <1>5, <3>2
  <2> QED
    BY <1>3, <2>1, <2>2, <2>3
<1> QED
  BY <1>1, <1>4, <1>5 DEF r

\* Round begins a list elsewhere and leaves nothing out.
LEMMA RoundElements ==
  ASSUME NEW A, NEW q \in Seq(A), IsInjective(q), NEW x \in ToSet(q)
  PROVE  /\ Round(q, x) \in Seq(A) /\ IsInjective(Round(q, x))
         /\ ToSet(Round(q, x)) = ToSet(q)
<1> DEFINE at == CHOOSE i \in DOMAIN q : q[i] = x
<1>1. \E i \in DOMAIN q : q[i] = x
  BY DEF ToSet
<1>2. at \in DOMAIN q
  BY <1>1
<1> HIDE DEF at
<1>3. at \in 1 .. Len(q) /\ Len(q) \in Nat /\ DOMAIN q = 1 .. Len(q)
  BY <1>2
<1> DEFINE p == SubSeq(q, at, Len(q))
           r == SubSeq(q, 1, at - 1)
<1>4. /\ p \in Seq(A) /\ Len(p) = Len(q) - at + 1
      /\ \A i \in 1 .. Len(p) : at + i - 1 \in 1 .. Len(q) /\ p[i] = q[at + i - 1]
  BY <1>3
<1>5. /\ r \in Seq(A) /\ Len(r) = at - 1
      /\ \A i \in 1 .. Len(r) : i \in 1 .. Len(q) /\ r[i] = q[i]
  BY <1>3
<1> HIDE DEF p, r
<1>6. DOMAIN p = 1 .. Len(p) /\ DOMAIN r = 1 .. Len(r)
  BY <1>4, <1>5
<1>7. IsInjective(p)
  <2> SUFFICES ASSUME NEW i \in 1 .. Len(p), NEW j \in 1 .. Len(p), p[i] = p[j] PROVE i = j
    BY <1>6 DEF IsInjective
  <2>1. at + i - 1 = at + j - 1
    BY <1>3, <1>4 DEF IsInjective
  <2> QED
    BY <1>3, <1>4, <2>1
<1>8. IsInjective(r)
  BY <1>3, <1>5, <1>6 DEF IsInjective
<1>9. ToSet(p) \cap ToSet(r) = {}
  <2> SUFFICES ASSUME NEW i \in 1 .. Len(p), NEW j \in 1 .. Len(r), p[i] = r[j] PROVE FALSE
    BY <1>6 DEF ToSet
  <2>1. at + i - 1 \in DOMAIN q /\ j \in DOMAIN q /\ q[at + i - 1] = q[j]
    BY <1>3, <1>4, <1>5
  <2>2. at + i - 1 = j
    BY <2>1 DEF IsInjective
  <2> QED
    BY <1>3, <1>4, <1>5, <2>2
<1>10. ToSet(p) \cup ToSet(r) = ToSet(q)
  <2>1. ToSet(p) \subseteq ToSet(q) /\ ToSet(r) \subseteq ToSet(q)
    BY <1>3, <1>4, <1>5, <1>6 DEF ToSet
  <2>2. ASSUME NEW y \in ToSet(q) PROVE y \in ToSet(p) \cup ToSet(r)
    <3>1. PICK i \in 1 .. Len(q) : y = q[i]
      BY <1>3 DEF ToSet
    <3>2. CASE i < at
      <4>1. i \in 1 .. Len(r)
        BY <1>3, <1>5, <3>2
      <4> QED
        BY <1>5, <1>6, <3>1, <4>1 DEF ToSet
    <3>3. CASE i >= at
      <4> DEFINE j == i - at + 1
      <4>1. j \in 1 .. Len(p) /\ at + j - 1 = i
        BY <1>3, <1>4, <3>3
      <4>2. p[j] = y
        BY <1>4, <3>1, <4>1
      <4> QED
        BY <1>6, <4>1, <4>2 DEF ToSet
    <3> QED
      BY <1>3, <3>2, <3>3
  <2> QED
    BY <2>1, <2>2
<1>11. Round(q, x) = p \o r
  BY DEF Round, p, r, at
<1>12. /\ p \o r \in Seq(A) /\ IsInjective(p \o r)
       /\ ToSet(p \o r) = ToSet(p) \cup ToSet(r)
  <2>1. p \in Seq(A) /\ r \in Seq(A)
    BY <1>4, <1>5
  <2> QED
    BY ONLY <1>7, <1>8, <1>9, <2>1, Joined
<1> QED
  BY <1>10, <1>11, <1>12

\* An order in which any two of S come one before the other.
Totally(order, S) ==
    /\ \A a \in S : <<a, a>> \notin order
    /\ \A a, b, c \in S : <<a, b>> \in order /\ <<b, c>> \in order => <<a, c>> \in order
    /\ \A a, b \in S : a # b => <<a, b>> \in order \/ <<b, a>> \in order

\* Sorted lists the same elements, each once.
LEMMA SortedElements ==
  ASSUME NEW A, NEW q \in Seq(A), IsInjective(q), NEW order, Totally(order, ToSet(q))
  PROVE  /\ Sorted(q, order) \in Seq(A) /\ IsInjective(Sorted(q, order))
         /\ Len(Sorted(q, order)) = Len(q) /\ ToSet(Sorted(q, order)) = ToSet(q)
<1> DEFINE S == ToSet(q)
           n == Len(q)
           Before(c) == {d \in S : <<d, c>> \in order}
           at == [c \in S |-> Cardinality(Before(c)) + 1]
<1>1. IsFiniteSet(S) /\ Cardinality(S) = n /\ n \in Nat /\ S \subseteq A /\ DOMAIN q = 1 .. n
  <2>1. IsFiniteSet(S) /\ Cardinality(S) = n
    BY LengthCounts
  <2>2. DOMAIN q = 1 .. n /\ n \in Nat /\ \A i \in 1 .. n : q[i] \in A
    OBVIOUS
  <2> QED
    BY <2>1, <2>2 DEF ToSet
<1>2. /\ \A a \in S : <<a, a>> \notin order
      /\ \A a, b, c \in S : <<a, b>> \in order /\ <<b, c>> \in order => <<a, c>> \in order
      /\ \A a, b \in S : a # b => <<a, b>> \in order \/ <<b, a>> \in order
  BY DEF Totally
<1> HIDE DEF S, n
<1>3. ASSUME NEW c \in S
      PROVE  IsFiniteSet(Before(c)) /\ Cardinality(Before(c)) \in 0 .. n - 1
  <2>1. Before(c) \in SUBSET S /\ Before(c) # S
    BY <1>2
  <2>2. /\ IsFiniteSet(Before(c)) /\ Cardinality(Before(c)) <= Cardinality(S)
        /\ Cardinality(Before(c)) # Cardinality(S)
    BY <1>1, <2>1, FS_Subset
  <2>3. Cardinality(Before(c)) \in Nat
    BY <2>2, FS_CardinalityType
  <2> QED
    BY <1>1, <2>2, <2>3
<1>4. ASSUME NEW a \in S, NEW b \in S, <<a, b>> \in order
      PROVE  Cardinality(Before(a)) # Cardinality(Before(b))
  <2>1. Before(a) \in SUBSET Before(b) /\ a \in Before(b) /\ a \notin Before(a)
    BY <1>2, <1>4
  <2>2. IsFiniteSet(Before(b))
    BY <1>3
  <2> QED
    BY <2>1, <2>2, FS_Subset
<1> HIDE DEF Before
<1>5. at \in [S -> 1 .. n]
  <2>1. ASSUME NEW c \in S PROVE Cardinality(Before(c)) + 1 \in 1 .. n
    BY <1>1, <1>3
  <2> QED
    BY <2>1
<1>6. \A a \in S, b \in S : at[a] = at[b] => a = b
  <2> SUFFICES ASSUME NEW a \in S, NEW b \in S, a # b, at[a] = at[b] PROVE FALSE
    OBVIOUS
  <2>1. Cardinality(Before(a)) = Cardinality(Before(b))
    BY <1>1, <1>3
  <2> QED
    BY <1>2, <1>4, <2>1
<1>7. \A c \in S : at[c] = Cardinality(Before(c)) + 1 /\ Cardinality(Before(c)) \in Nat
  BY <1>1, <1>3
<1> HIDE DEF at
<1>8. at \in Injection(S, 1 .. n)
  BY <1>5, <1>6 DEF Injection, IsInjective
<1>9. IsFiniteSet(1 .. n) /\ Cardinality(1 .. n) = n
  BY <1>1, FS_Interval
<1>10. at \in Surjection(S, 1 .. n)
  BY <1>1, <1>8, <1>9, FS_Injection
<1> DEFINE s(i) == CHOOSE c \in S : Cardinality({d \in S : <<d, c>> \in order}) = i - 1
<1>11. ASSUME NEW i \in 1 .. n PROVE s(i) \in S /\ at[s(i)] = i
  <2>1. PICK c \in S : at[c] = i
    BY <1>10 DEF Surjection
  <2>2. Cardinality({d \in S : <<d, c>> \in order}) = i - 1
    BY <1>7, <2>1 DEF Before
  <2>3. s(i) \in S /\ Cardinality({d \in S : <<d, s(i)>> \in order}) = i - 1
    BY <2>2
  <2> HIDE DEF s
  <2>4. Cardinality(Before(s(i))) = i - 1
    BY <2>3 DEF Before
  <2> QED
    BY <1>7, <2>3, <2>4
<1> DEFINE r == [i \in 1 .. n |-> s(i)]
<1>12. Sorted(q, order) = r
  BY <1>1 DEF Sorted, S
<1> HIDE DEF s
<1>13. \A i \in 1 .. n : r[i] = s(i)
  OBVIOUS
<1>14. r \in Seq(A) /\ Len(r) = n /\ DOMAIN r = 1 .. n
  <2>1. r \in [1 .. n -> A]
    BY <1>1, <1>11
  <2> QED
    BY <1>1, <2>1
<1> HIDE DEF r
<1>15. IsInjective(r)
  BY <1>11, <1>13, <1>14 DEF IsInjective
<1>16. ToSet(r) = S
  <2>1. \A c \in S : at[c] \in 1 .. n /\ s(at[c]) = c
    <3> SUFFICES ASSUME NEW c \in S PROVE at[c] \in 1 .. n /\ s(at[c]) = c
      OBVIOUS
    <3>1. at[c] \in 1 .. n
      BY <1>5
    <3>2. s(at[c]) \in S /\ at[s(at[c])] = at[c]
      BY <1>11, <3>1
    <3> QED
      BY <1>6, <3>1, <3>2
  <2>2. S \subseteq ToSet(r)
    BY <1>13, <1>14, <2>1 DEF ToSet
  <2>3. ToSet(r) \subseteq S
    BY <1>11, <1>13, <1>14 DEF ToSet
  <2> QED
    BY <2>2, <2>3
<1> QED
  BY <1>12, <1>14, <1>15, <1>16 DEF S, n

\* Names, and monitors and names, put all clients in order.
LEMMA OrdersTotal ==
  Totally(ByName, Clients) /\ Totally(ByMonitor, Clients)
<1>1. /\ \A a \in Clients : NameRank[a] \in Int /\ MonOf[a] \in Int
      /\ \A a, b \in Clients : NameRank[a] = NameRank[b] => a = b
  <2>1. \A a \in Clients : MonOf[a] \in Int
    BY Facts
  <2>2. DOMAIN NameRank = Clients /\ \A a \in Clients : NameRank[a] \in Int
    BY RankAssumption
  <2>3. \A a, b \in Clients : NameRank[a] = NameRank[b] => a = b
    BY <2>2, RankAssumption DEF IsInjective
  <2> QED
    BY <2>1, <2>2, <2>3
<1>2. \A a, b \in Clients : <<a, b>> \in ByName <=> NameRank[a] < NameRank[b]
  BY DEF ByName
<1>3. \A a, b \in Clients : <<a, b>> \in ByMonitor <=>
         \/ MonOf[a] < MonOf[b]
         \/ MonOf[a] = MonOf[b] /\ NameRank[a] < NameRank[b]
  BY <1>2 DEF ByMonitor
<1>4. Totally(ByName, Clients)
  BY <1>1, <1>2 DEF Totally
<1>5. Totally(ByMonitor, Clients)
  BY <1>1, <1>3 DEF Totally
<1> QED
  BY <1>4, <1>5

-----------------------------------------------------------------------------
(* The list of the switcher.                                               *)

On(m) == {c \in Clients : MonOf[c] = m}

\* A stack has every client of its monitor that is not freed, once, and has the
\* selection; what is freed was marked.
Whole(s) ==
    /\ s.stack \in [Monitors -> Seq(Clients)] /\ s.sel \in [Monitors -> Clients \cup {None}]
    /\ s.freed \subseteq s.dormant /\ s.dormant \subseteq Clients
    /\ \A m \in Monitors :
          /\ IsInjective(s.stack[m]) /\ ToSet(s.stack[m]) \subseteq On(m)
          /\ On(m) \ s.freed \subseteq ToSet(s.stack[m])
          /\ s.sel[m] \in ToSet(s.stack[m]) \cup {None}

\* The monitors the list is made from, each once.
LEMMA AroundElements ==
  ASSUME NEW m \in Monitors, NEW flags
  PROVE  /\ Around(m, flags) \in Seq(Monitors) /\ IsInjective(Around(m, flags))
         /\ ToSet(Around(m, flags)) = IF "all_monitors" \in flags THEN Monitors ELSE {m}
<1>1. CASE "all_monitors" \in flags
  <2>1. Mons \in Seq(Monitors) /\ IsInjective(Mons) /\ ToSet(Mons) = Monitors
    BY MonitorsAssumption
  <2>2. /\ Round(Mons, m) \in Seq(Monitors) /\ IsInjective(Round(Mons, m))
        /\ ToSet(Round(Mons, m)) = Monitors
    BY <2>1, RoundElements
  <2> QED
    BY <1>1, <2>2 DEF Around
<1>2. CASE "all_monitors" \notin flags
  <2>1. Around(m, flags) = <<m>>
    BY <1>2 DEF Around
  <2>2. <<m>> \in Seq(Monitors) /\ DOMAIN <<m>> = {1} /\ <<m>>[1] = m
    OBVIOUS
  <2> QED
    BY <1>2, <2>1, <2>2 DEF IsInjective, ToSet
<1> QED
  BY <1>1, <1>2

\* Of each of them the clients to list, each once.
LEMMA FromKept ==
  ASSUME NEW s, Whole(s), NEW m \in Monitors, NEW flags, NEW k \in Monitors
  PROVE  LET q == Only(From(s, m, k), Kept(s, flags)) IN
         /\ q \in Seq(Clients) /\ IsInjective(q)
         /\ ToSet(q) = {c \in Kept(s, flags) : MonOf[c] = k}
<1> DEFINE f == From(s, m, k)
           K == Kept(s, flags)
<1>1. /\ s.stack[k] \in Seq(Clients) /\ IsInjective(s.stack[k])
      /\ ToSet(s.stack[k]) \subseteq On(k) /\ On(k) \ s.freed \subseteq ToSet(s.stack[k])
      /\ s.sel[k] \in ToSet(s.stack[k]) \cup {None} /\ s.freed \subseteq s.dormant
  BY DEF Whole
<1>2. f \in Seq(Clients) /\ IsInjective(f) /\ ToSet(f) = ToSet(s.stack[k])
  <2>1. CASE k # m \/ s.sel[k] = None
    BY <1>1, <2>1 DEF From
  <2>2. CASE ~(k # m \/ s.sel[k] = None)
    <3>1. f = Round(s.stack[k], s.sel[k]) /\ s.sel[k] \in ToSet(s.stack[k])
      BY <1>1, <2>2 DEF From
    <3> QED
      BY <1>1, <3>1, RoundElements
  <2> QED
    BY <2>1, <2>2
<1>3. K \subseteq Clients /\ K \cap s.dormant = {}
  BY DEF Kept, Eligible
<1> HIDE DEF f, K
<1>4. /\ Only(f, K) \in Seq(Clients) /\ ToSet(Only(f, K)) = ToSet(f) \cap K
      /\ IsInjective(Only(f, K))
  BY <1>2, OnlyElements
<1>5. ToSet(f) \cap K = {c \in K : MonOf[c] = k}
  BY <1>1, <1>2, <1>3 DEF On
<1> QED
  BY <1>4, <1>5 DEF f, K

\* The clients of one monitor after those of another.
LEMMA AllGathered ==
  ASSUME NEW s, Whole(s), NEW m \in Monitors, NEW flags
  PROVE  LET all == Gathered(s, m, flags) IN
         /\ all \in Seq(Clients) /\ IsInjective(all)
         /\ ToSet(all) = {c \in Kept(s, flags) : MonOf[c] \in ToSet(Around(m, flags))}
<1> DEFINE ms == Around(m, flags)
           n == Len(ms)
           K == Kept(s, flags)
           X == Seq(Clients)
           Part(i) == Only(From(s, m, ms[i]), K)
           E(g) == [i \in 0 .. n |-> IF i = 0 THEN <<>> ELSE g[i - 1] \o Part(i)]
           upto == CHOOSE g : g = E(g)
           Those(k) == {c \in K : \E j \in 1 .. k : MonOf[c] = ms[j]}
           G == [k \in 0 .. n |-> {q \in X : IsInjective(q) /\ ToSet(q) = Those(k)}]
           round == [p \in X \X (0 .. n) |-> p[1] \o Part(p[2] + 1)]
<1>0. /\ n \in Nat /\ DOMAIN ms = 1 .. n /\ IsInjective(ms)
      /\ \A i \in 1 .. n : ms[i] \in Monitors
  BY AroundElements
<1>1. \A k \in 0 .. n : \A q : q \in G[k] <=> q \in X /\ IsInjective(q) /\ ToSet(q) = Those(k)
  OBVIOUS
<1>2. \A i \in 1 .. n : /\ Part(i) \in X /\ IsInjective(Part(i))
                        /\ ToSet(Part(i)) = {c \in K : MonOf[c] = ms[i]}
  BY <1>0, FromKept
<1> HIDE DEF ms, n, Part, G
<1>3. <<>> \in G[0]
  <2>1. 0 \in 0 .. n /\ <<>> \in X /\ IsInjective(<<>>) /\ ToSet(<<>>) = {} /\ Those(0) = {}
    BY <1>0 DEF IsInjective, ToSet
  <2> QED
    BY <1>1, <2>1
<1>4. ASSUME NEW k \in 0 .. n, k # n, NEW q \in G[k] PROVE q \o Part(k + 1) \in G[k + 1]
  <2>1. k + 1 \in 1 .. n /\ k + 1 \in 0 .. n
    BY <1>0, <1>4
  <2>2. /\ q \in X /\ IsInjective(q) /\ ToSet(q) = Those(k)
        /\ Part(k + 1) \in X /\ IsInjective(Part(k + 1))
        /\ ToSet(Part(k + 1)) = {c \in K : MonOf[c] = ms[k + 1]}
    BY <1>1, <1>2, <2>1
  <2>3. \A j \in 1 .. k : ms[j] # ms[k + 1]
    BY <1>0, <2>1 DEF IsInjective
  <2>4. Those(k) \cap {c \in K : MonOf[c] = ms[k + 1]} = {}
    BY <2>3
  <2>5. Those(k) \cup {c \in K : MonOf[c] = ms[k + 1]} = Those(k + 1)
    <3>1. 1 .. (k + 1) = (1 .. k) \cup {k + 1}
      OBVIOUS
    <3> QED
      BY <3>1
  <2> HIDE DEF Those, X
  <2>6. PICK r : r = Part(k + 1)
    OBVIOUS
  <2>7. /\ q \o r \in X /\ ToSet(q \o r) = ToSet(q) \cup ToSet(r)
        /\ IsInjective(q \o r)
    <3>1. /\ q \in Seq(Clients) /\ r \in Seq(Clients) /\ IsInjective(q) /\ IsInjective(r)
          /\ ToSet(q) \cap ToSet(r) = {}
      BY <2>2, <2>4, <2>6 DEF X
    <3> QED
      BY ONLY <3>1, Joined DEF X
  <2>8. ToSet(q \o r) = Those(k + 1)
    BY <2>2, <2>5, <2>6, <2>7
  <2> QED
    BY <1>1, <2>1, <2>6, <2>7, <2>8
<1>5. ASSUME NEW k \in 0 .. n, NEW q \in G[k] PROVE round[<<q, k>>] = q \o Part(k + 1)
  <2>1. <<q, k>> \in X \X (0 .. n)
    BY <1>1
  <2> HIDE DEF X
  <2> QED
    BY <2>1
<1> HIDE DEF round, X, Those
<1>6. PICK f \in [0 .. n -> X] :
         f[0] = <<>> /\ \A i \in 0 .. n : i # 0 => f[i] = round[<<f[i - 1], i - 1>>]
  <2>0. Leads(round, G, X, 0, n)
    <3>1. ASSUME NEW k \in 0 .. n PROVE G[k] \subseteq X
      BY <1>1
    <3>2. ASSUME NEW k \in 0 .. n, k # n, NEW q \in G[k] PROVE round[<<q, k>>] \in G[k + 1]
      BY <1>4, <1>5, <3>2
    <3> QED
      BY <3>1, <3>2 DEF Leads
  <2>1. PICK z, e : z = 0 /\ e = <<>>
    OBVIOUS
  <2>2. z \in Nat /\ n \in Nat /\ z <= n /\ e \in G[z] /\ Leads(round, G, X, z, n)
    BY <1>0, <1>3, <2>0, <2>1
  <2>3. \E f \in [z .. n -> X] :
           f[z] = e /\ \A i \in z .. n : i # z => f[i] = round[<<f[i - 1], i - 1>>]
    BY ONLY <2>2, LoopRuns
  <2> QED
    BY <2>1, <2>3
<1>7. \A i \in 0 .. n : i # 0 => f[i] = f[i - 1] \o Part(i)
  <2>1. ASSUME NEW i \in 0 .. n, i # 0 PROVE round[<<f[i - 1], i - 1>>] = f[i - 1] \o Part(i)
    <3>1. i - 1 \in 0 .. n /\ (i - 1) + 1 = i
      BY <2>1, <1>0
    <3>2. f[i - 1] \in X
      BY <3>1
    <3> QED
      BY <3>1, <3>2 DEF round
  <2> QED
    BY <1>6, <2>1
<1>8. f = E(f)
  <2>1. \A i \in 0 .. n : f[i] = E(f)[i]
    BY <1>6, <1>7
  <2>2. E(f) = [i \in 0 .. n |-> E(f)[i]]
    OBVIOUS
  <2> HIDE DEF E
  <2> QED
    BY <2>1, <2>2
<1> HIDE DEF E
<1>9. upto = E(upto)
  BY <1>8
<1> HIDE DEF upto
<1>10. \A i \in 0 .. n : upto[i] = IF i = 0 THEN <<>> ELSE upto[i - 1] \o Part(i)
  BY <1>9 DEF E
<1> DEFINE Fine == {i \in 0 .. n : upto[i] \in G[i]}
<1>11. 0 \in Fine
  BY <1>0, <1>3, <1>10
<1>12. \A i \in 0 .. n : i # n /\ i \in Fine => i + 1 \in Fine
  <2> SUFFICES ASSUME NEW i \in 0 .. n, i # n, i \in Fine PROVE i + 1 \in Fine
    OBVIOUS
  <2>1. i + 1 \in 0 .. n /\ i + 1 # 0 /\ (i + 1) - 1 = i
    BY <1>0
  <2>2. upto[i + 1] = upto[i] \o Part(i + 1)
    BY <1>10, <2>1
  <2> QED
    BY <1>4, <2>1, <2>2
<1> HIDE DEF Fine
<1>13. n \in Fine
  <2>1. \A i \in 0 .. n : i \in Fine
    BY <1>0, <1>11, <1>12, Upwards
  <2> QED
    BY <1>0, <2>1
<1>14. upto[n] \in Seq(Clients) /\ IsInjective(upto[n]) /\ ToSet(upto[n]) = Those(n)
  BY <1>0, <1>1, <1>13 DEF Fine, X
<1>15. Those(n) = {c \in K : MonOf[c] \in ToSet(ms)}
  BY <1>0 DEF Those, ToSet
<1>16. Gathered(s, m, flags) = upto[n]
  BY DEF Gathered, upto, E, Part, n, ms
<1> QED
  BY <1>14, <1>15, <1>16 DEF ms

\* The clients of the list, each once, whichever way it is sorted.
LEMMA ListMade ==
  ASSUME NEW s, Whole(s), NEW m \in Monitors, NEW flags
  PROVE  LET q == Listed(s, m, flags) IN
         /\ q \in Seq(Clients) /\ IsInjective(q)
         /\ ToSet(q) = {c \in Kept(s, flags) : MonOf[c] = m \/ "all_monitors" \in flags}
<1> DEFINE ms == Around(m, flags)
           all == Gathered(s, m, flags)
<1>1. /\ ms \in Seq(Monitors) /\ IsInjective(ms)
      /\ ToSet(ms) = IF "all_monitors" \in flags THEN Monitors ELSE {m}
  BY AroundElements
<1>2. /\ all \in Seq(Clients) /\ IsInjective(all)
      /\ ToSet(all) = {c \in Kept(s, flags) : MonOf[c] \in ToSet(ms)}
  BY AllGathered
<1>3. Listed(s, m, flags) =
        CASE "sorted" \in flags -> Sorted(all, ByName)
          [] "sorted" \notin flags /\ "sorted_by_monitor" \in flags -> Sorted(all, ByMonitor)
          [] {"sorted", "sorted_by_monitor"} \cap flags = {} -> all
  BY DEF Listed
<1> HIDE DEF ms, all
<1>4. Kept(s, flags) \subseteq Clients /\ \A c \in Clients : MonOf[c] \in Monitors
  BY Facts DEF Kept
<1>5. ToSet(all) = {c \in Kept(s, flags) : MonOf[c] = m \/ "all_monitors" \in flags}
  BY <1>1, <1>2, <1>4
<1>6. ASSUME NEW order, Totally(order, Clients)
      PROVE  /\ Sorted(all, order) \in Seq(Clients) /\ IsInjective(Sorted(all, order))
             /\ ToSet(Sorted(all, order)) = ToSet(all)
  <2>1. ToSet(all) \subseteq Clients
    BY <1>4, <1>5
  <2>2. Totally(order, ToSet(all))
    BY <1>6, <2>1 DEF Totally
  <2> QED
    BY <1>2, <2>2, SortedElements
<1>7. \/ Listed(s, m, flags) = all
      \/ Listed(s, m, flags) = Sorted(all, ByName)
      \/ Listed(s, m, flags) = Sorted(all, ByMonitor)
  BY <1>3
<1> QED
  BY <1>2, <1>5, <1>6, <1>7, OrdersTotal

\* The list is no longer than was counted, and just as long if classes are not
\* looked at.
LEMMA ListCounted ==
  ASSUME NEW s, Whole(s), NEW m \in Monitors, NEW flags
  PROVE  /\ Counted(s, m, flags) \in Nat
         /\ Len(Listed(s, m, flags)) <= Counted(s, m, flags)
         /\ "same_class" \notin flags => Len(Listed(s, m, flags)) = Counted(s, m, flags)
<1> DEFINE q == Listed(s, m, flags)
           T == ToSet(q)
           C == {c \in Clients \ s.freed : /\ MonOf[c] = m \/ "all_monitors" \in flags
                                           /\ Eligible(s, flags, c)}
<1>1. /\ q \in Seq(Clients) /\ IsInjective(q)
      /\ T = {c \in Kept(s, flags) : MonOf[c] = m \/ "all_monitors" \in flags}
  BY ListMade
<1>2. Cardinality(T) = Len(q)
  BY <1>1, LengthCounts
<1>3. Counted(s, m, flags) = Cardinality(C)
  BY DEF Counted
<1>4. IsFiniteSet(C) /\ Cardinality(C) \in Nat
  <2>1. IsFiniteSet(Clients) /\ C \in SUBSET Clients
    BY ClientsAssumption
  <2>2. IsFiniteSet(C)
    BY <2>1, FS_Subset
  <2> QED
    BY <2>2, FS_CardinalityType
<1>5. s.freed \subseteq s.dormant
  BY DEF Whole
<1>6. T \subseteq C
  BY <1>1, <1>5 DEF Kept, Eligible
<1>7. "same_class" \notin flags => T = C
  BY <1>1, <1>6 DEF Kept
<1> HIDE DEF T, C, q
<1>8. Cardinality(T) <= Cardinality(C)
  BY <1>4, <1>6, FS_Subset
<1> QED
  BY <1>2, <1>3, <1>4, <1>7, <1>8 DEF q

-----------------------------------------------------------------------------
(* What the functions of the switcher do to a state.                       *)

Masks == (SUBSET Tags) \ {{}}

\* The records the functions work on.
States ==
    [stack : [Monitors -> Seq(Clients)], sel : [Monitors -> Clients \cup {None}],
     selmon : Monitors, view : [Monitors -> [cur : Masks, alt : Masks]],
     hidden : SUBSET Clients, sw : Switcher, dormant : SUBSET Clients,
     freed : SUBSET Clients, asked : SUBSET Clients]

\* A state between two steps of a handler; g are the windows destroyed.
Good(s, g) ==
    /\ s \in States /\ Whole(s) /\ g \subseteq Clients
    /\ s.dormant \subseteq s.asked /\ s.asked \subseteq g

\* From s to t clients that were marked are freed, requests are sent, and a
\* selection changes at most where it was freed.
Settles(s, t) ==
    /\ t.selmon = s.selmon /\ t.view = s.view /\ t.hidden = s.hidden /\ t.sw = s.sw
    /\ t.dormant = s.dormant /\ s.freed \subseteq t.freed
    /\ \A m \in Monitors : t.sel[m] = s.sel[m] \/ s.sel[m] \in t.freed

\* The first that can be selected is in the stack.
LEMMA FocusableListed ==
  ASSUME NEW s, NEW m, s.stack[m] \in Seq(Clients), IsInjective(s.stack[m])
  PROVE  Focusable(s, m) \in ToSet(s.stack[m]) \cup {None}
<1> DEFINE S == {c \in Clients : Visible(s, c) /\ c \notin s.hidden}
           r == Only(s.stack[m], S)
<1>1. r \in Seq(Clients) /\ ToSet(r) = ToSet(s.stack[m]) \cap S
  BY OnlyElements
<1>2. Focusable(s, m) = IF r = <<>> THEN None ELSE Head(r)
  BY DEF Focusable, FirstIn
<1> HIDE DEF r, S
<1>3. r # <<>> => Head(r) \in ToSet(r)
  <2> SUFFICES ASSUME r # <<>> PROVE Head(r) \in ToSet(r)
    OBVIOUS
  <2>1. Head(r) = r[1] /\ 1 \in DOMAIN r
    BY <1>1
  <2> QED
    BY <2>1 DEF ToSet
<1> QED
  BY <1>1, <1>2, <1>3

\* detachstack of some clients, and of the selection among them.
LEMMA Arranged ==
  ASSUME NEW s, Good(s, gone), NEW m \in Monitors
  PROVE  Good(arrangemon(s, m), gone) /\ Settles(s, arrangemon(s, m))
<1> DEFINE dead == {c \in s.dormant \ s.freed : MonOf[c] = m}
           left == Only(s.stack[m], Clients \ dead)
           t == [s EXCEPT !.stack[m] = left, !.freed = @ \cup dead,
                          !.asked = @ \cup {c \in gone : MonOf[c] = m}]
           u == IF s.sel[m] \in dead THEN [t EXCEPT !.sel[m] = Focusable(t, m)] ELSE t
<1>1. arrangemon(s, m) = u
  BY DEF arrangemon
<1>2. s \in States /\ Whole(s) /\ gone \subseteq Clients /\ s.dormant \subseteq s.asked /\ s.asked \subseteq gone
  BY DEF Good
<1>3. /\ s.stack \in [Monitors -> Seq(Clients)] /\ s.sel \in [Monitors -> Clients \cup {None}]
      /\ s.dormant \subseteq Clients /\ s.freed \subseteq s.dormant /\ s.asked \subseteq Clients
      /\ \A k \in Monitors :
            /\ IsInjective(s.stack[k]) /\ ToSet(s.stack[k]) \subseteq On(k)
            /\ On(k) \ s.freed \subseteq ToSet(s.stack[k])
            /\ s.sel[k] \in ToSet(s.stack[k]) \cup {None}
  BY <1>2 DEF Whole, States
<1>4. /\ left \in Seq(Clients) /\ IsInjective(left) /\ ToSet(left) = ToSet(s.stack[m]) \ dead
  <2>1. s.stack[m] \in Seq(Clients) /\ IsInjective(s.stack[m]) /\ ToSet(s.stack[m]) \subseteq Clients
    BY <1>3 DEF On
  <2> HIDE DEF dead
  <2> QED
    BY <2>1, OnlyElements
<1>5. dead \subseteq s.dormant /\ dead \cap s.freed = {} /\ dead \subseteq On(m)
  BY <1>3 DEF On
<1>6. \A c \in gone : c \in Clients
  BY <1>2
<1> DEFINE more == {c \in gone : MonOf[c] = m}
<1>7. more \subseteq Clients /\ more \subseteq gone
  BY <1>6
<1> HIDE DEF left, dead, more
<1>8. /\ t \in States
      /\ t.stack = [s.stack EXCEPT ![m] = left] /\ t.sel = s.sel /\ t.selmon = s.selmon
      /\ t.view = s.view /\ t.hidden = s.hidden /\ t.sw = s.sw /\ t.dormant = s.dormant
      /\ t.freed = s.freed \cup dead /\ t.asked = s.asked \cup more
  BY <1>2, <1>3, <1>4, <1>5, <1>7 DEF States, more
<1> HIDE DEF t
<1>9. t.stack[m] \in Seq(Clients) /\ IsInjective(t.stack[m]) /\ ToSet(t.stack[m]) = ToSet(s.stack[m]) \ dead
  BY <1>3, <1>4, <1>8
<1>10. PICK f : f = Focusable(t, m) /\ f \in ToSet(t.stack[m]) \cup {None}
  BY <1>9, FocusableListed
<1> DEFINE sels == IF s.sel[m] \in dead THEN [s.sel EXCEPT ![m] = f] ELSE s.sel
<1>11. /\ u \in States
       /\ u.stack = t.stack /\ u.sel = sels /\ u.selmon = t.selmon
       /\ u.view = t.view /\ u.hidden = t.hidden /\ u.sw = t.sw /\ u.dormant = t.dormant
       /\ u.freed = t.freed /\ u.asked = t.asked
  <2>1. f \in Clients \cup {None}
    BY <1>3, <1>9, <1>10 DEF On
  <2> QED
    BY <1>3, <1>8, <1>10, <2>1 DEF States
<1> HIDE DEF u
<1>12. \A k \in Monitors : /\ k # m => u.stack[k] = s.stack[k] /\ u.sel[k] = s.sel[k]
                           /\ u.stack[m] = t.stack[m]
                           /\ u.sel[m] = IF s.sel[m] \in dead THEN f ELSE s.sel[m]
  BY <1>3, <1>8, <1>11
<1>13. Whole(u)
  <2>1. ASSUME NEW k \in Monitors
        PROVE  /\ IsInjective(u.stack[k]) /\ ToSet(u.stack[k]) \subseteq On(k)
               /\ On(k) \ u.freed \subseteq ToSet(u.stack[k])
               /\ u.sel[k] \in ToSet(u.stack[k]) \cup {None}
    <3>1. CASE k # m
      BY <1>3, <1>8, <1>11, <1>12, <3>1
    <3>2. CASE k = m
      BY <1>3, <1>8, <1>9, <1>10, <1>11, <1>12, <3>2
    <3> QED
      BY <3>1, <3>2
  <2>2. u.stack \in [Monitors -> Seq(Clients)] /\ u.sel \in [Monitors -> Clients \cup {None}]
    BY <1>11 DEF States
  <2> QED
    BY <1>3, <1>5, <1>8, <1>11, <2>1, <2>2 DEF Whole
<1>14. Good(u, gone)
  BY <1>2, <1>3, <1>7, <1>8, <1>11, <1>13 DEF Good
<1>15. Settles(s, u)
  BY <1>8, <1>11, <1>12 DEF Settles
<1> QED
  BY <1>1, <1>14, <1>15

\* The switcher but for the views it has kept.
SameSwitch(v, w) ==
    /\ w.phase = v.phase /\ w.mon = v.mon /\ w.flags = v.flags /\ w.list = v.list
    /\ w.room = v.room /\ w.n = v.n /\ w.active = v.active /\ w.highlight = v.highlight
    /\ w.origin = v.origin /\ w.selm = v.selm

\* From s to t the view of m has become mask. The keyboard's switcher leaves
\* the other slot and has kept what the view was.
Turns(s, t, m, mask) ==
    /\ t.selmon = s.selmon /\ t.hidden = s.hidden /\ t.dormant = s.dormant
    /\ s.freed \subseteq t.freed /\ SameSwitch(s.sw, t.sw)
    /\ \A k \in Monitors :
          /\ t.sel[k] = s.sel[k] \/ s.sel[k] \in t.freed
          /\ k # m => t.view[k] = s.view[k] /\ t.sw.selTags[k] = s.sw.selTags[k]
    /\ t.view[m].cur = mask
    /\ ~Mouse(s) =>
          /\ t.view[m].alt = s.view[m].alt
          /\ t.sw.selTags[m] = IF mask # s.view[m].cur /\ s.sw.selTags[m] = {}
                               THEN s.view[m].cur ELSE s.sw.selTags[m]
    /\ Mouse(s) => t.sw.selTags = s.sw.selTags

\* viewmontag meets that outcome for every view it may be asked for.
LEMMA Turned ==
  ASSUME NEW s, Good(s, gone), NEW m \in Monitors, NEW mask \in Masks, NEW switchmon
  PROVE  LET t == viewmontag(s, m, mask, switchmon)
         IN  Good(t, gone) /\ Turns(s, t, m, mask)
<1> DEFINE kept == IF s.sw.selTags[m] = {} THEN s.view[m].cur ELSE s.sw.selTags[m]
           e == IF Mouse(s)
                THEN [s EXCEPT !.view[m] = [cur |-> mask, alt |-> @.cur]]
                ELSE [s EXCEPT !.view[m].cur = mask,
                               !.sw.selTags[m] = IF @ = {} THEN s.view[m].cur ELSE @]
           t == viewmontag(s, m, mask, switchmon)
<1>1. t = CASE mask = s.view[m].cur -> s
            [] mask # s.view[m].cur /\ (switchmon \/ m = s.selmon) -> arrangemon(e, m)
            [] mask # s.view[m].cur /\ ~switchmon /\ m # s.selmon -> e
  BY DEF viewmontag
<1>2. s \in States /\ Whole(s) /\ gone \subseteq Clients /\ s.dormant \subseteq s.asked /\ s.asked \subseteq gone
  BY DEF Good
<1>3. /\ s.view \in [Monitors -> [cur : Masks, alt : Masks]] /\ s.sw \in Switcher
      /\ s.sw.selTags \in [Monitors -> SUBSET Tags]
      /\ s.view[m] \in [cur : Masks, alt : Masks] /\ s.sw.selTags[m] \subseteq Tags
      /\ s.view[m].cur \in Masks /\ s.view[m].alt \in Masks
  BY <1>2 DEF States, Switcher
<1>4. kept \subseteq Tags
  BY <1>3 DEF Masks
<1> HIDE DEF kept, t
<1>5. CASE mask = s.view[m].cur
  <2>1. t = s
    BY <1>1, <1>5
  <2>2. Turns(s, s, m, mask)
    BY <1>5 DEF Turns, SameSwitch
  <2> QED
    BY <2>1, <2>2 DEF t
<1>6. CASE mask # s.view[m].cur
  <2>1. CASE Mouse(s)
    <3> DEFINE v == [s.view EXCEPT ![m] = [cur |-> mask, alt |-> s.view[m].cur]]
    <3>1. v \in [Monitors -> [cur : Masks, alt : Masks]]
      BY <1>3
    <3>2. /\ e \in States
          /\ e.view = v /\ e.sw = s.sw
          /\ e.stack = s.stack /\ e.sel = s.sel /\ e.selmon = s.selmon /\ e.hidden = s.hidden
          /\ e.dormant = s.dormant /\ e.freed = s.freed /\ e.asked = s.asked
      BY <1>2, <2>1, <3>1 DEF States
    <3>3. \A k \in Monitors : k # m => v[k] = s.view[k]
      BY <1>3
    <3>4. v[m] = [cur |-> mask, alt |-> s.view[m].cur]
      BY <1>3
    <3> HIDE DEF e, v
    <3>5. Good(e, gone)
      BY <1>2, <3>2 DEF Good, Whole
    <3>6. Turns(s, e, m, mask)
      BY <2>1, <3>2, <3>3, <3>4 DEF Turns, SameSwitch
    <3>7. Good(arrangemon(e, m), gone) /\ Settles(e, arrangemon(e, m))
      BY <3>5, Arranged
    <3>8. Turns(s, arrangemon(e, m), m, mask)
      <4>1. PICK a : a = arrangemon(e, m)
        OBVIOUS
      <4>2. Turns(s, a, m, mask)
        BY <3>2, <3>6, <3>7, <4>1 DEF Turns, Settles, SameSwitch
      <4> QED
        BY <4>1, <4>2
    <3>9. t = arrangemon(e, m) \/ t = e
      BY <1>1, <1>6
    <3> QED
      BY <3>5, <3>6, <3>7, <3>8, <3>9 DEF t
  <2>2. CASE ~Mouse(s)
    <3> DEFINE v == [s.view EXCEPT ![m].cur = mask]
               g == [s.sw.selTags EXCEPT ![m] = kept]
               w == [s.sw EXCEPT !.selTags = g]
    <3>1. v \in [Monitors -> [cur : Masks, alt : Masks]] /\ v[m].cur = mask /\ v[m].alt = s.view[m].alt
      BY <1>3
    <3>2. w \in Switcher /\ SameSwitch(s.sw, w) /\ w.selTags = g
      BY <1>3, <1>4 DEF Switcher, SameSwitch
    <3>3. g[m] = kept /\ \A k \in Monitors : k # m => v[k] = s.view[k] /\ g[k] = s.sw.selTags[k]
      BY <1>3
    <3>4. /\ e.view = v /\ e.sw = w
          /\ e.stack = s.stack /\ e.sel = s.sel /\ e.selmon = s.selmon /\ e.hidden = s.hidden
          /\ e.dormant = s.dormant /\ e.freed = s.freed /\ e.asked = s.asked
      BY <1>2, <2>2 DEF States, kept
    <3>5. e \in States
      <4>1. e = [s EXCEPT !.view = v, !.sw = w]
        BY <1>2, <2>2 DEF States, kept
      <4> HIDE DEF v, w, e
      <4> QED
        BY <1>2, <3>1, <3>2, <4>1 DEF States
    <3> HIDE DEF e, v, g, w
    <3>6. Good(e, gone)
      BY <1>2, <3>4, <3>5 DEF Good, Whole
    <3>7. Turns(s, e, m, mask)
      BY <1>6, <2>2, <3>1, <3>2, <3>3, <3>4 DEF Turns, kept
    <3>8. Good(arrangemon(e, m), gone) /\ Settles(e, arrangemon(e, m))
      BY <3>6, Arranged
    <3>9. Turns(s, arrangemon(e, m), m, mask)
      <4>1. PICK a : a = arrangemon(e, m)
        OBVIOUS
      <4>2. Turns(s, a, m, mask)
        BY <2>2, <3>4, <3>7, <3>8, <4>1 DEF Turns, Settles, SameSwitch
      <4> QED
        BY <4>1, <4>2
    <3>10. t = arrangemon(e, m) \/ t = e
      BY <1>1, <1>6
    <3> QED
      BY <3>6, <3>7, <3>8, <3>9, <3>10 DEF t
  <2> QED
    BY <2>1, <2>2
<1> QED
  BY <1>5, <1>6

-----------------------------------------------------------------------------
(* The open switcher.                                                      *)

\* Views and selections as they were when it opened.
Memory ==
    [view : [Monitors -> [cur : Masks, alt : Masks]],
     sel : [Monitors -> Clients \cup {None}], selmon : Monitors]

\* A client the switcher w may show.
Reaches(w, c) == c \in Clients /\ (MonOf[c] = w.mon \/ "all_monitors" \in w.flags)

\* Its list, and the client that is highlighted.
Listing(w) ==
    /\ Len(w.list) <= w.room /\ IsInjective(w.list)
    /\ "same_class" \notin w.flags => Len(w.list) = w.room
    /\ w.n < Len(w.list)
    /\ \A c \in ToSet(w.list) : Reaches(w, c)
    /\ w.highlight = None \/ Reaches(w, w.highlight)

\* Nothing has changed but views whose old masks are kept, on monitors the
\* switcher shows clients of, and selections that were freed.
Held(s, b) ==
    /\ s.sw.mon \in Monitors /\ s.sw.selm = b.selmon /\ s.selmon = b.selmon
    /\ "selmon" \in s.sw.flags <=> s.sw.mon = b.selmon
    /\ \A m \in Monitors :
          /\ s.sel[m] = b.sel[m] \/ b.sel[m] \in s.freed
          /\ b.sel[m] \in On(m) \cup {None}
          /\ s.sw.selTags[m] = {} => s.view[m] = b.view[m]
          /\ s.sw.selTags[m] # {} =>
                /\ ~Mouse(s) /\ (m = s.sw.mon \/ "all_monitors" \in s.sw.flags)
                /\ s.sw.selTags[m] = b.view[m].cur /\ s.view[m].alt = b.view[m].alt

Open(s, b) == b \in Memory /\ Listing(s.sw) /\ Held(s, b)

\* An open switcher is kept by whatever arrangemon does to the windows.
LEMMA SettlesOpen ==
  ASSUME NEW s, NEW t, NEW b, Open(s, b), Settles(s, t)
  PROVE  Open(t, b)
<1>1. Held(s, b) /\ Listing(s.sw) /\ b \in Memory
  BY DEF Open
<1>2. t.sw = s.sw /\ (Mouse(t) <=> Mouse(s))
  BY DEF Settles, Mouse
<1>3. Held(t, b)
  BY <1>1, <1>2 DEF Held, Settles
<1> QED
  BY <1>1, <1>2, <1>3 DEF Open

\* A preview on a monitor it shows clients of.
LEMMA TurnsOpen ==
  ASSUME NEW s, NEW t, NEW b, s \in States, t \in States, Open(s, b), ~Mouse(s),
         NEW m \in Monitors, m = s.sw.mon \/ "all_monitors" \in s.sw.flags,
         NEW mask, Turns(s, t, m, mask)
  PROVE  Open(t, b)
<1>1. Held(s, b) /\ Listing(s.sw) /\ b \in Memory
  BY DEF Open
<1>2. SameSwitch(s.sw, t.sw) /\ (Mouse(t) <=> Mouse(s))
  BY DEF Turns, SameSwitch, Mouse
<1>3. Listing(t.sw)
  BY <1>1, <1>2 DEF Listing, SameSwitch, Reaches
<1>4. \A k \in Monitors : /\ s.view[k] \in [cur : Masks, alt : Masks]
                          /\ t.view[k] \in [cur : Masks, alt : Masks]
                          /\ b.view[k] \in [cur : Masks, alt : Masks]
  BY <1>1 DEF States, Memory
<1>5. ASSUME NEW k \in Monitors
      PROVE  /\ t.sw.selTags[k] = {} => t.view[k] = b.view[k]
             /\ t.sw.selTags[k] # {} =>
                  /\ ~Mouse(t) /\ (k = t.sw.mon \/ "all_monitors" \in t.sw.flags)
                  /\ t.sw.selTags[k] = b.view[k].cur /\ t.view[k].alt = b.view[k].alt
  <2>1. CASE k # m
    BY <1>1, <1>2, <2>1 DEF Held, Turns, SameSwitch
  <2>2. CASE k = m
    <3>1. /\ t.view[m].cur = mask /\ t.view[m].alt = s.view[m].alt
          /\ t.sw.selTags[m] = IF mask # s.view[m].cur /\ s.sw.selTags[m] = {}
                               THEN s.view[m].cur ELSE s.sw.selTags[m]
      BY DEF Turns
    <3>2. s.view[m].cur # {}
      BY <1>4 DEF Masks
    <3>3. /\ s.sw.selTags[m] = {} => s.view[m] = b.view[m]
          /\ s.sw.selTags[m] # {} =>
               s.sw.selTags[m] = b.view[m].cur /\ s.view[m].alt = b.view[m].alt
      BY <1>1 DEF Held
    <3>4. ASSUME t.sw.selTags[m] = {} PROVE t.view[m] = b.view[m]
      <4>1. mask = s.view[m].cur /\ s.sw.selTags[m] = {}
        BY <3>1, <3>2, <3>4
      <4>2. t.view[m].cur = b.view[m].cur /\ t.view[m].alt = b.view[m].alt
        BY <3>1, <3>3, <4>1
      <4> QED
        BY <1>4, <4>2
    <3>5. ASSUME t.sw.selTags[m] # {}
          PROVE  t.sw.selTags[m] = b.view[m].cur /\ t.view[m].alt = b.view[m].alt
      BY <3>1, <3>3, <3>5
    <3>6. ~Mouse(t) /\ (m = t.sw.mon \/ "all_monitors" \in t.sw.flags)
      BY <1>2 DEF SameSwitch
    <3> QED
      BY <2>2, <3>4, <3>5, <3>6
  <2> QED
    BY <2>1, <2>2
<1>6. Held(t, b)
  BY <1>1, <1>2, <1>5 DEF Held, Turns, SameSwitch
<1> QED
  BY <1>1, <1>3, <1>6 DEF Open

\* What the switcher notes of itself, and no more.
LEMMA NotedOpen ==
  ASSUME NEW s, NEW b, NEW g, Good(s, g), Open(s, b),
         NEW c, c = None \/ Reaches(s.sw, c)
  PROVE  LET t == [s EXCEPT !.sw.highlight = c]
         IN  Good(t, g) /\ Open(t, b) /\ t.sw.phase = s.sw.phase
<1> DEFINE w == [s.sw EXCEPT !.highlight = c]
           t == [s EXCEPT !.sw.highlight = c]
<1>1. s \in States /\ s.sw \in Switcher /\ Held(s, b) /\ Listing(s.sw) /\ b \in Memory /\ Whole(s)
  BY DEF Good, Open, States
<1>2. c \in Clients \cup {None}
  BY DEF Reaches
<1>3. /\ w \in Switcher /\ w.highlight = c /\ w.phase = s.sw.phase /\ w.mon = s.sw.mon
      /\ w.flags = s.sw.flags /\ w.list = s.sw.list /\ w.room = s.sw.room /\ w.n = s.sw.n
      /\ w.selm = s.sw.selm /\ w.selTags = s.sw.selTags
  BY <1>1, <1>2 DEF Switcher
<1>4. t = [s EXCEPT !.sw = w]
  BY <1>1 DEF States
<1> HIDE DEF w, t
<1>5. /\ t \in States /\ t.sw = w
      /\ t.stack = s.stack /\ t.sel = s.sel /\ t.selmon = s.selmon /\ t.hidden = s.hidden
      /\ t.view = s.view /\ t.dormant = s.dormant /\ t.freed = s.freed /\ t.asked = s.asked
  BY <1>1, <1>3, <1>4 DEF States
<1>6. Good(t, g)
  BY <1>1, <1>5 DEF Good, Whole
<1>7. Listing(w)
  BY <1>1, <1>3 DEF Listing, Reaches
<1>8. Held(t, b)
  BY <1>1, <1>3, <1>5 DEF Held, Mouse
<1> QED
  BY <1>1, <1>3, <1>5, <1>6, <1>7, <1>8 DEF Open, t

\* It is being left, or the mouse is off its menu.
LEMMA PhaseOpen ==
  ASSUME NEW s, NEW b, NEW g, Good(s, g), Open(s, b)
  PROVE  /\ LET t == [s EXCEPT !.sw.phase = "leaving"] IN Good(t, g) /\ Open(t, b)
         /\ LET t == [s EXCEPT !.sw.active = FALSE] IN Good(t, g) /\ Open(t, b)
<1>1. s \in States /\ s.sw \in Switcher /\ Held(s, b) /\ Listing(s.sw) /\ b \in Memory /\ Whole(s)
  BY DEF Good, Open, States
<1>2. ASSUME NEW w \in Switcher, NEW t, t = [s EXCEPT !.sw = w],
             w.highlight = s.sw.highlight, w.mon = s.sw.mon, w.flags = s.sw.flags,
             w.list = s.sw.list, w.room = s.sw.room, w.n = s.sw.n,
             w.selm = s.sw.selm, w.selTags = s.sw.selTags
      PROVE  Good(t, g) /\ Open(t, b)
  <2>1. /\ t \in States /\ t.sw = w
        /\ t.stack = s.stack /\ t.sel = s.sel /\ t.selmon = s.selmon /\ t.hidden = s.hidden
        /\ t.view = s.view /\ t.dormant = s.dormant /\ t.freed = s.freed /\ t.asked = s.asked
    BY <1>1, <1>2 DEF States
  <2>2. Good(t, g)
    BY <1>1, <2>1 DEF Good, Whole
  <2>3. Listing(w)
    BY <1>1, <1>2 DEF Listing, Reaches
  <2>4. Held(t, b)
    BY <1>1, <1>2, <2>1 DEF Held, Mouse
  <2> QED
    BY <1>1, <2>1, <2>2, <2>3, <2>4 DEF Open
<1>3. LET t == [s EXCEPT !.sw.phase = "leaving"] IN Good(t, g) /\ Open(t, b)
  <2> DEFINE w == [s.sw EXCEPT !.phase = "leaving"]
             t == [s EXCEPT !.sw.phase = "leaving"]
  <2>1. /\ w \in Switcher /\ w.highlight = s.sw.highlight /\ w.mon = s.sw.mon
        /\ w.flags = s.sw.flags /\ w.list = s.sw.list /\ w.room = s.sw.room /\ w.n = s.sw.n
        /\ w.selm = s.sw.selm /\ w.selTags = s.sw.selTags
    BY <1>1 DEF Switcher
  <2>2. t = [s EXCEPT !.sw = w]
    BY <1>1 DEF States
  <2> HIDE DEF w, t
  <2>3. Good(t, g) /\ Open(t, b)
    BY <1>2, <2>1, <2>2
  <2> QED
    BY <2>3 DEF t
<1>4. LET t == [s EXCEPT !.sw.active = FALSE] IN Good(t, g) /\ Open(t, b)
  <2> DEFINE w == [s.sw EXCEPT !.active = FALSE]
             t == [s EXCEPT !.sw.active = FALSE]
  <2>1. /\ w \in Switcher /\ w.highlight = s.sw.highlight /\ w.mon = s.sw.mon
        /\ w.flags = s.sw.flags /\ w.list = s.sw.list /\ w.room = s.sw.room /\ w.n = s.sw.n
        /\ w.selm = s.sw.selm /\ w.selTags = s.sw.selTags
    BY <1>1 DEF Switcher
  <2>2. t = [s EXCEPT !.sw = w]
    BY <1>1 DEF States
  <2> HIDE DEF w, t
  <2>3. Good(t, g) /\ Open(t, b)
    BY <1>2, <2>1, <2>2
  <2> QED
    BY <2>3 DEF t
<1> QED
  BY <1>3, <1>4

\* A client is highlighted, with its preview, or none is.
LEMMA Highlit ==
  ASSUME NEW s, NEW b, Good(s, gone), Open(s, b), NEW c, c = None \/ Reaches(s.sw, c)
  PROVE  LET t == highlight(s, c)
         IN  Good(t, gone) /\ Open(t, b) /\ t.sw.phase = s.sw.phase
<1> DEFINE asks == [s EXCEPT !.asked = @ \cup (gone \cap {s.sw.highlight, c})]
           shown == IF ~Visible(s, c) THEN viewmontag(asks, MonOf[c], TagsOf[c], TRUE)
                    ELSE IF MonOf[c] # s.selmon THEN arrangemon(asks, MonOf[c]) ELSE asks
           t == highlight(s, c)
<1>1. t = CASE Mouse(s) \/ ~Highlights -> [s EXCEPT !.sw.highlight = c]
            [] ~Mouse(s) /\ Highlights /\ (c = None \/ c \in s.hidden) ->
                  [asks EXCEPT !.sw.highlight = None]
            [] ~Mouse(s) /\ Highlights /\ c # None /\ c \notin s.hidden ->
                  [shown EXCEPT !.sw.highlight = c]
  BY DEF highlight
<1>2. Good(asks, gone) /\ Settles(s, asks)
  <2>1. /\ s \in States /\ Whole(s) /\ gone \subseteq Clients
        /\ s.dormant \subseteq s.asked /\ s.asked \subseteq gone /\ s.asked \subseteq Clients
    BY DEF Good, States
  <2> DEFINE more == gone \cap {s.sw.highlight, c}
  <2>2. more \subseteq gone /\ more \subseteq Clients
    BY <2>1
  <2> HIDE DEF more
  <2>3. /\ asks \in States /\ asks.asked = s.asked \cup more /\ asks.sw = s.sw
        /\ asks.stack = s.stack /\ asks.sel = s.sel /\ asks.selmon = s.selmon
        /\ asks.hidden = s.hidden /\ asks.view = s.view /\ asks.dormant = s.dormant
        /\ asks.freed = s.freed
    BY <2>1, <2>2 DEF States, more
  <2> HIDE DEF asks
  <2> QED
    BY <2>1, <2>2, <2>3 DEF Good, Whole, Settles
<1> HIDE DEF asks
<1>3. Open(asks, b) /\ asks.sw = s.sw
  BY <1>2, SettlesOpen DEF Settles
<1>4. CASE Mouse(s) \/ ~Highlights
  <2>1. t = [s EXCEPT !.sw.highlight = c]
    BY <1>1, <1>4
  <2> QED
    BY <2>1, NotedOpen
<1>5. CASE ~Mouse(s) /\ Highlights /\ (c = None \/ c \in s.hidden)
  <2>1. t = [asks EXCEPT !.sw.highlight = None]
    BY <1>1, <1>5
  <2> QED
    BY <1>2, <1>3, <2>1, NotedOpen
<1>6. CASE ~Mouse(s) /\ Highlights /\ c # None /\ c \notin s.hidden
  <2>1. t = [shown EXCEPT !.sw.highlight = c]
    BY <1>1, <1>6
  <2>2. /\ c \in Clients /\ MonOf[c] \in Monitors /\ TagsOf[c] \in Masks
        /\ MonOf[c] = s.sw.mon \/ "all_monitors" \in s.sw.flags
    BY <1>6, Facts DEF Reaches, Masks
  <2>3. Good(shown, gone) /\ Open(shown, b) /\ SameSwitch(s.sw, shown.sw)
    <3>1. CASE ~Visible(s, c)
      <4> DEFINE v == viewmontag(asks, MonOf[c], TagsOf[c], TRUE)
      <4>1. shown = v
        BY <3>1
      <4>2. Good(v, gone) /\ Turns(asks, v, MonOf[c], TagsOf[c])
        BY <1>2, <2>2, Turned
      <4>3. ~Mouse(asks) /\ asks \in States /\ v \in States
        BY <1>2, <1>3, <1>6, <4>2 DEF Mouse, Good
      <4> HIDE DEF v, shown
      <4>4. Open(v, b)
        BY <1>3, <2>2, <4>2, <4>3, TurnsOpen
      <4>5. SameSwitch(asks.sw, v.sw)
        BY <4>2 DEF Turns
      <4> QED
        BY <1>3, <4>1, <4>2, <4>4, <4>5
    <3>2. CASE Visible(s, c) /\ MonOf[c] # s.selmon
      <4> DEFINE v == arrangemon(asks, MonOf[c])
      <4>1. shown = v
        BY <3>2
      <4>2. Good(v, gone) /\ Settles(asks, v)
        BY <1>2, <2>2, Arranged
      <4> HIDE DEF v, shown
      <4>3. Open(v, b) /\ v.sw = s.sw
        BY <1>3, <4>2, SettlesOpen DEF Settles
      <4> QED
        BY <4>1, <4>2, <4>3 DEF SameSwitch
    <3>3. CASE Visible(s, c) /\ MonOf[c] = s.selmon
      <4>1. shown = asks
        BY <3>3
      <4> HIDE DEF shown
      <4> QED
        BY <1>2, <1>3, <4>1 DEF SameSwitch
    <3> QED
      BY <3>1, <3>2, <3>3
  <2> HIDE DEF shown
  <2>4. c = None \/ Reaches(shown.sw, c)
    BY <2>2, <2>3 DEF Reaches, SameSwitch
  <2>5. shown.sw.phase = s.sw.phase
    BY <2>3 DEF SameSwitch
  <2> HIDE DEF t
  <2> QED
    BY <2>1, <2>3, <2>4, <2>5, NotedOpen DEF t
<1> QED
  BY <1>4, <1>5, <1>6

\* So many entries on in the list.
LEMMA Tabbed ==
  ASSUME NEW s, NEW b, Good(s, gone), Open(s, b), NEW d \in Int
  PROVE  LET t == altTab(s, d)
         IN  Good(t, gone) /\ Open(t, b) /\ t.sw.phase = s.sw.phase
<1> DEFINE step == IF s.sw.active THEN d ELSE 0
           to == s.sw.n + step
           n == IF to < 0 THEN Len(s.sw.list) - 1 ELSE IF to >= Len(s.sw.list) THEN 0 ELSE to
           w == [s.sw EXCEPT !.n = n, !.active = TRUE]
           u == [s EXCEPT !.sw.n = n, !.sw.active = TRUE]
<1>1. s \in States /\ s.sw \in Switcher /\ Held(s, b) /\ Listing(s.sw) /\ b \in Memory /\ Whole(s)
  BY DEF Good, Open, States
<1>2. /\ s.sw.n \in Nat /\ s.sw.list \in Seq(Clients) /\ Len(s.sw.list) \in Nat
      /\ s.sw.n < Len(s.sw.list)
  BY <1>1 DEF Switcher, Listing
<1>3. n \in Nat /\ n < Len(s.sw.list)
  <2>1. to \in Int
    BY <1>2
  <2> HIDE DEF to
  <2> QED
    BY <1>2, <2>1
<1> HIDE DEF n
<1>4. /\ w \in Switcher /\ w.highlight = s.sw.highlight /\ w.phase = s.sw.phase /\ w.mon = s.sw.mon
      /\ w.flags = s.sw.flags /\ w.list = s.sw.list /\ w.room = s.sw.room /\ w.n = n
      /\ w.selm = s.sw.selm /\ w.selTags = s.sw.selTags
  BY <1>1, <1>3 DEF Switcher
<1>5. u = [s EXCEPT !.sw = w]
  BY <1>1 DEF States
<1> HIDE DEF w
<1>6. /\ u \in States /\ u.sw = w
      /\ u.stack = s.stack /\ u.sel = s.sel /\ u.selmon = s.selmon /\ u.hidden = s.hidden
      /\ u.view = s.view /\ u.dormant = s.dormant /\ u.freed = s.freed /\ u.asked = s.asked
  BY <1>1, <1>4, <1>5 DEF States
<1>7. altTab(s, d) = highlight(u, s.sw.list[n + 1])
  BY DEF altTab, n
<1> HIDE DEF u
<1>8. Good(u, gone)
  BY <1>1, <1>6 DEF Good, Whole
<1>9. Listing(w)
  BY <1>1, <1>3, <1>4 DEF Listing, Reaches
<1>10. Held(u, b)
  BY <1>1, <1>4, <1>6 DEF Held, Mouse
<1>11. Open(u, b)
  BY <1>1, <1>6, <1>9, <1>10 DEF Open
<1>12. PICK c : c = s.sw.list[n + 1] /\ Reaches(w, c)
  <2>1. n + 1 \in DOMAIN s.sw.list
    BY <1>2, <1>3
  <2>2. s.sw.list[n + 1] \in ToSet(w.list)
    BY <1>4, <2>1 DEF ToSet
  <2> QED
    BY <1>9, <2>2 DEF Listing
<1>13. LET t == highlight(u, c)
       IN  Good(t, gone) /\ Open(t, b) /\ t.sw.phase = u.sw.phase
  BY <1>6, <1>8, <1>11, <1>12, Highlit
<1> QED
  BY <1>4, <1>6, <1>7, <1>12, <1>13

-----------------------------------------------------------------------------
(* The views are put back.                                                 *)

\* The view of m is as it was, but shows c if c is there and was not seen.
Restored(view1, b, m, c) ==
    IF c = None \/ MonOf[c] # m \/ TagsOf[c] \cap b.view[m].cur # {}
    THEN view1[m] = b.view[m]
    ELSE view1[m].cur = TagsOf[c]

\* From s to t the views of the monitors D are put back.
Backs(s, t, b, c, D) ==
    /\ t.selmon = s.selmon /\ t.hidden = s.hidden /\ t.dormant = s.dormant
    /\ s.freed \subseteq t.freed /\ SameSwitch(s.sw, t.sw)
    /\ \A k \in Monitors :
          /\ t.sel[k] = s.sel[k] \/ s.sel[k] \in t.freed
          /\ k \notin D => t.view[k] = s.view[k] /\ t.sw.selTags[k] = s.sw.selTags[k]
          /\ k \in D => Restored(t.view, b, k, c)

\* One round of the loop puts the view of a monitor back and touches no other
\* view (altTabStart).
LEMMA OneBack ==
  ASSUME NEW s, NEW b, Good(s, gone), b \in Memory, ~Mouse(s), NEW m \in Monitors,
         s.sw.selTags[m] = {} => s.view[m] = b.view[m],
         s.sw.selTags[m] # {} =>
            s.sw.selTags[m] = b.view[m].cur /\ s.view[m].alt = b.view[m].alt,
         NEW c \in Clients \cup {None}
  PROVE  Good(PutBackOne(s, m, c), gone) /\ Backs(s, PutBackOne(s, m, c), b, c, {m})
<1> DEFINE kept == s.sw.selTags[m]
           on == c # None /\ MonOf[c] = m
           mask == IF kept # {} /\ (~on \/ TagsOf[c] \cap kept # {}) THEN kept
                   ELSE IF on /\ (kept # {} \/ ~Visible(s, c)) THEN TagsOf[c]
                   ELSE s.view[m].cur
           v == viewmontag(s, m, mask, TRUE)
           w == [v.sw EXCEPT !.selTags[m] = {}]
           t == [v EXCEPT !.sw.selTags[m] = {}]
<1>1. PutBackOne(s, m, c) = t
  BY DEF PutBackOne
<1>2. /\ s \in States /\ s.view[m] \in [cur : Masks, alt : Masks] /\ kept \subseteq Tags
      /\ b.view[m] \in [cur : Masks, alt : Masks]
      /\ on => c \in Clients /\ TagsOf[c] \in Masks
  <2>1. s \in States /\ s.view \in [Monitors -> [cur : Masks, alt : Masks]] /\ s.sw \in Switcher
    BY DEF Good, States
  <2>2. kept \subseteq Tags
    BY <2>1 DEF Switcher
  <2>3. on => c \in Clients /\ TagsOf[c] \in Masks
    BY Facts DEF Masks
  <2> QED
    BY <2>1, <2>2, <2>3 DEF Memory
<1>3. mask \in Masks
  BY <1>2 DEF Masks
<1>4. Good(v, gone) /\ Turns(s, v, m, mask)
  <2> HIDE DEF mask
  <2> QED
    BY <1>3, Turned
<1> HIDE DEF v
<1>5. v \in States /\ v.sw \in Switcher /\ v.sw.selTags \in [Monitors -> SUBSET Tags]
      /\ v.view[m] \in [cur : Masks, alt : Masks]
  BY <1>4 DEF Good, States, Switcher
<1>6. Restored(v.view, b, m, c)
  <2>1. v.view[m].cur = mask /\ v.view[m].alt = s.view[m].alt
    BY <1>4 DEF Turns
  <2>2. on => (Visible(s, c) <=> TagsOf[c] \cap s.view[m].cur # {})
    BY DEF Visible
  <2>3. CASE kept # {} /\ (~on \/ TagsOf[c] \cap kept # {})
    <3>1. v.view[m].cur = b.view[m].cur /\ v.view[m].alt = b.view[m].alt
      BY <2>1, <2>3
    <3>2. v.view[m] = b.view[m]
      BY <1>2, <1>5, <3>1
    <3> QED
      BY <2>3, <3>2 DEF Restored
  <2>4. CASE ~(kept # {} /\ (~on \/ TagsOf[c] \cap kept # {})) /\ on /\ (kept # {} \/ ~Visible(s, c))
    <3>1. v.view[m].cur = TagsOf[c]
      BY <2>1, <2>4
    <3>2. TagsOf[c] \cap b.view[m].cur = {}
      BY <2>2, <2>4
    <3> QED
      BY <2>4, <3>1, <3>2 DEF Restored
  <2>5. CASE /\ ~(kept # {} /\ (~on \/ TagsOf[c] \cap kept # {}))
             /\ ~(on /\ (kept # {} \/ ~Visible(s, c)))
    <3>1. kept = {} /\ s.view[m] = b.view[m]
      BY <2>5
    <3>2. v.view[m].cur = b.view[m].cur /\ v.view[m].alt = b.view[m].alt
      BY <2>1, <2>5, <3>1
    <3>3. v.view[m] = b.view[m]
      BY <1>2, <1>5, <3>2
    <3>4. on => TagsOf[c] \cap b.view[m].cur # {}
      BY <2>2, <2>5, <3>1
    <3> QED
      BY <3>3, <3>4 DEF Restored
  <2> QED
    BY <2>3, <2>4, <2>5
<1> HIDE DEF mask
<1>7. /\ w \in Switcher /\ SameSwitch(v.sw, w)
      /\ \A k \in Monitors : k # m => w.selTags[k] = v.sw.selTags[k]
  BY <1>5 DEF Switcher, SameSwitch
<1>8. t = [v EXCEPT !.sw = w]
  BY <1>5 DEF States
<1> HIDE DEF w, t
<1>9. /\ t \in States /\ t.sw = w
      /\ t.stack = v.stack /\ t.sel = v.sel /\ t.selmon = v.selmon /\ t.hidden = v.hidden
      /\ t.view = v.view /\ t.dormant = v.dormant /\ t.freed = v.freed /\ t.asked = v.asked
  BY <1>5, <1>7, <1>8 DEF States
<1>10. Good(t, gone)
  BY <1>4, <1>9 DEF Good, Whole
<1>11. Backs(s, t, b, c, {m})
  BY <1>4, <1>6, <1>7, <1>9 DEF Backs, Turns, SameSwitch
<1> QED
  BY <1>1, <1>10, <1>11

\* The monitors in turn.
LEMMA AllBack ==
  ASSUME NEW s, NEW b, Good(s, gone), Open(s, b), ~Mouse(s), NEW c \in Clients \cup {None}
  PROVE  LET t == PutBack(s, c)
             D == IF "all_monitors" \in s.sw.flags THEN Monitors ELSE {s.sw.mon}
         IN  Good(t, gone) /\ Backs(s, t, b, c, D)
<1> DEFINE ms == IF "all_monitors" \in s.sw.flags THEN Mons ELSE <<s.sw.mon>>
           n == Len(ms)
           E(f) == [i \in 0 .. n |-> IF i = 0 THEN s ELSE PutBackOne(f[i - 1], ms[i], c)]
           upto == CHOOSE f : f = E(f)
           D(k) == {ms[j] : j \in 1 .. k}
           G == [k \in 0 .. n |-> {t \in States : Good(t, gone) /\ Backs(s, t, b, c, D(k))}]
           round == [p \in States \X (0 .. n) |-> PutBackOne(p[1], ms[p[2] + 1], c)]
           All == IF "all_monitors" \in s.sw.flags THEN Monitors ELSE {s.sw.mon}
<1>1. PutBack(s, c) = upto[n]
  BY DEF PutBack
<1>2. Held(s, b) /\ b \in Memory /\ s \in States
  BY DEF Open, Good
<1>3. ms \in Seq(Monitors) /\ IsInjective(ms) /\ ToSet(ms) = All
  <2>1. Mons \in Seq(Monitors) /\ IsInjective(Mons) /\ ToSet(Mons) = Monitors
    BY MonitorsAssumption
  <2>2. PICK k \in Monitors : k = s.sw.mon
    BY <1>2 DEF Held
  <2>3. <<k>> \in Seq(Monitors) /\ DOMAIN <<k>> = {1} /\ <<k>>[1] = k
    OBVIOUS
  <2>4. IsInjective(<<k>>) /\ ToSet(<<k>>) = {k}
    BY <2>3 DEF IsInjective, ToSet
  <2> QED
    BY <2>1, <2>2, <2>3, <2>4
<1> HIDE DEF ms
<1>4. n \in Nat /\ DOMAIN ms = 1 .. n /\ \A i \in 1 .. n : ms[i] \in Monitors
  BY <1>3
<1> HIDE DEF n
<1>5. \A k \in 0 .. n : \A t : t \in G[k] <=> t \in States /\ Good(t, gone) /\ Backs(s, t, b, c, D(k))
  OBVIOUS
<1> HIDE DEF G
<1>6. s \in G[0]
  <2>1. 0 \in 0 .. n /\ D(0) = {}
    BY <1>4
  <2>2. Backs(s, s, b, c, {})
    BY DEF Backs, SameSwitch
  <2> QED
    BY <1>2, <1>5, <2>1, <2>2
<1>7. ASSUME NEW k \in 0 .. n, k # n, NEW t \in G[k] PROVE PutBackOne(t, ms[k + 1], c) \in G[k + 1]
  <2>1. k + 1 \in 1 .. n /\ k + 1 \in 0 .. n
    BY <1>4, <1>7
  <2>2. Good(t, gone) /\ Backs(s, t, b, c, D(k))
    BY <1>5
  <2>3. PICK m \in Monitors : m = ms[k + 1]
    BY <1>4, <2>1
  <2>4. m \notin D(k)
    BY <1>3, <1>4, <2>1, <2>3 DEF IsInjective
  <2>5. D(k + 1) = D(k) \cup {m}
    <3>1. 1 .. (k + 1) = (1 .. k) \cup {k + 1}
      OBVIOUS
    <3> QED
      BY <2>3, <3>1
  <2> HIDE DEF D
  <2>6. ~Mouse(t)
    BY <2>2 DEF Backs, SameSwitch, Mouse
  <2>7. /\ t.sw.selTags[m] = {} => t.view[m] = b.view[m]
        /\ t.sw.selTags[m] # {} =>
             t.sw.selTags[m] = b.view[m].cur /\ t.view[m].alt = b.view[m].alt
    BY <1>2, <2>2, <2>4 DEF Backs, Held
  <2>8. PICK u : u = PutBackOne(t, m, c)
    OBVIOUS
  <2>9. Good(u, gone) /\ Backs(t, u, b, c, {m})
    BY <1>2, <2>2, <2>6, <2>7, <2>8, OneBack
  <2>10. Backs(s, u, b, c, D(k + 1))
    <3>1. ASSUME NEW j \in Monitors, j # m
          PROVE  /\ u.sel[j] = s.sel[j] \/ s.sel[j] \in u.freed
                 /\ j \notin D(k) => u.view[j] = s.view[j] /\ u.sw.selTags[j] = s.sw.selTags[j]
                 /\ j \in D(k) => Restored(u.view, b, j, c)
      BY <2>2, <2>9, <3>1 DEF Backs, Restored
    <3>2. u.sel[m] = s.sel[m] \/ s.sel[m] \in u.freed
      BY <2>2, <2>9 DEF Backs
    <3>3. Restored(u.view, b, m, c)
      BY <2>9 DEF Backs
    <3>4. /\ u.selmon = s.selmon /\ u.hidden = s.hidden /\ u.dormant = s.dormant
          /\ s.freed \subseteq u.freed /\ SameSwitch(s.sw, u.sw)
      BY <2>2, <2>9 DEF Backs, SameSwitch
    <3> QED
      BY <2>5, <3>1, <3>2, <3>3, <3>4 DEF Backs
  <2> QED
    BY <1>5, <2>1, <2>3, <2>8, <2>9, <2>10 DEF Good
<1>8. ASSUME NEW k \in 0 .. n, NEW t \in G[k] PROVE round[<<t, k>>] = PutBackOne(t, ms[k + 1], c)
  <2>1. <<t, k>> \in States \X (0 .. n)
    BY <1>5
  <2> QED
    BY <2>1
<1> HIDE DEF round, D
<1>9. PICK f \in [0 .. n -> States] :
         f[0] = s /\ \A i \in 0 .. n : i # 0 => f[i] = round[<<f[i - 1], i - 1>>]
  <2>1. Leads(round, G, States, 0, n)
    <3>1. ASSUME NEW k \in 0 .. n PROVE G[k] \subseteq States
      BY <1>5
    <3>2. ASSUME NEW k \in 0 .. n, k # n, NEW t \in G[k] PROVE round[<<t, k>>] \in G[k + 1]
      BY <1>7, <1>8, <3>2
    <3> QED
      BY <3>1, <3>2 DEF Leads
  <2>2. PICK z : z = 0
    OBVIOUS
  <2>3. z \in Nat /\ n \in Nat /\ z <= n /\ s \in G[z] /\ Leads(round, G, States, z, n)
    BY <1>4, <1>6, <2>1, <2>2
  <2>4. \E f \in [z .. n -> States] :
           f[z] = s /\ \A i \in z .. n : i # z => f[i] = round[<<f[i - 1], i - 1>>]
    BY ONLY <2>3, LoopRuns
  <2> QED
    BY <2>2, <2>4
<1>10. \A i \in 0 .. n : i # 0 => f[i] = PutBackOne(f[i - 1], ms[i], c)
  <2>1. ASSUME NEW i \in 0 .. n, i # 0
        PROVE  round[<<f[i - 1], i - 1>>] = PutBackOne(f[i - 1], ms[i], c)
    <3>1. i - 1 \in 0 .. n /\ (i - 1) + 1 = i
      BY <1>4, <2>1
    <3>2. f[i - 1] \in States
      BY <3>1
    <3> QED
      BY <3>1, <3>2 DEF round
  <2> QED
    BY <1>9, <2>1
<1>11. f = E(f)
  <2>1. \A i \in 0 .. n : f[i] = E(f)[i]
    BY <1>9, <1>10
  <2>2. E(f) = [i \in 0 .. n |-> E(f)[i]]
    OBVIOUS
  <2> HIDE DEF E
  <2> QED
    BY <2>1, <2>2
<1> HIDE DEF E
<1>12. upto = E(upto)
  BY <1>11
<1> HIDE DEF upto
<1>13. \A i \in 0 .. n : upto[i] = IF i = 0 THEN s ELSE PutBackOne(upto[i - 1], ms[i], c)
  BY <1>12 DEF E
<1> DEFINE Fine == {i \in 0 .. n : upto[i] \in G[i]}
<1>14. 0 \in Fine
  BY <1>4, <1>6, <1>13
<1>15. \A i \in 0 .. n : i # n /\ i \in Fine => i + 1 \in Fine
  <2> SUFFICES ASSUME NEW i \in 0 .. n, i # n, i \in Fine PROVE i + 1 \in Fine
    OBVIOUS
  <2>1. i + 1 \in 0 .. n /\ i + 1 # 0 /\ (i + 1) - 1 = i
    BY <1>4
  <2>2. upto[i + 1] = PutBackOne(upto[i], ms[i + 1], c)
    BY <1>13, <2>1
  <2> QED
    BY <1>7, <2>1, <2>2
<1> HIDE DEF Fine
<1>16. n \in Fine
  <2>1. \A i \in 0 .. n : i \in Fine
    BY <1>4, <1>14, <1>15, Upwards
  <2> QED
    BY <1>4, <2>1
<1>17. D(n) = All
  BY <1>3, <1>4 DEF D, ToSet
<1> QED
  BY <1>1, <1>4, <1>5, <1>16, <1>17 DEF Fine

-----------------------------------------------------------------------------
(* A client is selected.                                                   *)

\* A client moved to the top of the stack leaves it the same otherwise
\* (detachstackex, attachstack).
LEMMA RaisedElements ==
  ASSUME NEW q \in Seq(Clients), IsInjective(q), NEW c \in Clients
  PROVE  /\ Raised(q, c) \in Seq(Clients) /\ IsInjective(Raised(q, c))
         /\ ToSet(Raised(q, c)) = ToSet(q) \cup {c}
<1> DEFINE r == Only(q, Clients \ {c})
<1>1. /\ r \in Seq(Clients) /\ IsInjective(r)
      /\ ToSet(r) = ToSet(q) \cap (Clients \ {c})
  BY OnlyElements
<1>2. ToSet(q) \subseteq Clients
  BY DEF ToSet
<1>3. <<c>> \in Seq(Clients) /\ DOMAIN <<c>> = {1} /\ <<c>>[1] = c
  OBVIOUS
<1>4. IsInjective(<<c>>) /\ ToSet(<<c>>) = {c}
  BY <1>3 DEF IsInjective, ToSet
<1>5. Raised(q, c) = <<c>> \o r
  BY DEF Raised
<1> HIDE DEF r
<1>6. ToSet(<<c>>) \cap ToSet(r) = {}
  BY <1>1, <1>4
<1>7. PICK p : p = <<c>> /\ p \in Seq(Clients)
  BY <1>3
<1>8. /\ p \o r \in Seq(Clients) /\ ToSet(p \o r) = ToSet(p) \cup ToSet(r)
      /\ IsInjective(p \o r)
  <2>1. p \in Seq(Clients) /\ r \in Seq(Clients) /\ IsInjective(p) /\ IsInjective(r)
        /\ ToSet(p) \cap ToSet(r) = {}
    BY <1>1, <1>4, <1>6, <1>7
  <2> QED
    BY ONLY <2>1, Joined
<1>9. ToSet(p) \cup ToSet(r) = ToSet(q) \cup {c}
  BY <1>1, <1>2, <1>4, <1>7
<1> QED
  BY <1>5, <1>7, <1>8, <1>9

\* On top of its stack, and its monitor's selection.
LEMMA SelectedWhole ==
  ASSUME NEW s, NEW t, Whole(s), NEW c \in Clients, NEW m, m = MonOf[c],
         t.stack = [s.stack EXCEPT ![m] = Raised(s.stack[m], c)],
         t.sel = [s.sel EXCEPT ![m] = c], t.freed = s.freed, t.dormant = s.dormant
  PROVE  Whole(t)
<1>1. /\ s.stack \in [Monitors -> Seq(Clients)] /\ s.sel \in [Monitors -> Clients \cup {None}]
      /\ s.freed \subseteq s.dormant /\ s.dormant \subseteq Clients
      /\ \A k \in Monitors :
            /\ IsInjective(s.stack[k]) /\ ToSet(s.stack[k]) \subseteq On(k)
            /\ On(k) \ s.freed \subseteq ToSet(s.stack[k])
            /\ s.sel[k] \in ToSet(s.stack[k]) \cup {None}
  BY DEF Whole
<1>2. m \in Monitors /\ c \in On(m)
  BY Facts DEF On
<1>3. PICK r \in Seq(Clients) : /\ r = Raised(s.stack[m], c) /\ IsInjective(r)
                                /\ ToSet(r) = ToSet(s.stack[m]) \cup {c}
  BY <1>1, <1>2, RaisedElements
<1>4. t.stack \in [Monitors -> Seq(Clients)] /\ t.sel \in [Monitors -> Clients \cup {None}]
  BY <1>1, <1>2, <1>3
<1>5. ASSUME NEW k \in Monitors
      PROVE  /\ IsInjective(t.stack[k]) /\ ToSet(t.stack[k]) \subseteq On(k)
             /\ On(k) \ t.freed \subseteq ToSet(t.stack[k])
             /\ t.sel[k] \in ToSet(t.stack[k]) \cup {None}
  <2>1. CASE k = m
    <3>1. t.stack[k] = r /\ t.sel[k] = c
      BY <1>1, <1>2, <1>3, <2>1
    <3> QED
      BY <1>1, <1>2, <1>3, <2>1, <3>1
  <2>2. CASE k # m
    <3>1. t.stack[k] = s.stack[k] /\ t.sel[k] = s.sel[k]
      BY <1>1, <2>2
    <3> QED
      BY <1>1, <3>1
  <2> QED
    BY <2>1, <2>2
<1> QED
  BY <1>1, <1>4, <1>5 DEF Whole

\* focus.
LEMMA FocusGood ==
  ASSUME NEW s, Good(s, gone), NEW c \in Clients
  PROVE  LET t == focus(s, c) IN
         /\ Good(t, gone) /\ t.selmon = MonOf[c] /\ t.sel = [s.sel EXCEPT ![MonOf[c]] = c]
         /\ t.view = s.view /\ t.hidden = s.hidden /\ t.sw = s.sw
         /\ t.dormant = s.dormant /\ t.freed = s.freed
<1> DEFINE m == MonOf[c]
           q == Raised(s.stack[m], c)
           more == {c} \cap gone
           t == focus(s, c)
<1>1. /\ s \in States /\ Whole(s) /\ gone \subseteq Clients
      /\ s.dormant \subseteq s.asked /\ s.asked \subseteq gone
      /\ s.stack \in [Monitors -> Seq(Clients)] /\ s.sel \in [Monitors -> Clients \cup {None}]
      /\ s.asked \subseteq Clients
  BY DEF Good, States
<1>2. m \in Monitors /\ IsInjective(s.stack[m])
  BY <1>1, Facts DEF Whole
<1>3. q \in Seq(Clients)
  BY <1>1, <1>2, RaisedElements
<1>4. t = [s EXCEPT !.stack[m] = q, !.sel[m] = c, !.selmon = m, !.asked = @ \cup more]
  BY <1>1 DEF focus, States
<1>5. more \subseteq gone
  OBVIOUS
<1> HIDE DEF m, t, more
<1>6. /\ t \in States /\ t.stack = [s.stack EXCEPT ![m] = q] /\ t.sel = [s.sel EXCEPT ![m] = c]
      /\ t.selmon = m /\ t.view = s.view /\ t.hidden = s.hidden /\ t.sw = s.sw
      /\ t.dormant = s.dormant /\ t.freed = s.freed /\ t.asked = s.asked \cup more
  <2> HIDE DEF q
  <2> QED
    BY <1>1, <1>2, <1>3, <1>4, <1>5 DEF States
<1>7. Whole(t)
  <2>1. m = MonOf[c]
    BY DEF m
  <2> QED
    BY <1>1, <1>6, <2>1, SelectedWhole
<1>8. Good(t, gone)
  BY <1>1, <1>5, <1>6, <1>7 DEF Good
<1> QED
  BY <1>6, <1>8 DEF m, t

-----------------------------------------------------------------------------
(* The switcher is left.                                                   *)

\* t is what s, an open switcher, may be left as for c: every view is back, the
\* selections are what they were, but for c, and so is the selected monitor,
\* but where the switcher was for the selected one.
Outcome(s, t, b, c) ==
    /\ t.sw = Closed /\ s.freed \subseteq t.freed
    /\ \A k \in Monitors :
          /\ Restored(t.view, b, k, c)
          /\ IF c # None /\ MonOf[c] = k THEN t.sel[k] = c \/ c \in t.freed
             ELSE t.sel[k] = b.sel[k] \/ b.sel[k] \in t.freed
    /\ c # None => c \notin t.hidden
    /\ t.selmon = IF c # None /\ s.sw.mon = b.selmon THEN MonOf[c] ELSE b.selmon

\* The same before the client is selected.
Undone(s, t, b, c) ==
    /\ s.freed \subseteq t.freed /\ t.hidden = s.hidden
    /\ \A k \in Monitors :
          /\ Restored(t.view, b, k, c)
          /\ t.sel[k] = b.sel[k] \/ b.sel[k] \in t.freed
    /\ t.selmon = IF c # None /\ s.sw.mon = b.selmon THEN MonOf[c] ELSE b.selmon

\* The keyboard's switcher puts every view back.
LEMMA KeysUndone ==
  ASSUME NEW s, NEW b, Good(s, gone), Open(s, b), ~Mouse(s), NEW c,
         c = None \/ Reaches(s.sw, c)
  PROVE  LET t == [PutBack(s, c) EXCEPT !.selmon =
                      IF c # None /\ "selmon" \in s.sw.flags THEN MonOf[c] ELSE s.sw.selm]
         IN  Good(t, gone) /\ Undone(s, t, b, c)
<1> DEFINE to == IF c # None /\ "selmon" \in s.sw.flags THEN MonOf[c] ELSE s.sw.selm
           D == IF "all_monitors" \in s.sw.flags THEN Monitors ELSE {s.sw.mon}
<1>1. c \in Clients \cup {None}
  BY DEF Reaches
<1>2. PICK v : v = PutBack(s, c)
  OBVIOUS
<1>3. Good(v, gone) /\ Backs(s, v, b, c, D)
  BY <1>1, <1>2, AllBack
<1>4. Held(s, b) /\ b \in Memory /\ v \in States /\ Whole(v)
  BY <1>3 DEF Open, Good
<1>5. to = (IF c # None /\ s.sw.mon = b.selmon THEN MonOf[c] ELSE b.selmon) /\ to \in Monitors
  BY <1>1, <1>4, Facts DEF Held, Memory
<1> DEFINE t == [v EXCEPT !.selmon = to]
<1> HIDE DEF to
<1>6. /\ t \in States /\ t.selmon = to
      /\ t.stack = v.stack /\ t.sel = v.sel /\ t.sw = v.sw /\ t.hidden = v.hidden
      /\ t.view = v.view /\ t.dormant = v.dormant /\ t.freed = v.freed /\ t.asked = v.asked
  BY <1>4, <1>5 DEF States
<1> HIDE DEF t
<1>7. Good(t, gone)
  BY <1>3, <1>6 DEF Good, Whole
<1>8. ASSUME NEW k \in Monitors
      PROVE  Restored(t.view, b, k, c) /\ (t.sel[k] = b.sel[k] \/ b.sel[k] \in t.freed)
  <2>1. t.sel[k] = b.sel[k] \/ b.sel[k] \in t.freed
    BY <1>3, <1>4, <1>6 DEF Backs, Held
  <2>2. CASE k \in D
    BY <1>3, <1>6, <2>1, <2>2 DEF Backs
  <2>3. CASE k \notin D
    <3>1. k # s.sw.mon /\ "all_monitors" \notin s.sw.flags
      BY <2>3
    <3>2. s.sw.selTags[k] = {} /\ s.view[k] = b.view[k]
      BY <1>4, <3>1 DEF Held
    <3>3. t.view[k] = b.view[k]
      BY <1>3, <1>6, <2>3, <3>2 DEF Backs
    <3>4. c = None \/ MonOf[c] # k
      BY <3>1 DEF Reaches
    <3> QED
      BY <2>1, <3>3, <3>4 DEF Restored
  <2> QED
    BY <2>2, <2>3
<1>9. Undone(s, t, b, c)
  BY <1>3, <1>5, <1>6, <1>8 DEF Undone, Backs
<1> QED
  BY <1>2, <1>7, <1>9 DEF t, to

\* The menu views its client.
LEMMA MenuUndone ==
  ASSUME NEW s, NEW b, Good(s, gone), Open(s, b), Mouse(s), NEW c,
         c = None \/ Reaches(s.sw, c)
  PROVE  Good(Switched(s, c), gone) /\ Undone(s, Switched(s, c), b, c)
<1>1. Held(s, b) /\ b \in Memory /\ s \in States /\ Whole(s)
  BY DEF Open, Good
<1>2. \A k \in Monitors : s.view[k] = b.view[k]
  BY <1>1 DEF Held
<1>3. CASE c = None
  <2> DEFINE t == [s EXCEPT !.selmon = s.sw.selm]
  <2>1. Switched(s, c) = t
    BY <1>3 DEF Switched
  <2>2. s.sw.selm = s.selmon /\ s.selmon = b.selmon
    BY <1>1 DEF Held
  <2>3. t = s
    BY <1>1, <2>2 DEF States
  <2>4. Undone(s, s, b, c)
    BY <1>1, <1>2, <1>3, <2>2 DEF Undone, Restored, Held
  <2> QED
    BY <2>1, <2>3, <2>4
<1>4. CASE c # None
  <2>1. c \in Clients /\ MonOf[c] \in Monitors /\ TagsOf[c] \in Masks
    BY <1>4, Facts DEF Reaches, Masks
  <2> DEFINE t == IF "selmon" \in s.sw.flags THEN [s EXCEPT !.selmon = MonOf[c]] ELSE s
             m == MonOf[c]
  <2>2. /\ t \in States /\ t.selmon = IF s.sw.mon = b.selmon THEN m ELSE b.selmon
        /\ t.stack = s.stack /\ t.sel = s.sel /\ t.sw = s.sw /\ t.hidden = s.hidden
        /\ t.view = s.view /\ t.dormant = s.dormant /\ t.freed = s.freed /\ t.asked = s.asked
    BY <1>1, <2>1 DEF States, Held
  <2>3. Switched(s, c) = IF Visible(t, c) THEN t ELSE viewmontag(t, m, TagsOf[c], FALSE)
    BY <1>4 DEF Switched
  <2> HIDE DEF t, m
  <2>4. Good(t, gone)
    BY <1>1, <2>2 DEF Good, Whole
  <2>5. \A k \in Monitors : t.sel[k] = b.sel[k] \/ b.sel[k] \in t.freed
    BY <1>1, <2>2 DEF Held
  <2>6. Visible(t, c) <=> TagsOf[c] \cap b.view[m].cur # {}
    BY <1>2, <2>1, <2>2 DEF Visible, m
  <2>7. CASE Visible(t, c)
    <3>1. \A k \in Monitors : Restored(t.view, b, k, c)
      BY <1>2, <2>2, <2>6, <2>7 DEF Restored, m
    <3>2. Undone(s, t, b, c)
      BY <1>4, <2>2, <2>5, <3>1 DEF Undone, m
    <3> QED
      BY <2>3, <2>4, <2>7, <3>2
  <2>8. CASE ~Visible(t, c)
    <3>1. PICK u : u = viewmontag(t, m, TagsOf[c], FALSE)
      OBVIOUS
    <3>2. Good(u, gone) /\ Turns(t, u, m, TagsOf[c])
      BY <2>1, <2>4, <3>1, Turned DEF m
    <3>3. \A k \in Monitors : Restored(u.view, b, k, c)
      <4>1. ASSUME NEW k \in Monitors, k # m PROVE Restored(u.view, b, k, c)
        <5>1. u.view[k] = b.view[k] /\ MonOf[c] # k
          BY <1>2, <2>2, <3>2, <4>1 DEF Turns, m
        <5> QED
          BY <5>1 DEF Restored
      <4>2. u.view[m].cur = TagsOf[c] /\ MonOf[c] = m /\ TagsOf[c] \cap b.view[m].cur = {}
        BY <2>6, <2>8, <3>2 DEF Turns, m
      <4>3. Restored(u.view, b, m, c)
        BY <1>4, <4>2 DEF Restored
      <4> QED
        BY <4>1, <4>3
    <3>4. \A k \in Monitors : u.sel[k] = b.sel[k] \/ b.sel[k] \in u.freed
      BY <2>5, <3>2 DEF Turns
    <3>5. Undone(s, u, b, c)
      BY <1>4, <2>2, <3>2, <3>3, <3>4 DEF Undone, Turns, m
    <3> QED
      BY <2>3, <2>8, <3>1, <3>2, <3>5
  <2> QED
    BY <2>7, <2>8
<1> QED
  BY <1>3, <1>4

\* The client the switcher leaves for is one it may show.
LEMMA TargetReached ==
  ASSUME NEW s, NEW b, s \in States, Whole(s), Open(s, b)
  PROVE  Target(s) = None \/ Reaches(s.sw, Target(s))
<1>1. s.sw.highlight = None \/ Reaches(s.sw, s.sw.highlight)
  BY DEF Open, Listing
<1>2. s.sw.mon \in Monitors
  BY DEF Open, Held
<1>3. s.sel[s.sw.mon] \in On(s.sw.mon) \cup {None}
  BY <1>2 DEF Whole
<1> QED
  BY <1>1, <1>3 DEF Target, Reaches, On

\* What Leave makes of s, step by step.
Viewed(s, c) ==
    IF Mouse(s) THEN Switched(s, c)
    ELSE [PutBack(s, c) EXCEPT !.selmon =
              IF c # None /\ "selmon" \in s.sw.flags THEN MonOf[c] ELSE s.sw.selm]
Bared(s, c) ==
    IF c \in s.hidden
    THEN arrangemon([altTabEnd(Viewed(s, c)) EXCEPT !.hidden = @ \ {c}], MonOf[c])
    ELSE altTabEnd(Viewed(s, c))
Left(s, c) ==
    IF c = None THEN altTabEnd(Viewed(s, c))
    ELSE IF s.sw.mon = s.sw.selm THEN focus(Bared(s, c), c)
    ELSE arrangemon([Bared(s, c) EXCEPT !.sel[MonOf[c]] = c,
                                        !.stack[MonOf[c]] = Raised(@, c)], MonOf[c])

\* The fields of a switcher that is closed are in their ranges (altTabEnd).
LEMMA ClosedType ==
  Closed \in Switcher
BY DEF Closed, Switcher, Flags

\* Without the switcher, and with c shown.
LEMMA BaredUndone ==
  ASSUME NEW s, NEW b, Good(s, gone), Open(s, b), NEW c, c = None \/ Reaches(s.sw, c)
  PROVE  /\ LET t == altTabEnd(Viewed(s, c))
            IN  Good(t, gone) /\ Undone(s, t, b, c) /\ t.sw = Closed
         /\ c # None =>
              LET t == Bared(s, c) IN
              /\ Good(t, gone) /\ t.sw = Closed /\ c \notin t.hidden
              /\ Undone(s, [t EXCEPT !.hidden = s.hidden], b, c)
<1>1. PICK v : v = Viewed(s, c)
  OBVIOUS
<1>2. Good(v, gone) /\ Undone(s, v, b, c)
  BY <1>1, KeysUndone, MenuUndone DEF Viewed
<1>3. v \in States /\ Whole(v) /\ s \in States /\ v.hidden = s.hidden /\ s.hidden \subseteq Clients
  BY <1>2 DEF Good, Undone, States
<1> DEFINE e == [v EXCEPT !.sw = Closed]
<1>4. altTabEnd(Viewed(s, c)) = e
  BY <1>1 DEF altTabEnd
<1>5. /\ e \in States /\ e.sw = Closed
      /\ e.stack = v.stack /\ e.sel = v.sel /\ e.selmon = v.selmon /\ e.hidden = v.hidden
      /\ e.view = v.view /\ e.dormant = v.dormant /\ e.freed = v.freed /\ e.asked = v.asked
  BY <1>3, ClosedType DEF States
<1> HIDE DEF e
<1>6. Good(e, gone) /\ Undone(s, e, b, c)
  BY <1>2, <1>5 DEF Good, Whole, Undone
<1>7. ASSUME c # None
      PROVE  LET t == Bared(s, c) IN
             /\ Good(t, gone) /\ t.sw = Closed /\ c \notin t.hidden
             /\ Undone(s, [t EXCEPT !.hidden = s.hidden], b, c)
  <2>1. CASE c \notin s.hidden
    <3>1. Bared(s, c) = e
      BY <1>4, <2>1 DEF Bared
    <3>2. [e EXCEPT !.hidden = s.hidden] = e
      BY <1>3, <1>5 DEF States
    <3> QED
      BY <1>3, <1>5, <1>6, <2>1, <3>1, <3>2
  <2>2. CASE c \in s.hidden
    <3> DEFINE u == [e EXCEPT !.hidden = s.hidden \ {c}]
    <3>1. /\ u \in States /\ u.hidden = s.hidden \ {c} /\ u.sw = Closed
          /\ u.stack = e.stack /\ u.sel = e.sel /\ u.selmon = e.selmon
          /\ u.view = e.view /\ u.dormant = e.dormant /\ u.freed = e.freed /\ u.asked = e.asked
      BY <1>3, <1>5 DEF States
    <3>2. Bared(s, c) = arrangemon(u, MonOf[c])
      BY <1>3, <1>4, <1>5, <2>2 DEF Bared
    <3> HIDE DEF u
    <3>3. Good(u, gone)
      BY <1>6, <3>1 DEF Good, Whole
    <3>4. MonOf[c] \in Monitors
      BY <1>7, Facts DEF Reaches
    <3>5. PICK a : a = arrangemon(u, MonOf[c])
      OBVIOUS
    <3>6. Good(a, gone) /\ Settles(u, a)
      BY <3>3, <3>4, <3>5, Arranged
    <3> DEFINE h == [a EXCEPT !.hidden = s.hidden]
    <3>7. h.hidden = s.hidden /\ h.sel = a.sel /\ h.selmon = a.selmon /\ h.view = a.view /\ h.freed = a.freed
      BY <3>6 DEF Good, States
    <3> HIDE DEF h
    <3>8. a.view = e.view /\ a.selmon = e.selmon /\ e.freed \subseteq a.freed
      BY <3>1, <3>6 DEF Settles
    <3>9. \A k \in Monitors : a.sel[k] = b.sel[k] \/ b.sel[k] \in a.freed
      BY <1>6, <3>1, <3>6 DEF Settles, Undone
    <3>10. Undone(s, h, b, c)
      BY <1>6, <3>7, <3>8, <3>9 DEF Undone
    <3>11. a.sw = Closed /\ c \notin a.hidden
      BY <3>1, <3>6 DEF Settles
    <3> QED
      BY <3>2, <3>5, <3>6, <3>10, <3>11 DEF h
  <2> QED
    BY <2>1, <2>2
<1> QED
  BY <1>4, <1>5, <1>6, <1>7

\* Whatever was chosen, leaving the switcher keeps stacks and selections sound
\* and meets the outcome (altTabStart).
LEMMA LeftOutcome ==
  ASSUME NEW s, NEW b, Good(s, gone), Open(s, b), NEW c, c = None \/ Reaches(s.sw, c)
  PROVE  Good(Left(s, c), gone) /\ Outcome(s, Left(s, c), b, c)
<1>1. Held(s, b) /\ b \in Memory
  BY DEF Open
<1>2. CASE c = None
  <2>1. PICK e : e = altTabEnd(Viewed(s, c))
    OBVIOUS
  <2>2. Good(e, gone) /\ Undone(s, e, b, c) /\ e.sw = Closed
    BY <2>1, BaredUndone
  <2>3. Left(s, c) = e
    BY <1>2, <2>1 DEF Left
  <2>4. Outcome(s, e, b, c)
    BY <1>2, <2>2 DEF Outcome, Undone
  <2> QED
    BY <2>2, <2>3, <2>4
<1>3. CASE c # None
  <2> DEFINE m == MonOf[c]
  <2>1. PICK a : a = Bared(s, c)
    OBVIOUS
  <2>2. /\ Good(a, gone) /\ a.sw = Closed /\ c \notin a.hidden
        /\ Undone(s, [a EXCEPT !.hidden = s.hidden], b, c)
    BY <1>3, <2>1, BaredUndone
  <2>3. c \in Clients /\ m \in Monitors
    BY <1>3, Facts DEF Reaches
  <2>4. /\ a \in States /\ Whole(a) /\ a.stack \in [Monitors -> Seq(Clients)]
        /\ a.sel \in [Monitors -> Clients \cup {None}] /\ IsInjective(a.stack[m])
    BY <2>2, <2>3 DEF Good, States, Whole
  <2>5. /\ s.freed \subseteq a.freed
        /\ \A k \in Monitors : /\ Restored(a.view, b, k, c)
                               /\ a.sel[k] = b.sel[k] \/ b.sel[k] \in a.freed
        /\ a.selmon = IF s.sw.mon = b.selmon THEN m ELSE b.selmon
    <3> DEFINE h == [a EXCEPT !.hidden = s.hidden]
    <3>1. h.sel = a.sel /\ h.selmon = a.selmon /\ h.view = a.view /\ h.freed = a.freed
      BY <2>4 DEF States
    <3>2. Undone(s, h, b, c)
      BY <2>2
    <3> HIDE DEF h
    <3> QED
      BY <1>3, <3>1, <3>2 DEF Undone
  <2>6. CASE s.sw.mon = s.sw.selm
    <3>1. PICK t : t = focus(a, c)
      OBVIOUS
    <3>2. Left(s, c) = t
      BY <1>3, <2>1, <2>6, <3>1 DEF Left
    <3>3. /\ Good(t, gone) /\ t.selmon = MonOf[c] /\ t.sel = [a.sel EXCEPT ![MonOf[c]] = c]
          /\ t.view = a.view /\ t.hidden = a.hidden /\ t.sw = a.sw
          /\ t.dormant = a.dormant /\ t.freed = a.freed
      BY <2>2, <2>3, <3>1, FocusGood
    <3>4. s.sw.mon = b.selmon
      BY <1>1, <2>6 DEF Held
    <3>5. \A k \in Monitors : IF m = k THEN t.sel[k] = c ELSE t.sel[k] = a.sel[k]
      BY <2>3, <2>4, <3>3
    <3>6. Outcome(s, t, b, c)
      BY <1>3, <2>2, <2>5, <3>3, <3>4, <3>5 DEF Outcome
    <3> QED
      BY <3>2, <3>3, <3>6
  <2>7. CASE s.sw.mon # s.sw.selm
    <3> DEFINE q == Raised(a.stack[m], c)
               u == [a EXCEPT !.sel[m] = c, !.stack[m] = Raised(@, c)]
    <3>1. q \in Seq(Clients)
      BY <2>3, <2>4, RaisedElements
    <3>2. u = [a EXCEPT !.sel[m] = c, !.stack[m] = q]
      BY <2>4 DEF States
    <3>3. Left(s, c) = arrangemon(u, m)
      BY <1>3, <2>1, <2>7 DEF Left
    <3> HIDE DEF m, u
    <3>4. /\ u \in States /\ u.stack = [a.stack EXCEPT ![m] = q] /\ u.sel = [a.sel EXCEPT ![m] = c]
          /\ u.selmon = a.selmon /\ u.view = a.view /\ u.hidden = a.hidden /\ u.sw = a.sw
          /\ u.dormant = a.dormant /\ u.freed = a.freed /\ u.asked = a.asked
      <4> HIDE DEF q
      <4> QED
        BY <2>3, <2>4, <3>1, <3>2 DEF States
    <3>5. Whole(u)
      <4>1. m = MonOf[c]
        BY DEF m
      <4> QED
        BY <2>3, <2>4, <3>4, <4>1, SelectedWhole
    <3>6. Good(u, gone)
      BY <2>2, <3>4, <3>5 DEF Good
    <3>7. PICK t : t = arrangemon(u, m)
      OBVIOUS
    <3>8. Good(t, gone) /\ Settles(u, t)
      BY <2>3, <3>6, <3>7, Arranged
    <3>9. \A k \in Monitors : IF m = k THEN u.sel[k] = c ELSE u.sel[k] = a.sel[k]
      BY <2>3, <2>4, <3>4
    <3>10. \A k \in Monitors : IF m = k THEN t.sel[k] = c \/ c \in t.freed
                              ELSE t.sel[k] = b.sel[k] \/ b.sel[k] \in t.freed
      BY <2>5, <3>4, <3>8, <3>9 DEF Settles
    <3>11. /\ t.view = a.view /\ t.sw = Closed /\ c \notin t.hidden /\ s.freed \subseteq t.freed
           /\ t.selmon = a.selmon
      BY <2>2, <2>5, <3>4, <3>8 DEF Settles
    <3>12. Outcome(s, t, b, c)
      BY <1>3, <2>5, <3>10, <3>11 DEF Outcome, m
    <3> QED
      BY <3>3, <3>7, <3>8, <3>12
  <2> QED
    BY <2>6, <2>7
<1> QED
  BY <1>2, <1>3

-----------------------------------------------------------------------------
(* The switcher opens.                                                     *)

\* What is highlighted at first.
LEMMA FirstOpen ==
  ASSUME NEW s, NEW b, Good(s, gone), Open(s, b)
  PROVE  LET t == FirstShown(s)
         IN  Good(t, gone) /\ Open(t, b) /\ t.sw.phase = s.sw.phase
<1> DEFINE here == {i \in DOMAIN s.sw.list : s.sw.list[i] \in {s.sel[s.sw.mon], s.sel[s.selmon]}}
           n == IF here = {} THEN 0 ELSE (CHOOSE i \in here : \A j \in here : i <= j) - 1
           h == s.sel[s.sw.mon]
           u(k) == [s EXCEPT !.sw.highlight = h, !.sw.active = TRUE, !.sw.n = k]
           v == [s EXCEPT !.sw.highlight = h, !.sw.active = TRUE]
           d == IF "mouse" \in s.sw.flags THEN 0 ELSE IF "reverse" \in s.sw.flags THEN -1 ELSE 1
<1>1. s \in States /\ s.sw \in Switcher /\ Held(s, b) /\ Listing(s.sw) /\ b \in Memory /\ Whole(s)
  BY DEF Good, Open, States
<1>2. /\ s.sw.n \in Nat /\ s.sw.list \in Seq(Clients) /\ Len(s.sw.list) \in Nat
      /\ s.sw.n < Len(s.sw.list) /\ DOMAIN s.sw.list = 1 .. Len(s.sw.list)
  BY <1>1 DEF Switcher, Listing
<1>3. n \in Nat /\ n < Len(s.sw.list)
  <2>1. here \subseteq 1 .. Len(s.sw.list) /\ here \subseteq Nat
    BY <1>2
  <2> HIDE DEF here
  <2>2. CASE here = {}
    BY <1>2, <2>2
  <2>3. CASE here # {}
    <3>1. \E i \in here : \A j \in here : i <= j
      BY <2>1, <2>3, LeastNat
    <3> DEFINE least == CHOOSE i \in here : \A j \in here : i <= j
    <3>2. least \in here
      BY <3>1
    <3>3. n = least - 1
      BY <2>3
    <3> HIDE DEF least, n
    <3>4. least \in 1 .. Len(s.sw.list)
      BY <2>1, <3>2
    <3> QED
      BY <1>2, <3>3, <3>4
  <2> QED
    BY <2>2, <2>3
<1>4. h = None \/ Reaches(s.sw, h)
  <2>1. s.sw.mon \in Monitors
    BY <1>1 DEF Held
  <2>2. h \in On(s.sw.mon) \cup {None}
    BY <1>1, <2>1 DEF Whole
  <2> QED
    BY <2>2 DEF On, Reaches
<1> HIDE DEF n, h
<1>5. ASSUME NEW k \in Nat, k < Len(s.sw.list)
      PROVE  Good(u(k), gone) /\ Open(u(k), b) /\ u(k).sw.phase = s.sw.phase
  <2> DEFINE w == [s.sw EXCEPT !.highlight = h, !.active = TRUE, !.n = k]
             x == u(k)
  <2>1. h \in Clients \cup {None}
    BY <1>4 DEF Reaches
  <2>2. /\ w \in Switcher /\ w.highlight = h /\ w.phase = s.sw.phase /\ w.mon = s.sw.mon
        /\ w.flags = s.sw.flags /\ w.list = s.sw.list /\ w.room = s.sw.room /\ w.n = k
        /\ w.selm = s.sw.selm /\ w.selTags = s.sw.selTags
    BY <1>1, <2>1 DEF Switcher
  <2>3. x = [s EXCEPT !.sw = w]
    BY <1>1 DEF States
  <2> HIDE DEF w, x
  <2>4. /\ x \in States /\ x.sw = w
        /\ x.stack = s.stack /\ x.sel = s.sel /\ x.selmon = s.selmon /\ x.hidden = s.hidden
        /\ x.view = s.view /\ x.dormant = s.dormant /\ x.freed = s.freed /\ x.asked = s.asked
    BY <1>1, <2>2, <2>3 DEF States
  <2>5. Good(x, gone)
    BY <1>1, <2>4 DEF Good, Whole
  <2>6. Listing(w)
    BY <1>1, <1>4, <1>5, <2>2 DEF Listing, Reaches
  <2>7. Held(x, b)
    BY <1>1, <2>2, <2>4 DEF Held, Mouse
  <2> QED
    BY <1>1, <2>2, <2>4, <2>5, <2>6, <2>7 DEF Open, x
<1>6. v = u(s.sw.n)
  BY <1>1 DEF States, Switcher
<1>7. d \in Int
  OBVIOUS
<1>8. \/ FirstShown(s) = s
      \/ FirstShown(s) = u(n)
      \/ FirstShown(s) = altTab(v, d)
  BY DEF FirstShown, n, h
<1> HIDE DEF u, v, d
<1>9. LET t == altTab(v, d)
      IN  Good(t, gone) /\ Open(t, b) /\ t.sw.phase = s.sw.phase
  <2>1. Good(v, gone) /\ Open(v, b) /\ v.sw.phase = s.sw.phase
    BY <1>2, <1>5, <1>6
  <2> QED
    BY <1>7, <2>1, Tabbed
<1> QED
  BY <1>3, <1>5, <1>8, <1>9

\* The list is made, and nothing has changed yet.
LEMMA ListOpen ==
  ASSUME NEW s, Good(s, gone), NEW m \in Monitors, NEW flags \in SUBSET Flags,
         "selmon" \in flags <=> m = s.selmon, NEW o \in Clients \cup {None},
         Listed(s, m, flags) # <<>>
  PROVE  LET w == [Closed EXCEPT !.phase = "open", !.mon = m, !.selm = s.selmon, !.origin = o,
                                 !.flags = flags, !.list = Listed(s, m, flags),
                                 !.room = Counted(s, m, flags)]
             t == [s EXCEPT !.sw = w]
         IN  Good(t, gone) /\ Open(t, [view |-> s.view, sel |-> s.sel, selmon |-> s.selmon])
<1> DEFINE b == [view |-> s.view, sel |-> s.sel, selmon |-> s.selmon]
<1>1. s \in States /\ Whole(s) /\ s.selmon \in Monitors
  BY DEF Good, States
<1>2. PICK q : q = Listed(s, m, flags)
  OBVIOUS
<1>3. PICK r : r = Counted(s, m, flags)
  OBVIOUS
<1>4. /\ q \in Seq(Clients) /\ IsInjective(q)
      /\ ToSet(q) = {c \in Kept(s, flags) : MonOf[c] = m \/ "all_monitors" \in flags}
  BY <1>1, <1>2, ListMade
<1>5. r \in Nat /\ Len(q) <= r /\ ("same_class" \notin flags => Len(q) = r)
  BY <1>1, <1>2, <1>3, ListCounted
<1> DEFINE w == [Closed EXCEPT !.phase = "open", !.mon = m, !.selm = s.selmon, !.origin = o,
                               !.flags = flags, !.list = q, !.room = r]
           t == [s EXCEPT !.sw = w]
<1>6. /\ w \in Switcher /\ w.mon = m /\ w.selm = s.selmon /\ w.flags = flags /\ w.list = q
      /\ w.room = r /\ w.n = 0 /\ w.highlight = None /\ \A k \in Monitors : w.selTags[k] = {}
  BY <1>1, <1>4, <1>5 DEF Switcher, Closed
<1>7. Kept(s, flags) \subseteq Clients
  BY DEF Kept
<1> HIDE DEF w
<1>8. /\ t \in States /\ t.sw = w
      /\ t.stack = s.stack /\ t.sel = s.sel /\ t.selmon = s.selmon /\ t.hidden = s.hidden
      /\ t.view = s.view /\ t.dormant = s.dormant /\ t.freed = s.freed /\ t.asked = s.asked
  BY <1>1, <1>6 DEF States
<1> HIDE DEF t
<1>9. Good(t, gone)
  BY <1>1, <1>8 DEF Good, Whole
<1>10. Listing(w)
  <2>1. Len(q) \in Nat /\ Len(q) # 0
    BY <1>2, <1>4
  <2> QED
    BY <1>4, <1>5, <1>6, <1>7, <2>1 DEF Listing, Reaches
<1>11. b \in Memory /\ b.view = s.view /\ b.sel = s.sel /\ b.selmon = s.selmon
  BY <1>1 DEF States, Memory
<1> HIDE DEF b
<1>12. \A k \in Monitors : b.sel[k] \in On(k) \cup {None}
  BY <1>1, <1>11 DEF Whole
<1>13. Held(t, b)
  BY <1>6, <1>8, <1>11, <1>12 DEF Held
<1>14. Open(t, b)
  BY <1>8, <1>10, <1>11, <1>13 DEF Open
<1> QED
  BY <1>2, <1>3, <1>9, <1>14 DEF t, w, b

-----------------------------------------------------------------------------
(* The invariant.                                                          *)

IInv ==
    /\ Good(State, gone) /\ gone \subseteq Dying
    /\ sw.phase # "closed" => Open(State, before)

\* A state reached is what the handler made.
LEMMA Into ==
  ASSUME NEW t, t \in States, Becomes(t)
  PROVE  State' = t
BY DEF Becomes, State, States

\* From here on State is a record of its own.
LEMMA StateFields ==
  /\ State.stack = stack /\ State.sel = sel /\ State.selmon = selmon /\ State.view = view
  /\ State.hidden = hidden /\ State.sw = sw /\ State.dormant = dormant
  /\ State.freed = freed /\ State.asked = asked
BY DEF State

\* A handler that ends in a good state keeps the invariant.
LEMMA IntoGood ==
  ASSUME NEW t, Becomes(t), Good(t, gone), gone' = gone, gone \subseteq Dying,
         t.sw.phase # "closed" => Open(t, before')
  PROVE  IInv'
<1>1. t \in States
  BY DEF Good
<1>2. State' = t /\ sw' = t.sw
  BY <1>1, Into DEF Becomes
<1>3. Good(State', gone')
  BY <1>2
<1>4. sw'.phase # "closed" => Open(State', before')
  BY <1>2
<1> QED
  BY <1>3, <1>4 DEF IInv

\* The invariant holds of the windows as the program finds them.
LEMMA InitGood ==
  Init => IInv
<1> SUFFICES ASSUME Init PROVE IInv
  OBVIOUS
<1>1. ASSUME NEW m \in Monitors
      PROVE  /\ SetToSeq(On(m)) \in Seq(Clients) /\ IsInjective(SetToSeq(On(m)))
             /\ ToSet(SetToSeq(On(m))) = On(m)
  <2>1. On(m) \in SUBSET Clients /\ IsFiniteSet(Clients)
    BY ClientsAssumption DEF On
  <2>2. IsFiniteSet(On(m))
    BY <2>1, FS_Subset
  <2>3. /\ SetToSeq(On(m)) \in Seq(On(m)) /\ IsInjective(SetToSeq(On(m)))
        /\ ToSet(SetToSeq(On(m))) = On(m)
    BY <2>2, SetListed
  <2>4. PICK q : q = SetToSeq(On(m))
    OBVIOUS
  <2>5. q \in Seq(Clients)
    BY <2>1, <2>3, <2>4
  <2> QED
    BY <2>3, <2>4, <2>5
<1>2. stack = [m \in Monitors |-> SetToSeq(On(m))]
  BY DEF Init, On
<1>3. stack \in [Monitors -> Seq(Clients)]
  BY <1>1, <1>2
<1>4. \A m \in Monitors : IsInjective(stack[m]) /\ ToSet(stack[m]) = On(m)
  BY <1>1, <1>2
<1>5. \A m \in Monitors : sel[m] \in ToSet(stack[m]) \cup {None}
  <2> SUFFICES ASSUME NEW m \in Monitors PROVE sel[m] \in ToSet(stack[m]) \cup {None}
    OBVIOUS
  <2>1. sel[m] = FirstIn(stack[m], {c \in Clients : TagsOf[c] \cap view[m].cur # {}})
    BY DEF Init
  <2>2. PICK S : S = {c \in Clients : TagsOf[c] \cap view[m].cur # {}}
    OBVIOUS
  <2>3. PICK r : r = Only(stack[m], S)
    OBVIOUS
  <2>4. r \in Seq(Clients) /\ ToSet(r) = ToSet(stack[m]) \cap S
    BY <1>3, <1>4, <2>3, OnlyElements
  <2>5. r # <<>> => Head(r) \in ToSet(r)
    <3> SUFFICES ASSUME r # <<>> PROVE Head(r) \in ToSet(r)
      OBVIOUS
    <3>1. Head(r) = r[1] /\ 1 \in DOMAIN r
      BY <2>4
    <3> QED
      BY <3>1 DEF ToSet
  <2> QED
    BY <2>1, <2>2, <2>3, <2>4, <2>5 DEF FirstIn
<1>6. sel \in [Monitors -> Clients \cup {None}]
  <2>1. \A m \in Monitors : sel[m] \in Clients \cup {None}
    BY <1>4, <1>5 DEF On
  <2> QED
    BY <2>1 DEF Init
<1>7. Min(Tags) \in Tags
  <2>1. Tags \subseteq Nat /\ Tags # {}
    BY TagsAssumption
  <2>2. \E x \in Tags : \A y \in Tags : x <= y
    BY <2>1, LeastNat
  <2> QED
    BY <2>2 DEF Min
<1>8. view \in [Monitors -> [cur : Masks, alt : Masks]]
  <2>1. {Min(Tags)} \in Masks
    BY <1>7 DEF Masks
  <2> QED
    BY <2>1 DEF Init
<1>9. selmon \in Monitors
  <2>1. Mons \in Seq(Monitors) /\ ToSet(Mons) = Monitors /\ Monitors # {}
    BY MonitorsAssumption
  <2>2. Mons # <<>>
    BY <2>1 DEF ToSet
  <2>3. Head(Mons) \in Monitors
    BY <2>1, <2>2
  <2> QED
    BY <2>3 DEF Init
<1>10. hidden = {} /\ sw = Closed /\ gone = {} /\ dormant = {} /\ freed = {} /\ asked = {}
  BY DEF Init
<1>11. State \in States
  BY <1>3, <1>6, <1>8, <1>9, <1>10, ClosedType DEF State, States
<1>12. Whole(State)
  BY <1>3, <1>4, <1>5, <1>6, <1>10 DEF State, Whole
<1>13. sw.phase = "closed"
  BY <1>10 DEF Closed
<1> QED
  BY <1>10, <1>11, <1>12, <1>13 DEF IInv, Good, State

\* Opening the switcher gives it a list that fits (altTabStart).
LEMMA StartGood ==
  ASSUME IInv, NEW m \in Monitors, NEW mode \in Modes, altTabStart(m, mode)
  PROVE  IInv'
<1> DEFINE flags == IF m = selmon THEN mode \cup {"selmon"} ELSE mode \ {"selmon"}
           w == Opened(m, mode)
           list == Listed(State, m, flags)
           counted == Counted(State, m, flags)
           v == [w EXCEPT !.list = list, !.room = counted]
           s == [State EXCEPT !.sw = v]
           b == [view |-> view, sel |-> sel, selmon |-> selmon]
<1>1. Good(State, gone) /\ gone \subseteq Dying /\ State \in States
  BY DEF IInv, Good
<1>2. flags \in SUBSET Flags
  BY ModesAssumption DEF Flags
<1>3. w.flags = flags
  BY DEF Opened, Closed
<1>4. /\ list # <<>> /\ before' = b /\ gone' = gone
      /\ Becomes(FirstShown(s))
  BY <1>3 DEF altTabStart
<1>5. sel[selmon] \in Clients \cup {None} /\ selmon \in Monitors
  BY <1>1 DEF State, States
<1>6. v = [Closed EXCEPT !.phase = "open", !.mon = m, !.selm = selmon, !.origin = sel[selmon],
                         !.flags = flags, !.list = list, !.room = counted]
  BY DEF Opened, Closed
<1>7. "selmon" \in flags <=> m = State.selmon
  BY StateFields
<1> HIDE DEF flags, w
<1>8. Good(s, gone) /\ Open(s, b)
  BY <1>1, <1>2, <1>4, <1>5, <1>6, <1>7, StateFields, ListOpen
<1>9. PICK t : t = FirstShown(s)
  OBVIOUS
<1> HIDE DEF s, b
<1>10. Good(t, gone) /\ Open(t, b)
  BY <1>8, <1>9, FirstOpen
<1> QED
  BY <1>1, <1>4, <1>9, <1>10, IntoGood

\* Moves in the list, and the end of the highlight.
LEMMA MoveGood ==
  ASSUME IInv, (\E d \in {1, -1} : Cycle(d)) \/ (\E i \in 1 .. Cardinality(Clients) : Hover(i)) \/ Cancel
  PROVE  IInv'
<1>1. Good(State, gone) /\ gone \subseteq Dying /\ State \in States /\ State.sw = sw /\ sw \in Switcher
  BY StateFields DEF IInv, Good, States
<1>2. ASSUME NEW d \in Int, sw.phase = "open", Becomes(altTab(State, d)), UNCHANGED <<gone, before>>
      PROVE  IInv'
  <2>1. Open(State, before)
    BY <1>2 DEF IInv
  <2>2. PICK t : t = altTab(State, d)
    OBVIOUS
  <2>3. Good(t, gone) /\ Open(t, before)
    BY <1>1, <2>1, <2>2, Tabbed
  <2> QED
    BY <1>1, <1>2, <2>2, <2>3, IntoGood
<1>3. ASSUME NEW d \in {1, -1}, Cycle(d) PROVE IInv'
  BY <1>2, <1>3 DEF Cycle
<1>4. ASSUME NEW i \in 1 .. Cardinality(Clients), Hover(i) PROVE IInv'
  <2>1. sw.list \in Seq(Clients) /\ i \in DOMAIN sw.list /\ sw.n \in Nat
    BY <1>1, <1>4 DEF Hover, Switcher
  <2>2. i - 1 - sw.n \in Int
    BY <2>1
  <2> QED
    BY <1>2, <1>4, <2>2 DEF Hover
<1>5. ASSUME Cancel PROVE IInv'
  <2>1. sw.phase = "open" /\ Becomes([highlight(State, None) EXCEPT !.sw.phase = "leaving"])
        /\ UNCHANGED <<gone, before>>
    BY <1>5 DEF Cancel
  <2>2. Open(State, before)
    BY <2>1 DEF IInv
  <2>3. PICK h : h = highlight(State, None)
    OBVIOUS
  <2>4. Good(h, gone) /\ Open(h, before)
    BY <1>1, <2>2, <2>3, Highlit
  <2> DEFINE t == [h EXCEPT !.sw.phase = "leaving"]
  <2>5. Good(t, gone) /\ Open(t, before)
    BY <2>4, PhaseOpen
  <2>6. Becomes(t)
    BY <2>1, <2>3
  <2> HIDE DEF t
  <2>7. gone' = gone /\ before' = before
    BY <2>1
  <2> QED
    BY <1>1, <2>5, <2>6, <2>7, IntoGood
<1> QED
  BY <1>3, <1>4, <1>5

\* The mouse off the menu, and the end of the loop.
LEMMA LoopGood ==
  ASSUME IInv, HoverOff \/ Choose
  PROVE  IInv'
<1>1. Good(State, gone) /\ gone \subseteq Dying /\ State \in States /\ State.sw = sw /\ sw \in Switcher
  BY StateFields DEF IInv, Good, States
<1>2. Open(State, before) /\ gone' = gone /\ before' = before
  BY DEF IInv, HoverOff, Choose
<1>3. CASE HoverOff
  <2> DEFINE t == [State EXCEPT !.sw.active = FALSE]
  <2>1. Good(t, gone) /\ Open(t, before)
    BY <1>1, <1>2, PhaseOpen
  <2>2. Becomes(t)
    BY <1>3 DEF HoverOff, Becomes, State
  <2> HIDE DEF t
  <2> QED
    BY <1>1, <1>2, <2>1, <2>2, IntoGood
<1>4. CASE Choose
  <2> DEFINE t == [State EXCEPT !.sw.phase = "leaving"]
  <2>1. Good(t, gone) /\ Open(t, before)
    BY <1>1, <1>2, PhaseOpen
  <2>2. Becomes(t)
    BY <1>4 DEF Choose, Becomes, State
  <2> HIDE DEF t
  <2> QED
    BY <1>1, <1>2, <2>1, <2>2, IntoGood
<1> QED
  BY <1>3, <1>4

\* Leave comes to its outcome.
LEMMA LeaveOutcome ==
  ASSUME IInv, Leave
  PROVE  IInv' /\ Outcome(State, State', before, Target(State)) /\ Open(State, before)
<1>1. Good(State, gone) /\ gone \subseteq Dying /\ State \in States /\ Whole(State)
  BY DEF IInv, Good
<1>2. sw.phase = "leaving" /\ gone' = gone
  BY DEF Leave
<1>3. Open(State, before)
  BY <1>2 DEF IInv
<1>4. PICK c : c = Target(State)
  OBVIOUS
<1>5. c = None \/ Reaches(State.sw, c)
  BY <1>1, <1>3, <1>4, TargetReached
<1>6. PICK t : t = Left(State, c)
  OBVIOUS
<1>7. Good(t, gone) /\ Outcome(State, t, before, c)
  BY <1>1, <1>3, <1>5, <1>6, LeftOutcome
<1>8. Becomes(Left(State, c))
  <2>1. /\ State.sw = sw /\ State.hidden = hidden /\ State.sw.flags = sw.flags
        /\ State.sw.selm = sw.selm /\ State.sw.mon = sw.mon
    BY StateFields
  <2> QED
    BY <1>4, <2>1 DEF Leave, Left, Bared, Viewed
<1>9. Becomes(t) /\ t \in States
  BY <1>6, <1>7, <1>8 DEF Good
<1>10. State' = t
  BY <1>9, Into
<1>11. t.sw.phase = "closed"
  BY <1>7 DEF Outcome, Closed
<1>12. IInv'
  BY <1>1, <1>2, <1>7, <1>9, <1>11, IntoGood
<1> QED
  BY <1>3, <1>4, <1>7, <1>10, <1>12

\* A window is destroyed, and an X error tells of it.
LEMMA DeathGood ==
  ASSUME IInv, NEW c \in Clients, Destroyed(c) \/ xerror(c)
  PROVE  IInv'
<1>1. Good(State, gone) /\ gone \subseteq Dying /\ State \in States /\ Whole(State)
  BY DEF IInv, Good
<1>2. /\ State.dormant \subseteq State.asked /\ State.asked \subseteq gone /\ gone \subseteq Clients
  BY <1>1 DEF Good
<1>3. CASE Destroyed(c)
  <2>1. State' = State /\ gone' = gone \cup {c} /\ c \in Dying /\ sw' = sw /\ before' = before
    BY <1>3 DEF Destroyed, State
  <2>2. Good(State', gone')
    BY <1>1, <1>2, <2>1 DEF Good
  <2>3. sw'.phase # "closed" => Open(State', before')
    BY <2>1 DEF IInv
  <2> QED
    BY <1>1, <2>1, <2>2, <2>3 DEF IInv
<1>4. CASE xerror(c)
  <2> DEFINE t == [State EXCEPT !.dormant = @ \cup {c}]
  <2>1. c \in asked /\ Becomes(t) /\ gone' = gone /\ before' = before
    BY <1>4 DEF xerror, Becomes, State
  <2>2. /\ t \in States /\ t.dormant = State.dormant \cup {c}
        /\ t.stack = State.stack /\ t.sel = State.sel /\ t.selmon = State.selmon
        /\ t.view = State.view /\ t.hidden = State.hidden /\ t.sw = State.sw
        /\ t.freed = State.freed /\ t.asked = State.asked
    BY <1>1 DEF States
  <2> HIDE DEF t
  <2>3. Good(t, gone)
    BY <1>1, <1>2, <2>1, <2>2, StateFields DEF Good, Whole
  <2>4. t.sw.phase # "closed" => Open(t, before)
    <3> SUFFICES ASSUME t.sw.phase # "closed" PROVE Open(t, before)
      OBVIOUS
    <3>1. Open(State, before)
      BY <2>2, StateFields DEF IInv
    <3> QED
      BY <2>2, <3>1 DEF Open, Held, Mouse
  <2> QED
    BY <1>1, <2>1, <2>3, <2>4, IntoGood
<1> QED
  BY <1>3, <1>4

\* The selection of a monitor passes to the next that can be seen.
LEMMA PassedGood ==
  ASSUME NEW s, NEW g, Good(s, g), NEW m \in Monitors
  PROVE  LET t == [s EXCEPT !.sel[m] = Focusable(s, m)]
         IN  Good(t, g) /\ t.sw = s.sw
<1> DEFINE t == [s EXCEPT !.sel[m] = Focusable(s, m)]
<1>1. /\ s \in States /\ Whole(s) /\ s.stack \in [Monitors -> Seq(Clients)]
      /\ s.sel \in [Monitors -> Clients \cup {None}] /\ IsInjective(s.stack[m])
      /\ ToSet(s.stack[m]) \subseteq On(m)
  BY DEF Good, States, Whole
<1>2. PICK f : f = Focusable(s, m) /\ f \in ToSet(s.stack[m]) \cup {None}
  BY <1>1, FocusableListed
<1>3. f \in Clients \cup {None}
  BY <1>1, <1>2 DEF On
<1>4. /\ t \in States /\ t.sel = [s.sel EXCEPT ![m] = f]
      /\ t.stack = s.stack /\ t.selmon = s.selmon /\ t.view = s.view /\ t.hidden = s.hidden
      /\ t.sw = s.sw /\ t.dormant = s.dormant /\ t.freed = s.freed /\ t.asked = s.asked
  BY <1>1, <1>2, <1>3 DEF States
<1> HIDE DEF t
<1>5. \A k \in Monitors : t.sel[k] = IF k = m THEN f ELSE s.sel[k]
  BY <1>1, <1>4
<1>6. t.sel \in [Monitors -> Clients \cup {None}]
  BY <1>4 DEF States
<1>7. Whole(t)
  BY <1>1, <1>2, <1>4, <1>5, <1>6 DEF Whole
<1> QED
  BY <1>4, <1>7 DEF Good, t

\* What the main loop does while the switcher is closed.
LEMMA QuietGood ==
  ASSUME IInv, \/ \E c \in Clients : Click(c)
               \/ \E m \in Monitors : SelectMonitor(m)
               \/ \E t \in Tags : View(t)
               \/ Hide
  PROVE  IInv'
<1>1. Good(State, gone) /\ gone \subseteq Dying /\ State \in States /\ Whole(State)
  BY DEF IInv, Good
<1>2. State.sw.phase = "closed" /\ gone' = gone
  BY StateFields DEF Quiet, Click, SelectMonitor, View, Hide
<1>3. ASSUME NEW s, Good(s, gone), s.sw = State.sw, Becomes(s) PROVE IInv'
  BY <1>1, <1>2, <1>3, IntoGood
<1>4. ASSUME NEW c \in Clients, Click(c) PROVE IInv'
  <2>1. Becomes(focus(State, c))
    BY <1>4 DEF Click
  <2> QED
    BY <1>1, <1>3, <2>1, FocusGood
<1>5. ASSUME NEW m \in Monitors, SelectMonitor(m) PROVE IInv'
  <2> DEFINE s == [State EXCEPT !.selmon = m]
  <2>1. Becomes(s)
    BY <1>5 DEF SelectMonitor, Becomes, State
  <2>2. /\ s \in States
        /\ s.stack = State.stack /\ s.sel = State.sel /\ s.view = State.view
        /\ s.hidden = State.hidden /\ s.sw = State.sw /\ s.dormant = State.dormant
        /\ s.freed = State.freed /\ s.asked = State.asked
    BY <1>1 DEF States
  <2> HIDE DEF s
  <2>3. Good(s, gone)
    BY <1>1, <2>2 DEF Good, Whole
  <2> QED
    BY <1>3, <2>1, <2>2, <2>3
<1>6. ASSUME NEW x \in Tags, View(x) PROVE IInv'
  <2> DEFINE m == selmon
             s == [State EXCEPT !.view[m] = [cur |-> {x}, alt |-> @.cur]]
  <2>1. Becomes([s EXCEPT !.sel[m] = Focusable(s, m)])
    BY <1>6 DEF View
  <2>2. m \in Monitors /\ State.view \in [Monitors -> [cur : Masks, alt : Masks]]
    BY <1>1, StateFields DEF States
  <2>3. {x} \in Masks
    BY DEF Masks
  <2> DEFINE v == [State.view EXCEPT ![m] = [cur |-> {x}, alt |-> State.view[m].cur]]
  <2>4. v \in [Monitors -> [cur : Masks, alt : Masks]]
    BY <2>2, <2>3
  <2>5. s = [State EXCEPT !.view = v]
    BY <1>1, <2>2 DEF States
  <2> HIDE DEF s, v, m
  <2>6. /\ s \in States
        /\ s.stack = State.stack /\ s.sel = State.sel /\ s.selmon = State.selmon
        /\ s.hidden = State.hidden /\ s.sw = State.sw /\ s.dormant = State.dormant
        /\ s.freed = State.freed /\ s.asked = State.asked
    BY <1>1, <2>4, <2>5 DEF States
  <2>7. Good(s, gone)
    BY <1>1, <2>6 DEF Good, Whole
  <2>8. PICK t : t = [s EXCEPT !.sel[m] = Focusable(s, m)]
    OBVIOUS
  <2>9. Good(t, gone) /\ t.sw = s.sw
    BY <2>2, <2>7, <2>8, PassedGood
  <2> QED
    BY <1>3, <2>1, <2>6, <2>8, <2>9
<1>7. ASSUME Hide PROVE IInv'
  <2> DEFINE m == selmon
             s == [State EXCEPT !.hidden = @ \cup {sel[m]}]
  <2>1. sel[m] # None /\ Becomes([s EXCEPT !.sel[m] = Focusable(s, m)])
    BY <1>7 DEF Hide
  <2>2. m \in Monitors /\ sel[m] \in Clients
    BY <1>1, <2>1, StateFields DEF States
  <2>3. /\ s \in States
        /\ s.stack = State.stack /\ s.sel = State.sel /\ s.selmon = State.selmon
        /\ s.view = State.view /\ s.sw = State.sw /\ s.dormant = State.dormant
        /\ s.freed = State.freed /\ s.asked = State.asked
    BY <1>1, <2>2 DEF States
  <2> HIDE DEF s, m
  <2>4. Good(s, gone)
    BY <1>1, <2>3 DEF Good, Whole
  <2>5. PICK t : t = [s EXCEPT !.sel[m] = Focusable(s, m)]
    OBVIOUS
  <2>6. Good(t, gone) /\ t.sw = s.sw
    BY <2>2, <2>4, <2>5, PassedGood
  <2> QED
    BY <1>3, <2>1, <2>3, <2>5, <2>6
<1> QED
  BY <1>4, <1>5, <1>6, <1>7

\* Every step keeps the invariant.
LEMMA StepGood ==
  IInv /\ [Next]_vars => IInv'
<1> SUFFICES ASSUME IInv, [Next]_vars PROVE IInv'
  OBVIOUS
<1>1. CASE \E m \in Monitors, mode \in Modes : altTabStart(m, mode)
  BY <1>1, StartGood
<1>2. CASE (\E d \in {1, -1} : Cycle(d)) \/ (\E i \in 1 .. Cardinality(Clients) : Hover(i)) \/ Cancel
  BY <1>2, MoveGood
<1>3. CASE HoverOff \/ Choose
  BY <1>3, LoopGood
<1>4. CASE Leave
  BY <1>4, LeaveOutcome
<1>5. CASE \E c \in Clients : Destroyed(c) \/ xerror(c)
  BY <1>5, DeathGood
<1>6. CASE \/ \E c \in Clients : Click(c)
           \/ \E m \in Monitors : SelectMonitor(m)
           \/ \E t \in Tags : View(t)
           \/ Hide
  BY <1>6, QuietGood
<1>7. CASE UNCHANGED vars
  <2>1. State' = State /\ gone' = gone /\ sw' = sw /\ before' = before
    BY <1>7 DEF vars, State
  <2>2. Good(State', gone')
    BY <2>1 DEF IInv
  <2>3. sw'.phase # "closed" => Open(State', before')
    BY <2>1 DEF IInv
  <2> QED
    BY <2>1, <2>2, <2>3 DEF IInv
<1> QED
  BY <1>1, <1>2, <1>3, <1>4, <1>5, <1>6, <1>7 DEF Next

\* The inductive invariant: stacks and selections agree, and while the switcher
\* is open its list fits and every change of a view is noted (altTabStart).
THEOREM SwitcherInductive ==
  Spec => []IInv
<1>1. Init => IInv
  BY InitGood
<1>2. IInv /\ [Next]_vars => IInv'
  BY StepGood
<1> QED
  BY <1>1, <1>2, PTL DEF Spec

\* The list never outgrows the memory counted for it, holds no client twice
\* and is never read past its end (altTabStart, altTab).
THEOREM ListKept ==
  Spec => []ListSound
<1>1. IInv => ListSound
  <2> SUFFICES ASSUME IInv PROVE ListSound
    OBVIOUS
  <2>1. /\ State \in States /\ Whole(State) /\ gone \subseteq Dying
        /\ State.dormant \subseteq State.asked /\ State.asked \subseteq gone
    BY DEF IInv, Good
  <2>2. TypeOK
    BY <2>1, StateFields DEF TypeOK, States, Whole, Masks
  <2>3. ListFits
    <3> SUFFICES ASSUME sw.phase # "closed" PROVE Listing(sw)
      BY DEF ListFits, Listing
    <3> QED
      BY StateFields DEF IInv, Open
  <2> QED
    BY <2>2, <2>3 DEF ListSound
<1> QED
  BY <1>1, SwitcherInductive, PTL

\* Only Leave closes the switcher.
LEMMA LeavesLeave ==
  ASSUME [Next]_vars, Leaves
  PROVE  Leave
<1>1. sw.phase = "leaving" /\ sw'.phase = "closed" /\ sw' # sw
  BY DEF Leaves
<1>2. ~UNCHANGED vars
  BY <1>1 DEF vars
<1>3. ASSUME NEW c \in Clients PROVE ~Destroyed(c) /\ ~xerror(c) /\ ~Click(c)
  BY <1>1 DEF Destroyed, xerror, Click, Quiet
<1>4. ASSUME NEW m \in Monitors, NEW mode \in Modes PROVE ~altTabStart(m, mode) /\ ~SelectMonitor(m)
  BY <1>1 DEF altTabStart, SelectMonitor, Quiet
<1>5. ASSUME NEW t \in Tags PROVE ~View(t)
  BY <1>1 DEF View, Quiet
<1>6. ~Hide /\ ~HoverOff /\ ~Choose /\ ~Cancel
  BY <1>1 DEF Hide, Quiet, HoverOff, Choose, Cancel
<1>7. ASSUME NEW d, Cycle(d) \/ Hover(d) PROVE FALSE
  BY <1>1, <1>7 DEF Cycle, Hover
<1>8. ASSUME NEW m \in Monitors PROVE ~SelectMonitor(m)
  BY <1>1 DEF SelectMonitor, Quiet
<1> QED
  BY <1>2, <1>3, <1>4, <1>5, <1>6, <1>7, <1>8 DEF Next

\* What Leave comes to, in the variables.
LEMMA LeavesOutcome ==
  ASSUME IInv, [Next]_vars, Leaves, NEW c, c = Target(State)
  PROVE  /\ freed \subseteq freed' /\ before \in Memory
         /\ \A m \in Monitors :
               /\ Restored(view', before, m, c)
               /\ IF c # None /\ MonOf[c] = m THEN sel'[m] = c \/ c \in freed'
                  ELSE sel'[m] = before.sel[m] \/ before.sel[m] \in freed'
               /\ sel[m] = before.sel[m] \/ before.sel[m] \in freed
               /\ before.sel[m] \in On(m) \cup {None}
         /\ c # None => c \in Clients /\ MonOf[c] \in Monitors /\ c \notin hidden'
         /\ selmon' = IF c # None /\ sw.mon = before.selmon THEN MonOf[c] ELSE before.selmon
         /\ sw.mon \in Monitors /\ view' \in [Monitors -> [cur : Masks, alt : Masks]]
<1>1. Leave
  BY LeavesLeave
<1>2. IInv' /\ Outcome(State, State', before, c) /\ Open(State, before)
  BY <1>1, LeaveOutcome
<1>3. /\ State'.view = view' /\ State'.sel = sel' /\ State'.selmon = selmon'
      /\ State'.hidden = hidden' /\ State'.freed = freed'
  BY DEF State
<1>4. Held(State, before) /\ before \in Memory
  BY <1>2 DEF Open
<1>5. State \in States /\ Whole(State)
  BY DEF IInv, Good
<1>6. c = None \/ Reaches(State.sw, c)
  BY <1>2, <1>5, TargetReached
<1>7. c # None => c \in Clients /\ MonOf[c] \in Monitors
  BY <1>6, Facts DEF Reaches
<1>8. view' \in [Monitors -> [cur : Masks, alt : Masks]]
  <2>1. State' \in States
    BY <1>2 DEF IInv, Good
  <2> QED
    BY <1>3, <2>1 DEF States
<1> QED
  BY <1>2, <1>3, <1>4, <1>7, <1>8, StateFields DEF Outcome, Held

\* Every view the switcher has changed is put back when it closes, slots and
\* all, but that of the chosen client's monitor, which shows it (altTabStart,
\* viewmontag).
THEOREM PreviewsArePutBack ==
  Spec => PreviewsPutBack
<1> DEFINE Back == Leaves =>
       \A m \in Monitors :
           LET c == Target(State) IN
           IF c = None \/ MonOf[c] # m \/ TagsOf[c] \cap before.view[m].cur # {}
           THEN view'[m] = before.view[m]
           ELSE view'[m].cur = TagsOf[c]
<1>1. IInv /\ [Next]_vars => [Back]_vars
  <2> SUFFICES ASSUME IInv, [Next]_vars, Leaves, NEW m \in Monitors
               PROVE  Restored(view', before, m, Target(State))
    BY DEF Restored
  <2> QED
    BY LeavesOutcome
<1> QED
  BY <1>1, SwitcherInductive, PTL DEF Spec, PreviewsPutBack

\* A chosen client is selected, seen and not hidden, and nothing else is; a
\* switcher that is left without a choice leaves all as it was (altTabStart;
\* config.def.h:22).
THEOREM WindowsLeftAsAsked ==
  Spec => LeftAsAsked
<1> DEFINE Chosen == Leaves /\ sw.highlight \notin freed' \cup {None} =>
       LET c == sw.highlight IN
       /\ SelectionsBut(c) /\ sel'[MonOf[c]] = c
       /\ c \notin hidden' /\ TagsOf[c] \cap view'[MonOf[c]].cur # {}
       /\ selmon' = IF sw.mon = before.selmon THEN MonOf[c] ELSE before.selmon
           Cancelled == Leaves /\ sw.highlight = None /\ OriginSeen =>
       view' = before.view /\ SelectionsBut(None) /\ selmon' = before.selmon
<1>1. IInv /\ [Next]_vars => Chosen
  <2> SUFFICES ASSUME IInv, [Next]_vars, Leaves, sw.highlight \notin freed' \cup {None}
               PROVE  LET c == sw.highlight IN
                      /\ SelectionsBut(c) /\ sel'[MonOf[c]] = c
                      /\ c \notin hidden' /\ TagsOf[c] \cap view'[MonOf[c]].cur # {}
                      /\ selmon' = IF sw.mon = before.selmon THEN MonOf[c] ELSE before.selmon
    OBVIOUS
  <2>1. PICK c : c = sw.highlight
    OBVIOUS
  <2>2. c = Target(State) /\ c # None /\ c \notin freed'
    BY <2>1, StateFields DEF Target
  <2>3. /\ freed \subseteq freed' /\ before \in Memory
        /\ \A m \in Monitors :
               /\ Restored(view', before, m, c)
               /\ IF c # None /\ MonOf[c] = m THEN sel'[m] = c \/ c \in freed'
                  ELSE sel'[m] = before.sel[m] \/ before.sel[m] \in freed'
               /\ sel[m] = before.sel[m] \/ before.sel[m] \in freed
               /\ before.sel[m] \in On(m) \cup {None}
        /\ c # None => c \in Clients /\ MonOf[c] \in Monitors /\ c \notin hidden'
        /\ selmon' = IF c # None /\ sw.mon = before.selmon THEN MonOf[c] ELSE before.selmon
    BY <2>2, LeavesOutcome
  <2>4. c \in Clients /\ MonOf[c] \in Monitors /\ TagsOf[c] # {}
    BY <2>2, <2>3, Facts
  <2>5. SelectionsBut(c)
    BY <2>2, <2>3 DEF SelectionsBut
  <2>6. sel'[MonOf[c]] = c
    BY <2>2, <2>3, <2>4
  <2>7. TagsOf[c] \cap view'[MonOf[c]].cur # {}
    <3>1. PICK m \in Monitors : m = MonOf[c]
      BY <2>4
    <3>2. Restored(view', before, m, c)
      BY <2>3
    <3> QED
      BY <2>2, <2>4, <3>1, <3>2 DEF Restored
  <2> QED
    BY <2>1, <2>2, <2>3, <2>5, <2>6, <2>7
<1>2. IInv /\ [Next]_vars => Cancelled
  <2> SUFFICES ASSUME IInv, [Next]_vars, Leaves, sw.highlight = None, OriginSeen
               PROVE  view' = before.view /\ SelectionsBut(None) /\ selmon' = before.selmon
    OBVIOUS
  <2>1. PICK c : c = Target(State)
    OBVIOUS
  <2>2. /\ freed \subseteq freed' /\ before \in Memory
        /\ \A m \in Monitors :
               /\ Restored(view', before, m, c)
               /\ IF c # None /\ MonOf[c] = m THEN sel'[m] = c \/ c \in freed'
                  ELSE sel'[m] = before.sel[m] \/ before.sel[m] \in freed'
               /\ sel[m] = before.sel[m] \/ before.sel[m] \in freed
               /\ before.sel[m] \in On(m) \cup {None}
        /\ selmon' = IF c # None /\ sw.mon = before.selmon THEN MonOf[c] ELSE before.selmon
        /\ sw.mon \in Monitors /\ view' \in [Monitors -> [cur : Masks, alt : Masks]]
    BY <2>1, LeavesOutcome
  <2>3. c = sel[sw.mon]
    BY <2>1, StateFields DEF Target
  <2>4. freed \subseteq Clients
    BY StateFields DEF IInv, Good, States
  <2>5. c = before.sel[sw.mon]
    <3>1. CASE before.sel[sw.mon] = None
      BY <2>2, <2>3, <2>4, <3>1, Facts
    <3>2. CASE before.sel[sw.mon] # None
      BY <2>2, <2>3, <3>2 DEF OriginSeen
    <3> QED
      BY <3>1, <3>2
  <2>6. c # None => /\ MonOf[c] = sw.mon /\ c \notin freed'
                    /\ TagsOf[c] \cap before.view[sw.mon].cur # {}
    BY <2>2, <2>5 DEF OriginSeen, On
  <2>7. \A m \in Monitors : view'[m] = before.view[m]
    BY <2>2, <2>6 DEF Restored
  <2>8. view' = before.view
    BY <2>2, <2>7 DEF Memory
  <2>9. SelectionsBut(None)
    <3> SUFFICES ASSUME NEW m \in Monitors
                 PROVE  sel'[m] = before.sel[m] \/ before.sel[m] \in freed'
      BY DEF SelectionsBut
    <3>1. CASE c # None /\ MonOf[c] = m
      BY <2>2, <2>5, <2>6, <3>1
    <3>2. CASE ~(c # None /\ MonOf[c] = m)
      BY <2>2, <3>2
    <3> QED
      BY <3>1, <3>2
  <2>10. selmon' = before.selmon
    BY <2>2, <2>6
  <2> QED
    BY <2>8, <2>9, <2>10
<1>3. IInv /\ [Next]_vars => [Chosen]_vars /\ [Cancelled]_vars
  BY <1>1, <1>2
<1> QED
  BY <1>3, SwitcherInductive, PTL DEF Spec, LeftAsAsked, ChosenSelected, CancelReturns

=============================================================================
