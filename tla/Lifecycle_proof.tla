-------------------------- MODULE Lifecycle_proof --------------------------
(***************************************************************************)
(* Whatever windows do, and whenever dwm learns of it, its clients and     *)
(* their links stay whole, a terminal that was unmapped for its program is *)
(* remembered, and what is on the screen is managed.                       *)
(***************************************************************************)
EXTENDS Lifecycle, Orders_proof, FiniteSetTheorems

Wm == [cl : [Ids -> Cell \cup {Free}], order : Seq(Ids), stack : SUBSET Ids, sel : Ids \cup {None}]

-----------------------------------------------------------------------------
(* A sound record of clients.                                              *)

\* The window swallow() unmapped for client c, and all that c stands for.
HiddenOf(W, c) == IF W.cl[c].swallowing = None THEN {} ELSE {W.cl[W.cl[c].swallowing].win}
Held(W, c) == {W.cl[c].win} \cup HiddenOf(W, c)

Listed(W) ==
    IsInjective(W.order) /\ W.stack = Managed(W) /\ W.sel \in Managed(W) \cup {None}
Linked(W) ==
    \A c \in Managed(W) :
        /\ W.cl[c] \in Cell
        /\ W.cl[c].parent \in Managed(W) \cup {None} /\ W.cl[c].prevsel \in Managed(W) \cup {None}
        /\ W.cl[c].ult \in Managed(W) /\ W.cl[W.cl[c].ult].ult = W.cl[c].ult
Older(W) ==
    \A c \in Managed(W) : W.cl[c].parent # None => Precedes(W.order, W.cl[c].parent, c)

\* The cell a client keeps is on no list and keeps none itself.
Swallowing(W) ==
    \A c \in Managed(W) : W.cl[c].swallowing # None =>
        /\ W.cl[c].swallowing \in Ids \ Managed(W)
        /\ W.cl[W.cl[c].swallowing] \in Cell
        /\ W.cl[W.cl[c].swallowing].swallowing = None
Apart(W) ==
    \A c \in Managed(W) :
        /\ W.cl[c].win \notin HiddenOf(W, c)
        /\ \A d \in Managed(W) : c # d => Held(W, c) \cap Held(W, d) = {}

Good(W) == W \in Wm /\ Listed(W) /\ Linked(W) /\ Older(W) /\ Swallowing(W) /\ Apart(W)

\* Of the clients of W those of K are left, with the windows they had.
SameCell(a, b) ==
    a.win = b.win /\ a.own = b.own /\ a.swallowing = b.swallowing /\ a.dormant = b.dormant
Keeps(X, W, K) ==
    /\ Managed(X) = K /\ K \subseteq Managed(W)
    /\ \A c \in K : SameCell(X.cl[c], W.cl[c])
    /\ \A i \in Ids \ Managed(W) : X.cl[i] = W.cl[i]

\* No other client has a link to client i, which is the youngest.
Loose(W, i) ==
    \A d \in Managed(W) \ {i} :
        /\ W.cl[d].parent # i /\ W.cl[d].prevsel # i /\ W.cl[d].ult # i
        /\ Precedes(W.order, d, i)

\* None is no client and no window.
LEMMA NonePlain == None \notin Wins /\ None \notin Ids
BY WindowsAssumption

\* The fields of a cell.
LEMMA CellFields ==
  ASSUME NEW q \in Cell
  PROVE  /\ q.win \in Wins /\ q.own \in Wins /\ q.swallowing \in Ids \cup {None}
         /\ q.parent \in Ids \cup {None} /\ q.ult \in Ids /\ q.prevsel \in Ids \cup {None}
         /\ q.dormant \in BOOLEAN /\ q # Free
BY NonePlain DEF Cell, Free

\* The fields of a record, and that clients are cells.
LEMMA WmFields ==
  ASSUME NEW W \in Wm
  PROVE  /\ W.cl \in [Ids -> Cell \cup {Free}] /\ W.order \in Seq(Ids)
         /\ W.stack \subseteq Ids /\ W.sel \in Ids \cup {None} /\ Managed(W) \subseteq Ids
<1>1. W.order \in Seq(Ids)
  BY DEF Wm
<1>2. \A i \in DOMAIN W.order : W.order[i] \in Ids
  BY <1>1, LenProperties, ElementOfSeq
<1> QED
  BY <1>2 DEF Wm, Managed, ToSet

\* Windows are held alike where cells are the same.
LEMMA KeepsHeld ==
  ASSUME NEW W, NEW X, NEW K, Keeps(X, W, K), Swallowing(W), NEW c \in K
  PROVE  HiddenOf(X, c) = HiddenOf(W, c) /\ Held(X, c) = Held(W, c) /\ X.cl[c].win = W.cl[c].win
<1>1. SameCell(X.cl[c], W.cl[c]) /\ c \in Managed(W)
  BY DEF Keeps
<1>2. W.cl[c].swallowing # None => X.cl[W.cl[c].swallowing] = W.cl[W.cl[c].swallowing]
  BY <1>1 DEF Keeps, Swallowing
<1> QED
  BY <1>1, <1>2 DEF SameCell, HiddenOf, Held

\* What is left of what is left.
LEMMA KeepsAgain ==
  ASSUME NEW W, NEW X, NEW Y, NEW K, NEW L, Keeps(X, W, K), Keeps(Y, X, L)
  PROVE  Keeps(Y, W, L)
BY DEF Keeps, SameCell

\* All are left at first.
LEMMA KeepsAll ==
  ASSUME NEW W
  PROVE  Keeps(W, W, Managed(W))
BY DEF Keeps, SameCell

\* The clients that are left keep a sound state of windows.
LEMMA KeepsWindows ==
  ASSUME NEW W, NEW X, NEW K, Keeps(X, W, K), Swallowing(W), Apart(W)
  PROVE  Swallowing(X) /\ Apart(X)
<1>1. Managed(X) = K /\ K \subseteq Managed(W)
  BY DEF Keeps
<1>2. Swallowing(X)
  <2> SUFFICES ASSUME NEW c \in K, X.cl[c].swallowing # None
               PROVE  /\ X.cl[c].swallowing \in Ids \ Managed(X)
                      /\ X.cl[X.cl[c].swallowing] \in Cell
                      /\ X.cl[X.cl[c].swallowing].swallowing = None
    BY <1>1 DEF Swallowing
  <2>1. X.cl[c].swallowing = W.cl[c].swallowing
    BY DEF Keeps, SameCell
  <2>2. /\ W.cl[c].swallowing \in Ids \ Managed(W) /\ W.cl[W.cl[c].swallowing] \in Cell
        /\ W.cl[W.cl[c].swallowing].swallowing = None
    BY <1>1, <2>1 DEF Swallowing
  <2>3. X.cl[W.cl[c].swallowing] = W.cl[W.cl[c].swallowing]
    BY <2>2 DEF Keeps
  <2> QED
    BY <1>1, <2>1, <2>2, <2>3
<1>3. \A c \in K : HiddenOf(X, c) = HiddenOf(W, c) /\ Held(X, c) = Held(W, c) /\ X.cl[c].win = W.cl[c].win
  BY KeepsHeld
<1> QED
  BY <1>1, <1>2, <1>3 DEF Apart

-----------------------------------------------------------------------------
(* Clients that go.                                                        *)

\* The list of clients, without one of them.
LEMMA ListWithout ==
  ASSUME NEW W \in Wm, Listed(W), NEW c \in Managed(W)
  PROVE  LET q == Only(W.order, Ids \ {c})
         IN  /\ q \in Seq(Ids) /\ IsInjective(q) /\ ToSet(q) = Managed(W) \ {c}
             /\ \A a, b : Precedes(q, a, b) <=> Precedes(W.order, a, b) /\ a # c /\ b # c
<1> DEFINE q == Only(W.order, Ids \ {c})
<1>1. W.order \in Seq(Ids) /\ IsInjective(W.order) /\ Managed(W) \subseteq Ids
  BY WmFields DEF Listed
<1>2. PICK S : S = Ids \ {c}
  OBVIOUS
<1>3. /\ Only(W.order, S) \in Seq(Ids) /\ ToSet(Only(W.order, S)) = ToSet(W.order) \cap S
      /\ IsInjective(Only(W.order, S))
  BY <1>1, OnlyElements
<1>4. \A a, b : Precedes(Only(W.order, S), a, b) <=> Precedes(W.order, a, b) /\ a \in S /\ b \in S
  BY <1>1, OnlyPrecedes
<1>5. \A a, b : Precedes(W.order, a, b) => a \in ToSet(W.order) /\ b \in ToSet(W.order)
  BY <1>1, PrecedesOrder
<1> QED
  BY <1>1, <1>2, <1>3, <1>4, <1>5 DEF Managed

\* What removelinks makes of the cell of another client: h inherits.
Unlinked(W, c, h, q) ==
    [q EXCEPT !.prevsel = IF @ = c THEN None ELSE @,
              !.parent = IF @ = c THEN W.cl[c].parent ELSE @,
              !.ult = IF @ = c THEN h ELSE @]

\* h is the oldest of the clients whose ultimate parent is c.
Inherits(W, c, h) ==
    \A d \in Managed(W) \ {c} : W.cl[d].ult = c =>
        h \in Managed(W) \ {c} /\ W.cl[h].ult = c /\ (d = h \/ Precedes(W.order, h, d))

\* It stays the cell of a client, with its windows.
LEMMA UnlinkedCell ==
  ASSUME NEW W \in Wm, Linked(W), NEW c \in Managed(W), NEW h, Inherits(W, c, h),
         NEW d \in Managed(W) \ {c}
  PROVE  LET q == Unlinked(W, c, h, W.cl[d])
         IN  /\ W.cl[d] \in Cell /\ q \in Cell /\ SameCell(q, W.cl[d])
             /\ q.prevsel = IF W.cl[d].prevsel = c THEN None ELSE W.cl[d].prevsel
             /\ q.parent = IF W.cl[d].parent = c THEN W.cl[c].parent ELSE W.cl[d].parent
             /\ q.ult = IF W.cl[d].ult = c THEN h ELSE W.cl[d].ult
<1>1. W.cl[d] \in Cell /\ W.cl[c] \in Cell /\ Managed(W) \subseteq Ids
  BY WmFields DEF Linked
<1>2. W.cl[d].ult = c => h \in Ids
  BY <1>1 DEF Inherits
<1>3. W.cl[c].parent \in Ids \cup {None}
  BY <1>1 DEF Cell
<1> QED
  BY <1>1, <1>2, <1>3 DEF Cell, Unlinked, SameCell

\* detach, removelinks and free: what they leave.
LEMMA GoneMeans ==
  ASSUME NEW W \in Wm, Listed(W), Linked(W), NEW c \in Managed(W), NEW X \in Gone(W, c)
  PROVE  /\ X \in Wm /\ Listed(X) /\ Managed(X) = Managed(W) \ {c}
         /\ \A a, b : Precedes(X.order, a, b) <=> Precedes(W.order, a, b) /\ a # c /\ b # c
         /\ \A i \in Ids \ Managed(W) : X.cl[i] = W.cl[i]
         /\ \E h : /\ Inherits(W, c, h)
                   /\ \A d \in Managed(X) : X.cl[d] = Unlinked(W, c, h, W.cl[d])
<1> DEFINE q == Only(W.order, Ids \ {c})
           R == Detached(W, c)
           T == {d \in Managed(R) : R.cl[d].ult = c}
           h == Head(Only(R.order, T))
           V == removelinks(R, c)
           F == [d \in Ids |-> IF d \notin Managed(R) THEN W.cl[d] ELSE Unlinked(W, c, h, W.cl[d])]
<1>1. /\ q \in Seq(Ids) /\ IsInjective(q) /\ ToSet(q) = Managed(W) \ {c}
      /\ \A a, b : Precedes(q, a, b) <=> Precedes(W.order, a, b) /\ a # c /\ b # c
  BY ListWithout
<1>2. /\ W.cl \in [Ids -> Cell \cup {Free}] /\ c \in Ids /\ Managed(W) \subseteq Ids
      /\ W.stack = Managed(W) /\ W.sel \in Managed(W) \cup {None}
  BY WmFields DEF Listed
<1>3. R.order = q /\ R.cl = W.cl /\ R.stack = W.stack \ {c} /\ R.sel = W.sel
  BY DEF Detached, Wm
<1>4. R \in Wm
  <2> HIDE DEF q
  <2>1. PICK x \in Seq(Ids), y \in SUBSET Ids : x = q /\ y = W.stack \ {c}
    BY <1>1, <1>2
  <2>2. R = [W EXCEPT !.order = x, !.stack = y]
    BY <2>1 DEF Detached, q
  <2>3. [W EXCEPT !.order = x, !.stack = y] \in Wm
    BY DEF Wm
  <2> QED
    BY <2>2, <2>3
<1> HIDE DEF R
<1>5. Managed(R) = Managed(W) \ {c}
  BY <1>1, <1>3 DEF Managed
<1>6. Inherits(W, c, h)
  <2>1. T \subseteq ToSet(q) /\ \A d : d \in T <=> d \in Managed(W) \ {c} /\ W.cl[d].ult = c
    BY <1>1, <1>3, <1>5
  <2>2. PICK r : r = Only(q, T) /\ h = Head(r)
    BY <1>3
  <2> HIDE DEF T, h, q
  <2>3. r \in Seq(Ids) /\ ToSet(r) = T /\ IsInjective(r)
    <3>1. /\ Only(q, T) \in Seq(Ids) /\ ToSet(Only(q, T)) = ToSet(q) \cap T
          /\ IsInjective(Only(q, T))
      BY <1>1, OnlyElements
    <3> QED
      BY <2>1, <2>2, <3>1
  <2>4. \A a, b : Precedes(r, a, b) <=> Precedes(q, a, b) /\ a \in T /\ b \in T
    BY <1>1, <2>2, OnlyPrecedes
  <2>5. r # <<>> => Head(r) \in ToSet(r) /\ \A a \in ToSet(r) : a = Head(r) \/ Precedes(r, Head(r), a)
    BY ONLY <2>3, PrecedesOrder
  <2>6. \A d : d \in ToSet(r) => r # <<>>
    BY DEF ToSet
  <2> SUFFICES ASSUME NEW d \in Managed(W) \ {c}, W.cl[d].ult = c
               PROVE  h \in Managed(W) \ {c} /\ W.cl[h].ult = c /\ (d = h \/ Precedes(W.order, h, d))
    BY DEF Inherits
  <2>8. d \in T
    BY <2>1
  <2>9. h \in T /\ (d = h \/ Precedes(r, h, d))
    BY <2>2, <2>3, <2>5, <2>6, <2>8
  <2> QED
    BY <1>1, <2>1, <2>4, <2>9
<1>7. V = [R EXCEPT !.cl = F]
  BY <1>3 DEF removelinks, Unlinked
<1>8. PICK s \in IF W.sel # c \/ V.stack = {} THEN {None} ELSE V.stack :
         X = [Freed(V, c) EXCEPT !.sel = IF @ = c THEN s ELSE @]
  <2>1. Gone(W, c) = {[Freed(V, c) EXCEPT !.sel = IF @ = c THEN s ELSE @] :
                        s \in IF W.sel # c \/ V.stack = {} THEN {None} ELSE V.stack}
    BY DEF Gone, R
  <2> HIDE DEF V
  <2> QED
    BY <2>1
<1> HIDE DEF h, V, T
<1>9. F \in [Ids -> Cell \cup {Free}] /\ \A d \in Managed(R) : F[d] \in Cell
  BY <1>2, <1>5, <1>6, UnlinkedCell
<1>10. F[c] = W.cl[c] /\ \A i \in Ids \ Managed(W) : F[i] = W.cl[i]
  BY <1>2, <1>5
<1>11. \A d \in Managed(R) : F[d] = Unlinked(W, c, h, W.cl[d])
  BY <1>2, <1>5
<1> HIDE DEF F, q
<1>12. V \in Wm /\ V.cl = F /\ V.order = q /\ V.stack = W.stack \ {c} /\ V.sel = W.sel
  BY <1>3, <1>4, <1>7, <1>9 DEF Wm
<1>13. Freed(V, c) \in Wm /\ Freed(V, c).cl = [F EXCEPT ![c] = Free] /\ Freed(V, c).order = q
       /\ Freed(V, c).stack = W.stack \ {c} /\ Freed(V, c).sel = W.sel
  BY <1>2, <1>12 DEF Freed, Wm
<1> DEFINE to == IF W.sel = c THEN s ELSE W.sel
<1>14. to \in (W.stack \ {c}) \cup {None} /\ to \in Ids \cup {None}
  BY <1>2, <1>8, <1>12
<1>15. X = [Freed(V, c) EXCEPT !.sel = to]
  BY <1>8, <1>13
<1> HIDE DEF to
<1>16. X \in Wm /\ X.cl = [F EXCEPT ![c] = Free] /\ X.order = q /\ X.stack = W.stack \ {c} /\ X.sel = to
  BY <1>13, <1>14, <1>15 DEF Wm
<1>17. Managed(X) = Managed(W) \ {c} /\ Listed(X)
  BY <1>1, <1>2, <1>14, <1>16 DEF Managed, Listed
<1>18. /\ \A i \in Ids \ Managed(W) : X.cl[i] = W.cl[i]
       /\ \A d \in Managed(X) : X.cl[d] = Unlinked(W, c, h, W.cl[d])
  BY <1>2, <1>5, <1>9, <1>10, <1>11, <1>16, <1>17
<1> QED
  BY <1>1, <1>6, <1>16, <1>17, <1>18

\* A client that goes takes its links with it, and no window of another one.
LEMMA GoneGood ==
  ASSUME NEW W, Good(W), NEW c \in Managed(W), NEW X \in Gone(W, c)
  PROVE  /\ Good(X) /\ Keeps(X, W, Managed(W) \ {c})
         /\ \A i \in Managed(W) \ {c} : Loose(W, i) => Loose(X, i)
<1>1. W \in Wm /\ Listed(W) /\ Linked(W) /\ Older(W) /\ Swallowing(W) /\ Apart(W)
  BY DEF Good
<1> DEFINE K == Managed(W) \ {c}
<1>2. /\ X \in Wm /\ Listed(X) /\ Managed(X) = K
      /\ \A a, b : Precedes(X.order, a, b) <=> Precedes(W.order, a, b) /\ a # c /\ b # c
      /\ \A i \in Ids \ Managed(W) : X.cl[i] = W.cl[i]
  BY <1>1, GoneMeans
<1>3. PICK h : Inherits(W, c, h) /\ \A d \in K : X.cl[d] = Unlinked(W, c, h, W.cl[d])
  BY <1>1, <1>2, GoneMeans
<1>4. /\ W.order \in Seq(Ids) /\ IsInjective(W.order) /\ K \subseteq Managed(W) /\ Managed(W) \subseteq Ids
      /\ W.cl \in [Ids -> Cell \cup {Free}] /\ None \notin Managed(W)
  BY <1>1, WmFields, NonePlain DEF Listed
<1>5. \A a, b : Precedes(W.order, a, b) => a # b /\ ~Precedes(W.order, b, a)
  BY <1>4, PrecedesOrder
<1>6. ASSUME NEW d \in K
      PROVE  /\ W.cl[d] \in Cell /\ X.cl[d] \in Cell /\ SameCell(X.cl[d], W.cl[d])
             /\ X.cl[d].prevsel = IF W.cl[d].prevsel = c THEN None ELSE W.cl[d].prevsel
             /\ X.cl[d].parent = IF W.cl[d].parent = c THEN W.cl[c].parent ELSE W.cl[d].parent
             /\ X.cl[d].ult = IF W.cl[d].ult = c THEN h ELSE W.cl[d].ult
  BY <1>1, <1>3, UnlinkedCell
<1>9. Keeps(X, W, K)
  BY <1>2, <1>6 DEF Keeps
<1> HIDE DEF K
<1>10. \A d \in K : X.cl[d].ult \in K /\ X.cl[X.cl[d].ult].ult = X.cl[d].ult
  <2> SUFFICES ASSUME NEW d \in K PROVE X.cl[d].ult \in K /\ X.cl[X.cl[d].ult].ult = X.cl[d].ult
    OBVIOUS
  <2>1. W.cl[d].ult \in Managed(W) /\ W.cl[W.cl[d].ult].ult = W.cl[d].ult
    BY <1>1, <1>4 DEF Linked
  <2>2. CASE W.cl[d].ult = c
    <3>1. h \in K /\ W.cl[h].ult = c
      BY <1>3, <2>2 DEF Inherits, K
    <3> QED
      BY <1>6, <2>2, <3>1
  <2>3. CASE W.cl[d].ult # c
    <3>1. W.cl[d].ult \in K
      BY <2>1, <2>3 DEF K
    <3> QED
      BY <1>6, <2>1, <2>3, <3>1
  <2> QED
    BY <2>2, <2>3
<1>11. W.cl[c].parent \in Managed(W) \cup {None} /\ W.cl[c].parent # c
  <2>1. W.cl[c].parent # None => Precedes(W.order, W.cl[c].parent, c)
    BY <1>1 DEF Older
  <2> QED
    BY <1>1, <1>4, <1>5, <2>1 DEF Linked
<1>12. Linked(X)
  <2> SUFFICES ASSUME NEW d \in K
               PROVE  /\ X.cl[d] \in Cell /\ X.cl[d].parent \in K \cup {None}
                      /\ X.cl[d].prevsel \in K \cup {None}
    BY <1>2, <1>10 DEF Linked
  <2>1. W.cl[d].parent \in Managed(W) \cup {None} /\ W.cl[d].prevsel \in Managed(W) \cup {None}
    BY <1>1, <1>4 DEF Linked
  <2> QED
    BY <1>6, <1>11, <2>1 DEF K
<1>13. Older(X)
  <2> SUFFICES ASSUME NEW d \in K, X.cl[d].parent # None PROVE Precedes(X.order, X.cl[d].parent, d)
    BY <1>2 DEF Older
  <2>1. d \in Managed(W) /\ d # c
    BY <1>4 DEF K
  <2>2. W.cl[d].parent # None => Precedes(W.order, W.cl[d].parent, d)
    BY <1>1, <2>1 DEF Older
  <2>3. CASE W.cl[d].parent # c
    BY <1>2, <1>6, <2>1, <2>2, <2>3
  <2>4. CASE W.cl[d].parent = c
    <3>1. X.cl[d].parent = W.cl[c].parent /\ W.cl[c].parent # c
      BY <1>6, <1>11, <2>4
    <3>2. Precedes(W.order, W.cl[c].parent, c) /\ Precedes(W.order, c, d)
      BY <1>1, <1>4, <2>2, <2>4, <3>1 DEF Older
    <3>3. Precedes(W.order, W.cl[c].parent, d)
      BY <1>4, <3>2, PrecedesOn
    <3> QED
      BY <1>2, <2>1, <3>1, <3>3
  <2> QED
    BY <2>3, <2>4
<1>14. Swallowing(X) /\ Apart(X)
  BY <1>1, <1>9, KeepsWindows
<1>15. ASSUME NEW i \in K, Loose(W, i) PROVE Loose(X, i)
  <2> SUFFICES ASSUME NEW d \in K \ {i}
               PROVE  /\ X.cl[d].parent # i /\ X.cl[d].prevsel # i /\ X.cl[d].ult # i
                      /\ Precedes(X.order, d, i)
    BY <1>2 DEF Loose
  <2>1. /\ W.cl[d].parent # i /\ W.cl[d].prevsel # i /\ W.cl[d].ult # i
        /\ Precedes(W.order, d, i) /\ d # c /\ i # c
    BY <1>4, <1>15 DEF Loose, K
  <2>2. W.cl[c].parent # i /\ i # None
    BY <1>4, <1>15, <2>1 DEF Loose
  <2>3. W.cl[d].ult = c => h # i
    BY <1>3, <1>5, <2>1 DEF Inherits, K
  <2> QED
    BY <1>2, <1>6, <2>1, <2>2, <2>3
<1> QED
  BY <1>2, <1>9, <1>12, <1>13, <1>14, <1>15 DEF Good, K

\* arrange goes from one dormant client to the next.
LEMMA ArrangeRun ==
  ASSUME NEW W \in Wm, NEW bad, bad = Only(W.order, Dormant(W)), NEW n \in Nat, n = Len(bad),
         NEW S \in [0 .. n -> SUBSET Wm], W \in S[0],
         \A k \in 1 .. n : \A V \in S[k - 1] : Gone(V, bad[k]) \subseteq S[k]
  PROVE  Arrange(W) \subseteq S[n]
<1> DEFINE X == SUBSET Wm
           Next1(U, k) == UNION {Gone(V, bad[k]) : V \in U}
           E(g) == [k \in 0 .. n |-> IF k = 0 THEN {W} ELSE UNION {Gone(V, bad[k]) : V \in g[k - 1]}]
           upto == CHOOSE g : g = E(g)
           G == [k \in 0 .. n |-> SUBSET S[k]]
           round == [p \in X \X (0 .. n) |-> Next1(p[1], p[2] + 1)]
<1>1. Arrange(W) = upto[n]
  BY DEF Arrange
<1>2. \A k \in 0 .. n : G[k] \subseteq X /\ S[k] \subseteq Wm /\ \A U : U \in G[k] <=> U \subseteq S[k]
  OBVIOUS
<1>3. {W} \in G[0]
  BY <1>2
<1>4. ASSUME NEW k \in 0 .. n, k # n, NEW U \in G[k] PROVE Next1(U, k + 1) \in G[k + 1]
  <2>1. k + 1 \in 1 .. n /\ k + 1 \in 0 .. n /\ (k + 1) - 1 = k
    BY <1>4
  <2>2. \A V \in U : Gone(V, bad[k + 1]) \subseteq S[k + 1]
    BY <1>2, <2>1
  <2>3. Next1(U, k + 1) \subseteq S[k + 1]
    BY <2>2
  <2> HIDE DEF Next1, G
  <2> QED
    BY <1>2, <2>1, <2>3
<1>5. ASSUME NEW k \in 0 .. n, NEW U \in G[k] PROVE round[<<U, k>>] = Next1(U, k + 1)
  <2>1. <<U, k>> \in X \X (0 .. n)
    BY <1>2
  <2> HIDE DEF Next1, X
  <2> QED
    BY <2>1
<1> HIDE DEF G, round, X, Next1
<1>6. PICK f \in [0 .. n -> X] :
         f[0] = {W} /\ \A i \in 0 .. n : i # 0 => f[i] = round[<<f[i - 1], i - 1>>]
  <2>1. PICK m, e : m = 0 /\ e = {W}
    OBVIOUS
  <2>2. m \in Nat /\ n \in Nat /\ m <= n /\ e \in G[m] /\ Leads(round, G, X, m, n)
    BY <1>2, <1>3, <1>4, <1>5, <2>1 DEF Leads
  <2>3. \E f \in [m .. n -> X] :
           f[m] = e /\ \A i \in m .. n : i # m => f[i] = round[<<f[i - 1], i - 1>>]
    BY ONLY <2>2, LoopRuns
  <2> QED
    BY <2>1, <2>3
<1>7. \A i \in 0 .. n : i # 0 => f[i] = Next1(f[i - 1], i)
  <2>1. ASSUME NEW i \in 0 .. n, i # 0 PROVE round[<<f[i - 1], i - 1>>] = Next1(f[i - 1], i)
    <3>1. i - 1 \in 0 .. n /\ (i - 1) + 1 = i
      BY <2>1
    <3>2. f[i - 1] \in X
      BY <3>1
    <3> QED
      BY <3>1, <3>2 DEF round
  <2> QED
    BY <1>6, <2>1
<1>8. f = E(f)
  <2>1. \A i \in 0 .. n : f[i] = E(f)[i]
    BY <1>6, <1>7 DEF Next1
  <2>2. E(f) = [i \in 0 .. n |-> E(f)[i]]
    OBVIOUS
  <2> HIDE DEF E
  <2> QED
    BY <2>1, <2>2
<1> HIDE DEF E
<1>9. upto = E(upto)
  BY <1>8
<1> HIDE DEF upto
<1>10. \A i \in 0 .. n : upto[i] = IF i = 0 THEN {W} ELSE Next1(upto[i - 1], i)
  BY <1>9 DEF E, Next1
<1> DEFINE Fine == {i \in 0 .. n : upto[i] \in G[i]}
<1>11. 0 \in Fine
  <2>1. 0 \in 0 .. n
    OBVIOUS
  <2>2. upto[0] = {W}
    BY <1>10, <2>1
  <2> QED
    BY <1>3, <2>1, <2>2
<1>12. \A i \in 0 .. n : i # n /\ i \in Fine => i + 1 \in Fine
  <2> SUFFICES ASSUME NEW i \in 0 .. n, i # n, i \in Fine PROVE i + 1 \in Fine
    OBVIOUS
  <2>1. i + 1 \in 0 .. n /\ i + 1 # 0 /\ (i + 1) - 1 = i
    OBVIOUS
  <2>2. upto[i + 1] = Next1(upto[i], i + 1)
    BY <1>10, <2>1
  <2> QED
    BY <1>4, <2>1, <2>2
<1> HIDE DEF Fine
<1>13. n \in Fine
  <2>1. \A i \in 0 .. n : i \in Fine
    BY <1>11, <1>12, Upwards
  <2> QED
    BY <2>1
<1> QED
  BY <1>1, <1>2, <1>13 DEF Fine

\* arrange: the dormant clients are gone, and nothing else is.
LEMMA ArrangeGood ==
  ASSUME NEW W, Good(W), NEW X \in Arrange(W)
  PROVE  /\ Good(X) /\ Keeps(X, W, Managed(W) \ Dormant(W))
         /\ \A i \in Managed(W) \ Dormant(W) : Loose(W, i) => Loose(X, i)
<1> DEFINE M == Managed(W)
           bad == Only(W.order, Dormant(W))
           n == Len(bad)
           K(k) == M \ {bad[j] : j \in 1 .. k}
           Fine(V, k) ==
             /\ Good(V) /\ Keeps(V, W, K(k))
             /\ \A i \in M \ Dormant(W) : Loose(W, i) => Loose(V, i)
           S == [k \in 0 .. n |-> {V \in Wm : Fine(V, k)}]
<1>1. W \in Wm /\ IsInjective(W.order) /\ W.order \in Seq(Ids)
  BY WmFields DEF Good, Listed
<1>2. Dormant(W) \subseteq M
  BY DEF Dormant
<1>3. bad \in Seq(Ids) /\ ToSet(bad) = Dormant(W) /\ IsInjective(bad)
  <2>1. PICK T : T = Dormant(W)
    OBVIOUS
  <2>2. Only(W.order, T) \in Seq(Ids) /\ ToSet(Only(W.order, T)) = ToSet(W.order) \cap T
        /\ IsInjective(Only(W.order, T))
    BY <1>1, OnlyElements
  <2> QED
    BY <1>2, <2>1, <2>2 DEF Managed
<1> HIDE DEF bad
<1>4. n \in Nat /\ DOMAIN bad = 1 .. n
  BY <1>3, LenProperties
<1>5. \A i \in 1 .. n : bad[i] \in Dormant(W) /\ \A j \in 1 .. n : bad[i] = bad[j] => i = j
  BY <1>3, <1>4 DEF IsInjective, ToSet
<1>6. \A k \in 0 .. n : \A V : V \in S[k] <=> Fine(V, k)
  BY DEF Good
<1> HIDE DEF S
<1>7. W \in S[0]
  <2>1. K(0) = M
    OBVIOUS
  <2>2. 0 \in 0 .. n
    BY <1>4
  <2>3. Keeps(W, W, K(0))
    BY <2>1, KeepsAll
  <2> HIDE DEF K
  <2>4. Fine(W, 0)
    BY <2>3
  <2> QED
    BY <1>6, <2>2, <2>4
<1>8. ASSUME NEW k \in 1 .. n, NEW V \in S[k - 1] PROVE Gone(V, bad[k]) \subseteq S[k]
  <2>1. k - 1 \in 0 .. n /\ k \in 0 .. n
    BY <1>4
  <2>2. Fine(V, k - 1)
    BY <1>6, <2>1
  <2>3. bad[k] \in K(k - 1)
    <3>1. \A j \in 1 .. k - 1 : j \in 1 .. n /\ j # k
      BY <1>4
    <3> QED
      BY <1>2, <1>5, <3>1
  <2>4. K(k - 1) \ {bad[k]} = K(k)
    <3>1. 1 .. k = 1 .. (k - 1) \cup {k}
      BY <1>4
    <3> QED
      BY <3>1
  <2>5. M \ Dormant(W) \subseteq K(k)
    <3>1. \A j \in 1 .. k : j \in 1 .. n
      BY <1>4
    <3> QED
      BY <1>5, <3>1
  <2> HIDE DEF K
  <2> SUFFICES ASSUME NEW Y \in Gone(V, bad[k]) PROVE Fine(Y, k)
    BY <1>6, <2>1
  <2>6. Managed(V) = K(k - 1)
    BY <2>2 DEF Keeps
  <2>7. /\ Good(Y) /\ Keeps(Y, V, K(k))
        /\ \A i \in K(k) : Loose(V, i) => Loose(Y, i)
    <3>1. PICK b \in Managed(V) : b = bad[k] /\ Managed(V) \ {b} = K(k)
      BY <2>3, <2>4, <2>6
    <3>2. Good(V) /\ Y \in Gone(V, b)
      BY <2>2, <3>1
    <3>3. /\ Good(Y) /\ Keeps(Y, V, Managed(V) \ {b})
          /\ \A i \in Managed(V) \ {b} : Loose(V, i) => Loose(Y, i)
      BY ONLY <3>1, <3>2, GoneGood
    <3> QED
      BY <3>1, <3>3
  <2>8. Keeps(Y, W, K(k))
    BY <2>2, <2>7, KeepsAgain
  <2> QED
    BY <2>2, <2>5, <2>7, <2>8
<1>9. S \in [0 .. n -> SUBSET Wm]
  BY DEF S
<1>10. Arrange(W) \subseteq S[n]
  <2> HIDE DEF n
  <2>1. bad = Only(W.order, Dormant(W)) /\ n = Len(bad)
    BY DEF bad, n
  <2>2. \A k \in 1 .. n : \A V \in S[k - 1] : Gone(V, bad[k]) \subseteq S[k]
    BY <1>8
  <2>3. n \in Nat
    BY <1>4
  <2> QED
    BY ONLY <1>1, <1>7, <1>9, <2>1, <2>2, <2>3, ArrangeRun
<1>11. X \in S[n] /\ n \in 0 .. n
  BY <1>4, <1>10
<1>12. Fine(X, n)
  BY <1>6, <1>11
<1>13. K(n) = M \ Dormant(W)
  BY <1>3, <1>4 DEF ToSet
<1> QED
  BY <1>12, <1>13

-----------------------------------------------------------------------------
(* The selection.                                                          *)

\* focus moves the selection, and remembers the one before.
LEMMA FocusGood ==
  ASSUME NEW W, Good(W), NEW c \in Managed(W)
  PROVE  Good(Focus(W, c)) /\ Keeps(Focus(W, c), W, Managed(W))
<1> DEFINE X == Focus(W, c)
           p == IF W.sel = c THEN W.cl[c].prevsel ELSE W.sel
           to == IF ~W.cl[c].dormant THEN c ELSE None
           q == [W.cl[c] EXCEPT !.prevsel = p]
<1>1. W \in Wm /\ Listed(W) /\ Linked(W) /\ Older(W) /\ Swallowing(W) /\ Apart(W)
  BY DEF Good
<1>2. /\ W.cl \in [Ids -> Cell \cup {Free}] /\ Managed(W) \subseteq Ids /\ c \in Ids
      /\ W.stack = Managed(W) /\ W.sel \in Managed(W) \cup {None} /\ W.cl[c] \in Cell
      /\ W.cl[c].prevsel \in Managed(W) \cup {None}
  BY <1>1, WmFields DEF Listed, Linked
<1>3. p \in Managed(W) \cup {None} /\ to \in Managed(W) \cup {None}
  BY <1>2
<1>4. q \in Cell /\ SameCell(q, W.cl[c]) /\ q.prevsel = p /\ q.parent = W.cl[c].parent /\ q.ult = W.cl[c].ult
  <2>1. p \in Ids \cup {None}
    BY <1>2, <1>3
  <2> HIDE DEF p
  <2> QED
    BY <1>2, <2>1 DEF Cell, SameCell
<1>5. /\ X.cl = [W.cl EXCEPT ![c] = q] /\ X.order = W.order /\ X.stack = W.stack \cup {c}
      /\ X.sel = to
  BY <1>1, <1>2 DEF Focus, Wm
<1> HIDE DEF p, q, to
<1>6. X \in Wm
  <2>1. PICK f, s, t : f = X.cl /\ s = X.stack /\ t = X.sel
    OBVIOUS
  <2>2. f \in [Ids -> Cell \cup {Free}] /\ s \subseteq Ids /\ t \in Ids \cup {None}
    BY <1>2, <1>3, <1>4, <1>5, <2>1
  <2>3. X = [W EXCEPT !.cl = f, !.stack = s, !.sel = t]
    <3>1. \A u : u = [W EXCEPT !.cl = u.cl, !.stack = u.stack, !.sel = u.sel] \/ TRUE
      OBVIOUS
    <3> QED
      BY <2>1, <1>1 DEF Focus, Wm
  <2> QED
    BY <1>1, <2>2, <2>3 DEF Wm
<1> HIDE DEF X
<1>7. Managed(X) = Managed(W) /\ Listed(X)
  BY <1>1, <1>2, <1>3, <1>5 DEF Managed, Listed
<1>8. /\ \A d \in Managed(W) :
           /\ X.cl[d] \in Cell /\ SameCell(X.cl[d], W.cl[d])
           /\ X.cl[d].parent = W.cl[d].parent /\ X.cl[d].ult = W.cl[d].ult
           /\ X.cl[d].prevsel \in Managed(W) \cup {None}
      /\ \A i \in Ids \ Managed(W) : X.cl[i] = W.cl[i]
  <2>1. \A d \in Ids : X.cl[d] = IF d = c THEN q ELSE W.cl[d]
    BY <1>2, <1>5
  <2> QED
    BY <1>1, <1>2, <1>3, <1>4, <2>1 DEF Linked, SameCell
<1>9. Keeps(X, W, Managed(W))
  BY <1>7, <1>8 DEF Keeps
<1>10. Linked(X)
  BY <1>1, <1>7, <1>8 DEF Linked
<1>11. Older(X)
  BY <1>1, <1>5, <1>7, <1>8 DEF Older
<1> QED
  BY <1>1, <1>6, <1>7, <1>9, <1>10, <1>11, KeepsWindows DEF Good, X

\* Another selection, of a client or of none.
LEMMA SelGood ==
  ASSUME NEW W, Good(W), NEW s \in Managed(W) \cup {None}
  PROVE  Good([W EXCEPT !.sel = s]) /\ Keeps([W EXCEPT !.sel = s], W, Managed(W))
<1> DEFINE X == [W EXCEPT !.sel = s]
<1>1. W \in Wm /\ Listed(W) /\ Linked(W) /\ Older(W) /\ Swallowing(W) /\ Apart(W)
  BY DEF Good
<1>2. s \in Ids \cup {None}
  BY <1>1, WmFields
<1>3. X \in Wm /\ X.cl = W.cl /\ X.order = W.order /\ X.stack = W.stack /\ X.sel = s
  BY <1>1, <1>2 DEF Wm
<1> HIDE DEF X
<1>4. Managed(X) = Managed(W)
  BY <1>3 DEF Managed
<1>5. Listed(X) /\ Linked(X) /\ Older(X) /\ Keeps(X, W, Managed(W))
  BY <1>1, <1>3, <1>4 DEF Listed, Linked, Older, Keeps, SameCell
<1> QED
  BY <1>1, <1>3, <1>5, KeepsWindows DEF Good, X

\* focus of whatever is chosen.
LEMMA FocusAnyGood ==
  ASSUME NEW W, Good(W), NEW X \in FocusAny(W)
  PROVE  Good(X) /\ Keeps(X, W, Managed(W))
<1>1. CASE Managed(W) = {}
  BY <1>1, SelGood DEF FocusAny
<1>2. CASE Managed(W) # {}
  BY <1>2, FocusGood DEF FocusAny
<1> QED
  BY <1>1, <1>2

-----------------------------------------------------------------------------
(* A client that comes, and one that is swallowed.                         *)

\* The windows of the clients, those they stand in for, and which for which.
WinsOf(W) == {W.cl[c].win : c \in Managed(W)}
HidsOf(W) == UNION {HiddenOf(W, c) : c \in Managed(W)}
StandsIn(W, a, v) == \E c \in Managed(W) : a = W.cl[c].win /\ v \in HiddenOf(W, c)

\* A window of which dwm knows nothing gets a client of its own, the youngest.
LEMMA AttachedGood ==
  ASSUME NEW W, Good(W), NEW w \in Wins, w \notin WinsOf(W) \cup HidsOf(W),
         NEW i \in Ids, W.cl[i] = Free, NEW p \in Managed(W) \cup {None},
         NEW u, u = i \/ (u \in Managed(W) /\ W.cl[u].ult = u)
  PROVE  LET A == Attached(W, w, i, p, u)
         IN  /\ Good(A) /\ Loose(A, i)
             /\ i \notin Managed(W) /\ Managed(A) = Managed(W) \cup {i}
             /\ \A c \in Managed(W) : A.cl[c] = W.cl[c] /\ HiddenOf(A, c) = HiddenOf(W, c)
             /\ A.cl[i].win = w /\ HiddenOf(A, i) = {} /\ ~A.cl[i].dormant
             /\ A.cl[i].swallowing = None
<1> DEFINE A == Attached(W, w, i, p, u)
           q == [win |-> w, own |-> w, swallowing |-> None, parent |-> p, ult |-> u,
                 prevsel |-> None, dormant |-> FALSE]
<1>1. W \in Wm /\ Listed(W) /\ Linked(W) /\ Older(W) /\ Swallowing(W) /\ Apart(W)
  BY DEF Good
<1>2. /\ W.cl \in [Ids -> Cell \cup {Free}] /\ W.order \in Seq(Ids) /\ Managed(W) \subseteq Ids
      /\ IsInjective(W.order) /\ W.stack = Managed(W) /\ W.sel \in Managed(W) \cup {None}
      /\ None \notin Ids /\ None \notin Wins /\ W.stack \subseteq Ids /\ W.sel \in Ids \cup {None}
  BY <1>1, WmFields, NonePlain DEF Listed
<1>3. i \notin Managed(W)
  BY <1>1, CellFields DEF Linked
<1>4. q \in Cell
  BY <1>2 DEF Cell
<1>5. /\ q.win = w /\ q.swallowing = None /\ q.parent = p /\ q.ult = u /\ q.prevsel = None
      /\ q.dormant = FALSE
  OBVIOUS
<1>6. /\ A.cl = [W.cl EXCEPT ![i] = q] /\ A.order = Append(W.order, i)
      /\ A.stack = W.stack \cup {i} /\ A.sel = W.sel
  BY <1>1 DEF Attached, Wm
<1>7. /\ Append(W.order, i) \in Seq(Ids) /\ ToSet(Append(W.order, i)) = Managed(W) \cup {i}
      /\ IsInjective(Append(W.order, i))
  BY <1>2, <1>3, AppendElements DEF Managed
<1>8. \A a, b : Precedes(Append(W.order, i), a, b) <=>
                  Precedes(W.order, a, b) \/ (b = i /\ a \in Managed(W))
  BY <1>2, AppendPrecedes DEF Managed
<1>9. A \in Wm
  <2>1. PICK f, o, s : f = [W.cl EXCEPT ![i] = q] /\ o = Append(W.order, i) /\ s = W.stack \cup {i}
    OBVIOUS
  <2>2. f \in [Ids -> Cell \cup {Free}] /\ o \in Seq(Ids) /\ s \subseteq Ids
    BY <1>2, <1>4, <1>7, <2>1
  <2>3. A = [W EXCEPT !.cl = f, !.order = o, !.stack = s]
    BY <1>1, <2>1 DEF Attached, Wm
  <2> HIDE DEF A, q
  <2> QED
    BY <1>1, <2>2, <2>3 DEF Wm
<1> HIDE DEF A, q
<1>10. Managed(A) = Managed(W) \cup {i} /\ Listed(A)
  BY <1>2, <1>6, <1>7 DEF Managed, Listed
<1>11. A.cl[i] = q /\ \A c \in Ids \ {i} : A.cl[c] = W.cl[c]
  BY <1>2, <1>6
<1>12. \A c \in Managed(W) : A.cl[c] = W.cl[c] /\ c # i
  BY <1>2, <1>3, <1>11
<1>13. Linked(A)
  <2>1. \A c \in Managed(W) :
          /\ W.cl[c] \in Cell
          /\ W.cl[c].parent \in Managed(W) \cup {None} /\ W.cl[c].prevsel \in Managed(W) \cup {None}
          /\ W.cl[c].ult \in Managed(W) /\ W.cl[W.cl[c].ult].ult = W.cl[c].ult
    BY <1>1 DEF Linked
  <2> QED
    BY <1>4, <1>5, <1>10, <1>11, <1>12, <2>1 DEF Linked
<1>14. Older(A)
  <2>1. \A c \in Managed(W) : W.cl[c].parent # None => Precedes(W.order, W.cl[c].parent, c)
    BY <1>1 DEF Older
  <2> QED
    BY <1>5, <1>6, <1>8, <1>10, <1>11, <1>12, <2>1 DEF Older
<1>15. \A c \in Managed(W) : W.cl[c].swallowing # None =>
          /\ W.cl[c].swallowing \in Ids \ (Managed(W) \cup {i})
          /\ W.cl[W.cl[c].swallowing] \in Cell
          /\ W.cl[W.cl[c].swallowing].swallowing = None
          /\ A.cl[W.cl[c].swallowing] = W.cl[W.cl[c].swallowing]
  BY <1>1, <1>11, CellFields DEF Swallowing
<1>16. Swallowing(A)
  BY <1>5, <1>10, <1>11, <1>12, <1>15 DEF Swallowing
<1>17. /\ \A c \in Managed(W) : HiddenOf(A, c) = HiddenOf(W, c) /\ Held(A, c) = Held(W, c)
       /\ HiddenOf(A, i) = {} /\ Held(A, i) = {w}
  BY <1>5, <1>11, <1>12, <1>15 DEF HiddenOf, Held
<1>18. \A c \in Managed(W) : w \notin Held(W, c)
  BY DEF WinsOf, HidsOf, Held
<1>19. Apart(A)
  <2>1. \A c \in Managed(W) :
          /\ W.cl[c].win \notin HiddenOf(W, c)
          /\ \A d \in Managed(W) : c # d => Held(W, c) \cap Held(W, d) = {}
    BY <1>1 DEF Apart
  <2> QED
    BY <1>10, <1>12, <1>17, <1>18, <2>1 DEF Apart
<1>20. Loose(A, i)
  <2>1. \A c \in Managed(W) : W.cl[c].parent # i /\ W.cl[c].prevsel # i /\ W.cl[c].ult # i
    BY <1>1, <1>2, <1>3 DEF Linked
  <2> QED
    BY <1>6, <1>8, <1>10, <1>12, <2>1 DEF Loose
<1> QED
  BY <1>3, <1>5, <1>9, <1>10, <1>11, <1>12, <1>13, <1>14, <1>16, <1>17, <1>19, <1>20 DEF Good, A

\* swallow: the youngest client, to which nobody has a link, leaves the lists,
\* and the terminal's window and its own change places.
LEMMA SwallowGood ==
  ASSUME NEW W, Good(W), NEW p \in Managed(W), NEW c \in Managed(W), p # c, Loose(W, c),
         W.cl[p].swallowing = None, W.cl[c].swallowing = None
  PROVE  LET R == swallow(W, p, c)
         IN  /\ Good(R) /\ Managed(R) = Managed(W) \ {c}
             /\ \A d \in Managed(R) : R.cl[d].dormant = W.cl[d].dormant
             /\ \A d \in Managed(R) \ {p} :
                  R.cl[d].win = W.cl[d].win /\ HiddenOf(R, d) = HiddenOf(W, d)
             /\ R.cl[p].win = W.cl[c].win /\ HiddenOf(R, p) = {W.cl[p].win}
<1> DEFINE R == swallow(W, p, c)
           V == Detached(W, c)
           K == Managed(W) \ {c}
           q == Only(W.order, Ids \ {c})
           r == [W.cl[p] EXCEPT !.swallowing = c, !.win = W.cl[c].win]
           s == [W.cl[c] EXCEPT !.win = W.cl[p].win]
           to == IF W.sel = c THEN p ELSE W.sel
<1>1. W \in Wm /\ Listed(W) /\ Linked(W) /\ Older(W) /\ Swallowing(W) /\ Apart(W)
  BY DEF Good
<1>2. /\ W.cl \in [Ids -> Cell \cup {Free}] /\ W.order \in Seq(Ids) /\ Managed(W) \subseteq Ids
      /\ IsInjective(W.order) /\ W.stack = Managed(W) /\ W.sel \in Managed(W) \cup {None}
      /\ None \notin Ids /\ None \notin Wins /\ W.cl[p] \in Cell /\ W.cl[c] \in Cell
  BY <1>1, WmFields, NonePlain DEF Listed, Linked
<1>3. /\ r \in Cell /\ r.win = W.cl[c].win /\ r.swallowing = c /\ r.parent = W.cl[p].parent
      /\ r.ult = W.cl[p].ult /\ r.prevsel = W.cl[p].prevsel /\ r.dormant = W.cl[p].dormant
  BY <1>2 DEF Cell
<1>4. s \in Cell /\ s.win = W.cl[p].win /\ s.swallowing = None
  BY <1>2 DEF Cell
<1>5. /\ q \in Seq(Ids) /\ IsInjective(q) /\ ToSet(q) = K
      /\ \A a, b : Precedes(q, a, b) <=> Precedes(W.order, a, b) /\ a # c /\ b # c
  BY <1>1, ListWithout
<1>6. /\ R.cl = [W.cl EXCEPT ![p] = r, ![c] = s] /\ R.order = q
      /\ R.stack = W.stack \ {c} /\ R.sel = to
  BY <1>1, <1>2 DEF swallow, Detached, Wm
<1>7. to \in K \cup {None}
  BY <1>2
<1>8. R \in Wm
  <2>1. V \in Wm
    <3>1. PICK o, t : o = q /\ t = W.stack \ {c}
      OBVIOUS
    <3>2. o \in Seq(Ids) /\ t \subseteq Ids
      BY <1>2, <1>5, <3>1
    <3>3. V = [W EXCEPT !.order = o, !.stack = t]
      BY <3>1 DEF Detached
    <3> HIDE DEF V
    <3> QED
      BY <1>1, <3>2, <3>3 DEF Wm
  <2>2. V.cl = W.cl /\ V.sel = W.sel
    BY <1>1 DEF Detached, Wm
  <2> HIDE DEF V
  <2>3. PICK f, e : f = [W.cl EXCEPT ![p] = r, ![c] = s] /\ e = to
    OBVIOUS
  <2>4. f \in [Ids -> Cell \cup {Free}] /\ e \in Ids \cup {None}
    BY <1>2, <1>3, <1>4, <1>7, <2>3
  <2>5. R = [V EXCEPT !.cl = f, !.sel = e]
    BY <1>2, <2>1, <2>2, <2>3 DEF swallow, V, Wm
  <2> HIDE DEF R
  <2> QED
    BY <2>1, <2>4, <2>5 DEF Wm
<1> HIDE DEF R, q, r, s, to
<1>9. Managed(R) = K /\ Listed(R)
  BY <1>2, <1>5, <1>6, <1>7 DEF Managed, Listed
<1>10. /\ R.cl[p] = r /\ R.cl[c] = s /\ \A i \in Ids \ {p, c} : R.cl[i] = W.cl[i]
  BY <1>2, <1>6
<1>11. \A d \in K : /\ R.cl[d] \in Cell
                    /\ R.cl[d].parent = W.cl[d].parent /\ R.cl[d].prevsel = W.cl[d].prevsel
                    /\ R.cl[d].ult = W.cl[d].ult /\ R.cl[d].dormant = W.cl[d].dormant
  BY <1>1, <1>2, <1>3, <1>10 DEF Linked
<1>12. \A d \in K : /\ W.cl[d].parent # c /\ W.cl[d].prevsel # c /\ W.cl[d].ult # c
                    /\ W.cl[d].parent \in Managed(W) \cup {None}
                    /\ W.cl[d].prevsel \in Managed(W) \cup {None}
                    /\ W.cl[d].ult \in Managed(W) /\ W.cl[W.cl[d].ult].ult = W.cl[d].ult
  BY <1>1 DEF Linked, Loose
<1>13. Linked(R)
  BY <1>9, <1>11, <1>12 DEF Linked
<1>14. Older(R)
  <2>1. \A d \in K : W.cl[d].parent # None => Precedes(W.order, W.cl[d].parent, d)
    BY <1>1 DEF Older
  <2> QED
    BY <1>5, <1>6, <1>9, <1>11, <1>12, <2>1 DEF Older
<1>15. \A d \in K \ {p} : /\ R.cl[d] = W.cl[d]
                          /\ W.cl[d].swallowing # None =>
                               /\ W.cl[d].swallowing \in Ids \ Managed(W)
                               /\ W.cl[W.cl[d].swallowing] \in Cell
                               /\ W.cl[W.cl[d].swallowing].swallowing = None
                               /\ R.cl[W.cl[d].swallowing] = W.cl[W.cl[d].swallowing]
  BY <1>1, <1>2, <1>10 DEF Swallowing
<1>16. Swallowing(R)
  BY <1>2, <1>3, <1>4, <1>9, <1>10, <1>15 DEF Swallowing
<1>17. \A d \in K \ {p} : /\ R.cl[d].win = W.cl[d].win
                          /\ HiddenOf(R, d) = HiddenOf(W, d) /\ Held(R, d) = Held(W, d)
  BY <1>15 DEF HiddenOf, Held
<1>18. /\ R.cl[p].win = W.cl[c].win /\ HiddenOf(R, p) = {W.cl[p].win}
       /\ Held(R, p) = Held(W, p) \cup Held(W, c)
  BY <1>2, <1>3, <1>4, <1>10 DEF HiddenOf, Held
<1>19. Apart(R)
  <2>1. \A a \in Managed(W) :
          /\ W.cl[a].win \notin HiddenOf(W, a)
          /\ \A b \in Managed(W) : a # b => Held(W, a) \cap Held(W, b) = {}
    BY <1>1 DEF Apart
  <2>2. W.cl[c].win # W.cl[p].win
    BY <2>1 DEF Held
  <2> QED
    BY <1>9, <1>17, <1>18, <2>1, <2>2 DEF Apart
<1> QED
  BY <1>8, <1>9, <1>11, <1>13, <1>14, <1>16, <1>17, <1>18, <1>19 DEF Good, R

\* The cell a client keeps is freed, and the client has one of the two windows.
Released(V, W, c, x) ==
    /\ V \in Wm /\ V.order = W.order /\ V.stack = W.stack /\ V.sel = W.sel
    /\ V.cl = [W.cl EXCEPT ![W.cl[c].swallowing] = Free,
                           ![c] = [W.cl[c] EXCEPT !.win = x, !.swallowing = None]]

\* What that leaves is sound.
LEMMA ReleasedGood ==
  ASSUME NEW W, Good(W), NEW c \in Managed(W), W.cl[c].swallowing # None,
         NEW x \in Held(W, c),
         NEW V, Released(V, W, c, x)
  PROVE  /\ Good(V) /\ Managed(V) = Managed(W)
         /\ \A d \in Managed(W) : V.cl[d].dormant = W.cl[d].dormant
         /\ \A d \in Managed(W) \ {c} :
              V.cl[d].win = W.cl[d].win /\ HiddenOf(V, d) = HiddenOf(W, d)
         /\ V.cl[c].win = x /\ HiddenOf(V, c) = {}
<1>1. W \in Wm /\ Listed(W) /\ Linked(W) /\ Older(W) /\ Swallowing(W) /\ Apart(W)
  BY DEF Good
<1>2. /\ W.cl \in [Ids -> Cell \cup {Free}] /\ Managed(W) \subseteq Ids
      /\ None \notin Ids /\ None \notin Wins
  BY <1>1, WmFields, NonePlain
<1> DEFINE s == W.cl[c].swallowing
           q == [W.cl[c] EXCEPT !.win = x, !.swallowing = None]
<1>3. s \in Ids \ Managed(W) /\ W.cl[s] \in Cell /\ W.cl[s].swallowing = None /\ s # c
  BY <1>1 DEF Swallowing
<1>4. W.cl[c] \in Cell /\ Held(W, c) = {W.cl[c].win, W.cl[s].win}
  BY <1>1 DEF Linked, Held, HiddenOf
<1>5. /\ q \in Cell /\ q.win = x /\ q.swallowing = None /\ q.parent = W.cl[c].parent
      /\ q.ult = W.cl[c].ult /\ q.prevsel = W.cl[c].prevsel /\ q.dormant = W.cl[c].dormant
  BY <1>3, <1>4 DEF Cell
<1> HIDE DEF q, s
<1>6. /\ V.cl[c] = q /\ V.cl[s] = Free /\ \A i \in Ids \ {c, s} : V.cl[i] = W.cl[i]
  BY <1>2, <1>3 DEF q, s, Released
<1>7. Managed(V) = Managed(W) /\ Listed(V)
  BY <1>1 DEF Managed, Listed, Released
<1>8. \A d \in Managed(W) : /\ V.cl[d] \in Cell
                            /\ V.cl[d].parent = W.cl[d].parent /\ V.cl[d].prevsel = W.cl[d].prevsel
                            /\ V.cl[d].ult = W.cl[d].ult /\ V.cl[d].dormant = W.cl[d].dormant
  BY <1>1, <1>2, <1>3, <1>5, <1>6 DEF Linked
<1>9. \A d \in Managed(W) : /\ W.cl[d].parent \in Managed(W) \cup {None}
                            /\ W.cl[d].prevsel \in Managed(W) \cup {None}
                            /\ W.cl[d].ult \in Managed(W) /\ W.cl[W.cl[d].ult].ult = W.cl[d].ult
                            /\ W.cl[d].parent # None => Precedes(W.order, W.cl[d].parent, d)
  BY <1>1 DEF Linked, Older
<1>10. Linked(V) /\ Older(V)
  BY <1>7, <1>8, <1>9 DEF Linked, Older, Released
<1>11. \A a \in Managed(W) :
         /\ W.cl[a].win \notin HiddenOf(W, a)
         /\ \A b \in Managed(W) : a # b => Held(W, a) \cap Held(W, b) = {}
  BY <1>1 DEF Apart
<1>12. \A d \in Managed(W) \ {c} : W.cl[d].swallowing # None =>
         /\ W.cl[d].swallowing \in Ids \ Managed(W)
         /\ W.cl[W.cl[d].swallowing] \in Cell
         /\ W.cl[W.cl[d].swallowing].swallowing = None
         /\ V.cl[W.cl[d].swallowing] = W.cl[W.cl[d].swallowing]
  <2> SUFFICES ASSUME NEW d \in Managed(W) \ {c}, W.cl[d].swallowing # None
               PROVE  /\ W.cl[d].swallowing \in Ids \ Managed(W)
                      /\ W.cl[W.cl[d].swallowing] \in Cell
                      /\ W.cl[W.cl[d].swallowing].swallowing = None
                      /\ V.cl[W.cl[d].swallowing] = W.cl[W.cl[d].swallowing]
    OBVIOUS
  <2>1. /\ W.cl[d].swallowing \in Ids \ Managed(W) /\ W.cl[W.cl[d].swallowing] \in Cell
        /\ W.cl[W.cl[d].swallowing].swallowing = None
    BY <1>1 DEF Swallowing
  <2>2. W.cl[d].swallowing # s
    <3>1. W.cl[W.cl[d].swallowing].win \in Held(W, d)
      BY DEF Held, HiddenOf
    <3> QED
      BY <1>4, <1>11, <3>1
  <2> QED
    BY <1>6, <2>1, <2>2
<1>13. \A d \in Managed(W) \ {c} : V.cl[d] = W.cl[d]
  BY <1>2, <1>3, <1>6
<1>14. Swallowing(V)
  BY <1>5, <1>6, <1>7, <1>12, <1>13 DEF Swallowing
<1>15. \A d \in Managed(W) \ {c} : HiddenOf(V, d) = HiddenOf(W, d) /\ Held(V, d) = Held(W, d)
  BY <1>12, <1>13 DEF HiddenOf, Held
<1>16. HiddenOf(V, c) = {} /\ Held(V, c) \subseteq Held(W, c) /\ V.cl[c].win = x
  BY <1>5, <1>6 DEF HiddenOf, Held
<1>17. Apart(V)
  BY <1>7, <1>11, <1>13, <1>15, <1>16 DEF Apart
<1> QED
  BY <1>7, <1>8, <1>10, <1>13, <1>14, <1>15, <1>16, <1>17 DEF Good, Released

\* unmanage of the program: the terminal forgets it.
LEMMA UnkeptGood ==
  ASSUME NEW W, Good(W), NEW c \in Managed(W), W.cl[c].swallowing # None
  PROVE  LET V == Unkept(W, c)
         IN  /\ Good(V) /\ Managed(V) = Managed(W)
             /\ \A d \in Managed(W) : V.cl[d].dormant = W.cl[d].dormant
             /\ \A d \in Managed(W) \ {c} :
                  V.cl[d].win = W.cl[d].win /\ HiddenOf(V, d) = HiddenOf(W, d)
             /\ V.cl[c].win = W.cl[c].win /\ HiddenOf(V, c) = {}
<1> DEFINE V == Unkept(W, c)
           q == [W.cl[c] EXCEPT !.win = W.cl[c].win, !.swallowing = None]
<1>1. /\ W \in Wm /\ Managed(W) \subseteq Ids /\ W.cl \in [Ids -> Cell \cup {Free}]
      /\ W.cl[c] \in Cell /\ W.cl[c].swallowing \in Ids \ Managed(W)
  BY WmFields DEF Good, Linked, Swallowing
<1>2. q = [W.cl[c] EXCEPT !.swallowing = None] /\ q \in Cell
  BY <1>1 DEF Cell
<1>3. V.cl = [W.cl EXCEPT ![W.cl[c].swallowing] = Free, ![c] = q]
  BY <1>1, <1>2 DEF Unkept, Freed, Wm
<1>4. V.order = W.order /\ V.stack = W.stack /\ V.sel = W.sel
  BY <1>1 DEF Unkept, Freed, Wm
<1>5. V \in Wm
  <2>1. PICK f : f = V.cl
    OBVIOUS
  <2>2. f \in [Ids -> Cell \cup {Free}]
    BY <1>1, <1>2, <1>3, <2>1
  <2>3. V = [W EXCEPT !.cl = f]
    BY <1>1, <2>1 DEF Unkept, Freed, Wm
  <2> HIDE DEF V
  <2> QED
    BY <1>1, <2>2, <2>3 DEF Wm
<1> HIDE DEF V
<1>6. PICK x : x = W.cl[c].win
  OBVIOUS
<1>7. x \in Held(W, c) /\ V.cl = [W.cl EXCEPT ![W.cl[c].swallowing] = Free,
                                    ![c] = [W.cl[c] EXCEPT !.win = x, !.swallowing = None]]
  BY <1>3, <1>6 DEF Held
<1>8. /\ Good(V) /\ Managed(V) = Managed(W)
      /\ \A d \in Managed(W) : V.cl[d].dormant = W.cl[d].dormant
      /\ \A d \in Managed(W) \ {c} :
           V.cl[d].win = W.cl[d].win /\ HiddenOf(V, d) = HiddenOf(W, d)
      /\ V.cl[c].win = x /\ HiddenOf(V, c) = {}
  <2>1. Released(V, W, c, x)
    BY <1>4, <1>5, <1>7 DEF Released
  <2> QED
    BY <1>7, <2>1, ReleasedGood
<1> QED
  BY <1>6, <1>8 DEF V

\* unswallow: the terminal has its own window again.
Unswallowed(W, c) ==
    [Freed(W, W.cl[c].swallowing) EXCEPT
       !.cl[c] = [W.cl[c] EXCEPT !.win = W.cl[W.cl[c].swallowing].win, !.swallowing = None]]

\* A record stays good when a terminal takes its window back, and manages the
\* same cells (unswallow).
LEMMA UnswallowedGood ==
  ASSUME NEW W, Good(W), NEW c \in Managed(W), W.cl[c].swallowing # None
  PROVE  LET V == Unswallowed(W, c)
         IN  /\ Good(V) /\ Managed(V) = Managed(W)
             /\ \A d \in Managed(W) : V.cl[d].dormant = W.cl[d].dormant
             /\ \A d \in Managed(W) \ {c} :
                  V.cl[d].win = W.cl[d].win /\ HiddenOf(V, d) = HiddenOf(W, d)
             /\ V.cl[c].win = W.cl[W.cl[c].swallowing].win /\ HiddenOf(V, c) = {}
<1> DEFINE V == Unswallowed(W, c)
<1>1. PICK x : x = W.cl[W.cl[c].swallowing].win
  OBVIOUS
<1> DEFINE q == [W.cl[c] EXCEPT !.win = x, !.swallowing = None]
<1>2. /\ W \in Wm /\ Managed(W) \subseteq Ids /\ W.cl \in [Ids -> Cell \cup {Free}]
      /\ W.cl[c] \in Cell /\ W.cl[c].swallowing \in Ids \ Managed(W)
      /\ W.cl[W.cl[c].swallowing] \in Cell
  BY WmFields DEF Good, Linked, Swallowing
<1>3. x \in Held(W, c) /\ x \in Wins
  BY <1>1, <1>2 DEF Held, HiddenOf, Cell
<1>4. q \in Cell
  BY <1>2, <1>3 DEF Cell
<1>5. V.cl = [W.cl EXCEPT ![W.cl[c].swallowing] = Free, ![c] = q]
  BY <1>1, <1>2 DEF Unswallowed, Freed, Wm
<1>6. V.order = W.order /\ V.stack = W.stack /\ V.sel = W.sel
  BY <1>2 DEF Unswallowed, Freed, Wm
<1>7. V \in Wm
  <2>1. PICK f : f = V.cl
    OBVIOUS
  <2>2. f \in [Ids -> Cell \cup {Free}]
    BY <1>2, <1>4, <1>5, <2>1
  <2>3. V = [W EXCEPT !.cl = f]
    BY <1>2, <2>1 DEF Unswallowed, Freed, Wm
  <2> HIDE DEF V
  <2> QED
    BY <1>2, <2>2, <2>3 DEF Wm
<1> HIDE DEF V
<1>8. /\ Good(V) /\ Managed(V) = Managed(W)
      /\ \A d \in Managed(W) : V.cl[d].dormant = W.cl[d].dormant
      /\ \A d \in Managed(W) \ {c} :
           V.cl[d].win = W.cl[d].win /\ HiddenOf(V, d) = HiddenOf(W, d)
      /\ V.cl[c].win = x /\ HiddenOf(V, c) = {}
  <2>1. Released(V, W, c, x)
    BY <1>5, <1>6, <1>7 DEF Released
  <2> QED
    BY <1>3, <2>1, ReleasedGood
<1> QED
  BY <1>1, <1>8 DEF V

-----------------------------------------------------------------------------
(* What becomes of the windows.                                            *)

\* The windows of clients that are dormant.
SleepOf(W) == {W.cl[d].win : d \in Dormant(W)}

\* Of the windows of X those of D are dropped at most, and none is added.
Less(Y, X, D) ==
    /\ Good(Y)
    /\ WinsOf(Y) \subseteq WinsOf(X) /\ HidsOf(Y) \subseteq HidsOf(X)
    /\ \A a, v : StandsIn(Y, a, v) => StandsIn(X, a, v)
    /\ WinsOf(X) \subseteq WinsOf(Y) \cup D

\* What a handler leaves: the windows of G have no client any more.
Fits(W, o, G) ==
    /\ Good(o.wm) /\ Dormant(o.wm) = {}
    /\ o.up \cap ToSet(o.down) = {}
    /\ WinsOf(o.wm) \subseteq (WinsOf(W) \ (G \cup ToSet(o.down))) \cup o.up
    /\ HidsOf(o.wm) \subseteq (HidsOf(W) \ (G \cup o.up)) \cup ToSet(o.down)
    /\ \A a, v : StandsIn(o.wm, a, v) => StandsIn(W, a, v) \/ (a \in o.up /\ v \in ToSet(o.down))
    /\ WinsOf(W) \subseteq WinsOf(o.wm) \cup G \cup ToSet(o.down) \cup SleepOf(W)
    /\ ToSet(o.down) \subseteq WinsOf(W) \cap HidsOf(o.wm)

\* A window is not a client's window and one another stands in for.
LEMMA WindowsApart ==
  ASSUME NEW W, Good(W)
  PROVE  /\ WinsOf(W) \cap HidsOf(W) = {}
         /\ \A c, d \in Managed(W) : W.cl[c].win = W.cl[d].win => c = d
         /\ \A c, d \in Managed(W) : HiddenOf(W, c) \cap HiddenOf(W, d) # {} => c = d
         /\ \A a, v : StandsIn(W, a, v) => a \in WinsOf(W) /\ v \in HidsOf(W)
         /\ WinsOf(W) \subseteq Wins /\ HidsOf(W) \subseteq Wins
<1>1. \A a \in Managed(W) :
         /\ W.cl[a].win \notin HiddenOf(W, a)
         /\ \A b \in Managed(W) : a # b => Held(W, a) \cap Held(W, b) = {}
  BY DEF Good, Apart
<1>2. \A c \in Managed(W) : W.cl[c].win \in Held(W, c) /\ HiddenOf(W, c) \subseteq Held(W, c)
  BY DEF Held
<1>3. \A c \in Managed(W) : W.cl[c].win \in Wins /\ HiddenOf(W, c) \subseteq Wins
  <2> SUFFICES ASSUME NEW c \in Managed(W)
               PROVE  W.cl[c].win \in Wins /\ HiddenOf(W, c) \subseteq Wins
    OBVIOUS
  <2>1. W.cl[c] \in Cell /\ (W.cl[c].swallowing # None => W.cl[W.cl[c].swallowing] \in Cell)
    BY DEF Good, Linked, Swallowing
  <2> QED
    BY <2>1, CellFields DEF HiddenOf
<1>4. \A v : v \in HidsOf(W) <=> \E c \in Managed(W) : v \in HiddenOf(W, c)
  BY DEF HidsOf
<1>5. \A v : v \in WinsOf(W) <=> \E c \in Managed(W) : v = W.cl[c].win
  BY DEF WinsOf
<1> QED
  BY <1>1, <1>2, <1>3, <1>4, <1>5 DEF StandsIn

\* Fewer clients, fewer windows.
LEMMA KeepsLess ==
  ASSUME NEW W, Good(W), NEW X, Good(X), NEW K, Keeps(X, W, K)
  PROVE  /\ Less(X, W, {W.cl[d].win : d \in Managed(W) \ K})
         /\ Dormant(X) = Dormant(W) \cap K
         /\ \A c \in Managed(W) : W.cl[c].win \in WinsOf(X) => c \in K
<1>1. Managed(X) = K /\ K \subseteq Managed(W)
  BY DEF Keeps
<1>2. \A c \in K : HiddenOf(X, c) = HiddenOf(W, c) /\ X.cl[c].win = W.cl[c].win
  BY KeepsHeld DEF Good
<1>3. \A c \in K : X.cl[c].dormant = W.cl[c].dormant
  BY DEF Keeps, SameCell
<1>4. Dormant(X) = Dormant(W) \cap K
  BY <1>1, <1>3 DEF Dormant
<1>5. WinsOf(X) \subseteq WinsOf(W) /\ HidsOf(X) \subseteq HidsOf(W)
  BY <1>1, <1>2 DEF WinsOf, HidsOf
<1>6. \A a, v : StandsIn(X, a, v) => StandsIn(W, a, v)
  BY <1>1, <1>2 DEF StandsIn
<1>7. WinsOf(W) \subseteq WinsOf(X) \cup {W.cl[d].win : d \in Managed(W) \ K}
  BY <1>1, <1>2 DEF WinsOf
<1>8. \A c \in Managed(W) : W.cl[c].win \in WinsOf(X) => c \in K
  BY <1>1, <1>2, WindowsApart DEF WinsOf
<1> QED
  BY <1>4, <1>5, <1>6, <1>7, <1>8 DEF Less

\* arrange drops the windows of dormant clients, and leaves none.
LEMMA ArrangeLess ==
  ASSUME NEW W, Good(W), NEW X \in Arrange(W)
  PROVE  /\ Less(X, W, SleepOf(W)) /\ Dormant(X) = {} /\ Managed(X) \subseteq Managed(W)
         /\ \A c \in Managed(W) : W.cl[c].win \in WinsOf(X) => c \in Managed(X)
<1>1. Good(X) /\ Keeps(X, W, Managed(W) \ Dormant(W))
  BY ArrangeGood
<1>2. PICK K : K = Managed(W) \ Dormant(W)
  OBVIOUS
<1>3. /\ Less(X, W, {W.cl[d].win : d \in Managed(W) \ K})
      /\ Dormant(X) = Dormant(W) \cap K
      /\ \A c \in Managed(W) : W.cl[c].win \in WinsOf(X) => c \in K
  BY <1>1, <1>2, KeepsLess
<1>4. Managed(W) \ K = Dormant(W) /\ Dormant(W) \cap K = {}
  BY <1>2 DEF Dormant
<1>5. Managed(X) = K
  BY <1>1, <1>2 DEF Keeps
<1> QED
  BY <1>2, <1>3, <1>4, <1>5 DEF SleepOf

\* A new focus drops none.
LEMMA FocusAnyLess ==
  ASSUME NEW W, Good(W), NEW X \in FocusAny(W)
  PROVE  Less(X, W, {}) /\ Dormant(X) = Dormant(W)
<1>1. Good(X) /\ Keeps(X, W, Managed(W))
  BY FocusAnyGood
<1>2. PICK K : K = Managed(W)
  OBVIOUS
<1>3. /\ Less(X, W, {W.cl[d].win : d \in Managed(W) \ K})
      /\ Dormant(X) = Dormant(W) \cap K
  BY <1>1, <1>2, KeepsLess
<1>4. {W.cl[d].win : d \in Managed(W) \ K} = {}
  BY <1>2
<1>5. Dormant(W) \cap K = Dormant(W)
  BY <1>2 DEF Dormant
<1> QED
  BY <1>3, <1>4, <1>5

\* unswallow: the client's window is dropped, the one it hid comes back.
LEMMA UnswallowFits ==
  ASSUME NEW W, Good(W), NEW c \in Managed(W), W.cl[c].swallowing # None,
         NEW o \in unswallow(W, c)
  PROVE  /\ Fits(W, o, {W.cl[c].win}) /\ o.down = << >>
         /\ \A v \in o.up : StandsIn(W, W.cl[c].win, v)
<1> DEFINE V == Unswallowed(W, c)
           v == W.cl[W.cl[c].swallowing].win
           w == W.cl[c].win
           Ends(X) == UNION {Arrange(Y) : Y \in FocusAny(X)}
           Ups(X) == IF c \in Managed(X) THEN {{v}} ELSE {{}, {v}}
<1>1. unswallow(W, c) =
        UNION {{[Outcome(Z) EXCEPT !.up = u] : Z \in Ends(X), u \in Ups(X)} : X \in Arrange(V)}
  BY DEF unswallow, Unswallowed
<1> HIDE DEF Ends, Ups
<1>2. PICK X \in Arrange(V) : \E Z \in Ends(X), u \in Ups(X) : o = [Outcome(Z) EXCEPT !.up = u]
  BY <1>1
<1>3. PICK Z \in Ends(X), u \in Ups(X) : o = [Outcome(Z) EXCEPT !.up = u]
  BY <1>2
<1>4. PICK Y \in FocusAny(X) : Z \in Arrange(Y)
  BY DEF Ends
<1>5. o.wm = Z /\ o.up = u /\ o.down = << >>
  BY <1>3 DEF Outcome
<1>6. u \subseteq {v} /\ (v \notin u => c \notin Managed(X))
  BY DEF Ups
<1>7. /\ Good(V) /\ Managed(V) = Managed(W)
      /\ \A d \in Managed(W) : V.cl[d].dormant = W.cl[d].dormant
      /\ \A d \in Managed(W) \ {c} :
           V.cl[d].win = W.cl[d].win /\ HiddenOf(V, d) = HiddenOf(W, d)
      /\ V.cl[c].win = v /\ HiddenOf(V, c) = {}
  BY UnswallowedGood
<1>8. HiddenOf(W, c) = {v}
  BY DEF HiddenOf
<1> HIDE DEF v, V
<1>9. /\ WinsOf(W) \cap HidsOf(W) = {}
      /\ \A a, b \in Managed(W) : W.cl[a].win = W.cl[b].win => a = b
      /\ \A a, b \in Managed(W) : HiddenOf(W, a) \cap HiddenOf(W, b) # {} => a = b
  BY WindowsApart
<1>10. /\ Less(X, V, SleepOf(V)) /\ Dormant(X) = {}
      /\ \A d \in Managed(V) : V.cl[d].win \in WinsOf(X) => d \in Managed(X)
  BY <1>2, <1>7, ArrangeLess
<1>11. Less(Y, X, {}) /\ Dormant(Y) = {}
  BY <1>4, <1>10, FocusAnyLess DEF Less
<1>12. Less(Z, Y, {}) /\ Dormant(Z) = {}
  <2>1. Less(Z, Y, SleepOf(Y)) /\ Dormant(Z) = {}
    BY <1>4, <1>11, ArrangeLess DEF Less
  <2> QED
    BY <1>11, <2>1 DEF SleepOf
<1>13. /\ Good(Z) /\ WinsOf(Z) \subseteq WinsOf(X) /\ WinsOf(Z) \subseteq WinsOf(V)
       /\ HidsOf(Z) \subseteq HidsOf(V)
       /\ \A a, b : StandsIn(Z, a, b) => StandsIn(V, a, b)
       /\ WinsOf(V) \subseteq WinsOf(Z) \cup SleepOf(V)
  BY <1>10, <1>11, <1>12 DEF Less
<1>14. v \in WinsOf(Z) => v \in u
  BY <1>6, <1>7, <1>10, <1>13
<1>15. \A d \in Managed(W) \ {c} : W.cl[d].win # w /\ v \notin HiddenOf(W, d) /\ W.cl[d].win # v
  BY <1>8, <1>9 DEF WinsOf, HidsOf
<1>16. WinsOf(V) \subseteq (WinsOf(W) \ {w}) \cup {v} /\ WinsOf(W) \subseteq WinsOf(V) \cup {w}
  BY <1>7, <1>15 DEF WinsOf
<1>17. w \notin HidsOf(W) /\ w # v /\ v \in HidsOf(W) /\ v \notin WinsOf(W)
  BY <1>8, <1>9 DEF WinsOf, HidsOf
<1>18. HidsOf(V) \subseteq HidsOf(W) \ {w, v}
  <2>1. \A d \in Managed(W) : v \notin HiddenOf(V, d) /\ HiddenOf(V, d) \subseteq HiddenOf(W, d)
    BY <1>7, <1>15
  <2> QED
    BY <1>7, <1>17, <2>1 DEF HidsOf
<1>19. \A a, b : StandsIn(V, a, b) => StandsIn(W, a, b)
  BY <1>7 DEF StandsIn
<1>20. SleepOf(V) \subseteq SleepOf(W) \cup {v}
  BY <1>7 DEF SleepOf, Dormant
<1>21. ToSet(o.down) = {}
  BY <1>5 DEF ToSet
<1> HIDE DEF w
<1>22. Fits(W, o, {w})
  BY <1>5, <1>6, <1>12, <1>13, <1>14, <1>16, <1>17, <1>18, <1>19, <1>20, <1>21 DEF Fits
<1>23. StandsIn(W, w, v)
  BY <1>8 DEF StandsIn, w
<1> QED
  BY <1>5, <1>6, <1>22, <1>23 DEF w

\* The rest of unmanage: what is left when the client is gone, or forgotten.
LEMMA LeftFits ==
  ASSUME NEW W, Good(W), NEW V, NEW w, Less(V, W, {w}), w \notin WinsOf(V), w \notin HidsOf(V),
         SleepOf(V) \subseteq SleepOf(W),
         NEW X \in Arrange(V), NEW Y, Y = X \/ Y \in FocusAny(X)
  PROVE  Fits(W, Outcome(Y), {w})
<1>1. Good(V)
  BY DEF Less
<1>2. Less(X, V, SleepOf(V)) /\ Dormant(X) = {}
  BY <1>1, ArrangeLess
<1>3. Good(Y) /\ Dormant(Y) = {} /\ Less(Y, X, {})
  <2>1. CASE Y = X
    BY <1>2, <2>1 DEF Less
  <2>2. CASE Y \in FocusAny(X)
    BY <1>2, <2>2, FocusAnyLess DEF Less
  <2> QED
    BY <2>1, <2>2
<1>4. /\ Outcome(Y).wm = Y /\ Outcome(Y).up = {} /\ ToSet(Outcome(Y).down) = {}
  BY DEF Outcome, ToSet
<1> QED
  BY <1>2, <1>3, <1>4 DEF Fits, Less

\* unmanage, of a client or of a cell a client keeps.
LEMMA UnmanageFits ==
  ASSUME NEW W, Good(W), NEW c,
         \/ c \in Managed(W)
         \/ \E p \in Managed(W) : W.cl[p].swallowing # None /\ c = W.cl[p].swallowing,
         NEW o \in unmanage(W, c)
  PROVE  /\ Fits(W, o, {W.cl[c].win}) /\ o.down = << >>
         /\ \A v \in o.up : StandsIn(W, W.cl[c].win, v)
<1> DEFINE w == W.cl[c].win
           by == Swallower(W, w)
           Vs == IF by # {} THEN {Unkept(W, CHOOSE p \in by : TRUE)} ELSE Gone(W, c)
           left == UNION {Arrange(V) : V \in Vs}
           ends == IF W.sel = c THEN UNION {FocusAny(X) : X \in left} ELSE left
           U == [W EXCEPT !.sel = IF @ = W.cl[c].swallowing THEN c ELSE @]
<1>1. unmanage(W, c) = IF W.cl[c].swallowing # None THEN unswallow(U, c) ELSE {Outcome(Y) : Y \in ends}
  BY DEF unmanage
<1>2. /\ WinsOf(W) \cap HidsOf(W) = {}
      /\ \A a, b \in Managed(W) : W.cl[a].win = W.cl[b].win => a = b
      /\ \A a, b \in Managed(W) : HiddenOf(W, a) \cap HiddenOf(W, b) # {} => a = b
  BY WindowsApart
<1>3. Swallowing(W) /\ None \notin Ids /\ Managed(W) \subseteq Ids
  BY NonePlain, WmFields DEF Good
<1>4. CASE W.cl[c].swallowing # None
  <2>1. c \in Managed(W)
    BY <1>3, <1>4 DEF Swallowing
  <2>2. W.sel \in Managed(W) \cup {None} /\ W.sel # W.cl[c].swallowing
    BY <1>3, <1>4, <2>1 DEF Good, Listed, Swallowing
  <2>3. PICK s : s = W.sel
    OBVIOUS
  <2>4. U = [W EXCEPT !.sel = s]
    BY <2>2, <2>3 DEF Good, Wm
  <2>5. Good(U) /\ Keeps(U, W, Managed(W))
    <3>1. Good([W EXCEPT !.sel = s]) /\ Keeps([W EXCEPT !.sel = s], W, Managed(W))
      BY <2>2, <2>3, SelGood
    <3> QED
      BY <2>4, <3>1
  <2>6. U.cl = W.cl /\ Managed(U) = Managed(W)
    BY <2>4 DEF Good, Wm, Managed
  <2> HIDE DEF U
  <2>7. /\ Fits(U, o, {U.cl[c].win}) /\ o.down = << >>
        /\ \A v \in o.up : StandsIn(U, U.cl[c].win, v)
    BY <1>1, <1>4, <2>1, <2>5, <2>6, UnswallowFits
  <2>8. /\ WinsOf(U) = WinsOf(W) /\ HidsOf(U) = HidsOf(W) /\ SleepOf(U) = SleepOf(W)
        /\ \A a, v : StandsIn(U, a, v) <=> StandsIn(W, a, v)
    BY <2>6 DEF WinsOf, HidsOf, SleepOf, Dormant, StandsIn, HiddenOf
  <2> QED
    BY <2>6, <2>7, <2>8 DEF Fits
<1>5. CASE W.cl[c].swallowing = None
  <2>1. PICK V, X, Y : V \in Vs /\ X \in Arrange(V) /\ o = Outcome(Y) /\ (Y = X \/ Y \in FocusAny(X))
    <3> HIDE DEF Vs
    <3>1. PICK Y \in ends : o = Outcome(Y)
      BY <1>1, <1>5
    <3>2. PICK X \in left : Y = X \/ Y \in FocusAny(X)
      BY <3>1
    <3> QED
      BY <3>1, <3>2
  <2>2. Less(V, W, {w}) /\ w \notin WinsOf(V) /\ w \notin HidsOf(V) /\ SleepOf(V) \subseteq SleepOf(W)
    <3>1. CASE by # {}
      <4>1. PICK p : p = CHOOSE q \in by : TRUE
        OBVIOUS
      <4>2. p \in by /\ V = Unkept(W, p)
        BY <2>1, <3>1, <4>1
      <4>3. p \in Managed(W) /\ W.cl[p].swallowing # None /\ HiddenOf(W, p) = {w}
        BY <4>2 DEF Swallower, HiddenOf
      <4> HIDE DEF Vs, w
      <4>4. /\ Good(V) /\ Managed(V) = Managed(W)
            /\ \A d \in Managed(W) : V.cl[d].dormant = W.cl[d].dormant
            /\ \A d \in Managed(W) \ {p} :
                 V.cl[d].win = W.cl[d].win /\ HiddenOf(V, d) = HiddenOf(W, d)
            /\ V.cl[p].win = W.cl[p].win /\ HiddenOf(V, p) = {}
        BY <4>2, <4>3, UnkeptGood
      <4>5. \A d \in Managed(W) : V.cl[d].win = W.cl[d].win /\ HiddenOf(V, d) \subseteq HiddenOf(W, d)
        BY <4>4
      <4>6. WinsOf(V) = WinsOf(W) /\ HidsOf(V) \subseteq HidsOf(W) /\ SleepOf(V) = SleepOf(W)
        BY <4>4, <4>5 DEF WinsOf, HidsOf, SleepOf, Dormant
      <4>7. \A a, b : StandsIn(V, a, b) => StandsIn(W, a, b)
        BY <4>4, <4>5 DEF StandsIn
      <4>8. w \in HidsOf(W) /\ w \notin WinsOf(W)
        BY <1>2, <4>3 DEF HidsOf
      <4>9. w \notin HidsOf(V)
        <5>1. \A d \in Managed(W) : w \notin HiddenOf(V, d)
          BY <1>2, <4>3, <4>4
        <5> QED
          BY <4>4, <5>1 DEF HidsOf
      <4> QED
        BY <4>4, <4>6, <4>7, <4>8, <4>9 DEF Less
    <3>2. CASE by = {}
      <4>1. c \in Managed(W)
        <5>1. ASSUME NEW p \in Managed(W), W.cl[p].swallowing # None, c = W.cl[p].swallowing
              PROVE  p \in by
          BY <5>1 DEF Swallower
        <5> QED
          BY <3>2, <5>1
      <4>2. V \in Gone(W, c)
        BY <2>1, <3>2
      <4>3. Good(V) /\ Keeps(V, W, Managed(W) \ {c})
        BY <4>1, <4>2, GoneGood
      <4>4. PICK K : K = Managed(W) \ {c}
        OBVIOUS
      <4>5. /\ Less(V, W, {W.cl[d].win : d \in Managed(W) \ K})
            /\ Dormant(V) = Dormant(W) \cap K
            /\ \A d \in Managed(W) : W.cl[d].win \in WinsOf(V) => d \in K
        BY <4>3, <4>4, KeepsLess
      <4>6. {W.cl[d].win : d \in Managed(W) \ K} = {w}
        BY <4>1, <4>4
      <4>7. w \in WinsOf(W) /\ w \notin HidsOf(W)
        BY <1>2, <4>1 DEF WinsOf
      <4>8. SleepOf(V) \subseteq SleepOf(W)
        <5>1. \A d \in Dormant(V) : d \in K /\ d \in Dormant(W)
          BY <4>5
        <5>2. \A d \in K : V.cl[d].win = W.cl[d].win
          BY <4>3, <4>4 DEF Keeps, SameCell
        <5> QED
          BY <5>1, <5>2 DEF SleepOf
      <4> HIDE DEF w, Vs, by
      <4> QED
        BY <4>1, <4>4, <4>5, <4>6, <4>7, <4>8 DEF Less, w
    <3> QED
      BY <3>1, <3>2
  <2> HIDE DEF w, Vs
  <2>3. Fits(W, Outcome(Y), {w})
    BY <2>1, <2>2, LeftFits
  <2>4. Outcome(Y).up = {} /\ Outcome(Y).down = << >>
    BY DEF Outcome
  <2> QED
    BY <2>1, <2>3, <2>4 DEF w
<1> QED
  BY <1>4, <1>5

\* Where all clients are left, so are all windows.
LEMMA KeepsSame ==
  ASSUME NEW W, Good(W), NEW X, Good(X), Keeps(X, W, Managed(W))
  PROVE  /\ WinsOf(X) = WinsOf(W) /\ HidsOf(X) = HidsOf(W) /\ Dormant(X) = Dormant(W)
         /\ \A a, v : StandsIn(X, a, v) <=> StandsIn(W, a, v)
<1>1. Managed(X) = Managed(W)
  BY DEF Keeps
<1>2. \A c \in Managed(W) : HiddenOf(X, c) = HiddenOf(W, c) /\ X.cl[c].win = W.cl[c].win
  BY KeepsHeld DEF Good
<1>3. \A c \in Managed(W) : X.cl[c].dormant = W.cl[c].dormant
  BY DEF Keeps, SameCell
<1> QED
  BY <1>1, <1>2, <1>3 DEF WinsOf, HidsOf, Dormant, StandsIn

\* Parents and ultimate parents are clients.
LEMMA FamilyOf ==
  ASSUME NEW W, NEW w, NEW i
  PROVE  /\ ParentsOf(W, w) \subseteq Managed(W) \cup {None}
         /\ \A u \in UltsOf(W, w, i) : u = i \/ (u \in Managed(W) /\ W.cl[u].ult = u)
<1>1. \A v : wintoclient(W, v) \in OfWindow(W, v) \cup {None}
  BY DEF wintoclient
<1>2. \A v : OfWindow(W, v) \subseteq Managed(W)
  BY DEF OfWindow
<1>3. wintoclient(W, TransientFor[w]) \in Managed(W) \cup {None}
  BY <1>1, <1>2
<1>4. ParentsOf(W, w) \subseteq Managed(W) \cup {None}
  BY <1>3 DEF ParentsOf
<1>5. \A u \in UltsOf(W, w, i) : u = i \/ (u \in Managed(W) /\ W.cl[u].ult = u)
  BY DEF UltsOf
<1> QED
  BY <1>4, <1>5

\* The focus at the end of manage.
LEMMA BegunGood ==
  ASSUME NEW X, Good(X), NEW w, NEW t, NEW i, w \in NewMaster => i \in Managed(X)
  PROVE  Good(Begun(X, w, t, i)) /\ Keeps(Begun(X, w, t, i), X, Managed(X))
<1>1. t = X.sel /\ t # None => t \in Managed(X)
  BY DEF Good, Listed
<1> QED
  BY <1>1, FocusGood, KeepsAll DEF Begun

\* A program to which no terminal gives its place.
Alone(w) == ~Swallows(w) \/ w \in Floating \/ TransientFor[w] # None

\* manage, when no terminal goes.
LEMMA JoinedFits ==
  ASSUME NEW W, Good(W), NEW w \in Wins, w \notin WinsOf(W) \cup HidsOf(W),
         NEW Y, Good(Y), NEW A, Less(Y, A, SleepOf(W)), Dormant(Y) = {},
         WinsOf(A) = WinsOf(W) \cup {w}, HidsOf(A) = HidsOf(W),
         \A a, v : StandsIn(A, a, v) => StandsIn(W, a, v),
         NEW X, Good(X), Keeps(X, Y, Managed(Y))
  PROVE  Fits(W, [wm |-> X, up |-> {w}, down |-> << >>], {})
<1> DEFINE o == [wm |-> X, up |-> {w}, down |-> << >>]
<1>1. o.wm = X /\ o.up = {w} /\ ToSet(o.down) = {}
  BY DEF ToSet
<1>2. /\ WinsOf(X) = WinsOf(Y) /\ HidsOf(X) = HidsOf(Y) /\ Dormant(X) = Dormant(Y)
      /\ \A a, v : StandsIn(X, a, v) <=> StandsIn(Y, a, v)
  BY KeepsSame
<1> HIDE DEF o
<1> QED
  BY <1>1, <1>2 DEF Fits, Less, o

\* manage, when a terminal gives its place: d is its window.
LEMMA SwallowedFits ==
  ASSUME NEW W, Good(W), NEW w \in Wins, w \notin WinsOf(W) \cup HidsOf(W),
         NEW Y, Good(Y), NEW A, Less(Y, A, SleepOf(W)), Dormant(Y) = {},
         WinsOf(A) = WinsOf(W) \cup {w}, HidsOf(A) = HidsOf(W),
         \A a, v : StandsIn(A, a, v) => StandsIn(W, a, v),
         NEW t \in Managed(Y), NEW i \in Managed(Y), t # i, Loose(Y, i),
         Y.cl[t].swallowing = None, Y.cl[i].swallowing = None, Y.cl[i].win = w,
         NEW R, R \in Arrange(swallow(Y, t, i)),
         NEW X, Good(X), Keeps(X, R, Managed(R)), NEW d, d = Y.cl[t].win
  PROVE  /\ Fits(W, [wm |-> X, up |-> {w}, down |-> << d >>], {})
         /\ t \in Managed(R) /\ i \notin Managed(R)
<1> DEFINE o == [wm |-> X, up |-> {w}, down |-> << d >>]
<1>1. o.wm = X /\ o.up = {w} /\ ToSet(o.down) = {d}
  BY DEF ToSet
<1>2. PICK V : V = swallow(Y, t, i)
  OBVIOUS
<1>3. /\ Good(V) /\ Managed(V) = Managed(Y) \ {i}
      /\ \A e \in Managed(V) : V.cl[e].dormant = Y.cl[e].dormant
      /\ \A e \in Managed(V) \ {t} :
           V.cl[e].win = Y.cl[e].win /\ HiddenOf(V, e) = HiddenOf(Y, e)
      /\ V.cl[t].win = w /\ HiddenOf(V, t) = {d}
  BY <1>2, SwallowGood
<1>4. Dormant(V) = {}
  BY <1>3 DEF Dormant
<1>5. Good(R) /\ Keeps(R, V, Managed(V))
  <2>1. Good(R) /\ Keeps(R, V, Managed(V) \ Dormant(V))
    BY <1>2, <1>3, ArrangeGood
  <2>2. Managed(V) \ Dormant(V) = Managed(V)
    BY <1>4
  <2> QED
    BY <2>1, <2>2
<1>6. /\ WinsOf(R) = WinsOf(V) /\ HidsOf(R) = HidsOf(V) /\ Dormant(R) = {}
      /\ \A a, v : StandsIn(R, a, v) <=> StandsIn(V, a, v)
  BY <1>3, <1>4, <1>5, KeepsSame
<1>7. /\ WinsOf(X) = WinsOf(R) /\ HidsOf(X) = HidsOf(R) /\ Dormant(X) = Dormant(R)
      /\ \A a, v : StandsIn(X, a, v) <=> StandsIn(R, a, v)
  BY <1>5, KeepsSame
<1>8. /\ WinsOf(Y) \cap HidsOf(Y) = {}
      /\ \A a, b \in Managed(Y) : Y.cl[a].win = Y.cl[b].win => a = b
  BY WindowsApart
<1>9. d \in WinsOf(Y) /\ d # w /\ d \notin HidsOf(Y)
  BY <1>8 DEF WinsOf
<1>10. \A e \in Managed(V) \ {t} : Y.cl[e].win # d /\ Y.cl[e].win # w /\ e \in Managed(Y)
  BY <1>3, <1>8
<1>11. WinsOf(V) \subseteq WinsOf(Y) \ {d} /\ WinsOf(Y) \subseteq WinsOf(V) \cup {d}
  BY <1>3, <1>9, <1>10 DEF WinsOf
<1>12. HiddenOf(Y, i) = {} /\ HiddenOf(Y, t) = {}
  BY DEF HiddenOf
<1>13. d \in HidsOf(V) /\ HidsOf(V) \subseteq HidsOf(Y) \cup {d}
  BY <1>3, <1>12 DEF HidsOf
<1>14. \A a, v : StandsIn(V, a, v) => StandsIn(Y, a, v) \/ (a = w /\ v = d)
  BY <1>3, <1>10 DEF StandsIn
<1>15. w \notin HidsOf(Y) /\ d \in WinsOf(W)
  BY <1>9 DEF Less
<1> HIDE DEF o
<1>16. Fits(W, o, {})
  BY <1>1, <1>6, <1>7, <1>9, <1>11, <1>13, <1>14, <1>15 DEF Fits, Less
<1> QED
  BY <1>3, <1>5, <1>16 DEF o, Keeps

\* manage, all of it.
LEMMA ManageFits ==
  ASSUME NEW W, Good(W), NEW w \in Wins, w \notin WinsOf(W) \cup HidsOf(W),
         TermsFor(W, w) \cap Dormant(W) = {}, w \in NewMaster => Alone(w),
         NEW i \in Ids, W.cl[i] = Free,
         NEW p \in ParentsOf(W, w), NEW u \in UltsOf(W, w, i), NEW t \in TermFor(W, w),
         NEW Y \in Arrange(Attached(W, w, i, p, u)), NEW X \in Swallowed(Y, w, t, i),
         NEW s, s = IF i \in Managed(X) \/ t \notin Managed(X) THEN << >> ELSE << W.cl[t].win >>
  PROVE  /\ Fits(W, [wm |-> Begun(X, w, t, i), up |-> {w}, down |-> s], {})
         /\ s = << >> \/ (~Alone(w) /\ \E d \in Wins : s = << d >>)
<1>1. PICK A : A = Attached(W, w, i, p, u)
  OBVIOUS
<1>2. /\ Good(A) /\ Loose(A, i)
      /\ i \notin Managed(W) /\ Managed(A) = Managed(W) \cup {i}
      /\ \A c \in Managed(W) : A.cl[c] = W.cl[c] /\ HiddenOf(A, c) = HiddenOf(W, c)
      /\ A.cl[i].win = w /\ HiddenOf(A, i) = {} /\ ~A.cl[i].dormant
      /\ A.cl[i].swallowing = None
  <2>1. p \in Managed(W) \cup {None} /\ (u = i \/ (u \in Managed(W) /\ W.cl[u].ult = u))
    BY FamilyOf
  <2> QED
    BY <1>1, <2>1, AttachedGood
<1>3. /\ WinsOf(A) = WinsOf(W) \cup {w} /\ HidsOf(A) = HidsOf(W)
      /\ \A a, v : StandsIn(A, a, v) => StandsIn(W, a, v)
      /\ Dormant(A) = Dormant(W) /\ SleepOf(A) = SleepOf(W)
  <2>1. WinsOf(A) = WinsOf(W) \cup {w}
    BY <1>2 DEF WinsOf
  <2>2. HidsOf(A) = HidsOf(W)
    BY <1>2 DEF HidsOf
  <2>3. \A a, v : StandsIn(A, a, v) => StandsIn(W, a, v)
    BY <1>2 DEF StandsIn
  <2>4. Dormant(A) = Dormant(W)
    BY <1>2 DEF Dormant
  <2>5. SleepOf(A) = SleepOf(W)
    BY <1>2, <2>4 DEF SleepOf, Dormant
  <2> QED
    BY <2>1, <2>2, <2>3, <2>4, <2>5
<1>4. /\ Good(Y) /\ Keeps(Y, A, Managed(A) \ Dormant(A))
      /\ \A c \in Managed(A) \ Dormant(A) : Loose(A, c) => Loose(Y, c)
  BY <1>1, <1>2, ArrangeGood
<1>5. Less(Y, A, SleepOf(W)) /\ Dormant(Y) = {}
  BY <1>1, <1>2, <1>3, ArrangeLess
<1>6. /\ i \in Managed(Y) /\ Loose(Y, i) /\ Y.cl[i].win = w /\ Y.cl[i].swallowing = None
  <2>1. i \in Managed(A) \ Dormant(A)
    BY <1>2 DEF Dormant
  <2> QED
    BY <1>2, <1>4, <2>1 DEF Keeps, SameCell
<1>7. w \in NewMaster => i \in Managed(X) \/ ~Alone(w)
  <2>1. Alone(w) => X = Y
    BY DEF Swallowed, Alone, TermFor
  <2> QED
    BY <1>6, <2>1
<1>8. CASE X = Y
  <2>1. s = << >> /\ i \in Managed(X)
    BY <1>6, <1>8
  <2>2. Good(Begun(X, w, t, i)) /\ Keeps(Begun(X, w, t, i), Y, Managed(Y))
    BY <1>4, <1>8, <2>1, BegunGood
  <2>3. PICK B : B = Begun(X, w, t, i)
    OBVIOUS
  <2>4. Fits(W, [wm |-> B, up |-> {w}, down |-> << >>], {})
    BY <1>3, <1>4, <1>5, <2>2, <2>3, JoinedFits
  <2> QED
    BY <2>1, <2>3, <2>4
<1>9. CASE X # Y
  <2>1. t # None /\ t \in TermsFor(W, w) /\ X \in Arrange(swallow(Y, t, i)) /\ ~Alone(w)
    BY <1>9 DEF Swallowed, TermFor, Alone
  <2>2. t \in Managed(W) /\ W.cl[t].swallowing = None /\ t \notin Dormant(W)
    BY <2>1 DEF TermsFor
  <2>3. /\ t \in Managed(Y) /\ t # i
        /\ Y.cl[t].swallowing = None /\ Y.cl[t].win = W.cl[t].win
    BY <1>2, <1>3, <1>4, <2>2 DEF Keeps, SameCell
  <2>4. PICK d : d = Y.cl[t].win
    OBVIOUS
  <2>5. Good(X)
    <3>1. PICK V : V = swallow(Y, t, i)
      OBVIOUS
    <3>2. Good(V)
      BY <1>4, <1>6, <2>3, <3>1, SwallowGood
    <3> QED
      BY <2>1, <3>1, <3>2, ArrangeGood
  <2>6. PICK B : B = Begun(X, w, t, i)
    OBVIOUS
  <2>7. Good(B) /\ Keeps(B, X, Managed(X))
    BY <2>1, <2>5, <2>6, BegunGood
  <2>8. /\ Fits(W, [wm |-> B, up |-> {w}, down |-> << d >>], {})
        /\ t \in Managed(X) /\ i \notin Managed(X)
    BY <1>3, <1>4, <1>5, <1>6, <2>1, <2>3, <2>4, <2>7, SwallowedFits
  <2>9. s = << d >>
    BY <2>3, <2>4, <2>8
  <2>10. d \in Wins
    <3>1. d \in WinsOf(Y)
      BY <2>3, <2>4 DEF WinsOf
    <3> QED
      BY <1>4, <3>1, WindowsApart
  <2> QED
    BY <2>1, <2>6, <2>8, <2>9, <2>10
<1> QED
  BY <1>8, <1>9

-----------------------------------------------------------------------------
(* The queue.                                                              *)

EventSet == [t : {"map", "unmap", "destroy"}, w : Wins]

\* Whether an event is in the queue; whether every unmap event of v is ahead of
\* what is to come of a but map events; whether no window is to be mapped twice.
Has(q, t, w) == \E k \in 1 .. Len(q) : q[k].t = t /\ q[k].w = w
Ahead(q, v, a) ==
    \A j, k \in 1 .. Len(q) :
        q[j].t = "unmap" /\ q[j].w = v /\ q[k].t # "map" /\ q[k].w = a => j < k
OneMap(q) ==
    \A j, k \in 1 .. Len(q) :
        q[j].t = "map" /\ q[k].t = "map" /\ q[j].w = q[k].w => j = k

\* The queue without its head.
LEMMA QueueTail ==
  ASSUME NEW q \in Seq(EventSet), q # << >>
  PROVE  /\ Tail(q) \in Seq(EventSet) /\ Head(q) \in EventSet
         /\ \A t, w : Has(Tail(q), t, w) => Has(q, t, w)
         /\ \A t, w : Has(q, t, w) => Has(Tail(q), t, w) \/ (Head(q).t = t /\ Head(q).w = w)
         /\ Has(q, Head(q).t, Head(q).w)
         /\ \A v, a : Ahead(q, v, a) => Ahead(Tail(q), v, a)
         /\ \A v : Ahead(q, v, Head(q).w) /\ Head(q).t # "map" => ~Has(q, "unmap", v)
         /\ OneMap(q) => OneMap(Tail(q)) /\ (Head(q).t = "map" => ~Has(Tail(q), "map", Head(q).w))
<1> DEFINE r == Tail(q)
<1>1. /\ r \in Seq(EventSet) /\ Len(q) \in Nat /\ Len(q) >= 1 /\ Len(r) = Len(q) - 1
      /\ Head(q) = q[1] /\ \A k \in 1 .. Len(r) : r[k] = q[k + 1]
  OBVIOUS
<1>2. \A k \in 1 .. Len(q) : q[k] \in EventSet
  BY ElementOfSeq
<1>3. 1 \in 1 .. Len(q) /\ \A k \in 1 .. Len(r) : k + 1 \in 1 .. Len(q) /\ k + 1 # 1
  BY <1>1
<1>4. \A k \in 1 .. Len(q) : k = 1 \/ (k - 1 \in 1 .. Len(r) /\ (k - 1) + 1 = k)
  BY <1>1
<1> HIDE DEF r
<1>5. \A t, w : Has(r, t, w) => Has(q, t, w)
  BY <1>1, <1>3 DEF Has
<1>6. \A t, w : Has(q, t, w) => Has(r, t, w) \/ (q[1].t = t /\ q[1].w = w)
  <2> SUFFICES ASSUME NEW t, NEW w, NEW k \in 1 .. Len(q), q[k].t = t /\ q[k].w = w, k # 1
               PROVE  Has(r, t, w)
    BY DEF Has
  <2>1. k - 1 \in 1 .. Len(r) /\ r[k - 1] = q[k]
    BY <1>1, <1>4
  <2> QED
    BY <2>1 DEF Has
<1>7. Has(q, q[1].t, q[1].w)
  BY <1>3 DEF Has
<1>8. \A v, a : Ahead(q, v, a) => Ahead(r, v, a)
  <2> SUFFICES ASSUME NEW v, NEW a, Ahead(q, v, a), NEW j \in 1 .. Len(r), NEW k \in 1 .. Len(r),
                      r[j].t = "unmap" /\ r[j].w = v /\ r[k].t # "map" /\ r[k].w = a
               PROVE  j < k
    BY DEF Ahead
  <2>1. j + 1 < k + 1
    BY <1>1, <1>3 DEF Ahead
  <2> QED
    BY <1>1, <2>1
<1>9. ASSUME NEW v, Ahead(q, v, q[1].w), q[1].t # "map" PROVE ~Has(q, "unmap", v)
  <2> SUFFICES ASSUME NEW k \in 1 .. Len(q), q[k].t = "unmap" /\ q[k].w = v PROVE FALSE
    BY DEF Has
  <2>1. k < 1
    BY <1>3, <1>9 DEF Ahead
  <2> QED
    BY <2>1
<1>10. ASSUME OneMap(q) PROVE OneMap(r)
  <2> SUFFICES ASSUME NEW j \in 1 .. Len(r), NEW k \in 1 .. Len(r),
                      r[j].t = "map" /\ r[k].t = "map" /\ r[j].w = r[k].w
               PROVE  j = k
    BY DEF OneMap
  <2>1. j + 1 = k + 1
    BY <1>1, <1>3, <1>10 DEF OneMap
  <2> QED
    BY <1>1, <2>1
<1>11. ASSUME OneMap(q), q[1].t = "map" PROVE ~Has(r, "map", q[1].w)
  <2> SUFFICES ASSUME NEW k \in 1 .. Len(r), r[k].t = "map" /\ r[k].w = q[1].w PROVE FALSE
    BY DEF Has
  <2>1. k + 1 = 1
    BY <1>1, <1>3, <1>11 DEF OneMap
  <2> QED
    BY <1>3, <2>1
<1> QED
  BY <1>1, <1>2, <1>3, <1>5, <1>6, <1>7, <1>8, <1>9, <1>10, <1>11 DEF r

\* The queue with more at its end.
LEMMA QueueMore ==
  ASSUME NEW p \in Seq(EventSet), NEW r \in Seq(EventSet)
  PROVE  /\ p \o r \in Seq(EventSet)
         /\ \A t, w : Has(p \o r, t, w) <=> Has(p, t, w) \/ Has(r, t, w)
         /\ \A v, a : Ahead(p, v, a) /\ ~Has(r, "unmap", v) => Ahead(p \o r, v, a)
         /\ OneMap(p) /\ OneMap(r) /\ (\A w : Has(p, "map", w) => ~Has(r, "map", w)) =>
              OneMap(p \o r)
<1> DEFINE s == p \o r
<1>1. /\ s \in Seq(EventSet) /\ Len(p) \in Nat /\ Len(r) \in Nat /\ Len(s) = Len(p) + Len(r)
      /\ \A k \in 1 .. Len(s) : s[k] = IF k <= Len(p) THEN p[k] ELSE r[k - Len(p)]
  BY ConcatProperties, LenProperties
<1>2. /\ \A k \in 1 .. Len(p) : k \in 1 .. Len(s) /\ s[k] = p[k]
      /\ \A k \in 1 .. Len(r) : k + Len(p) \in 1 .. Len(s) /\ s[k + Len(p)] = r[k]
      /\ \A k \in 1 .. Len(s) : \/ k \in 1 .. Len(p) /\ s[k] = p[k]
                                \/ k - Len(p) \in 1 .. Len(r) /\ s[k] = r[k - Len(p)] /\ k > Len(p)
  BY <1>1
<1> HIDE DEF s
<1>3. \A t, w : Has(s, t, w) => Has(p, t, w) \/ Has(r, t, w)
  BY <1>2 DEF Has
<1>4. \A t, w : Has(p, t, w) \/ Has(r, t, w) => Has(s, t, w)
  BY <1>2 DEF Has
<1>5. ASSUME NEW v, NEW a, Ahead(p, v, a), ~Has(r, "unmap", v) PROVE Ahead(s, v, a)
  <2> SUFFICES ASSUME NEW j \in 1 .. Len(s), NEW k \in 1 .. Len(s),
                      s[j].t = "unmap" /\ s[j].w = v /\ s[k].t # "map" /\ s[k].w = a
               PROVE  j < k
    BY DEF Ahead
  <2>1. j \in 1 .. Len(p) /\ s[j] = p[j]
    BY <1>2, <1>5 DEF Has
  <2>2. CASE k \in 1 .. Len(p) /\ s[k] = p[k]
    BY <1>5, <2>1, <2>2 DEF Ahead
  <2>3. CASE k > Len(p)
    BY <1>1, <2>1, <2>3
  <2> QED
    BY <1>2, <2>2, <2>3
<1>6. ASSUME OneMap(p), OneMap(r), \A w : Has(p, "map", w) => ~Has(r, "map", w) PROVE OneMap(s)
  <2> SUFFICES ASSUME NEW j \in 1 .. Len(s), NEW k \in 1 .. Len(s),
                      s[j].t = "map" /\ s[k].t = "map" /\ s[j].w = s[k].w
               PROVE  j = k
    BY DEF OneMap
  <2>1. CASE j \in 1 .. Len(p) /\ s[j] = p[j] /\ k \in 1 .. Len(p) /\ s[k] = p[k]
    BY <1>6, <2>1 DEF OneMap
  <2>2. CASE /\ j - Len(p) \in 1 .. Len(r) /\ s[j] = r[j - Len(p)]
             /\ k - Len(p) \in 1 .. Len(r) /\ s[k] = r[k - Len(p)]
    <3>1. j - Len(p) = k - Len(p)
      BY <1>6, <2>2 DEF OneMap
    <3> QED
      BY <1>1, <3>1
  <2>3. CASE j \in 1 .. Len(p) /\ s[j] = p[j] /\ k - Len(p) \in 1 .. Len(r) /\ s[k] = r[k - Len(p)]
    BY <1>6, <2>3 DEF Has
  <2>4. CASE k \in 1 .. Len(p) /\ s[k] = p[k] /\ j - Len(p) \in 1 .. Len(r) /\ s[j] = r[j - Len(p)]
    BY <1>6, <2>4 DEF Has
  <2> QED
    BY <1>2, <2>1, <2>2, <2>3, <2>4
<1> QED
  BY <1>1, <1>3, <1>4, <1>5, <1>6 DEF s

\* Nothing is ahead of nothing.
LEMMA AheadOfNone ==
  ASSUME NEW q \in Seq(EventSet), NEW v, NEW a, ~Has(q, "unmap", a), ~Has(q, "destroy", a)
  PROVE  Ahead(q, v, a)
<1>1. \A k \in 1 .. Len(q) : q[k] \in EventSet
  BY ElementOfSeq
<1>2. \A k \in 1 .. Len(q) : q[k].t \in {"map", "unmap", "destroy"}
  BY <1>1 DEF EventSet
<1> QED
  BY <1>2 DEF Ahead, Has

\* Events of one kind.
LEMMA EventsHas ==
  ASSUME NEW type \in {"map", "unmap", "destroy"}, NEW s \in Seq(Wins)
  PROVE  /\ Events(type, s) \in Seq(EventSet)
         /\ \A t, w : Has(Events(type, s), t, w) <=> t = type /\ w \in ToSet(s)
         /\ IsInjective(s) \/ type # "map" => OneMap(Events(type, s))
<1> DEFINE q == Events(type, s)
<1>1. Len(s) \in Nat /\ DOMAIN s = 1 .. Len(s) /\ \A k \in 1 .. Len(s) : s[k] \in Wins
  BY LenProperties, ElementOfSeq
<1>2. q = [k \in 1 .. Len(s) |-> [t |-> type, w |-> s[k]]]
  BY <1>1 DEF Events
<1>3. \A k \in 1 .. Len(s) : [t |-> type, w |-> s[k]] \in EventSet
  BY <1>1 DEF EventSet
<1>4. q \in Seq(EventSet) /\ Len(q) = Len(s)
  BY <1>1, <1>2, <1>3
<1>5. \A k \in 1 .. Len(s) : q[k].t = type /\ q[k].w = s[k]
  BY <1>2
<1> HIDE DEF q
<1>6. \A t, w : Has(q, t, w) <=> t = type /\ w \in ToSet(s)
  BY <1>1, <1>4, <1>5 DEF Has, ToSet
<1>7. IsInjective(s) \/ type # "map" => OneMap(q)
  BY <1>1, <1>4, <1>5 DEF OneMap, IsInjective
<1> QED
  BY <1>4, <1>6, <1>7 DEF q

\* No event, and one.
LEMMA EventsFew ==
  /\ << >> \in Seq(Wins) /\ ToSet(<< >>) = {}
  /\ \A w \in Wins : << w >> \in Seq(Wins) /\ ToSet(<< w >>) = {w} /\ IsInjective(<< w >>)
  /\ \A t, w : ~Has(<< >>, t, w)
BY DEF ToSet, IsInjective, Has

-----------------------------------------------------------------------------
(* What holds between two handlers.                                        *)

Typed(x, q, W, h, l) ==
    /\ x \in [Wins -> {"unmapped", "mapped", "gone"}]
    /\ q \in Seq(EventSet) /\ Good(W) /\ h \subseteq Wins /\ l \subseteq Wins

\* swallow's windows: no client has one, nobody mapped one.
Away(x, W, h) ==
    /\ WinsOf(W) \cap h = {}
    /\ \A v \in HidsOf(W) : x[v] = "gone" \/ v \in h
    /\ \A v \in h : x[v] = "unmapped"

\* What happened to a client's window is told by an event that is still to come.
Told(x, q, W) ==
    /\ \A v \in WinsOf(W) : x[v] = "unmapped" => Has(q, "unmap", v)
    /\ \A v \in WinsOf(W) \cup HidsOf(W) : x[v] = "gone" => Has(q, "destroy", v)
    /\ \A v \in Wins : Has(q, "destroy", v) => x[v] = "gone"
    /\ \A v \in SleepOf(W) : x[v] = "gone"

\* A window that asks to be mapped asks once, and has no client.
Asked(x, q, W) ==
    /\ OneMap(q)
    /\ \A v \in Wins : Has(q, "map", v) /\ x[v] # "gone" =>
         ~Has(q, "unmap", v) /\ v \notin WinsOf(W) \cup HidsOf(W)

\* dwm forgets no window of its clients.
Known(W, h, l) == h \ l \subseteq HidsOf(W) /\ l \cap WinsOf(W) = {}

Sound(x, q, W, h, l) ==
    Typed(x, q, W, h, l) /\ Away(x, W, h) /\ Told(x, q, W) /\ Asked(x, q, W) /\ Known(W, h, l)

\* What a handler that ends started from: nothing, an event of a client's window
\* or of one that a client stands in for, or a window that asks to be mapped.
StartsQuiet(o, rest, late, G) ==
    rest = queue /\ G = {} /\ o.up = {} /\ o.down = << >> /\ late = << >>
StartsLeft(o, rest, late, G) ==
    /\ queue # << >> /\ rest = Tail(queue) /\ Head(queue).t # "map" /\ G = {Head(queue).w}
    /\ o.down = << >> /\ late = << >>
    /\ \A v \in o.up : StandsIn(wm, Head(queue).w, v)
StartsCame(o, rest, late, G) ==
    /\ queue # << >> /\ rest = Tail(queue) /\ Head(queue).t = "map" /\ G = {}
    /\ o.up = {Head(queue).w} /\ xs[Head(queue).w] # "gone"
    /\ late = << >> \/ (late = << Head(queue).w >> /\ Head(queue).w \in Hasty)
    /\ o.down = << >> \/ (~Alone(Head(queue).w) /\ \E d \in Wins : o.down = << d >>)
Starts(o, rest, late, G) ==
    StartsQuiet(o, rest, late, G) \/ StartsLeft(o, rest, late, G) \/ StartsCame(o, rest, late, G)

\* No program that may unmap itself while manage runs takes the place of a
\* terminal, which would stay mapped without a client.
Calm == \A w \in Hasty : Alone(w)

\* What is left of the queue, and the windows the handler maps.
RestMeans(o, rest, late, G) ==
    /\ rest \in Seq(EventSet) /\ late \in Seq(Wins) /\ o.down \in Seq(Wins)
    /\ o.down = << >> \/ \E d \in Wins : o.down = << d >>
    /\ \A t, v : Has(rest, t, v) => Has(queue, t, v)
    /\ \A v : v \notin G /\ Has(queue, "unmap", v) => Has(rest, "unmap", v)
    /\ \A v : v \notin G /\ Has(queue, "destroy", v) => Has(rest, "destroy", v)
    /\ \A v : v \notin o.up /\ Has(queue, "map", v) => Has(rest, "map", v)
    /\ \A v, a : Ahead(queue, v, a) => Ahead(rest, v, a)
    /\ OneMap(rest)
    /\ \A v \in o.up :
         /\ v \in Wins /\ v \notin WinsOf(wm) /\ v \notin G
         /\ \/ v \in HidsOf(wm) /\ ToSet(o.down) = {}
            \/ /\ xs[v] # "gone" /\ v \notin HidsOf(wm) /\ ~Has(rest, "map", v)
               /\ ~Has(queue, "unmap", v) /\ ~Has(queue, "destroy", v)
    /\ \A v \in ToSet(late) : v \in o.up /\ v \notin HidsOf(wm) /\ (Calm => ToSet(o.down) = {})
    /\ \A v \in G : Has(queue, "unmap", v) \/ Has(queue, "destroy", v)
    /\ \A v \in o.up : v \in HidsOf(wm) /\ (\A a, b : StandsIn(wm, a, b) => Ahead(queue, b, a)) =>
         ~Has(queue, "unmap", v)

\* Of whatever a handler starts from.
LEMMA StartsMeans ==
  ASSUME Sound(xs, queue, wm, hid, lost), NEW o, NEW rest, NEW late, NEW G,
         Fits(wm, o, G), Starts(o, rest, late, G)
  PROVE  RestMeans(o, rest, late, G)
<1>1. /\ queue \in Seq(EventSet) /\ Good(wm) /\ OneMap(queue)
      /\ \A v \in Wins : Has(queue, "map", v) /\ xs[v] # "gone" =>
           ~Has(queue, "unmap", v) /\ v \notin WinsOf(wm) \cup HidsOf(wm)
      /\ \A v \in Wins : Has(queue, "destroy", v) => xs[v] = "gone"
  BY DEF Sound, Typed, Asked, Told
<1>2. /\ WinsOf(wm) \cap HidsOf(wm) = {} /\ HidsOf(wm) \subseteq Wins
      /\ \A a, v : StandsIn(wm, a, v) => a \in WinsOf(wm) /\ v \in HidsOf(wm)
  BY <1>1, WindowsApart
<1>3. /\ << >> \in Seq(Wins) /\ ToSet(<< >>) = {}
      /\ \A w \in Wins : << w >> \in Seq(Wins) /\ ToSet(<< w >>) = {w}
  BY EventsFew
<1>4. CASE StartsQuiet(o, rest, late, G)
  BY <1>1, <1>3, <1>4 DEF StartsQuiet, RestMeans
<1>5. ASSUME queue # << >>, rest = Tail(queue)
      PROVE  /\ rest \in Seq(EventSet) /\ Head(queue).w \in Wins
             /\ Head(queue).t \in {"map", "unmap", "destroy"}
             /\ \A t, v : Has(rest, t, v) => Has(queue, t, v)
             /\ \A t, v : Has(queue, t, v) => Has(rest, t, v) \/ (Head(queue).t = t /\ Head(queue).w = v)
             /\ Has(queue, Head(queue).t, Head(queue).w)
             /\ \A v, a : Ahead(queue, v, a) => Ahead(rest, v, a)
             /\ \A v : Ahead(queue, v, Head(queue).w) /\ Head(queue).t # "map" => ~Has(queue, "unmap", v)
             /\ OneMap(rest) /\ (Head(queue).t = "map" => ~Has(rest, "map", Head(queue).w))
  <2>1. Head(queue) \in EventSet
    BY <1>1, <1>5, QueueTail
  <2>2. Head(queue).w \in Wins /\ Head(queue).t \in {"map", "unmap", "destroy"}
    BY <2>1 DEF EventSet
  <2> QED
    BY <1>1, <1>5, <2>2, QueueTail
<1>6. CASE StartsLeft(o, rest, late, G)
  <2>1. /\ queue # << >> /\ rest = Tail(queue) /\ Head(queue).t # "map" /\ G = {Head(queue).w}
        /\ o.down = << >> /\ late = << >>
        /\ \A v \in o.up : StandsIn(wm, Head(queue).w, v)
    BY <1>6 DEF StartsLeft
  <2>2. PICK e : e = Head(queue)
    OBVIOUS
  <2>3. /\ rest \in Seq(EventSet) /\ e.w \in Wins
        /\ e.t \in {"map", "unmap", "destroy"}
        /\ \A t, v : Has(rest, t, v) => Has(queue, t, v)
        /\ \A t, v : Has(queue, t, v) => Has(rest, t, v) \/ (e.t = t /\ e.w = v)
        /\ Has(queue, e.t, e.w)
        /\ \A v, a : Ahead(queue, v, a) => Ahead(rest, v, a)
        /\ \A v : Ahead(queue, v, e.w) => ~Has(queue, "unmap", v)
        /\ OneMap(rest)
    BY <1>5, <2>1, <2>2
  <2>4. \A v \in o.up : /\ v \in HidsOf(wm) /\ v \in Wins /\ v \notin WinsOf(wm) /\ v # e.w
                        /\ StandsIn(wm, e.w, v)
    BY <1>2, <2>1, <2>2
  <2>5. ToSet(late) = {} /\ ToSet(o.down) = {} /\ late \in Seq(Wins) /\ o.down \in Seq(Wins)
    BY <1>3, <2>1
  <2>6. e.t # "map" /\ G = {e.w} /\ o.down = << >>
    BY <2>1, <2>2
  <2> QED
    BY ONLY <2>3, <2>4, <2>5, <2>6 DEF RestMeans
<1>7. CASE StartsCame(o, rest, late, G)
  <2>1. PICK e : e = Head(queue)
    OBVIOUS
  <2>2. /\ queue # << >> /\ rest = Tail(queue) /\ e.t = "map" /\ G = {}
        /\ o.up = {e.w} /\ xs[e.w] # "gone"
        /\ late = << >> \/ (late = << e.w >> /\ e.w \in Hasty)
        /\ o.down = << >> \/ (~Alone(e.w) /\ \E d \in Wins : o.down = << d >>)
    BY <1>7, <2>1 DEF StartsCame
  <2>3. /\ rest \in Seq(EventSet) /\ e.w \in Wins
        /\ \A t, v : Has(rest, t, v) => Has(queue, t, v)
        /\ \A t, v : Has(queue, t, v) => Has(rest, t, v) \/ (e.t = t /\ e.w = v)
        /\ Has(queue, e.t, e.w)
        /\ \A v, a : Ahead(queue, v, a) => Ahead(rest, v, a)
        /\ OneMap(rest) /\ ~Has(rest, "map", e.w)
    BY <1>5, <2>1, <2>2
  <2>4. /\ ~Has(queue, "unmap", e.w) /\ ~Has(queue, "destroy", e.w)
        /\ e.w \notin WinsOf(wm) /\ e.w \notin HidsOf(wm)
    BY <1>1, <2>2, <2>3
  <2>5. /\ late \in Seq(Wins) /\ o.down \in Seq(Wins)
        /\ \A v \in ToSet(late) : v = e.w /\ e.w \in Hasty
        /\ ToSet(o.down) = {} \/ ~Alone(e.w)
    BY <1>3, <2>2, <2>3
  <2>6. \A v \in ToSet(late) : Calm => ToSet(o.down) = {}
    BY <2>5 DEF Calm
  <2>7. o.down = << >> \/ \E d \in Wins : o.down = << d >>
    BY <2>2
  <2>8. e.t = "map" /\ G = {} /\ o.up = {e.w} /\ xs[e.w] # "gone"
    BY <2>2
  <2> QED
    BY ONLY <2>3, <2>4, <2>5, <2>6, <2>7, <2>8 DEF RestMeans
<1> QED
  BY <1>4, <1>6, <1>7 DEF Starts

\* The screen after a handler.
ScreenAfter(o, late) ==
    /\ xs' \in [Wins -> {"unmapped", "mapped", "gone"}] /\ wm' = o.wm
    /\ \A v \in Wins : xs'[v] = "gone" <=> xs[v] = "gone"
    /\ \A v \in Wins : v \notin o.up /\ v \notin ToSet(o.down) => xs'[v] = xs[v]
    /\ \A v \in Wins : xs[v] # "gone" /\ (v \in ToSet(o.down) \/ v \in ToSet(late)) => xs'[v] = "unmapped"
    /\ \A v \in Wins : xs[v] # "gone" /\ v \in o.up /\ v \notin ToSet(late) => xs'[v] = "mapped"
    /\ hid' \subseteq Wins
    /\ \A v \in Wins : v \in hid' <=> (v \in hid /\ v \notin o.up) \/ (v \in ToSet(o.down) /\ xs[v] # "gone")

\* What Finish does to the screen.
LEMMA FinishScreen ==
  ASSUME Sound(xs, queue, wm, hid, lost), NEW o, NEW rest, NEW late, NEW G,
         Fits(wm, o, G), RestMeans(o, rest, late, G), Finish(o, rest, late)
  PROVE  ScreenAfter(o, late)
<1> DEFINE U == {w \in o.up : xs[w] # "gone"}
           D == {w \in ToSet(o.down) : xs[w] # "gone"}
           L == ToSet(late)
<1>1. /\ wm' = o.wm /\ hid' = (hid \ U) \cup D
      /\ xs' = [w \in Wins |-> IF w \in D \/ w \in L THEN "unmapped"
                               ELSE IF w \in U THEN "mapped" ELSE xs[w]]
  BY DEF Finish
<1>2. /\ xs \in [Wins -> {"unmapped", "mapped", "gone"}] /\ hid \subseteq Wins
      /\ \A v \in hid : xs[v] = "unmapped"
  BY DEF Sound, Typed, Away
<1>3. ToSet(o.down) \subseteq Wins /\ L \subseteq o.up /\ \A v \in L : xs[v] # "gone"
  <2>1. \A v \in L : v \in o.up /\ v \notin HidsOf(wm)
    BY DEF RestMeans
  <2>2. \A v \in o.up : v \in HidsOf(wm) \/ xs[v] # "gone"
    BY DEF RestMeans
  <2>3. o.down = << >> \/ \E d \in Wins : o.down = << d >>
    BY DEF RestMeans
  <2> QED
    BY <2>1, <2>2, <2>3, EventsFew
<1>4. o.up \cap ToSet(o.down) = {}
  BY DEF Fits
<1>5. \A w \in Wins : xs'[w] = IF w \in D \/ w \in L THEN "unmapped"
                               ELSE IF w \in U THEN "mapped" ELSE xs[w]
  BY <1>1
<1>6. xs' \in [Wins -> {"unmapped", "mapped", "gone"}]
  BY <1>1, <1>2
<1>7. \A v \in Wins : v \in hid' <=> (v \in hid /\ v \notin o.up) \/ (v \in ToSet(o.down) /\ xs[v] # "gone")
  BY <1>1, <1>2
<1>8. hid' \subseteq Wins
  BY <1>1, <1>2, <1>3
<1> QED
  BY <1>1, <1>3, <1>4, <1>5, <1>6, <1>7, <1>8 DEF ScreenAfter

\* The queue after a handler.
QueueAfter(o, rest, late) ==
    /\ queue' \in Seq(EventSet)
    /\ \A t, v : Has(queue', t, v) <=>
         \/ Has(rest, t, v)
         \/ t = "unmap" /\ (v \in ToSet(late) \/ (v \in ToSet(o.down) /\ xs[v] = "mapped"))
    /\ \A v, a : Ahead(rest, v, a) /\ v \notin ToSet(late) /\ v \notin ToSet(o.down) => Ahead(queue', v, a)
    /\ OneMap(queue')

\* What Finish does to the queue.
LEMMA FinishQueue ==
  ASSUME NEW o, NEW rest, NEW late, NEW G, RestMeans(o, rest, late, G), Finish(o, rest, late)
  PROVE  QueueAfter(o, rest, late)
<1> DEFINE S == {w \in Wins : xs[w] = "mapped"}
<1>1. PICK d : d = Only(o.down, S)
  OBVIOUS
<1>2. queue' = rest \o Events("unmap", late) \o Events("unmap", d)
  BY <1>1 DEF Finish
<1>3. /\ rest \in Seq(EventSet) /\ OneMap(rest) /\ late \in Seq(Wins)
      /\ o.down = << >> \/ \E w \in Wins : o.down = << w >>
  BY DEF RestMeans
<1>4. d \in Seq(Wins) /\ \A v : v \in ToSet(d) <=> v \in ToSet(o.down) /\ xs[v] = "mapped"
  <2>1. CASE o.down = << >>
    <3>1. d = << >>
      BY <1>1, <2>1, OnlyNone
    <3> QED
      BY <2>1, <3>1, EventsFew
  <2>2. CASE \E w \in Wins : o.down = << w >>
    <3>1. PICK w \in Wins : o.down = << w >>
      BY <2>2
    <3>2. d = IF w \in S THEN << w >> ELSE << >>
      BY <1>1, <3>1, OnlyOne
    <3> QED
      BY <3>1, <3>2, EventsFew
  <2> QED
    BY <1>3, <2>1, <2>2
<1>5. PICK e, f : e = Events("unmap", late) /\ f = Events("unmap", d)
  OBVIOUS
<1>6. /\ e \in Seq(EventSet) /\ f \in Seq(EventSet) /\ OneMap(e) /\ OneMap(f)
      /\ \A t, w : Has(e, t, w) <=> t = "unmap" /\ w \in ToSet(late)
      /\ \A t, w : Has(f, t, w) <=> t = "unmap" /\ w \in ToSet(d)
  BY <1>3, <1>4, <1>5, EventsHas
<1>7. PICK p : p = rest \o e
  OBVIOUS
<1>8. /\ p \in Seq(EventSet) /\ OneMap(p)
      /\ \A t, w : Has(p, t, w) <=> Has(rest, t, w) \/ Has(e, t, w)
      /\ \A v, a : Ahead(rest, v, a) /\ ~Has(e, "unmap", v) => Ahead(p, v, a)
  BY <1>3, <1>6, <1>7, QueueMore
<1>9. queue' = p \o f
  BY <1>2, <1>5, <1>7
<1>10. /\ queue' \in Seq(EventSet) /\ OneMap(queue')
       /\ \A t, w : Has(queue', t, w) <=> Has(p, t, w) \/ Has(f, t, w)
       /\ \A v, a : Ahead(p, v, a) /\ ~Has(f, "unmap", v) => Ahead(queue', v, a)
  BY <1>6, <1>8, <1>9, QueueMore
<1> QED
  BY <1>4, <1>6, <1>8, <1>10 DEF QueueAfter

\* Looking up a window finds its client, or the one that stands in for it.
LEMMA Lookup ==
  ASSUME NEW W, Good(W), NEW w
  PROVE  /\ wintoclient(W, w) = None <=> w \notin WinsOf(W)
         /\ wintoclient(W, w) # None =>
              wintoclient(W, w) \in Managed(W) /\ W.cl[wintoclient(W, w)].win = w
         /\ Swallower(W, w) # {} <=> w \in HidsOf(W)
         /\ \A p \in Swallower(W, w) :
              p \in Managed(W) /\ W.cl[p].swallowing # None /\ W.cl[W.cl[p].swallowing].win = w
<1>1. Managed(W) \subseteq Ids /\ None \notin Ids
  BY WmFields, NonePlain DEF Good
<1>2. OfWindow(W, w) = {} <=> w \notin WinsOf(W)
  BY DEF OfWindow, WinsOf
<1>3. OfWindow(W, w) # {} => wintoclient(W, w) \in OfWindow(W, w)
  BY DEF wintoclient
<1>4. \A c \in OfWindow(W, w) : c \in Managed(W) /\ W.cl[c].win = w
  BY DEF OfWindow
<1>5. OfWindow(W, w) = {} => wintoclient(W, w) = None
  BY DEF wintoclient
<1>6. Swallower(W, w) # {} <=> w \in HidsOf(W)
  BY DEF Swallower, HidsOf, HiddenOf
<1>7. \A p \in Swallower(W, w) :
        p \in Managed(W) /\ W.cl[p].swallowing # None /\ W.cl[W.cl[p].swallowing].win = w
  BY DEF Swallower
<1> QED
  BY <1>1, <1>2, <1>3, <1>4, <1>5, <1>6, <1>7

\* What dwm has forgotten after a handler.
LEMMA FinishLost ==
  ASSUME Sound(xs, queue, wm, hid, lost), NEW o, NEW rest, NEW late, Good(o.wm),
         o.up \subseteq Wins, Finish(o, rest, late)
  PROVE  /\ lost' \subseteq Wins
         /\ lost' \cap (WinsOf(o.wm) \cup HidsOf(o.wm)) = {}
         /\ \A v \in lost \cup {w \in o.up : xs[w] # "gone"} \cup (hid \cap HidsOf(wm)) :
              v \in lost' \/ v \in WinsOf(o.wm) \cup HidsOf(o.wm)
<1>1. lost' = {w \in lost \cup {v \in o.up : xs[v] # "gone"} \cup {v \in hid : Swallower(wm, v) # {}} :
                 wintoclient(o.wm, w) = None /\ Swallower(o.wm, w) = {}}
  BY DEF Finish
<1>2. Good(wm) /\ lost \subseteq Wins /\ hid \subseteq Wins
  BY DEF Sound, Typed
<1>3. \A w : w \in lost' <=>
        /\ w \in lost \/ (w \in o.up /\ xs[w] # "gone") \/ (w \in hid /\ w \in HidsOf(wm))
        /\ w \notin WinsOf(o.wm) /\ w \notin HidsOf(o.wm)
  BY <1>1, <1>2, Lookup
<1> QED
  BY <1>2, <1>3

\* Whatever handler ends, what holds between two handlers holds again.
LEMMA FinishSound ==
  ASSUME Sound(xs, queue, wm, hid, lost), NEW o, NEW rest, NEW late, NEW G,
         Fits(wm, o, G), Starts(o, rest, late, G), Finish(o, rest, late)
  PROVE  Sound(xs', queue', wm', hid', lost')
<1>1. RestMeans(o, rest, late, G)
  BY StartsMeans
<1>2. ScreenAfter(o, late) /\ QueueAfter(o, rest, late)
  BY <1>1, FinishScreen, FinishQueue
<1>3. o.up \subseteq Wins /\ Good(o.wm)
  BY <1>1 DEF RestMeans, Fits
<1>4. /\ lost' \subseteq Wins
      /\ lost' \cap (WinsOf(o.wm) \cup HidsOf(o.wm)) = {}
      /\ \A v \in lost \cup {w \in o.up : xs[w] # "gone"} \cup (hid \cap HidsOf(wm)) :
           v \in lost' \/ v \in WinsOf(o.wm) \cup HidsOf(o.wm)
  BY <1>3, FinishLost
<1> DEFINE D == ToSet(o.down)
           L == ToSet(late)
<1>5. /\ Typed(xs, queue, wm, hid, lost) /\ Away(xs, wm, hid) /\ Told(xs, queue, wm)
      /\ Asked(xs, queue, wm) /\ Known(wm, hid, lost)
  BY DEF Sound
<1>6. /\ WinsOf(wm) \subseteq Wins /\ HidsOf(wm) \subseteq Wins /\ WinsOf(wm) \cap HidsOf(wm) = {}
      /\ WinsOf(o.wm) \subseteq Wins /\ HidsOf(o.wm) \subseteq Wins /\ WinsOf(o.wm) \cap HidsOf(o.wm) = {}
  BY <1>3, <1>5, WindowsApart DEF Typed
<1>7. /\ Dormant(o.wm) = {} /\ o.up \cap D = {}
      /\ WinsOf(o.wm) \subseteq (WinsOf(wm) \ (G \cup D)) \cup o.up
      /\ HidsOf(o.wm) \subseteq (HidsOf(wm) \ (G \cup o.up)) \cup D
      /\ D \subseteq WinsOf(wm) \cap HidsOf(o.wm)
  BY DEF Fits
<1>8. L \subseteq o.up /\ L \cap HidsOf(wm) = {}
  BY <1>1 DEF RestMeans
<1>9. \A v \in o.up : /\ v \notin WinsOf(wm) /\ v \notin G
                      /\ v \in HidsOf(wm) \/ (xs[v] # "gone" /\ ~Has(rest, "map", v))
  BY <1>1 DEF RestMeans
<1>10. /\ \A v \in Wins : xs'[v] = "gone" <=> xs[v] = "gone"
       /\ \A v \in Wins : v \notin o.up /\ v \notin D => xs'[v] = xs[v]
       /\ \A v \in Wins : xs[v] # "gone" /\ (v \in D \/ v \in L) => xs'[v] = "unmapped"
       /\ \A v \in Wins : xs[v] # "gone" /\ v \in o.up /\ v \notin L => xs'[v] = "mapped"
       /\ \A v \in Wins : v \in hid' <=> (v \in hid /\ v \notin o.up) \/ (v \in D /\ xs[v] # "gone")
       /\ hid' \subseteq Wins /\ wm' = o.wm
  BY <1>2 DEF ScreenAfter
<1>11. \A t, v : Has(queue', t, v) <=>
         \/ Has(rest, t, v)
         \/ t = "unmap" /\ (v \in L \/ (v \in D /\ xs[v] = "mapped"))
  BY <1>2 DEF QueueAfter
<1>12. /\ \A t, v : Has(rest, t, v) => Has(queue, t, v)
       /\ \A v : v \notin G /\ Has(queue, "unmap", v) => Has(rest, "unmap", v)
       /\ \A v : v \notin G /\ Has(queue, "destroy", v) => Has(rest, "destroy", v)
  BY <1>1 DEF RestMeans
<1> HIDE DEF D, L
<1>13. Typed(xs', queue', o.wm, hid', lost')
  BY <1>2, <1>3, <1>4 DEF Typed, ScreenAfter, QueueAfter
<1>14. /\ \A v \in HidsOf(wm) : xs[v] = "gone" \/ v \in hid
       /\ \A v \in hid : xs[v] = "unmapped"
       /\ WinsOf(wm) \cap hid = {} /\ hid \subseteq Wins
  BY <1>5 DEF Away, Typed
<1>15. Away(xs', o.wm, hid')
  <2>1. \A v \in WinsOf(o.wm) : v \notin hid'
    BY <1>6, <1>7, <1>10, <1>14
  <2>2. \A v \in HidsOf(o.wm) : xs'[v] = "gone" \/ v \in hid'
    BY <1>6, <1>7, <1>10, <1>14
  <2>3. \A v \in hid' : xs'[v] = "unmapped"
    <3> SUFFICES ASSUME NEW v \in hid' PROVE xs'[v] = "unmapped"
      OBVIOUS
    <3>1. v \in Wins
      BY <1>10
    <3>2. CASE v \in D /\ xs[v] # "gone"
      BY <1>10, <3>1, <3>2
    <3>3. CASE v \in hid /\ v \notin o.up /\ v \notin D
      BY <1>10, <1>14, <3>1, <3>3
    <3>4. v \in D => v \notin hid
      BY <1>7, <1>14
    <3> QED
      BY <1>10, <3>1, <3>2, <3>3, <3>4
  <2> QED
    BY <2>1, <2>2, <2>3 DEF Away
<1>16. /\ \A v \in WinsOf(wm) : xs[v] = "unmapped" => Has(queue, "unmap", v)
       /\ \A v \in WinsOf(wm) \cup HidsOf(wm) : xs[v] = "gone" => Has(queue, "destroy", v)
       /\ \A v \in Wins : Has(queue, "destroy", v) => xs[v] = "gone"
  BY <1>5 DEF Told
<1>17. Told(xs', queue', o.wm)
  <2>1. \A v \in WinsOf(o.wm) : xs'[v] = "unmapped" => Has(queue', "unmap", v)
    <3> SUFFICES ASSUME NEW v \in WinsOf(o.wm), xs'[v] = "unmapped" PROVE Has(queue', "unmap", v)
      OBVIOUS
    <3>1. v \in Wins /\ xs[v] # "gone"
      BY <1>6, <1>10
    <3>2. CASE v \in o.up
      <4>1. v \in L
        BY <1>10, <3>1, <3>2
      <4> QED
        BY <1>11, <4>1
    <3>3. CASE v \in WinsOf(wm) /\ v \notin G /\ v \notin D /\ v \notin o.up
      BY <1>10, <1>11, <1>12, <1>16, <3>1, <3>3
    <3> QED
      BY <1>7, <3>2, <3>3
  <2>2. \A v \in WinsOf(o.wm) \cup HidsOf(o.wm) : xs'[v] = "gone" => Has(queue', "destroy", v)
    <3> SUFFICES ASSUME NEW v \in WinsOf(o.wm) \cup HidsOf(o.wm), xs'[v] = "gone"
                 PROVE  Has(queue', "destroy", v)
      OBVIOUS
    <3>1. v \in Wins /\ xs[v] = "gone"
      BY <1>6, <1>10
    <3>2. v \in WinsOf(wm) \cup HidsOf(wm)
      BY <1>7, <1>9, <3>1
    <3>3. v \notin G
      <4>1. D \cap G = {}
        <5>1. \A u \in D : u \in HidsOf(o.wm) /\ u \in WinsOf(wm)
          BY <1>7
        <5>2. D = {} \/ G = {}
          BY DEF Starts, StartsQuiet, StartsLeft, StartsCame, D, ToSet
        <5> QED
          BY <5>2
      <4> QED
        BY <1>7, <1>9, <4>1
    <3> QED
      BY <1>11, <1>12, <1>16, <3>1, <3>2, <3>3
  <2>3. \A v \in Wins : Has(queue', "destroy", v) => xs'[v] = "gone"
    BY <1>10, <1>11, <1>12, <1>16
  <2>4. SleepOf(o.wm) = {}
    BY <1>7 DEF SleepOf
  <2> QED
    BY <2>1, <2>2, <2>3, <2>4 DEF Told
<1>18. Asked(xs', queue', o.wm)
  <2>1. OneMap(queue')
    BY <1>2 DEF QueueAfter
  <2> SUFFICES ASSUME NEW v \in Wins, Has(queue', "map", v), xs'[v] # "gone"
               PROVE  ~Has(queue', "unmap", v) /\ v \notin WinsOf(o.wm) \cup HidsOf(o.wm)
    BY <2>1 DEF Asked
  <2>2. Has(rest, "map", v) /\ Has(queue, "map", v) /\ xs[v] # "gone"
    BY <1>10, <1>11, <1>12
  <2>3. ~Has(queue, "unmap", v) /\ v \notin WinsOf(wm) \cup HidsOf(wm)
    BY <1>5, <2>2 DEF Asked
  <2>4. v \notin o.up /\ v \notin D
    BY <1>7, <1>9, <2>2, <2>3
  <2> QED
    BY <1>7, <1>8, <1>11, <1>12, <2>3, <2>4
<1>19. Known(o.wm, hid', lost')
  <2>1. lost' \cap WinsOf(o.wm) = {}
    BY <1>4
  <2> SUFFICES ASSUME NEW v \in hid', v \notin lost' PROVE v \in HidsOf(o.wm)
    BY <2>1 DEF Known
  <2>2. v \in Wins
    BY <1>10
  <2>3. v \notin WinsOf(o.wm)
    BY <1>15 DEF Away
  <2>4. CASE v \in D
    BY <1>7, <2>4
  <2>5. CASE v \in hid
    <3>1. v \in lost \/ v \in HidsOf(wm)
      BY <1>5, <2>5 DEF Known
    <3> QED
      BY <1>4, <2>3, <2>5, <3>1
  <2> QED
    BY <1>10, <2>2, <2>4, <2>5
<1> QED
  BY <1>10, <1>13, <1>15, <1>17, <1>18, <1>19 DEF Sound

\* The part about what is on the screen, where no window that may unmap itself
\* while manage runs takes the place of a terminal.
Shown(x, q, W, l) ==
    /\ \A a, v : StandsIn(W, a, v) => Ahead(q, v, a)
    /\ \A v \in WinsOf(W) : Has(q, "unmap", v) => x[v] # "mapped"
    /\ \A v \in Wins : x[v] = "mapped" /\ v \notin l => Has(q, "map", v) \/ v \in WinsOf(W)

\* It holds again when a handler ends.
LEMMA FinishShown ==
  ASSUME Sound(xs, queue, wm, hid, lost), Shown(xs, queue, wm, lost), Calm,
         NEW o, NEW rest, NEW late, NEW G,
         Fits(wm, o, G), Starts(o, rest, late, G), Finish(o, rest, late)
  PROVE  Shown(xs', queue', wm', lost')
<1>1. RestMeans(o, rest, late, G)
  BY StartsMeans
<1>2. ScreenAfter(o, late) /\ QueueAfter(o, rest, late)
  BY <1>1, FinishScreen, FinishQueue
<1>3. o.up \subseteq Wins /\ Good(o.wm)
  BY <1>1 DEF RestMeans, Fits
<1>4. \A v \in lost \cup {w \in o.up : xs[w] # "gone"} \cup (hid \cap HidsOf(wm)) :
        v \in lost' \/ v \in WinsOf(o.wm) \cup HidsOf(o.wm)
  BY <1>3, FinishLost
<1> DEFINE D == ToSet(o.down)
           L == ToSet(late)
<1>5. /\ Away(xs, wm, hid) /\ Told(xs, queue, wm) /\ Good(wm)
  BY DEF Sound, Typed
<1>6. /\ WinsOf(wm) \subseteq Wins /\ HidsOf(wm) \subseteq Wins /\ WinsOf(wm) \cap HidsOf(wm) = {}
      /\ WinsOf(o.wm) \subseteq Wins /\ HidsOf(o.wm) \subseteq Wins
      /\ \A a, v : StandsIn(wm, a, v) => a \in WinsOf(wm) /\ v \in HidsOf(wm)
  BY <1>3, <1>5, WindowsApart
<1>7. /\ o.up \cap D = {}
      /\ WinsOf(o.wm) \subseteq (WinsOf(wm) \ (G \cup D)) \cup o.up
      /\ HidsOf(o.wm) \subseteq (HidsOf(wm) \ (G \cup o.up)) \cup D
      /\ \A a, v : StandsIn(o.wm, a, v) => StandsIn(wm, a, v) \/ (a \in o.up /\ v \in D)
      /\ WinsOf(wm) \subseteq WinsOf(o.wm) \cup G \cup D \cup SleepOf(wm)
      /\ D \subseteq WinsOf(wm)
  BY DEF Fits
<1>8. \A v \in L : v \in o.up /\ v \notin HidsOf(wm) /\ D = {}
  BY <1>1 DEF RestMeans
<1>9. \A v \in o.up :
        /\ v \notin WinsOf(wm)
        /\ \/ v \in HidsOf(wm) /\ D = {}
           \/ v \notin HidsOf(wm) /\ ~Has(queue, "unmap", v) /\ ~Has(queue, "destroy", v)
  BY <1>1 DEF RestMeans
<1>10. /\ \A v \in Wins : xs'[v] = "gone" <=> xs[v] = "gone"
       /\ \A v \in Wins : v \notin o.up /\ v \notin D => xs'[v] = xs[v]
       /\ \A v \in Wins : xs[v] # "gone" /\ (v \in D \/ v \in L) => xs'[v] = "unmapped"
       /\ wm' = o.wm
  BY <1>2 DEF ScreenAfter
<1>11. /\ \A t, v : Has(queue', t, v) <=>
            \/ Has(rest, t, v)
            \/ t = "unmap" /\ (v \in L \/ (v \in D /\ xs[v] = "mapped"))
       /\ \A v, a : Ahead(rest, v, a) /\ v \notin L /\ v \notin D => Ahead(queue', v, a)
       /\ queue' \in Seq(EventSet)
  BY <1>2 DEF QueueAfter
<1>12. /\ \A t, v : Has(rest, t, v) => Has(queue, t, v)
       /\ \A v : v \notin o.up /\ Has(queue, "map", v) => Has(rest, "map", v)
       /\ \A v, a : Ahead(queue, v, a) => Ahead(rest, v, a)
       /\ \A v \in G : Has(queue, "unmap", v) \/ Has(queue, "destroy", v)
  BY <1>1 DEF RestMeans
<1>13. /\ \A a, v : StandsIn(wm, a, v) => Ahead(queue, v, a)
       /\ \A v \in WinsOf(wm) : Has(queue, "unmap", v) => xs[v] # "mapped"
       /\ \A v \in Wins : xs[v] = "mapped" /\ v \notin lost => Has(queue, "map", v) \/ v \in WinsOf(wm)
  BY DEF Shown
<1>14. \A v \in o.up : v \in HidsOf(wm) => ~Has(queue, "unmap", v)
  BY <1>1, <1>13 DEF RestMeans
<1>15. Away(xs', o.wm, hid')
  <2>1. Sound(xs', queue', wm', hid', lost')
    BY FinishSound
  <2> QED
    BY <1>10, <2>1 DEF Sound
<1> HIDE DEF D, L
<1>16. ASSUME NEW a, NEW v, StandsIn(o.wm, a, v) PROVE Ahead(queue', v, a)
  <2>1. CASE StandsIn(wm, a, v)
    <3>1. v \notin D /\ v \notin L
      BY <1>6, <1>7, <1>8, <2>1
    <3> QED
      BY <1>11, <1>12, <1>13, <2>1, <3>1
  <2>2. CASE a \in o.up /\ v \in D
    <3>1. L = {} /\ ~Has(queue, "unmap", a) /\ ~Has(queue, "destroy", a)
      BY <1>8, <1>9, <2>2
    <3>2. ~Has(queue', "unmap", a) /\ ~Has(queue', "destroy", a)
      BY <1>7, <1>11, <1>12, <2>2, <3>1
    <3> QED
      BY <1>11, <3>2, AheadOfNone
  <2> QED
    BY <1>7, <1>16, <2>1, <2>2
<1>17. ASSUME NEW v \in WinsOf(o.wm), Has(queue', "unmap", v) PROVE xs'[v] # "mapped"
  <2>1. v \in Wins
    BY <1>6
  <2>2. CASE v \in L
    BY <1>10, <2>1, <2>2
  <2>3. CASE v \notin L /\ v \in o.up
    <3>1. ~Has(queue, "unmap", v) /\ v \notin D
      BY <1>7, <1>9, <1>14, <2>3
    <3> QED
      BY <1>11, <1>12, <1>17, <2>3, <3>1
  <2>4. CASE v \notin L /\ v \notin o.up
    <3>1. v \in WinsOf(wm) /\ v \notin D
      BY <1>7, <2>4
    <3> QED
      BY <1>10, <1>11, <1>12, <1>13, <1>17, <2>1, <2>4, <3>1
  <2> QED
    BY <2>2, <2>3, <2>4
<1>18. ASSUME NEW v \in Wins, xs'[v] = "mapped", v \notin lost'
       PROVE  Has(queue', "map", v) \/ v \in WinsOf(o.wm)
  <2>1. v \notin HidsOf(o.wm) /\ xs[v] # "gone" /\ v \notin D /\ v \notin L
    <3>1. v \notin HidsOf(o.wm)
      BY <1>15, <1>18 DEF Away
    <3> QED
      BY <1>10, <1>18, <3>1
  <2>2. CASE v \in lost \/ v \in o.up
    BY <1>4, <1>18, <2>1, <2>2
  <2>3. CASE v \notin lost /\ v \notin o.up
    <3>1. xs[v] = "mapped"
      BY <1>10, <1>18, <2>1, <2>3
    <3>2. CASE Has(queue, "map", v)
      BY <1>11, <1>12, <2>3, <3>2
    <3>3. CASE v \in WinsOf(wm)
      <4>1. v \notin G
        BY <1>5, <1>12, <1>13, <3>1, <3>3 DEF Told
      <4>2. v \notin SleepOf(wm)
        BY <1>5, <3>1 DEF Told
      <4> QED
        BY <1>7, <2>1, <3>3, <4>1, <4>2
    <3> QED
      BY <1>13, <2>3, <3>1, <3>2, <3>3
  <2> QED
    BY <2>2, <2>3
<1> QED
  BY <1>10, <1>16, <1>17, <1>18 DEF Shown

-----------------------------------------------------------------------------
(* Each action.                                                            *)

IInv == Sound(xs, queue, wm, hid, lost)

\* An event that finds nothing to do.
LEMMA SkipKeeps ==
  ASSUME IInv, queue # << >>,
         Head(queue).t = "map" => xs[Head(queue).w] = "gone" \/ Head(queue).w \in WinsOf(wm),
         Head(queue).t = "unmap" => Head(queue).w \notin WinsOf(wm),
         Head(queue).t = "destroy" => Head(queue).w \notin WinsOf(wm) \cup HidsOf(wm),
         Skip
  PROVE  /\ Sound(xs', queue', wm', hid', lost')
         /\ Shown(xs, queue, wm, lost) => Shown(xs', queue', wm', lost')
<1>1. queue' = Tail(queue) /\ xs' = xs /\ wm' = wm /\ hid' = hid /\ lost' = lost
  BY DEF Skip
<1>2. Typed(xs, queue, wm, hid, lost) /\ Away(xs, wm, hid) /\ Told(xs, queue, wm)
      /\ Asked(xs, queue, wm) /\ Known(wm, hid, lost)
  BY DEF IInv, Sound
<1>3. queue \in Seq(EventSet) /\ Good(wm)
  BY <1>2 DEF Typed
<1>4. PICK e, r : e = Head(queue) /\ r = Tail(queue)
  OBVIOUS
<1>5. /\ r \in Seq(EventSet) /\ e \in EventSet
      /\ \A t, w : Has(r, t, w) => Has(queue, t, w)
      /\ \A t, w : Has(queue, t, w) => Has(r, t, w) \/ (e.t = t /\ e.w = w)
      /\ \A v, a : Ahead(queue, v, a) => Ahead(r, v, a)
      /\ OneMap(queue) => OneMap(r)
  BY <1>3, <1>4, QueueTail
<1>6. WinsOf(wm) \subseteq Wins /\ HidsOf(wm) \subseteq Wins
  BY <1>3, WindowsApart
<1>7. /\ e.t = "map" => xs[e.w] = "gone" \/ e.w \in WinsOf(wm)
      /\ e.t = "unmap" => e.w \notin WinsOf(wm)
      /\ e.t = "destroy" => e.w \notin WinsOf(wm) \cup HidsOf(wm)
  BY <1>4
<1>8. Typed(xs, r, wm, hid, lost)
  BY <1>2, <1>5 DEF Typed
<1>9. Told(xs, r, wm)
  BY <1>2, <1>5, <1>7 DEF Told
<1>10. Asked(xs, r, wm)
  BY <1>2, <1>5 DEF Asked
<1>11. Shown(xs, queue, wm, lost) => Shown(xs, r, wm, lost)
  <2>1. \A v \in Wins : xs[v] = "mapped" /\ Has(queue, "map", v) => Has(r, "map", v) \/ v \in WinsOf(wm)
    BY <1>5, <1>7
  <2> QED
    BY <1>5, <2>1 DEF Shown
<1> QED
  BY <1>1, <1>2, <1>4, <1>8, <1>9, <1>10, <1>11 DEF Sound

\* A handler that ends, in one.
LEMMA FinishKeeps ==
  ASSUME IInv, NEW o, NEW rest, NEW late, NEW G,
         Fits(wm, o, G), Starts(o, rest, late, G), Finish(o, rest, late)
  PROVE  /\ Sound(xs', queue', wm', hid', lost')
         /\ Calm /\ Shown(xs, queue, wm, lost) => Shown(xs', queue', wm', lost')
<1>1. Sound(xs', queue', wm', hid', lost')
  BY FinishSound DEF IInv
<1>2. ASSUME Calm, Shown(xs, queue, wm, lost) PROVE Shown(xs', queue', wm', lost')
  BY <1>2, FinishShown DEF IInv
<1> QED
  BY <1>1, <1>2

\* A window that asks to be mapped.
LEMMA MapKeeps ==
  ASSUME IInv, \A w \in NewMaster : Alone(w), maprequest
  PROVE  /\ Sound(xs', queue', wm', hid', lost')
         /\ Calm /\ Shown(xs, queue, wm, lost) => Shown(xs', queue', wm', lost')
<1>1. PICK w : w = Head(queue).w
  OBVIOUS
<1>2. queue # << >> /\ Head(queue).t = "map"
  BY DEF maprequest, Event
<1>3. Good(wm) /\ queue \in Seq(EventSet) /\ Asked(xs, queue, wm)
  BY DEF IInv, Sound, Typed
<1>4. w \in Wins /\ Has(queue, "map", w)
  BY <1>1, <1>2, <1>3, QueueTail DEF EventSet
<1>5. wintoclient(wm, w) = None <=> w \notin WinsOf(wm)
  BY <1>3, Lookup
<1>6. CASE xs[w] = "gone" \/ wintoclient(wm, w) # None
  <2>1. Skip
    BY <1>1, <1>6 DEF maprequest
  <2> QED
    BY <1>1, <1>2, <1>5, <1>6, <2>1, SkipKeeps
<1>7. CASE xs[w] # "gone" /\ wintoclient(wm, w) = None
  <2>1. w \notin WinsOf(wm) \cup HidsOf(wm)
    BY <1>3, <1>4, <1>7 DEF Asked
  <2>2. /\ TermsFor(wm, w) \cap Dormant(wm) = {}
        /\ \E i \in {j \in Ids : wm.cl[j] = Free} :
             \E late \in IF w \in Hasty THEN {<< >>, << w >>} ELSE {<< >>} : manage(w, i, late)
    BY <1>1, <1>7 DEF maprequest
  <2>3. PICK i \in Ids : wm.cl[i] = Free /\
             \E late \in IF w \in Hasty THEN {<< >>, << w >>} ELSE {<< >>} : manage(w, i, late)
    BY <2>2
  <2>4. PICK late \in IF w \in Hasty THEN {<< >>, << w >>} ELSE {<< >>} : manage(w, i, late)
    BY <2>3
  <2>5. PICK p \in ParentsOf(wm, w), u \in UltsOf(wm, w, i), t \in TermFor(wm, w) :
          \E Y \in Arrange(Attached(wm, w, i, p, u)) : \E X \in Swallowed(Y, w, t, i) :
             Finish([wm |-> Begun(X, w, t, i), up |-> {w},
                     down |-> IF i \in Managed(X) \/ t \notin Managed(X) THEN << >> ELSE << wm.cl[t].win >>],
                    Tail(queue), late)
    BY <2>4 DEF manage
  <2>6. PICK Y \in Arrange(Attached(wm, w, i, p, u)) : \E X \in Swallowed(Y, w, t, i) :
             Finish([wm |-> Begun(X, w, t, i), up |-> {w},
                     down |-> IF i \in Managed(X) \/ t \notin Managed(X) THEN << >> ELSE << wm.cl[t].win >>],
                    Tail(queue), late)
    BY <2>5
  <2>7. PICK X \in Swallowed(Y, w, t, i) :
             Finish([wm |-> Begun(X, w, t, i), up |-> {w},
                     down |-> IF i \in Managed(X) \/ t \notin Managed(X) THEN << >> ELSE << wm.cl[t].win >>],
                    Tail(queue), late)
    BY <2>6
  <2>8. PICK s : s = IF i \in Managed(X) \/ t \notin Managed(X) THEN << >> ELSE << wm.cl[t].win >>
    OBVIOUS
  <2>9. PICK o : o = [wm |-> Begun(X, w, t, i), up |-> {w}, down |-> s]
    OBVIOUS
  <2>10. Finish(o, Tail(queue), late)
    BY <2>7, <2>8, <2>9
  <2>11. /\ Fits(wm, [wm |-> Begun(X, w, t, i), up |-> {w}, down |-> s], {})
         /\ s = << >> \/ (~Alone(w) /\ \E d \in Wins : s = << d >>)
    BY <1>3, <1>4, <2>1, <2>2, <2>3, <2>8, ManageFits
  <2>12. Fits(wm, o, {}) /\ o.up = {w} /\ o.down = s
    BY <2>9, <2>11
  <2>13. late = << >> \/ (late = << w >> /\ w \in Hasty)
    BY <2>4
  <2>14. Starts(o, Tail(queue), late, {})
    BY <1>1, <1>2, <1>7, <2>11, <2>12, <2>13 DEF Starts, StartsCame
  <2> QED
    BY <2>10, <2>12, <2>14, FinishKeeps
<1> QED
  BY <1>6, <1>7

\* A client's window, or one that a client stands in for, is unmapped or gone.
LEMMA UnmanageKeeps ==
  ASSUME IInv, queue # << >>, Head(queue).t # "map", NEW c,
         \/ c \in Managed(wm)
         \/ \E p \in Managed(wm) : wm.cl[p].swallowing # None /\ c = wm.cl[p].swallowing,
         wm.cl[c].win = Head(queue).w,
         NEW o \in unmanage(wm, c), Finish(o, Tail(queue), << >>)
  PROVE  /\ Sound(xs', queue', wm', hid', lost')
         /\ Calm /\ Shown(xs, queue, wm, lost) => Shown(xs', queue', wm', lost')
<1>1. Good(wm)
  BY DEF IInv, Sound, Typed
<1>2. /\ Fits(wm, o, {wm.cl[c].win}) /\ o.down = << >>
      /\ \A v \in o.up : StandsIn(wm, wm.cl[c].win, v)
  BY <1>1, UnmanageFits
<1>3. PICK G : G = {Head(queue).w}
  OBVIOUS
<1>4. Fits(wm, o, G) /\ Starts(o, Tail(queue), << >>, G)
  BY <1>2, <1>3 DEF Starts, StartsLeft
<1> QED
  BY <1>4, FinishKeeps

\* UnmapNotify.
LEMMA UnmapKeeps ==
  ASSUME IInv, unmapnotify
  PROVE  /\ Sound(xs', queue', wm', hid', lost')
         /\ Calm /\ Shown(xs, queue, wm, lost) => Shown(xs', queue', wm', lost')
<1>1. PICK w, c : w = Head(queue).w /\ c = wintoclient(wm, w)
  OBVIOUS
<1>2. queue # << >> /\ Head(queue).t = "unmap"
  BY DEF unmapnotify, Event
<1>3. Good(wm)
  BY DEF IInv, Sound, Typed
<1>4. /\ c = None <=> w \notin WinsOf(wm)
      /\ c # None => c \in Managed(wm) /\ wm.cl[c].win = w
  BY <1>1, <1>3, Lookup
<1>5. CASE c = None
  <2>1. Skip
    BY <1>1, <1>5 DEF unmapnotify
  <2> QED
    BY <1>1, <1>2, <1>4, <1>5, <2>1, SkipKeeps
<1>6. CASE c # None
  <2>1. PICK o \in unmanage(wm, c) : Finish(o, Tail(queue), << >>)
    BY <1>1, <1>6 DEF unmapnotify
  <2> QED
    BY <1>1, <1>2, <1>4, <1>6, <2>1, UnmanageKeeps
<1> QED
  BY <1>5, <1>6

\* DestroyNotify.
LEMMA DestroyKeeps ==
  ASSUME IInv, destroynotify
  PROVE  /\ Sound(xs', queue', wm', hid', lost')
         /\ Calm /\ Shown(xs, queue, wm, lost) => Shown(xs', queue', wm', lost')
<1>1. PICK w, c : w = Head(queue).w /\ c = wintoclient(wm, w)
  OBVIOUS
<1>2. queue # << >> /\ Head(queue).t = "destroy"
  BY DEF destroynotify, Event
<1>3. Good(wm)
  BY DEF IInv, Sound, Typed
<1>4. /\ c = None <=> w \notin WinsOf(wm)
      /\ c # None => c \in Managed(wm) /\ wm.cl[c].win = w
      /\ Swallower(wm, w) # {} <=> w \in HidsOf(wm)
      /\ \A p \in Swallower(wm, w) :
           p \in Managed(wm) /\ wm.cl[p].swallowing # None /\ wm.cl[wm.cl[p].swallowing].win = w
  BY <1>1, <1>3, Lookup
<1>5. CASE c # None
  <2>1. PICK o \in unmanage(wm, c) : Finish(o, Tail(queue), << >>)
    BY <1>1, <1>5 DEF destroynotify
  <2> QED
    BY <1>1, <1>2, <1>4, <1>5, <2>1, UnmanageKeeps
<1>6. CASE c = None /\ Swallower(wm, w) = {}
  <2>1. Skip
    BY <1>1, <1>6 DEF destroynotify
  <2> QED
    BY <1>1, <1>2, <1>4, <1>6, <2>1, SkipKeeps
<1>7. CASE c = None /\ Swallower(wm, w) # {}
  <2>1. PICK p \in Swallower(wm, w) :
          \E o \in unmanage(wm, wm.cl[p].swallowing) : Finish(o, Tail(queue), << >>)
    BY <1>1, <1>7 DEF destroynotify
  <2>2. PICK d : d = wm.cl[p].swallowing
    OBVIOUS
  <2>3. PICK o \in unmanage(wm, d) : Finish(o, Tail(queue), << >>)
    BY <2>1, <2>2
  <2>4. p \in Managed(wm) /\ wm.cl[p].swallowing # None /\ wm.cl[d].win = Head(queue).w
    BY <1>1, <1>4, <2>2
  <2> QED
    BY <1>2, <2>2, <2>3, <2>4, UnmanageKeeps
<1> QED
  BY <1>5, <1>6, <1>7

\* A monitor is rearranged.
LEMMA ArrangeKeeps ==
  ASSUME IInv, arrange
  PROVE  /\ Sound(xs', queue', wm', hid', lost')
         /\ Calm /\ Shown(xs, queue, wm, lost) => Shown(xs', queue', wm', lost')
<1>1. Good(wm)
  BY DEF IInv, Sound, Typed
<1>2. PICK W \in Arrange(wm) : Finish(Outcome(W), queue, << >>)
  BY DEF arrange
<1>3. Less(W, wm, SleepOf(wm)) /\ Dormant(W) = {}
  BY <1>1, <1>2, ArrangeLess
<1>4. PICK o : o = Outcome(W)
  OBVIOUS
<1>5. o.wm = W /\ o.up = {} /\ o.down = << >> /\ ToSet(o.down) = {}
  BY <1>4 DEF Outcome, ToSet
<1>6. Fits(wm, o, {})
  BY <1>3, <1>5 DEF Fits, Less
<1>7. Starts(o, queue, << >>, {})
  BY <1>5 DEF Starts, StartsQuiet
<1> QED
  BY <1>2, <1>4, <1>6, <1>7, FinishKeeps

\* Steps that change clients, but none of their windows.
LEMMA PlainKeeps ==
  ASSUME IInv, UNCHANGED << xs, queue, hid, lost >>, Good(wm'),
         NEW V, V = wm',
         WinsOf(V) = WinsOf(wm), HidsOf(V) = HidsOf(wm),
         \A a, v : StandsIn(V, a, v) => StandsIn(wm, a, v),
         \A v \in SleepOf(V) : xs[v] = "gone"
  PROVE  /\ Sound(xs', queue', wm', hid', lost')
         /\ Shown(xs, queue, wm, lost) => Shown(xs', queue', wm', lost')
<1>1. Sound(xs, queue, V, hid, lost)
  BY DEF IInv, Sound, Typed, Away, Told, Asked, Known
<1>2. Shown(xs, queue, wm, lost) => Shown(xs, queue, V, lost)
  BY DEF Shown
<1>3. xs' = xs /\ queue' = queue /\ hid' = hid /\ lost' = lost
  OBVIOUS
<1> QED
  BY <1>1, <1>2, <1>3

\* A client whose window is found gone.
LEMMA ErrorKeeps ==
  ASSUME IInv, NEW c \in Managed(wm), xerror(c)
  PROVE  /\ Sound(xs', queue', wm', hid', lost')
         /\ Shown(xs, queue, wm, lost) => Shown(xs', queue', wm', lost')
<1>1. /\ xs[wm.cl[c].win] = "gone" /\ wm' = [wm EXCEPT !.cl[c].dormant = TRUE]
      /\ UNCHANGED << xs, queue, hid, lost >>
  BY DEF xerror
<1>2. Good(wm) /\ wm \in Wm /\ \A v \in SleepOf(wm) : xs[v] = "gone"
  BY DEF IInv, Sound, Typed, Told, Good
<1>3. Listed(wm) /\ Linked(wm) /\ Older(wm) /\ Swallowing(wm) /\ Apart(wm)
  BY <1>2 DEF Good
<1>4. /\ wm.cl \in [Ids -> Cell \cup {Free}] /\ Managed(wm) \subseteq Ids /\ wm.cl[c] \in Cell
  BY <1>2, <1>3, WmFields DEF Linked
<1> DEFINE q == [wm.cl[c] EXCEPT !.dormant = TRUE]
           V == [wm EXCEPT !.cl[c].dormant = TRUE]
<1>5. /\ q \in Cell /\ q.win = wm.cl[c].win /\ q.swallowing = wm.cl[c].swallowing
      /\ q.parent = wm.cl[c].parent /\ q.ult = wm.cl[c].ult /\ q.prevsel = wm.cl[c].prevsel
  BY <1>4 DEF Cell
<1>6. /\ V.cl = [wm.cl EXCEPT ![c] = q] /\ V.order = wm.order /\ V.stack = wm.stack /\ V.sel = wm.sel
  BY <1>2, <1>4 DEF Wm
<1>7. V \in Wm
  <2>1. PICK f : f = [wm.cl EXCEPT ![c] = q]
    OBVIOUS
  <2>2. f \in [Ids -> Cell \cup {Free}]
    BY <1>4, <1>5, <2>1
  <2>3. V = [wm EXCEPT !.cl = f]
    BY <1>2, <1>4, <2>1 DEF Wm
  <2> HIDE DEF V
  <2> QED
    BY <1>2, <2>2, <2>3 DEF Wm
<1> HIDE DEF q, V
<1>8. Managed(V) = Managed(wm) /\ Listed(V)
  BY <1>3, <1>6 DEF Managed, Listed
<1>9. \A d \in Ids : V.cl[d] = IF d = c THEN q ELSE wm.cl[d]
  BY <1>4, <1>6
<1>10. \A d \in Managed(wm) :
         /\ wm.cl[d] \in Cell /\ V.cl[d] \in Cell /\ V.cl[d].win = wm.cl[d].win
         /\ V.cl[d].swallowing = wm.cl[d].swallowing /\ V.cl[d].parent = wm.cl[d].parent
         /\ V.cl[d].ult = wm.cl[d].ult /\ V.cl[d].prevsel = wm.cl[d].prevsel
  BY <1>3, <1>4, <1>5, <1>9 DEF Linked
<1>11. \A d \in Managed(wm) : wm.cl[d].swallowing # None =>
         /\ wm.cl[d].swallowing \in Ids \ Managed(wm)
         /\ wm.cl[wm.cl[d].swallowing] \in Cell
         /\ wm.cl[wm.cl[d].swallowing].swallowing = None
         /\ V.cl[wm.cl[d].swallowing] = wm.cl[wm.cl[d].swallowing]
  BY <1>3, <1>9 DEF Swallowing
<1>12. \A d \in Managed(wm) : HiddenOf(V, d) = HiddenOf(wm, d) /\ Held(V, d) = Held(wm, d)
  BY <1>10, <1>11 DEF HiddenOf, Held
<1>13. Linked(V)
  BY <1>3, <1>8, <1>10 DEF Linked
<1>14. Older(V)
  BY <1>3, <1>6, <1>8, <1>10 DEF Older
<1>15. Swallowing(V)
  BY <1>8, <1>10, <1>11 DEF Swallowing
<1>16. Apart(V)
  BY <1>3, <1>8, <1>10, <1>12 DEF Apart
<1>17. Good(V)
  BY <1>7, <1>8, <1>13, <1>14, <1>15, <1>16 DEF Good
<1>18. /\ WinsOf(V) = WinsOf(wm) /\ HidsOf(V) = HidsOf(wm)
       /\ \A a, v : StandsIn(V, a, v) => StandsIn(wm, a, v)
  BY <1>8, <1>10, <1>12 DEF WinsOf, HidsOf, StandsIn
<1>19. \A v \in SleepOf(V) : xs[v] = "gone"
  <2> SUFFICES ASSUME NEW d \in Managed(wm), V.cl[d].dormant PROVE xs[V.cl[d].win] = "gone"
    BY <1>8 DEF SleepOf, Dormant
  <2>1. CASE d = c
    BY <1>1, <1>10, <2>1
  <2>2. CASE d # c
    <3>1. V.cl[d] = wm.cl[d]
      BY <1>4, <1>9, <2>2
    <3> QED
      BY <1>2, <3>1 DEF SleepOf, Dormant
  <2> QED
    BY <2>1, <2>2
<1>20. V = wm'
  BY <1>1 DEF V
<1> QED
  BY <1>1, <1>17, <1>18, <1>19, <1>20, PlainKeeps

\* A client is focused.
LEMMA FocusKeeps ==
  ASSUME IInv, NEW c \in Managed(wm), focus(c)
  PROVE  /\ Sound(xs', queue', wm', hid', lost')
         /\ Shown(xs, queue, wm, lost) => Shown(xs', queue', wm', lost')
<1>1. wm' = Focus(wm, c) /\ UNCHANGED << xs, queue, hid, lost >>
  BY DEF focus
<1>2. Good(wm) /\ \A v \in SleepOf(wm) : xs[v] = "gone"
  BY DEF IInv, Sound, Typed, Told
<1>3. PICK V : V = Focus(wm, c)
  OBVIOUS
<1>4. Good(V) /\ Keeps(V, wm, Managed(wm))
  BY <1>2, <1>3, FocusGood
<1>5. /\ WinsOf(V) = WinsOf(wm) /\ HidsOf(V) = HidsOf(wm) /\ Dormant(V) = Dormant(wm)
      /\ \A a, v : StandsIn(V, a, v) => StandsIn(wm, a, v)
  BY <1>2, <1>4, KeepsSame
<1>6. SleepOf(V) = SleepOf(wm)
  <2>1. \A d \in Dormant(wm) : V.cl[d].win = wm.cl[d].win
    BY <1>4 DEF Dormant, Keeps, SameCell
  <2> QED
    BY <1>5, <2>1 DEF SleepOf
<1> QED
  BY <1>1, <1>2, <1>3, <1>4, <1>5, <1>6, PlainKeeps

\* No clients.
LEMMA BlankGood ==
  /\ Good(Blank) /\ WinsOf(Blank) = {} /\ HidsOf(Blank) = {} /\ SleepOf(Blank) = {}
  /\ \A a, v : ~StandsIn(Blank, a, v)
<1>1. /\ Blank.cl = [i \in Ids |-> Free] /\ Blank.order = << >> /\ Blank.stack = {}
      /\ Blank.sel = None
  BY DEF Blank
<1>2. Managed(Blank) = {}
  BY <1>1 DEF Managed, ToSet
<1>3. << >> \in Seq(Ids) /\ IsInjective(<< >>)
  BY DEF IsInjective
<1>4. [i \in Ids |-> Free] \in [Ids -> Cell \cup {Free}]
  OBVIOUS
<1>5. Blank \in Wm
  BY <1>3, <1>4 DEF Blank, Wm
<1>6. Good(Blank)
  BY <1>1, <1>2, <1>3, <1>5 DEF Good, Listed, Linked, Older, Swallowing, Apart
<1> QED
  BY <1>2, <1>6 DEF WinsOf, HidsOf, SleepOf, Dormant, StandsIn

\* The sequences of a finite set have each of its elements, once.
LEMMA SeqsOf ==
  ASSUME NEW S \in SUBSET Wins, NEW s \in SetToSeqs(S)
  PROVE  s \in Seq(Wins) /\ ToSet(s) = S /\ IsInjective(s)
<1>1. IsFiniteSet(S) /\ Cardinality(S) \in Nat
  BY WindowsAssumption, FS_Subset, FS_CardinalityType
<1>2. PICK n \in Nat : n = Cardinality(S)
  BY <1>1
<1>3. s \in [1 .. n -> S] /\ \A i, j \in 1 .. n : i # j => s[i] # s[j]
  BY <1>2 DEF SetToSeqs
<1>4. s \in Seq(Wins) /\ Len(s) = n /\ DOMAIN s = 1 .. n
  BY <1>3
<1>5. s \in Injection(1 .. n, S) /\ IsInjective(s)
  BY <1>3 DEF Injection, IsInjective
<1>6. Cardinality(1 .. n) = n
  BY FS_Interval
<1>7. s \in Surjection(1 .. n, S)
  BY <1>1, <1>2, <1>5, <1>6, FS_Injection
<1>8. ToSet(s) = S
  BY <1>3, <1>4, <1>7 DEF Surjection, ToSet
<1> QED
  BY <1>4, <1>5, <1>8

\* A restart: what is on the screen, and what swallow() hid, is managed anew.
LEMMA RestartKeeps ==
  ASSUME IInv, Restart
  PROVE  /\ Sound(xs', queue', wm', hid', lost')
         /\ Shown(xs', queue', wm', lost')
<1> DEFINE back == {w \in hid : Swallower(wm, w) # {} /\ xs[w] # "gone"}
           shown == back \cup {w \in Wins : xs[w] = "mapped"}
<1>1. /\ Typed(xs, queue, wm, hid, lost) /\ Away(xs, wm, hid) /\ Known(wm, hid, lost)
  BY DEF IInv, Sound
<1>2. /\ xs \in [Wins -> {"unmapped", "mapped", "gone"}] /\ Good(wm) /\ hid \subseteq Wins
      /\ lost \subseteq Wins /\ \A v \in hid : xs[v] = "unmapped"
  BY <1>1 DEF Typed, Away
<1>3. /\ xs' = [w \in Wins |-> IF w \in back THEN "mapped" ELSE xs[w]]
      /\ wm' = Blank /\ hid' = hid \ back /\ lost' = lost
  BY DEF Restart
<1>4. PICK s \in SetToSeqs(shown) : queue' = Events("map", s)
  BY DEF Restart
<1>5. back \subseteq hid /\ shown \in SUBSET Wins
  BY <1>2
<1>6. \A v : v \in hid /\ v \notin back => v \notin HidsOf(wm)
  <2>1. \A v \in hid : xs[v] # "gone"
    BY <1>2
  <2>2. \A v : Swallower(wm, v) # {} <=> v \in HidsOf(wm)
    BY <1>2, Lookup
  <2> QED
    BY <2>1, <2>2
<1>7. \A v \in Wins : v \in shown <=> v \in back \/ xs[v] = "mapped"
  BY <1>2
<1> HIDE DEF back, shown
<1>8. s \in Seq(Wins) /\ ToSet(s) = shown /\ IsInjective(s)
  BY <1>5, SeqsOf
<1>9. /\ queue' \in Seq(EventSet) /\ OneMap(queue')
      /\ \A t, w : Has(queue', t, w) <=> t = "map" /\ w \in shown
  BY <1>4, <1>8, EventsHas
<1>10. /\ xs' \in [Wins -> {"unmapped", "mapped", "gone"}]
       /\ \A v \in Wins : xs'[v] = IF v \in back THEN "mapped" ELSE xs[v]
  BY <1>2, <1>3
<1>11. Typed(xs', queue', Blank, hid', lost')
  BY <1>2, <1>3, <1>9, <1>10, BlankGood DEF Typed
<1>12. Away(xs', Blank, hid')
  BY <1>2, <1>3, <1>10, BlankGood DEF Away
<1>13. Told(xs', queue', Blank)
  BY <1>9, BlankGood DEF Told
<1>14. Asked(xs', queue', Blank)
  BY <1>9, BlankGood DEF Asked
<1>15. Known(Blank, hid', lost')
  BY <1>1, <1>3, <1>6, BlankGood DEF Known
<1>16. Shown(xs', queue', Blank, lost')
  BY <1>7, <1>9, <1>10, BlankGood DEF Shown
<1> QED
  BY <1>3, <1>11, <1>12, <1>13, <1>14, <1>15, <1>16 DEF Sound

\* One event, at the end of the queue.
LEMMA QueueOne ==
  ASSUME NEW q \in Seq(EventSet), NEW type \in {"map", "unmap", "destroy"}, NEW w \in Wins
  PROVE  LET r == q \o << [t |-> type, w |-> w] >>
         IN  /\ Append(q, [t |-> type, w |-> w]) = r
             /\ r \in Seq(EventSet)
             /\ \A t, v : Has(r, t, v) <=> Has(q, t, v) \/ (t = type /\ v = w)
             /\ \A v, a : Ahead(q, v, a) /\ ~(type = "unmap" /\ v = w) => Ahead(r, v, a)
             /\ OneMap(q) /\ (type = "map" => ~Has(q, "map", w)) => OneMap(r)
<1>1. PICK e : e = [t |-> type, w |-> w]
  OBVIOUS
<1>2. e \in EventSet /\ e.t = type /\ e.w = w
  BY <1>1 DEF EventSet
<1>3. PICK d : d = << e >>
  OBVIOUS
<1>4. d \in Seq(EventSet) /\ Len(d) = 1 /\ d[1] = e
  BY <1>2, <1>3
<1>5. \A t, v : Has(d, t, v) <=> t = type /\ v = w
  BY <1>2, <1>4 DEF Has
<1>6. OneMap(d)
  BY <1>4 DEF OneMap
<1>7. Append(q, e) = q \o d
  BY <1>2, <1>3
<1>8. /\ q \o d \in Seq(EventSet)
      /\ \A t, v : Has(q \o d, t, v) <=> Has(q, t, v) \/ Has(d, t, v)
      /\ \A v, a : Ahead(q, v, a) /\ ~Has(d, "unmap", v) => Ahead(q \o d, v, a)
      /\ OneMap(q) /\ OneMap(d) /\ (\A v : Has(q, "map", v) => ~Has(d, "map", v)) => OneMap(q \o d)
  BY <1>4, QueueMore
<1> QED
  BY <1>1, <1>3, <1>5, <1>6, <1>7, <1>8

\* A window asks to be mapped.
LEMMA MapWindowKeeps ==
  ASSUME IInv, Remaps = {}, NEW w \in Wins, MapWindow(w)
  PROVE  /\ Sound(xs', queue', wm', hid', lost')
         /\ Shown(xs, queue, wm, lost) => Shown(xs', queue', wm', lost')
<1>1. /\ xs[w] = "unmapped" /\ ~Queued(w) /\ w \notin hid
      /\ queue' = Append(queue, [t |-> "map", w |-> w])
      /\ xs' = xs /\ wm' = wm /\ hid' = hid /\ lost' = lost
  BY DEF MapWindow
<1>2. /\ Typed(xs, queue, wm, hid, lost) /\ Away(xs, wm, hid) /\ Told(xs, queue, wm)
      /\ Asked(xs, queue, wm) /\ Known(wm, hid, lost)
  BY DEF IInv, Sound
<1>3. queue \in Seq(EventSet) /\ Good(wm)
  BY <1>2 DEF Typed
<1>4. \A t : ~Has(queue, t, w)
  BY <1>1, <1>3, LenProperties DEF Queued, Has
<1>5. w \notin WinsOf(wm) \cup HidsOf(wm)
  BY <1>1, <1>2, <1>4 DEF Told, Away
<1>6. PICK r : r = queue \o << [t |-> "map", w |-> w] >>
  OBVIOUS
<1>7. /\ queue' = r /\ r \in Seq(EventSet) /\ OneMap(r)
      /\ \A t, v : Has(r, t, v) <=> Has(queue, t, v) \/ (t = "map" /\ v = w)
      /\ \A v, a : Ahead(queue, v, a) => Ahead(r, v, a)
  BY <1>1, <1>2, <1>3, <1>4, <1>6, QueueOne DEF Asked
<1>8. Typed(xs, r, wm, hid, lost)
  BY <1>2, <1>7 DEF Typed
<1>9. Told(xs, r, wm)
  BY <1>2, <1>7 DEF Told
<1>10. Asked(xs, r, wm)
  BY <1>2, <1>4, <1>5, <1>7 DEF Asked
<1>11. Shown(xs, queue, wm, lost) => Shown(xs, r, wm, lost)
  BY <1>7 DEF Shown
<1> QED
  BY <1>1, <1>2, <1>7, <1>8, <1>9, <1>10, <1>11 DEF Sound

\* A window unmaps itself.
LEMMA UnmapWindowKeeps ==
  ASSUME IInv, NEW w \in Wins, UnmapWindow(w)
  PROVE  /\ Sound(xs', queue', wm', hid', lost')
         /\ Shown(xs, queue, wm, lost) => Shown(xs', queue', wm', lost')
<1>1. /\ xs[w] = "mapped" /\ [t |-> "map", w |-> w] \notin ToSet(queue)
      /\ xs' = [xs EXCEPT ![w] = "unmapped"]
      /\ queue' = Append(queue, [t |-> "unmap", w |-> w])
      /\ wm' = wm /\ hid' = hid /\ lost' = lost
  BY DEF UnmapWindow
<1>2. /\ Typed(xs, queue, wm, hid, lost) /\ Away(xs, wm, hid) /\ Told(xs, queue, wm)
      /\ Asked(xs, queue, wm) /\ Known(wm, hid, lost)
  BY DEF IInv, Sound
<1>3. /\ queue \in Seq(EventSet) /\ Good(wm) /\ xs \in [Wins -> {"unmapped", "mapped", "gone"}]
      /\ hid \subseteq Wins
  BY <1>2 DEF Typed
<1>4. ~Has(queue, "map", w)
  <2> SUFFICES ASSUME NEW k \in 1 .. Len(queue), queue[k].t = "map", queue[k].w = w PROVE FALSE
    BY DEF Has
  <2>1. queue[k] \in EventSet /\ queue[k] \in ToSet(queue)
    BY <1>3, LenProperties, ElementOfSeq DEF ToSet
  <2>2. queue[k] = [t |-> "map", w |-> w]
    BY <2>1 DEF EventSet
  <2> QED
    BY <1>1, <2>1, <2>2
<1>5. WinsOf(wm) \subseteq Wins /\ HidsOf(wm) \subseteq Wins
      /\ \A a, v : StandsIn(wm, a, v) => a \in WinsOf(wm) /\ v \in HidsOf(wm)
  BY <1>3, WindowsApart
<1>6. \A v \in Wins : xs'[v] = IF v = w THEN "unmapped" ELSE xs[v]
  BY <1>1, <1>3
<1>7. xs' \in [Wins -> {"unmapped", "mapped", "gone"}]
  BY <1>1, <1>3
<1>8. w \notin hid /\ w \notin HidsOf(wm) /\ w \notin SleepOf(wm)
  BY <1>1, <1>2 DEF Away, Told
<1>9. PICK r : r = queue \o << [t |-> "unmap", w |-> w] >>
  OBVIOUS
<1>10. /\ queue' = r /\ r \in Seq(EventSet) /\ OneMap(r)
       /\ \A t, v : Has(r, t, v) <=> Has(queue, t, v) \/ (t = "unmap" /\ v = w)
       /\ \A v, a : Ahead(queue, v, a) /\ v # w => Ahead(r, v, a)
  BY <1>1, <1>2, <1>3, <1>9, QueueOne DEF Asked
<1>11. Typed(xs', r, wm, hid, lost)
  BY <1>2, <1>7, <1>10 DEF Typed
<1>12. Away(xs', wm, hid)
  BY <1>2, <1>3, <1>5, <1>6, <1>8 DEF Away
<1>13. Told(xs', r, wm)
  <2>1. SleepOf(wm) \subseteq WinsOf(wm)
    BY DEF SleepOf, WinsOf, Dormant
  <2>2. \A v \in Wins : Has(r, "destroy", v) => xs'[v] = "gone"
    BY <1>1, <1>2, <1>6, <1>10 DEF Told
  <2>3. \A v \in WinsOf(wm) : xs'[v] = "unmapped" => Has(r, "unmap", v)
    BY <1>2, <1>5, <1>6, <1>10 DEF Told
  <2>4. \A v \in WinsOf(wm) \cup HidsOf(wm) : xs'[v] = "gone" => Has(r, "destroy", v)
    BY <1>2, <1>5, <1>6, <1>10 DEF Told
  <2>5. \A v \in SleepOf(wm) : xs'[v] = "gone"
    BY <1>2, <1>5, <1>6, <1>8, <2>1 DEF Told
  <2> QED
    BY <2>2, <2>3, <2>4, <2>5 DEF Told
<1>14. Asked(xs', r, wm)
  BY <1>2, <1>4, <1>6, <1>10 DEF Asked
<1>15. ASSUME Shown(xs, queue, wm, lost) PROVE Shown(xs', r, wm, lost)
  <2>1. \A a, v : StandsIn(wm, a, v) => Ahead(r, v, a)
    BY <1>5, <1>8, <1>10, <1>15 DEF Shown
  <2>2. \A v \in WinsOf(wm) : Has(r, "unmap", v) => xs'[v] # "mapped"
    BY <1>5, <1>6, <1>10, <1>15 DEF Shown
  <2>3. \A v \in Wins : xs'[v] = "mapped" /\ v \notin lost => Has(r, "map", v) \/ v \in WinsOf(wm)
    BY <1>6, <1>10, <1>15 DEF Shown
  <2> QED
    BY <2>1, <2>2, <2>3 DEF Shown
<1> QED
  BY <1>1, <1>2, <1>10, <1>11, <1>12, <1>13, <1>14, <1>15 DEF Sound

\* A window is destroyed.
LEMMA DestroyWindowKeeps ==
  ASSUME IInv, NEW w \in Wins, DestroyWindow(w)
  PROVE  /\ Sound(xs', queue', wm', hid', lost')
         /\ Shown(xs, queue, wm, lost) => Shown(xs', queue', wm', lost')
<1>1. /\ xs[w] # "gone" /\ xs' = [xs EXCEPT ![w] = "gone"]
      /\ queue' = queue \o (IF xs[w] = "mapped" THEN << [t |-> "unmap", w |-> w] >> ELSE << >>)
                        \o << [t |-> "destroy", w |-> w] >>
      /\ hid' = hid \ {w} /\ wm' = wm /\ lost' = lost
  BY DEF DestroyWindow
<1>2. /\ Typed(xs, queue, wm, hid, lost) /\ Away(xs, wm, hid) /\ Told(xs, queue, wm)
      /\ Asked(xs, queue, wm) /\ Known(wm, hid, lost)
  BY DEF IInv, Sound
<1>3. /\ queue \in Seq(EventSet) /\ Good(wm) /\ xs \in [Wins -> {"unmapped", "mapped", "gone"}]
      /\ hid \subseteq Wins /\ OneMap(queue)
  BY <1>2 DEF Typed, Asked
<1>4. /\ WinsOf(wm) \subseteq Wins /\ HidsOf(wm) \subseteq Wins /\ SleepOf(wm) \subseteq WinsOf(wm)
      /\ \A a, v : StandsIn(wm, a, v) => a \in WinsOf(wm) /\ v \in HidsOf(wm)
  BY <1>3, WindowsApart DEF SleepOf, WinsOf, Dormant
<1>5. /\ \A v \in Wins : xs'[v] = IF v = w THEN "gone" ELSE xs[v]
      /\ xs' \in [Wins -> {"unmapped", "mapped", "gone"}]
  BY <1>1, <1>3
<1>6. PICK p : p = queue \o (IF xs[w] = "mapped" THEN << [t |-> "unmap", w |-> w] >> ELSE << >>)
  OBVIOUS
<1>7. /\ p \in Seq(EventSet) /\ OneMap(p)
      /\ \A t, v : Has(p, t, v) <=> Has(queue, t, v) \/ (t = "unmap" /\ v = w /\ xs[w] = "mapped")
      /\ \A v, a : Ahead(queue, v, a) /\ ~(v = w /\ xs[w] = "mapped") => Ahead(p, v, a)
  <2>1. CASE xs[w] = "mapped"
    <3>1. p = queue \o << [t |-> "unmap", w |-> w] >>
      BY <1>6, <2>1
    <3> QED
      BY <1>3, <2>1, <3>1, QueueOne
  <2>2. CASE xs[w] # "mapped"
    <3>1. p = queue
      BY <1>3, <1>6, <2>2
    <3> QED
      BY <1>3, <2>2, <3>1
  <2> QED
    BY <2>1, <2>2
<1>8. PICK r : r = p \o << [t |-> "destroy", w |-> w] >>
  OBVIOUS
<1>9. queue' = r
  BY <1>1, <1>6, <1>8
<1>10. /\ r \in Seq(EventSet) /\ OneMap(r)
       /\ \A t, v : Has(r, t, v) <=>
            \/ Has(queue, t, v)
            \/ t = "unmap" /\ v = w /\ xs[w] = "mapped"
            \/ t = "destroy" /\ v = w
       /\ \A v, a : Ahead(queue, v, a) /\ ~(v = w /\ xs[w] = "mapped") => Ahead(r, v, a)
  BY <1>7, <1>8, QueueOne
<1>11. Typed(xs', r, wm, hid', lost)
  BY <1>1, <1>2, <1>5, <1>10 DEF Typed
<1>12. Away(xs', wm, hid')
  BY <1>1, <1>2, <1>3, <1>4, <1>5 DEF Away
<1>13. Told(xs', r, wm)
  <2>1. \A v \in Wins : Has(r, "destroy", v) => xs'[v] = "gone"
    BY <1>2, <1>5, <1>10 DEF Told
  <2>2. \A v \in WinsOf(wm) : xs'[v] = "unmapped" => Has(r, "unmap", v)
    BY <1>2, <1>4, <1>5, <1>10 DEF Told
  <2>3. \A v \in WinsOf(wm) \cup HidsOf(wm) : xs'[v] = "gone" => Has(r, "destroy", v)
    BY <1>2, <1>4, <1>5, <1>10 DEF Told
  <2>4. \A v \in SleepOf(wm) : xs'[v] = "gone"
    BY <1>2, <1>4, <1>5 DEF Told
  <2> QED
    BY <2>1, <2>2, <2>3, <2>4 DEF Told
<1>14. Asked(xs', r, wm)
  BY <1>2, <1>5, <1>10 DEF Asked
<1>15. Known(wm, hid', lost)
  BY <1>1, <1>2 DEF Known
<1>16. ASSUME Shown(xs, queue, wm, lost) PROVE Shown(xs', r, wm, lost)
  <2>1. \A v \in HidsOf(wm) : ~(v = w /\ xs[w] = "mapped")
    BY <1>2 DEF Away
  <2>2. \A a, v : StandsIn(wm, a, v) => Ahead(r, v, a)
    BY <1>4, <1>10, <1>16, <2>1 DEF Shown
  <2>3. \A v \in WinsOf(wm) : Has(r, "unmap", v) => xs'[v] # "mapped"
    BY <1>4, <1>5, <1>10, <1>16 DEF Shown
  <2>4. \A v \in Wins : xs'[v] = "mapped" /\ v \notin lost => Has(r, "map", v) \/ v \in WinsOf(wm)
    BY <1>5, <1>10, <1>16 DEF Shown
  <2> QED
    BY <2>2, <2>3, <2>4 DEF Shown
<1> QED
  BY <1>1, <1>9, <1>11, <1>12, <1>13, <1>14, <1>15, <1>16 DEF Sound

-----------------------------------------------------------------------------
(* The theorems.                                                           *)

\* No window maps itself while it is swallowed, and none that takes the focus
\* when it appears takes the place of a terminal: manage would focus the cell
\* the terminal keeps, and Consistent does not hold (dwm.c:12633).
Settled == Remaps = {} /\ \A w \in NewMaster : Alone(w)

\* At first there are no clients, and no events.
LEMMA InitSound ==
  Init => Sound(xs, queue, wm, hid, lost) /\ Shown(xs, queue, wm, lost)
<1> SUFFICES ASSUME Init PROVE Sound(xs, queue, wm, hid, lost) /\ Shown(xs, queue, wm, lost)
  OBVIOUS
<1>1. /\ xs = [w \in Wins |-> "unmapped"] /\ queue = << >> /\ wm = Blank /\ hid = {} /\ lost = {}
  BY DEF Init
<1>2. /\ Good(Blank) /\ WinsOf(Blank) = {} /\ HidsOf(Blank) = {} /\ SleepOf(Blank) = {}
      /\ \A a, v : ~StandsIn(Blank, a, v)
  BY BlankGood
<1>3. /\ << >> \in Seq(EventSet) /\ OneMap(<< >>) /\ \A t, v : ~Has(<< >>, t, v)
  BY EventsFew DEF OneMap
<1>4. /\ xs \in [Wins -> {"unmapped", "mapped", "gone"}] /\ \A w \in Wins : xs[w] = "unmapped"
  BY <1>1
<1>5. Typed(xs, queue, wm, hid, lost)
  BY <1>1, <1>2, <1>3, <1>4 DEF Typed
<1>6. Away(xs, wm, hid) /\ Told(xs, queue, wm) /\ Asked(xs, queue, wm) /\ Known(wm, hid, lost)
  BY <1>1, <1>2, <1>3, <1>4 DEF Away, Told, Asked, Known
<1>7. Shown(xs, queue, wm, lost)
  BY <1>1, <1>2, <1>3, <1>4 DEF Shown
<1> QED
  BY <1>5, <1>6, <1>7 DEF Sound

\* Every step keeps what holds between two handlers.
LEMMA NextSound ==
  ASSUME Settled, IInv, [Next]_vars
  PROVE  /\ Sound(xs', queue', wm', hid', lost')
         /\ Calm /\ Shown(xs, queue, wm, lost) => Shown(xs', queue', wm', lost')
<1>1. Remaps = {} /\ \A w \in NewMaster : Alone(w)
  BY DEF Settled
<1>2. CASE maprequest
  BY <1>1, <1>2, MapKeeps
<1>3. CASE unmapnotify
  BY <1>3, UnmapKeeps
<1>4. CASE destroynotify
  BY <1>4, DestroyKeeps
<1>5. CASE arrange
  BY <1>5, ArrangeKeeps
<1>6. CASE Restart
  BY <1>6, RestartKeeps
<1>7. CASE \E c \in Managed(wm) : xerror(c) \/ focus(c)
  <2>1. PICK c \in Managed(wm) : xerror(c) \/ focus(c)
    BY <1>7
  <2> QED
    BY <2>1, ErrorKeeps, FocusKeeps
<1>8. CASE \E w \in Wins : MapWindow(w) \/ UnmapWindow(w) \/ DestroyWindow(w)
  <2>1. PICK w \in Wins : MapWindow(w) \/ UnmapWindow(w) \/ DestroyWindow(w)
    BY <1>8
  <2>2. CASE MapWindow(w)
    BY <1>1, <2>2, MapWindowKeeps
  <2>3. CASE UnmapWindow(w)
    BY <2>3, UnmapWindowKeeps
  <2>4. CASE DestroyWindow(w)
    BY <2>4, DestroyWindowKeeps
  <2> QED
    BY <2>1, <2>2, <2>3, <2>4
<1>9. CASE UNCHANGED vars
  <2>1. xs' = xs /\ queue' = queue /\ wm' = wm /\ hid' = hid /\ lost' = lost
    BY <1>9 DEF vars
  <2> QED
    BY <2>1 DEF IInv
<1> QED
  BY <1>2, <1>3, <1>4, <1>5, <1>6, <1>7, <1>8, <1>9 DEF Next

\* What holds between two handlers always holds.
THEOREM LifecycleInductive == ASSUME Settled PROVE Spec => []IInv
<1>1. Init => IInv
  BY InitSound DEF IInv
<1>2. IInv /\ [Next]_vars => IInv'
  <2> SUFFICES ASSUME IInv, [Next]_vars PROVE IInv'
    OBVIOUS
  <2>1. Sound(xs', queue', wm', hid', lost')
    BY NextSound
  <2> QED
    BY <2>1 DEF IInv
<1> QED
  BY <1>1, <1>2, PTL DEF Spec

\* A parent's place in the list is before its child's.
LEMMA ParentPlace ==
  ASSUME NEW W, Good(W), NEW a \in Managed(W), NEW c \in Managed(W), Precedes(W.order, a, c)
  PROVE  (CHOOSE k \in DOMAIN W.order : W.order[k] = a) < (CHOOSE k \in DOMAIN W.order : W.order[k] = c)
<1>1. W.order \in Seq(Ids) /\ IsInjective(W.order)
  BY WmFields DEF Good, Listed
<1>2. DOMAIN W.order = 1 .. Len(W.order) /\ Len(W.order) \in Nat
  BY <1>1, LenProperties
<1>3. PICK i, j \in 1 .. Len(W.order) : i < j /\ W.order[i] = a /\ W.order[j] = c
  BY DEF Precedes
<1>4. \A k, m \in DOMAIN W.order : W.order[k] = W.order[m] => k = m
  BY <1>1 DEF IsInjective
<1>5. (CHOOSE k \in DOMAIN W.order : W.order[k] = a) = i
  BY <1>2, <1>3, <1>4
<1>6. (CHOOSE k \in DOMAIN W.order : W.order[k] = c) = j
  BY <1>2, <1>3, <1>4
<1> QED
  BY <1>3, <1>5, <1>6

\* Consistent: whatever windows do, the links between clients, their families and
\* their windows stay whole, and no link is left to a cell that was freed.
THEOREM LifecycleConsistent == ASSUME Settled PROVE Spec => []Consistent
<1>1. IInv => Consistent
  <2> SUFFICES ASSUME IInv PROVE Consistent
    OBVIOUS
  <2>1. Typed(xs, queue, wm, hid, lost) /\ Good(wm)
    BY DEF IInv, Sound, Typed
  <2>2. wm \in Wm /\ Listed(wm) /\ Linked(wm) /\ Older(wm) /\ Swallowing(wm) /\ Apart(wm)
    BY <2>1 DEF Good
  <2>3. TypeOK
    BY <2>1, <2>2, WmFields DEF TypeOK, Typed, EventSet
  <2>4. LinksManaged
    BY <2>2, CellFields DEF LinksManaged, Listed, Linked
  <2>5. FamiliesRooted
    <3> SUFFICES ASSUME NEW c \in Managed(wm)
                 PROVE  /\ wm.cl[wm.cl[c].ult].ult = wm.cl[c].ult
                        /\ wm.cl[c].parent # None =>
                             (CHOOSE k \in DOMAIN wm.order : wm.order[k] = wm.cl[c].parent)
                               < (CHOOSE k \in DOMAIN wm.order : wm.order[k] = c)
      BY DEF FamiliesRooted
    <3>1. wm.cl[wm.cl[c].ult].ult = wm.cl[c].ult /\ wm.cl[c].parent \in Managed(wm) \cup {None}
      BY <2>2 DEF Linked
    <3>2. ASSUME wm.cl[c].parent # None
          PROVE  (CHOOSE k \in DOMAIN wm.order : wm.order[k] = wm.cl[c].parent)
                   < (CHOOSE k \in DOMAIN wm.order : wm.order[k] = c)
      <4>1. PICK a : a = wm.cl[c].parent
        OBVIOUS
      <4>2. a \in Managed(wm) /\ Precedes(wm.order, a, c)
        BY <2>2, <3>1, <3>2, <4>1 DEF Older
      <4> QED
        BY <2>1, <4>1, <4>2, ParentPlace
    <3> QED
      BY <3>1, <3>2
  <2>6. OneClient
    BY <2>2 DEF OneClient, Apart, Held, HiddenOf
  <2> QED
    BY <2>3, <2>4, <2>5, <2>6 DEF Consistent
<1> QED
  BY <1>1, LifecycleInductive, PTL

\* Returns: a window that dwm unmapped for its program is one that some client
\* stands in for, so that it is mapped again when the program goes.
THEOREM LifecycleReturns == ASSUME Settled PROVE Spec => []Returns
<1>1. IInv => Returns
  <2> SUFFICES ASSUME IInv, NEW w \in hid \ lost PROVE Swallower(wm, w) # {}
    BY DEF Returns
  <2>1. Good(wm) /\ hid \ lost \subseteq HidsOf(wm)
    BY DEF IInv, Sound, Typed, Known
  <2> QED
    BY <2>1, Lookup
<1> QED
  BY <1>1, LifecycleInductive, PTL

\* ScreenManaged: when all events are handled, the windows on the screen are
\* those of the clients.
THEOREM LifecycleScreenManaged == ASSUME Settled, Calm PROVE Spec => []ScreenManaged
<1>1. Init => Shown(xs, queue, wm, lost)
  BY InitSound
<1>2. IInv /\ Shown(xs, queue, wm, lost) /\ [Next]_vars => Shown(xs, queue, wm, lost)'
  <2> SUFFICES ASSUME IInv, Shown(xs, queue, wm, lost), [Next]_vars
               PROVE  Shown(xs', queue', wm', lost')
    OBVIOUS
  <2> QED
    BY NextSound
<1>3. IInv /\ Shown(xs, queue, wm, lost) => ScreenManaged
  <2> SUFFICES ASSUME IInv, Shown(xs, queue, wm, lost), queue = << >>
               PROVE  {w \in Wins : xs[w] = "mapped"} \ lost = {wm.cl[c].win : c \in Managed(wm)}
    BY DEF ScreenManaged
  <2>1. /\ Told(xs, queue, wm) /\ lost \cap WinsOf(wm) = {} /\ Good(wm)
        /\ xs \in [Wins -> {"unmapped", "mapped", "gone"}]
    BY DEF IInv, Sound, Typed, Known
  <2>2. WinsOf(wm) \subseteq Wins /\ \A t, v : ~Has(queue, t, v)
    BY <2>1, WindowsApart, EventsFew
  <2>3. \A v \in WinsOf(wm) : xs[v] = "mapped" /\ v \notin lost
    BY <2>1, <2>2 DEF Told
  <2>4. \A v \in Wins : xs[v] = "mapped" /\ v \notin lost => v \in WinsOf(wm)
    BY <2>2 DEF Shown
  <2> QED
    BY <2>2, <2>3, <2>4 DEF WinsOf
<1> QED
  BY <1>1, <1>2, <1>3, LifecycleInductive, PTL DEF Spec
=============================================================================
