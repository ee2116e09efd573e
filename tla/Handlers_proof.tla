--------------------------- MODULE Handlers_proof ---------------------------
(***************************************************************************)
(* What the list operators of ClientLists do to the two chains of a        *)
(* monitor and to the pointers into them; that the functions of Focus keep *)
(* every client in its place and select only clients that are on the       *)
(* screen; and then, for every set of clients, monitors and tags and every *)
(* choice of the flags, that no handler puts a client in two places, loses *)
(* one, or leaves a pointer to a client that is gone; what it selects is   *)
(* on the screen, and it moves no other client and disturbs nothing else.  *)
(***************************************************************************)
EXTENDS Handlers, Orders_proof, SequenceTheorems, TLAPS

\* tagtoindex of a mask that is not empty is one of its tags.
LEMMA TagToIndexType ==
  ASSUME NEW mask \in Mask, mask # {}
  PROVE  TagToIndex(mask) \in mask
<1>1. mask \subseteq Nat
  BY TagAssumption DEF Mask
<1>2. \E t \in mask : \A u \in mask : t <= u
  BY <1>1, LeastNat
<1> QED
  BY <1>2 DEF TagToIndex

-----------------------------------------------------------------------------
(* Chains.                                                                 *)

\* IsChain, spelled out for a sequence of clients.
LEMMA ChainElements ==
  ASSUME NEW q \in Seq(Client), NEW S
  PROVE  IsChain(q, S) <=>
           /\ \A i \in 1..Len(q) : q[i] \in S
           /\ \A d \in S : \E i \in 1..Len(q) : q[i] = d
           /\ \A i, j \in 1..Len(q) : q[i] = q[j] => i = j
<1>1. DOMAIN q = 1..Len(q)
  BY LenProperties
<1>2. ToSet(q) = S <=> /\ \A i \in 1..Len(q) : q[i] \in S
                       /\ \A d \in S : \E i \in 1..Len(q) : q[i] = d
  BY <1>1 DEF ToSet
<1> QED
  BY <1>1, <1>2 DEF IsChain, IsInjective

\* A part of a sequence of clients.
LEMMA PartOf ==
  ASSUME NEW q \in Seq(Client), NEW i \in Nat \ {0}, NEW j \in Nat, i <= j + 1, j <= Len(q)
  PROVE  /\ SubSeq(q, i, j) \in Seq(Client)
         /\ Len(SubSeq(q, i, j)) = j - i + 1
         /\ \A k \in 1..j - i + 1 : SubSeq(q, i, j)[k] = q[i + k - 1]
<1>1. Len(q) \in Nat
  BY LenProperties
<1>2. \A k \in i..j : q[k] \in Client
  BY <1>1, ElementOfSeq
<1>3. i \in Int /\ j \in Int
  OBVIOUS
<1> QED
  BY <1>2, <1>3, SubSeqProperties

\* ConcatProperties for sequences of clients.
LEMMA JoinOf ==
  ASSUME NEW p \in Seq(Client), NEW q \in Seq(Client)
  PROVE  /\ p \o q \in Seq(Client)
         /\ Len(p \o q) = Len(p) + Len(q)
         /\ \A k \in 1..Len(p) : (p \o q)[k] = p[k]
         /\ \A k \in Len(p) + 1..Len(p) + Len(q) : (p \o q)[k] = q[k - Len(p)]
<1>1. Len(p) \in Nat /\ Len(q) \in Nat
  BY LenProperties
<1>2. /\ p \o q \in Seq(Client)
      /\ Len(p \o q) = Len(p) + Len(q)
      /\ \A k \in 1..Len(p) + Len(q) :
            (p \o q)[k] = IF k <= Len(p) THEN p[k] ELSE q[k - Len(p)]
  BY ConcatProperties
<1> QED
  BY <1>1, <1>2

\* Inserting keeps the elements before the place and shifts the others.
LEMMA InsertElements ==
  ASSUME NEW q \in Seq(Client), NEW c \in Client, NEW i \in 1..Len(q) + 1
  PROVE  /\ InsertAt(q, i, c) \in Seq(Client)
         /\ Len(InsertAt(q, i, c)) = Len(q) + 1
         /\ \A j \in 1..Len(q) + 1 :
               InsertAt(q, i, c)[j] =
                  IF j < i THEN q[j] ELSE IF j = i THEN c ELSE q[j - 1]
<1> DEFINE front == SubSeq(q, 1, i - 1)
           middle == <<c>>
           back == SubSeq(q, i, Len(q))
<1>0. Len(q) \in Nat
  BY LenProperties
<1>1. /\ front \in Seq(Client)
      /\ Len(front) = i - 1
      /\ \A k \in 1..i - 1 : front[k] = q[k]
  BY <1>0, PartOf
<1>2. middle \in Seq(Client) /\ Len(middle) = 1 /\ middle[1] = c
  OBVIOUS
<1>3. /\ back \in Seq(Client)
      /\ Len(back) = Len(q) - i + 1
      /\ \A k \in 1..Len(q) - i + 1 : back[k] = q[i + k - 1]
  BY <1>0, PartOf
<1>4. InsertAt(q, i, c) = (front \o middle) \o back
  BY DEF InsertAt
<1> HIDE DEF front, middle, back
<1>5. /\ front \o middle \in Seq(Client)
      /\ Len(front \o middle) = i
      /\ \A k \in 1..i - 1 : (front \o middle)[k] = front[k]
      /\ \A k \in i..i : (front \o middle)[k] = middle[k - (i - 1)]
  <2>1. /\ front \o middle \in Seq(Client)
        /\ Len(front \o middle) = Len(front) + Len(middle)
        /\ \A k \in 1..Len(front) : (front \o middle)[k] = front[k]
        /\ \A k \in Len(front) + 1..Len(front) + Len(middle) :
              (front \o middle)[k] = middle[k - Len(front)]
    BY <1>1, <1>2, JoinOf
  <2> QED
    BY <1>0, <1>1, <1>2, <2>1
<1>6. /\ (front \o middle) \o back \in Seq(Client)
      /\ Len((front \o middle) \o back) = i + Len(back)
      /\ \A k \in 1..i : ((front \o middle) \o back)[k] = (front \o middle)[k]
      /\ \A k \in i + 1..i + Len(back) : ((front \o middle) \o back)[k] = back[k - i]
  <2>1. /\ (front \o middle) \o back \in Seq(Client)
        /\ Len((front \o middle) \o back) = Len(front \o middle) + Len(back)
        /\ \A k \in 1..Len(front \o middle) : ((front \o middle) \o back)[k] = (front \o middle)[k]
        /\ \A k \in Len(front \o middle) + 1..Len(front \o middle) + Len(back) :
              ((front \o middle) \o back)[k] = back[k - Len(front \o middle)]
    BY <1>3, <1>5, JoinOf
  <2> QED
    BY <1>0, <1>3, <1>5, <2>1
<1> DEFINE r == (front \o middle) \o back
<1>7. r \in Seq(Client) /\ Len(r) = Len(q) + 1
  BY <1>0, <1>3, <1>6
<1>9. /\ \A k \in 1..i : r[k] = (front \o middle)[k]
      /\ \A k \in i + 1..i + Len(back) : r[k] = back[k - i]
  BY <1>6
<1> HIDE DEF r
<1>8. ASSUME NEW j \in 1..Len(q) + 1
      PROVE  r[j] = IF j < i THEN q[j] ELSE IF j = i THEN c ELSE q[j - 1]
  <2>1. CASE j < i
    BY <1>0, <1>1, <1>5, <1>9, <2>1
  <2>2. CASE j = i
    <3>1. i \in i..i /\ i \in 1..i /\ i - (i - 1) = 1
      BY <1>0
    <3>2. r[i] = (front \o middle)[i] /\ (front \o middle)[i] = middle[i - (i - 1)]
      BY <1>5, <1>9, <3>1
    <3>3. r[i] = c
      BY <1>2, <3>1, <3>2
    <3> QED
      BY <1>0, <2>2, <3>3
  <2>3. CASE j > i
    <3>1. j \in i + 1..i + Len(back) /\ j - i \in 1..Len(q) - i + 1 /\ i + (j - i) - 1 = j - 1
      BY <1>0, <1>3, <2>3
    <3>2. r[j] = back[j - i] /\ back[j - i] = q[i + (j - i) - 1]
      BY <1>3, <1>9, <3>1
    <3> QED
      BY <1>0, <2>3, <3>1, <3>2
  <2> QED
    BY <1>0, <2>1, <2>2, <2>3
<1> QED
  BY <1>4, <1>7, <1>8 DEF r

\* Removing keeps the elements before the place and shifts the others.
LEMMA RemoveElements ==
  ASSUME NEW q \in Seq(Client), NEW i \in 1..Len(q)
  PROVE  /\ RemoveAt(q, i) \in Seq(Client)
         /\ Len(RemoveAt(q, i)) = Len(q) - 1
         /\ \A j \in 1..Len(q) - 1 :
               RemoveAt(q, i)[j] = IF j < i THEN q[j] ELSE q[j + 1]
<1> DEFINE front == SubSeq(q, 1, i - 1)
           back == SubSeq(q, i + 1, Len(q))
<1>0. Len(q) \in Nat
  BY LenProperties
<1>1. /\ front \in Seq(Client)
      /\ Len(front) = i - 1
      /\ \A k \in 1..i - 1 : front[k] = q[k]
  BY <1>0, PartOf
<1>2. /\ back \in Seq(Client)
      /\ Len(back) = Len(q) - i
      /\ \A k \in 1..Len(q) - i : back[k] = q[i + k]
  <2>1. i + 1 \in Nat \ {0} /\ i + 1 <= Len(q) + 1 /\ Len(q) <= Len(q)
    BY <1>0
  <2>2. /\ back \in Seq(Client)
        /\ Len(back) = Len(q) - (i + 1) + 1
        /\ \A k \in 1..Len(q) - (i + 1) + 1 : back[k] = q[(i + 1) + k - 1]
    BY <1>0, <2>1, PartOf
  <2> QED
    BY <1>0, <2>2
<1>3. RemoveAt(q, i) = front \o back
  BY DEF RemoveAt
<1> HIDE DEF front, back
<1>4. /\ front \o back \in Seq(Client)
      /\ Len(front \o back) = i - 1 + Len(back)
      /\ \A k \in 1..i - 1 : (front \o back)[k] = front[k]
      /\ \A k \in i..i - 1 + Len(back) : (front \o back)[k] = back[k - (i - 1)]
  <2>1. /\ front \o back \in Seq(Client)
        /\ Len(front \o back) = Len(front) + Len(back)
        /\ \A k \in 1..Len(front) : (front \o back)[k] = front[k]
        /\ \A k \in Len(front) + 1..Len(front) + Len(back) :
              (front \o back)[k] = back[k - Len(front)]
    BY <1>1, <1>2, JoinOf
  <2>2. Len(front) = i - 1
    BY <1>1
  <2>3. \A k \in i..i - 1 + Len(back) : (front \o back)[k] = back[k - (i - 1)]
    <3>1. Len(front) + 1 = i
      BY <1>0, <2>2
    <3> QED
      BY <2>1, <2>2, <3>1
  <2> QED
    BY <2>1, <2>2, <2>3
<1> DEFINE r == front \o back
<1>5. r \in Seq(Client) /\ Len(r) = Len(q) - 1
  BY <1>0, <1>2, <1>4
<1>6. /\ \A k \in 1..i - 1 : r[k] = front[k]
      /\ \A k \in i..i - 1 + Len(back) : r[k] = back[k - (i - 1)]
  BY <1>4
<1> HIDE DEF r
<1>7. ASSUME NEW j \in 1..Len(q) - 1
      PROVE  r[j] = IF j < i THEN q[j] ELSE q[j + 1]
  <2>1. CASE j < i
    BY <1>0, <1>1, <1>6, <2>1
  <2>2. CASE j >= i
    <3>1. j \in i..i - 1 + Len(back) /\ j - (i - 1) \in 1..Len(q) - i /\ i + (j - (i - 1)) = j + 1
      BY <1>0, <1>2, <2>2
    <3>2. r[j] = back[j - (i - 1)] /\ back[j - (i - 1)] = q[i + (j - (i - 1))]
      BY <1>2, <1>6, <3>1
    <3> QED
      BY <1>0, <2>2, <3>1, <3>2
  <2> QED
    BY <1>0, <2>1, <2>2
<1> QED
  BY <1>3, <1>5, <1>7 DEF r

\* Inserting a new client anywhere in a chain gives a chain.
LEMMA InsertChain ==
  ASSUME NEW q \in Seq(Client), NEW S, IsChain(q, S),
         NEW c \in Client, c \notin S, NEW i \in 1..Len(q) + 1
  PROVE  InsertAt(q, i, c) \in Seq(Client) /\ IsChain(InsertAt(q, i, c), S \cup {c})
<1> DEFINE r == InsertAt(q, i, c)
<1>0. Len(q) \in Nat
  BY LenProperties
<1>1. /\ \A k \in 1..Len(q) : q[k] \in S
      /\ \A d \in S : \E k \in 1..Len(q) : q[k] = d
      /\ \A j, k \in 1..Len(q) : q[j] = q[k] => j = k
  BY ChainElements
<1>2. /\ r \in Seq(Client)
      /\ Len(r) = Len(q) + 1
      /\ \A j \in 1..Len(q) + 1 :
            r[j] = IF j < i THEN q[j] ELSE IF j = i THEN c ELSE q[j - 1]
  BY InsertElements
<1> HIDE DEF r
<1>3. ASSUME NEW k \in 1..Len(r)
      PROVE  \/ k < i /\ k \in 1..Len(q) /\ r[k] = q[k]
             \/ k = i /\ r[k] = c
             \/ k > i /\ k - 1 \in 1..Len(q) /\ r[k] = q[k - 1]
  <2>1. k \in 1..Len(q) + 1 /\ i \in 1..Len(q) + 1
    BY <1>2
  <2>2. r[k] = IF k < i THEN q[k] ELSE IF k = i THEN c ELSE q[k - 1]
    BY <1>2, <2>1
  <2>3. CASE k < i
    BY <1>0, <2>1, <2>2, <2>3
  <2>4. CASE k = i
    BY <2>2, <2>4, <1>0, <2>1
  <2>5. CASE k > i
    BY <1>0, <2>1, <2>2, <2>5
  <2> QED
    BY <1>0, <2>1, <2>3, <2>4, <2>5
<1>7. \A k \in 1..Len(r) : r[k] \in S \cup {c}
  BY <1>1, <1>3
<1>4. ASSUME NEW d \in S \cup {c} PROVE \E k \in 1..Len(r) : r[k] = d
  <2>1. CASE d = c
    BY <1>0, <1>2, <2>1
  <2>2. CASE d # c
    <3>1. PICK k \in 1..Len(q) : q[k] = d
      BY <1>1, <2>2
    <3>2. CASE k < i
      BY <1>0, <1>2, <3>1, <3>2
    <3>3. CASE k >= i
      <4>1. k + 1 \in 1..Len(r) /\ r[k + 1] = d
        BY <1>0, <1>2, <3>1, <3>3
      <4> QED
        BY <4>1
    <3> QED
      BY <1>0, <3>2, <3>3
  <2> QED
    BY <2>1, <2>2
<1>5. ASSUME NEW j \in 1..Len(r), NEW k \in 1..Len(r), r[j] = r[k] PROVE j = k
  <2>1. \A l \in 1..Len(q) : q[l] # c
    BY <1>1
  <2>2. j \in Int /\ k \in Int /\ i \in Int
    BY <1>0, <1>2
  <2> DEFINE old(l) == \/ l < i /\ l \in 1..Len(q) /\ r[l] = q[l]
                       \/ l = i /\ r[l] = c
                       \/ l > i /\ l - 1 \in 1..Len(q) /\ r[l] = q[l - 1]
  <2>3. old(j) /\ old(k)
    BY <1>3
  <2>4. CASE j < i
    <3>1. j \in 1..Len(q) /\ r[j] = q[j] /\ r[j] # c
      BY <2>1, <2>2, <2>3, <2>4
    <3> QED
      BY <1>0, <1>1, <1>5, <2>2, <2>3, <2>4, <3>1
  <2>5. CASE j = i
    <3>1. r[k] = c
      BY <1>5, <2>2, <2>3, <2>5
    <3> QED
      BY <2>1, <2>2, <2>3, <2>5, <3>1
  <2>6. CASE j > i
    <3>1. j - 1 \in 1..Len(q) /\ r[j] = q[j - 1] /\ r[j] # c
      BY <2>1, <2>2, <2>3, <2>6
    <3> QED
      BY <1>0, <1>1, <1>5, <2>2, <2>3, <2>6, <3>1
  <2> QED
    BY <2>2, <2>4, <2>5, <2>6
<1>6. IsChain(r, S \cup {c})
  BY <1>2, <1>4, <1>5, <1>7, ChainElements
<1> QED
  BY <1>2, <1>6 DEF r

\* Removing a client from a chain gives the chain of the others.
LEMMA RemoveChain ==
  ASSUME NEW q \in Seq(Client), NEW S, IsChain(q, S), NEW c \in S
  PROVE  Without(q, c) \in Seq(Client) /\ IsChain(Without(q, c), S \ {c})
<1> DEFINE i == Position(q, c)
           r == RemoveAt(q, i)
<1>0. Len(q) \in Nat /\ DOMAIN q = 1..Len(q)
  BY LenProperties
<1>1. /\ \A k \in 1..Len(q) : q[k] \in S
      /\ \A d \in S : \E k \in 1..Len(q) : q[k] = d
      /\ \A j, k \in 1..Len(q) : q[j] = q[k] => j = k
  BY ChainElements
<1>2. i \in 1..Len(q) /\ q[i] = c
  BY <1>0, <1>1 DEF Position
<1> HIDE DEF i
<1>3. /\ r \in Seq(Client)
      /\ Len(r) = Len(q) - 1
      /\ \A j \in 1..Len(q) - 1 : r[j] = IF j < i THEN q[j] ELSE q[j + 1]
  BY <1>2, RemoveElements
<1> HIDE DEF r
<1>4. \A k \in 1..Len(r) : r[k] \in S \ {c}
  BY <1>0, <1>1, <1>2, <1>3
<1>5. ASSUME NEW d \in S \ {c} PROVE \E k \in 1..Len(r) : r[k] = d
  <2>1. PICK k \in 1..Len(q) : q[k] = d
    BY <1>1
  <2>2. CASE k < i
    BY <1>0, <1>2, <1>3, <2>1, <2>2
  <2>3. CASE k > i
    <3>1. k - 1 \in 1..Len(r) /\ r[k - 1] = d
      BY <1>0, <1>2, <1>3, <2>1, <2>3
    <3> QED
      BY <3>1
  <2> QED
    BY <1>0, <1>2, <2>1, <2>2, <2>3
<1>6. \A j, k \in 1..Len(r) : r[j] = r[k] => j = k
  BY <1>0, <1>1, <1>2, <1>3
<1>7. IsChain(r, S \ {c})
  BY <1>3, <1>4, <1>5, <1>6, ChainElements
<1>8. Without(q, c) = r
  BY DEF Without, r, i
<1> QED
  BY <1>3, <1>7, <1>8

\* Position finds the client in the chain.
LEMMA PositionType ==
  ASSUME NEW q \in Seq(Client), NEW S, IsChain(q, S), NEW c \in S
  PROVE  Position(q, c) \in 1..Len(q) /\ q[Position(q, c)] = c
<1>1. \E i \in DOMAIN q : q[i] = c
  BY ChainElements, LenProperties
<1> QED
  BY <1>1, LenProperties DEF Position

\* A new client linked in at the head.
LEMMA PushChain ==
  ASSUME NEW q \in Seq(Client), NEW S, IsChain(q, S), NEW c \in Client, c \notin S
  PROVE  <<c>> \o q \in Seq(Client) /\ IsChain(<<c>> \o q, S \cup {c})
<1> DEFINE r == InsertAt(q, 1, c)
<1>1. Len(q) \in Nat /\ <<c>> \in Seq(Client) /\ Len(<<c>>) = 1 /\ <<c>>[1] = c
  BY LenProperties
<1>2. 1 \in 1..Len(q) + 1
  BY <1>1
<1>3. r \in Seq(Client) /\ IsChain(r, S \cup {c})
  BY <1>2, InsertChain
<1>4. r = <<c>> \o q
  <2>1. SubSeq(q, 1, 1 - 1) = <<>>
    BY SubSeqEmpty
  <2>2. <<>> \o <<c>> = <<c>>
    BY <1>1, ConcatEmptySeq
  <2>3. SubSeq(q, 1, Len(q)) = q
    BY SubSeqFull
  <2> QED
    BY <2>1, <2>2, <2>3 DEF InsertAt
<1> QED
  BY <1>3, <1>4

\* A new client linked in next to one of the chain.
LEMMA PutChain ==
  ASSUME NEW q \in Seq(Client), NEW S, IsChain(q, S),
         NEW c \in Client, c \notin S, NEW d \in S
  PROVE  /\ PutAfter(q, d, c) \in Seq(Client) /\ IsChain(PutAfter(q, d, c), S \cup {c})
         /\ PutBefore(q, d, c) \in Seq(Client) /\ IsChain(PutBefore(q, d, c), S \cup {c})
<1>1. Len(q) \in Nat /\ Position(q, d) \in 1..Len(q)
  BY PositionType, LenProperties
<1>2. Position(q, d) \in 1..Len(q) + 1 /\ Position(q, d) + 1 \in 1..Len(q) + 1
  BY <1>1
<1> QED
  BY <1>2, InsertChain DEF PutAfter, PutBefore

\* What a walk along the chain stops at is in the chain and in the set.
LEMMA WalkType ==
  ASSUME NEW q \in Seq(Client), NEW S, NEW n
  PROVE  /\ FirstIn(q, S) # None => FirstIn(q, S) \in S /\ \E i \in 1..Len(q) : q[i] = FirstIn(q, S)
         /\ LastIn(q, S) # None => LastIn(q, S) \in S /\ \E i \in 1..Len(q) : q[i] = LastIn(q, S)
         /\ NthIn(q, S, n) # None => NthIn(q, S, n) \in S /\ \E i \in 1..Len(q) : q[i] = NthIn(q, S, n)
<1> DEFINE at == {i \in DOMAIN q : q[i] \in S}
           reached == {i \in at : Cardinality({j \in at : j <= i}) <= n}
<1>1. Len(q) \in Nat /\ DOMAIN q = 1..Len(q)
  BY LenProperties
<1>2. at \subseteq 1..Len(q) /\ at \subseteq Nat /\ reached \subseteq at
  BY <1>1
<1>3. FirstIn(q, S) # None => \E i \in at : q[i] = FirstIn(q, S)
  <2>1. at # {} => \E i \in at : \A j \in at : i <= j
    BY <1>2, LeastNat
  <2> QED
    BY <2>1 DEF FirstIn
<1>4. LastIn(q, S) # None => \E i \in at : q[i] = LastIn(q, S)
  <2>1. at # {} => \E i \in at : \A j \in at : j <= i
    BY <1>1, <1>2, GreatestNat
  <2> QED
    BY <2>1 DEF LastIn
<1>5. NthIn(q, S, n) # None => \E i \in at : q[i] = NthIn(q, S, n)
  <2>1. reached \subseteq 1..Len(q)
    BY <1>2
  <2> HIDE DEF reached
  <2>2. reached # {} => \E i \in reached : \A j \in reached : j <= i
    BY <1>1, <2>1, GreatestNat
  <2>3. reached # {} => (CHOOSE i \in reached : \A j \in reached : j <= i) \in reached
    BY <2>2
  <2>4. NthIn(q, S, n) = IF reached = {} THEN None
                         ELSE q[CHOOSE i \in reached : \A j \in reached : j <= i]
    BY DEF NthIn, reached
  <2> QED
    BY <1>2, <2>3, <2>4
<1> QED
  BY <1>2, <1>3, <1>4, <1>5

\* What comes after and before a client in a chain.
LEMMA AfterBefore ==
  ASSUME NEW q \in Seq(Client), NEW S, IsChain(q, S), NEW c \in S
  PROVE  /\ After(q, c) \in Seq(Client)
         /\ \A k \in 1..Len(After(q, c)) :
               \E j \in 1..Len(q) : j > Position(q, c) /\ After(q, c)[k] = q[j]
         /\ Before(q, c) \in Seq(Client)
         /\ \A k \in 1..Len(Before(q, c)) :
               \E j \in 1..Len(q) : j < Position(q, c) /\ Before(q, c)[k] = q[j]
<1> DEFINE p == Position(q, c)
<1>1. Len(q) \in Nat /\ p \in 1..Len(q)
  BY LenProperties, PositionType
<1> HIDE DEF p
<1>2. /\ SubSeq(q, p + 1, Len(q)) \in Seq(Client)
      /\ Len(SubSeq(q, p + 1, Len(q))) = Len(q) - p
      /\ \A k \in 1..Len(q) - p : SubSeq(q, p + 1, Len(q))[k] = q[p + k]
  <2>1. p + 1 \in Nat \ {0} /\ p + 1 <= Len(q) + 1
    BY <1>1
  <2>2. /\ SubSeq(q, p + 1, Len(q)) \in Seq(Client)
        /\ Len(SubSeq(q, p + 1, Len(q))) = Len(q) - (p + 1) + 1
        /\ \A k \in 1..Len(q) - (p + 1) + 1 : SubSeq(q, p + 1, Len(q))[k] = q[(p + 1) + k - 1]
    BY <1>1, <2>1, PartOf
  <2> QED
    BY <1>1, <2>2
<1>3. /\ SubSeq(q, 1, p - 1) \in Seq(Client)
      /\ Len(SubSeq(q, 1, p - 1)) = p - 1
      /\ \A k \in 1..p - 1 : SubSeq(q, 1, p - 1)[k] = q[k]
  BY <1>1, PartOf
<1>4. After(q, c) = SubSeq(q, p + 1, Len(q)) /\ Before(q, c) = SubSeq(q, 1, p - 1)
  BY DEF After, Before, p
<1>5. \A k \in 1..Len(q) - p : p + k \in 1..Len(q) /\ p + k > p
  BY <1>1
<1>6. \A k \in 1..p - 1 : k \in 1..Len(q) /\ k < p
  BY <1>1
<1> QED
  BY <1>2, <1>3, <1>4, <1>5, <1>6 DEF p

\* The next and the previous client of a set T in a chain.
LEMMA NextPrevious ==
  ASSUME NEW q \in Seq(Client), NEW S, IsChain(q, S), NEW c \in S, NEW T
  PROVE  /\ LET x == FirstIn(After(q, c), T)
            IN  x # None => x \in T \cap S /\ Position(q, x) > Position(q, c)
         /\ LET x == LastIn(Before(q, c), T)
            IN  x # None => x \in T \cap S /\ Position(q, x) < Position(q, c)
<1>1. \A i \in 1..Len(q) : q[i] \in S /\ Position(q, q[i]) = i
  <2>1. \A i, j \in 1..Len(q) : q[i] = q[j] => i = j
    BY ChainElements
  <2>2. \A i \in 1..Len(q) : q[i] \in S
    BY ChainElements
  <2>3. \A i \in 1..Len(q) : Position(q, q[i]) \in 1..Len(q) /\ q[Position(q, q[i])] = q[i]
    BY <2>2, PositionType
  <2> QED
    BY <2>1, <2>2, <2>3
<1> DEFINE x == FirstIn(After(q, c), T)
           y == LastIn(Before(q, c), T)
<1>0. /\ After(q, c) \in Seq(Client)
      /\ \A k \in 1..Len(After(q, c)) :
            \E j \in 1..Len(q) : j > Position(q, c) /\ After(q, c)[k] = q[j]
      /\ Before(q, c) \in Seq(Client)
      /\ \A k \in 1..Len(Before(q, c)) :
            \E j \in 1..Len(q) : j < Position(q, c) /\ Before(q, c)[k] = q[j]
  BY AfterBefore
<1>2. x # None => x \in T /\ \E i \in 1..Len(After(q, c)) : After(q, c)[i] = x
  BY <1>0, WalkType
<1>3. y # None => y \in T /\ \E i \in 1..Len(Before(q, c)) : Before(q, c)[i] = y
  BY <1>0, WalkType
<1> HIDE DEF x, y
<1>4. x # None => \E j \in 1..Len(q) : j > Position(q, c) /\ x = q[j]
  BY <1>0, <1>2
<1>5. y # None => \E j \in 1..Len(q) : j < Position(q, c) /\ y = q[j]
  BY <1>0, <1>3
<1>6. x # None => x \in T \cap S /\ Position(q, x) > Position(q, c)
  <2> SUFFICES ASSUME x # None PROVE x \in T \cap S /\ Position(q, x) > Position(q, c)
    OBVIOUS
  <2>1. PICK j \in 1..Len(q) : j > Position(q, c) /\ x = q[j]
    BY <1>4
  <2>2. q[j] \in S /\ Position(q, q[j]) = j
    BY <1>1
  <2> QED
    BY <1>2, <2>1, <2>2
<1>7. y # None => y \in T \cap S /\ Position(q, y) < Position(q, c)
  <2> SUFFICES ASSUME y # None PROVE y \in T \cap S /\ Position(q, y) < Position(q, c)
    OBVIOUS
  <2>1. PICK j \in 1..Len(q) : j < Position(q, c) /\ y = q[j]
    BY <1>5
  <2>2. q[j] \in S /\ Position(q, q[j]) = j
    BY <1>1
  <2> QED
    BY <1>3, <2>1, <2>2
<1> QED
  BY <1>6, <1>7 DEF x, y

-----------------------------------------------------------------------------
(* The state between two list operations: the clients of X are on no       *)
(* chain of clients, those of Y on no stack, and nothing points to Z.      *)

Listed(s, X, Y) ==
    \A m \in Monitor :
        /\ IsChain(s.clients[m], On(s, m) \ X)
        /\ IsChain(s.stack[m], On(s, m) \ Y)

Pointed(s, Z) ==
    \A m \in Monitor :
        /\ s.sel[m] \in (On(s, m) \ Z) \cup {None}
        /\ \A t \in Tag : s.focusontag[m][t] \in (On(s, m) \ Z) \cup {None}

Viewed(s) == \A m \in Monitor : s.view[m].cur # {} /\ s.view[m].alt # {}

Sound(s, X, Y, Z) ==
    /\ s \in WmState
    /\ Listed(s, X, Y)
    /\ Pointed(s, Z)
    /\ Viewed(s)
    /\ s.xfocus \in Managed(s) \cup {None}

\* Every client in its place.
Good(s) == Sound(s, {}, {}, {})

\* One chain of clients replaced.
LEMMA ClientsPut ==
  ASSUME NEW s, NEW X, NEW Y, NEW Z, Sound(s, X, Y, Z),
         NEW c \in Client, s.mon[c] # None,
         NEW W, \A m \in Monitor : m # s.mon[c] => On(s, m) \ W = On(s, m) \ X,
         NEW q \in Seq(Client), IsChain(q, On(s, s.mon[c]) \ W)
  PROVE  Sound([s EXCEPT !.clients[s.mon[c]] = q], W, Y, Z)
<1> DEFINE r == [s EXCEPT !.clients[s.mon[c]] = q]
<1>1. s \in WmState /\ s.mon[c] \in Monitor
  BY DEF Sound, WmState
<1>2. /\ r \in WmState
      /\ \A m \in Monitor : r.clients[m] = IF m = s.mon[c] THEN q ELSE s.clients[m]
      /\ r.stack = s.stack /\ r.mon = s.mon /\ r.sel = s.sel
      /\ r.focusontag = s.focusontag /\ r.view = s.view /\ r.xfocus = s.xfocus
  BY <1>1 DEF WmState
<1> HIDE DEF r
<1>3. \A m \in Monitor : On(r, m) = On(s, m)
  BY <1>2 DEF On
<1>4. Listed(r, W, Y)
  BY <1>2, <1>3 DEF Sound, Listed
<1>5. Pointed(r, Z)
  BY <1>2, <1>3 DEF Sound, Pointed
<1>6. Viewed(r) /\ r.xfocus \in Managed(r) \cup {None}
  BY <1>2 DEF Sound, Viewed, Managed
<1> QED
  BY <1>2, <1>4, <1>5, <1>6 DEF Sound, r

\* One stack replaced.
LEMMA StackPut ==
  ASSUME NEW s, NEW X, NEW Y, NEW Z, Sound(s, X, Y, Z),
         NEW c \in Client, s.mon[c] # None,
         NEW W, \A m \in Monitor : m # s.mon[c] => On(s, m) \ W = On(s, m) \ Y,
         NEW q \in Seq(Client), IsChain(q, On(s, s.mon[c]) \ W)
  PROVE  Sound([s EXCEPT !.stack[s.mon[c]] = q], X, W, Z)
<1> DEFINE r == [s EXCEPT !.stack[s.mon[c]] = q]
<1>1. s \in WmState /\ s.mon[c] \in Monitor
  BY DEF Sound, WmState
<1>2. /\ r \in WmState
      /\ \A m \in Monitor : r.stack[m] = IF m = s.mon[c] THEN q ELSE s.stack[m]
      /\ r.clients = s.clients /\ r.mon = s.mon /\ r.sel = s.sel
      /\ r.focusontag = s.focusontag /\ r.view = s.view /\ r.xfocus = s.xfocus
  BY <1>1 DEF WmState
<1> HIDE DEF r
<1>3. \A m \in Monitor : On(r, m) = On(s, m)
  BY <1>2 DEF On
<1>4. Listed(r, X, W)
  BY <1>2, <1>3 DEF Sound, Listed
<1>5. Pointed(r, Z)
  BY <1>2, <1>3 DEF Sound, Pointed
<1>6. Viewed(r) /\ r.xfocus \in Managed(r) \cup {None}
  BY <1>2 DEF Sound, Viewed, Managed
<1> QED
  BY <1>2, <1>4, <1>5, <1>6 DEF Sound, r

\* The chains of the monitor a client is on.
LEMMA ChainsOf ==
  ASSUME NEW s, NEW X, NEW Y, NEW Z, Sound(s, X, Y, Z), NEW m \in Monitor
  PROVE  /\ s.clients[m] \in Seq(Client) /\ IsChain(s.clients[m], On(s, m) \ X)
         /\ s.stack[m] \in Seq(Client) /\ IsChain(s.stack[m], On(s, m) \ Y)
BY DEF Sound, Listed, WmState

\* Only the monitor a client is on lists it.
LEMMA OnOne ==
  ASSUME NEW s, NEW c \in Client, s.mon[c] \in Monitor
  PROVE  /\ c \in On(s, s.mon[c])
         /\ \A m \in Monitor : m # s.mon[c] => On(s, m) \ {c} = On(s, m) \ {}
BY DEF On

\* A client put on a chain it was not on, and taken off one it was on.
LEMMA ClientsIn ==
  ASSUME NEW s, NEW Y, NEW Z, NEW c \in Client, s.mon[c] # None, Sound(s, {c}, Y, Z),
         NEW q \in Seq(Client), IsChain(q, (On(s, s.mon[c]) \ {c}) \cup {c})
  PROVE  Sound([s EXCEPT !.clients[s.mon[c]] = q], {}, Y, Z)
<1>1. s.mon[c] \in Monitor
  BY DEF Sound, WmState
<1>2. (On(s, s.mon[c]) \ {c}) \cup {c} = On(s, s.mon[c]) \ {}
  BY <1>1, OnOne
<1>3. \A m \in Monitor : m # s.mon[c] => On(s, m) \ {} = On(s, m) \ {c}
  BY <1>1, OnOne
<1> QED
  BY <1>2, <1>3, ClientsPut

\* The same for the stack.
LEMMA StackIn ==
  ASSUME NEW s, NEW X, NEW Z, NEW c \in Client, s.mon[c] # None, Sound(s, X, {c}, Z),
         NEW q \in Seq(Client), IsChain(q, (On(s, s.mon[c]) \ {c}) \cup {c})
  PROVE  Sound([s EXCEPT !.stack[s.mon[c]] = q], X, {}, Z)
<1>1. s.mon[c] \in Monitor
  BY DEF Sound, WmState
<1>2. (On(s, s.mon[c]) \ {c}) \cup {c} = On(s, s.mon[c]) \ {}
  BY <1>1, OnOne
<1>3. \A m \in Monitor : m # s.mon[c] => On(s, m) \ {} = On(s, m) \ {c}
  BY <1>1, OnOne
<1> QED
  BY <1>2, <1>3, StackPut

\* detach takes the client off the layout order of its monitor.
LEMMA DetachSound ==
  ASSUME NEW s, NEW Y, NEW Z, NEW c \in Client, s.mon[c] # None, Sound(s, {}, Y, Z)
  PROVE  Sound(Detach(s, c), {c}, Y, Z) /\ Detach(s, c).mon = s.mon
<1> DEFINE q == Without(s.clients[s.mon[c]], c)
<1>1. s.mon[c] \in Monitor /\ s \in WmState
  BY DEF Sound, WmState
<1>2. s.clients[s.mon[c]] \in Seq(Client) /\ IsChain(s.clients[s.mon[c]], On(s, s.mon[c]) \ {})
  BY <1>1, ChainsOf
<1>3. c \in On(s, s.mon[c]) \ {} /\ (On(s, s.mon[c]) \ {}) \ {c} = On(s, s.mon[c]) \ {c}
  BY <1>1, OnOne
<1>4. q \in Seq(Client) /\ IsChain(q, On(s, s.mon[c]) \ {c})
  BY <1>2, <1>3, RemoveChain
<1>5. \A m \in Monitor : m # s.mon[c] => On(s, m) \ {c} = On(s, m) \ {}
  BY <1>1, OnOne
<1>6. Detach(s, c) = [s EXCEPT !.clients[s.mon[c]] = q]
  BY DEF Detach
<1> HIDE DEF q
<1>7. Sound([s EXCEPT !.clients[s.mon[c]] = q], {c}, Y, Z)
  BY <1>4, <1>5, ClientsPut
<1> QED
  BY <1>1, <1>6, <1>7 DEF WmState

\* detachstackex takes it off the stack and leaves sel as it is.
LEMMA DetachStackExSound ==
  ASSUME NEW s, NEW X, NEW Z, NEW c \in Client, s.mon[c] # None, Sound(s, X, {}, Z)
  PROVE  /\ Sound(DetachStackEx(s, c), X, {c}, Z)
         /\ DetachStackEx(s, c).mon = s.mon
         /\ DetachStackEx(s, c).sel = s.sel
<1> DEFINE q == Without(s.stack[s.mon[c]], c)
<1>1. s.mon[c] \in Monitor /\ s \in WmState
  BY DEF Sound, WmState
<1>2. s.stack[s.mon[c]] \in Seq(Client) /\ IsChain(s.stack[s.mon[c]], On(s, s.mon[c]) \ {})
  BY <1>1, ChainsOf
<1>3. c \in On(s, s.mon[c]) \ {} /\ (On(s, s.mon[c]) \ {}) \ {c} = On(s, s.mon[c]) \ {c}
  BY <1>1, OnOne
<1>4. q \in Seq(Client) /\ IsChain(q, On(s, s.mon[c]) \ {c})
  BY <1>2, <1>3, RemoveChain
<1>5. \A m \in Monitor : m # s.mon[c] => On(s, m) \ {c} = On(s, m) \ {}
  BY <1>1, OnOne
<1>6. DetachStackEx(s, c) = [s EXCEPT !.stack[s.mon[c]] = q]
  BY DEF DetachStackEx
<1> HIDE DEF q
<1>7. Sound([s EXCEPT !.stack[s.mon[c]] = q], X, {c}, Z)
  BY <1>4, <1>5, StackPut
<1> QED
  BY <1>1, <1>6, <1>7 DEF WmState

\* The attach functions put the client on the chains of its monitor.
LEMMA AttachSound ==
  ASSUME NEW s, NEW Y, NEW Z, NEW c \in Client, s.mon[c] # None, Sound(s, {c}, Y, Z)
  PROVE  Sound(Attach(s, c), {}, Y, Z) /\ Attach(s, c).mon = s.mon
<1> DEFINE q == <<c>> \o s.clients[s.mon[c]]
<1>1. s.mon[c] \in Monitor /\ s \in WmState
  BY DEF Sound, WmState
<1>2. s.clients[s.mon[c]] \in Seq(Client) /\ IsChain(s.clients[s.mon[c]], On(s, s.mon[c]) \ {c})
  BY <1>1, ChainsOf
<1>3. q \in Seq(Client) /\ IsChain(q, (On(s, s.mon[c]) \ {c}) \cup {c})
  BY <1>2, PushChain
<1>4. Attach(s, c) = [s EXCEPT !.clients[s.mon[c]] = q]
  BY DEF Attach
<1> HIDE DEF q
<1>5. Sound([s EXCEPT !.clients[s.mon[c]] = q], {}, Y, Z)
  BY <1>3, ClientsIn
<1> QED
  BY <1>1, <1>4, <1>5 DEF WmState

\* A client linked in behind another one of its monitor.
LEMMA PutAfterSound ==
  ASSUME NEW s, NEW Y, NEW Z, NEW c \in Client, s.mon[c] # None, Sound(s, {c}, Y, Z),
         NEW d \in On(s, s.mon[c]), d # c
  PROVE  /\ Sound([s EXCEPT !.clients[s.mon[c]] = PutAfter(s.clients[s.mon[c]], d, c)], {}, Y, Z)
         /\ [s EXCEPT !.clients[s.mon[c]] = PutAfter(s.clients[s.mon[c]], d, c)].mon = s.mon
<1> DEFINE q == PutAfter(s.clients[s.mon[c]], d, c)
<1>1. s.mon[c] \in Monitor /\ s \in WmState
  BY DEF Sound, WmState
<1>2. s.clients[s.mon[c]] \in Seq(Client) /\ IsChain(s.clients[s.mon[c]], On(s, s.mon[c]) \ {c})
  BY <1>1, ChainsOf
<1>3. q \in Seq(Client) /\ IsChain(q, (On(s, s.mon[c]) \ {c}) \cup {c})
  BY <1>2, PutChain
<1> HIDE DEF q
<1>4. Sound([s EXCEPT !.clients[s.mon[c]] = q], {}, Y, Z)
  BY <1>3, ClientsIn
<1> QED
  BY <1>1, <1>4 DEF WmState, q

\* attachBelow links a client that nothing selects in at the head, or behind
\* another one of its monitor: the selected one or the last master.
LEMMA AttachBelowPlace ==
  ASSUME NEW s, NEW Y, NEW c \in Client, s.mon[c] # None, Sound(s, {c}, Y, {c})
  PROVE  \/ AttachBelow(s, c) = Attach(s, c)
         \/ \E d \in On(s, s.mon[c]) \ {c} :
               AttachBelow(s, c) = [s EXCEPT !.clients[s.mon[c]] = PutAfter(s.clients[s.mon[c]], d, c)]
<1> DEFINE m == s.mon[c]
           sel == s.sel[m]
           last == NthIn(s.clients[m], TiledOnTagsOf(s, c), NMaster)
           at == IF sel = None \/ sel \in s.floating \/ ~Visible(s, c) THEN last ELSE sel
<1>1. m \in Monitor
  BY DEF Sound, WmState
<1>2. s.clients[m] \in Seq(Client) /\ IsChain(s.clients[m], On(s, m) \ {c})
  BY <1>1, ChainsOf
<1>3. last # None => last \in On(s, m) \ {c}
  <2> HIDE DEF m
  <2>1. last # None => \E i \in 1..Len(s.clients[m]) : s.clients[m][i] = last
    BY <1>2, WalkType
  <2> QED
    BY <1>2, <2>1, ChainElements
<1>4. sel # None => sel \in On(s, m) \ {c}
  BY <1>1 DEF Sound, Pointed
<1>5. at # None => at \in On(s, s.mon[c]) \ {c}
  BY <1>3, <1>4
<1>6. AttachBelow(s, c) = IF at = None THEN Attach(s, c)
                          ELSE [s EXCEPT !.clients[s.mon[c]] = PutAfter(s.clients[s.mon[c]], at, c)]
  BY DEF AttachBelow
<1> HIDE DEF at, last, sel, m
<1> QED
  BY <1>5, <1>6

\* attachBelow puts the client on the layout order.
LEMMA AttachBelowSound ==
  ASSUME NEW s, NEW Y, NEW c \in Client, s.mon[c] # None, Sound(s, {c}, Y, {c})
  PROVE  Sound(AttachBelow(s, c), {}, Y, {c}) /\ AttachBelow(s, c).mon = s.mon
<1>1. CASE AttachBelow(s, c) = Attach(s, c)
  BY <1>1, AttachSound
<1>2. ASSUME NEW d \in On(s, s.mon[c]) \ {c},
             AttachBelow(s, c) = [s EXCEPT !.clients[s.mon[c]] = PutAfter(s.clients[s.mon[c]], d, c)]
      PROVE  Sound(AttachBelow(s, c), {}, Y, {c}) /\ AttachBelow(s, c).mon = s.mon
  BY <1>2, PutAfterSound
<1> QED
  BY <1>1, <1>2, AttachBelowPlace

\* attachstackex puts the client at the head of the stack.
LEMMA AttachStackExSound ==
  ASSUME NEW s, NEW X, NEW Z, NEW c \in Client, s.mon[c] # None, Sound(s, X, {c}, Z)
  PROVE  /\ Sound(AttachStackEx(s, c), X, {}, Z)
         /\ AttachStackEx(s, c).mon = s.mon
         /\ AttachStackEx(s, c).sel = s.sel
<1> DEFINE q == <<c>> \o s.stack[s.mon[c]]
<1>1. s.mon[c] \in Monitor /\ s \in WmState
  BY DEF Sound, WmState
<1>2. s.stack[s.mon[c]] \in Seq(Client) /\ IsChain(s.stack[s.mon[c]], On(s, s.mon[c]) \ {c})
  BY <1>1, ChainsOf
<1>3. q \in Seq(Client) /\ IsChain(q, (On(s, s.mon[c]) \ {c}) \cup {c})
  BY <1>2, PushChain
<1>4. AttachStackEx(s, c) = [s EXCEPT !.stack[s.mon[c]] = q]
  BY DEF AttachStackEx
<1> HIDE DEF q
<1>5. Sound([s EXCEPT !.stack[s.mon[c]] = q], X, {}, Z)
  BY <1>3, StackIn
<1> QED
  BY <1>1, <1>4, <1>5 DEF WmState

\* A monitor's selection replaced.
LEMMA SelPut ==
  ASSUME NEW s, NEW X, NEW Y, NEW Z, Sound(s, X, Y, Z), NEW W \in SUBSET Z,
         NEW m \in Monitor, NEW c \in (On(s, m) \ W) \cup {None}
  PROVE  Sound([s EXCEPT !.sel[m] = c], X, Y, W) /\ [s EXCEPT !.sel[m] = c].mon = s.mon
<1> DEFINE r == [s EXCEPT !.sel[m] = c]
<1>1. s \in WmState /\ c \in Client \cup {None}
  BY DEF Sound, On
<1>2. /\ r \in WmState
      /\ \A n \in Monitor : r.sel[n] = IF n = m THEN c ELSE s.sel[n]
      /\ r.clients = s.clients /\ r.stack = s.stack /\ r.mon = s.mon
      /\ r.focusontag = s.focusontag /\ r.view = s.view /\ r.xfocus = s.xfocus
  BY <1>1 DEF WmState
<1> HIDE DEF r
<1>3. \A n \in Monitor : On(r, n) = On(s, n)
  BY <1>2 DEF On
<1>4. Listed(r, X, Y)
  BY <1>2, <1>3 DEF Sound, Listed
<1>5. Pointed(r, W)
  BY <1>2, <1>3 DEF Sound, Pointed
<1>6. Viewed(r) /\ r.xfocus \in Managed(r) \cup {None}
  BY <1>2 DEF Sound, Viewed, Managed
<1> QED
  BY <1>2, <1>4, <1>5, <1>6 DEF Sound, r

\* attachstack puts it on the stack and may select it.
LEMMA AttachStackSound ==
  ASSUME NEW s, NEW X, NEW c \in Client, s.mon[c] # None, Sound(s, X, {c}, {c})
  PROVE  Sound(AttachStack(s, c), X, {}, {}) /\ AttachStack(s, c).mon = s.mon
<1> DEFINE q == s.stack[s.mon[c]]
           f == IF c \in s.floating THEN None ELSE FirstIn(q, Client \ s.floating)
           becomesSel == s.mon[c] # s.selmon /\ c \in s.floating /\ c \in Usable(s, s.mon[c])
           top == AttachStackEx(s, c)
           new == IF becomesSel THEN c ELSE top.sel[s.mon[c]]
           r == PutBefore(q, f, c)
<1>1. s.mon[c] \in Monitor /\ s \in WmState
  BY DEF Sound, WmState
<1>2. q \in Seq(Client) /\ IsChain(q, On(s, s.mon[c]) \ {c})
  BY <1>1, ChainsOf
<1>3. f # None => f \in On(s, s.mon[c]) \ {c}
  <2>1. f # None => \E i \in 1..Len(q) : q[i] = f
    <3> HIDE DEF q
    <3> QED
      BY <1>2, WalkType
  <2> HIDE DEF f, q
  <2> QED
    BY <1>2, <2>1, ChainElements
<1>4. AttachStack(s, c) = IF f = None \/ f = Head(q)
                          THEN [top EXCEPT !.sel[s.mon[c]] = new]
                          ELSE [s EXCEPT !.stack[s.mon[c]] = r]
  BY DEF AttachStack
<1>5. Sound(top, X, {}, {c}) /\ top.mon = s.mon
  BY AttachStackExSound
<1>6. new \in (On(top, s.mon[c]) \ {}) \cup {None}
  <2>1. c \in On(top, s.mon[c])
    BY <1>1, <1>5 DEF On
  <2>2. top.sel[s.mon[c]] \in On(top, s.mon[c]) \cup {None}
    <3> HIDE DEF top
    <3> QED
      BY <1>1, <1>5 DEF Sound, Pointed
  <2> HIDE DEF top
  <2> QED
    BY <2>1, <2>2
<1>7. CASE f = None \/ f = Head(q)
  <2> HIDE DEF f, q, top, new
  <2>1. {} \in SUBSET {c}
    OBVIOUS
  <2>2. /\ Sound([top EXCEPT !.sel[s.mon[c]] = new], X, {}, {})
        /\ [top EXCEPT !.sel[s.mon[c]] = new].mon = top.mon
    BY <1>1, <1>5, <1>6, <2>1, SelPut
  <2> QED
    BY <1>4, <1>5, <1>7, <2>2
<1>8. CASE ~(f = None \/ f = Head(q))
  <2>1. r \in Seq(Client) /\ IsChain(r, (On(s, s.mon[c]) \ {c}) \cup {c})
    <3> HIDE DEF f, q
    <3> QED
      BY <1>2, <1>3, <1>8, PutChain
  <2> HIDE DEF f, q, r
  <2>2. Sound([s EXCEPT !.stack[s.mon[c]] = r], X, {}, {c})
    BY <2>1, StackIn
  <2>3. Sound([s EXCEPT !.stack[s.mon[c]] = r], X, {}, {})
    BY <2>2 DEF Sound, Pointed
  <2> QED
    BY <1>1, <1>4, <1>8, <2>3 DEF WmState
<1> QED
  BY <1>7, <1>8

\* attachstackBelow puts it behind another one, or falls back on attachstack.
LEMMA AttachStackBelowSound ==
  ASSUME NEW s, NEW X, NEW c \in Client, s.mon[c] # None, Sound(s, X, {c}, {c})
  PROVE  Sound(AttachStackBelow(s, c), X, {}, {}) /\ AttachStackBelow(s, c).mon = s.mon
<1> DEFINE q == s.stack[s.mon[c]]
           S == TiledOnTagsOf(s, c)
           last == IF NMaster = 0 THEN LastIn(q, S) ELSE NthIn(q, S, NMaster)
           sel == s.sel[s.mon[c]]
           below == (sel # None /\ sel \notin s.floating) \/ ~Visible(s, c)
           r == PutAfter(q, last, c)
<1>1. s.mon[c] \in Monitor /\ s \in WmState
  BY DEF Sound, WmState
<1>2. q \in Seq(Client) /\ IsChain(q, On(s, s.mon[c]) \ {c})
  BY <1>1, ChainsOf
<1>3. last # None => last \in On(s, s.mon[c]) \ {c}
  <2>1. last # None => \E i \in 1..Len(q) : q[i] = last
    <3> HIDE DEF q, S
    <3> QED
      BY <1>2, WalkType
  <2> HIDE DEF last, q
  <2> QED
    BY <1>2, <2>1, ChainElements
<1>4. AttachStackBelow(s, c) = IF below /\ last # None
                               THEN [s EXCEPT !.stack[s.mon[c]] = r]
                               ELSE AttachStack(s, c)
  BY DEF AttachStackBelow
<1>5. CASE below /\ last # None
  <2>1. r \in Seq(Client) /\ IsChain(r, (On(s, s.mon[c]) \ {c}) \cup {c})
    <3> HIDE DEF last, q
    <3> QED
      BY <1>2, <1>3, <1>5, PutChain
  <2> HIDE DEF below, last, q, r
  <2>2. Sound([s EXCEPT !.stack[s.mon[c]] = r], X, {}, {c})
    BY <2>1, StackIn
  <2>3. Sound([s EXCEPT !.stack[s.mon[c]] = r], X, {}, {})
    BY <2>2 DEF Sound, Pointed
  <2> QED
    BY <1>1, <1>4, <1>5, <2>3 DEF WmState
<1>6. CASE ~(below /\ last # None)
  <2> HIDE DEF below, last
  <2> QED
    BY <1>4, <1>6, AttachStackSound
<1> QED
  BY <1>5, <1>6

\* One row of focusontag replaced.
LEMMA FocusOnTagPut ==
  ASSUME NEW s, NEW X, NEW Y, NEW Z, Sound(s, X, Y, Z), NEW m \in Monitor, NEW f,
         f \in [Tag -> Client \cup {None}],
         \A t \in Tag : f[t] \in (On(s, m) \ Z) \cup {None}
  PROVE  /\ Sound([s EXCEPT !.focusontag[m] = f], X, Y, Z)
         /\ [s EXCEPT !.focusontag[m] = f].mon = s.mon
         /\ \A n \in Monitor : [s EXCEPT !.focusontag[m] = f].focusontag[n]
                                  = IF n = m THEN f ELSE s.focusontag[n]
<1> DEFINE r == [s EXCEPT !.focusontag[m] = f]
<1>1. s \in WmState
  BY DEF Sound
<1>2. /\ r \in WmState
      /\ \A n \in Monitor : r.focusontag[n] = IF n = m THEN f ELSE s.focusontag[n]
      /\ r.clients = s.clients /\ r.stack = s.stack /\ r.mon = s.mon
      /\ r.sel = s.sel /\ r.view = s.view /\ r.xfocus = s.xfocus
  BY <1>1 DEF WmState
<1> HIDE DEF r
<1>3. \A n \in Monitor : On(r, n) = On(s, n)
  BY <1>2 DEF On
<1>4. Listed(r, X, Y)
  BY <1>2, <1>3 DEF Sound, Listed
<1>5. Pointed(r, Z)
  BY <1>2, <1>3 DEF Sound, Pointed
<1>6. Viewed(r) /\ r.xfocus \in Managed(r) \cup {None}
  BY <1>2 DEF Sound, Viewed, Managed
<1> QED
  BY <1>2, <1>4, <1>5, <1>6 DEF Sound, r

\* Once its entries are cleared no tag remembers the client.
LEMMA ForgetOnTagSound ==
  ASSUME NEW s, NEW X, NEW Y, NEW Z, NEW c \in Client, s.mon[c] # None, Sound(s, X, Y, Z)
  PROVE  /\ Sound(ForgetOnTag(s, c), X, Y, Z)
         /\ ForgetOnTag(s, c).mon = s.mon
         /\ \A t \in Tag : ForgetOnTag(s, c).focusontag[s.mon[c]][t] # c
<1> DEFINE m == s.mon[c]
           f == [t \in Tag |-> IF s.focusontag[m][t] = c THEN None ELSE s.focusontag[m][t]]
<1>1. m \in Monitor /\ s \in WmState /\ c # None
  BY NoneAssumption DEF Sound, WmState
<1>2. \A t \in Tag : /\ s.focusontag[m][t] \in Client \cup {None}
                     /\ s.focusontag[m][t] \in (On(s, m) \ Z) \cup {None}
  BY <1>1 DEF Sound, WmState, Pointed
<1>3. f \in [Tag -> Client \cup {None}]
  BY <1>2
<1>4. \A t \in Tag : f[t] \in (On(s, m) \ Z) \cup {None} /\ f[t] # c
  BY <1>1, <1>2
<1>5. ForgetOnTag(s, c) = [s EXCEPT !.focusontag[m] = f]
  BY DEF ForgetOnTag
<1> HIDE DEF f, m
<1>6. /\ Sound([s EXCEPT !.focusontag[m] = f], X, Y, Z)
      /\ [s EXCEPT !.focusontag[m] = f].mon = s.mon
      /\ [s EXCEPT !.focusontag[m] = f].focusontag[m] = f
  BY <1>1, <1>3, <1>4, FocusOnTagPut
<1> QED
  BY <1>4, <1>5, <1>6 DEF m

\* After detachstack nothing points to the client.
LEMMA DetachStackSound ==
  ASSUME NEW s, NEW X, NEW c \in Client, s.mon[c] # None, Sound(s, X, {}, {})
  PROVE  Sound(DetachStack(s, c), X, {c}, {c}) /\ DetachStack(s, c).mon = s.mon
<1> DEFINE d == DetachStackEx(s, c)
           r == ForgetOnTag(d, c)
           m == s.mon[c]
           next == IF s.sel[m] = c THEN FirstIn(r.stack[m], Shown(r, m)) ELSE r.sel[m]
<1>1. m \in Monitor /\ s \in WmState
  BY DEF Sound, WmState
<1>2. Sound(d, X, {c}, {}) /\ d.mon = s.mon /\ d.sel = s.sel
  BY DetachStackExSound
<1>3. /\ Sound(r, X, {c}, {})
      /\ r.mon = s.mon
      /\ \A t \in Tag : r.focusontag[m][t] # c
  <2> HIDE DEF d
  <2> QED
    BY <1>2, ForgetOnTagSound
<1>4. r.sel = s.sel
  BY <1>2, <1>1 DEF ForgetOnTag, Sound, WmState
<1> HIDE DEF d, r
<1>5. \A n \in Monitor : On(r, n) = On(s, n) /\ (n # m => c \notin On(s, n))
  BY <1>3 DEF On
<1>6. next \in (On(r, m) \ {c}) \cup {None}
  <2>1. CASE s.sel[m] = c
    <3>1. r.stack[m] \in Seq(Client) /\ IsChain(r.stack[m], On(r, m) \ {c})
      BY <1>1, <1>3, ChainsOf
    <3> DEFINE x == FirstIn(r.stack[m], Shown(r, m))
    <3>2. x # None => \E i \in 1..Len(r.stack[m]) : r.stack[m][i] = x
      <4> HIDE DEF m
      <4> QED
        BY <3>1, WalkType
    <3> HIDE DEF x
    <3>3. x \in (On(r, m) \ {c}) \cup {None}
      BY <3>1, <3>2, ChainElements
    <3> QED
      BY <2>1, <3>3 DEF x
  <2>2. CASE s.sel[m] # c
    <3>1. r.sel[m] \in On(r, m) \cup {None}
      BY <1>1, <1>3 DEF Sound, Pointed
    <3> QED
      BY <1>4, <2>2, <3>1
  <2> QED
    BY <2>1, <2>2
<1>7. DetachStack(s, c) = [r EXCEPT !.sel[m] = next]
  <2>1. r \in WmState
    BY <1>3 DEF Sound
  <2>2. [r EXCEPT !.sel[m] = r.sel[m]] = r
    BY <1>1, <2>1 DEF WmState
  <2> QED
    BY <2>2 DEF DetachStack, r, d
<1> DEFINE u == [r EXCEPT !.sel[m] = next]
<1>8. Sound(u, X, {c}, {}) /\ u.mon = r.mon
  <2>1. next \in (On(r, m) \ {}) \cup {None}
    BY <1>6
  <2> HIDE DEF next, m
  <2> QED
    BY <1>1, <1>3, <2>1, SelPut DEF m
<1>9. /\ \A n \in Monitor : u.sel[n] = IF n = m THEN next ELSE s.sel[n]
      /\ u.focusontag = r.focusontag
  BY <1>1, <1>3, <1>4 DEF Sound, WmState
<1>10. \A n \in Monitor : On(u, n) = On(s, n)
  BY <1>3, <1>8 DEF On
<1> HIDE DEF u, next
<1>11. Pointed(u, {c})
  <2> SUFFICES ASSUME NEW n \in Monitor
               PROVE  /\ u.sel[n] \in (On(u, n) \ {c}) \cup {None}
                      /\ \A t \in Tag : u.focusontag[n][t] \in (On(u, n) \ {c}) \cup {None}
    BY DEF Pointed
  <2>1. /\ u.sel[n] \in On(u, n) \cup {None}
        /\ \A t \in Tag : u.focusontag[n][t] \in On(u, n) \cup {None}
    BY <1>8 DEF Sound, Pointed
  <2>2. CASE n = m
    BY <1>3, <1>5, <1>6, <1>9, <1>10, <2>1, <2>2
  <2>3. CASE n # m
    BY <1>5, <1>10, <2>1, <2>3
  <2> QED
    BY <2>2, <2>3
<1>12. Sound(u, X, {c}, {c})
  BY <1>8, <1>11 DEF Sound
<1> QED
  BY <1>3, <1>7, <1>8, <1>12 DEF u

-----------------------------------------------------------------------------
(* What the list operations change besides the lists.                      *)

\* What makes a client be on the screen is the same in both records.
SameClients(r, s) ==
    /\ r.mon = s.mon /\ r.tags = s.tags
    /\ r.floating = s.floating /\ r.hidden = s.hidden

\* Then the same clients are on the screen of a monitor with the same view.
LEMMA SameShown ==
  ASSUME NEW s, NEW r, r.mon = s.mon, r.tags = s.tags, r.hidden = s.hidden,
         NEW m \in Monitor, r.view[m].cur = s.view[m].cur
  PROVE  /\ On(r, m) = On(s, m)
         /\ \A c \in On(s, m) : Visible(r, c) <=> Visible(s, c)
         /\ Shown(r, m) = Shown(s, m)
         /\ Usable(r, m) = Usable(s, m)
<1>1. On(r, m) = On(s, m)
  BY DEF On
<1>2. \A c \in On(s, m) : Visible(r, c) <=> Visible(s, c)
  BY DEF On, Visible, VisibleOnTag
<1>3. Shown(r, m) = Shown(s, m)
  BY <1>1, <1>2 DEF Shown
<1> QED
  BY <1>1, <1>2, <1>3 DEF Usable

\* A record with other lists only.
SameRest(r, s) ==
    /\ SameClients(r, s) /\ r.view = s.view
    /\ r.selmon = s.selmon /\ r.xfocus = s.xfocus

\* The layout order of the client's monitor is all that these change.
LEMMA ClientsEffect ==
  ASSUME NEW s, s \in WmState, NEW c \in Client, s.mon[c] # None,
         NEW r \in {Attach(s, c), AttachBelow(s, c), Detach(s, c)}
  PROVE  /\ SameRest(r, s) /\ r.sel = s.sel /\ r.focusontag = s.focusontag
         /\ r.stack = s.stack
         /\ \A m \in Monitor : m # s.mon[c] => r.clients[m] = s.clients[m]
<1> DEFINE m == s.mon[c]
           Put(q) == [s EXCEPT !.clients[m] = q]
<1>1. \E q : r = Put(q)
  <2>1. Attach(s, c) = Put(<<c>> \o s.clients[m])
    BY DEF Attach
  <2>2. Detach(s, c) = Put(Without(s.clients[m], c))
    BY DEF Detach
  <2> DEFINE sel == s.sel[m]
             last == NthIn(s.clients[m], TiledOnTagsOf(s, c), NMaster)
             at == IF sel = None \/ sel \in s.floating \/ ~Visible(s, c) THEN last ELSE sel
  <2>3. AttachBelow(s, c) = IF at = None THEN Attach(s, c) ELSE Put(PutAfter(s.clients[m], at, c))
    BY DEF AttachBelow
  <2> HIDE DEF Put, at
  <2> QED
    BY <2>1, <2>2, <2>3
<1>2. PICK q : r = Put(q)
  BY <1>1
<1>3. m \in Monitor
  BY DEF WmState
<1> QED
  BY <1>2, <1>3 DEF WmState, SameRest, SameClients

\* detachstack forgets the client, and replaces it where it was selected by
\* one that is on the screen, if there is one.
LEMMA DetachStackEffect ==
  ASSUME NEW s, NEW X, Sound(s, X, {}, {}), NEW c \in Client, s.mon[c] # None
  PROVE  LET r == DetachStack(s, c)
         IN  /\ SameRest(r, s) /\ r.clients = s.clients
             /\ \A n \in Monitor, t \in Tag : r.focusontag[n][t] \in {s.focusontag[n][t], None}
             /\ \A n \in Monitor :
                   \/ r.sel[n] = s.sel[n]
                   \/ s.sel[n] = c /\ n = s.mon[c] /\ r.sel[n] \in Shown(s, n) \cup {None}
<1> DEFINE m == s.mon[c]
           a == DetachStackEx(s, c)
           kept == [t \in Tag |-> IF a.focusontag[m][t] = c THEN None ELSE a.focusontag[m][t]]
           f == ForgetOnTag(a, c)
           d == FirstIn(f.stack[m], Shown(f, m))
           g == [f EXCEPT !.sel[m] = d]
           r == DetachStack(s, c)
<1>1. s \in WmState /\ m \in Monitor
  BY DEF Sound, WmState
<1>2. Sound(a, X, {c}, {}) /\ a.mon = s.mon
  BY DetachStackExSound
<1>3. SameRest(a, s) /\ a.clients = s.clients /\ a.sel = s.sel /\ a.focusontag = s.focusontag
  BY <1>1 DEF DetachStackEx, WmState, SameRest, SameClients
<1>4. f = [a EXCEPT !.focusontag[m] = kept]
  BY <1>2 DEF ForgetOnTag
<1>5. r = IF s.sel[m] = c THEN g ELSE f
  BY DEF DetachStack
<1> HIDE DEF a, r
<1>6. a \in WmState
  BY <1>2 DEF Sound
<1>7. Sound(f, X, {c}, {}) /\ f.mon = a.mon
  BY <1>2, ForgetOnTagSound
<1> HIDE DEF f
<1>8. /\ SameRest(f, a) /\ f.clients = a.clients /\ f.sel = a.sel
      /\ \A n \in Monitor, t \in Tag : f.focusontag[n][t] \in {a.focusontag[n][t], None}
  BY <1>1, <1>4, <1>6 DEF WmState, SameRest, SameClients
<1>9. f \in WmState /\ f.stack[m] \in Seq(Client)
  BY <1>1, <1>7 DEF Sound, WmState
<1>10. d \in Shown(f, m) \cup {None}
  BY <1>9, WalkType
<1>11. Shown(f, m) = Shown(s, m)
  BY <1>1, <1>3, <1>8, SameShown DEF SameRest, SameClients
<1> HIDE DEF d
<1>12. /\ SameRest(g, f) /\ g.clients = f.clients /\ g.focusontag = f.focusontag
       /\ \A n \in Monitor : g.sel[n] = IF n = m THEN d ELSE f.sel[n]
  BY <1>1, <1>9 DEF WmState, SameRest, SameClients
<1> HIDE DEF g
<1> QED
  BY <1>1, <1>3, <1>5, <1>8, <1>10, <1>11, <1>12 DEF SameRest, SameClients, r

\* attachstack and attachstackBelow may select the client where nobody looks,
\* on a monitor that is not selected, and only if it is on the screen.
LEMMA AttachStackEffect ==
  ASSUME NEW s, s \in WmState, NEW c \in Client, s.mon[c] # None,
         NEW r \in {AttachStack(s, c), AttachStackBelow(s, c)}
  PROVE  /\ SameRest(r, s) /\ r.clients = s.clients /\ r.focusontag = s.focusontag
         /\ \A n \in Monitor :
               \/ r.sel[n] = s.sel[n]
               \/ n = s.mon[c] /\ n # s.selmon /\ r.sel[n] = c /\ c \in Shown(s, n)
<1> DEFINE m == s.mon[c]
           Put(q) == [s EXCEPT !.stack[m] = q]
           Sel(x) == [s EXCEPT !.stack[m] = <<c>> \o @, !.sel[m] = x]
<1>1. \/ \E q : r = Put(q)
      \/ r = Sel(s.sel[m])
      \/ r = Sel(c) /\ m # s.selmon /\ c \in Shown(s, m)
  <2> DEFINE f == IF c \in s.floating THEN None ELSE FirstIn(s.stack[m], Client \ s.floating)
             becomesSel == m # s.selmon /\ c \in s.floating /\ c \in Usable(s, m)
             d == IF becomesSel THEN c ELSE s.sel[m]
             S == TiledOnTagsOf(s, c)
             last == IF NMaster = 0 THEN LastIn(s.stack[m], S) ELSE NthIn(s.stack[m], S, NMaster)
             below == (s.sel[m] # None /\ s.sel[m] \notin s.floating) \/ ~Visible(s, c)
  <2>1. AttachStack(s, c) = IF f = None \/ f = Head(s.stack[m]) THEN Sel(d)
                            ELSE Put(PutBefore(s.stack[m], f, c))
    <3>1. [AttachStackEx(s, c) EXCEPT !.sel[m] = d] = Sel(d)
      BY DEF AttachStackEx
    <3>2. [AttachStackEx(s, c) EXCEPT !.sel[m] = IF becomesSel THEN c ELSE @]
            = [AttachStackEx(s, c) EXCEPT !.sel[m] = d]
      BY DEF AttachStackEx
    <3> HIDE DEF Sel, d
    <3> QED
      BY <3>1, <3>2 DEF AttachStack
  <2>2. AttachStackBelow(s, c) = IF below /\ last # None
                                 THEN Put(PutAfter(s.stack[m], last, c)) ELSE AttachStack(s, c)
    BY DEF AttachStackBelow
  <2> HIDE DEF Put, Sel, f, last, below
  <2>3. Usable(s, m) \subseteq Shown(s, m)
    BY DEF Usable
  <2> QED
    BY <2>1, <2>2, <2>3
<1>2. m \in Monitor
  BY DEF WmState
<1>3. ASSUME NEW q, r = Put(q) PROVE SameRest(r, s) /\ r.clients = s.clients
                                     /\ r.focusontag = s.focusontag /\ r.sel = s.sel
  BY <1>2, <1>3 DEF WmState, SameRest, SameClients
<1>4. ASSUME NEW x, r = Sel(x) PROVE SameRest(r, s) /\ r.clients = s.clients
                                     /\ r.focusontag = s.focusontag
                                     /\ \A n \in Monitor : r.sel[n] = IF n = m THEN x ELSE s.sel[n]
  BY <1>2, <1>4 DEF WmState, SameRest, SameClients
<1> HIDE DEF Put, Sel
<1> QED
  BY <1>1, <1>2, <1>3, <1>4

-----------------------------------------------------------------------------
(* The layout order of the clients that do not move.                       *)

\* The clients other than c follow each other in both orders as they do in
\* the other one.
SameOrder(q, p, c) ==
    \A x, y \in Client \ {c} : Ahead(q, x, y) <=> Ahead(p, x, y)

OrderKept(s, r, c) == \A m \in Monitor : SameOrder(s.clients[m], r.clients[m], c)

\* One client more in the sequence shifts those behind it.
LEMMA ShiftOrder ==
  ASSUME NEW q \in Seq(Client), NEW p \in Seq(Client), NEW c,
         Len(p) = Len(q) + 1, NEW i \in 1..Len(p),
         \A j \in 1..Len(p) : p[j] = IF j < i THEN q[j] ELSE IF j = i THEN c ELSE q[j - 1]
  PROVE  SameOrder(q, p, c) /\ SameOrder(p, q, c)
<1>1. DOMAIN q = 1..Len(q) /\ DOMAIN p = 1..Len(p) /\ Len(q) \in Nat /\ Len(p) \in Nat
  BY LenProperties
<1>2. ASSUME NEW x \in Client \ {c}, NEW y \in Client \ {c}, Ahead(q, x, y) PROVE Ahead(p, x, y)
  <2>1. PICK j, k \in 1..Len(q) : j < k /\ q[j] = x /\ q[k] = y
    BY <1>1, <1>2 DEF Ahead
  <2> DEFINE Up(l) == IF l < i THEN l ELSE l + 1
  <2>2. \A l \in 1..Len(q) : Up(l) \in 1..Len(p) /\ p[Up(l)] = q[l]
    BY <1>1
  <2>3. Up(j) < Up(k)
    BY <1>1, <2>1
  <2> HIDE DEF Up
  <2> QED
    BY <1>1, <2>1, <2>2, <2>3 DEF Ahead
<1>3. ASSUME NEW x \in Client \ {c}, NEW y \in Client \ {c}, Ahead(p, x, y) PROVE Ahead(q, x, y)
  <2>1. PICK j, k \in 1..Len(p) : j < k /\ p[j] = x /\ p[k] = y
    BY <1>1, <1>3 DEF Ahead
  <2> DEFINE Down(l) == IF l < i THEN l ELSE l - 1
  <2>2. \A l \in 1..Len(p) : l # i => Down(l) \in 1..Len(q) /\ q[Down(l)] = p[l]
    BY <1>1
  <2>3. j # i /\ k # i
    BY <2>1
  <2>4. Down(j) < Down(k)
    BY <1>1, <2>1, <2>3
  <2> HIDE DEF Down
  <2> QED
    BY <1>1, <2>1, <2>2, <2>3, <2>4 DEF Ahead
<1> QED
  BY <1>2, <1>3 DEF SameOrder

\* Linked in at the head, or next to another client, or taken off.
LEMMA LinkOrder ==
  ASSUME NEW q \in Seq(Client), NEW S, IsChain(q, S), NEW c \in Client
  PROVE  /\ SameOrder(q, <<c>> \o q, c)
         /\ \A d \in S : SameOrder(q, PutAfter(q, d, c), c)
         /\ c \in S => SameOrder(q, Without(q, c), c)
<1>0. Len(q) \in Nat
  BY LenProperties
<1>1. SameOrder(q, <<c>> \o q, c)
  <2> DEFINE one == <<c>>
             p == one \o q
  <2>1. one \in Seq(Client) /\ Len(one) = 1 /\ one[1] = c
    OBVIOUS
  <2> HIDE DEF one
  <2>2. /\ p \in Seq(Client)
        /\ Len(p) = Len(one) + Len(q)
        /\ \A k \in 1..Len(one) : p[k] = one[k]
        /\ \A k \in Len(one) + 1..Len(one) + Len(q) : p[k] = q[k - Len(one)]
    BY <2>1, JoinOf
  <2> HIDE DEF p
  <2>3. Len(p) = Len(q) + 1 /\ 1 \in 1..Len(p)
    BY <1>0, <2>1, <2>2
  <2>4. \A j \in 1..Len(p) : p[j] = IF j < 1 THEN q[j] ELSE IF j = 1 THEN c ELSE q[j - 1]
    BY <1>0, <2>1, <2>2
  <2>5. SameOrder(q, p, c)
    BY <2>2, <2>3, <2>4, ShiftOrder
  <2> QED
    BY <2>5 DEF p, one
<1>2. ASSUME NEW d \in S PROVE SameOrder(q, PutAfter(q, d, c), c)
  <2> DEFINE i == Position(q, d) + 1
             p == InsertAt(q, i, c)
  <2>1. Position(q, d) \in 1..Len(q)
    BY PositionType
  <2>2. i \in 1..Len(q) + 1
    BY <1>0, <2>1
  <2> HIDE DEF i
  <2>3. /\ p \in Seq(Client) /\ Len(p) = Len(q) + 1
        /\ \A j \in 1..Len(q) + 1 : p[j] = IF j < i THEN q[j] ELSE IF j = i THEN c ELSE q[j - 1]
    BY <2>2, InsertElements
  <2> HIDE DEF p
  <2>4. SameOrder(q, p, c)
    BY <2>2, <2>3, ShiftOrder
  <2> QED
    BY <2>4 DEF p, i, PutAfter
<1>3. ASSUME c \in S PROVE SameOrder(q, Without(q, c), c)
  <2> DEFINE i == Position(q, c)
             p == RemoveAt(q, i)
  <2>1. i \in 1..Len(q) /\ q[i] = c
    BY <1>3, PositionType
  <2> HIDE DEF i
  <2>2. /\ p \in Seq(Client) /\ Len(p) = Len(q) - 1
        /\ \A j \in 1..Len(q) - 1 : p[j] = IF j < i THEN q[j] ELSE q[j + 1]
    BY <2>1, RemoveElements
  <2> HIDE DEF p
  <2>3. Len(p) \in Nat /\ Len(q) = Len(p) + 1
    BY <1>0, <2>2, LenProperties
  <2>4. \A j \in 1..Len(q) : q[j] = IF j < i THEN p[j] ELSE IF j = i THEN c ELSE p[j - 1]
    <3> SUFFICES ASSUME NEW j \in 1..Len(q)
                 PROVE  q[j] = IF j < i THEN p[j] ELSE IF j = i THEN c ELSE p[j - 1]
      OBVIOUS
    <3>1. CASE j < i
      BY <1>0, <2>1, <2>2, <3>1
    <3>2. CASE j = i
      BY <2>1, <3>2
    <3>3. CASE j > i
      <4>1. j - 1 \in 1..Len(q) - 1 /\ ~(j - 1 < i) /\ (j - 1) + 1 = j
        BY <1>0, <2>1, <3>3
      <4> QED
        BY <2>1, <2>2, <3>3, <4>1
    <3> QED
      BY <2>1, <3>1, <3>2, <3>3
  <2>5. SameOrder(q, p, c)
    BY <2>1, <2>2, <2>3, <2>4, ShiftOrder
  <2> QED
    BY <2>5 DEF p, i, Without
<1> QED
  BY <1>1, <1>2, <1>3

\* A record with the order of one monitor's clients replaced.
LEMMA PutOrder ==
  ASSUME NEW s, s \in WmState, NEW m \in Monitor, NEW q, NEW c,
         SameOrder(s.clients[m], q, c)
  PROVE  OrderKept(s, [s EXCEPT !.clients[m] = q], c)
<1>1. \A n \in Monitor : [s EXCEPT !.clients[m] = q].clients[n] = IF n = m THEN q ELSE s.clients[n]
  BY DEF WmState
<1>2. \A n \in Monitor : SameOrder(s.clients[n], s.clients[n], c)
  BY DEF SameOrder
<1> QED
  BY <1>1, <1>2 DEF OrderKept

\* detach, attach and attachBelow move their client only.
LEMMA DetachOrder ==
  ASSUME NEW s, NEW Y, NEW Z, NEW c \in Client, s.mon[c] # None, Sound(s, {}, Y, Z)
  PROVE  OrderKept(s, Detach(s, c), c)
<1> DEFINE m == s.mon[c]
           q == s.clients[m]
<1>1. m \in Monitor /\ s \in WmState /\ c \in On(s, m) \ {}
  BY DEF Sound, WmState, On
<1>2. q \in Seq(Client) /\ IsChain(q, On(s, m) \ {})
  BY <1>1, ChainsOf
<1>3. SameOrder(q, Without(q, c), c)
  BY <1>1, <1>2, LinkOrder
<1>4. Detach(s, c) = [s EXCEPT !.clients[m] = Without(q, c)]
  BY DEF Detach
<1> QED
  BY <1>1, <1>3, <1>4, PutOrder

\* The same for the functions that put it on the list.
LEMMA AttachOrder ==
  ASSUME NEW s, NEW Y, NEW Z, NEW c \in Client, s.mon[c] # None, Sound(s, {c}, Y, Z)
  PROVE  /\ OrderKept(s, Attach(s, c), c)
         /\ Z = {c} => OrderKept(s, AttachBelow(s, c), c)
         /\ \A d \in On(s, s.mon[c]) \ {c} :
               OrderKept(s, [s EXCEPT !.clients[s.mon[c]] = PutAfter(s.clients[s.mon[c]], d, c)], c)
<1> DEFINE m == s.mon[c]
           q == s.clients[m]
<1>1. m \in Monitor /\ s \in WmState
  BY DEF Sound, WmState
<1>2. q \in Seq(Client) /\ IsChain(q, On(s, m) \ {c})
  BY <1>1, ChainsOf
<1>3. SameOrder(q, <<c>> \o q, c) /\ \A d \in On(s, m) \ {c} : SameOrder(q, PutAfter(q, d, c), c)
  BY <1>2, LinkOrder
<1>4. Attach(s, c) = [s EXCEPT !.clients[m] = <<c>> \o q]
  BY DEF Attach
<1> HIDE DEF m, q
<1>5. /\ OrderKept(s, [s EXCEPT !.clients[m] = <<c>> \o q], c)
      /\ \A d \in On(s, m) \ {c} : OrderKept(s, [s EXCEPT !.clients[m] = PutAfter(q, d, c)], c)
  BY <1>1, <1>3, PutOrder DEF q
<1>6. Z = {c} => \/ AttachBelow(s, c) = Attach(s, c)
                 \/ \E d \in On(s, m) \ {c} :
                       AttachBelow(s, c) = [s EXCEPT !.clients[m] = PutAfter(q, d, c)]
  BY AttachBelowPlace DEF m, q
<1> QED
  BY <1>4, <1>5, <1>6 DEF m, q

\* The orders kept by two steps are kept by both of them.
LEMMA OrderTwice ==
  ASSUME NEW s, NEW q, NEW r, NEW c, OrderKept(s, q, c), OrderKept(q, r, c)
  PROVE  OrderKept(s, r, c)
BY DEF OrderKept, SameOrder

\* The same lists have the same order.
LEMMA OrderSame ==
  ASSUME NEW s, NEW r, r.clients = s.clients, NEW c
  PROVE  OrderKept(s, r, c)
BY DEF OrderKept, SameOrder

-----------------------------------------------------------------------------
(* The functions of Focus.                                                 *)

\* A step that leaves the chains and the pointers alone.
LEMMA SameLists ==
  ASSUME NEW s, NEW X, NEW Y, NEW Z, Sound(s, X, Y, Z), NEW r \in WmState,
         r.clients = s.clients, r.stack = s.stack, r.mon = s.mon,
         r.sel = s.sel, r.focusontag = s.focusontag,
         Viewed(r), r.xfocus \in Managed(s) \cup {None}
  PROVE  Sound(r, X, Y, Z)
<1>1. Managed(r) = Managed(s) /\ \A m \in Monitor : On(r, m) = On(s, m)
  BY DEF Managed, On
<1> QED
  BY <1>1 DEF Sound, Listed, Pointed

\* getfocusable returns a client of the monitor, or NULL.
LEMMA GetFocusableType ==
  ASSUME NEW s, Good(s), NEW m \in Monitor, NEW c \in On(s, m) \cup {None}, NEW force
  PROVE  GetFocusable(s, m, c, force) \in On(s, m) \cup {None}
<1>1. Usable(s, m) \subseteq On(s, m)
  BY DEF Usable, Shown
<1>2. s.stack[m] \in Seq(Client)
  BY DEF Good, Sound, WmState
<1> DEFINE x == FirstIn(s.stack[m], Usable(s, m) \ {c})
<1>3. x # None => x \in On(s, m)
  <2>1. x # None => x \in Usable(s, m) \ {c}
    BY <1>2, WalkType
  <2> QED
    BY <1>1, <2>1
<1> HIDE DEF x
<1> QED
  BY <1>1, <1>3 DEF GetFocusable, x

\* focus moves the client it finds to the head of the stack, and points sel,
\* selmon, focusontag and the X focus to it.
LEMMA FocusSound ==
  ASSUME NEW s, Good(s), NEW arg \in Managed(s) \cup {None}, NEW force
  PROVE  /\ Good(Focus(s, arg, force))
         /\ Focus(s, arg, force).mon = s.mon
<1> DEFINE m == IF arg = None THEN s.selmon ELSE s.mon[arg]
           c == GetFocusable(s, m, arg, force)
           lowered == DetachStackEx(s, c)
           raised == AttachStackEx(lowered, c)
           onTag == [t \in Tag |-> IF m \in Monocle /\ t \in s.tags[c] THEN c
                                   ELSE s.focusontag[m][t]]
<1>1. s \in WmState /\ m \in Monitor /\ arg \in On(s, m) \cup {None}
  BY DEF Good, Sound, WmState, Managed, On
<1>2. c \in On(s, m) \cup {None}
  <2> HIDE DEF m
  <2> QED
    BY <1>1, GetFocusableType
<1>3. CASE c = None
  <2> DEFINE u == [s EXCEPT !.sel[s.selmon] = None]
             r == [s EXCEPT !.xfocus = None, !.sel[s.selmon] = None]
  <2>1. Focus(s, arg, force) = r
    <3> HIDE DEF r
    <3>1. Focus(s, arg, force) = IF c = None THEN r ELSE
             SetFocus([raised EXCEPT !.focusontag[m] = onTag, !.selmon = m, !.sel[m] = c], c)
      BY DEF Focus, r
    <3> QED
      BY <1>3, <3>1
  <2>2. s.selmon \in Monitor /\ None \in (On(s, s.selmon) \ {}) \cup {None} /\ {} \in SUBSET {}
    BY <1>1 DEF WmState
  <2>3. Sound(u, {}, {}, {}) /\ u.mon = s.mon
    BY <2>2, SelPut DEF Good
  <2>4. /\ r \in WmState
        /\ r.clients = u.clients /\ r.stack = u.stack /\ r.mon = u.mon
        /\ r.sel = u.sel /\ r.focusontag = u.focusontag /\ r.view = u.view
        /\ r.xfocus = None
    BY <1>1, <2>2 DEF WmState
  <2> HIDE DEF r, u
  <2>5. Viewed(r)
    BY <2>3, <2>4 DEF Sound, Viewed
  <2> QED
    BY <2>1, <2>3, <2>4, <2>5, SameLists DEF Good
<1>4. CASE c # None
  <2>0. c \in Client /\ s.mon[c] = m /\ s.mon[c] # None
    BY <1>1, <1>2, <1>4, NoneAssumption DEF On
  <2>1. Sound(lowered, {}, {c}, {}) /\ lowered.mon = s.mon
    <3> HIDE DEF c
    <3> QED
      BY <2>0, DetachStackExSound DEF Good
  <2>2. Sound(raised, {}, {}, {}) /\ raised.mon = s.mon
    <3> HIDE DEF c, lowered
    <3> QED
      BY <2>0, <2>1, AttachStackExSound
  <2>3. raised.focusontag = s.focusontag
    <3> HIDE DEF c
    <3> QED
      BY <1>1, <2>0 DEF AttachStackEx, DetachStackEx, WmState
  <2> HIDE DEF c, m, raised, lowered
  <2>4. onTag \in [Tag -> Client \cup {None}] /\ \A t \in Tag : onTag[t] \in (On(raised, m) \ {}) \cup {None}
    <3>1. \A t \in Tag : s.focusontag[m][t] \in On(s, m) \cup {None}
      BY <1>1 DEF Good, Sound, Pointed
    <3>2. On(raised, m) = On(s, m) /\ On(s, m) \subseteq Client
      BY <2>2 DEF On
    <3>3. \A t \in Tag : onTag[t] \in On(s, m) \cup {None}
      BY <1>2, <3>1
    <3> QED
      BY <3>2, <3>3
  <2> HIDE DEF onTag
  <2> DEFINE t == [raised EXCEPT !.focusontag[m] = onTag]
             u == [t EXCEPT !.sel[m] = c]
             v == [raised EXCEPT !.focusontag[m] = onTag, !.selmon = m, !.sel[m] = c]
             r == SetFocus(v, c)
  <2>5. Sound(t, {}, {}, {}) /\ t.mon = s.mon
    BY <1>1, <2>2, <2>4, FocusOnTagPut
  <2>6. Sound(u, {}, {}, {}) /\ u.mon = s.mon
    <3>1. c \in (On(t, m) \ {}) \cup {None}
      BY <1>1, <2>0, <2>5 DEF On
    <3> HIDE DEF t
    <3> QED
      BY <1>1, <2>5, <3>1, SelPut
  <2>7. /\ r \in WmState
        /\ r.clients = u.clients /\ r.stack = u.stack /\ r.mon = u.mon
        /\ r.sel = u.sel /\ r.focusontag = u.focusontag /\ r.view = u.view
        /\ r.xfocus \in {u.xfocus, c}
    <3>1. raised \in WmState
      BY <2>2 DEF Sound
    <3>2. v \in WmState
      BY <1>1, <2>0, <2>4, <3>1 DEF WmState
    <3>4. /\ v.clients = u.clients /\ v.stack = u.stack /\ v.mon = u.mon
          /\ v.sel = u.sel /\ v.focusontag = u.focusontag /\ v.view = u.view
          /\ v.xfocus = u.xfocus
      BY <3>1 DEF WmState
    <3> HIDE DEF v
    <3>3. r \in WmState
      BY <2>0, <3>2 DEF WmState, SetFocus
    <3> QED
      BY <3>2, <3>3, <3>4 DEF WmState, SetFocus
  <2>8. Focus(s, arg, force) = r
    BY <1>4 DEF Focus, c, m, raised, lowered, onTag
  <2> HIDE DEF r, u
  <2>9. Viewed(r) /\ r.xfocus \in Managed(u) \cup {None}
    BY <2>0, <2>6, <2>7 DEF Sound, Viewed, Managed
  <2> QED
    BY <2>6, <2>7, <2>8, <2>9, SameLists DEF Good
<1> QED
  BY <1>3, <1>4

\* The selected monitor replaced: focusmonex.
LEMMA SelmonPut ==
  ASSUME NEW s, NEW X, NEW Y, NEW Z, Sound(s, X, Y, Z), NEW m \in Monitor
  PROVE  Sound([s EXCEPT !.selmon = m], X, Y, Z) /\ [s EXCEPT !.selmon = m].mon = s.mon
<1> DEFINE r == [s EXCEPT !.selmon = m]
<1>1. s \in WmState
  BY DEF Sound
<1>2. /\ r \in WmState
      /\ r.clients = s.clients /\ r.stack = s.stack /\ r.mon = s.mon
      /\ r.sel = s.sel /\ r.focusontag = s.focusontag /\ r.view = s.view
      /\ r.xfocus = s.xfocus
  BY <1>1 DEF WmState
<1> HIDE DEF r
<1>3. Viewed(r) /\ r.xfocus \in Managed(s) \cup {None}
  BY <1>2 DEF Sound, Viewed
<1> QED
  BY <1>2, <1>3, SameLists DEF r

\* The view of a monitor replaced by one that is not empty.
LEMMA ViewPut ==
  ASSUME NEW s, Good(s), NEW m \in Monitor, NEW cur \in Mask, NEW alt \in Mask,
         cur # {}, alt # {}
  PROVE  /\ Good([s EXCEPT !.view[m] = [cur |-> cur, alt |-> alt]])
         /\ [s EXCEPT !.view[m] = [cur |-> cur, alt |-> alt]].mon = s.mon
<1> DEFINE r == [s EXCEPT !.view[m] = [cur |-> cur, alt |-> alt]]
<1>1. s \in WmState
  BY DEF Good, Sound
<1>2. /\ r \in WmState
      /\ r.clients = s.clients /\ r.stack = s.stack /\ r.mon = s.mon
      /\ r.sel = s.sel /\ r.focusontag = s.focusontag /\ r.xfocus = s.xfocus
      /\ \A n \in Monitor : r.view[n] = IF n = m THEN [cur |-> cur, alt |-> alt] ELSE s.view[n]
  BY <1>1 DEF WmState
<1> HIDE DEF r
<1>3. Viewed(r) /\ r.xfocus \in Managed(s) \cup {None}
  BY <1>2 DEF Good, Sound, Viewed
<1> QED
  BY <1>2, <1>3, SameLists DEF r, Good

\* A step that changes tags, isfloating, ishidden or drops the X focus.
LEMMA FlagsPut ==
  ASSUME NEW s, NEW X, NEW Y, NEW Z, Sound(s, X, Y, Z), NEW r \in WmState,
         r.clients = s.clients, r.stack = s.stack, r.mon = s.mon,
         r.sel = s.sel, r.focusontag = s.focusontag, r.view = s.view,
         r.xfocus \in {s.xfocus, None}
  PROVE  Sound(r, X, Y, Z)
<1>1. Viewed(r) /\ r.xfocus \in Managed(s) \cup {None}
  BY DEF Sound, Viewed
<1> QED
  BY <1>1, SameLists

\* The tags of a client replaced.
LEMMA TagsPut ==
  ASSUME NEW s, Good(s), NEW c \in Client, NEW mask \in Mask
  PROVE  Good([s EXCEPT !.tags[c] = mask]) /\ [s EXCEPT !.tags[c] = mask].mon = s.mon
<1> DEFINE r == [s EXCEPT !.tags[c] = mask]
<1>1. s \in WmState
  BY DEF Good, Sound
<1>2. /\ r \in WmState
      /\ r.clients = s.clients /\ r.stack = s.stack /\ r.mon = s.mon
      /\ r.sel = s.sel /\ r.focusontag = s.focusontag /\ r.view = s.view
      /\ r.xfocus = s.xfocus
  BY <1>1 DEF WmState
<1> HIDE DEF r
<1>3. Good(r)
  BY <1>2, FlagsPut DEF Good
<1> QED
  BY <1>2, <1>3 DEF r

\* sethidden, in both directions.
LEMMA SetHiddenSound ==
  ASSUME NEW s, Good(s), NEW c \in Managed(s), NEW hidden \in BOOLEAN
  PROVE  Good(SetHidden(s, c, hidden)) /\ SetHidden(s, c, hidden).mon = s.mon
<1>1. c \in Client /\ s.mon[c] # None /\ s \in WmState
  BY DEF Managed, Good, Sound
<1>4. CASE hidden = TRUE /\ c \in s.hidden
  BY <1>4 DEF SetHidden
<1>2. CASE hidden = TRUE /\ c \notin s.hidden
  <2> DEFINE f == ForgetOnTag(s, c)
             x == IF f.xfocus = c THEN None ELSE f.xfocus
             r == [f EXCEPT !.hidden = f.hidden \cup {c}, !.xfocus = x]
  <2>1. Good(f) /\ f.mon = s.mon
    BY <1>1, ForgetOnTagSound DEF Good
  <2>2. SetHidden(s, c, hidden) = r
    BY <1>2 DEF SetHidden
  <2> HIDE DEF f
  <2>3. f \in WmState
    BY <2>1 DEF Good, Sound
  <2>4. /\ r \in WmState
        /\ r.clients = f.clients /\ r.stack = f.stack /\ r.mon = f.mon
        /\ r.sel = f.sel /\ r.focusontag = f.focusontag /\ r.view = f.view
        /\ r.xfocus \in {f.xfocus, None}
    BY <1>1, <2>3 DEF WmState
  <2> HIDE DEF x, r
  <2>5. Good(r)
    BY <2>1, <2>4, FlagsPut DEF Good
  <2> QED
    BY <2>1, <2>2, <2>4, <2>5
<1>3. CASE hidden = FALSE
  <2> DEFINE r == [s EXCEPT !.hidden = s.hidden \ {c}]
  <2>1. SetHidden(s, c, hidden) = r
    BY <1>3 DEF SetHidden
  <2>2. /\ r \in WmState
        /\ r.clients = s.clients /\ r.stack = s.stack /\ r.mon = s.mon
        /\ r.sel = s.sel /\ r.focusontag = s.focusontag /\ r.view = s.view
        /\ r.xfocus = s.xfocus
    BY <1>1 DEF WmState
  <2> HIDE DEF r
  <2>3. Good(r)
    BY <2>2, FlagsPut DEF Good
  <2> QED
    BY <2>1, <2>2, <2>3
<1> QED
  BY <1>2, <1>3, <1>4

\* A client that is on no chain and that nothing points to changes monitor,
\* or leaves for good.
LEMMA MonPut ==
  ASSUME NEW c \in Client, NEW s, Sound(s, {c}, {c}, {c}), NEW r \in WmState,
         r.clients = s.clients, r.stack = s.stack,
         r.sel = s.sel, r.focusontag = s.focusontag, r.view = s.view,
         \A d \in Client : d # c => r.mon[d] = s.mon[d],
         r.xfocus \in Managed(r) \cup {None}
  PROVE  Sound(r, {c}, {c}, {c}) /\ (r.mon[c] = None => Good(r))
<1>1. \A m \in Monitor : On(r, m) \ {c} = On(s, m) \ {c}
  BY DEF On
<1>2. Listed(r, {c}, {c}) /\ Pointed(r, {c}) /\ Viewed(r)
  BY <1>1 DEF Sound, Listed, Pointed, Viewed
<1>3. Sound(r, {c}, {c}, {c})
  BY <1>2 DEF Sound
<1>4. ASSUME r.mon[c] = None PROVE Good(r)
  <2>1. \A m \in Monitor : On(r, m) \ {c} = On(r, m) \ {}
    BY <1>4, NoneAssumption DEF On
  <2>2. Listed(r, {}, {}) /\ Pointed(r, {})
    BY <1>2, <2>1 DEF Listed, Pointed
  <2> QED
    BY <1>3, <2>2 DEF Good, Sound
<1> QED
  BY <1>3, <1>4

\* sendmon takes the client off the chains of one monitor, and off all that
\* points to it there, before it changes its monitor.
LEMMA SendMonSound ==
  ASSUME NEW s, Good(s), NEW c \in Managed(s), NEW m \in Monitor, NEW leader \in {c}
  PROVE  Good(SendMon(s, c, m, leader))
<1> DEFINE off == DetachStack(Detach(s, c), c)
           moved == [off EXCEPT !.mon[c] = m, !.tags[c] = s.view[m].cur]
           ahead == [AttachStackEx(Attach(moved, c), c) EXCEPT !.sel[m] = c]
           behind == AttachStackBelow(AttachBelow(moved, c), c)
           put == IF m \in Monocle THEN ahead ELSE behind
           with == [put EXCEPT !.sel[m] = leader, !.selmon = m]
           followed == Focus(with, leader, TRUE)
           left == Focus(put, None, FALSE)
           onTag == [t \in Tag |-> IF t \in put.tags[c] THEN c ELSE left.focusontag[m][t]]
           stayed == [left EXCEPT !.focusontag[m] = onTag]
<1>1. c \in Client /\ s.mon[c] # None /\ s \in WmState /\ leader = c /\ m # None
  BY NoneAssumption DEF Managed, Good, Sound
<1>2. Sound(off, {c}, {c}, {c}) /\ off.mon = s.mon
  <2>1. Sound(Detach(s, c), {c}, {}, {}) /\ Detach(s, c).mon = s.mon
    BY <1>1, DetachSound DEF Good
  <2> QED
    BY <1>1, <2>1, DetachStackSound
<1> HIDE DEF off
<1>3. Sound(moved, {c}, {c}, {c}) /\ moved.mon[c] = m
  <2>1. off \in WmState /\ off.xfocus \in Managed(off) \cup {None}
    BY <1>2 DEF Sound
  <2>2. /\ moved \in WmState
        /\ moved.clients = off.clients /\ moved.stack = off.stack
        /\ moved.sel = off.sel /\ moved.focusontag = off.focusontag /\ moved.view = off.view
        /\ \A d \in Client : moved.mon[d] = IF d = c THEN m ELSE off.mon[d]
        /\ moved.xfocus = off.xfocus
    BY <1>1, <2>1 DEF WmState
  <2> HIDE DEF moved
  <2>3. moved.xfocus \in Managed(moved) \cup {None}
    BY <1>1, <2>1, <2>2 DEF Managed
  <2> QED
    BY <1>1, <1>2, <2>2, <2>3, MonPut
<1> HIDE DEF moved
<1>4. Good(ahead) /\ ahead.mon[c] = m
  <2>1. Sound(Attach(moved, c), {}, {c}, {c}) /\ Attach(moved, c).mon = moved.mon
    BY <1>1, <1>3, AttachSound
  <2> DEFINE a == AttachStackEx(Attach(moved, c), c)
  <2>2. Sound(a, {}, {}, {c}) /\ a.mon = moved.mon
    BY <1>1, <1>3, <2>1, AttachStackExSound
  <2> HIDE DEF a
  <2>3. c \in (On(a, m) \ {}) \cup {None} /\ {} \in SUBSET {c}
    BY <1>1, <1>3, <2>2 DEF On
  <2>4. Sound([a EXCEPT !.sel[m] = c], {}, {}, {}) /\ [a EXCEPT !.sel[m] = c].mon = a.mon
    BY <2>2, <2>3, SelPut
  <2> QED
    BY <1>3, <2>2, <2>4 DEF a, Good
<1>5. Good(behind) /\ behind.mon[c] = m
  <2> DEFINE a == AttachBelow(moved, c)
  <2>1. Sound(a, {}, {c}, {c}) /\ a.mon = moved.mon
    BY <1>1, <1>3, AttachBelowSound
  <2> HIDE DEF a
  <2>2. Sound(AttachStackBelow(a, c), {}, {}, {}) /\ AttachStackBelow(a, c).mon = a.mon
    BY <1>1, <1>3, <2>1, AttachStackBelowSound
  <2> QED
    BY <1>3, <2>1, <2>2 DEF a, Good
<1>6. Good(put) /\ put.mon[c] = m
  <2> HIDE DEF ahead, behind
  <2> QED
    BY <1>4, <1>5
<1> HIDE DEF put
<1>7. Good(followed)
  <2> DEFINE a == [put EXCEPT !.sel[m] = leader]
  <2>1. leader \in (On(put, m) \ {}) \cup {None} /\ {} \in SUBSET {}
    BY <1>1, <1>6 DEF On
  <2>2. Good(a) /\ a.mon = put.mon
    BY <1>6, <2>1, SelPut DEF Good
  <2>3. with = [a EXCEPT !.selmon = m]
    BY <1>6 DEF Good, Sound, WmState
  <2> HIDE DEF a
  <2>4. Good(with) /\ with.mon = put.mon
    <3>1. Good([a EXCEPT !.selmon = m]) /\ [a EXCEPT !.selmon = m].mon = a.mon
      BY <2>2, SelmonPut DEF Good
    <3> HIDE DEF with
    <3> QED
      BY <2>2, <2>3, <3>1
  <2> HIDE DEF with
  <2>5. leader \in Managed(with) \cup {None}
    BY <1>1, <1>6, <2>4 DEF Managed
  <2> QED
    BY <2>4, <2>5, FocusSound
<1>8. Good(stayed)
  <2>1. None \in Managed(put) \cup {None}
    OBVIOUS
  <2>2. Good(left) /\ left.mon = put.mon
    BY <1>6, <2>1, FocusSound
  <2> HIDE DEF left
  <2>3. \A t \in Tag : /\ left.focusontag[m][t] \in Client \cup {None}
                       /\ left.focusontag[m][t] \in (On(left, m) \ {}) \cup {None}
    BY <2>2 DEF Good, Sound, WmState, Pointed
  <2>4. c \in (On(left, m) \ {}) \cup {None}
    BY <1>1, <1>6, <2>2 DEF On
  <2>5. onTag \in [Tag -> Client \cup {None}] /\ \A t \in Tag : onTag[t] \in (On(left, m) \ {}) \cup {None}
    BY <1>1, <2>3, <2>4
  <2> HIDE DEF onTag
  <2> QED
    BY <2>2, <2>5, FocusOnTagPut DEF Good
<1>9. SendMon(s, c, m, leader) \in {s, put, followed, stayed}
  BY DEF SendMon, put, moved, off
<1> HIDE DEF followed, stayed
<1> QED
  BY <1>6, <1>7, <1>8, <1>9

-----------------------------------------------------------------------------
(* What focus selects.                                                     *)

\* The monitor a focus is about.
Aim(s, arg) == IF arg = None THEN s.selmon ELSE s.mon[arg]

\* getfocusable returns a client on the screen, or NULL: NULL only when there
\* is none it may return, and a neverfocus client only when it is forced to.
LEMMA GetFocusableShown ==
  ASSUME NEW s, Good(s), NEW m \in Monitor, NEW c \in On(s, m) \cup {None}, NEW force
  PROVE  /\ GetFocusable(s, m, c, force) \in Shown(s, m) \cup {None}
         /\ GetFocusable(s, m, c, force) = None => Usable(s, m) = {}
         /\ c \in Shown(s, m) /\ (c \in NeverFocus => force) => GetFocusable(s, m, c, force) = c
<1> DEFINE q == s.stack[m]
           x == FirstIn(q, Usable(s, m) \ {c})
           ok == c # None /\ Visible(s, c) /\ c \notin s.hidden /\ (c \in NeverFocus => force)
<1>1. GetFocusable(s, m, c, force) = IF ok THEN c ELSE IF s.sel[m] \in Usable(s, m) THEN s.sel[m] ELSE x
  BY DEF GetFocusable
<1>2. q \in Seq(Client) /\ IsChain(q, On(s, m) \ {})
  BY ChainsOf DEF Good
<1>3. ok <=> c \in Shown(s, m) /\ (c \in NeverFocus => force)
  BY NoneAssumption DEF Shown, On
<1>4. Usable(s, m) \subseteq Shown(s, m) /\ Shown(s, m) \subseteq On(s, m) /\ None \notin On(s, m)
  BY NoneAssumption DEF Usable, Shown, On
<1>5. x # None => x \in Usable(s, m)
  BY <1>2, WalkType
<1>6. ~ok => c \notin Usable(s, m)
  BY <1>3 DEF Usable
<1>7. ASSUME ~ok, NEW d \in Usable(s, m) PROVE x # None
  <2>1. PICK i \in 1..Len(q) : q[i] = d
    BY <1>2, <1>4, ChainElements
  <2> DEFINE S == Usable(s, m) \ {c}
             at == {j \in DOMAIN q : q[j] \in S}
  <2>2. DOMAIN q = 1..Len(q) /\ d \in S
    BY <1>2, <1>6, <1>7
  <2> HIDE DEF S, q
  <2>3. i \in at
    BY <2>1, <2>2
  <2>4. at \subseteq Nat /\ at # {}
    BY <2>2, <2>3
  <2>5. PICK k \in at : \A j \in at : k <= j
    BY <2>4, LeastNat
  <2>6. \E l \in at : \A j \in at : l <= j
    BY <2>5
  <2>7. (CHOOSE l \in at : \A j \in at : l <= j) \in at
    BY <2>6
  <2>8. FirstIn(q, S) = q[CHOOSE l \in at : \A j \in at : l <= j]
    BY <2>3 DEF FirstIn
  <2>9. FirstIn(q, S) \in S
    BY <2>7, <2>8
  <2> QED
    BY <2>9, <1>4 DEF S, q
<1> HIDE DEF x, ok
<1> QED
  BY <1>1, <1>3, <1>4, <1>5, <1>6, <1>7

\* The stack of the client's monitor is all that changes.
LEMMA RaiseEffect ==
  ASSUME NEW s, s \in WmState, NEW c \in Client, s.mon[c] # None
  PROVE  LET r == AttachStackEx(DetachStackEx(s, c), c)
         IN  /\ SameClients(r, s) /\ r.clients = s.clients /\ r.view = s.view
             /\ r.sel = s.sel /\ r.selmon = s.selmon
             /\ r.focusontag = s.focusontag /\ r.xfocus = s.xfocus
BY DEF AttachStackEx, DetachStackEx, SameClients, WmState

\* What focus changes besides the stack, and what it selects: c is None or a
\* client that is on the screen of the monitor it is about.
LEMMA FocusEffect ==
  ASSUME NEW s, Good(s), NEW arg \in Managed(s) \cup {None}, NEW force
  PROVE  LET m == Aim(s, arg)
             c == GetFocusable(s, m, arg, force)
             r == Focus(s, arg, force)
         IN  /\ m \in Monitor /\ arg \in On(s, m) \cup {None}
             /\ SameClients(r, s) /\ r.clients = s.clients /\ r.view = s.view
             /\ r.selmon = IF c = None THEN s.selmon ELSE m
             /\ \A n \in Monitor : r.sel[n] = IF n = r.selmon THEN c ELSE s.sel[n]
             /\ \A n \in Monitor, t \in Tag : r.focusontag[n][t] \in {s.focusontag[n][t], c}
             /\ c = None => r.focusontag = s.focusontag
             /\ r.xfocus = IF c \in NeverFocus THEN s.xfocus ELSE c
<1> DEFINE m == Aim(s, arg)
           c == GetFocusable(s, m, arg, force)
           raised == AttachStackEx(DetachStackEx(s, c), c)
           onTag == [t \in Tag |-> IF m \in Monocle /\ t \in s.tags[c] THEN c
                                   ELSE s.focusontag[m][t]]
           r == Focus(s, arg, force)
           u == [s EXCEPT !.xfocus = None, !.sel[s.selmon] = None]
           v == [raised EXCEPT !.focusontag[m] = onTag, !.selmon = m, !.sel[m] = c]
<1>1. s \in WmState /\ m \in Monitor /\ arg \in On(s, m) \cup {None}
  BY DEF Good, Sound, WmState, Managed, On, Aim
<1>2. c \in On(s, m) \cup {None}
  <2> HIDE DEF m
  <2> QED
    BY <1>1, GetFocusableType
<1>3. r = IF c = None THEN u ELSE SetFocus(v, c)
  BY DEF Focus, Aim
<1> HIDE DEF c, m, onTag, r
<1>4. CASE c = None
  <2>0. None \notin NeverFocus
    BY NoneAssumption, FlagAssumption
  <2>1. r = u
    BY <1>3, <1>4
  <2>2. /\ SameClients(u, s) /\ u.clients = s.clients /\ u.view = s.view /\ u.selmon = s.selmon
        /\ u.focusontag = s.focusontag /\ u.xfocus = None
        /\ \A n \in Monitor : u.sel[n] = IF n = u.selmon THEN None ELSE s.sel[n]
    BY <1>1 DEF WmState, SameClients
  <2> QED
    BY <1>1, <1>4, <2>0, <2>1, <2>2 DEF m, c, r
<1>5. CASE c # None
  <2>0. c \in Client /\ s.mon[c] = m /\ s.mon[c] # None
    BY <1>1, <1>2, <1>5, NoneAssumption DEF On
  <2>1. /\ SameClients(raised, s) /\ raised.clients = s.clients /\ raised.view = s.view
        /\ raised.sel = s.sel /\ raised.selmon = s.selmon
        /\ raised.focusontag = s.focusontag /\ raised.xfocus = s.xfocus
    BY <1>1, <2>0, RaiseEffect
  <2>2. /\ raised = [raised EXCEPT !.view = raised.view]
        /\ DOMAIN raised = DOMAIN s
    BY <1>1, <2>0 DEF AttachStackEx, DetachStackEx, WmState
  <2>3. raised.sel \in [Monitor -> Client \cup {None}]
        /\ raised.focusontag \in [Monitor -> [Tag -> Client \cup {None}]]
    BY <1>1, <2>1 DEF WmState
  <2>4. DOMAIN raised = {"clients", "stack", "mon", "tags", "floating", "hidden", "sel",
                         "selmon", "view", "focusontag", "xfocus"}
    BY <1>1, <2>2 DEF WmState
  <2>5. r = SetFocus(v, c)
    BY <1>3, <1>5
  <2> HIDE DEF raised
  <2>6. /\ SameClients(v, raised) /\ v.clients = raised.clients /\ v.view = raised.view
        /\ v.selmon = m /\ v.sel = [raised.sel EXCEPT ![m] = c]
        /\ v.focusontag = [raised.focusontag EXCEPT ![m] = onTag]
        /\ v.xfocus = raised.xfocus /\ DOMAIN v = DOMAIN raised
    BY <2>4 DEF SameClients
  <2> HIDE DEF v
  <2>7. /\ SameClients(r, v) /\ r.clients = v.clients /\ r.view = v.view
        /\ r.selmon = v.selmon /\ r.sel = v.sel /\ r.focusontag = v.focusontag
        /\ r.xfocus = IF c \in NeverFocus THEN v.xfocus ELSE c
    BY <2>4, <2>5, <2>6 DEF SetFocus, SameClients
  <2>8. \A n \in Monitor : r.sel[n] = IF n = m THEN c ELSE s.sel[n]
    BY <1>1, <2>1, <2>3, <2>6, <2>7
  <2>9. \A n \in Monitor, t \in Tag : r.focusontag[n][t] \in {s.focusontag[n][t], c}
    BY <1>1, <2>1, <2>3, <2>6, <2>7 DEF onTag
  <2>10. SameClients(r, s) /\ r.clients = s.clients /\ r.view = s.view
         /\ r.selmon = m /\ r.xfocus = IF c \in NeverFocus THEN s.xfocus ELSE c
    BY <2>1, <2>6, <2>7 DEF SameClients
  <2> QED
    BY <1>1, <1>5, <2>8, <2>9, <2>10 DEF m, c, r
<1> QED
  BY <1>4, <1>5

-----------------------------------------------------------------------------
(* Selections on the screen, where full says that no client is ever        *)
(* hidden; one that hides itself may stay selected.                        *)

Fit(s, m, full) == IF full THEN Shown(s, m) ELSE On(s, m)

SelFits(s, m, full) == s.sel[m] \in Fit(s, m, full) \cup {None}

\* No client is hidden, and each has a tag.
Rest(s, full) ==
    full => s.hidden = {} /\ \A c \in Managed(s) : s.tags[c] # {}

\* The X focus, on a window that is on the screen.
XShown(s) == s.xfocus \in Shown(s, s.mon[s.xfocus]) \cup {None}

Fits(s, full) ==
    /\ Rest(s, full)
    /\ \A m \in Monitor : SelFits(s, m, full)
    /\ NeverFocus = {} => XShown(s)

\* The selected monitor has a selected client if it has one to select.
Kept(s) == s.sel[s.selmon] = None => Usable(s, s.selmon) = {}

\* A step to a record with the same clients on the same screen.
LEMMA SameFit ==
  ASSUME NEW s, NEW r, SameClients(r, s), NEW m \in Monitor, r.view[m].cur = s.view[m].cur,
         NEW full
  PROVE  Fit(r, m, full) = Fit(s, m, full)
BY SameShown DEF Fit, SameClients

\* What is on the screen fits.
LEMMA ShownFits ==
  ASSUME NEW s, NEW m, NEW full
  PROVE  Shown(s, m) \subseteq Fit(s, m, full)
BY DEF Fit, Shown

\* Where clients may be hidden, what is selected only has to be on the monitor.
LEMMA AnyFits ==
  ASSUME NEW s, Good(s), NEW full, ~full
  PROVE  Rest(s, full) /\ \A n \in Monitor : SelFits(s, n, full)
BY DEF Good, Sound, Pointed, Rest, SelFits, Fit

\* focus leaves what fits fit, and fits the selection of the monitor that is
\* selected after it.
LEMMA FocusFits ==
  ASSUME NEW s, Good(s), NEW arg \in Managed(s) \cup {None}, NEW force,
         NEW full, Rest(s, full)
  PROVE  LET m == Aim(s, arg)
             r == Focus(s, arg, force)
         IN  /\ Good(r) /\ Rest(r, full)
             /\ m \in Monitor
             /\ SameClients(r, s) /\ r.clients = s.clients /\ r.view = s.view
             /\ \A n \in Monitor : SelFits(s, n, full) => SelFits(r, n, full)
             /\ SelFits(r, r.selmon, full)
             /\ NeverFocus = {} => XShown(r)
             /\ m = s.selmon => r.selmon = m /\ Kept(r)
             /\ arg \in Shown(s, m) /\ (arg \in NeverFocus => force) =>
                   r.selmon = m /\ r.sel[m] = arg /\ Kept(r)
<1> DEFINE m == Aim(s, arg)
           c == GetFocusable(s, m, arg, force)
           r == Focus(s, arg, force)
<1>1. /\ m \in Monitor /\ arg \in On(s, m) \cup {None}
      /\ SameClients(r, s) /\ r.clients = s.clients /\ r.view = s.view
      /\ r.selmon = IF c = None THEN s.selmon ELSE m
      /\ \A n \in Monitor : r.sel[n] = IF n = r.selmon THEN c ELSE s.sel[n]
      /\ \A n \in Monitor, t \in Tag : r.focusontag[n][t] \in {s.focusontag[n][t], c}
      /\ r.xfocus = IF c \in NeverFocus THEN s.xfocus ELSE c
  BY FocusEffect
<1>2. Good(r)
  BY FocusSound
<1> HIDE DEF m
<1>3. /\ c \in Shown(s, m) \cup {None}
      /\ c = None => Usable(s, m) = {}
      /\ arg \in Shown(s, m) /\ (arg \in NeverFocus => force) => c = arg
  BY <1>1, GetFocusableShown
<1>4. None \notin Client /\ Shown(s, m) \subseteq Client /\ \A d \in Shown(s, m) : s.mon[d] = m /\ d \notin s.hidden
  BY NoneAssumption DEF Shown, On
<1>5. s \in WmState /\ s.selmon \in Monitor /\ None \notin s.hidden
  BY NoneAssumption DEF Good, Sound, WmState
<1> HIDE DEF c, r
<1>6. Rest(r, full)
  <2>1. r.mon = s.mon /\ r.tags = s.tags /\ r.hidden = s.hidden
    BY <1>1 DEF SameClients
  <2> QED
    BY <2>1 DEF Rest, Managed
<1>7. r.selmon \in Monitor
  BY <1>1, <1>5
<1>8. \A n \in Monitor : Fit(r, n, full) = Fit(s, n, full)
  BY <1>1, SameFit
<1>9. SelFits(r, r.selmon, full)
  BY <1>1, <1>3, <1>7, <1>8, ShownFits DEF SelFits
<1>10. \A n \in Monitor : SelFits(s, n, full) => SelFits(r, n, full)
  BY <1>1, <1>8, <1>9 DEF SelFits
<1>11. NeverFocus = {} => XShown(r)
  <2>1. Shown(r, m) = Shown(s, m)
    BY <1>1, SameShown DEF SameClients
  <2>2. r.mon = s.mon
    BY <1>1 DEF SameClients
  <2> QED
    BY <1>1, <1>3, <1>4, <2>1, <2>2 DEF XShown
<1>12. Usable(r, m) = Usable(s, m)
  BY <1>1, SameShown DEF SameClients
<1>13. m = s.selmon => r.selmon = m /\ Kept(r)
  BY <1>1, <1>3, <1>12 DEF Kept
<1>14. arg \in Shown(s, m) /\ (arg \in NeverFocus => force) =>
          r.selmon = m /\ r.sel[m] = arg /\ Kept(r)
  BY <1>1, <1>3, <1>4 DEF Kept
<1> QED
  BY <1>1, <1>2, <1>6, <1>9, <1>10, <1>11, <1>13, <1>14 DEF m, r

\* A focus on a record that fits, on the selected monitor for NULL.
LEMMA FocusStays ==
  ASSUME NEW s, Good(s), NEW arg \in Managed(s) \cup {None}, NEW force,
         NEW full, Fits(s, full)
  PROVE  LET r == Focus(s, arg, force)
         IN  /\ Good(r) /\ Fits(r, full)
             /\ SameClients(r, s) /\ r.clients = s.clients /\ r.view = s.view
             /\ arg = None \/ s.mon[arg] = s.selmon => r.selmon = s.selmon /\ Kept(r)
<1> DEFINE r == Focus(s, arg, force)
<1>1. Rest(s, full) /\ \A n \in Monitor : SelFits(s, n, full)
  BY DEF Fits
<1>2. /\ Good(r) /\ Rest(r, full)
      /\ SameClients(r, s) /\ r.clients = s.clients /\ r.view = s.view
      /\ \A n \in Monitor : SelFits(s, n, full) => SelFits(r, n, full)
      /\ NeverFocus = {} => XShown(r)
      /\ Aim(s, arg) = s.selmon => r.selmon = Aim(s, arg) /\ Kept(r)
  BY <1>1, FocusFits
<1>3. arg = None \/ s.mon[arg] = s.selmon => Aim(s, arg) = s.selmon
  BY DEF Aim
<1> QED
  BY <1>1, <1>2, <1>3 DEF Fits

\* focus(NULL, 0) makes the selected monitor's selection fit.
LEMMA FocusNullFits ==
  ASSUME NEW s, Good(s), NEW full, Rest(s, full),
         \A n \in Monitor : n # s.selmon => SelFits(s, n, full)
  PROVE  LET r == Focus(s, None, FALSE)
         IN  /\ Good(r) /\ Fits(r, full)
             /\ SameClients(r, s) /\ r.clients = s.clients /\ r.view = s.view
             /\ r.selmon = s.selmon /\ Kept(r)
<1> DEFINE r == Focus(s, None, FALSE)
           m == Aim(s, None)
<1>1. None \in Managed(s) \cup {None}
  OBVIOUS
<1>2. /\ Good(r) /\ Rest(r, full)
      /\ SameClients(r, s) /\ r.clients = s.clients /\ r.view = s.view
      /\ \A n \in Monitor : SelFits(s, n, full) => SelFits(r, n, full)
      /\ SelFits(r, r.selmon, full)
      /\ NeverFocus = {} => XShown(r)
      /\ m = s.selmon => r.selmon = m /\ Kept(r)
  BY <1>1, FocusFits
<1>3. m = s.selmon
  BY DEF Aim
<1> HIDE DEF r, m
<1>4. \A n \in Monitor : SelFits(r, n, full)
  BY <1>2, <1>3
<1> QED
  BY <1>2, <1>3, <1>4 DEF Fits, r

\* A selected monitor that stays selected keeps a selected client.
Keep(s, r) ==
    r.selmon = s.selmon /\ s.sel[s.selmon] # None /\ Usable(r, r.selmon) # {}
        => r.sel[r.selmon] # None

\* Another selected monitor, and nothing else.
LEMMA SelmonFits ==
  ASSUME NEW s, Good(s), NEW m \in Monitor, NEW full, Rest(s, full)
  PROVE  LET r == [s EXCEPT !.selmon = m]
         IN  /\ Good(r) /\ Rest(r, full) /\ SameClients(r, s)
             /\ r.clients = s.clients /\ r.view = s.view
             /\ r.sel = s.sel /\ r.xfocus = s.xfocus /\ r.selmon = m
             /\ \A n \in Monitor : SelFits(s, n, full) => SelFits(r, n, full)
             /\ Fits(s, full) => Fits(r, full)
<1> DEFINE r == [s EXCEPT !.selmon = m]
<1>1. Good(r)
  BY SelmonPut DEF Good
<1>2. /\ SameClients(r, s)
      /\ r.clients = s.clients /\ r.view = s.view /\ r.selmon = m
      /\ r.sel = s.sel /\ r.focusontag = s.focusontag /\ r.xfocus = s.xfocus
  BY DEF Good, Sound, WmState, SameClients
<1> HIDE DEF r
<1>3. Rest(r, full) /\ \A n \in Monitor : SelFits(s, n, full) => SelFits(r, n, full)
  BY <1>2, SameFit DEF Rest, SelFits, SameClients, Managed
<1>4. s.mon[s.xfocus] \in Monitor => Shown(r, s.mon[s.xfocus]) = Shown(s, s.mon[s.xfocus])
  BY <1>2, SameShown DEF SameClients
<1>5. s.xfocus # None => s.mon[s.xfocus] \in Monitor
  BY DEF Good, Sound, WmState, Managed
<1>6. XShown(s) => XShown(r)
  BY <1>2, <1>4, <1>5 DEF XShown, SameClients
<1> QED
  BY <1>1, <1>2, <1>3, <1>6 DEF Fits, r

\* checkmouseoverclient and checkmouseovermonitor.
LEMMA CheckMouseOverFits ==
  ASSUME NEW s, Good(s), NEW m \in Monitor, NEW at \in AtCoords(s, m, FALSE),
         NEW full, Fits(s, full),
         NEW r \in {CheckMouseOverClient(s, m, at), CheckMouseOverMonitor(s, m)}
  PROVE  /\ Good(r) /\ Fits(r, full) /\ SameClients(r, s)
         /\ r.clients = s.clients /\ r.view = s.view
         /\ r.selmon = m
         /\ Keep(s, r)
<1> DEFINE f == FocusMonEx(s, m)
           q == IF m = s.selmon THEN s ELSE f
<1>1. /\ Good(f) /\ Fits(f, full) /\ SameClients(f, s) /\ f.clients = s.clients
      /\ f.view = s.view /\ f.sel = s.sel /\ f.selmon = m
  BY SelmonFits DEF FocusMonEx, Fits
<1>2. r \in {q, IF at = None THEN q ELSE Focus(q, at, TRUE), Focus(f, None, FALSE)}
  BY DEF CheckMouseOverClient, CheckMouseOverMonitor
<1>3. at = None \/ at \in Shown(s, m)
  BY DEF AtCoords
<1> HIDE DEF f
<1>4. /\ Good(q) /\ Fits(q, full) /\ SameClients(q, s) /\ q.clients = s.clients
      /\ q.view = s.view /\ q.sel = s.sel /\ q.selmon = m
  <2>1. SameClients(s, s)
    BY DEF SameClients
  <2> QED
    BY <1>1, <2>1
<1> HIDE DEF q
<1>5. \A n \in Monitor : Shown(q, n) = Shown(s, n) /\ Usable(q, n) = Usable(s, n)
  BY <1>4, SameShown DEF SameClients
<1>6. CASE r = q
  BY <1>4, <1>6 DEF Keep
<1>7. CASE at # None /\ r = Focus(q, at, TRUE)
  <2>1. at \in Shown(q, m) /\ at \in Managed(q) \cup {None} /\ Aim(q, at) = m
    BY <1>3, <1>5, <1>7, NoneAssumption DEF Shown, On, Managed, Aim
  <2>2. q.mon[at] = q.selmon
    BY <1>4, <2>1 DEF Shown, On
  <2>3. /\ Good(r) /\ Fits(r, full) /\ SameClients(r, q) /\ r.clients = q.clients /\ r.view = q.view
        /\ r.selmon = m /\ Kept(r)
    BY <1>4, <1>7, <2>1, <2>2, FocusStays
  <2> QED
    BY <1>4, <2>3 DEF SameClients, Kept, Keep
<1>8. CASE r = Focus(f, None, FALSE)
  <2>1. None \in Managed(f) \cup {None}
    OBVIOUS
  <2>3. /\ Good(r) /\ Fits(r, full) /\ SameClients(r, f) /\ r.clients = f.clients /\ r.view = f.view
        /\ r.selmon = m /\ Kept(r)
    BY <1>1, <1>8, <2>1, FocusStays
  <2> QED
    BY <1>1, <2>3 DEF SameClients, Kept, Keep
<1> QED
  BY <1>2, <1>6, <1>7, <1>8

\* A selection replaced by a client on the screen.
LEMMA SelFit ==
  ASSUME NEW s, Good(s), NEW m \in Monitor, NEW full, Rest(s, full),
         NEW c \in Fit(s, m, full) \cup {None}
  PROVE  LET r == [s EXCEPT !.sel[m] = c]
         IN  /\ Good(r) /\ Rest(r, full) /\ SameClients(r, s)
             /\ r.clients = s.clients /\ r.view = s.view
             /\ r.selmon = s.selmon /\ r.xfocus = s.xfocus
             /\ \A n \in Monitor : r.sel[n] = IF n = m THEN c ELSE s.sel[n]
             /\ \A n \in Monitor : SelFits(s, n, full) => SelFits(r, n, full)
             /\ SelFits(r, m, full)
<1> DEFINE r == [s EXCEPT !.sel[m] = c]
<1>1. s \in WmState /\ {} \in SUBSET {} /\ c \in (On(s, m) \ {}) \cup {None}
  BY DEF Fit, Shown, Good, Sound
<1>2. Good(r)
  BY <1>1, SelPut DEF Good
<1>3. /\ SameClients(r, s) /\ r.clients = s.clients /\ r.view = s.view
      /\ r.selmon = s.selmon /\ r.focusontag = s.focusontag /\ r.xfocus = s.xfocus
      /\ \A n \in Monitor : r.sel[n] = IF n = m THEN c ELSE s.sel[n]
  BY <1>1 DEF WmState, SameClients
<1> HIDE DEF r
<1>4. Rest(r, full)
  BY <1>3 DEF Rest, SameClients, Managed
<1>5. \A n \in Monitor : Fit(r, n, full) = Fit(s, n, full)
  BY <1>3, SameFit
<1>6. SelFits(r, m, full) /\ \A n \in Monitor : SelFits(s, n, full) => SelFits(r, n, full)
  BY <1>3, <1>5 DEF SelFits
<1> QED
  BY <1>2, <1>3, <1>4, <1>6 DEF r

\* The record with the new view, before viewmontag selects: the selection of
\* the monitor may be out of sight, those of the others are as they were.
LEMMA NewView ==
  ASSUME NEW s, Good(s), NEW m \in Monitor, NEW cur \in Mask, NEW alt \in Mask, NEW t \in Tag,
         cur # {}, alt # {}, NEW full, Fits(s, full)
  PROVE  LET leaving == [s EXCEPT !.focusontag[m][t] = s.sel[m]]
             q == [leaving EXCEPT !.view[m] = [cur |-> cur, alt |-> alt]]
         IN  /\ Good(q) /\ Rest(q, full)
             /\ SameClients(q, s) /\ q.clients = s.clients
             /\ \A n \in Monitor : q.view[n] = IF n = m THEN [cur |-> cur, alt |-> alt] ELSE s.view[n]
             /\ q.sel = s.sel /\ q.selmon = s.selmon /\ q.xfocus = s.xfocus
             /\ \A n \in Monitor : n # m \/ ~full => SelFits(q, n, full)
<1> DEFINE row == [s.focusontag[m] EXCEPT ![t] = s.sel[m]]
           leaving == [s EXCEPT !.focusontag[m][t] = s.sel[m]]
           q == [leaving EXCEPT !.view[m] = [cur |-> cur, alt |-> alt]]
<1>1. s \in WmState
  BY DEF Good, Sound
<1>2. row \in [Tag -> Client \cup {None}] /\ \A u \in Tag : row[u] \in (On(s, m) \ {}) \cup {None}
  <2>1. s.focusontag[m] \in [Tag -> Client \cup {None}] /\ s.sel[m] \in Client \cup {None}
    BY <1>1 DEF WmState
  <2>2. /\ \A u \in Tag : s.focusontag[m][u] \in On(s, m) \cup {None}
        /\ s.sel[m] \in On(s, m) \cup {None}
    BY DEF Good, Sound, Pointed
  <2> QED
    BY <2>1, <2>2
<1>3. Good(leaving)
  <2>1. leaving = [s EXCEPT !.focusontag[m] = row]
    OBVIOUS
  <2> HIDE DEF row, leaving
  <2> QED
    BY <1>2, <2>1, FocusOnTagPut DEF Good
<1>4. /\ SameClients(leaving, s) /\ leaving.clients = s.clients /\ leaving.view = s.view
      /\ leaving.sel = s.sel /\ leaving.selmon = s.selmon /\ leaving.xfocus = s.xfocus
      /\ \A n \in Monitor, u \in Tag : leaving.focusontag[n][u] \in {s.focusontag[n][u], s.sel[m]}
  BY <1>1 DEF WmState, SameClients
<1> HIDE DEF leaving
<1>5. Good(q)
  BY <1>3, ViewPut
<1>6. /\ SameClients(q, s) /\ q.clients = s.clients
      /\ \A n \in Monitor : q.view[n] = IF n = m THEN [cur |-> cur, alt |-> alt] ELSE s.view[n]
      /\ q.sel = s.sel /\ q.selmon = s.selmon /\ q.xfocus = s.xfocus
      /\ q.focusontag = leaving.focusontag
  <2>1. leaving \in WmState
    BY <1>3 DEF Good, Sound
  <2> QED
    BY <1>4, <2>1 DEF WmState, SameClients
<1> HIDE DEF q
<1>8. Rest(q, full)
  BY <1>4, <1>6 DEF Fits, Rest, SameClients, Managed
<1>9. \A n \in Monitor : n # m \/ ~full => SelFits(q, n, full)
  <2> SUFFICES ASSUME NEW n \in Monitor, n # m \/ ~full PROVE Fit(q, n, full) = Fit(s, n, full)
    BY <1>6 DEF Fits, SelFits
  <2>1. CASE n # m
    BY <1>6, <2>1, SameFit
  <2>2. CASE ~full
    BY <1>6, <2>2 DEF Fit, SameClients, On
  <2> QED
    BY <2>1, <2>2
<1> QED
  BY <1>5, <1>6, <1>8, <1>9 DEF leaving, q

\* The same clients in the same layout order.
SameLayout(r, s) == SameClients(r, s) /\ r.clients = s.clients

\* The view of the monitor is the one asked for, if one was.
Viewing(r, m, mask) == mask = {} \/ r.view[m].cur = mask

\* viewmontag: on the selected monitor every selection fits afterwards; on
\* another one that is not switched to, too; under switchmon the selection of
\* the monitor may be one the new view does not show.
LEMMA ViewMonTagFits ==
  ASSUME NEW s, Good(s), NEW m \in Monitor, NEW mask \in Mask, NEW switchmon,
         NEW full, Fits(s, full)
  PROVE  LET r == ViewMonTag(s, m, mask, switchmon)
         IN  /\ Good(r) /\ Rest(r, full)
             /\ SameLayout(r, s) /\ Viewing(r, m, mask)
             /\ \A n \in Monitor : n # m \/ ~full \/ ~switchmon => SelFits(r, n, full)
             /\ ~switchmon => r.selmon = s.selmon
             /\ m = s.selmon => Fits(r, full) /\ r.selmon = m /\ (r = s \/ Kept(r))
<1> DEFINE cur == s.view[m].cur
           new == IF mask = {} THEN s.view[m].alt ELSE mask
           leaving == [s EXCEPT !.focusontag[m][TagToIndex(cur)] = s.sel[m]]
           q == [leaving EXCEPT !.view[m] = [cur |-> new, alt |-> cur]]
           c == q.focusontag[m][TagToIndex(new)]
           known == c # None /\ q.mon[c] = m /\ Visible(q, c)
           arg == IF known THEN c ELSE None
           sel == GetFocusable(q, m, q.sel[m], FALSE)
           f == Focus(q, arg, known)
           g == [q EXCEPT !.sel[m] = sel]
           r == ViewMonTag(s, m, mask, switchmon)
<1>1. s \in WmState /\ cur \in Mask /\ cur # {} /\ new \in Mask /\ new # {}
  BY DEF Good, Sound, Viewed, WmState
<1>2. r = IF mask = cur THEN s ELSE IF switchmon \/ m = s.selmon THEN f ELSE g
  BY DEF ViewMonTag
<1>3. TagToIndex(cur) \in Tag /\ TagToIndex(new) \in Tag
  BY <1>1, TagToIndexType DEF Mask
<1>4. mask # {} => new = mask
  OBVIOUS
<1> HIDE DEF cur, new
<1>5. /\ Good(q) /\ Rest(q, full)
      /\ SameClients(q, s) /\ q.clients = s.clients
      /\ \A n \in Monitor : q.view[n] = IF n = m THEN [cur |-> new, alt |-> cur] ELSE s.view[n]
      /\ q.sel = s.sel /\ q.selmon = s.selmon /\ q.xfocus = s.xfocus
      /\ \A n \in Monitor : n # m \/ ~full => SelFits(q, n, full)
  BY <1>1, <1>3, NewView
<1> HIDE DEF q
<1>6. c \in Client \cup {None}
  BY <1>3, <1>5 DEF Good, Sound, WmState
<1>7. CASE mask = cur
  <2>1. r = s
    BY <1>2, <1>7
  <2>2. SameClients(s, s)
    BY DEF SameClients
  <2> QED
    BY <1>7, <2>1, <2>2 DEF Fits, cur, Viewing, SameLayout
<1>8. CASE mask # cur /\ (switchmon \/ m = s.selmon)
  <2>1. r = f /\ arg \in Managed(q) \cup {None}
    BY <1>2, <1>6, <1>8 DEF Managed, Visible
  <2>2. Aim(q, arg) \in {m, s.selmon}
    BY <1>5 DEF Aim
  <2> HIDE DEF c, known, arg
  <2>3. /\ Good(f) /\ Rest(f, full)
        /\ SameClients(f, q) /\ f.clients = q.clients /\ f.view = q.view
        /\ \A n \in Monitor : SelFits(q, n, full) => SelFits(f, n, full)
        /\ SelFits(f, f.selmon, full)
        /\ NeverFocus = {} => XShown(f)
        /\ Aim(q, arg) = q.selmon => f.selmon = Aim(q, arg) /\ Kept(f)
    BY <1>5, <2>1, FocusFits
  <2> HIDE DEF f
  <2>4. SameClients(f, s) /\ f.clients = s.clients /\ f.view[m].cur = new
    BY <1>5, <2>3 DEF SameClients
  <2>5. \A n \in Monitor : n # m \/ ~full => SelFits(f, n, full)
    BY <1>5, <2>3
  <2>6. m = s.selmon => /\ f.selmon = m /\ Kept(f)
                        /\ \A n \in Monitor : SelFits(f, n, full)
    BY <1>5, <2>2, <2>3, <2>5
  <2>7. m = s.selmon => Fits(f, full) /\ Kept(f)
    BY <2>3, <2>6 DEF Fits
  <2> QED
    BY <1>4, <1>8, <2>1, <2>3, <2>4, <2>5, <2>6, <2>7 DEF Viewing, SameLayout
<1>9. CASE mask # cur /\ ~switchmon /\ m # s.selmon
  <2>1. q.sel[m] \in On(q, m) \cup {None}
    BY <1>5 DEF Good, Sound, Pointed
  <2>2. sel \in Fit(q, m, full) \cup {None}
    BY <1>5, <2>1, GetFocusableShown, ShownFits
  <2> HIDE DEF sel
  <2>3. /\ Good(g) /\ Rest(g, full) /\ SameClients(g, q)
        /\ g.clients = q.clients /\ g.view = q.view
        /\ g.selmon = q.selmon
        /\ \A n \in Monitor : SelFits(q, n, full) => SelFits(g, n, full)
        /\ SelFits(g, m, full)
    BY <1>5, <2>2, SelFit
  <2>4. r = g
    BY <1>2, <1>9
  <2> HIDE DEF g
  <2>5. SameClients(g, s) /\ g.clients = s.clients /\ g.view[m].cur = new
    BY <1>5, <2>3 DEF SameClients
  <2>6. \A n \in Monitor : SelFits(g, n, full)
    BY <1>5, <2>3
  <2> QED
    BY <1>4, <1>5, <1>9, <2>3, <2>4, <2>5, <2>6 DEF Viewing, SameLayout
<1> QED
  BY <1>7, <1>8, <1>9

\* toggleviewex on the selected monitor.
LEMMA ToggleViewExFits ==
  ASSUME NEW s, Good(s), NEW mask \in Mask, NEW full, Fits(s, full)
  PROVE  LET r == ToggleViewEx(s, s.selmon, mask)
         IN  /\ Good(r) /\ Fits(r, full) /\ SameClients(r, s)
             /\ r.clients = s.clients /\ r.selmon = s.selmon /\ (r = s \/ Kept(r))
<1> DEFINE m == s.selmon
           cur == s.view[m].cur
           toggled == (cur \ mask) \cup (mask \ cur)
           q == [s EXCEPT !.view[m] = [cur |-> toggled, alt |-> s.view[m].alt]]
           r == ToggleViewEx(s, m, mask)
           f == Focus(q, None, FALSE)
<1>1. s \in WmState /\ m \in Monitor /\ s.view[m] \in [cur : Mask, alt : Mask] /\ s.view[m].alt # {}
  BY DEF Good, Sound, WmState, Viewed
<1>2. toggled \in Mask
  BY <1>1 DEF Mask
<1>3. r = IF toggled = {} THEN s ELSE f
  <2>1. q = [s EXCEPT !.view[m].cur = toggled]
    BY <1>1
  <2> QED
    BY <2>1 DEF ToggleViewEx
<1> HIDE DEF toggled
<1>4. CASE toggled = {}
  <2>1. SameClients(s, s)
    BY DEF SameClients
  <2> QED
    BY <1>3, <1>4, <2>1
<1>5. CASE toggled # {}
  <2>1. Good(q)
    BY <1>1, <1>2, <1>5, ViewPut
  <2>2. /\ SameClients(q, s) /\ q.clients = s.clients
        /\ \A n \in Monitor : n # m => q.view[n] = s.view[n]
        /\ q.sel = s.sel /\ q.selmon = s.selmon /\ q.focusontag = s.focusontag
    BY <1>1 DEF SameClients, WmState
  <2> HIDE DEF q
  <2>3. Rest(q, full)
    BY <2>2 DEF Fits, Rest, SameClients, Managed
  <2>4. \A n \in Monitor : n # m => SelFits(q, n, full)
    BY <2>2, SameFit DEF Fits, SelFits
  <2>5. /\ Good(f) /\ Fits(f, full)
        /\ SameClients(f, q) /\ f.clients = q.clients
        /\ f.selmon = m /\ Kept(f)
    BY <2>1, <2>2, <2>3, <2>4, FocusNullFits
  <2> HIDE DEF f
  <2>6. SameClients(f, s) /\ f.clients = s.clients
    BY <2>2, <2>5 DEF SameClients
  <2> QED
    BY <1>3, <1>5, <2>5, <2>6
<1> QED
  BY <1>4, <1>5

\* Other tags for a client.
Retagged(s, c, mask) == [s EXCEPT !.tags[c] = mask]

\* Other tags for the selected client of the selected monitor, and a focus.
LEMMA RetagFits ==
  ASSUME NEW s, Good(s), NEW c, c = s.sel[s.selmon], c # None,
         NEW mask \in Mask, mask # {}, NEW full, Fits(s, full)
  PROVE  LET r == Focus(Retagged(s, c, mask), None, FALSE)
         IN  /\ Good(r) /\ Fits(r, full)
             /\ r.mon = s.mon /\ r.clients = s.clients /\ r.hidden = s.hidden
             /\ r.selmon = s.selmon /\ Kept(r)
<1> DEFINE m == s.selmon
           q == [s EXCEPT !.tags[c] = mask]
           r == Focus(q, None, FALSE)
<1>1. s \in WmState /\ m \in Monitor /\ c \in Client /\ s.mon[c] = m
  BY DEF Good, Sound, WmState, Pointed, On
<1>2. Good(q)
  BY <1>1, TagsPut
<1>3. /\ q.mon = s.mon /\ q.clients = s.clients /\ q.hidden = s.hidden /\ q.view = s.view
      /\ \A d \in Client : q.tags[d] = IF d = c THEN mask ELSE s.tags[d]
      /\ q.sel = s.sel /\ q.selmon = s.selmon /\ q.focusontag = s.focusontag
  BY <1>1 DEF WmState
<1> HIDE DEF q
<1>4. Rest(q, full)
  BY <1>1, <1>3 DEF Fits, Rest, Managed
<1>5. \A n \in Monitor : n # m => SelFits(q, n, full)
  <2> SUFFICES ASSUME NEW n \in Monitor, n # m PROVE SelFits(q, n, full)
    OBVIOUS
  <2>1. On(q, n) = On(s, n) /\ c \notin On(s, n)
    BY <1>1, <1>3 DEF On
  <2>2. Shown(q, n) = Shown(s, n)
    BY <1>3, <2>1 DEF Shown, Visible, VisibleOnTag, On
  <2> QED
    BY <1>3, <2>1, <2>2 DEF Fits, SelFits, Fit
<1>6. /\ Good(r) /\ Fits(r, full)
      /\ SameClients(r, q) /\ r.clients = q.clients
      /\ r.selmon = m /\ Kept(r)
  BY <1>2, <1>3, <1>4, <1>5, FocusNullFits
<1> HIDE DEF r
<1> QED
  BY <1>3, <1>6 DEF SameClients, r, q, Retagged

-----------------------------------------------------------------------------
(* A client that goes to another monitor, comes or leaves.                 *)

\* Taken off its lists the client is nothing's selection.
LEMMA OffFits ==
  ASSUME NEW s, Good(s), NEW c \in Managed(s), NEW full, Fits(s, full)
  PROVE  LET r == DetachStack(Detach(s, c), c)
         IN  /\ Sound(r, {c}, {c}, {c}) /\ Rest(r, full) /\ SameRest(r, s)
             /\ \A n \in Monitor : SelFits(r, n, full) /\ r.sel[n] # c
             /\ \A n \in Monitor : s.sel[n] # c => r.sel[n] = s.sel[n]
             /\ OrderKept(s, r, c)
<1> DEFINE d == Detach(s, c)
           r == DetachStack(d, c)
<1>1. c \in Client /\ s.mon[c] # None /\ s \in WmState
  BY DEF Managed, Good, Sound
<1>2. Sound(d, {c}, {}, {}) /\ d.mon = s.mon /\ OrderKept(s, d, c)
  BY <1>1, DetachSound, DetachOrder DEF Good
<1>3. SameRest(d, s) /\ d.sel = s.sel /\ d.focusontag = s.focusontag
  BY <1>1, ClientsEffect
<1> HIDE DEF d
<1>4. Sound(r, {c}, {c}, {c})
  BY <1>1, <1>2, DetachStackSound
<1>5. /\ SameRest(r, d) /\ r.clients = d.clients
      /\ \A n \in Monitor, t \in Tag : r.focusontag[n][t] \in {d.focusontag[n][t], None}
      /\ \A n \in Monitor :
            \/ r.sel[n] = d.sel[n]
            \/ d.sel[n] = c /\ n = d.mon[c] /\ r.sel[n] \in Shown(d, n) \cup {None}
  BY <1>1, <1>2, DetachStackEffect
<1> HIDE DEF r
<1>6. SameRest(r, s) /\ OrderKept(s, r, c)
  BY <1>2, <1>3, <1>5 DEF SameRest, SameClients, OrderKept
<1>8. Rest(r, full)
  BY <1>6 DEF Fits, Rest, SameRest, SameClients, Managed
<1>9. \A n \in Monitor : Fit(r, n, full) = Fit(s, n, full) /\ Shown(d, n) = Shown(s, n)
  BY <1>3, <1>6, SameFit, SameShown DEF SameRest, SameClients
<1>10. \A n \in Monitor : SelFits(r, n, full)
  BY <1>3, <1>5, <1>9, ShownFits DEF Fits, SelFits
<1>11. \A n \in Monitor : r.sel[n] # c
  BY <1>1, <1>4, NoneAssumption DEF Sound, Pointed
<1> QED
  BY <1>3, <1>4, <1>5, <1>6, <1>8, <1>10, <1>11 DEF d, r

\* A client linked in where its lists are: ahead of all on both, or where
\* the attach functions for the tiled layouts put it.
LEMMA OnFits ==
  ASSUME NEW s, NEW c \in Client, s.mon[c] # None, Sound(s, {c}, {c}, {c}),
         NEW full, Rest(s, full), \A n \in Monitor : SelFits(s, n, full),
         NEW r \in {AttachStack(Attach(s, c), c), AttachStackBelow(AttachBelow(s, c), c)}
  PROVE  /\ Good(r) /\ Rest(r, full) /\ SameRest(r, s)
         /\ \A n \in Monitor : SelFits(r, n, full)
         /\ r.sel[s.selmon] = s.sel[s.selmon]
         /\ OrderKept(s, r, c)
<1>1. PICK q \in {Attach(s, c), AttachBelow(s, c)} : r \in {AttachStack(q, c), AttachStackBelow(q, c)}
  OBVIOUS
<1>2. s \in WmState
  BY DEF Sound
<1>3. Sound(q, {}, {c}, {c}) /\ q.mon = s.mon /\ OrderKept(s, q, c)
  BY <1>1, AttachSound, AttachBelowSound, AttachOrder
<1>4. SameRest(q, s) /\ q.sel = s.sel /\ q.focusontag = s.focusontag
  BY <1>1, <1>2, ClientsEffect
<1>5. Good(r)
  BY <1>1, <1>3, AttachStackSound, AttachStackBelowSound DEF Good
<1>6. /\ SameRest(r, q) /\ r.clients = q.clients /\ r.focusontag = q.focusontag
      /\ \A n \in Monitor :
            \/ r.sel[n] = q.sel[n]
            \/ n = q.mon[c] /\ n # q.selmon /\ r.sel[n] = c /\ c \in Shown(q, n)
  BY <1>1, <1>3, AttachStackEffect DEF Sound
<1>7. SameRest(r, s) /\ OrderKept(s, r, c) /\ r.focusontag = s.focusontag
  BY <1>3, <1>4, <1>6 DEF SameRest, SameClients, OrderKept
<1>8. Rest(r, full)
  BY <1>7 DEF Rest, SameRest, SameClients, Managed
<1>9. \A n \in Monitor : Fit(r, n, full) = Fit(s, n, full) /\ Shown(q, n) = Shown(s, n)
  BY <1>4, <1>7, SameFit, SameShown DEF SameRest, SameClients
<1>10. \A n \in Monitor : SelFits(r, n, full)
  BY <1>4, <1>6, <1>9, ShownFits DEF SelFits
<1>11. r.sel[s.selmon] = s.sel[s.selmon]
  BY <1>2, <1>4, <1>6 DEF SameRest, WmState
<1> QED
  BY <1>5, <1>7, <1>8, <1>10, <1>11

\* Another monitor and other tags for the client only.
SameBut(r, s, c) ==
    /\ r.sel = s.sel /\ r.view = s.view /\ r.focusontag = s.focusontag
    /\ r.hidden \ {c} = s.hidden \ {c}
    /\ \A d \in Client : d # c => r.mon[d] = s.mon[d] /\ r.tags[d] = s.tags[d]

\* The client with another monitor and other tags: no monitor selects it, and
\* the selections of all monitors fit as they did.
LEMMA MovedFits ==
  ASSUME NEW s, s \in WmState, NEW r, NEW c \in Client, SameBut(r, s, c), NEW full, Rest(s, full),
         \A n \in Monitor : SelFits(s, n, full), \A n \in Monitor : s.sel[n] # c,
         full => r.hidden = {} /\ (r.mon[c] = None \/ r.tags[c] # {})
  PROVE  Rest(r, full) /\ \A n \in Monitor : SelFits(r, n, full)
<1>1. /\ r.sel = s.sel /\ r.view = s.view /\ r.focusontag = s.focusontag
      /\ r.hidden \ {c} = s.hidden \ {c}
      /\ \A d \in Client : d # c => r.mon[d] = s.mon[d] /\ r.tags[d] = s.tags[d]
  BY DEF SameBut
<1>2. \A n \in Monitor : SelFits(r, n, full)
  <2> SUFFICES ASSUME NEW n \in Monitor, s.sel[n] # None PROVE s.sel[n] \in Fit(r, n, full)
    BY <1>1 DEF SelFits
  <2> DEFINE d == s.sel[n]
  <2>1. d \in Client /\ d # c /\ d \in Fit(s, n, full)
    BY DEF SelFits, WmState
  <2> HIDE DEF d
  <2>2. r.mon[d] = s.mon[d] /\ r.tags[d] = s.tags[d] /\ (d \in r.hidden => d \in s.hidden)
    BY <1>1, <2>1
  <2>3. Visible(s, d) => Visible(r, d)
    BY <1>1, <2>2 DEF Visible, VisibleOnTag
  <2>4. d \in Fit(r, n, full)
    BY <2>1, <2>2, <2>3 DEF Fit, Shown, On
  <2> QED
    BY <2>4 DEF d
<1>3. Rest(r, full)
  BY <1>1 DEF Rest, Managed
<1> QED
  BY <1>2, <1>3

\* sendmon of the selected client: wherever it goes, and whether the view
\* goes with it or not, what is selected on both monitors fits.
LEMMA SendMonFits ==
  ASSUME NEW s, Good(s), NEW c, c = s.sel[s.selmon], c # None,
         NEW m \in Monitor, m # s.selmon, NEW full, Fits(s, full)
  PROVE  LET r == SendMon(s, c, m, c)
         IN  /\ Good(r) /\ Fits(r, full) /\ Managed(r) = Managed(s)
             /\ Kept(r) /\ OrderKept(s, r, c)
<1> DEFINE off == DetachStack(Detach(s, c), c)
           moved == [off EXCEPT !.mon[c] = m, !.tags[c] = s.view[m].cur]
           first == AttachStackEx(Attach(moved, c), c)
           ahead == [first EXCEPT !.sel[m] = c]
           behind == AttachStackBelow(AttachBelow(moved, c), c)
           put == IF m \in Monocle THEN ahead ELSE behind
           here == [put EXCEPT !.sel[m] = c]
           with == [put EXCEPT !.sel[m] = c, !.selmon = m]
           followed == Focus(with, c, TRUE)
           left == Focus(put, None, FALSE)
           onTag == [t \in Tag |-> IF t \in put.tags[c] THEN c ELSE left.focusontag[m][t]]
           stayed == [left EXCEPT !.focusontag[m] = onTag]
           r == SendMon(s, c, m, c)
<1>1. /\ s \in WmState /\ c \in Client /\ c \in Managed(s) /\ s.mon[c] = s.selmon
      /\ m # None /\ s.view[m].cur \in Mask /\ s.view[m].cur # {}
  <2>1. s.selmon \in Monitor /\ c \in Client
    BY DEF Good, Sound, WmState
  <2>2. s.mon[c] = s.selmon
    BY <2>1 DEF Good, Sound, Pointed, On
  <2> QED
    BY <2>1, <2>2, NoneAssumption DEF Good, Sound, WmState, Viewed, Managed
<1>2. full => c \notin s.hidden
  BY DEF Fits, Rest
<1>3. Good(r)
  <2>1. c \in {c}
    OBVIOUS
  <2> QED
    BY <1>1, <2>1, SendMonSound
<1>4. r = IF ViewOnTag THEN followed ELSE stayed
  BY <1>1 DEF SendMon
<1>5. /\ Sound(off, {c}, {c}, {c}) /\ Rest(off, full) /\ SameRest(off, s)
      /\ \A n \in Monitor : SelFits(off, n, full) /\ off.sel[n] # c
      /\ OrderKept(s, off, c)
  <2>1. Good(s) /\ Fits(s, full) /\ c \in Managed(s)
    BY <1>1
  <2> QED
    BY ONLY <2>1, OffFits
<1> HIDE DEF off, r
<1>6. /\ moved \in WmState
      /\ moved.clients = off.clients /\ moved.stack = off.stack
      /\ moved.sel = off.sel /\ moved.focusontag = off.focusontag /\ moved.view = off.view
      /\ \A d \in Client : moved.mon[d] = IF d = c THEN m ELSE off.mon[d]
      /\ \A d \in Client : moved.tags[d] = IF d = c THEN s.view[m].cur ELSE off.tags[d]
      /\ moved.hidden = off.hidden /\ moved.selmon = off.selmon /\ moved.xfocus = off.xfocus
  BY <1>1, <1>5 DEF Sound, WmState
<1> HIDE DEF moved
<1>7. Managed(moved) = Managed(s)
  BY <1>1, <1>5, <1>6 DEF Managed, SameRest, SameClients
<1>8. Sound(moved, {c}, {c}, {c}) /\ moved.mon[c] = m
  <2>1. moved.xfocus \in Managed(moved) \cup {None}
    BY <1>1, <1>5, <1>6, <1>7 DEF SameRest, Good, Sound
  <2> QED
    BY <1>1, <1>5, <1>6, <2>1, MonPut
<1>9. Rest(moved, full) /\ \A n \in Monitor : SelFits(moved, n, full)
  <2>2. SameBut(moved, off, c)
    BY <1>6 DEF SameBut
  <2>3. full => moved.hidden = {} /\ (moved.mon[c] = None \/ moved.tags[c] # {})
    BY <1>1, <1>5, <1>6 DEF Rest
  <2>4. /\ c \in Client /\ off \in WmState /\ Rest(off, full)
        /\ \A n \in Monitor : SelFits(off, n, full)
        /\ \A n \in Monitor : off.sel[n] # c
    BY <1>1, <1>5 DEF Sound
  <2> QED
    BY ONLY <2>2, <2>3, <2>4, MovedFits
<1>10. c \in Fit(moved, m, full)
  BY <1>1, <1>2, <1>5, <1>6 DEF Fit, Shown, On, Visible, VisibleOnTag, SameRest, SameClients
<1>11. OrderKept(s, moved, c)
  BY <1>5, <1>6 DEF OrderKept
<1>12. /\ Good(behind) /\ Rest(behind, full) /\ SameRest(behind, moved)
       /\ \A n \in Monitor : SelFits(behind, n, full)
       /\ OrderKept(moved, behind, c)
  BY <1>1, <1>8, <1>9, OnFits
<1>13. /\ Good(ahead) /\ Rest(ahead, full) /\ SameRest(ahead, moved)
       /\ \A n \in Monitor : SelFits(ahead, n, full)
       /\ OrderKept(moved, ahead, c)
  <2> DEFINE a == Attach(moved, c)
  <2>1. Sound(a, {}, {c}, {c}) /\ a.mon = moved.mon /\ OrderKept(moved, a, c)
    BY <1>1, <1>8, AttachSound, AttachOrder
  <2>2. SameRest(a, moved) /\ a.sel = moved.sel /\ a.focusontag = moved.focusontag
    BY <1>1, <1>6, <1>8, ClientsEffect
  <2> HIDE DEF a
  <2>3. Sound(first, {}, {}, {c}) /\ first.mon = a.mon
    BY <1>1, <1>8, <2>1, AttachStackExSound DEF a
  <2>4. SameRest(first, a) /\ first.clients = a.clients /\ first.sel = a.sel /\ first.focusontag = a.focusontag
    BY <1>1, <1>8, <2>1 DEF AttachStackEx, Sound, WmState, SameRest, SameClients, a
  <2> HIDE DEF first
  <2>5. c \in (On(first, m) \ {}) \cup {None} /\ {} \in SUBSET {c}
    BY <1>1, <1>8, <2>1, <2>3 DEF On
  <2>6. Sound(ahead, {}, {}, {})
    BY <2>3, <2>5, SelPut
  <2>7. /\ SameRest(ahead, first) /\ ahead.clients = first.clients /\ ahead.focusontag = first.focusontag
        /\ \A n \in Monitor : ahead.sel[n] = IF n = m THEN c ELSE first.sel[n]
    BY <2>3 DEF Sound, WmState, SameRest, SameClients
  <2> HIDE DEF ahead
  <2>8. SameRest(ahead, moved) /\ OrderKept(moved, ahead, c) /\ ahead.focusontag = moved.focusontag
    BY <2>1, <2>2, <2>4, <2>7 DEF SameRest, SameClients, OrderKept
  <2>9. Rest(ahead, full)
    BY <1>9, <2>8 DEF Rest, SameRest, SameClients, Managed
  <2>10. \A n \in Monitor : Fit(ahead, n, full) = Fit(moved, n, full)
    BY <2>8, SameFit DEF SameRest
  <2>11. \A n \in Monitor : SelFits(ahead, n, full)
    BY <1>9, <1>10, <2>2, <2>4, <2>7, <2>10 DEF SelFits
  <2> QED
    BY <2>6, <2>8, <2>9, <2>11 DEF Good
<1> HIDE DEF ahead, behind
<1>14. /\ Good(put) /\ Rest(put, full) /\ SameRest(put, moved)
       /\ \A n \in Monitor : SelFits(put, n, full)
       /\ OrderKept(s, put, c)
  BY <1>11, <1>12, <1>13, OrderTwice
<1> HIDE DEF put
<1>15. Managed(put) = Managed(s) /\ put.mon[c] = m /\ put.hidden = s.hidden
       /\ Fit(put, m, full) = Fit(moved, m, full)
  BY <1>5, <1>6, <1>7, <1>8, <1>14, SameFit DEF SameRest, SameClients, Managed
<1>16. /\ Fits(followed, full) /\ Kept(followed) /\ followed.mon = put.mon
       /\ OrderKept(s, followed, c)
  <2>1. c \in Fit(put, m, full) \cup {None}
    BY <1>10, <1>15
  <2>2. /\ Good(here) /\ Rest(here, full) /\ SameClients(here, put)
        /\ here.clients = put.clients
        /\ \A n \in Monitor : SelFits(put, n, full) => SelFits(here, n, full)
    BY <1>14, <2>1, SelFit
  <2>3. with = [here EXCEPT !.selmon = m]
    BY <1>14 DEF Good, Sound, WmState
  <2> HIDE DEF here
  <2>4. /\ Good(with) /\ Rest(with, full) /\ SameClients(with, here)
        /\ with.clients = here.clients /\ with.selmon = m
        /\ \A n \in Monitor : SelFits(here, n, full) => SelFits(with, n, full)
    <3>1. /\ Good([here EXCEPT !.selmon = m]) /\ Rest([here EXCEPT !.selmon = m], full)
          /\ SameClients([here EXCEPT !.selmon = m], here)
          /\ [here EXCEPT !.selmon = m].clients = here.clients
          /\ [here EXCEPT !.selmon = m].selmon = m
          /\ \A n \in Monitor : SelFits(here, n, full) => SelFits([here EXCEPT !.selmon = m], n, full)
      BY <2>2, SelmonFits
    <3> HIDE DEF with
    <3> QED
      BY <2>3, <3>1
  <2> HIDE DEF with
  <2>5. c \in Managed(with) \cup {None} /\ Aim(with, c) = m
    BY <1>1, <1>15, <2>2, <2>4 DEF Managed, SameClients, Aim
  <2>6. /\ Rest(followed, full) /\ SameClients(followed, with) /\ followed.clients = with.clients
        /\ \A n \in Monitor : SelFits(with, n, full) => SelFits(followed, n, full)
        /\ NeverFocus = {} => XShown(followed)
        /\ Aim(with, c) = with.selmon => followed.selmon = Aim(with, c) /\ Kept(followed)
    <3>1. Good(with) /\ Rest(with, full) /\ c \in Managed(with) \cup {None}
      BY <2>4, <2>5
    <3> QED
      BY ONLY <3>1, FocusFits
  <2> HIDE DEF followed
  <2>7. Fits(followed, full)
    BY <1>14, <2>2, <2>4, <2>6 DEF Fits
  <2> QED
    BY <1>14, <2>2, <2>4, <2>5, <2>6, <2>7 DEF SameClients, OrderKept
<1>17. /\ Good(left) /\ Fits(left, full) /\ Kept(left) /\ SameClients(left, put)
       /\ left.clients = put.clients
  BY <1>14, FocusNullFits
<1> HIDE DEF followed, left
<1>18. /\ Fits(stayed, full) /\ Kept(stayed) /\ stayed.mon = put.mon
       /\ OrderKept(s, stayed, c)
  <2>1. left \in WmState
    BY <1>17 DEF Good, Sound
  <2>2. /\ SameClients(stayed, left) /\ stayed.clients = left.clients /\ stayed.view = left.view
        /\ stayed.sel = left.sel /\ stayed.selmon = left.selmon /\ stayed.xfocus = left.xfocus
        /\ \A n \in Monitor, t \in Tag : stayed.focusontag[n][t] \in {c, left.focusontag[n][t]}
    BY <2>1 DEF WmState, SameClients
  <2> HIDE DEF stayed
  <2>3. Rest(stayed, full)
    BY <1>17, <2>2 DEF Fits, Rest, SameClients, Managed
  <2>4. \A n \in Monitor : SelFits(stayed, n, full)
    BY <1>17, <2>2, SameFit DEF Fits, SelFits
  <2>5. XShown(left) => XShown(stayed)
    <3>1. left.xfocus # None => left.mon[left.xfocus] \in Monitor
      BY <1>17 DEF Good, Sound, WmState, Managed
    <3>2. left.xfocus # None =>
            Shown(stayed, left.mon[left.xfocus]) = Shown(left, left.mon[left.xfocus])
      BY <2>2, <3>1, SameShown DEF SameClients
    <3> QED
      BY <2>2, <3>2 DEF XShown, SameClients
  <2>6. Usable(stayed, left.selmon) = Usable(left, left.selmon)
    <3>1. left.selmon \in Monitor
      BY <2>1 DEF WmState
    <3> QED
      BY <2>2, <3>1, SameShown DEF SameClients
  <2> QED
    BY <1>14, <1>17, <2>2, <2>3, <2>4, <2>5, <2>6 DEF Fits, Kept, SameClients, OrderKept
<1> HIDE DEF stayed
<1>19. \A u : u.mon = put.mon => Managed(u) = Managed(s)
  BY <1>15 DEF Managed
<1> QED
  BY <1>3, <1>4, <1>16, <1>18, <1>19 DEF r

-----------------------------------------------------------------------------
(* The handlers.                                                           *)

\* The inductive invariant: the chains alone are not inductive, since
\* detachstack selects what it finds on a chain, focus follows sel and
\* focusontag to a client it takes off a chain and puts on again, and
\* viewmontag indexes focusontag with the lowest tag of a view. Fits adds that
\* the X focus is on the screen if every client takes it.
IInv == TypeOK /\ ListsAgree /\ RefsValid /\ NeverBlank /\ Fits(wm, FALSE)

\* The invariant is what the lemmas on the functions call Good, and Fits.
LEMMA InvIsGood == IInv <=> Good(wm) /\ Fits(wm, FALSE)
<1>1. \A m \in Monitor : On(wm, m) \ {} = On(wm, m)
  OBVIOUS
<1>2. ListsAgree <=> Listed(wm, {}, {})
  BY <1>1 DEF ListsAgree, Listed
<1>3. RefsValid <=> Pointed(wm, {}) /\ wm.xfocus \in Managed(wm) \cup {None}
  BY <1>1 DEF RefsValid, Pointed
<1>4. NeverBlank <=> Viewed(wm)
  BY DEF NeverBlank, Viewed
<1> QED
  BY <1>2, <1>3, <1>4 DEF IInv, TypeOK, Good, Sound

\* No client is managed at first.
LEMMA InitGood == Init => Good(wm) /\ Fits(wm, FALSE) /\ Fits(wm, TRUE)
<1> SUFFICES ASSUME Init
             PROVE  /\ TypeOK /\ ListsAgree /\ RefsValid /\ NeverBlank
                    /\ Fits(wm, FALSE) /\ Fits(wm, TRUE)
  BY InvIsGood DEF IInv
<1>1. PICK m \in Monitor :
        wm = [clients |-> [n \in Monitor |-> <<>>],
              stack |-> [n \in Monitor |-> <<>>],
              mon |-> [c \in Client |-> None],
              tags |-> [c \in Client |-> {}],
              floating |-> {},
              hidden |-> {},
              sel |-> [n \in Monitor |-> None],
              selmon |-> m,
              view |-> [n \in Monitor |-> FirstView],
              focusontag |-> [n \in Monitor |-> [t \in Tag |-> None]],
              xfocus |-> None]
  BY DEF Init
<1>2. TagToIndex(Tag) \in Tag
  BY TagToIndexType, TagAssumption DEF Mask
<1>3. FirstView \in [cur : Mask, alt : Mask] /\ FirstView.cur # {} /\ FirstView.alt # {}
  BY <1>2 DEF FirstView, Mask
<1>4. <<>> \in Seq(Client) /\ Len(<<>>) = 0
  OBVIOUS
<1> HIDE DEF FirstView
<1>5. TypeOK
  BY <1>1, <1>3, <1>4 DEF TypeOK, WmState, Mask
<1>6. ListsAgree
  <2>1. \A n \in Monitor : On(wm, n) = {}
    BY <1>1, NoneAssumption DEF On
  <2>2. IsChain(<<>>, {})
    <3>1. DOMAIN <<>> = {}
      OBVIOUS
    <3> QED
      BY <3>1 DEF IsChain, IsInjective, ToSet
  <2> QED
    BY <1>1, <2>1, <2>2 DEF ListsAgree
<1>7. RefsValid /\ NeverBlank
  BY <1>1, <1>3 DEF RefsValid, NeverBlank
<1>8. \A full \in BOOLEAN : Fits(wm, full)
  BY <1>1, NoneAssumption DEF Fits, Rest, SelFits, Fit, XShown, Managed
<1> QED
  BY <1>5, <1>6, <1>7, <1>8

-----------------------------------------------------------------------------
(* One lemma for each handler: what it selects is on the screen, and it     *)
(* moves one client only.                                                  *)

\* What the handlers, and the parts of them after the pointer was heeded,
\* leave of the record s: d is the client that moves.
Outcome(s, r, full, d) ==
    /\ Good(r) /\ Fits(r, full) /\ Managed(r) = Managed(s)
    /\ r = s \/ Kept(r)
    /\ OrderKept(s, r, d)

Turn(s, r, full) ==
    /\ Good(r) /\ Fits(r, full) /\ Managed(r) = Managed(s)
    /\ full => Keep(s, r)
    /\ \E d \in Client \cup {None} : OrderKept(s, r, d)

\* What follows checkmouseover* is the outcome of the whole command.
LEMMA PointerTurn ==
  ASSUME Good(wm), NEW pm \in Monitor, NEW at \in AtCoords(wm, pm, FALSE),
         NEW full, Fits(wm, full),
         NEW s \in {CheckMouseOverClient(wm, pm, at), CheckMouseOverMonitor(wm, pm)}
  PROVE  /\ Good(s) /\ Fits(s, full) /\ s \in WmState /\ s.selmon = pm
         /\ s.mon = wm.mon /\ s.tags = wm.tags /\ s.hidden = wm.hidden
         /\ s.sel[pm] \in On(s, pm) \cup {None}
         /\ s.sel[pm] # None => /\ s.sel[pm] \in Client /\ s.mon[s.sel[pm]] = pm
                                /\ s.sel[pm] \in Managed(s)
         /\ \A d : Outcome(s, s, full, d)
         /\ \A r, d : d \in Client \cup {None} /\ Outcome(s, r, full, d) => Turn(wm, r, full)
<1>1. /\ Good(s) /\ Fits(s, full) /\ SameClients(s, wm)
      /\ s.clients = wm.clients /\ s.view = wm.view
      /\ s.selmon = pm
      /\ Keep(wm, s)
  BY CheckMouseOverFits
<1>2. s \in WmState /\ s.sel[pm] \in On(s, pm) \cup {None}
  BY <1>1 DEF Good, Sound, Pointed
<1>3. s.sel[pm] # None => /\ s.sel[pm] \in Client /\ s.mon[s.sel[pm]] = pm
                          /\ s.sel[pm] \in Managed(s)
  BY <1>2, NoneAssumption DEF On, Managed
<1>4. \A d : Outcome(s, s, full, d)
  BY <1>1, OrderSame DEF Outcome
<1>5. ASSUME NEW r, NEW d \in Client \cup {None}, Outcome(s, r, full, d) PROVE Turn(wm, r, full)
  <2>1. Managed(s) = Managed(wm)
    BY <1>1 DEF SameClients, Managed
  <2>2. OrderKept(wm, r, d)
    BY <1>1, <1>5 DEF Outcome, OrderKept
  <2>3. Keep(wm, r)
    BY <1>1, <1>5 DEF Outcome, Keep, Kept
  <2> QED
    BY <1>5, <2>1, <2>2, <2>3 DEF Outcome, Turn
<1> QED
  BY <1>1, <1>2, <1>3, <1>4, <1>5 DEF SameClients

\* A record that fits, with the same clients in the same order.
LEMMA SameOutcome ==
  ASSUME NEW s, NEW r, NEW full, Good(r), Fits(r, full), r.mon = s.mon, r.clients = s.clients,
         Kept(r), NEW d
  PROVE  Outcome(s, r, full, d)
BY OrderSame DEF Outcome, Managed

\* focus(c) of a client of the selected monitor, or NULL.
LEMMA FocusOutcome ==
  ASSUME NEW s, Good(s), NEW full, Fits(s, full), NEW c \in On(s, s.selmon) \cup {None}, NEW force,
         NEW d
  PROVE  LET r == Focus(s, c, force)
         IN  Outcome(s, r, full, d) /\ Kept(r)
<1> DEFINE r == Focus(s, c, force)
<1>1. c \in Managed(s) \cup {None} /\ (c = None \/ s.mon[c] = s.selmon)
  BY NoneAssumption DEF Good, Sound, WmState, On, Managed
<1>2. /\ Good(r) /\ Fits(r, full)
      /\ SameClients(r, s) /\ r.clients = s.clients /\ r.view = s.view
      /\ r.selmon = s.selmon /\ Kept(r)
  BY <1>1, FocusStays
<1> HIDE DEF r
<1>3. Outcome(s, r, full, d) /\ Kept(r)
  BY <1>2, SameOutcome DEF SameClients
<1> QED
  BY <1>3 DEF r

\* viewmontag of the selected monitor.
LEMMA ViewOutcome ==
  ASSUME NEW s, Good(s), NEW full, Fits(s, full), NEW mask \in Mask, NEW switchmon
  PROVE  LET r == ViewMonTag(s, s.selmon, mask, switchmon)
         IN  /\ Good(r) /\ Fits(r, full) /\ r.mon = s.mon /\ r.clients = s.clients
             /\ r.selmon = s.selmon /\ \A d : Outcome(s, r, full, d)
<1> DEFINE m == s.selmon
           r == ViewMonTag(s, m, mask, switchmon)
<1>1. m \in Monitor
  BY DEF Good, Sound, WmState
<1>2. m = s.selmon
  OBVIOUS
<1> HIDE DEF m
<1>3. /\ Good(r) /\ SameLayout(r, s)
      /\ Fits(r, full) /\ r.selmon = m /\ (r = s \/ Kept(r))
  <2>1. Good(s) /\ Fits(s, full) /\ m \in Monitor /\ mask \in Mask
    BY <1>1
  <2>2. /\ Good(r) /\ SameLayout(r, s)
        /\ m = s.selmon => Fits(r, full) /\ r.selmon = m /\ (r = s \/ Kept(r))
    BY ONLY <2>1, ViewMonTagFits
  <2> QED
    BY <1>2, <2>2
<1> HIDE DEF r
<1>4. \A d : Outcome(s, r, full, d)
  BY <1>3, OrderSame DEF Outcome, SameLayout, SameClients, Managed
<1> QED
  BY <1>2, <1>3, <1>4 DEF SameLayout, SameClients, r, m

\* view
LEMMA ViewTurn ==
  ASSUME Good(wm), NEW full, Fits(wm, full), NEW pm \in Monitor, NEW mask \in ViewMasks, View(pm, mask)
  PROVE  Turn(wm, wm', full)
<1>1. None \in AtCoords(wm, pm, FALSE) /\ mask \in Mask
  BY MaskAssumption DEF AtCoords
<1>2. PICK s : s = CheckMouseOverMonitor(wm, pm)
  OBVIOUS
<1>3. PICK r : r = ViewMonTag(s, s.selmon, mask, TRUE)
  OBVIOUS
<1>4. wm' = r
  BY <1>2, <1>3 DEF View
<1>5. /\ Good(s) /\ Fits(s, full) /\ s.selmon = pm
      /\ \A x, d : d \in Client \cup {None} /\ Outcome(s, x, full, d) => Turn(wm, x, full)
  BY <1>1, <1>2, PointerTurn
<1>6. Outcome(s, r, full, None)
  BY <1>1, <1>3, <1>5, ViewOutcome
<1> QED
  BY <1>4, <1>5, <1>6

\* toggleview
LEMMA ToggleViewTurn ==
  ASSUME Good(wm), NEW full, Fits(wm, full), NEW pm \in Monitor, NEW mask \in ToggleMasks,
         ToggleView(pm, mask)
  PROVE  Turn(wm, wm', full)
<1>1. None \in AtCoords(wm, pm, FALSE) /\ mask \in Mask
  BY MaskAssumption DEF AtCoords
<1>2. PICK s : s = CheckMouseOverMonitor(wm, pm)
  OBVIOUS
<1>3. PICK r : r = ToggleViewEx(s, s.selmon, mask)
  OBVIOUS
<1>4. wm' = r
  BY <1>2, <1>3 DEF ToggleView
<1>5. /\ Good(s) /\ Fits(s, full) /\ s.selmon = pm
      /\ \A x, d : d \in Client \cup {None} /\ Outcome(s, x, full, d) => Turn(wm, x, full)
  BY <1>1, <1>2, PointerTurn
<1>6. /\ Good(r) /\ SameClients(r, s) /\ r.clients = s.clients
      /\ Fits(r, full) /\ (r = s \/ Kept(r))
  BY <1>1, <1>3, <1>5, ToggleViewExFits
<1>7. Outcome(s, r, full, None)
  BY <1>6, OrderSame DEF Outcome, SameClients, Managed
<1> QED
  BY <1>4, <1>5, <1>7

\* tag: the client is followed to its tags, or the next one is focused.
LEMMA TagClientTurn ==
  ASSUME Good(wm), NEW full, Fits(wm, full), NEW pm \in Monitor, NEW at \in AtCoords(wm, pm, FALSE),
         NEW mask \in ViewMasks, NEW guess \in Client \cup {None}, TagClient(pm, at, mask, guess)
  PROVE  Turn(wm, wm', full)
<1>1. PICK s : s = CheckMouseOverClient(wm, pm, at)
  OBVIOUS
<1>2. PICK c : c = s.sel[s.selmon]
  OBVIOUS
<1>3. PICK tagged : tagged = Focus([s EXCEPT !.tags[c] = mask], None, FALSE)
  OBVIOUS
<1>4. PICK viewed : viewed = ViewMonTag(tagged, tagged.selmon, mask, TRUE)
  OBVIOUS
<1>5. /\ mask # {} /\ mask \in Mask
      /\ \/ wm' = s
         \/ /\ c # None
            /\ guess \in GuessNextFocus(tagged, c, tagged.selmon, pm)
            /\ \/ wm' = Focus(viewed, c, FALSE)
               \/ wm' = tagged
               \/ wm' = Focus(tagged, guess, FALSE)
  <2> DEFINE next == IF ViewOnTag /\ mask # Tag THEN Focus(viewed, c, FALSE)
                     ELSE IF Visible(tagged, c) \/ guess = None THEN tagged
                     ELSE Focus(tagged, guess, FALSE)
  <2>1. /\ mask # {}
        /\ IF c = None THEN wm' = s /\ guess = None
           ELSE guess \in GuessNextFocus(tagged, c, tagged.selmon, pm) /\ wm' = next
    BY <1>1, <1>2, <1>3, <1>4, Zenon DEF TagClient
  <2>2. next \in {Focus(viewed, c, FALSE), tagged, Focus(tagged, guess, FALSE)}
    OBVIOUS
  <2>3. mask \in Mask
    BY MaskAssumption
  <2> HIDE DEF next
  <2>4. CASE c = None
    BY <2>1, <2>3, <2>4
  <2>5. CASE c # None
    <3>1. guess \in GuessNextFocus(tagged, c, tagged.selmon, pm) /\ wm' = next
      BY ONLY <2>1, <2>5
    <3>2. wm' = Focus(viewed, c, FALSE) \/ wm' = tagged \/ wm' = Focus(tagged, guess, FALSE)
      BY ONLY <2>2, <3>1
    <3> QED
      BY ONLY <2>1, <2>3, <2>5, <3>1, <3>2
  <2> QED
    BY ONLY <2>4, <2>5
<1>6. /\ Good(s) /\ Fits(s, full) /\ s.selmon = pm
      /\ \A d : Outcome(s, s, full, d)
      /\ \A x, d : d \in Client \cup {None} /\ Outcome(s, x, full, d) => Turn(wm, x, full)
      /\ c # None => c \in Managed(s) /\ s.mon[c] = pm
  <2>1. /\ Good(s) /\ Fits(s, full) /\ s \in WmState /\ s.selmon = pm
        /\ \A d : Outcome(s, s, full, d)
        /\ \A x, d : d \in Client \cup {None} /\ Outcome(s, x, full, d) => Turn(wm, x, full)
    BY <1>1, PointerTurn
  <2>2. s.sel[pm] # None => s.mon[s.sel[pm]] = pm /\ s.sel[pm] \in Managed(s)
    BY <1>1, PointerTurn
  <2> QED
    BY ONLY <1>2, <2>1, <2>2
<1>7. ASSUME c # None
      PROVE  /\ Good(tagged) /\ Fits(tagged, full)
             /\ tagged.mon = s.mon /\ tagged.clients = s.clients
             /\ tagged.selmon = pm /\ Kept(tagged)
  <2>1. Good(s) /\ Fits(s, full) /\ c = s.sel[s.selmon] /\ c # None /\ mask \in Mask /\ mask # {}
    BY <1>2, <1>5, <1>6, <1>7
  <2>2. LET r == Focus(Retagged(s, c, mask), None, FALSE)
         IN  /\ Good(r) /\ Fits(r, full)
             /\ r.mon = s.mon /\ r.clients = s.clients /\ r.hidden = s.hidden
             /\ r.selmon = s.selmon /\ Kept(r)
    BY ONLY <2>1, RetagFits
  <2>3. tagged = Focus(Retagged(s, c, mask), None, FALSE)
    BY <1>3 DEF Retagged
  <2> QED
    BY <1>6, <2>2, <2>3
<1>8. ASSUME c # None
      PROVE  /\ Good(viewed) /\ Fits(viewed, full)
             /\ viewed.mon = s.mon /\ viewed.clients = s.clients /\ viewed.selmon = pm
  BY <1>4, <1>5, <1>7, <1>8, ViewOutcome
<1>9. ASSUME c # None PROVE \A d : Outcome(s, Focus(viewed, c, FALSE), full, d)
  <2>1. c \in On(viewed, viewed.selmon) \cup {None}
    BY <1>6, <1>8, <1>9 DEF On, Managed
  <2>2. PICK r : r = Focus(viewed, c, FALSE)
    OBVIOUS
  <2>3. \A d : Outcome(viewed, r, full, d) /\ Kept(r)
    BY <1>8, <1>9, <2>1, <2>2, FocusOutcome
  <2> QED
    BY <1>8, <1>9, <2>2, <2>3 DEF Outcome, OrderKept, Managed
<1>10. CASE wm' = s
  BY <1>6, <1>10
<1>11. CASE c # None /\ wm' = Focus(viewed, c, FALSE)
  BY <1>6, <1>9, <1>11
<1>12. CASE c # None /\ wm' = tagged
  BY <1>6, <1>7, <1>12, SameOutcome
<1>13. CASE c # None /\ guess \in GuessNextFocus(tagged, c, tagged.selmon, pm)
            /\ wm' = Focus(tagged, guess, FALSE)
  <2> DEFINE f == GetFocusable(tagged, pm, None, FALSE)
  <2>1. f \in On(tagged, pm) \cup {None}
    BY <1>7, <1>13, GetFocusableType
  <2>2. guess \in On(tagged, tagged.selmon) \cup {None}
    <3>1. guess \in GuessNextFocus(tagged, c, pm, pm)
      BY <1>7, <1>13
    <3>2. Shown(tagged, pm) \subseteq On(tagged, pm) /\ Usable(tagged, pm) \subseteq On(tagged, pm)
      BY DEF Shown, Usable
    <3>3. guess \in Shown(tagged, pm) \cup Usable(tagged, pm) \cup {f, None}
      BY <3>1 DEF GuessNextFocus, AtCoords
    <3> QED
      BY <1>7, <1>13, <2>1, <3>2, <3>3
  <2>3. Outcome(tagged, wm', full, None) /\ Kept(wm')
    BY <1>7, <1>13, <2>2, FocusOutcome
  <2>4. Outcome(s, wm', full, None)
    BY <1>7, <1>13, <2>3 DEF Outcome, OrderKept, Managed
  <2> QED
    BY <1>6, <2>4
<1> QED
  BY <1>5, <1>10, <1>11, <1>12, <1>13
\* toggletag
LEMMA ToggleTagTurn ==
  ASSUME Good(wm), NEW full, Fits(wm, full), NEW pm \in Monitor, NEW at \in AtCoords(wm, pm, FALSE),
         NEW mask \in ToggleMasks, ToggleTag(pm, at, mask)
  PROVE  Turn(wm, wm', full)
<1>1. PICK s : s = CheckMouseOverClient(wm, pm, at)
  OBVIOUS
<1>2. PICK c : c = s.sel[s.selmon]
  OBVIOUS
<1>3. PICK toggled : toggled = (s.tags[c] \ mask) \cup (mask \ s.tags[c])
  OBVIOUS
<1>4. PICK r : r = Focus(Retagged(s, c, toggled), None, FALSE)
  OBVIOUS
<1>5. wm' = IF c = None \/ toggled = {} THEN s ELSE r
  BY <1>1, <1>2, <1>3, <1>4 DEF ToggleTag, ToggleTagEx, Retagged
<1>6. /\ Good(s) /\ Fits(s, full) /\ s \in WmState /\ s.selmon = pm
      /\ \A d : Outcome(s, s, full, d)
      /\ \A x, d : d \in Client \cup {None} /\ Outcome(s, x, full, d) => Turn(wm, x, full)
      /\ c # None => c \in Client
  <2>1. /\ Good(s) /\ Fits(s, full) /\ s \in WmState /\ s.selmon = pm
        /\ \A d : Outcome(s, s, full, d)
        /\ \A x, d : d \in Client \cup {None} /\ Outcome(s, x, full, d) => Turn(wm, x, full)
    BY <1>1, PointerTurn
  <2>2. s.sel[pm] # None => s.sel[pm] \in Client
    BY <1>1, PointerTurn
  <2> QED
    BY <1>2, <2>1, <2>2
<1>7. ASSUME c # None, toggled # {} PROVE Outcome(s, r, full, None)
  <2>1. toggled \in Mask
    BY <1>3, <1>6, <1>7, MaskAssumption DEF WmState, Mask
  <2>2. Good(s) /\ Fits(s, full) /\ c = s.sel[s.selmon] /\ c # None /\ toggled \in Mask /\ toggled # {}
    BY <1>2, <1>6, <1>7, <2>1
  <2>3. LET q == Focus(Retagged(s, c, toggled), None, FALSE)
        IN  /\ Good(q) /\ Fits(q, full) /\ q.mon = s.mon /\ q.clients = s.clients /\ Kept(q)
    BY ONLY <2>2, RetagFits
  <2> QED
    BY <1>4, <2>3, SameOutcome
<1> QED
  BY <1>5, <1>6, <1>7

\* tagmon
LEMMA TagMonTurn ==
  ASSUME Good(wm), NEW full, Fits(wm, full), NEW pm \in Monitor, NEW at \in AtCoords(wm, pm, FALSE),
         NEW m \in Monitor, TagMon(pm, at, m)
  PROVE  Turn(wm, wm', full)
<1>1. PICK s : s = CheckMouseOverClient(wm, pm, at)
  OBVIOUS
<1>2. PICK c : c = s.sel[s.selmon]
  OBVIOUS
<1>3. PICK r : r = SendMon(s, c, m, c)
  OBVIOUS
<1>4. wm' = (IF c = None THEN s ELSE r) /\ m # s.selmon
  BY <1>1, <1>2, <1>3 DEF TagMon
<1>5. /\ Good(s) /\ Fits(s, full) /\ s.selmon = pm
      /\ \A d : Outcome(s, s, full, d)
      /\ \A x, d : d \in Client \cup {None} /\ Outcome(s, x, full, d) => Turn(wm, x, full)
      /\ c # None => c \in Client
  <2>1. /\ Good(s) /\ Fits(s, full) /\ s \in WmState /\ s.selmon = pm
        /\ \A d : Outcome(s, s, full, d)
        /\ \A x, d : d \in Client \cup {None} /\ Outcome(s, x, full, d) => Turn(wm, x, full)
    BY <1>1, PointerTurn
  <2>2. s.sel[pm] # None => s.sel[pm] \in Client
    BY <1>1, PointerTurn
  <2> QED
    BY <1>2, <2>1, <2>2
<1>6. ASSUME c # None PROVE Outcome(s, r, full, c)
  <2>1. Good(s) /\ Fits(s, full) /\ c = s.sel[s.selmon] /\ c # None /\ m \in Monitor /\ m # s.selmon
    BY <1>2, <1>4, <1>5, <1>6
  <2>2. LET q == SendMon(s, c, m, c)
        IN  Good(q) /\ Fits(q, full) /\ Managed(q) = Managed(s) /\ Kept(q) /\ OrderKept(s, q, c)
    BY ONLY <2>1, SendMonFits
  <2> QED
    BY <1>3, <2>2 DEF Outcome
<1> QED
  BY <1>4, <1>5, <1>6

\* Another monitor is selected, and a client of it, or what it selects.
LEMMA MonitorTurn ==
  ASSUME Good(wm), NEW full, Fits(wm, full), NEW m \in Monitor,
         NEW c \in On(wm, m) \cup {None}, NEW force
  PROVE  Turn(wm, Focus(FocusMonEx(wm, m), c, force), full)
<1> DEFINE s == [wm EXCEPT !.selmon = m]
<1>1. /\ Good(s) /\ Fits(s, full) /\ SameClients(s, wm) /\ s.clients = wm.clients /\ s.selmon = m
  BY SelmonFits DEF Fits
<1>2. s = FocusMonEx(wm, m)
  BY DEF FocusMonEx
<1> HIDE DEF s
<1>3. c \in On(s, s.selmon) \cup {None}
  BY <1>1 DEF On, SameClients
<1>4. PICK r : r = Focus(s, c, force)
  OBVIOUS
<1>5. Outcome(s, r, full, None) /\ Kept(r)
  BY <1>1, <1>3, <1>4, FocusOutcome
<1> QED
  BY <1>1, <1>2, <1>4, <1>5 DEF Outcome, Turn, Keep, Kept, OrderKept, Managed, SameClients

\* focusmon
LEMMA FocusMonTurn ==
  ASSUME Good(wm), NEW full, Fits(wm, full), NEW m \in Monitor, FocusMon(m)
  PROVE  Turn(wm, wm', full)
<1>1. wm' = Focus(FocusMonEx(wm, m), wm.sel[m], FALSE)
  BY DEF FocusMon, FocusMonEx
<1>2. wm.sel[m] \in On(wm, m) \cup {None}
  BY DEF Good, Sound, Pointed
<1> QED
  BY <1>1, <1>2, MonitorTurn

\* focusstack: what it walks to is on the chain.
LEMMA FocusStackTurn ==
  ASSUME Good(wm), NEW full, Fits(wm, full), NEW pm \in Monitor, NEW next \in BOOLEAN,
         FocusStack(pm, next)
  PROVE  Turn(wm, wm', full)
<1> DEFINE s == CheckMouseOverMonitor(wm, pm)
           m == s.selmon
           q == s.clients[m]
           S == Usable(s, m)
           from == IF s.sel[m] # None THEN s.sel[m] ELSE FirstIn(s.stack[m], Client)
           near == IF next THEN FirstIn(After(q, from), S) ELSE LastIn(Before(q, from), S)
           c == IF near # None THEN near ELSE IF next THEN FirstIn(q, S) ELSE LastIn(q, S)
<1>1. /\ Good(s) /\ Fits(s, full) /\ m \in Monitor
      /\ \A d : Outcome(s, s, full, d)
      /\ \A x, d : d \in Client \cup {None} /\ Outcome(s, x, full, d) => Turn(wm, x, full)
  <2>1. None \in AtCoords(wm, pm, FALSE)
    BY DEF AtCoords
  <2> QED
    BY <2>1, PointerTurn
<1>2. wm' = IF from = None \/ c \in {None, from} THEN s ELSE Focus(s, c, FALSE)
  BY DEF FocusStack
<1> HIDE DEF s
<1>3. /\ q \in Seq(Client) /\ IsChain(q, On(s, m) \ {})
      /\ s.stack[m] \in Seq(Client) /\ IsChain(s.stack[m], On(s, m) \ {})
  BY <1>1, ChainsOf DEF Good
<1>4. from # None => from \in On(s, m) \ {}
  <2>1. s.sel[m] \in On(s, m) \cup {None}
    BY <1>1 DEF Good, Sound, Pointed
  <2> DEFINE x == FirstIn(s.stack[m], Client)
  <2>2. x # None => \E i \in 1..Len(s.stack[m]) : s.stack[m][i] = x
    BY <1>3, WalkType
  <2> HIDE DEF x
  <2>3. x # None => x \in On(s, m)
    BY <1>3, <2>2, ChainElements
  <2> QED
    BY <2>1, <2>3 DEF x
<1>5. S \subseteq On(s, m)
  BY DEF Usable, Shown
<1> HIDE DEF q, from, S
<1>6. ASSUME from # None PROVE c \in On(s, m) \cup {None}
  <2>1. near # None => near \in S
    BY <1>3, <1>4, <1>6, NextPrevious
  <2>2. /\ FirstIn(q, S) # None => FirstIn(q, S) \in S
        /\ LastIn(q, S) # None => LastIn(q, S) \in S
    BY <1>3, WalkType
  <2> HIDE DEF near
  <2> QED
    BY <1>5, <2>1, <2>2
<1> HIDE DEF c
<1>7. from # None => Outcome(s, Focus(s, c, FALSE), full, None)
  BY <1>1, <1>6, FocusOutcome
<1> QED
  BY <1>1, <1>2, <1>7
\* Other lists, or other floating clients, and nothing else.
SameScreen(r, s) ==
    /\ r.mon = s.mon /\ r.tags = s.tags /\ r.hidden = s.hidden /\ r.view = s.view
    /\ r.sel = s.sel /\ r.focusontag = s.focusontag
    /\ r.selmon = s.selmon /\ r.xfocus = s.xfocus

\* What fits does not depend on them.
LEMMA ScreenFits ==
  ASSUME NEW s, s \in WmState, NEW r, SameScreen(r, s), NEW full, Fits(s, full)
  PROVE  Fits(r, full) /\ (Kept(s) => Kept(r))
<1>1. \A n \in Monitor : /\ On(r, n) = On(s, n) /\ Shown(r, n) = Shown(s, n)
                          /\ Usable(r, n) = Usable(s, n)
  BY SameShown DEF SameScreen
<1>2. Rest(r, full) /\ \A n \in Monitor : SelFits(r, n, full)
  BY <1>1 DEF SameScreen, Fits, Rest, SelFits, Fit, Managed
<1>3. XShown(s) => XShown(r)
  BY DEF SameScreen, XShown, Shown, On, Visible, VisibleOnTag
<1>4. s.selmon \in Monitor
  BY DEF WmState
<1> QED
  BY <1>1, <1>2, <1>3, <1>4 DEF Fits, Kept, SameScreen

\* The list operations are such steps.
LEMMA RestScreen ==
  ASSUME NEW s, NEW r, SameRest(r, s), r.sel = s.sel, r.focusontag = s.focusontag
  PROVE  SameScreen(r, s)
BY DEF SameRest, SameClients, SameScreen

\* zoom: detach, attach, focus.
LEMMA ZoomTurn ==
  ASSUME Good(wm), NEW full, Fits(wm, full), NEW pm \in Monitor, NEW at \in AtCoords(wm, pm, FALSE),
         Zoom(pm, at)
  PROVE  Turn(wm, wm', full)
<1> DEFINE s == CheckMouseOverClient(wm, pm, at)
           m == s.selmon
           c == s.sel[m]
           q == s.clients[m]
           S == Tiled(s, m)
           t == IF c = FirstIn(q, S) THEN FirstIn(After(q, c), S) ELSE c
           a == Detach(s, t)
           r == Attach(a, t)
<1>1. /\ Good(s) /\ Fits(s, full) /\ s \in WmState /\ m \in Monitor
      /\ c # None => c \in On(s, m)
      /\ \A d : Outcome(s, s, full, d)
      /\ \A x, d : d \in Client \cup {None} /\ Outcome(s, x, full, d) => Turn(wm, x, full)
  <2>1. /\ Good(s) /\ Fits(s, full) /\ s \in WmState /\ s.selmon = pm
        /\ s.sel[pm] \in On(s, pm) \cup {None}
        /\ \A d : Outcome(s, s, full, d)
        /\ \A x, d : d \in Client \cup {None} /\ Outcome(s, x, full, d) => Turn(wm, x, full)
    BY PointerTurn
  <2> HIDE DEF s
  <2> QED
    BY <2>1
<1>2. wm' = IF c = None \/ c \in s.floating THEN s
            ELSE IF t = None THEN s ELSE Focus(r, t, TRUE)
  BY DEF Zoom
<1> HIDE DEF s
<1>3. q \in Seq(Client) /\ IsChain(q, On(s, m) \ {})
  BY <1>1, ChainsOf DEF Good
<1> HIDE DEF c, q, S
<1>4. ASSUME c # None, t # None PROVE t \in Client /\ Outcome(s, Focus(r, t, TRUE), full, t)
  <2>1. t \in On(s, m)
    <3> DEFINE x == FirstIn(After(q, c), S)
    <3>1. c \in On(s, m) \ {}
      BY <1>1, <1>4
    <3>2. x # None => x \in On(s, m)
      BY <1>3, <3>1, NextPrevious
    <3> HIDE DEF x
    <3>3. t \in {x, c}
      BY DEF x
    <3> HIDE DEF t
    <3> QED
      BY <1>4, <3>1, <3>2, <3>3
  <2> HIDE DEF t
  <2>2. t \in Client /\ s.mon[t] = m /\ s.mon[t] # None
    BY <1>1, <2>1, NoneAssumption DEF On
  <2>3. /\ Sound(a, {t}, {}, {}) /\ a.mon = s.mon /\ OrderKept(s, a, t)
        /\ SameRest(a, s) /\ a.sel = s.sel /\ a.focusontag = s.focusontag
    BY <1>1, <2>2, DetachSound, DetachOrder, ClientsEffect DEF Good
  <2> HIDE DEF a
  <2>4. /\ Good(r) /\ r.mon = s.mon /\ OrderKept(a, r, t)
        /\ SameRest(r, a) /\ r.sel = a.sel /\ r.focusontag = a.focusontag
    BY <2>2, <2>3, AttachSound, AttachOrder, ClientsEffect DEF Good, Sound
  <2> HIDE DEF r
  <2>5. SameScreen(r, s)
    BY <2>3, <2>4 DEF SameRest, SameClients, SameScreen
  <2>6. Fits(r, full)
    BY <1>1, <2>5, ScreenFits
  <2>7. t \in On(r, r.selmon) \cup {None}
    BY <2>1, <2>4, <2>5 DEF On, SameScreen
  <2>8. PICK f : f = Focus(r, t, TRUE)
    OBVIOUS
  <2>9. Outcome(r, f, full, t) /\ Kept(f)
    BY <2>4, <2>6, <2>7, <2>8, FocusOutcome
  <2>10. OrderKept(s, f, t)
    BY <2>3, <2>4, <2>9, OrderTwice DEF Outcome
  <2> QED
    BY <2>2, <2>4, <2>8, <2>9, <2>10 DEF Outcome, Managed
<1> QED
  BY <1>1, <1>2, <1>4

\* The place movetiled finds before the detach is not the client itself, so
\* it is still on the chain after it.
LEMMA MovePlace ==
  ASSUME NEW s, Good(s), NEW m \in Monitor, NEW c \in On(s, m), NEW down \in BOOLEAN
  PROVE  LET S == Tiled(s, m)
             q == s.clients[m]
             d == IF down THEN FirstIn(After(q, c), S) ELSE LastIn(Before(q, c), S)
             t == IF down THEN d ELSE LastIn(Before(q, d), S)
         IN  d # None /\ t # None => t \in On(s, m) /\ t # c
<1> DEFINE S == Tiled(s, m)
           q == s.clients[m]
           after == FirstIn(After(q, c), S)
           before == LastIn(Before(q, c), S)
           twice == LastIn(Before(q, before), S)
<1>1. q \in Seq(Client) /\ IsChain(q, On(s, m) \ {})
  BY ChainsOf DEF Good
<1>2. c \in On(s, m) \ {}
  OBVIOUS
<1> HIDE DEF q, S
<1>3. after # None => after \in On(s, m) /\ Position(q, after) > Position(q, c)
  BY <1>1, <1>2, NextPrevious
<1>4. before # None => before \in On(s, m) \ {} /\ Position(q, before) < Position(q, c)
  BY <1>1, <1>2, NextPrevious
<1> HIDE DEF before, after
<1>5. before # None /\ twice # None =>
        twice \in On(s, m) /\ Position(q, twice) < Position(q, before)
  BY <1>1, <1>4, NextPrevious
<1> HIDE DEF twice
<1>6. /\ Position(q, c) \in 1..Len(q) /\ Len(q) \in Nat
      /\ \A x \in On(s, m) : Position(q, x) \in 1..Len(q)
  BY <1>1, <1>2, PositionType, LenProperties
<1>7. after # None => after # c
  BY <1>3, <1>6
<1>8. before # None /\ twice # None => twice # c
  BY <1>4, <1>5, <1>6
<1>9. /\ down /\ after # None => after \in On(s, m) /\ after # c
      /\ ~down /\ before # None /\ twice # None => twice \in On(s, m) /\ twice # c
  BY <1>3, <1>5, <1>7, <1>8
<1>10. CASE down
  BY <1>9, <1>10 DEF after, before, twice, q, S
<1>11. CASE ~down
  BY <1>9, <1>11 DEF after, before, twice, q, S
<1> QED
  BY <1>10, <1>11

\* movetiled
LEMMA MoveTiledTurn ==
  ASSUME Good(wm), NEW full, Fits(wm, full), NEW pm \in Monitor, NEW at \in AtCoords(wm, pm, FALSE),
         NEW down \in BOOLEAN, MoveTiled(pm, at, down)
  PROVE  Turn(wm, wm', full)
<1> DEFINE s == CheckMouseOverClient(wm, pm, at)
           m == s.selmon
           c == s.sel[m]
           S == Tiled(s, m)
           q == s.clients[m]
           d == IF down THEN FirstIn(After(q, c), S) ELSE LastIn(Before(q, c), S)
           t == IF down THEN d ELSE LastIn(Before(q, d), S)
           r == Detach(s, c)
           put == [r EXCEPT !.clients[m] = PutAfter(r.clients[m], t, c)]
<1>1. /\ Good(s) /\ Fits(s, full) /\ s \in WmState /\ m \in Monitor
      /\ c # None => c \in On(s, m)
      /\ \A x : Outcome(s, s, full, x)
      /\ \A x, y : y \in Client \cup {None} /\ Outcome(s, x, full, y) => Turn(wm, x, full)
  <2>1. /\ Good(s) /\ Fits(s, full) /\ s \in WmState /\ s.selmon = pm
        /\ s.sel[pm] \in On(s, pm) \cup {None}
        /\ \A x : Outcome(s, s, full, x)
        /\ \A x, y : y \in Client \cup {None} /\ Outcome(s, x, full, y) => Turn(wm, x, full)
    BY PointerTurn
  <2> HIDE DEF s
  <2> QED
    BY <2>1
<1>2. wm' = IF c = None \/ c \in s.floating THEN s
            ELSE Focus(IF d = None THEN s ELSE IF t = None THEN Attach(r, c) ELSE put, c, TRUE)
  BY DEF MoveTiled
<1> HIDE DEF s
<1>3. ASSUME c # None
      PROVE  /\ c \in Client /\ s.mon[c] = m /\ s.mon[c] # None
             /\ Sound(r, {c}, {}, {}) /\ r.mon = s.mon /\ OrderKept(s, r, c)
             /\ SameScreen(r, s)
  <2>1. c \in Client /\ s.mon[c] = m /\ s.mon[c] # None
    BY <1>1, <1>3, NoneAssumption DEF On
  <2> HIDE DEF c
  <2>2. /\ Sound(r, {c}, {}, {}) /\ r.mon = s.mon /\ OrderKept(s, r, c)
        /\ SameRest(r, s) /\ r.sel = s.sel /\ r.focusontag = s.focusontag
    BY <1>1, <2>1, DetachSound, DetachOrder, ClientsEffect DEF Good
  <2> QED
    BY <2>1, <2>2, RestScreen
<1>4. c # None /\ d # None /\ t # None => t \in On(s, m) /\ t # c
  BY <1>1, MovePlace
<1>5. Kept(s) \/ c = None
  BY DEF Kept
<1> HIDE DEF c, d, t, r
<1>8. ASSUME NEW u, Outcome(s, u, full, c), u.mon = s.mon, u.selmon = m, c # None
      PROVE  Outcome(s, Focus(u, c, TRUE), full, c)
  <2>1. c \in On(u, u.selmon) \cup {None}
    BY <1>1, <1>8 DEF On
  <2>2. PICK f : f = Focus(u, c, TRUE)
    OBVIOUS
  <2>3. Outcome(u, f, full, c) /\ Kept(f)
    BY <1>8, <2>1, <2>2, FocusOutcome DEF Outcome
  <2>4. OrderKept(s, f, c)
    BY <1>8, <2>3, OrderTwice DEF Outcome
  <2> QED
    BY <1>8, <2>2, <2>3, <2>4 DEF Outcome
<1>6. ASSUME c # None
      PROVE  LET u == Attach(r, c) IN Outcome(s, u, full, c) /\ u.mon = s.mon /\ u.selmon = m
  <2> DEFINE u == Attach(r, c)
  <2>1. /\ Good(u) /\ u.mon = s.mon /\ OrderKept(r, u, c)
        /\ SameRest(u, r) /\ u.sel = r.sel /\ u.focusontag = r.focusontag
    BY <1>3, <1>6, AttachSound, AttachOrder, ClientsEffect DEF Good, Sound
  <2> HIDE DEF u
  <2>2. SameScreen(u, s) /\ OrderKept(s, u, c)
    BY <1>3, <1>6, <2>1, OrderTwice DEF SameRest, SameClients, SameScreen
  <2>3. Fits(u, full) /\ Kept(u)
    BY <1>1, <1>5, <1>6, <2>2, ScreenFits
  <2> QED
    BY <2>1, <2>2, <2>3 DEF u, Outcome, Managed, SameScreen
<1>7. ASSUME c # None, t \in On(s, m), t # c
      PROVE  Outcome(s, put, full, c) /\ put.mon = s.mon /\ put.selmon = m
  <2>1. On(r, m) = On(s, m) /\ r.mon[c] = m /\ r \in WmState
    BY <1>3, <1>7 DEF On, Sound
  <2>2. Sound([r EXCEPT !.clients[r.mon[c]] = PutAfter(r.clients[r.mon[c]], t, c)], {}, {}, {})
    BY <1>3, <1>7, <2>1, PutAfterSound
  <2>3. OrderKept(r, [r EXCEPT !.clients[r.mon[c]] = PutAfter(r.clients[r.mon[c]], t, c)], c)
    BY <1>3, <1>7, <2>1, AttachOrder
  <2>4. put = [r EXCEPT !.clients[r.mon[c]] = PutAfter(r.clients[r.mon[c]], t, c)]
    BY <2>1
  <2>5. SameScreen(put, r)
    BY <2>1 DEF WmState, SameScreen
  <2> HIDE DEF put
  <2>6. Good(put) /\ OrderKept(r, put, c)
    BY <2>2, <2>3, <2>4 DEF Good
  <2>7. SameScreen(put, s) /\ OrderKept(s, put, c)
    BY <1>3, <1>7, <2>5, <2>6, OrderTwice DEF SameScreen
  <2>8. Fits(put, full) /\ Kept(put)
    BY <1>1, <1>5, <1>7, <2>7, ScreenFits
  <2> QED
    BY <2>6, <2>7, <2>8 DEF Outcome, Managed, SameScreen
<1>9. CASE c = None \/ c \in s.floating
  BY <1>1, <1>2, <1>9
<1>10. CASE ~(c = None \/ c \in s.floating)
  <2>1. PICK u : u = IF d = None THEN s ELSE IF t = None THEN Attach(r, c) ELSE put
    OBVIOUS
  <2>2. Outcome(s, u, full, c) /\ u.mon = s.mon /\ u.selmon = m
    BY <1>1, <1>4, <1>6, <1>7, <1>10, <2>1
  <2>3. Outcome(s, Focus(u, c, TRUE), full, c)
    BY <1>8, <1>10, <2>2
  <2>4. wm' = Focus(u, c, TRUE) /\ c \in Client
    BY <1>2, <1>3, <1>10, <2>1
  <2> QED
    BY <1>1, <2>3, <2>4
<1> QED
  BY <1>9, <1>10

\* togglefloating
LEMMA ToggleFloatingTurn ==
  ASSUME Good(wm), NEW full, Fits(wm, full), NEW pm \in Monitor, NEW at \in AtCoords(wm, pm, FALSE),
         ToggleFloating(pm, at)
  PROVE  Turn(wm, wm', full)
<1> DEFINE s == CheckMouseOverClient(wm, pm, at)
           c == s.sel[s.selmon]
           floating == IF c \in s.floating THEN s.floating \ {c} ELSE s.floating \cup {c}
           r == [s EXCEPT !.floating = floating]
<1>1. /\ Good(s) /\ Fits(s, full) /\ s \in WmState /\ s.selmon = pm
      /\ c # None => c \in Client
      /\ \A d : Outcome(s, s, full, d)
      /\ \A x, d : d \in Client \cup {None} /\ Outcome(s, x, full, d) => Turn(wm, x, full)
  BY PointerTurn
<1>2. wm' = IF c = None THEN s ELSE r
  BY DEF ToggleFloating
<1>3. Kept(s) \/ c = None
  BY DEF Kept
<1> HIDE DEF s, c
<1>4. ASSUME c # None PROVE Outcome(s, r, full, None)
  <2>1. r \in WmState /\ SameScreen(r, s) /\ r.clients = s.clients /\ r.stack = s.stack
    BY <1>1, <1>4 DEF WmState, SameScreen
  <2> HIDE DEF r
  <2>2. Good(r)
    BY <1>1, <2>1, FlagsPut DEF Good, SameScreen
  <2>3. Fits(r, full) /\ Kept(r)
    BY <1>1, <1>3, <1>4, <2>1, ScreenFits
  <2> QED
    BY <2>1, <2>2, <2>3, SameOutcome DEF SameScreen
<1> QED
  BY <1>1, <1>2, <1>4
\* A focus on the selected monitor makes its selection fit, whatever it was.
LEMMA FocusRepairs ==
  ASSUME NEW s, Good(s), NEW full, Rest(s, full),
         \A n \in Monitor : n # s.selmon => SelFits(s, n, full),
         NEW c \in On(s, s.selmon) \cup {None}, NEW force
  PROVE  LET r == Focus(s, c, force)
         IN  /\ Good(r) /\ Fits(r, full) /\ r.mon = s.mon /\ r.clients = s.clients
             /\ r.selmon = s.selmon /\ Kept(r)
<1> DEFINE r == Focus(s, c, force)
           m == Aim(s, c)
<1>1. c \in Managed(s) \cup {None} /\ m = s.selmon
  BY NoneAssumption DEF Good, Sound, WmState, On, Managed, Aim
<1>2. /\ Good(r) /\ Rest(r, full) /\ SameClients(r, s) /\ r.clients = s.clients
      /\ \A n \in Monitor : SelFits(s, n, full) => SelFits(r, n, full)
      /\ SelFits(r, r.selmon, full)
      /\ NeverFocus = {} => XShown(r)
      /\ m = s.selmon => r.selmon = m /\ Kept(r)
  BY <1>1, FocusFits
<1> HIDE DEF r, m
<1>3. \A n \in Monitor : SelFits(r, n, full)
  BY <1>1, <1>2
<1> QED
  BY <1>1, <1>2, <1>3 DEF Fits, SameClients, r

\* sethidden changes nothing but what is said here.
LEMMA SetHiddenEffect ==
  ASSUME NEW s, s \in WmState, NEW c \in Client, s.mon[c] \in Monitor
  PROVE  LET r == SetHidden(s, c, TRUE)
         IN  /\ r.mon = s.mon /\ r.clients = s.clients /\ r.sel = s.sel /\ r.selmon = s.selmon
             /\ r.tags = s.tags /\ r.view = s.view /\ r.hidden = s.hidden \cup {c}
             /\ r = s \/ r.xfocus = IF s.xfocus = c THEN None ELSE s.xfocus
<1> DEFINE m == s.mon[c]
           kept == [t \in Tag |-> IF s.focusontag[m][t] = c THEN None ELSE s.focusontag[m][t]]
           r == SetHidden(s, c, TRUE)
<1>1. r = IF c \in s.hidden THEN s
          ELSE [s EXCEPT !.focusontag[m] = kept, !.hidden = s.hidden \cup {c},
                         !.xfocus = IF s.xfocus = c THEN None ELSE s.xfocus]
  BY DEF SetHidden, ForgetOnTag, WmState
<1> HIDE DEF m, kept, r
<1>2. CASE c \in s.hidden
  BY <1>1, <1>2 DEF m, r
<1>3. CASE c \notin s.hidden
  BY <1>1, <1>3 DEF WmState, m, r
<1> QED
  BY <1>2, <1>3

\* hidewin: the selected client is hidden until the focus moves on.
LEMMA HideWinTurn ==
  ASSUME Good(wm), NEW full, Fits(wm, full), full => MayHide = {},
         NEW pm \in Monitor, NEW at \in AtCoords(wm, pm, FALSE), HideWin(pm, at)
  PROVE  Turn(wm, wm', full)
<1> DEFINE s == CheckMouseOverClient(wm, pm, at)
           m == s.selmon
           c == s.sel[m]
           r == SetHidden(s, c, TRUE)
           q == r.clients[m]
           S == Tiled(r, m)
           after == FirstIn(After(q, c), S)
           before == LastIn(Before(q, c), S)
           h == IF c \in s.floating THEN None ELSE IF after # None THEN after ELSE before
<1>1. /\ Good(s) /\ Fits(s, full) /\ s \in WmState /\ m \in Monitor
      /\ c # None => c \in On(s, m)
      /\ \A x : Outcome(s, s, full, x)
      /\ \A x, y : y \in Client \cup {None} /\ Outcome(s, x, full, y) => Turn(wm, x, full)
  <2>1. /\ Good(s) /\ Fits(s, full) /\ s \in WmState /\ s.selmon = pm
        /\ s.sel[pm] \in On(s, pm) \cup {None}
        /\ \A x : Outcome(s, s, full, x)
        /\ \A x, y : y \in Client \cup {None} /\ Outcome(s, x, full, y) => Turn(wm, x, full)
    BY PointerTurn
  <2> HIDE DEF s
  <2> QED
    BY <2>1
<1>2. /\ wm' = IF c = None \/ c \in s.hidden THEN s ELSE Focus(r, h, FALSE)
      /\ c \in MayHide \cup {None}
  BY DEF HideWin
<1> HIDE DEF s
<1>3. ASSUME c # None
      PROVE  /\ c \in Client /\ s.mon[c] = m /\ c \in Managed(s)
             /\ Good(r) /\ r.mon = s.mon /\ r.clients = s.clients /\ r.sel = s.sel /\ r.selmon = m
  <2>1. c \in Client /\ s.mon[c] = m /\ c \in Managed(s)
    BY <1>1, <1>3, NoneAssumption DEF On, Managed
  <2> HIDE DEF c
  <2>2. Good(r)
    BY <1>1, <2>1, SetHiddenSound
  <2>3. /\ r.mon = s.mon /\ r.clients = s.clients /\ r.sel = s.sel /\ r.selmon = s.selmon
    BY <1>1, <2>1, SetHiddenEffect
  <2> QED
    BY <2>1, <2>2, <2>3
<1> HIDE DEF c, r
<1>4. ASSUME c # None PROVE h \in On(r, m) \cup {None}
  <2>1. q \in Seq(Client) /\ IsChain(q, On(r, m) \ {})
    BY <1>1, <1>3, <1>4, ChainsOf DEF Good
  <2>2. c \in On(r, m) \ {}
    BY <1>1, <1>3, <1>4 DEF On
  <2>3. S \subseteq On(r, m)
    BY DEF Tiled, Shown
  <2> HIDE DEF q, S
  <2>4. (after # None => after \in S) /\ (before # None => before \in S)
    BY <2>1, <2>2, NextPrevious
  <2> HIDE DEF after, before
  <2> QED
    BY <2>3, <2>4
<1> HIDE DEF h
<1>5. ASSUME c # None, ~full PROVE Outcome(s, Focus(r, h, FALSE), full, None)
  <2>4. Rest(r, full) /\ \A n \in Monitor : SelFits(r, n, full)
    BY <1>3, <1>5, AnyFits
  <2>5. PICK f : f = Focus(r, h, FALSE)
    OBVIOUS
  <2>6. /\ Good(f) /\ Fits(f, full) /\ f.mon = r.mon /\ f.clients = r.clients /\ Kept(f)
    <3>1. /\ Good(r) /\ Rest(r, full) /\ h \in On(r, r.selmon) \cup {None}
          /\ \A n \in Monitor : n # r.selmon => SelFits(r, n, full)
      BY <1>3, <1>4, <1>5, <2>4
    <3> QED
      BY ONLY <2>5, <3>1, FocusRepairs
  <2> QED
    BY <1>3, <1>5, <2>5, <2>6, SameOutcome
<1> QED
  BY <1>1, <1>2, <1>5

\* hidewin with an argument.
LEMMA HideOthersTurn ==
  ASSUME Good(wm), NEW full, Fits(wm, full), full => MayHide = {},
         NEW pm \in Monitor, NEW at \in AtCoords(wm, pm, FALSE), HideOthers(pm, at)
  PROVE  Turn(wm, wm', full)
<1> DEFINE s == CheckMouseOverClient(wm, pm, at)
           m == s.selmon
           H == Shown(s, m) \ {s.sel[m]}
           kept == [t \in Tag |-> IF s.focusontag[m][t] \in H THEN None ELSE s.focusontag[m][t]]
           x == IF s.xfocus \in H THEN None ELSE s.xfocus
           f == [s EXCEPT !.focusontag[m] = kept]
           r == [s EXCEPT !.hidden = s.hidden \cup H, !.focusontag[m] = kept, !.xfocus = x]
<1>1. /\ Good(s) /\ Fits(s, full) /\ s \in WmState /\ m \in Monitor
      /\ \A y, d : d \in Client \cup {None} /\ Outcome(s, y, full, d) => Turn(wm, y, full)
  BY PointerTurn
<1>2. wm' = Focus(r, None, FALSE) /\ ~full
  BY DEF HideOthers
<1> HIDE DEF s
<1>3. H \subseteq Client /\ H \in SUBSET On(s, m) /\ None \notin H
  BY NoneAssumption DEF Shown, On
<1>4. /\ kept \in [Tag -> Client \cup {None}]
      /\ \A t \in Tag : kept[t] \in (On(s, m) \ {}) \cup {None}
      /\ \A t \in Tag : kept[t] \in {s.focusontag[m][t], None} /\ kept[t] \notin H
  <2>1. \A t \in Tag : /\ s.focusontag[m][t] \in Client \cup {None}
                       /\ s.focusontag[m][t] \in On(s, m) \cup {None}
    BY <1>1 DEF Good, Sound, WmState, Pointed
  <2> HIDE DEF H, m
  <2> QED
    BY <1>3, <2>1
<1> HIDE DEF H, kept
<1>5. Good(f)
  BY <1>1, <1>4, FocusOnTagPut DEF Good
<1>6. /\ r \in WmState
      /\ r.clients = f.clients /\ r.stack = f.stack /\ r.mon = f.mon
      /\ r.sel = f.sel /\ r.focusontag = f.focusontag /\ r.view = f.view
      /\ r.xfocus \in {f.xfocus, None}
      /\ r.mon = s.mon /\ r.sel = s.sel /\ r.selmon = s.selmon /\ r.clients = s.clients
      /\ r.hidden = s.hidden \cup H
      /\ \A n \in Monitor : r.focusontag[n] = IF n = m THEN kept ELSE s.focusontag[n]
  BY <1>1, <1>3, <1>4 DEF WmState
<1> HIDE DEF f, r
<1>7. Good(r)
  BY <1>5, <1>6, FlagsPut DEF Good
<1>9. Rest(r, full) /\ \A n \in Monitor : SelFits(r, n, full)
  BY <1>2, <1>7, AnyFits
<1>10. /\ Good(wm') /\ Fits(wm', full) /\ SameClients(wm', r) /\ wm'.clients = r.clients /\ Kept(wm')
  <2>1. PICK g : g = Focus(r, None, FALSE)
    OBVIOUS
  <2>2. /\ Good(g) /\ Fits(g, full) /\ SameClients(g, r) /\ g.clients = r.clients /\ Kept(g)
    BY <1>7, <1>9, <2>1, FocusNullFits
  <2> QED
    BY <1>2, <2>1, <2>2
<1>11. Outcome(s, wm', full, None)
  BY <1>6, <1>10, SameOutcome DEF SameClients
<1> QED
  BY <1>1, <1>11
\* unhidewin
LEMMA UnhideWinTurn ==
  ASSUME Good(wm), NEW full, Fits(wm, full), NEW pm \in Monitor, NEW under \in Client \cup {None},
         UnhideWin(pm, under)
  PROVE  Turn(wm, wm', full)
<1> DEFINE s == CheckMouseOverMonitor(wm, pm)
           m == s.selmon
           H == {c \in s.hidden : s.mon[c] = m /\ Visible(s, c)}
           t == [s EXCEPT !.hidden = s.hidden \ H]
           r == Focus(t, None, FALSE)
<1>1. /\ Good(s) /\ Fits(s, full) /\ s \in WmState /\ m \in Monitor
      /\ \A y, d : d \in Client \cup {None} /\ Outcome(s, y, full, d) => Turn(wm, y, full)
  <2>1. None \in AtCoords(wm, pm, FALSE)
    BY DEF AtCoords
  <2> QED
    BY <2>1, PointerTurn
<1>2. /\ under \in Usable(r, m) \cup {None}
      /\ wm' = IF under = r.sel[m] THEN r ELSE Focus(r, under, FALSE)
      /\ H # {}
  BY DEF UnhideWin
<1>3. ~full
  BY <1>1, <1>2 DEF Fits, Rest
<1> HIDE DEF s, H
<1>4. /\ t \in WmState
      /\ t.clients = s.clients /\ t.stack = s.stack /\ t.mon = s.mon
      /\ t.sel = s.sel /\ t.focusontag = s.focusontag /\ t.view = s.view
      /\ t.xfocus = s.xfocus /\ t.selmon = s.selmon /\ t.hidden = s.hidden \ H
  BY <1>1 DEF WmState
<1> HIDE DEF t
<1>5. Good(t)
  BY <1>1, <1>4, FlagsPut DEF Good
<1>6. Rest(t, full) /\ \A n \in Monitor : SelFits(t, n, full)
  BY <1>3, <1>5, AnyFits
<1>7. /\ Good(r) /\ Fits(r, full) /\ SameClients(r, t) /\ r.clients = t.clients
      /\ r.selmon = t.selmon /\ Kept(r)
  BY <1>5, <1>6, FocusNullFits
<1> HIDE DEF r, m
<1>8. under \in On(r, r.selmon) \cup {None}
  BY <1>2, <1>4, <1>7 DEF Usable, Shown, m
<1>9. PICK f : f = Focus(r, under, FALSE)
  OBVIOUS
<1>10. Outcome(r, f, full, None) /\ Kept(f)
  BY <1>7, <1>8, <1>9, FocusOutcome
<1>11. r.mon = s.mon /\ r.clients = s.clients
  BY <1>4, <1>7 DEF SameClients
<1>12. Outcome(s, r, full, None)
  BY <1>7, <1>11, SameOutcome
<1>13. Outcome(s, f, full, None)
  BY <1>10, <1>11 DEF Outcome, OrderKept, Managed
<1> QED
  BY <1>1, <1>2, <1>9, <1>12, <1>13

\* enternotify for a client: a neverfocus one gives the focus back.
LEMMA EnterClientTurn ==
  ASSUME Good(wm), NEW full, Fits(wm, full), NEW c \in Client, EnterClient(c)
  PROVE  Turn(wm, wm', full)
<1> DEFINE sel == wm.sel[wm.selmon]
<1>1. /\ wm.mon[c] \in Monitor /\ c \in On(wm, wm.mon[c])
      /\ sel \in On(wm, wm.selmon) \cup {None}
  BY DEF EnterClient, Good, Sound, WmState, Pointed, On
<1>2. \/ wm' = Focus(wm, sel, TRUE)
      \/ wm' = Focus(FocusMonEx(wm, wm.mon[c]), c, FALSE)
  BY DEF EnterClient
<1> HIDE DEF sel
<1>3. CASE wm' = Focus(wm, sel, TRUE)
  <2>1. Outcome(wm, wm', full, None) /\ Kept(wm')
    BY <1>1, <1>3, FocusOutcome
  <2> QED
    BY <2>1 DEF Outcome, Turn, Keep, Kept
<1>4. CASE wm' = Focus(FocusMonEx(wm, wm.mon[c]), c, FALSE)
  BY <1>1, <1>4, MonitorTurn
<1> QED
  BY <1>2, <1>3, <1>4

\* enternotify for a bar.
LEMMA EnterBarTurn ==
  ASSUME Good(wm), NEW full, Fits(wm, full), NEW m \in Monitor, EnterBar(m)
  PROVE  Turn(wm, wm', full)
BY MonitorTurn DEF EnterBar

\* clientmessage: the view changes until the client is in it; a client that is
\* hidden stays out of it, and then the monitor's selection need not fit.
LEMMA ActiveWindowMessageTurn ==
  ASSUME Good(wm), NEW full, Fits(wm, full), NEW c \in Client, ActiveWindowMessage(c)
  PROVE  Turn(wm, wm', full)
<1> DEFINE m == wm.mon[c]
           mask == wm.tags[c]
           s == ViewMonTag(wm, m, mask, TRUE)
           r == Focus(s, c, TRUE)
<1>1. m \in Monitor /\ c \in On(wm, m) /\ mask \in Mask /\ c \in Managed(wm)
  BY DEF ActiveWindowMessage, Good, Sound, WmState, On, Managed
<1>2. wm' = IF Visible(wm, c) THEN Focus(FocusMonEx(wm, m), c, TRUE) ELSE r
  BY DEF ActiveWindowMessage, FocusMonEx
<1>3. wm.mon[c] = m /\ wm.tags[c] = mask
  OBVIOUS
<1> HIDE DEF m, mask, r
<1>4. CASE wm' = Focus(FocusMonEx(wm, m), c, TRUE)
  BY <1>1, <1>4, MonitorTurn
<1>5. CASE wm' = r
  <2>1. /\ Good(s) /\ Rest(s, full)
        /\ SameClients(s, wm) /\ s.clients = wm.clients
        /\ Viewing(s, m, mask)
        /\ \A n \in Monitor : n # m \/ ~full => SelFits(s, n, full)
    <3>1. PICK switchmon : switchmon = TRUE
      OBVIOUS
    <3>2. Good(wm) /\ Fits(wm, full) /\ m \in Monitor /\ mask \in Mask
      BY <1>1
    <3>3. LET q == ViewMonTag(wm, m, mask, switchmon)
          IN  /\ Good(q) /\ Rest(q, full)
              /\ SameLayout(q, wm)
              /\ Viewing(q, m, mask)
              /\ \A n \in Monitor : n # m \/ ~full => SelFits(q, n, full)
      BY ONLY <3>2, ViewMonTagFits
    <3> QED
      BY <3>1, <3>3 DEF SameLayout
  <2> HIDE DEF s
  <2>2. c \in Managed(s) \cup {None} /\ Aim(s, c) = m
    BY <1>1, <1>3, <2>1, NoneAssumption DEF Managed, SameClients, Aim
  <2>3. full => c \in Shown(s, m)
    <3>1. full => mask # {} /\ s.hidden = {}
      BY <1>1, <1>3, <2>1 DEF Fits, Rest
    <3> QED
      BY <1>1, <1>3, <2>1, <3>1, NoneAssumption DEF SameClients, Shown, On, Visible, VisibleOnTag, Viewing
  <2>4. /\ Good(r) /\ Rest(r, full)
        /\ SameClients(r, s) /\ r.clients = s.clients
        /\ \A n \in Monitor : SelFits(s, n, full) => SelFits(r, n, full)
        /\ SelFits(r, r.selmon, full)
        /\ NeverFocus = {} => XShown(r)
        /\ c \in Shown(s, Aim(s, c)) /\ (c \in NeverFocus => TRUE) =>
              r.selmon = Aim(s, c) /\ r.sel[Aim(s, c)] = c /\ Kept(r)
    BY <2>1, <2>2, FocusFits DEF r
  <2>5. full => r.selmon = m /\ Kept(r)
    BY <2>2, <2>3, <2>4
  <2>6. \A n \in Monitor : SelFits(r, n, full)
    BY <2>1, <2>4, <2>5
  <2>7. Fits(r, full) /\ Managed(r) = Managed(wm) /\ r.clients = wm.clients
    BY <2>1, <2>4, <2>6 DEF Fits, Managed, SameClients
  <2>8. full => Keep(wm, r)
    BY <2>5 DEF Keep, Kept
  <2>9. OrderKept(wm, r, None)
    BY <2>7, OrderSame
  <2> QED
    BY <1>5, <2>4, <2>7, <2>8, <2>9 DEF Turn
<1> QED
  BY <1>2, <1>4, <1>5

\* sethidden for the client itself: no selection moves, and the X focus is not
\* left on a window that was unmapped.
LEMMA SetHiddenTurn ==
  ASSUME Good(wm), NEW full, Fits(wm, full), NEW c \in MayHide, full => MayHide = {},
         wm.mon[c] # None, NEW on \in BOOLEAN
  PROVE  LET r == SetHidden(wm, c, on)
         IN  Good(r) /\ Fits(r, full) /\ r.mon = wm.mon /\ r.clients = wm.clients
<1> DEFINE r == SetHidden(wm, c, on)
<1>1. c \in Client /\ c \in Managed(wm) /\ wm \in WmState /\ wm.mon[c] \in Monitor /\ ~full
  BY BoundAssumption DEF Managed, Good, Sound, WmState
<1>2. Good(r) /\ r.mon = wm.mon
  BY <1>1, SetHiddenSound
<1>3. Rest(r, full) /\ \A n \in Monitor : SelFits(r, n, full)
  BY <1>1, <1>2, AnyFits
<1>4. r.clients = wm.clients /\ (XShown(wm) => XShown(r))
  <2>1. CASE on = TRUE
    <3>1. /\ r.mon = wm.mon /\ r.clients = wm.clients
          /\ r.tags = wm.tags /\ r.view = wm.view /\ r.hidden = wm.hidden \cup {c}
          /\ r = wm \/ r.xfocus = IF wm.xfocus = c THEN None ELSE wm.xfocus
      BY <1>1, <2>1, SetHiddenEffect
    <3> HIDE DEF r
    <3>2. CASE r = wm
      BY <3>2
    <3>3. CASE r.xfocus = None
      BY <3>1, <3>3 DEF XShown
    <3>4. CASE wm.xfocus # c /\ r.xfocus = wm.xfocus
      BY <3>1, <3>4 DEF XShown, Shown, On, Visible, VisibleOnTag
    <3> QED
      BY <3>1, <3>2, <3>3, <3>4
  <2>2. CASE on = FALSE
    <3>1. r = [wm EXCEPT !.hidden = wm.hidden \ {c}]
      BY <2>2 DEF SetHidden
    <3>2. /\ r.mon = wm.mon /\ r.tags = wm.tags /\ r.view = wm.view /\ r.xfocus = wm.xfocus
          /\ r.hidden = wm.hidden \ {c} /\ r.clients = wm.clients
      BY <1>1, <3>1 DEF WmState
    <3> HIDE DEF r
    <3> QED
      BY <3>2 DEF XShown, Shown, On, Visible, VisibleOnTag
  <2> QED
    BY <2>1, <2>2
<1> HIDE DEF r
<1>5. Fits(r, full)
  BY <1>3, <1>4 DEF Fits
<1> QED
  BY <1>2, <1>4, <1>5 DEF r

\* clientmessage for _NET_WM_STATE_HIDDEN
LEMMA HiddenMessageTurn ==
  ASSUME Good(wm), NEW full, Fits(wm, full), full => MayHide = {}, NEW c \in Client,
         NEW on \in BOOLEAN, HiddenMessage(c, on)
  PROVE  Turn(wm, wm', full)
<1>1. c \in MayHide /\ wm.mon[c] # None /\ wm' = SetHidden(wm, c, on) /\ ~full
  BY DEF HiddenMessage
<1>2. Good(wm') /\ Fits(wm', full) /\ wm'.mon = wm.mon /\ wm'.clients = wm.clients
  BY <1>1, SetHiddenTurn
<1> QED
  BY <1>1, <1>2, OrderSame DEF Turn, Managed

\* propertynotify for _NET_WM_STATE: the focus may move on after it.
LEMMA HiddenPropertyTurn ==
  ASSUME Good(wm), NEW full, Fits(wm, full), full => MayHide = {}, NEW c \in Client,
         HiddenProperty(c)
  PROVE  Turn(wm, wm', full)
<1> DEFINE r == SetHidden(wm, c, TRUE)
<1>1. /\ c \in MayHide /\ wm.mon[c] # None /\ ~full
      /\ wm' \in {r, Focus(r, None, FALSE)}
  BY DEF HiddenProperty
<1>2. Good(r) /\ Fits(r, full) /\ r.mon = wm.mon /\ r.clients = wm.clients
  <2>1. PICK on \in BOOLEAN : on = TRUE
    OBVIOUS
  <2>2. LET q == SetHidden(wm, c, on)
        IN  Good(q) /\ Fits(q, full) /\ q.mon = wm.mon /\ q.clients = wm.clients
    BY <1>1, SetHiddenTurn
  <2> QED
    BY <2>1, <2>2
<1> HIDE DEF r
<1>3. None \in Managed(r) \cup {None}
  OBVIOUS
<1>4. PICK f : f = Focus(r, None, FALSE)
  OBVIOUS
<1>5. Good(f) /\ Fits(f, full) /\ SameClients(f, r) /\ f.clients = r.clients
  BY <1>2, <1>3, <1>4, FocusStays
<1>6. Good(wm') /\ Fits(wm', full) /\ wm'.mon = wm.mon /\ wm'.clients = wm.clients
  BY <1>1, <1>2, <1>4, <1>5 DEF SameClients
<1> QED
  BY <1>1, <1>6, OrderSame DEF Turn, Managed

\* After unmanage cleared its record nothing reaches the client.
LEMMA FreedSound ==
  ASSUME NEW s, Good(s), NEW c \in Managed(s)
  PROVE  Good(Freed(s, c))
<1> DEFINE shown == SetHidden(s, c, FALSE)
           off == DetachStack(Detach(shown, c), c)
           x == IF off.xfocus = c THEN None ELSE off.xfocus
           r == [off EXCEPT !.mon[c] = None, !.tags[c] = {},
                            !.floating = off.floating \ {c}, !.xfocus = x]
<1>1. Freed(s, c) = r
  BY DEF Freed
<1>2. Good(shown) /\ shown.mon = s.mon
  BY SetHiddenSound
<1> HIDE DEF shown
<1>3. c \in Client /\ shown.mon[c] # None
  BY <1>2 DEF Managed
<1>4. Sound(off, {c}, {c}, {c})
  <2>1. Sound(Detach(shown, c), {c}, {}, {}) /\ Detach(shown, c).mon = shown.mon
    BY <1>2, <1>3, DetachSound DEF Good
  <2> DEFINE d == Detach(shown, c)
  <2> HIDE DEF d
  <2> QED
    BY <1>3, <2>1, DetachStackSound DEF d
<1> HIDE DEF off
<1>5. off \in WmState /\ off.xfocus \in Managed(off) \cup {None} /\ x \in Client \cup {None}
  BY <1>4 DEF Sound, WmState
<1>6. /\ r \in WmState
      /\ r.clients = off.clients /\ r.stack = off.stack
      /\ r.sel = off.sel /\ r.focusontag = off.focusontag /\ r.view = off.view
      /\ \A d \in Client : r.mon[d] = IF d = c THEN None ELSE off.mon[d]
      /\ r.xfocus = x
  <2> HIDE DEF x
  <2>1. {} \in Mask /\ off.floating \ {c} \in SUBSET Client
    BY <1>5 DEF Mask, WmState
  <2> QED
    BY <1>3, <1>5, <2>1 DEF WmState
<1> HIDE DEF r
<1>7. r.xfocus \in Managed(r) \cup {None}
  BY <1>5, <1>6 DEF Managed
<1> QED
  BY <1>1, <1>3, <1>4, <1>6, <1>7, MonPut

\* The X focus is on the screen as before where its window is not the one that
\* moved, and where other records differ in nothing that shows.
LEMMA XStaysShown ==
  ASSUME NEW s, s \in WmState, NEW r, NEW c, SameBut(r, s, c), r.xfocus = s.xfocus, s.xfocus # c, XShown(s)
  PROVE  XShown(r)
<1> DEFINE x == s.xfocus
<1>1. x \in Client \cup {None} /\ (x # None => x \in Shown(s, s.mon[x]))
  BY DEF WmState, XShown
<1>2. x \in Client => /\ r.mon[x] = s.mon[x] /\ r.tags[x] = s.tags[x] /\ r.view = s.view
                      /\ (x \in r.hidden => x \in s.hidden)
  BY DEF SameBut
<1>3. r.xfocus = x
  OBVIOUS
<1> HIDE DEF x
<1>4. x # None => x \in Shown(r, r.mon[x])
  BY <1>1, <1>2 DEF Shown, On, Visible, VisibleOnTag
<1> QED
  BY <1>3, <1>4 DEF XShown

\* manage takes the focus to the new client, or a neverfocus one leaves it.
LEMMA ManageFocusFits ==
  ASSUME NEW s, Good(s), NEW full, Rest(s, full), \A n \in Monitor : SelFits(s, n, full),
         NEW c \in Shown(s, s.selmon)
  PROVE  LET r == ManageFocus(s, c)
         IN  /\ Good(r) /\ Fits(r, full) /\ r.mon = s.mon /\ r.clients = s.clients /\ Kept(r)
             /\ c \notin NeverFocus => c = r.sel[r.selmon] /\ c \in Shown(r, r.selmon)
<1> DEFINE sel == s.sel[s.selmon]
           over == c \in s.floating /\ sel # None /\ sel \in s.floating
           put == [s EXCEPT !.sel[s.mon[c]] = c]
           placed == IF over /\ s.mon[c] # s.selmon THEN put ELSE s
           m == s.selmon
<1>1. PICK force : force = ~over
  OBVIOUS
<1>2. ManageFocus(s, c) = IF c \in NeverFocus THEN Focus(s, None, FALSE) ELSE Focus(placed, c, force)
  BY <1>1 DEF ManageFocus
<1>3. /\ m \in Monitor /\ c \in Client /\ s.mon[c] = m
      /\ c \in On(s, m) \cup {None} /\ c \in Managed(s) \cup {None}
  BY NoneAssumption DEF Good, Sound, WmState, Shown, On, Managed
<1>4. placed = s
  BY <1>3
<1> HIDE DEF placed
<1>5. CASE c \in NeverFocus
  <2>1. PICK r : r = Focus(s, None, FALSE)
    OBVIOUS
  <2>2. /\ Good(r) /\ Fits(r, full) /\ SameClients(r, s) /\ r.clients = s.clients /\ Kept(r)
    BY <2>1, FocusNullFits
  <2> QED
    BY <1>2, <1>5, <2>1, <2>2 DEF SameClients
<1>6. CASE c \notin NeverFocus
  <2>1. PICK r : r = Focus(s, c, force)
    OBVIOUS
  <2>2. Good(r) /\ Fits(r, full) /\ r.mon = s.mon /\ r.clients = s.clients /\ r.selmon = m /\ Kept(r)
    BY <1>3, <2>1, FocusRepairs
  <2>3. Aim(s, c) = m
    BY <1>3, NoneAssumption DEF Aim
  <2>4. /\ SameClients(r, s) /\ r.view = s.view
        /\ c \in Shown(s, Aim(s, c)) /\ (c \in NeverFocus => force) => r.sel[Aim(s, c)] = c
    <3>1. Good(s) /\ c \in Managed(s) \cup {None} /\ Rest(s, full)
      BY <1>3
    <3> QED
      BY ONLY <2>1, <3>1, FocusFits
  <2>5. r.sel[m] = c /\ Shown(r, m) = Shown(s, m)
    BY <1>3, <1>6, <2>3, <2>4, SameShown DEF SameClients
  <2> QED
    BY <1>2, <1>4, <1>6, <2>1, <2>2, <2>5
<1> QED
  BY <1>5, <1>6

\* An urgent client is brought into view, on a monitor that is then selected.
LEMMA ManageUrgentFits ==
  ASSUME NEW s, Good(s), NEW full, Fits(s, full), NEW c \in Managed(s), c \notin s.hidden, s.tags[c] # {}
  PROVE  LET r == ManageUrgent(s, c)
         IN  /\ Good(r) /\ Rest(r, full) /\ \A n \in Monitor : SelFits(r, n, full)
             /\ r.mon = s.mon /\ r.clients = s.clients
             /\ c \in Shown(r, r.selmon)
<1> DEFINE m == s.mon[c]
           mask == s.tags[c]
<1>1. m \in Monitor /\ mask \in Mask /\ c \in Client /\ s.selmon \in Monitor
  BY DEF Managed, Good, Sound, WmState
<1>2. s.mon[c] = m /\ s.tags[c] = mask /\ mask # {}
  OBVIOUS
<1> HIDE DEF m, mask
<1>3. PICK v : v = ViewMonTag(s, m, mask, FALSE)
  OBVIOUS
<1>4. PICK u : u = IF Visible(s, c) THEN s ELSE v
  OBVIOUS
<1>5. ManageUrgent(s, c) = [u EXCEPT !.selmon = m]
  BY <1>2, <1>3, <1>4 DEF ManageUrgent
<1>6. Good(v) /\ Rest(v, full) /\ SameLayout(v, s) /\ Viewing(v, m, mask)
      /\ \A n \in Monitor : SelFits(v, n, full)
  <2>1. PICK switchmon : switchmon = FALSE
    OBVIOUS
  <2>2. Good(s) /\ Fits(s, full) /\ m \in Monitor /\ mask \in Mask
    BY <1>1
  <2>3. LET q == ViewMonTag(s, m, mask, switchmon)
        IN  /\ Good(q) /\ Rest(q, full) /\ SameLayout(q, s) /\ Viewing(q, m, mask)
            /\ \A n \in Monitor : ~switchmon => SelFits(q, n, full)
    BY ONLY <2>2, ViewMonTagFits
  <2> QED
    BY <1>3, <2>1, <2>3
<1>7. /\ Good(u) /\ Rest(u, full) /\ u.mon = s.mon /\ u.clients = s.clients /\ u.hidden = s.hidden
      /\ \A n \in Monitor : SelFits(u, n, full)
      /\ Visible(u, c)
  <2>1. Visible(v, c)
    BY <1>1, <1>2, <1>6, NoneAssumption DEF SameLayout, SameClients, Viewing, Visible, VisibleOnTag, Mask
  <2> QED
    BY <1>4, <1>6, <2>1 DEF SameLayout, SameClients, Fits
<1>8. PICK r : r = [u EXCEPT !.selmon = m]
  OBVIOUS
<1>9. /\ Good(r) /\ Rest(r, full) /\ SameClients(r, u) /\ r.clients = u.clients
      /\ r.view = u.view /\ r.selmon = m
      /\ \A n \in Monitor : SelFits(u, n, full) => SelFits(r, n, full)
  <2>1. /\ Good([u EXCEPT !.selmon = m]) /\ Rest([u EXCEPT !.selmon = m], full)
        /\ SameClients([u EXCEPT !.selmon = m], u)
        /\ [u EXCEPT !.selmon = m].clients = u.clients
        /\ [u EXCEPT !.selmon = m].view = u.view
        /\ [u EXCEPT !.selmon = m].selmon = m
        /\ \A n \in Monitor : SelFits(u, n, full) => SelFits([u EXCEPT !.selmon = m], n, full)
    BY <1>1, <1>7, SelmonFits
  <2> QED
    BY <1>8, <2>1
<1>10. c \in Shown(r, m)
  BY <1>1, <1>2, <1>7, <1>9 DEF Shown, On, Visible, VisibleOnTag, SameClients
<1>11. /\ Good(r) /\ Rest(r, full) /\ (\A n \in Monitor : SelFits(r, n, full))
       /\ r.mon = s.mon /\ r.clients = s.clients
       /\ c \in Shown(r, r.selmon)
  BY <1>7, <1>9, <1>10 DEF SameClients
<1> QED
  BY <1>5, <1>8, <1>11
\* manage: the new client is put where it belongs, and focused where all see
\* it or not at all.
LEMMA ManageTurn ==
  ASSUME Good(wm), NEW full, Fits(wm, full),
         NEW c \in Client, NEW m \in Monitor, NEW mask \in ViewMasks,
         NEW float \in BOOLEAN, NEW hide \in BOOLEAN, NEW autofocus \in BOOLEAN,
         NEW newmaster \in BOOLEAN, NEW urgent \in BOOLEAN, full => ~hide,
         Manage(c, m, mask, float, hide, autofocus, newmaster, urgent)
  PROVE  /\ Good(wm') /\ Fits(wm', full) /\ Managed(wm') = Managed(wm) \cup {c}
         /\ Keep(wm, wm')
         /\ OrderKept(wm, wm', c)
         /\ \/ Undisturbed
            \/ c \notin NeverFocus => c = wm'.sel[wm'.selmon] /\ c \in Shown(wm', wm'.selmon)
<1> DEFINE tags == IF mask = {} THEN wm.view[m].cur ELSE mask
           floating == IF float THEN wm.floating \cup {c} ELSE wm.floating \ {c}
           hidden == IF hide THEN wm.hidden \cup {c} ELSE wm.hidden \ {c}
           new == [wm EXCEPT !.mon[c] = m, !.tags[c] = tags, !.floating = floating,
                             !.hidden = hidden]
           takefocus == TakeFocus(new, c, autofocus, newmaster, urgent)
           listed == ManageAttach(new, c, newmaster)
           seen == ManageUrgent(listed, c)
<1>1. /\ wm.mon[c] = None
      /\ wm' = IF ~takefocus THEN listed
               ELSE IF urgent THEN ManageFocus(seen, c) ELSE ManageFocus(listed, c)
      /\ takefocus => c \notin new.hidden
      /\ takefocus /\ ~urgent => Visible(new, c) /\ new.mon[c] = new.selmon
  <2>1. new = NewClient(wm, c, m, mask, float, hide)
    BY DEF NewClient
  <2> HIDE DEF new
  <2> QED
    BY <2>1 DEF Manage, TakeFocus
<1>2. wm \in WmState /\ m # None /\ wm.xfocus \in Managed(wm) \cup {None} /\ wm.xfocus # c
  <2>1. wm \in WmState /\ wm.xfocus \in Managed(wm) \cup {None}
    BY DEF Good, Sound
  <2> QED
    BY <1>1, <2>1, NoneAssumption DEF Managed
<1>3. Sound(wm, {c}, {c}, {c}) /\ \A n \in Monitor : wm.sel[n] # c
  <2>1. \A n \in Monitor : On(wm, n) \ {c} = On(wm, n) \ {} /\ c \notin On(wm, n)
    BY <1>1, NoneAssumption DEF On
  <2> QED
    BY <2>1, NoneAssumption DEF Good, Sound, Listed, Pointed
<1>4. /\ tags \in Mask /\ tags # {} /\ floating \in SUBSET Client
      /\ hidden \in SUBSET Client /\ hidden \ {c} = wm.hidden \ {c}
      /\ full => hidden = {}
  <2>1. full => wm.hidden = {}
    BY DEF Fits, Rest
  <2> QED
    BY <1>2, <2>1, MaskAssumption DEF WmState, Mask, Good, Sound, Viewed
<1> HIDE DEF tags, floating, hidden, takefocus
<1>5. /\ new \in WmState
      /\ new.clients = wm.clients /\ new.stack = wm.stack
      /\ new.sel = wm.sel /\ new.focusontag = wm.focusontag /\ new.view = wm.view
      /\ \A d \in Client : new.mon[d] = IF d = c THEN m ELSE wm.mon[d]
      /\ \A d \in Client : new.tags[d] = IF d = c THEN tags ELSE wm.tags[d]
      /\ new.xfocus = wm.xfocus /\ new.selmon = wm.selmon /\ new.hidden = hidden
  BY <1>2, <1>4 DEF WmState
<1> HIDE DEF new
<1>6. Managed(new) = Managed(wm) \cup {c} /\ new.xfocus \in Managed(new) \cup {None}
  BY <1>2, <1>5 DEF Managed
<1>7. Sound(new, {c}, {c}, {c}) /\ new.mon[c] # None /\ new.mon[c] = m
  BY <1>2, <1>3, <1>5, <1>6, MonPut
<1>8. SameBut(new, wm, c)
  BY <1>4, <1>5 DEF SameBut
<1>9. Rest(new, full) /\ \A n \in Monitor : SelFits(new, n, full)
  <2>1. wm \in WmState /\ c \in Client /\ SameBut(new, wm, c) /\ Rest(wm, full)
    BY <1>2, <1>8 DEF Fits
  <2>2. /\ \A n \in Monitor : SelFits(wm, n, full)
        /\ \A n \in Monitor : wm.sel[n] # c
        /\ full => new.hidden = {} /\ (new.mon[c] = None \/ new.tags[c] # {})
    BY <1>3, <1>4, <1>5 DEF Fits
  <2> QED
    BY ONLY <2>1, <2>2, MovedFits
<1>10. XShown(wm) => XShown(new)
  BY <1>2, <1>5, <1>8, XStaysShown
<1>11. /\ Good(listed) /\ Rest(listed, full) /\ SameRest(listed, new)
       /\ \A n \in Monitor : SelFits(listed, n, full)
       /\ listed.sel[new.selmon] = new.sel[new.selmon]
       /\ OrderKept(new, listed, c)
  <2>1. listed \in {AttachStack(Attach(new, c), c), AttachStackBelow(AttachBelow(new, c), c)}
    BY DEF ManageAttach
  <2> HIDE DEF listed
  <2> QED
    BY <1>7, <1>9, <2>1, OnFits
<1> HIDE DEF listed
<1>12. XShown(new) => XShown(listed)
  <2>1. /\ listed.mon = new.mon /\ listed.tags = new.tags /\ listed.hidden = new.hidden
        /\ listed.view = new.view /\ listed.xfocus = new.xfocus
    BY <1>11 DEF SameRest, SameClients
  <2> QED
    BY <2>1 DEF XShown, Shown, On, Visible, VisibleOnTag
<1>13. Fits(listed, full)
  BY <1>10, <1>11, <1>12 DEF Fits
<1>14. /\ listed.mon = new.mon /\ c \in Managed(listed) /\ listed.tags[c] # {}
       /\ takefocus => c \notin listed.hidden
       /\ Managed(listed) = Managed(wm) \cup {c}
       /\ OrderKept(wm, listed, c)
  <2>1. takefocus => c \notin new.hidden
    BY <1>1
  <2>2. listed.mon = new.mon /\ listed.tags = new.tags /\ listed.hidden = new.hidden
    BY <1>11 DEF SameRest, SameClients
  <2>3. Managed(listed) = Managed(new)
    BY <2>2 DEF Managed
  <2> QED
    BY <1>4, <1>5, <1>6, <1>11, <2>1, <2>2, <2>3 DEF OrderKept
<1>15. CASE ~takefocus
  <2>1. Undisturbed
    BY <1>1, <1>5, <1>11, <1>15 DEF Undisturbed, SameRest
  <2>2. Keep(wm, listed)
    BY <1>5, <1>11 DEF Keep, SameRest
  <2> QED
    BY <1>1, <1>11, <1>13, <1>14, <1>15, <2>1, <2>2
<1>16. ASSUME NEW s, Good(s), Rest(s, full), \A n \in Monitor : SelFits(s, n, full),
              c \in Shown(s, s.selmon), s.mon = listed.mon, s.clients = listed.clients,
              wm' = ManageFocus(s, c)
       PROVE  /\ Good(wm') /\ Fits(wm', full) /\ Managed(wm') = Managed(wm) \cup {c}
              /\ Keep(wm, wm') /\ OrderKept(wm, wm', c)
              /\ c \notin NeverFocus => c = wm'.sel[wm'.selmon] /\ c \in Shown(wm', wm'.selmon)
  <2>1. /\ Good(wm') /\ Fits(wm', full) /\ wm'.mon = s.mon /\ wm'.clients = s.clients /\ Kept(wm')
        /\ c \notin NeverFocus => c = wm'.sel[wm'.selmon] /\ c \in Shown(wm', wm'.selmon)
    BY <1>16, ManageFocusFits
  <2> QED
    BY <1>14, <1>16, <2>1 DEF Managed, Keep, Kept, OrderKept
<1>17. CASE takefocus /\ urgent
  <2>1. /\ Good(seen) /\ Rest(seen, full) /\ (\A n \in Monitor : SelFits(seen, n, full))
        /\ seen.mon = listed.mon /\ seen.clients = listed.clients
        /\ c \in Shown(seen, seen.selmon)
    BY <1>11, <1>13, <1>14, <1>17, ManageUrgentFits
  <2>2. wm' = ManageFocus(seen, c)
    BY <1>1, <1>17
  <2> HIDE DEF seen
  <2> QED
    BY <1>16, <2>1, <2>2
<1>18. CASE takefocus /\ ~urgent
  <2>1. Visible(new, c) /\ new.mon[c] = new.selmon /\ wm' = ManageFocus(listed, c)
    BY <1>1, <1>18
  <2>2. c \in Shown(listed, listed.selmon)
    BY <1>11, <1>14, <1>18, <2>1 DEF Shown, On, Visible, VisibleOnTag, SameRest, SameClients
  <2> QED
    BY <1>11, <1>16, <2>1, <2>2
<1> QED
  BY <1>15, <1>17, <1>18
\* guessnextfocus names a client on the screen.
LEMMA GuessShown ==
  ASSUME NEW s, Good(s), NEW c, NEW m \in Monitor, NEW pm \in Monitor,
         NEW guess \in GuessNextFocus(s, c, m, pm), guess # None
  PROVE  guess \in Client /\ s.mon[guess] \in Monitor /\ guess \in Shown(s, s.mon[guess])
<1>1. None \in On(s, m) \cup {None}
  OBVIOUS
<1>2. GetFocusable(s, m, None, FALSE) \in Shown(s, m) \cup {None}
  BY <1>1, GetFocusableShown
<1>3. guess \in Shown(s, m) \cup Usable(s, pm)
  BY <1>2 DEF GuessNextFocus, AtCoords
<1>4. PICK n \in Monitor : guess \in Shown(s, n)
  BY <1>3 DEF Usable
<1> QED
  BY <1>4 DEF Shown, On

\* unmanage clears the record of the client: nothing that stays is disturbed.
LEMMA FreedFits ==
  ASSUME NEW s, Good(s), NEW c \in Managed(s), NEW full, Fits(s, full)
  PROVE  LET r == Freed(s, c)
         IN  /\ Good(r) /\ Fits(r, full) /\ Managed(r) = Managed(s) \ {c}
             /\ r.view = s.view /\ r.selmon = s.selmon
             /\ \A n \in Monitor : s.sel[n] # c => r.sel[n] = s.sel[n]
             /\ s.xfocus # c => r.xfocus = s.xfocus
             /\ OrderKept(s, r, c)
<1> DEFINE shown == SetHidden(s, c, FALSE)
           off == DetachStack(Detach(shown, c), c)
           x == IF off.xfocus = c THEN None ELSE off.xfocus
           r == [off EXCEPT !.mon[c] = None, !.tags[c] = {},
                            !.floating = off.floating \ {c}, !.xfocus = x]
<1>1. Freed(s, c) = r /\ Good(r)
  BY FreedSound DEF Freed
<1>2. Good(shown) /\ shown.mon = s.mon
  BY SetHiddenSound
<1>3. /\ SameBut(shown, s, c) /\ shown.clients = s.clients /\ shown.selmon = s.selmon
      /\ shown.xfocus = s.xfocus /\ shown.tags = s.tags /\ shown.hidden = s.hidden \ {c}
  BY DEF SetHidden, SameBut, Good, Sound, WmState
<1> HIDE DEF shown
<1>4. c \in Client /\ c \in Managed(shown) /\ s \in WmState
  BY <1>2 DEF Managed, Good, Sound
<1>5. Rest(shown, full) /\ \A n \in Monitor : SelFits(shown, n, full)
  <2>1. Rest(shown, full)
    BY <1>2, <1>3 DEF Fits, Rest, SameBut, Managed
  <2>2. \A n \in Monitor : Fit(s, n, full) \subseteq Fit(shown, n, full)
    BY <1>2, <1>3 DEF SameBut, Fit, Shown, On, Visible, VisibleOnTag
  <2> QED
    BY <1>3, <2>1, <2>2 DEF Fits, SelFits, SameBut
<1>6. XShown(s) => XShown(shown)
  BY <1>2, <1>3 DEF XShown, SameBut, Shown, On, Visible, VisibleOnTag
<1>7. Fits(shown, full)
  BY <1>5, <1>6 DEF Fits
<1>8. /\ Sound(off, {c}, {c}, {c}) /\ Rest(off, full) /\ SameRest(off, shown)
      /\ \A n \in Monitor : SelFits(off, n, full) /\ off.sel[n] # c
      /\ \A n \in Monitor : shown.sel[n] # c => off.sel[n] = shown.sel[n]
      /\ OrderKept(shown, off, c)
  BY <1>2, <1>4, <1>7, OffFits
<1> HIDE DEF off
<1>9. off \in WmState
  BY <1>8 DEF Sound
<1>10. /\ r.clients = off.clients /\ r.sel = off.sel /\ r.focusontag = off.focusontag
       /\ r.view = off.view /\ r.selmon = off.selmon /\ r.hidden = off.hidden
       /\ \A d \in Client : r.mon[d] = IF d = c THEN None ELSE off.mon[d]
       /\ \A d \in Client : d # c => r.tags[d] = off.tags[d]
       /\ r.xfocus = x
  BY <1>4, <1>9 DEF WmState
<1> HIDE DEF r
<1>11. SameBut(r, off, c)
  BY <1>10 DEF SameBut
<1>12. Managed(off) = Managed(s) /\ Managed(r) = Managed(s) \ {c}
  BY <1>2, <1>4, <1>8, <1>10 DEF SameRest, SameClients, Managed
<1>13. Rest(r, full) /\ \A n \in Monitor : SelFits(r, n, full)
  <2>2. /\ off \in WmState /\ c \in Client /\ SameBut(r, off, c) /\ Rest(off, full)
        /\ \A n \in Monitor : SelFits(off, n, full)
        /\ \A n \in Monitor : off.sel[n] # c
        /\ full => r.hidden = {} /\ (r.mon[c] = None \/ r.tags[c] # {})
    BY <1>4, <1>8, <1>9, <1>10, <1>11 DEF Rest
  <2> QED
    BY ONLY <2>2, MovedFits
<1>14. XShown(shown) => XShown(r)
  <2>1. XShown(shown) => XShown(off)
    BY <1>8 DEF SameRest, SameClients, XShown, Shown, On, Visible, VisibleOnTag
  <2>2. off.xfocus # c /\ XShown(off) => XShown(r)
    BY <1>9, <1>10, <1>11, XStaysShown
  <2>3. off.xfocus = c => XShown(r)
    BY <1>10 DEF XShown
  <2> QED
    BY <2>1, <2>2, <2>3
<1>15. Fits(r, full)
  BY <1>6, <1>13, <1>14 DEF Fits
<1>16. OrderKept(s, r, c)
  BY <1>3, <1>8, <1>10 DEF OrderKept
<1>17. /\ r.view = s.view /\ r.selmon = s.selmon
       /\ \A n \in Monitor : s.sel[n] # c => r.sel[n] = s.sel[n]
       /\ s.xfocus # c => r.xfocus = s.xfocus
  BY <1>3, <1>8, <1>10 DEF SameBut, SameRest
<1> QED
  BY <1>1, <1>12, <1>15, <1>16, <1>17

\* What follows a focused client is on the screen, and selected.
LEMMA FocusAfterFits ==
  ASSUME NEW s, Good(s), NEW full, Fits(s, full), NEW m, NEW pm \in Monitor,
         NEW guess, guess # None => guess \in Client /\ s.mon[guess] \in Monitor /\ guess \in Shown(s, s.mon[guess])
  PROVE  LET r == FocusAfter(s, m, pm, guess)
         IN  Good(r) /\ Fits(r, full) /\ r.mon = s.mon /\ r.clients = s.clients /\ Kept(r)
<1> DEFINE r == [s EXCEPT !.selmon = pm]
           n == r.mon[guess]
           mask == r.tags[guess]
           put == [r EXCEPT !.sel[n] = guess]
           shown == ViewMonTag(put, n, mask, FALSE)
<1>1. /\ Good(r) /\ Fits(r, full) /\ SameClients(r, s) /\ r.clients = s.clients
      /\ r.view = s.view /\ r.selmon = pm
  BY SelmonFits DEF Fits
<1>2. FocusAfter(s, m, pm, guess) =
        IF (m # pm /\ r.sel[pm] # None) \/ guess = None THEN Focus(r, None, FALSE)
        ELSE IF n # pm THEN Focus(shown, None, FALSE)
        ELSE Focus(r, guess, FALSE)
  BY DEF FocusAfter
<1> HIDE DEF r
<1>3. guess # None => /\ n \in Monitor /\ n = s.mon[guess] /\ guess \in Client
                      /\ guess \in Shown(r, n) /\ mask \in Mask
  <2>1. \A k \in Monitor : Shown(r, k) = Shown(s, k)
    BY <1>1, SameShown DEF SameClients
  <2> QED
    BY <1>1, <2>1 DEF SameClients, Good, Sound, WmState
<1>4. ASSUME NEW f, f = Focus(r, None, FALSE)
      PROVE  Good(f) /\ Fits(f, full) /\ f.mon = s.mon /\ f.clients = s.clients /\ Kept(f)
  <2>1. Good(f) /\ Fits(f, full) /\ SameClients(f, r) /\ f.clients = r.clients /\ Kept(f)
    BY <1>1, <1>4, FocusNullFits DEF Fits
  <2> QED
    BY <1>1, <2>1 DEF SameClients
<1>5. ASSUME guess # None, n = pm, NEW f, f = Focus(r, guess, FALSE)
      PROVE  Good(f) /\ Fits(f, full) /\ f.mon = s.mon /\ f.clients = s.clients /\ Kept(f)
  <2>1. guess \in On(r, r.selmon) \cup {None}
    BY <1>1, <1>3, <1>5 DEF Shown
  <2>2. Good(f) /\ Fits(f, full) /\ f.mon = r.mon /\ f.clients = r.clients /\ Kept(f)
    BY <1>1, <1>5, <2>1, FocusRepairs DEF Fits
  <2> QED
    BY <1>1, <2>2 DEF SameClients
<1>6. ASSUME guess # None, NEW f, f = Focus(shown, None, FALSE)
      PROVE  Good(f) /\ Fits(f, full) /\ f.mon = s.mon /\ f.clients = s.clients /\ Kept(f)
  <2> HIDE DEF n, mask
  <2>1. guess \in Fit(r, n, full) \cup {None}
    BY <1>3, <1>6, ShownFits
  <2>2. /\ Good(put) /\ Rest(put, full) /\ SameClients(put, r)
        /\ put.clients = r.clients /\ put.view = r.view
        /\ put.xfocus = r.xfocus
        /\ \A k \in Monitor : SelFits(r, k, full) => SelFits(put, k, full)
    BY <1>1, <1>3, <1>6, <2>1, SelFit DEF Fits
  <2> HIDE DEF put
  <2>3. Fits(put, full)
    <3>1. XShown(r) => XShown(put)
      BY <2>2 DEF SameClients, XShown, Shown, On, Visible, VisibleOnTag
    <3> QED
      BY <1>1, <2>2, <3>1 DEF Fits
  <2>4. /\ Good(shown) /\ Rest(shown, full) /\ SameLayout(shown, put)
        /\ \A k \in Monitor : SelFits(shown, k, full)
    <3>1. PICK switchmon : switchmon = FALSE
      OBVIOUS
    <3>2. Good(put) /\ Fits(put, full) /\ n \in Monitor /\ mask \in Mask
      BY <1>3, <1>6, <2>2, <2>3
    <3>3. LET q == ViewMonTag(put, n, mask, switchmon)
          IN  /\ Good(q) /\ Rest(q, full) /\ SameLayout(q, put)
              /\ \A k \in Monitor : ~switchmon => SelFits(q, k, full)
      BY ONLY <3>2, ViewMonTagFits
    <3> QED
      BY <3>1, <3>3
  <2> HIDE DEF shown
  <2>5. Good(f) /\ Fits(f, full) /\ SameClients(f, shown) /\ f.clients = shown.clients /\ Kept(f)
    BY <1>6, <2>4, FocusNullFits
  <2> QED
    BY <1>1, <2>2, <2>4, <2>5 DEF SameLayout, SameClients
<1>7. PICK f : f = FocusAfter(s, m, pm, guess)
  OBVIOUS
<1> HIDE DEF n, shown
<1>8. Good(f) /\ Fits(f, full) /\ f.mon = s.mon /\ f.clients = s.clients /\ Kept(f)
  BY <1>2, <1>4, <1>5, <1>6, <1>7
<1> QED
  BY <1>7, <1>8

\* unmanage: the focus moves on, or nothing is disturbed.
LEMMA UnmanageTurn ==
  ASSUME Good(wm), NEW full, Fits(wm, full),
         NEW c \in Client, NEW destroyed \in BOOLEAN, NEW pm \in Monitor,
         NEW guess \in Client \cup {None}, Unmanage(c, destroyed, pm, guess)
  PROVE  /\ Good(wm') /\ Fits(wm', full) /\ Managed(wm') = Managed(wm) \ {c}
         /\ full => Keep(wm, wm')
         /\ OrderKept(wm, wm', c)
         /\ c # wm.sel[wm.selmon] /\ c # wm.xfocus => Undisturbed
<1> DEFINE m == wm.mon[c]
           focused == Visible(wm, c) /\ c = wm.sel[wm.selmon]
           freed == Freed(wm, c)
           away == [freed EXCEPT !.xfocus = None]
           rooted == IF focused /\ ~destroyed THEN away ELSE freed
           moved == [rooted EXCEPT !.selmon = pm]
<1>1. /\ m # None
      /\ \/ focused /\ guess \in GuessNextFocus(moved, c, m, pm) /\ wm' = FocusAfter(rooted, m, pm, guess)
         \/ ~focused /\ wm' = freed
  BY DEF Unmanage
<1>2. m \in Monitor /\ c \in Managed(wm) /\ wm.selmon \in Monitor
  BY <1>1 DEF Managed, Good, Sound, WmState
<1>3. full /\ c = wm.sel[wm.selmon] => focused
  BY <1>2, NoneAssumption DEF Fits, SelFits, Fit, Shown
<1>4. focused => c = wm.sel[wm.selmon]
  OBVIOUS
<1> HIDE DEF m, focused
<1>5. /\ Good(freed) /\ Fits(freed, full) /\ Managed(freed) = Managed(wm) \ {c}
      /\ freed.view = wm.view /\ freed.selmon = wm.selmon
      /\ \A n \in Monitor : wm.sel[n] # c => freed.sel[n] = wm.sel[n]
      /\ wm.xfocus # c => freed.xfocus = wm.xfocus
      /\ OrderKept(wm, freed, c)
  BY <1>2, FreedFits
<1> HIDE DEF freed
<1>6. Good(away) /\ Fits(away, full) /\ away.mon = freed.mon /\ away.clients = freed.clients
  <2>1. freed \in WmState
    BY <1>5 DEF Good, Sound
  <2>2. /\ away \in WmState
        /\ away.clients = freed.clients /\ away.stack = freed.stack /\ away.mon = freed.mon
        /\ away.sel = freed.sel /\ away.focusontag = freed.focusontag /\ away.view = freed.view
        /\ away.tags = freed.tags /\ away.hidden = freed.hidden
        /\ away.xfocus = None
    BY <2>1 DEF WmState
  <2> HIDE DEF away
  <2>3. Good(away)
    BY <1>5, <2>2, FlagsPut DEF Good
  <2>4. Rest(away, full) /\ \A n \in Monitor : SelFits(away, n, full)
    BY <1>5, <2>2 DEF Fits, Rest, SelFits, Fit, Shown, On, Visible, VisibleOnTag, Managed
  <2>5. XShown(away)
    BY <2>2 DEF XShown
  <2> QED
    BY <2>2, <2>3, <2>4, <2>5 DEF Fits
<1> HIDE DEF away
<1>7. /\ Good(rooted) /\ Fits(rooted, full)
      /\ rooted.mon = freed.mon /\ rooted.clients = freed.clients
  BY <1>5, <1>6
<1> HIDE DEF rooted
<1>8. CASE focused /\ guess \in GuessNextFocus(moved, c, m, pm) /\ wm' = FocusAfter(rooted, m, pm, guess)
  <2>1. Good(moved) /\ SameClients(moved, rooted) /\ moved.view = rooted.view
    BY <1>7, SelmonFits DEF Fits
  <2> HIDE DEF moved
  <2>2. guess # None =>
          guess \in Client /\ moved.mon[guess] \in Monitor /\ guess \in Shown(moved, moved.mon[guess])
    BY <1>2, <1>8, <2>1, GuessShown
  <2>3. guess # None => guess \in Client /\ rooted.mon[guess] \in Monitor /\ guess \in Shown(rooted, rooted.mon[guess])
    BY <2>1, <2>2 DEF SameClients, Shown, On, Visible, VisibleOnTag
  <2>4. Good(wm') /\ Fits(wm', full) /\ wm'.mon = rooted.mon /\ wm'.clients = rooted.clients /\ Kept(wm')
    <3>1. PICK r : r = FocusAfter(rooted, m, pm, guess)
      OBVIOUS
    <3>2. Good(r) /\ Fits(r, full) /\ r.mon = rooted.mon /\ r.clients = rooted.clients /\ Kept(r)
      BY <1>7, <2>3, <3>1, FocusAfterFits
    <3> QED
      BY <1>8, <3>1, <3>2
  <2> QED
    BY <1>4, <1>5, <1>7, <1>8, <2>4 DEF Managed, Keep, Kept, OrderKept
<1>9. CASE ~focused /\ wm' = freed
  <2>1. full => Keep(wm, wm')
    BY <1>2, <1>3, <1>5, <1>9 DEF Keep
  <2>2. c # wm.sel[wm.selmon] /\ c # wm.xfocus => Undisturbed
    BY <1>2, <1>5, <1>9 DEF Undisturbed
  <2> QED
    BY <1>5, <1>9, <2>1, <2>2
<1> QED
  BY <1>1, <1>8, <1>9

-----------------------------------------------------------------------------
(* Every step.                                                             *)

\* Where a client is taken out and linked in, the others stay in order: on a
\* chain without repetition none of two is both ahead of and behind the other.
LEMMA OrderMoves ==
  ASSUME Good(wm'), NEW d \in Client \cup {None}, OrderKept(wm, wm', d)
  PROVE  OneMove
<1>1. SUFFICES ASSUME NEW m \in Monitor, NEW x \in Client \ {d}, NEW y \in Client \ {d},
                      Ahead(wm.clients[m], x, y), Ahead(wm'.clients[m], y, x)
               PROVE  FALSE
  BY DEF OneMove
<1> DEFINE q == wm'.clients[m]
<1>2. q \in Seq(Client) /\ IsInjective(q)
  BY DEF Good, Sound, Listed, WmState, IsChain
<1>3. Ahead(q, x, y)
  BY <1>1 DEF OrderKept, SameOrder
<1>4. Ahead(q, y, x)
  BY <1>1
<1> HIDE DEF q
<1> QED
  BY <1>2, <1>3, <1>4 DEF Ahead, IsInjective

\* What holds of a step of the window manager.
Step(full) ==
    /\ Good(wm') /\ Fits(wm', full)
    /\ full => SelectionKept
    /\ OneMove
    /\ MapIsQuiet /\ UnmapIsQuiet

\* A handler that maps and unmaps nothing.
LEMMA TurnStep ==
  ASSUME Good(wm), NEW full, Turn(wm, wm', full)
  PROVE  Step(full)
<1>1. OneMove
  BY OrderMoves DEF Turn
<1>2. \A c \in Client : ~Maps(c) /\ ~Unmaps(c)
  BY DEF Turn, Managed, Maps, Unmaps
<1> QED
  BY <1>1, <1>2 DEF Turn, Step, Keep, SelectionKept, MapIsQuiet, UnmapIsQuiet

\* manage maps its client, and no other.
LEMMA MapStep ==
  ASSUME Good(wm), NEW full, Fits(wm, full), full => MayHide = {}, Map
  PROVE  Step(full)
<1>1. PICK c \in Client :
        /\ Good(wm') /\ Fits(wm', full) /\ Managed(wm') = Managed(wm) \cup {c}
        /\ Keep(wm, wm') /\ OrderKept(wm, wm', c)
        /\ \/ Undisturbed
           \/ c \notin NeverFocus => c = wm'.sel[wm'.selmon] /\ c \in Shown(wm', wm'.selmon)
  BY ManageTurn DEF Map
<1>2. OneMove
  BY <1>1, OrderMoves
<1>3. \A d \in Client : ~Unmaps(d) /\ (Maps(d) => d = c)
  BY <1>1 DEF Managed, Maps, Unmaps
<1> QED
  BY <1>1, <1>2, <1>3 DEF Step, Keep, SelectionKept, MapIsQuiet, UnmapIsQuiet

\* unmanage unmaps its client, and no other.
LEMMA UnmapStep ==
  ASSUME Good(wm), NEW full, Fits(wm, full), Unmap
  PROVE  Step(full)
<1>1. PICK c \in Client :
        /\ Good(wm') /\ Fits(wm', full) /\ Managed(wm') = Managed(wm) \ {c}
        /\ full => Keep(wm, wm')
        /\ OrderKept(wm, wm', c)
        /\ c # wm.sel[wm.selmon] /\ c # wm.xfocus => Undisturbed
  BY UnmanageTurn DEF Unmap
<1>2. OneMove
  BY <1>1, OrderMoves
<1>3. \A d \in Client : ~Maps(d) /\ (Unmaps(d) => d = c)
  BY <1>1 DEF Managed, Maps, Unmaps
<1> QED
  BY <1>1, <1>2, <1>3 DEF Step, Keep, SelectionKept, MapIsQuiet, UnmapIsQuiet

\* Every handler is such a step, whether or not clients are hidden.
LEMMA NextStep ==
  ASSUME Good(wm), NEW full, Fits(wm, full), full => MayHide = {}, Next
  PROVE  Step(full)
<1>1. CASE Map
  BY <1>1, MapStep
<1>2. CASE Unmap
  BY <1>2, UnmapStep
<1>3. CASE TagCommand
  BY <1>3, ViewTurn, ToggleViewTurn, TagClientTurn, ToggleTagTurn, TagMonTurn, TurnStep DEF TagCommand
<1>4. CASE FocusCommand
  BY <1>4, FocusMonTurn, FocusStackTurn, TurnStep DEF FocusCommand
<1>5. CASE ArrangeCommand
  BY <1>5, ZoomTurn, MoveTiledTurn, ToggleFloatingTurn, TurnStep DEF ArrangeCommand
<1>6. CASE HideCommand
  BY <1>6, HideWinTurn, HideOthersTurn, UnhideWinTurn, TurnStep DEF HideCommand
<1>7. CASE XEvent
  BY <1>7, EnterClientTurn, EnterBarTurn, ActiveWindowMessageTurn,
     HiddenPropertyTurn, HiddenMessageTurn, TurnStep DEF XEvent
<1> QED
  BY <1>1, <1>2, <1>3, <1>4, <1>5, <1>6, <1>7 DEF Next

\* Without minimized clients what is selected is on the screen.
LEMMA NextFull ==
  ASSUME Good(wm), Fits(wm, TRUE), MayHide = {}, Next
  PROVE  Good(wm') /\ Fits(wm', TRUE) /\ SelectionKept
<1>1. PICK full : full = TRUE
  OBVIOUS
<1>2. Step(full)
  BY <1>1, NextStep
<1> QED
  BY <1>1, <1>2 DEF Step

\* With them what is selected may be hidden or out of view.
LEMMA NextAny ==
  ASSUME Good(wm), Fits(wm, FALSE), Next
  PROVE  Good(wm') /\ Fits(wm', FALSE) /\ OneMove /\ MapIsQuiet /\ UnmapIsQuiet
<1>1. PICK full : full = FALSE
  OBVIOUS
<1>2. Step(full)
  BY <1>1, NextStep
<1> QED
  BY <1>1, <1>2 DEF Step

-----------------------------------------------------------------------------
(* The theorems.                                                           *)

\* The invariant is inductive: a step from any state where it holds, reached
\* or not, keeps it.
THEOREM Inductive == Spec => []IInv
<1>1. Init => Good(wm) /\ Fits(wm, FALSE)
  BY InitGood
<1>2. Good(wm) /\ Fits(wm, FALSE) /\ [Next]_wm => (Good(wm) /\ Fits(wm, FALSE))'
  BY NextAny
<1>3. Good(wm) /\ Fits(wm, FALSE) => IInv
  BY InvIsGood
<1> QED
  BY <1>1, <1>2, <1>3, PTL DEF Spec

\* The record keeps its type: the tags of a new client are masked, the
\* selected monitor is a monitor.
THEOREM TypeCorrect == Spec => []TypeOK
<1>1. IInv => TypeOK
  BY DEF IInv
<1> QED
  BY <1>1, Inductive, PTL

\* Both chains of a monitor always hold each of its clients once and no other
\* client, whatever the handlers do to them in between.
THEOREM ListsStayAgreed == Spec => []ListsAgree
<1>1. IInv => ListsAgree
  BY DEF IInv
<1> QED
  BY <1>1, Inductive, PTL

\* sel, focusontag and the X focus never name a client that was freed or sent
\* to another monitor.
THEOREM RefsStayValid == Spec => []RefsValid
<1>1. IInv => RefsValid
  BY DEF IInv
<1> QED
  BY <1>1, Inductive, PTL

\* No monitor's view is ever without a tag.
THEOREM ViewsStayFilled == Spec => []NeverBlank
<1>1. IInv => NeverBlank
  BY DEF IInv
<1> QED
  BY <1>1, Inductive, PTL

\* The keys only go to a window on the screen, if every window takes them:
\* the focus that a neverfocus client is refused can stay on one out of view.
THEOREM KeysStayOnScreen ==
  ASSUME NeverFocus = {}
  PROVE  Spec => []XFocusShown
<1>1. IInv => XFocusShown
  BY DEF IInv, Fits, XShown, XFocusShown
<1> QED
  BY <1>1, Inductive, PTL

\* Without minimized clients the selections stay on the screen as well.
LEMMA FullInductive ==
  ASSUME MayHide = {}
  PROVE  Spec => [](Good(wm) /\ Fits(wm, TRUE))
<1>1. Init => Good(wm) /\ Fits(wm, TRUE)
  BY InitGood
<1>2. Good(wm) /\ Fits(wm, TRUE) /\ [Next]_wm => (Good(wm) /\ Fits(wm, TRUE))'
  BY NextFull
<1> QED
  BY <1>1, <1>2, PTL DEF Spec

\* What a monitor selects is on its screen, where no client is minimized
\* (activating a minimized client may leave a monitor's selection out of view).
THEOREM SelectionsStayShown ==
  ASSUME MayHide = {}
  PROVE  Spec => []SelShown
<1>1. Good(wm) /\ Fits(wm, TRUE) => SelShown
  BY DEF Fits, SelFits, Fit, SelShown
<1> QED
  BY <1>1, FullInductive, PTL

\* What the keys and the commands act on is on the screen, where no client is
\* minimized and every one takes the focus.
THEOREM ActsOnScreen ==
  ASSUME MayHide = {}, NeverFocus = {}
  PROVE  Spec => []OnScreen
<1>1. SelShown /\ XFocusShown => OnScreen
  BY DEF OnScreen
<1> QED
  BY <1>1, SelectionsStayShown, KeysStayOnScreen, PTL

\* While the selected monitor stays and has a client to select, no handler
\* leaves it without a selected client, where no client is minimized.
THEOREM SelectionIsKept ==
  ASSUME MayHide = {}
  PROVE  Spec => KeepsSelection
<1>1. Good(wm) /\ Fits(wm, TRUE) /\ [Next]_wm => [SelectionKept]_wm
  BY NextFull
<1> QED
  BY <1>1, FullInductive, PTL DEF Spec, KeepsSelection

\* A handler moves at most one client in the layout order of the monitors: the
\* others keep their order.
THEOREM OthersKeepOrder == Spec => OneMoves
<1>1. IInv /\ [Next]_wm => [OneMove]_wm
  BY InvIsGood, NextAny
<1> QED
  BY <1>1, Inductive, PTL DEF Spec, OneMoves

\* A new client is focused and on the screen or disturbs nothing, and one that
\* goes away without having been selected disturbs nothing.
THEOREM ComesAndGoesQuietly == Spec => Quiet
<1>1. IInv /\ [Next]_wm => [MapIsQuiet /\ UnmapIsQuiet]_wm
  BY InvIsGood, NextAny
<1> QED
  BY <1>1, Inductive, PTL DEF Spec, Quiet
=============================================================================
