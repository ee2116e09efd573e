-------------------------- MODULE Fullscreen_proof --------------------------
(***************************************************************************)
(* Fullscreen states are consistent, agree with the windows' properties    *)
(* and lose nothing, for any clients, monitors, geometries and messages.   *)
(***************************************************************************)
EXTENDS Fullscreen, TLAPS

USE ClientsAssumption, WidthAssumption, FloatsAssumption, RequestsAssumption

WmState == [cl : [Clients -> Client], sel : [Mons -> Clients \cup {None}], selmon : Mons]

(* What holds of each client c between two handlers, p being its record:   *)
(* besides LockMatches and FullCovers, that fakefullscreen's intermediate  *)
(* values are gone and that a client that must not be fullscreen is not.   *)
Sound(c, p) ==
  /\ p \in Client
  /\ p.lock <=> RealFull(p)
  /\ p.lock => p.floating /\ p.geo = Screen(p.mon)
  /\ p.fake # 3
  /\ p.full => p.fake # 2 /\ c \notin Never

Good(W) == W \in WmState /\ \A c \in Clients : Sound(c, W.cl[c])

IInv == TypeOK /\ (\A c \in Clients : Sound(c, wm.cl[c])) /\ StatesAgree

(* What a client has kept, and its old geometry, survive the step from p to q. *)
Keeps(p, q) ==
  /\ KeptFloating(q) = KeptFloating(p)
  /\ KeptBorder(q) = KeptBorder(p)
  /\ p.lock /\ q.lock => q.old = p.old

-----------------------------------------------------------------------------
(* One client.                                                             *)

(* setfullscreen's own client, before it arranges. *)
SetOne(c, p, f) ==
  LET save    == f /\ (p.fake = 2 \/ (p.fake = 0 /\ ~p.full))
      restore == ~f /\ (p.fake >= 2 \/ (p.fake = 0 /\ p.full))
      refake  == p.fake = 2 /\ ~f /\ p.full
      q       == [p EXCEPT !.full = f \/ refake]
  IN  IF f /\ c \in Never THEN p
      ELSE IF save /\ ~p.lock THEN Stored(q)
      ELSE IF restore /\ p.lock THEN Restored(q, refake)
      ELSE IF p.vis /\ RealFull(q) THEN [q EXCEPT !.geo = Screen(p.mon)]
      ELSE q

\* What monitors and tiling give is a geometry.
LEMMA GeoTypes ==
  ASSUME NEW m \in Mons, NEW bw \in Int
  PROVE  Screen(m) \in Geo /\ Tile(m, bw) \in Geo /\ NoGeo \in Geo
  BY SMT DEF Screen, Tile, NoGeo, Geo

\* Any one field of a client may be set to a value of its type.
LEMMA FieldTypes ==
  ASSUME NEW p \in Client
  PROVE  /\ \A b \in BOOLEAN : /\ [p EXCEPT !.full = b] \in Client
                               /\ [p EXCEPT !.lock = b] \in Client
                               /\ [p EXCEPT !.saved = b] \in Client
                               /\ [p EXCEPT !.floating = b] \in Client
                               /\ [p EXCEPT !.vis = b] \in Client
                               /\ [p EXCEPT !.lost = b] \in Client
         /\ \A n \in 0..3 : [p EXCEPT !.fake = n] \in Client
         /\ \A i \in Int : [p EXCEPT !.bw = i] \in Client /\ [p EXCEPT !.oldbw = i] \in Client
         /\ \A g \in Geo : [p EXCEPT !.geo = g] \in Client /\ [p EXCEPT !.old = g] \in Client
         /\ \A m \in Mons : [p EXCEPT !.mon = m] \in Client
<1>1. ASSUME NEW b \in BOOLEAN
      PROVE  /\ [p EXCEPT !.full = b] \in Client
             /\ [p EXCEPT !.lock = b] \in Client
             /\ [p EXCEPT !.saved = b] \in Client
  BY SMT DEF Client
<1>2. ASSUME NEW b \in BOOLEAN
      PROVE  /\ [p EXCEPT !.floating = b] \in Client
             /\ [p EXCEPT !.vis = b] \in Client
             /\ [p EXCEPT !.lost = b] \in Client
  BY SMT DEF Client
<1>3. \A n \in 0..3 : [p EXCEPT !.fake = n] \in Client
  BY SMT DEF Client
<1>4. \A i \in Int : [p EXCEPT !.bw = i] \in Client /\ [p EXCEPT !.oldbw = i] \in Client
  BY SMT DEF Client
<1>5. \A g \in Geo : [p EXCEPT !.geo = g] \in Client /\ [p EXCEPT !.old = g] \in Client
  BY SMT DEF Client
<1>6. \A m \in Mons : [p EXCEPT !.mon = m] \in Client
  BY SMT DEF Client
<1>7. QED
  BY <1>1, <1>2, <1>3, <1>4, <1>5, <1>6

\* What setfullscreen stores on the way in is a client.
LEMMA StoredType ==
  ASSUME NEW q \in Client
  PROVE  Stored(q) \in Client
<1> DEFINE q1 == [q EXCEPT !.lock = TRUE]
           q2 == [q1 EXCEPT !.saved = q.floating]
           q3 == [q2 EXCEPT !.oldbw = q.bw]
           q4 == [q3 EXCEPT !.bw = 0]
           q5 == [q4 EXCEPT !.floating = TRUE]
           q6 == [q5 EXCEPT !.fake = 0]
           q7 == [q6 EXCEPT !.old = q.geo]
           q8 == [q7 EXCEPT !.geo = Screen(q.mon)]
<1>1. /\ q.floating \in BOOLEAN /\ q.bw \in Int /\ q.geo \in Geo
      /\ Screen(q.mon) \in Geo /\ 0 \in 0..3 /\ 0 \in Int
  BY GeoTypes DEF Client
<1>2. Stored(q) = q8
  BY DEF Stored
<1>3. q1 \in Client
  BY FieldTypes
<1> HIDE DEF q1
<1>4. q2 \in Client
  BY <1>1, <1>3, FieldTypes
<1> HIDE DEF q2
<1>5. q3 \in Client
  BY <1>1, <1>4, FieldTypes
<1> HIDE DEF q3
<1>6. q4 \in Client
  BY <1>1, <1>5, FieldTypes
<1> HIDE DEF q4
<1>7. q5 \in Client
  BY <1>1, <1>6, FieldTypes
<1> HIDE DEF q5
<1>8. q6 \in Client
  BY <1>1, <1>7, FieldTypes
<1> HIDE DEF q6
<1>9. q7 \in Client
  BY <1>1, <1>8, FieldTypes
<1> HIDE DEF q7
<1>10. q8 \in Client
  BY <1>1, <1>9, FieldTypes
<1>11. QED
  BY <1>2, <1>10

\* What it restores on the way out is a client.
LEMMA RestoredType ==
  ASSUME NEW q \in Client, NEW refake \in BOOLEAN
  PROVE  Restored(q, refake) \in Client
<1> DEFINE x == Larger(MX[q.mon], q.old.x)
           w == Smaller(MX[q.mon] + MW - x - 2 * q.oldbw, q.old.w)
           fake == IF refake \/ q.fake = 3 THEN 1 ELSE q.fake
           geo == IF q.saved THEN [x |-> x, w |-> w] ELSE q.geo
           q1 == [q EXCEPT !.lock = FALSE]
           q2 == [q1 EXCEPT !.bw = q.oldbw]
           q3 == [q2 EXCEPT !.floating = q.saved]
           q4 == [q3 EXCEPT !.saved = FALSE]
           q5 == [q4 EXCEPT !.fake = fake]
           q6 == [q5 EXCEPT !.old = NoGeo]
           q7 == [q6 EXCEPT !.geo = geo]
<1>1. /\ q.mon \in Mons /\ q.old.x \in Int /\ q.old.w \in Int /\ q.oldbw \in Int
      /\ q.saved \in BOOLEAN /\ q.fake \in 0..3 /\ q.geo \in Geo
  BY DEF Client, Geo
<1>2. x \in Int
  BY <1>1 DEF Larger
<1>3. w \in Int
  BY <1>1, <1>2 DEF Smaller
<1>4. NoGeo \in Geo /\ geo \in Geo /\ fake \in 0..3
  BY <1>1, <1>2, <1>3 DEF Geo, NoGeo
<1>5. Restored(q, refake) = q7
  BY DEF Restored, Client
<1> HIDE DEF x, w, fake, geo
<1>6. q1 \in Client
  BY FieldTypes
<1> HIDE DEF q1
<1>7. q2 \in Client
  BY <1>1, <1>6, FieldTypes
<1> HIDE DEF q2
<1>8. q3 \in Client
  BY <1>1, <1>7, FieldTypes
<1> HIDE DEF q3
<1>9. q4 \in Client
  BY <1>8, FieldTypes
<1> HIDE DEF q4
<1>10. q5 \in Client
  BY <1>4, <1>9, FieldTypes
<1> HIDE DEF q5
<1>11. q6 \in Client
  BY <1>4, <1>10, FieldTypes
<1> HIDE DEF q6
<1>12. q7 \in Client
  BY <1>4, <1>11, FieldTypes
<1>13. QED
  BY <1>5, <1>12

(* A client is ready for setfullscreen(c, f) when it is sound, or would be *)
(* but for the intermediate value that the callers give fakefullscreen.    *)
Ready(c, p, f) ==
  \/ Sound(c, p)
  \/ /\ p \in Client /\ p.fake = 2
     /\ p.lock => p.full /\ p.floating /\ p.geo = Screen(p.mon)
     /\ p.full => c \notin Never /\ (p.lock \/ f)
     /\ f => c \in Never \/ ~p.lock

\* The fields of a client on its way in.
LEMMA StoredFields ==
  ASSUME NEW q \in Client
  PROVE  LET r == Stored(q)
         IN  /\ r.lock = TRUE /\ r.saved = q.floating /\ r.floating = TRUE
             /\ r.full = q.full /\ r.fake = 0 /\ r.oldbw = q.bw
             /\ r.geo = Screen(r.mon) /\ r.mon = q.mon /\ r.vis = q.vis /\ r.lost = q.lost
  BY SMT DEF Stored, Client

\* The fields of a client on its way out.
LEMMA RestoredFields ==
  ASSUME NEW q \in Client, NEW refake \in BOOLEAN
  PROVE  LET r == Restored(q, refake)
         IN  /\ r.lock = FALSE /\ r.floating = q.saved /\ r.full = q.full /\ r.bw = q.oldbw
             /\ r.fake = IF refake \/ q.fake = 3 THEN 1 ELSE q.fake
             /\ r.mon = q.mon /\ r.vis = q.vis /\ r.lost = q.lost
  BY SMT DEF Restored, Client

(* setfullscreen keeps each client sound, whatever it was called with. *)
LEMMA SetOneSound ==
  ASSUME NEW c \in Clients, NEW p, NEW f \in BOOLEAN, Ready(c, p, f)
  PROVE  LET r == SetOne(c, p, f)
         IN  /\ Sound(c, r) /\ Keeps(p, r)
             /\ r.mon = p.mon /\ r.vis = p.vis /\ r.lost = p.lost
             /\ c \notin Never /\ ~(p.fake = 2 /\ p.full) => r.full = f
             /\ RealFull(p) /\ ~f => ~r.lock
<1> DEFINE refake == p.fake = 2 /\ ~f /\ p.full
           q == [p EXCEPT !.full = f \/ refake]
           save    == f /\ (p.fake = 2 \/ (p.fake = 0 /\ ~p.full))
           restore == ~f /\ (p.fake >= 2 \/ (p.fake = 0 /\ p.full))
           r == SetOne(c, p, f)
<1>0. p \in Client
  BY DEF Ready, Sound
<1>1. q \in Client /\ refake \in BOOLEAN
  BY <1>0, FieldTypes
<1>2. /\ p.full \in BOOLEAN /\ p.lock \in BOOLEAN /\ p.floating \in BOOLEAN /\ p.saved \in BOOLEAN
      /\ p.fake \in 0..3 /\ p.vis \in BOOLEAN
  BY <1>0 DEF Client
<1>3. /\ q.full = (f \/ refake) /\ q.lock = p.lock /\ q.floating = p.floating /\ q.saved = p.saved
      /\ q.fake = p.fake /\ q.mon = p.mon /\ q.vis = p.vis /\ q.lost = p.lost /\ q.bw = p.bw
      /\ q.oldbw = p.oldbw /\ q.old = p.old /\ q.geo = p.geo
  BY <1>0 DEF Client
<1>4. CASE f /\ c \in Never
  <2>1. r = p
    BY <1>4 DEF SetOne
  <2>2. Sound(c, p)
    BY <1>4, <1>2 DEF Ready, Sound, RealFull
  <2>3. QED
    BY <2>1, <2>2, <1>4 DEF Keeps
<1>5. CASE ~(f /\ c \in Never) /\ save /\ ~p.lock
  <2>1. r = Stored(q)
    BY <1>5 DEF SetOne
  <2>2. r \in Client
    BY <2>1, <1>1, StoredType
  <2> HIDE DEF r, q
  <2>3. /\ r.lock = TRUE /\ r.saved = p.floating /\ r.floating = TRUE
        /\ r.full = TRUE /\ r.fake = 0 /\ r.oldbw = p.bw
        /\ r.geo = Screen(r.mon) /\ r.mon = p.mon /\ r.vis = p.vis /\ r.lost = p.lost
    BY <2>1, <1>1, <1>3, <1>5, StoredFields
  <2>4. Sound(c, r)
    BY <2>2, <2>3, <1>5 DEF Sound, RealFull
  <2>5. Keeps(p, r)
    BY <2>3, <1>5, <1>2 DEF Keeps, KeptFloating, KeptBorder
  <2>6. QED
    BY <2>3, <2>4, <2>5, <1>5 DEF r
<1>6. CASE ~(f /\ c \in Never) /\ ~(save /\ ~p.lock) /\ restore /\ p.lock
  <2>1. r = Restored(q, refake)
    BY <1>6 DEF SetOne
  <2>2. r \in Client
    BY <2>1, <1>1, RestoredType
  <2> HIDE DEF r, q
  <2>3. /\ r.lock = FALSE /\ r.floating = p.saved /\ r.full = refake /\ r.bw = p.oldbw
        /\ r.fake = IF refake \/ p.fake = 3 THEN 1 ELSE p.fake
        /\ r.mon = p.mon /\ r.vis = p.vis /\ r.lost = p.lost
    <3>1. /\ r.lock = FALSE /\ r.floating = q.saved /\ r.full = q.full /\ r.bw = q.oldbw
          /\ r.fake = IF refake \/ q.fake = 3 THEN 1 ELSE q.fake
          /\ r.mon = q.mon /\ r.vis = q.vis /\ r.lost = q.lost
      BY <2>1, <1>1, RestoredFields
    <3>2. QED
      BY <3>1, <1>3, <1>6
  <2>4. Sound(c, r)
    BY <2>2, <2>3, <1>6, <1>2 DEF Sound, RealFull, Ready
  <2>5. Keeps(p, r)
    BY <2>3, <1>6, <1>2 DEF Keeps, KeptFloating, KeptBorder
  <2>6. QED
    BY <2>3, <2>4, <2>5, <1>6 DEF r
<1>7. CASE ~(f /\ c \in Never) /\ ~(save /\ ~p.lock) /\ ~(restore /\ p.lock)
  <2>1. r = q \/ r = [q EXCEPT !.geo = Screen(p.mon)]
    BY <1>7 DEF SetOne
  <2>2. r \in Client
    <3>1. Screen(p.mon) \in Geo
      BY <1>0, GeoTypes DEF Client
    <3>2. [q EXCEPT !.geo = Screen(p.mon)] \in Client
      <4> HIDE DEF q
      <4>1. QED
        BY <3>1, <1>1, FieldTypes
    <3>3. QED
      BY <2>1, <1>1, <3>2
  <2>3. /\ r.full = (f \/ refake) /\ r.lock = p.lock /\ r.floating = p.floating /\ r.saved = p.saved
        /\ r.fake = p.fake /\ r.mon = p.mon /\ r.vis = p.vis /\ r.lost = p.lost /\ r.bw = p.bw
        /\ r.oldbw = p.oldbw /\ r.old = p.old /\ r.geo \in {p.geo, Screen(p.mon)}
    BY <2>1, <1>1, <1>3, ZenonT(30) DEF Client
  <2> HIDE DEF r, q
  <2>4. Sound(c, r)
    BY <2>2, <2>3, <1>7, <1>2 DEF Sound, RealFull, Ready
  <2>5. Keeps(p, r)
    BY <2>3 DEF Keeps, KeptFloating, KeptBorder
  <2>6. RealFull(p) /\ ~f => ~r.lock
    BY <1>7, <1>2, <2>3 DEF Ready, Sound, RealFull
  <2>7. QED
    BY <2>3, <2>4, <2>5, <2>6, <1>7 DEF r
<1>8. QED
  BY <1>4, <1>5, <1>6, <1>7

(* q differs from p in nothing that Keeps looks at. *)
Same(p, q) ==
  /\ q.lock = p.lock /\ q.saved = p.saved /\ q.floating = p.floating
  /\ q.bw = p.bw /\ q.oldbw = p.oldbw /\ q.old = p.old

(* ... nor in the fullscreen state, and fits its monitor if p does.        *)
Like(p, q) ==
  /\ q \in Client /\ Same(p, q)
  /\ q.full = p.full /\ q.fake = p.fake
  /\ p.lock => q.geo = Screen(q.mon)

\* A client like a sound one is sound, and keeps what that one had.
LEMMA LikeSound ==
  ASSUME NEW c, NEW p, NEW q, Sound(c, p), Like(p, q)
  PROVE  Sound(c, q) /\ Keeps(p, q)
<1>1. p \in Client /\ q \in Client
  BY DEF Sound, Like
<1>2. Sound(c, q)
  BY <1>1 DEF Sound, Like, Same, RealFull, Client
<1>3. Keeps(p, q)
  BY <1>1 DEF Like, Same, Keeps, KeptFloating, KeptBorder
<1>4. QED
  BY <1>2, <1>3

\* A sound client is like itself.
LEMMA LikeSelf ==
  ASSUME NEW c, NEW p, Sound(c, p)
  PROVE  Like(p, p)
  BY DEF Sound, Like, Same

\* Like is transitive.
LEMMA LikeLike ==
  ASSUME NEW p, NEW q, NEW r, Like(p, q), Like(q, r)
  PROVE  Like(p, r)
  BY DEF Like, Same

\* What is the same before a step is as good a start for it.
LEMMA SameKeeps ==
  ASSUME NEW p, NEW q, NEW r, Same(p, q), Keeps(q, r)
  PROVE  Keeps(p, r)
  BY DEF Same, Keeps, KeptFloating, KeptBorder

\* And what is like its result as good an end.
LEMMA KeepsLike ==
  ASSUME NEW p, NEW q, NEW r, Keeps(p, q), Like(q, r)
  PROVE  Keeps(p, r)
  BY DEF Like, Same, Keeps, KeptFloating, KeptBorder

-----------------------------------------------------------------------------
(* The window manager.                                                     *)

\* One client put into the window manager.
LEMMA PutType ==
  ASSUME NEW W \in WmState, NEW c \in Clients, NEW r \in Client
  PROVE  LET V == [W EXCEPT !.cl[c] = r]
         IN  /\ V \in WmState /\ V.cl = [W.cl EXCEPT ![c] = r] /\ V.cl[c] = r
             /\ \A d \in Clients \ {c} : V.cl[d] = W.cl[d]
             /\ V.sel = W.sel /\ V.selmon = W.selmon
  BY SMT DEF WmState

\* Another client selected on a monitor.
LEMMA SelType ==
  ASSUME NEW W \in WmState, NEW m \in Mons, NEW v \in Clients \cup {None}
  PROVE  LET V == [W EXCEPT !.sel[m] = v]
         IN  V \in WmState /\ V.cl = W.cl /\ V.selmon = W.selmon
  BY SMT DEF WmState

\* Another monitor selected.
LEMMA SelmonType ==
  ASSUME NEW W \in WmState, NEW m \in Mons
  PROVE  LET V == [W EXCEPT !.selmon = m]
         IN  V \in WmState /\ V.cl = W.cl /\ V.sel = W.sel
  BY SMT DEF WmState

(* arrange() only moves tiled clients. *)
LEMMA ArrangeLike ==
  ASSUME NEW W \in WmState, NEW m \in Mons, \A d \in Clients : Sound(d, W.cl[d])
  PROVE  LET V == Arrange(W, m)
         IN  /\ V \in WmState /\ V.sel = W.sel /\ V.selmon = W.selmon
             /\ \A d \in Clients : Like(W.cl[d], V.cl[d])
<1> DEFINE F(d) == IF d \in Shown(W, m) /\ ~W.cl[d].floating
                   THEN [W.cl[d] EXCEPT !.geo = Tile(m, W.cl[d].bw)] ELSE W.cl[d]
           cl == [d \in Clients |-> F(d)]
           V == Arrange(W, m)
<1>1. ASSUME NEW d \in Clients
      PROVE  F(d) \in Client /\ Like(W.cl[d], F(d))
  <2> DEFINE p == W.cl[d]
             q == [p EXCEPT !.geo = Tile(m, p.bw)]
  <2>1. p \in Client /\ Sound(d, p) /\ p.bw \in Int /\ p.floating \in BOOLEAN
    BY DEF WmState, Client
  <2>2. Tile(m, p.bw) \in Geo
    BY <2>1, GeoTypes
  <2> HIDE DEF p
  <2>3. q \in Client
    BY <2>1, <2>2, FieldTypes
  <2>4. ~p.floating => Like(p, q)
    <3>1. Same(p, q) /\ q.full = p.full /\ q.fake = p.fake
      BY <2>1 DEF Same, Client
    <3>2. QED
      BY <3>1, <2>1, <2>3 DEF Like, Sound
  <2>5. Like(p, p)
    BY <2>1, LikeSelf
  <2>6. QED
    BY <2>1, <2>3, <2>4, <2>5 DEF p
<1>2. cl \in [Clients -> Client]
  BY <1>1
<1>3. V = [W EXCEPT !.cl = cl]
  BY DEF Arrange
<1> HIDE DEF F
<1>4. V \in WmState /\ V.cl = cl /\ V.sel = W.sel /\ V.selmon = W.selmon
  <2> HIDE DEF cl, V
  <2>1. QED
    BY <1>2, <1>3 DEF WmState
<1>5. QED
  BY <1>1, <1>4

(* setfullscreen() on the whole: the other clients, which it may arrange,  *)
(* stay as they are.                                                       *)
LEMMA SetFull ==
  ASSUME NEW W \in WmState, NEW c \in Clients, NEW f \in BOOLEAN, Ready(c, W.cl[c], f),
         \A d \in Clients \ {c} : Sound(d, W.cl[d])
  PROVE  LET V == SetFullscreen(W, c, f)
         IN  /\ V \in WmState
             /\ \A d \in Clients \ {c} : Like(W.cl[d], V.cl[d])
             /\ Like(SetOne(c, W.cl[c], f), V.cl[c])
<1> DEFINE p       == W.cl[c]
           save    == f /\ (p.fake = 2 \/ (p.fake = 0 /\ ~p.full))
           restore == ~f /\ (p.fake >= 2 \/ (p.fake = 0 /\ p.full))
           refake  == p.fake = 2 /\ ~f /\ p.full
           q       == [p EXCEPT !.full = f \/ refake]
           r       == SetOne(c, p, f)
           P(x)    == [W EXCEPT !.cl[c] = x]
           V       == SetFullscreen(W, c, f)
<1>1. p \in Client /\ p.mon \in Mons /\ \A d \in Clients : W.cl[d] \in Client
  BY DEF WmState, Client
<1>2. Sound(c, r) /\ r \in Client /\ r.mon = p.mon
  <2> HIDE DEF p
  <2>1. QED
    BY SetOneSound DEF p, Sound
<1>3. /\ P(r) \in WmState /\ P(r).cl[c] = r /\ P(r).sel = W.sel
      /\ \A d \in Clients \ {c} : P(r).cl[d] = W.cl[d]
  <2> HIDE DEF r
  <2>1. QED
    BY <1>2, PutType
<1>4. \A d \in Clients : Sound(d, P(r).cl[d])
  BY <1>2, <1>3
<1> DEFINE Goal(U) == /\ U \in WmState
                      /\ \A d \in Clients \ {c} : Like(W.cl[d], U.cl[d])
                      /\ Like(r, U.cl[c])
<1>5. Goal(P(r))
  BY <1>2, <1>3, LikeSelf
<1>6. CASE f /\ c \in Never
  <2>1. V = W /\ r = p
    BY <1>6 DEF SetFullscreen, SetOne
  <2>2. QED
    BY <2>1, <1>2, LikeSelf
<1>7. CASE ~(f /\ c \in Never) /\ save /\ ~p.lock
  <2>1. r = Stored(q)
    BY <1>7 DEF SetOne
  <2>2. V = [P(r) EXCEPT !.sel[p.mon] = IF p.vis THEN c ELSE @]
    BY <1>7, <2>1 DEF SetFullscreen
  <2>3. (IF p.vis THEN c ELSE P(r).sel[p.mon]) \in Clients \cup {None}
    BY <1>1, <1>3 DEF WmState
  <2>4. V \in WmState /\ V.cl = P(r).cl
    <3> HIDE DEF V, P
    <3>1. QED
      BY <2>2, <2>3, <1>1, <1>3, SelType
  <2>5. QED
    BY <2>4, <1>5 DEF V
<1>8. CASE ~(f /\ c \in Never) /\ ~(save /\ ~p.lock) /\ restore /\ p.lock
  <2>1. r = Restored(q, refake)
    BY <1>8 DEF SetOne
  <2>2. V \in {P(r), Arrange(P(r), p.mon)}
    BY <1>8, <2>1 DEF SetFullscreen
  <2>3. Goal(Arrange(P(r), p.mon))
    <3> HIDE DEF P
    <3>1. Arrange(P(r), p.mon) \in WmState
          /\ \A d \in Clients : Like(P(r).cl[d], Arrange(P(r), p.mon).cl[d])
      BY <1>1, <1>3, <1>4, ArrangeLike
    <3>2. QED
      BY <3>1, <1>3
  <2>4. QED
    BY <2>2, <2>3, <1>5
<1>9. CASE ~(f /\ c \in Never) /\ ~(save /\ ~p.lock) /\ ~(restore /\ p.lock)
  <2>1. V = P(r)
    BY <1>9 DEF SetFullscreen, SetOne
  <2>2. QED
    BY <2>1, <1>5
<1>10. QED
  BY <1>6, <1>7, <1>8, <1>9

(* The same, as a step of each client from its record in W. *)
LEMMA SetFullKeeps ==
  ASSUME NEW W \in WmState, NEW c \in Clients, NEW f \in BOOLEAN, Ready(c, W.cl[c], f),
         \A d \in Clients \ {c} : Sound(d, W.cl[d])
  PROVE  LET V == SetFullscreen(W, c, f)
         IN  /\ V \in WmState
             /\ \A d \in Clients : Sound(d, V.cl[d]) /\ Keeps(W.cl[d], V.cl[d])
             /\ \A d \in Clients \ {c} : Like(W.cl[d], V.cl[d])
             /\ c \notin Never /\ ~(W.cl[c].fake = 2 /\ W.cl[c].full) => V.cl[c].full = f
<1> DEFINE p == W.cl[c]
           r == SetOne(c, p, f)
           V == SetFullscreen(W, c, f)
<1>1. /\ V \in WmState
      /\ \A d \in Clients \ {c} : Like(W.cl[d], V.cl[d])
      /\ Like(r, V.cl[c])
  BY SetFull
<1>2. /\ Sound(c, r) /\ Keeps(p, r)
      /\ c \notin Never /\ ~(p.fake = 2 /\ p.full) => r.full = f
  <2> HIDE DEF p
  <2>1. QED
    BY SetOneSound DEF p
<1> HIDE DEF V, r
<1>3. Sound(c, V.cl[c]) /\ Keeps(p, V.cl[c]) /\ V.cl[c].full = r.full
  BY <1>1, <1>2, LikeSound, KeepsLike DEF Like
<1>4. \A d \in Clients \ {c} : Sound(d, V.cl[d]) /\ Keeps(W.cl[d], V.cl[d])
  BY <1>1, LikeSound
<1>5. QED
  BY <1>1, <1>2, <1>3, <1>4 DEF V

(* A change of one client that setfullscreen() does not look at. *)
LEMMA LostLike ==
  ASSUME NEW c, NEW p, NEW b \in BOOLEAN, Sound(c, p)
  PROVE  Like(p, [p EXCEPT !.lost = b])
<1>1. p \in Client /\ [p EXCEPT !.lost = b] \in Client
  BY FieldTypes DEF Sound
<1>2. QED
  BY <1>1 DEF Sound, Like, Same, Client

(* focus(): of two clients, each is made fullscreen or the reverse at most *)
(* once; a client that is neither in view nor focused is not concerned.    *)
LEMMA FocusKeeps ==
  ASSUME NEW W \in WmState, NEW c \in Clients, \A d \in Clients : Sound(d, W.cl[d])
  PROVE  LET V == Focus(W, c)
         IN  /\ V \in WmState
             /\ \A d \in Clients : Sound(d, V.cl[d]) /\ Keeps(W.cl[d], V.cl[d])
             /\ \A d \in Clients \ {c} : ~W.cl[d].vis => Like(W.cl[d], V.cl[d])
             /\ (\A d \in Clients : ~W.cl[d].lock /\ ~W.cl[d].lost)
                  => \A d \in Clients : Like(W.cl[d], V.cl[d])
<1> DEFINE s     == W.sel[W.selmon]
           m     == W.cl[c].mon
           loses == s # c /\ Vis(W, s) /\ W.selmon = m /\ RealFull(W.cl[s])
           L     == [W EXCEPT !.cl[s].lost = TRUE]
           W1    == IF loses THEN SetFullscreen(L, s, FALSE) ELSE W
           Q1    == [W1 EXCEPT !.selmon = m]
           Q2    == [Q1 EXCEPT !.sel[m] = c]
           W2    == [Q2 EXCEPT !.cl[c] = [Q2.cl[c] EXCEPT !.lost = FALSE]]
           V     == Focus(W, c)
<1>1. m \in Mons /\ s \in Clients \cup {None} /\ \A d \in Clients : W.cl[d] \in Client
  BY DEF WmState, Client
<1>2. /\ W1 \in WmState
      /\ \A d \in Clients : Sound(d, W1.cl[d]) /\ Keeps(W.cl[d], W1.cl[d])
      /\ \A d \in Clients : d # s \/ ~W.cl[d].vis \/ ~W.cl[d].lock => Like(W.cl[d], W1.cl[d])
      /\ (\A d \in Clients : ~W.cl[d].lock) => W1 = W
  <2>1. CASE ~loses
    <3>1. W1 = W
      BY <2>1
    <3>2. QED
      BY <3>1, LikeSelf, LikeSound
  <2>2. CASE loses
    <3>1. s \in Clients /\ W.cl[s].vis /\ s # c /\ W.cl[s].lock
      BY <1>1, <2>2 DEF Vis, Sound
    <3>2. Like(W.cl[s], [W.cl[s] EXCEPT !.lost = TRUE])
      BY <3>1, LostLike
    <3>3. /\ L \in WmState /\ L.cl[s] = [W.cl[s] EXCEPT !.lost = TRUE]
          /\ \A d \in Clients \ {s} : L.cl[d] = W.cl[d]
      <4> DEFINE r == [W.cl[s] EXCEPT !.lost = TRUE]
      <4>1. L = [W EXCEPT !.cl[s] = r]
        OBVIOUS
      <4>2. r \in Client
        BY <3>2 DEF Like
      <4> HIDE DEF L, s, r
      <4>3. /\ L \in WmState /\ L.cl[s] = r
            /\ \A d \in Clients \ {s} : L.cl[d] = W.cl[d]
        BY <4>1, <4>2, <3>1, PutType
      <4>4. QED
        BY <4>3 DEF r
    <3>4. \A d \in Clients : Like(W.cl[d], L.cl[d]) /\ Sound(d, L.cl[d])
      BY <3>2, <3>3, LikeSelf, LikeSound
    <3> HIDE DEF L, s
    <3>5. /\ W1 \in WmState
          /\ \A d \in Clients : Sound(d, W1.cl[d]) /\ Keeps(L.cl[d], W1.cl[d])
          /\ \A d \in Clients \ {s} : Like(L.cl[d], W1.cl[d])
      BY <2>2, <3>1, <3>3, <3>4, SetFullKeeps DEF Ready
    <3>6. \A d \in Clients : Keeps(W.cl[d], W1.cl[d])
      BY <3>4, <3>5, SameKeeps DEF Like
    <3>7. \A d \in Clients : d # s \/ ~W.cl[d].vis \/ ~W.cl[d].lock => Like(W.cl[d], W1.cl[d])
      BY <3>1, <3>4, <3>5, LikeLike
    <3>8. QED
      BY <3>1, <3>5, <3>6, <3>7
  <2>3. QED
    BY <2>1, <2>2
<1>3. s # c \/ ~loses
  OBVIOUS
<1>4. Like(W.cl[c], W1.cl[c])
  <2>1. CASE loses
    BY <1>2, <2>1
  <2>2. CASE ~loses
    BY <2>2, LikeSelf
  <2>3. QED
    BY <2>1, <2>2
<1>5. V = IF W1.cl[c].lost /\ W1.cl[c].fake # 1 THEN SetFullscreen(W2, c, TRUE) ELSE W2
  <2>1. W2 = [W1 EXCEPT !.selmon = m, !.sel[m] = c, !.cl[c].lost = FALSE]
    <3> HIDE DEF W1, m
    <3>1. QED
      BY <1>2 DEF WmState
  <2>2. QED
    BY <2>1 DEF Focus
<1> HIDE DEF W1, V
<1>6. /\ W2 \in WmState /\ W2.cl[c] = [W1.cl[c] EXCEPT !.lost = FALSE]
      /\ \A d \in Clients \ {c} : W2.cl[d] = W1.cl[d]
  <2> HIDE DEF m
  <2>1. Q1 \in WmState /\ Q1.cl = W1.cl
    BY <1>1, <1>2, SelmonType
  <2> HIDE DEF Q1
  <2>2. Q2 \in WmState /\ Q2.cl = W1.cl
    BY <1>1, <2>1, SelType
  <2> HIDE DEF Q2
  <2> DEFINE r == [W1.cl[c] EXCEPT !.lost = FALSE]
  <2>3. r \in Client
    BY <1>2, FieldTypes DEF Sound
  <2>4. W2 = [Q2 EXCEPT !.cl[c] = r]
    BY <2>2
  <2> HIDE DEF W2, r
  <2>5. /\ W2 \in WmState /\ W2.cl[c] = r
        /\ \A d \in Clients \ {c} : W2.cl[d] = W1.cl[d]
    BY <2>2, <2>3, <2>4, PutType
  <2>6. QED
    BY <2>5 DEF r
<1>7. \A d \in Clients : Like(W1.cl[d], W2.cl[d]) /\ Sound(d, W2.cl[d])
  <2>1. \A d \in Clients : Sound(d, W1.cl[d])
    BY <1>2
  <2> HIDE DEF W2
  <2>2. Like(W1.cl[c], W2.cl[c])
    <3>1. Like(W1.cl[c], [W1.cl[c] EXCEPT !.lost = FALSE])
      BY <2>1, LostLike
    <3>2. QED
      BY <3>1, <1>6
  <2>3. \A d \in Clients : Like(W1.cl[d], W2.cl[d])
    BY <2>1, <2>2, <1>6, LikeSelf
  <2>4. QED
    BY <2>1, <2>3, LikeSound
<1> HIDE DEF W2, loses, s, m
<1>8. CASE V = W2
  <2>1. \A d \in Clients : Keeps(W.cl[d], V.cl[d])
    BY <1>2, <1>7, <1>8, KeepsLike
  <2>2. \A d \in Clients \ {c} : ~W.cl[d].vis => Like(W.cl[d], V.cl[d])
    BY <1>2, <1>7, <1>8, LikeLike
  <2>3. (\A d \in Clients : ~W.cl[d].lock) => \A d \in Clients : Like(W.cl[d], V.cl[d])
    BY <1>2, <1>7, <1>8
  <2>4. QED
    BY <1>6, <1>7, <1>8, <2>1, <2>2, <2>3 DEF V
<1>9. CASE V = SetFullscreen(W2, c, TRUE) /\ W1.cl[c].lost
  <2>1. /\ V \in WmState
        /\ \A d \in Clients : Sound(d, V.cl[d]) /\ Keeps(W2.cl[d], V.cl[d])
        /\ \A d \in Clients \ {c} : Like(W2.cl[d], V.cl[d])
    BY <1>6, <1>7, <1>9, SetFullKeeps DEF Ready
  <2>2. \A d \in Clients \ {c} : Like(W1.cl[d], V.cl[d])
    BY <1>7, <2>1, LikeLike
  <2>3. \A d \in Clients \ {c} : Keeps(W.cl[d], V.cl[d])
    BY <1>2, <2>2, KeepsLike
  <2>4. Keeps(W.cl[c], V.cl[c])
    <3>1. Same(W.cl[c], W2.cl[c])
      BY <1>4, <1>7, LikeLike DEF Like
    <3>2. QED
      BY <3>1, <2>1, SameKeeps
  <2>5. \A d \in Clients \ {c} : ~W.cl[d].vis => Like(W.cl[d], V.cl[d])
    BY <1>2, <2>2, LikeLike
  <2>6. (\A d \in Clients : ~W.cl[d].lock) => W.cl[c].lost
    BY <1>2, <1>9
  <2>7. QED
    BY <2>1, <2>3, <2>4, <2>5, <2>6 DEF V
<1>10. QED
  BY <1>5, <1>8, <1>9

(* focus(NULL): the same of any client it may choose. *)
LEMMA FocusAnyKeeps ==
  ASSUME NEW W \in WmState, \A d \in Clients : Sound(d, W.cl[d]), NEW V \in FocusAny(W)
  PROVE  /\ V \in WmState
         /\ \A d \in Clients : Sound(d, V.cl[d]) /\ Keeps(W.cl[d], V.cl[d])
         /\ \A d \in Clients : ~W.cl[d].vis => Like(W.cl[d], V.cl[d])
         /\ (\A d \in Clients : ~W.cl[d].lock /\ ~W.cl[d].lost)
              => \A d \in Clients : Like(W.cl[d], V.cl[d])
<1>1. CASE Shown(W, W.selmon) = {}
  <2>1. V = [W EXCEPT !.sel[W.selmon] = None]
    BY <1>1 DEF FocusAny
  <2>2. V \in WmState /\ V.cl = W.cl
    <3>1. W.selmon \in Mons /\ None \in Clients \cup {None}
      BY DEF WmState
    <3> HIDE DEF WmState
    <3>2. QED
      BY <2>1, <3>1, SelType
  <2>3. QED
    BY <2>2, LikeSelf, LikeSound
<1>2. CASE Shown(W, W.selmon) # {}
  <2>1. PICK c \in Shown(W, W.selmon) : V = Focus(W, c)
    BY <1>2 DEF FocusAny
  <2>2. c \in Clients /\ W.cl[c].vis
    BY DEF Shown
  <2>3. QED
    BY <2>1, <2>2, FocusKeeps
<1>3. QED
  BY <1>1, <1>2

-----------------------------------------------------------------------------
(* The steps.                                                              *)

(* What the step properties of the specification say of one client. *)
KeepsFull(p, q) ==
  /\ RealFull(p) \/ RealFull(q) => KeptFloating(q) = KeptFloating(p) /\ KeptBorder(q) = KeptBorder(p)
  /\ p.lock /\ q.lock => q.old = p.old

(* W may follow on wm. *)
Held(W) ==
  /\ W \in WmState
  /\ \A c \in Clients : Sound(c, W.cl[c]) /\ KeepsFull(wm.cl[c], W.cl[c])

Safe == IInv' /\ \A c \in Clients : KeepsFull(wm.cl[c], wm'.cl[c])

\* Keeps says no less than KeepsFull.
LEMMA KeepsIsFull ==
  ASSUME NEW p, NEW q, Keeps(p, q)
  PROVE  KeepsFull(p, q)
  BY DEF Keeps, KeepsFull

\* What the invariant says of the window manager.
LEMMA WmType == IInv => wm \in WmState /\ \A c \in Clients : Sound(c, wm.cl[c]) /\ wm.cl[c] \in Client
  BY DEF IInv, TypeOK, WmState, Sound

\* A step is safe if what it publishes is a window manager that holds.
LEMMA PublishSafe ==
  ASSUME IInv, Held(wm'), Publish, msg' \in [Clients -> Ops \cup {"none"}]
  PROVE  Safe
<1>1. /\ prop \in [Clients -> BOOLEAN] /\ notify \in [Clients -> BOOLEAN]
      /\ \A c \in Clients \ Never : ~notify[c] => (prop[c] <=> wm.cl[c].full)
  BY DEF IInv, TypeOK, StatesAgree
<1>2. \A c \in Clients : wm'.cl[c].full \in BOOLEAN /\ wm.cl[c].full \in BOOLEAN
  BY WmType DEF Held, Sound, Client
<1>3. prop' \in [Clients -> BOOLEAN] /\ notify' \in [Clients -> BOOLEAN]
  BY <1>1, <1>2 DEF Publish
<1>4. StatesAgree'
  <2> SUFFICES ASSUME NEW c \in Clients \ Never, ~notify'[c]
               PROVE  prop'[c] <=> wm'.cl[c].full
    BY DEF StatesAgree
  <2>1. ~notify[c] /\ wm'.cl[c].full = wm.cl[c].full
    BY <1>1, <1>2 DEF Publish
  <2>2. prop'[c] = prop[c]
    BY <2>1, <1>2 DEF Publish
  <2>3. QED
    BY <2>1, <2>2, <1>1
<1>5. TypeOK'
  BY <1>3 DEF TypeOK, Held, WmState
<1>6. QED
  BY <1>4, <1>5 DEF Safe, IInv, Held

\* So is a handler that ends in one.
LEMMA HandleSafe ==
  ASSUME IInv, NEW W, Held(W), Handle(W)
  PROVE  Safe
<1>1. Held(wm') /\ Publish /\ msg' \in [Clients -> Ops \cup {"none"}]
  BY DEF Handle, Held, IInv, TypeOK
<1>2. QED
  BY <1>1, PublishSafe

(* Of a change of one client alone. *)
LEMMA PutHeld ==
  ASSUME IInv, NEW c \in Clients, NEW r, Sound(c, r), KeepsFull(wm.cl[c], r)
  PROVE  Held([wm EXCEPT !.cl[c] = r])
<1>1. r \in Client /\ wm \in WmState /\ \A d \in Clients : Sound(d, wm.cl[d])
  BY WmType DEF Sound
<1>2. \A d \in Clients : KeepsFull(wm.cl[d], wm.cl[d])
  BY DEF KeepsFull
<1> DEFINE V == [wm EXCEPT !.cl[c] = r]
<1>3. V \in WmState /\ V.cl[c] = r /\ \A d \in Clients \ {c} : V.cl[d] = wm.cl[d]
  BY <1>1, PutType
<1> HIDE DEF V
<1>4. Held(V)
  BY <1>1, <1>2, <1>3 DEF Held
<1>5. QED
  BY <1>4 DEF V

(* Of a setfullscreen() after a change of its client that makes it ready. *)
LEMMA SetHeld ==
  ASSUME IInv, NEW c \in Clients, NEW f \in BOOLEAN, NEW r,
         r \in Client, Ready(c, r, f), Same(wm.cl[c], r)
  PROVE  Held(SetFullscreen([wm EXCEPT !.cl[c] = r], c, f))
<1> DEFINE V == [wm EXCEPT !.cl[c] = r]
           U == SetFullscreen(V, c, f)
<1>1. wm \in WmState /\ \A d \in Clients : Sound(d, wm.cl[d])
  BY WmType
<1>2. V \in WmState /\ V.cl[c] = r /\ \A d \in Clients \ {c} : V.cl[d] = wm.cl[d]
  BY <1>1, PutType
<1> HIDE DEF V
<1>3. /\ U \in WmState
      /\ \A d \in Clients : Sound(d, U.cl[d]) /\ Keeps(V.cl[d], U.cl[d])
  BY <1>1, <1>2, SetFullKeeps
<1>4. Keeps(wm.cl[c], U.cl[c])
  BY <1>2, <1>3, SameKeeps
<1>5. Held(U)
  BY <1>2, <1>3, <1>4, KeepsIsFull DEF Held
<1>6. QED
  BY <1>5 DEF V

(* Of a step that follows on changes setfullscreen() does not look at. *)
LEMMA LikeHeld ==
  ASSUME NEW W, NEW V \in WmState,
         \A d \in Clients : Like(wm.cl[d], W.cl[d]),
         \A d \in Clients : Sound(d, V.cl[d]) /\ Keeps(W.cl[d], V.cl[d])
  PROVE  Held(V)
<1>1. \A d \in Clients : Keeps(wm.cl[d], V.cl[d])
  BY SameKeeps DEF Like
<1>2. QED
  BY <1>1, KeepsIsFull DEF Held

\* A client is focused.
LEMMA FocusClientSafe ==
  ASSUME IInv, NEW c \in Clients, FocusClient(c)
  PROVE  Safe
<1>1. wm \in WmState /\ \A d \in Clients : Sound(d, wm.cl[d])
  BY WmType
<1>2. Held(Focus(wm, c))
  BY <1>1, FocusKeeps, KeepsIsFull DEF Held
<1>3. QED
  BY <1>2, HandleSafe DEF FocusClient

\* A client comes into view or goes out of it.
LEMMA ViewSafe ==
  ASSUME IInv, NEW c \in Clients, View(c)
  PROVE  Safe
<1> DEFINE p == wm.cl[c]
           m == p.mon
           r == [p EXCEPT !.vis = ~@]
           U == [wm EXCEPT !.cl[c] = r]
           T == [U EXCEPT !.selmon = m]
           V == Arrange(T, m)
<1>1. /\ wm \in WmState /\ (\A d \in Clients : Sound(d, wm.cl[d]))
      /\ p \in Client /\ m \in Mons /\ p.vis \in BOOLEAN
  BY WmType DEF Client
<1>2. r \in Client /\ Like(p, r)
  <2> DEFINE b == ~p.vis
  <2>1. b \in BOOLEAN
    OBVIOUS
  <2>2. r = [p EXCEPT !.vis = b]
    BY <1>1 DEF Client
  <2>3. Sound(c, p)
    BY <1>1
  <2> HIDE DEF b, p
  <2>4. r \in Client
    BY <1>1, <2>1, <2>2, FieldTypes
  <2>5. Same(p, r) /\ r.full = p.full /\ r.fake = p.fake /\ r.geo = p.geo /\ r.mon = p.mon
    BY <1>1, <2>2 DEF Same, Client
  <2>6. QED
    BY <2>3, <2>4, <2>5 DEF Like, Sound
<1>3. PICK W \in FocusAny(V) : Handle(W)
  <2>1. T = [wm EXCEPT !.cl[c].vis = ~@, !.selmon = m]
    OBVIOUS
  <2>2. QED
    BY <2>1 DEF View
<1> HIDE DEF r, p
<1>4. U \in WmState /\ U.cl[c] = r /\ \A d \in Clients \ {c} : U.cl[d] = wm.cl[d]
  BY <1>1, <1>2, PutType
<1> HIDE DEF U
<1>5. T \in WmState /\ T.cl = U.cl
  BY <1>1, <1>4, SelmonType
<1> HIDE DEF T
<1>6. \A d \in Clients : Like(wm.cl[d], T.cl[d]) /\ Sound(d, T.cl[d])
  BY <1>1, <1>2, <1>4, <1>5, LikeSelf, LikeSound DEF p
<1>7. V \in WmState /\ \A d \in Clients : Like(T.cl[d], V.cl[d])
  BY <1>1, <1>5, <1>6, ArrangeLike
<1> HIDE DEF V, m
<1>8. \A d \in Clients : Like(wm.cl[d], V.cl[d]) /\ Sound(d, V.cl[d])
  BY <1>6, <1>7, LikeLike, LikeSound
<1>9. W \in WmState /\ \A d \in Clients : Sound(d, W.cl[d]) /\ Keeps(V.cl[d], W.cl[d])
  BY <1>7, <1>8, FocusAnyKeeps
<1>10. Held(W)
  BY <1>8, <1>9, LikeHeld
<1>11. QED
  BY <1>3, <1>10, HandleSafe

(* What the toggles do first. *)
LEMMA FakeTwo ==
  ASSUME NEW c \in Clients, NEW p, Sound(c, p)
  PROVE  LET r == [p EXCEPT !.fake = 2]
         IN  /\ r \in Client /\ Same(p, r)
             /\ p.fake = 1 => Ready(c, r, TRUE) \/ (p.full /\ c \in Never)
             /\ p.full /\ p.fake = 0 => Ready(c, r, FALSE)
<1> DEFINE r == [p EXCEPT !.fake = 2]
<1>1. p \in Client /\ 2 \in 0..3
  BY DEF Sound
<1>2. r \in Client
  BY <1>1, FieldTypes
<1>3. Same(p, r) /\ r.full = p.full /\ r.fake = 2 /\ r.geo = p.geo /\ r.mon = p.mon
  BY <1>1 DEF Same, Client
<1>4. p.full \in BOOLEAN /\ p.lock \in BOOLEAN
  BY <1>1 DEF Client
<1> HIDE DEF r
<1>5. p.fake = 1 => ~p.lock
  BY DEF Sound, RealFull
<1>6. QED
  BY <1>2, <1>3, <1>4, <1>5 DEF r, Ready, Sound, RealFull, Same

\* togglefullscreen, on the selected client.
LEMMA ToggleFullscreenSafe ==
  ASSUME IInv, togglefullscreen
  PROVE  Safe
<1> DEFINE c == Sel
           p == wm.cl[c]
           r == [p EXCEPT !.fake = 2]
<1>1. /\ c \in Clients /\ wm \in WmState /\ Sound(c, p) /\ p \in Client /\ p.full \in BOOLEAN
  BY WmType DEF WmState, Sel, togglefullscreen, Client
<1>2. CASE p.fake = 1
  <2>1. Handle(SetFullscreen([wm EXCEPT !.cl[c] = r], c, TRUE))
    BY <1>2 DEF togglefullscreen
  <2> HIDE DEF c, p
  <2>2. r \in Client /\ Same(p, r) /\ Ready(c, r, TRUE)
    BY <1>1, <1>2, FakeTwo DEF Sound
  <2> HIDE DEF r
  <2>3. Held(SetFullscreen([wm EXCEPT !.cl[c] = r], c, TRUE))
    BY <1>1, <2>2, SetHeld DEF p
  <2>4. QED
    BY <2>1, <2>3, HandleSafe
<1>3. CASE p.fake # 1
  <2>1. Handle(SetFullscreen(wm, c, ~p.full))
    BY <1>3 DEF togglefullscreen
  <2> HIDE DEF c
  <2>2. Held(SetFullscreen(wm, c, ~p.full))
    <3> DEFINE f == ~p.full
    <3>1. f \in BOOLEAN
      OBVIOUS
    <3> HIDE DEF f
    <3>2. Held(SetFullscreen(wm, c, f))
      BY <1>1, <3>1, WmType, SetFullKeeps, KeepsIsFull DEF Ready, Held
    <3>3. QED
      BY <3>2 DEF f
  <2>3. QED
    BY <2>1, <2>2, HandleSafe
<1>4. QED
  BY <1>2, <1>3

\* togglefakefullscreen, on the selected client.
LEMMA ToggleFakeSafe ==
  ASSUME IInv, togglefakefullscreen
  PROVE  Safe
<1> DEFINE c == Sel
           p == wm.cl[c]
           r == [p EXCEPT !.fake = 2]
           other == IF p.fake = 1 THEN 0 ELSE 1
           t == [p EXCEPT !.fake = other]
           f == p.fake = 1
<1>1. /\ c \in Clients /\ wm \in WmState /\ Sound(c, p) /\ p \in Client
      /\ p.full \in BOOLEAN /\ p.fake \in 0..3 /\ p.lock \in BOOLEAN /\ other \in 0..3
  BY WmType DEF WmState, Sel, togglefakefullscreen, Client
<1>2. CASE p.full
  <2>1. Handle(SetFullscreen([wm EXCEPT !.cl[c] = r], c, f))
    BY <1>2 DEF togglefakefullscreen
  <2> HIDE DEF c, p
  <2>2. r \in Client /\ Same(p, r) /\ Ready(c, r, f)
    <3>1. p.fake \in {0, 1} /\ c \notin Never
      BY <1>1, <1>2 DEF Sound
    <3>2. CASE p.fake = 1
      BY <3>1, <3>2, <1>1, <1>2, FakeTwo
    <3>3. CASE p.fake = 0
      <4>1. r \in Client /\ Same(p, r) /\ Ready(c, r, FALSE)
        BY <3>3, <1>1, <1>2, FakeTwo
      <4>2. f = FALSE
        BY <3>3
      <4> HIDE DEF r, f
      <4>3. QED
        BY <4>1, <4>2
    <3>4. QED
      BY <3>1, <3>2, <3>3
  <2>3. f \in BOOLEAN
    OBVIOUS
  <2> HIDE DEF r, f
  <2>4. Held(SetFullscreen([wm EXCEPT !.cl[c] = r], c, f))
    BY <1>1, <2>2, <2>3, SetHeld DEF p
  <2>5. QED
    BY <2>1, <2>4, HandleSafe
<1>3. CASE ~p.full
  <2>1. Handle([wm EXCEPT !.cl[c] = t])
    BY <1>3 DEF togglefakefullscreen
  <2>2. t \in Client
    <3> HIDE DEF c, p, other
    <3>1. QED
      BY <1>1, FieldTypes
  <2>3. /\ t.full = p.full /\ t.lock = p.lock /\ t.fake = other
    BY <1>1 DEF Client
  <2>4. t.fake \in {0, 1}
    BY <2>3
  <2> HIDE DEF c, p, t, other
  <2>5. Sound(c, t) /\ KeepsFull(p, t)
    BY <1>1, <1>3, <2>2, <2>3, <2>4 DEF Sound, KeepsFull, RealFull
  <2>6. Held([wm EXCEPT !.cl[c] = t])
    BY <1>1, <2>5, PutHeld DEF p
  <2>7. QED
    BY <2>1, <2>6, HandleSafe
<1>4. QED
  BY <1>2, <1>3, <1>1

(* togglefloating leaves real fullscreen alone, and it may arrange. *)
LEMMA ArrangeHeld ==
  ASSUME IInv, NEW c \in Clients, NEW r, NEW m \in Mons,
         Sound(c, r), ~RealFull(wm.cl[c]), ~RealFull(r)
  PROVE  Held(Arrange([wm EXCEPT !.cl[c] = r], m))
<1> DEFINE V == [wm EXCEPT !.cl[c] = r]
           U == Arrange(V, m)
<1>1. r \in Client /\ wm \in WmState /\ \A d \in Clients : Sound(d, wm.cl[d])
  BY WmType DEF Sound
<1>2. V \in WmState /\ V.cl[c] = r /\ \A d \in Clients \ {c} : V.cl[d] = wm.cl[d]
  BY <1>1, PutType
<1> HIDE DEF V
<1>3. U \in WmState /\ \A d \in Clients : Like(V.cl[d], U.cl[d]) /\ Sound(d, U.cl[d])
  BY <1>1, <1>2, ArrangeLike, LikeSound
<1> HIDE DEF U
<1>4. KeepsFull(wm.cl[c], U.cl[c])
  <2>1. ~RealFull(U.cl[c]) /\ ~wm.cl[c].lock
    BY <1>1, <1>2, <1>3 DEF Like, RealFull, Sound
  <2>2. QED
    BY <2>1 DEF KeepsFull
<1>5. \A d \in Clients \ {c} : KeepsFull(wm.cl[d], U.cl[d])
  BY <1>2, <1>3, KeepsIsFull, LikeSound, <1>1
<1>6. QED
  BY <1>3, <1>4, <1>5 DEF Held, U, V

\* A geometry moved into a monitor is one.
LEMMA InsideType ==
  ASSUME NEW m \in Mons, NEW bw \in Int, NEW g \in Geo
  PROVE  Inside(m, bw, g) \in Geo
<1> DEFINE w == Smaller(Larger(g.w, 1), MW - 2 * bw)
           x == Larger(MX[m], Smaller(g.x, MX[m] + MW - w - 2 * bw))
<1>1. w \in Int
  BY DEF Geo, Larger, Smaller
<1> HIDE DEF w
<1>2. x \in Int
  BY <1>1 DEF Geo, Larger, Smaller
<1>3. QED
  BY <1>1, <1>2 DEF Inside, Geo, w

\* togglefloating, on the selected client.
LEMMA ToggleFloatingSafe ==
  ASSUME IInv, togglefloating
  PROVE  Safe
<1> DEFINE c == Sel
           p == wm.cl[c]
<1>1. /\ c \in Clients /\ Sound(c, p) /\ p \in Client /\ ~RealFull(p)
      /\ p.mon \in Mons /\ p.bw \in Int /\ p.geo \in Geo /\ ~p.lock
  BY WmType DEF WmState, Sel, togglefloating, Client, Sound
<1>2. CASE p.floating
  <2> DEFINE r == [p EXCEPT !.floating = FALSE]
  <2>1. Handle(Arrange([wm EXCEPT !.cl[c] = r], p.mon))
    BY <1>2 DEF togglefloating
  <2> HIDE DEF c, p
  <2>2. r \in Client
    BY <1>1, FieldTypes
  <2>3. r.full = p.full /\ r.fake = p.fake /\ r.lock = p.lock
    BY <1>1 DEF Client
  <2> HIDE DEF r
  <2>4. Sound(c, r) /\ ~RealFull(r)
    BY <1>1, <2>2, <2>3 DEF Sound, RealFull
  <2>5. Held(Arrange([wm EXCEPT !.cl[c] = r], p.mon))
    BY <1>1, <2>4, ArrangeHeld DEF p
  <2>6. QED
    BY <2>1, <2>5, HandleSafe
<1>3. CASE ~p.floating
  <2>1. PICK g \in {p.geo} \cup {[h EXCEPT !.x = @ + MX[p.mon]] : h \in Floats \ {NoGeo}} :
          Handle([wm EXCEPT !.cl[c].floating = TRUE, !.cl[c].geo = Inside(p.mon, p.bw, g)])
    BY <1>3 DEF togglefloating
  <2>2. g \in Geo
    BY <1>1 DEF Geo
  <2> DEFINE i == Inside(p.mon, p.bw, g)
             q == [p EXCEPT !.floating = TRUE]
             r == [q EXCEPT !.geo = i]
  <2>3. Handle([wm EXCEPT !.cl[c] = r])
    <3> DEFINE V == [wm EXCEPT !.cl[c].floating = TRUE, !.cl[c].geo = i]
    <3>1. wm \in WmState /\ c \in Clients
      BY <1>1, WmType
    <3>2. V = [wm EXCEPT !.cl[c] = r]
      <4> HIDE DEF c, i
      <4>1. QED
        BY <3>1 DEF WmState
    <3>3. QED
      BY <2>1, <3>2
  <2> HIDE DEF c, p
  <2>4. i \in Geo
    BY <1>1, <2>2, InsideType
  <2> HIDE DEF i
  <2>5. q \in Client
    BY <1>1, FieldTypes
  <2>6. q.full = p.full /\ q.fake = p.fake /\ q.lock = p.lock
    BY <1>1 DEF Client
  <2> HIDE DEF q
  <2>7. r \in Client /\ r.full = q.full /\ r.fake = q.fake /\ r.lock = q.lock
    <3>1. r \in Client
      BY <2>4, <2>5, FieldTypes
    <3>2. QED
      BY <3>1, <2>5 DEF Client
  <2> HIDE DEF r
  <2>8. Sound(c, r) /\ KeepsFull(p, r)
    BY <1>1, <2>6, <2>7 DEF Sound, RealFull, KeepsFull
  <2>9. Held([wm EXCEPT !.cl[c] = r])
    BY <1>1, <2>8, PutHeld DEF p
  <2>10. QED
    BY <2>3, <2>9, HandleSafe
<1>4. QED
  BY <1>2, <1>3

(* A client changes its border or window type, or where it floats: none of *)
(* it is a change of what a client in real fullscreen goes back to.        *)
LEMMA OwnChange ==
  ASSUME NEW c \in Clients, NEW p, Sound(c, p), NEW b \in Int, NEW g \in Geo, NEW floating \in BOOLEAN,
         RealFull(p) => floating /\ g = p.geo
  PROVE  LET q == [p EXCEPT !.bw = b]
             s == [q EXCEPT !.geo = g]
             r == [s EXCEPT !.floating = floating]
         IN  Sound(c, r) /\ KeepsFull(p, r)
<1> DEFINE q == [p EXCEPT !.bw = b]
           s == [q EXCEPT !.geo = g]
           r == [s EXCEPT !.floating = floating]
<1>1. p \in Client
  BY DEF Sound
<1>2. q \in Client
  BY <1>1, FieldTypes
<1>3. /\ q.full = p.full /\ q.fake = p.fake /\ q.lock = p.lock /\ q.saved = p.saved
      /\ q.oldbw = p.oldbw /\ q.old = p.old /\ q.mon = p.mon
  BY <1>1 DEF Client
<1> HIDE DEF q
<1>4. s \in Client
  BY <1>2, FieldTypes
<1>5. /\ s.full = q.full /\ s.fake = q.fake /\ s.lock = q.lock /\ s.saved = q.saved
      /\ s.oldbw = q.oldbw /\ s.old = q.old /\ s.mon = q.mon /\ s.geo = g
  BY <1>2 DEF Client
<1> HIDE DEF s
<1>6. r \in Client
  BY <1>4, FieldTypes
<1>7. /\ r.full = s.full /\ r.fake = s.fake /\ r.lock = s.lock /\ r.saved = s.saved
      /\ r.oldbw = s.oldbw /\ r.old = s.old /\ r.mon = s.mon /\ r.geo = s.geo
      /\ r.floating = floating
  BY <1>4 DEF Client
<1> HIDE DEF r
<1>8. RealFull(p) <=> RealFull(r)
  BY <1>3, <1>5, <1>7 DEF RealFull
<1>9. Sound(c, r)
  BY <1>3, <1>5, <1>6, <1>7, <1>8 DEF Sound
<1>10. KeepsFull(p, r)
  <2>1. p.lock = TRUE \/ ~RealFull(p)
    BY DEF Sound
  <2>2. QED
    BY <2>1, <1>3, <1>5, <1>7, <1>8, <1>1 DEF KeepsFull, KeptFloating, KeptBorder, Sound
<1>11. QED
  BY <1>9, <1>10 DEF q, s, r

\* A client asks for another geometry.
LEMMA ConfigureSafe ==
  ASSUME IInv, NEW c \in Clients, NEW a \in Requests, configurerequest(c, a)
  PROVE  Safe
<1> DEFINE p  == wm.cl[c]
           bw == IF "bw" \in DOMAIN a THEN a["bw"] ELSE p.bw
           w  == IF "w" \in DOMAIN a THEN a["w"] ELSE p.geo.w
           x  == IF "x" \in DOMAIN a THEN a["x"] ELSE p.geo.x
           cx == IF x + w > MX[p.mon] + MW THEN MX[p.mon] + (MW \div 2) - ((w + 2 * bw) \div 2) ELSE x
           g  == IF p.floating /\ ~RealFull(p) THEN [x |-> cx, w |-> w] ELSE p.geo
           q  == [p EXCEPT !.bw = bw]
           s  == [q EXCEPT !.geo = g]
           r  == [s EXCEPT !.floating = p.floating]
<1>1. /\ wm \in WmState /\ Sound(c, p) /\ p \in Client
      /\ p.mon \in Mons /\ p.bw \in Int /\ p.geo \in Geo /\ p.floating \in BOOLEAN
      /\ RealFull(p) => p.floating
  BY WmType DEF Client, Sound
<1>2. bw \in Int /\ w \in Int /\ x \in Int
  BY <1>1 DEF Geo
<1>3. MX[p.mon] \in Int
  BY <1>1
<1>4. Handle([wm EXCEPT !.cl[c] = r])
  <2>1. Handle([wm EXCEPT !.cl[c].bw = bw, !.cl[c].geo = g])
    BY <1>1 DEF configurerequest, WmState
  <2>2. [wm EXCEPT !.cl[c].bw = bw, !.cl[c].geo = g] = [wm EXCEPT !.cl[c] = s]
    <3> HIDE DEF bw, g
    <3>1. QED
      BY <1>1 DEF WmState
  <2>3. r = s
    <3>1. s.floating = p.floating
      <4> HIDE DEF bw, g, p
      <4>1. QED
        BY <1>1 DEF Client
    <3>2. s \in [DOMAIN s -> {s[k] : k \in DOMAIN s}]
      BY <1>1 DEF Client
    <3> HIDE DEF s
    <3>3. QED
      BY <3>1, <3>2
  <2>4. QED
    BY <2>1, <2>2, <2>3
<1> HIDE DEF bw, w, x, p
<1>5. (MW \div 2) \in Int /\ ((w + 2 * bw) \div 2) \in Int
  BY <1>2
<1>6. cx \in Int
  BY <1>2, <1>3, <1>5
<1> HIDE DEF cx
<1>7. g \in Geo /\ (RealFull(p) => g = p.geo)
  BY <1>1, <1>2, <1>6 DEF Geo
<1> HIDE DEF g
<1>8. Sound(c, r) /\ KeepsFull(p, r)
  BY <1>1, <1>2, <1>7, OwnChange
<1> HIDE DEF r
<1>9. Held([wm EXCEPT !.cl[c] = r])
  BY <1>8, PutHeld DEF p
<1>10. QED
  BY <1>4, <1>9, HandleSafe

\* A client says what type its window is.
LEMMA WindowTypeSafe ==
  ASSUME IInv, NEW c \in Clients, NEW t, updatewindowtype(c, t)
  PROVE  Safe
<1> DEFINE p == wm.cl[c]
           b == IF t = "splash" THEN p.oldbw ELSE p.bw
           q == [p EXCEPT !.bw = b]
           s == [q EXCEPT !.geo = p.geo]
           r == [s EXCEPT !.floating = TRUE]
           v == [p EXCEPT !.floating = TRUE, !.bw = b]
<1>1. /\ wm \in WmState /\ Sound(c, p) /\ p \in Client
      /\ p.bw \in Int /\ p.oldbw \in Int /\ p.geo \in Geo
  BY WmType DEF Client
<1>2. b \in Int
  BY <1>1
<1>3. Handle([wm EXCEPT !.cl[c] = v])
  <2>1. Handle([wm EXCEPT !.cl[c].floating = TRUE, !.cl[c].bw = b])
    BY <1>1 DEF updatewindowtype, WmState
  <2>2. [wm EXCEPT !.cl[c].floating = TRUE, !.cl[c].bw = b] = [wm EXCEPT !.cl[c] = v]
    <3> HIDE DEF b
    <3>1. QED
      BY <1>1 DEF WmState
  <2>3. QED
    BY <2>1, <2>2
<1> HIDE DEF p, b
<1>4. r = v
  BY <1>1 DEF Client
<1>5. Sound(c, r) /\ KeepsFull(p, r)
  BY <1>1, <1>2, OwnChange
<1> HIDE DEF r, v
<1>6. Held([wm EXCEPT !.cl[c] = v])
  BY <1>4, <1>5, PutHeld DEF p
<1>7. QED
  BY <1>3, <1>6, HandleSafe

\* The selected client goes to another monitor.
LEMMA SendmonSafe ==
  ASSUME IInv, NEW m \in Mons, sendmon(m)
  PROVE  Safe
<1> DEFINE c == Sel
           p == wm.cl[c]
           x == p.geo.x - MX[p.mon] + MX[m]
           in == IF p.geo.w + 2 * p.bw >= MW THEN x
                 ELSE Larger(MX[m], Smaller(x, MX[m] + MW - p.geo.w - 2 * p.bw))
           rest == Shown(wm, p.mon) \ {c}
           g == IF RealFull(p) THEN Screen(m) ELSE IF p.floating THEN [p.geo EXCEPT !.x = in] ELSE p.geo
           q == [p EXCEPT !.mon = m]
           r == [q EXCEPT !.geo = g]
<1>1. /\ wm \in WmState /\ (\A d \in Clients : Sound(d, wm.cl[d])) /\ c \in Clients
      /\ p \in Client /\ p.mon \in Mons /\ p.bw \in Int /\ p.geo \in Geo
  <2>1. c # None
    BY DEF sendmon
  <2>2. wm \in WmState /\ \A d \in Clients : Sound(d, wm.cl[d]) /\ wm.cl[d] \in Client
    BY WmType
  <2>3. c \in Clients
    BY <2>1, <2>2 DEF WmState, Sel
  <2> HIDE DEF c
  <2>4. QED
    BY <2>2, <2>3 DEF Client
<1>2. PICK s \in IF rest = {} THEN {None} ELSE rest :
        LET V == [wm EXCEPT !.cl[c].mon = m, !.selmon = m, !.sel[m] = c, !.sel[p.mon] = s, !.cl[c].geo = g]
        IN  Handle(Focus(Arrange(V, m), c))
  BY DEF sendmon
<1> DEFINE S == [wm EXCEPT !.selmon = m]
           T == [S EXCEPT !.sel[m] = c]
           U == [T EXCEPT !.sel[p.mon] = s]
           V == [U EXCEPT !.cl[c] = r]
           A == Arrange(V, m)
<1>3. V = [wm EXCEPT !.cl[c].mon = m, !.selmon = m, !.sel[m] = c, !.sel[p.mon] = s, !.cl[c].geo = g]
  <2> HIDE DEF g, c
  <2>1. QED
    BY <1>1, ZenonT(40) DEF WmState
<1>4. Handle(Focus(A, c))
  BY <1>2, <1>3
<1>5. s \in Clients \cup {None}
  BY DEF Shown
<1>6. x \in Int
  BY <1>1 DEF Geo
<1>7. in \in Int
  <2> HIDE DEF x, c
  <2>1. QED
    BY <1>1, <1>6 DEF Geo, Larger, Smaller
<1>8. g \in Geo /\ (p.lock => g = Screen(m))
  <2> HIDE DEF in, c
  <2>1. p.lock => RealFull(p)
    BY <1>1 DEF Sound
  <2>2. Screen(m) \in Geo
    BY GeoTypes
  <2>3. [p.geo EXCEPT !.x = in] \in Geo
    BY <1>1, <1>7 DEF Geo
  <2>4. QED
    BY <1>1, <2>1, <2>2, <2>3
<1> HIDE DEF g, x, in, rest
<1>9. r \in Client /\ Like(p, r)
  <2> HIDE DEF c, p
  <2>1. q \in Client
    BY <1>1, FieldTypes
  <2>2. Same(p, q) /\ q.full = p.full /\ q.fake = p.fake /\ q.mon = m
    BY <1>1 DEF Same, Client
  <2> HIDE DEF q
  <2>3. r \in Client
    BY <1>8, <2>1, FieldTypes
  <2>4. Same(q, r) /\ r.full = q.full /\ r.fake = q.fake /\ r.mon = q.mon /\ r.geo = g
    BY <2>1 DEF Same, Client
  <2> HIDE DEF r
  <2>5. QED
    BY <1>8, <2>2, <2>3, <2>4 DEF Like, Same
<1> HIDE DEF r, c
<1>10. V \in WmState /\ V.cl[c] = r /\ \A d \in Clients \ {c} : V.cl[d] = wm.cl[d]
  <2> HIDE DEF p
  <2>1. S \in WmState /\ S.cl = wm.cl
    BY <1>1, SelmonType
  <2> HIDE DEF S
  <2>2. T \in WmState /\ T.cl = wm.cl
    BY <1>1, <2>1, SelType
  <2> HIDE DEF T
  <2>3. U \in WmState /\ U.cl = wm.cl
    BY <1>1, <1>5, <2>2, SelType
  <2> HIDE DEF U
  <2>4. QED
    BY <1>1, <1>9, <2>3, PutType
<1> HIDE DEF V, U
<1>11. \A d \in Clients : Like(wm.cl[d], V.cl[d]) /\ Sound(d, V.cl[d])
  BY <1>1, <1>9, <1>10, LikeSelf, LikeSound DEF p
<1>12. A \in WmState /\ \A d \in Clients : Like(V.cl[d], A.cl[d])
  BY <1>10, <1>11, ArrangeLike
<1> HIDE DEF A
<1>13. \A d \in Clients : Like(wm.cl[d], A.cl[d]) /\ Sound(d, A.cl[d])
  BY <1>11, <1>12, LikeLike, LikeSound
<1>14. Focus(A, c) \in WmState
       /\ \A d \in Clients : Sound(d, Focus(A, c).cl[d]) /\ Keeps(A.cl[d], Focus(A, c).cl[d])
  BY <1>1, <1>12, <1>13, FocusKeeps
<1>15. Held(Focus(A, c))
  BY <1>13, <1>14, LikeHeld
<1>16. QED
  BY <1>4, <1>15, HandleSafe

\* What the clients do themselves is safe: they change no record.
LEMMA ClientSideSafe ==
  ASSUME IInv, NEW c \in Clients, WriteState(c) \/ \E op \in Ops : AskState(c, op)
  PROVE  Safe
<1>1. wm' = wm
  BY DEF WriteState, AskState
<1>2. TypeOK'
  <2>1. TypeOK
    BY DEF IInv
  <2>2. CASE WriteState(c)
    <3>1. prop' \in [Clients -> BOOLEAN] /\ notify' \in [Clients -> BOOLEAN]
      BY <2>1, <2>2 DEF WriteState, TypeOK
    <3>2. QED
      BY <1>1, <2>1, <2>2, <3>1 DEF WriteState, TypeOK
  <2>3. ASSUME NEW op \in Ops, AskState(c, op)
        PROVE  TypeOK'
    <3>1. msg' \in [Clients -> Ops \cup {"none"}]
      BY <2>1, <2>3 DEF AskState, TypeOK
    <3>2. QED
      BY <1>1, <2>1, <2>3, <3>1 DEF AskState, TypeOK
  <2>4. QED
    BY <2>2, <2>3
<1>3. StatesAgree'
  BY <1>1 DEF IInv, TypeOK, StatesAgree, WriteState, AskState
<1>4. QED
  BY <1>1, <1>2, <1>3 DEF Safe, IInv, KeepsFull

\* A client asks for fullscreen with a message.
LEMMA ClientMessageSafe ==
  ASSUME IInv, NEW c \in Clients, clientmessage(c)
  PROVE  Safe
<1> DEFINE p == wm.cl[c]
           k == IF p.fake = 2 /\ p.full THEN 3 ELSE p.fake
           r == [p EXCEPT !.fake = k]
           f == msg[c] = "add" \/ (msg[c] = "toggle" /\ ~p.full)
           U == SetFullscreen([wm EXCEPT !.cl[c] = r], c, f)
<1>1. wm \in WmState /\ Sound(c, p) /\ p \in Client /\ f \in BOOLEAN
  BY WmType
<1>2. wm' = U /\ Publish /\ msg' = [msg EXCEPT ![c] = "none"]
  BY DEF clientmessage
<1> HIDE DEF p, f
<1>3. k = p.fake
  BY <1>1 DEF Sound
<1> HIDE DEF k
<1>4. r \in Client /\ Like(p, r)
  <2>1. r \in Client
    BY <1>1, <1>3, FieldTypes DEF Client
  <2>2. Same(p, r) /\ r.full = p.full /\ r.fake = p.fake /\ r.geo = p.geo /\ r.mon = p.mon
    BY <1>1, <1>3 DEF Same, Client
  <2>3. QED
    BY <1>1, <2>1, <2>2 DEF Like, Sound
<1> HIDE DEF r
<1>5. Held(U)
  BY <1>1, <1>4, LikeSound, SetHeld DEF Ready, Like, p
<1>6. msg' \in [Clients -> Ops \cup {"none"}]
  BY <1>2 DEF IInv, TypeOK
<1>7. QED
  BY <1>2, <1>5, <1>6, PublishSafe

\* A client asks for it with its property.
LEMMA PropertySafe ==
  ASSUME IInv, NEW c \in Clients, propertynotify(c)
  PROVE  Safe
<1> DEFINE V == updatewindowstate(c)
<1>1. /\ wm \in WmState /\ (\A d \in Clients : Sound(d, wm.cl[d])) /\ TypeOK /\ StatesAgree
      /\ \A d \in Clients : wm.cl[d].full \in BOOLEAN /\ prop[d] \in BOOLEAN
  BY WmType DEF IInv, TypeOK, Client
<1>2. PICK W \in IF V # wm /\ V.sel[V.selmon] = c /\ ~Vis(V, c) THEN FocusAny(V) ELSE {V} : wm' = W
  BY DEF propertynotify
<1>3. Held(wm') /\ (c \notin Never => wm'.cl[c].full = prop[c])
  <2>1. CASE wm.cl[c].full = prop[c]
    <3>1. V = wm
      BY <2>1 DEF updatewindowstate
    <3>2. wm' = wm
      BY <1>2, <3>1
    <3>3. QED
      BY <1>1, <2>1, <3>2 DEF Held, KeepsFull
  <2>2. CASE wm.cl[c].full # prop[c]
    <3>1. V = SetFullscreen(wm, c, prop[c])
      BY <2>2 DEF updatewindowstate
    <3>2. ~(wm.cl[c].fake = 2 /\ wm.cl[c].full)
      BY <1>1 DEF Sound
    <3>3. /\ V \in WmState
          /\ \A d \in Clients : Sound(d, V.cl[d]) /\ Keeps(wm.cl[d], V.cl[d])
          /\ \A d \in Clients \ {c} : Like(wm.cl[d], V.cl[d])
          /\ c \notin Never => V.cl[c].full = prop[c]
      <4> DEFINE f == prop[c]
      <4>1. f \in BOOLEAN
        BY <1>1
      <4> HIDE DEF f, V
      <4>2. V = SetFullscreen(wm, c, f)
        BY <3>1 DEF f
      <4>3. QED
        BY <1>1, <3>2, <4>1, <4>2, SetFullKeeps DEF Ready, f
    <3> HIDE DEF V
    <3>4. CASE W = V
      BY <1>2, <3>3, <3>4, KeepsIsFull DEF Held
    <3>5. CASE ~Vis(V, c) /\ W \in FocusAny(V)
      <4>1. ~V.cl[c].vis
        BY <3>5, ClientsAssumption DEF Vis
      <4>2. /\ W \in WmState
            /\ \A d \in Clients : Sound(d, W.cl[d]) /\ Keeps(V.cl[d], W.cl[d])
            /\ Like(V.cl[c], W.cl[c])
        BY <3>3, <3>5, <4>1, FocusAnyKeeps
      <4>3. \A d \in Clients \ {c} : Keeps(wm.cl[d], W.cl[d])
        BY <3>3, <4>2, SameKeeps DEF Like
      <4>4. Keeps(wm.cl[c], W.cl[c])
        BY <3>3, <4>2, KeepsLike
      <4>5. Held(W)
        BY <4>2, <4>3, <4>4, KeepsIsFull DEF Held
      <4>6. QED
        BY <1>2, <3>3, <4>2, <4>5 DEF Like
    <3>6. QED
      BY <1>2, <3>4, <3>5
  <2>3. QED
    BY <2>1, <2>2
<1>4. /\ prop' = [d \in Clients |-> IF wm'.cl[d].full # wm.cl[d].full THEN wm'.cl[d].full ELSE prop[d]]
      /\ notify' = [d \in Clients |-> wm'.cl[d].full # wm.cl[d].full \/ (d # c /\ notify[d])]
      /\ msg' = msg
  BY DEF propertynotify
<1>5. \A d \in Clients : wm'.cl[d].full \in BOOLEAN
  BY <1>3 DEF Held, Sound, Client
<1>6. TypeOK'
  <2>1. prop' \in [Clients -> BOOLEAN]
    BY <1>1, <1>4, <1>5
  <2>2. notify' \in [Clients -> BOOLEAN]
    BY <1>1, <1>4 DEF TypeOK
  <2>3. wm' \in WmState
    BY <1>3 DEF Held
  <2>4. QED
    BY <1>1, <1>4, <2>1, <2>2, <2>3 DEF TypeOK, WmState
<1>7. StatesAgree'
  <2> SUFFICES ASSUME NEW d \in Clients \ Never, ~notify'[d]
               PROVE  prop'[d] <=> wm'.cl[d].full
    BY DEF StatesAgree
  <2>1. wm'.cl[d].full = wm.cl[d].full /\ (d = c \/ ~notify[d]) /\ prop'[d] = prop[d]
    BY <1>1, <1>4, <1>5 DEF TypeOK
  <2>2. CASE d = c
    BY <1>3, <2>1, <2>2
  <2>3. CASE d # c
    BY <1>1, <2>1, <2>3 DEF StatesAgree
  <2>4. QED
    BY <2>2, <2>3
<1>8. QED
  BY <1>3, <1>6, <1>7 DEF Safe, IInv, Held

(* cleanup() leaves a client in fake fullscreen, or as it was. *)
LEMMA CleanupSound ==
  ASSUME IInv, NEW c \in Clients
  PROVE  LET p == wm.cl[c]
             d == Cleanup(wm, c)
         IN  /\ Sound(c, d) /\ ~d.lock /\ d.full = p.full /\ (d.full => d.fake = 1)
             /\ KeptFloating(p) = d.floating /\ KeptBorder(p) = d.bw
<1> DEFINE p == wm.cl[c]
           d == Cleanup(wm, c)
<1>1. /\ wm \in WmState /\ (\A e \in Clients : Sound(e, wm.cl[e]))
      /\ p \in Client /\ p.full \in BOOLEAN /\ p.fake \in 0..3 /\ p.lock \in BOOLEAN
  BY WmType DEF Client
<1>2. CASE ~RealFull(p)
  <2>1. d = p
    BY <1>2 DEF Cleanup
  <2>2. QED
    BY <2>1, <1>1, <1>2 DEF Sound, RealFull, KeptFloating, KeptBorder
<1>3. CASE RealFull(p)
  <2> DEFINE r == [p EXCEPT !.fake = 2]
             V == [wm EXCEPT !.cl[c] = r]
             U == SetFullscreen(V, c, FALSE)
             q == [r EXCEPT !.full = TRUE]
             o == Restored(q, TRUE)
  <2>1. d = U.cl[c]
    BY <1>3 DEF Cleanup
  <2>2. p.full /\ p.fake = 0 /\ p.lock
    BY <1>1, <1>3 DEF Sound, RealFull
  <2> HIDE DEF p, d
  <2>3. r \in Client /\ Same(p, r) /\ Ready(c, r, FALSE)
    BY <1>1, <2>2, FakeTwo DEF p
  <2>4. r.full = TRUE /\ r.fake = 2 /\ r.lock
    BY <1>1, <2>2 DEF Client
  <2> HIDE DEF r
  <2>5. V \in WmState /\ V.cl[c] = r /\ \A e \in Clients \ {c} : V.cl[e] = wm.cl[e]
    BY <1>1, <2>3, PutType
  <2> HIDE DEF V
  <2>6. Sound(c, U.cl[c]) /\ Keeps(r, U.cl[c])
    BY <1>1, <2>3, <2>5, SetFullKeeps
  <2>7. Like(SetOne(c, r, FALSE), U.cl[c])
    BY <1>1, <2>3, <2>5, SetFull
  <2>8. SetOne(c, r, FALSE) = o
    <3> DEFINE refake == r.fake = 2 /\ ~FALSE /\ r.full
               full   == FALSE \/ refake
    <3>1. refake = TRUE /\ full = TRUE
      BY <2>4
    <3>2. SetOne(c, r, FALSE) = Restored([r EXCEPT !.full = full], refake)
      BY <2>4, SMTT(30) DEF SetOne
    <3> HIDE DEF full, refake
    <3>3. QED
      BY <3>1, <3>2
  <2>9. q \in Client /\ q.full = TRUE
    BY <2>3, FieldTypes DEF Client
  <2> HIDE DEF q, U
  <2>10. o.full = TRUE /\ o.fake = 1
    BY <2>9, RestoredFields
  <2> HIDE DEF o
  <2>11. d.full = TRUE /\ d.fake = 1 /\ Sound(c, d) /\ ~d.lock
    BY <2>1, <2>6, <2>7, <2>8, <2>10 DEF Like, Sound, RealFull
  <2>12. Keeps(p, d)
    BY <2>1, <2>3, <2>6, SameKeeps
  <2>13. QED
    BY <2>2, <2>11, <2>12 DEF Keeps, KeptFloating, KeptBorder, p, d
<1>4. QED
  BY <1>2, <1>3

\* A window managed again after a restart.
LEMMA AdoptedSound ==
  ASSUME IInv, Quiet, NEW c \in Clients
  PROVE  LET a == Adopted(c)
         IN  Sound(c, a) /\ KeepsFull(wm.cl[c], a) /\ ~a.lock /\ ~a.lost
<1> DEFINE p == wm.cl[c]
           d == Cleanup(wm, c)
           full == prop[c] /\ c \notin Never
           fake == IF d.fake \in {0, 1} THEN d.fake ELSE 0
           geo == IF d.floating THEN d.geo ELSE Tile(d.mon, d.bw)
           a1 == [d EXCEPT !.full = full]
           a2 == [a1 EXCEPT !.fake = fake]
           a3 == [a2 EXCEPT !.lock = FALSE]
           a4 == [a3 EXCEPT !.saved = FALSE]
           a5 == [a4 EXCEPT !.oldbw = d.bw]
           a6 == [a5 EXCEPT !.lost = FALSE]
           a7 == [a6 EXCEPT !.old = NoGeo]
           a8 == [a7 EXCEPT !.geo = geo]
<1>1. /\ Sound(c, d) /\ ~d.lock /\ d.full = p.full /\ (d.full => d.fake = 1)
      /\ KeptFloating(p) = d.floating /\ KeptBorder(p) = d.bw
  BY CleanupSound
<1>2. Sound(c, p) /\ p.full \in BOOLEAN /\ full \in BOOLEAN
  BY WmType DEF Client
<1>3. full <=> p.full
  BY <1>2 DEF IInv, StatesAgree, Quiet, Sound, TypeOK
<1> HIDE DEF d, p, full
<1>4. /\ d \in Client /\ d.bw \in Int /\ d.geo \in Geo /\ d.mon \in Mons
      /\ d.floating \in BOOLEAN /\ d.fake \in 0..3
  BY <1>1 DEF Sound, Client
<1>5. fake \in 0..3 /\ NoGeo \in Geo /\ geo \in Geo /\ fake \in {0, 1}
  BY <1>4, GeoTypes
<1>6. Adopted(c) = a8
  BY <1>4 DEF Adopted, d, full, Client
<1>7. fake = 1 \/ ~full
  BY <1>1, <1>2, <1>3
<1> HIDE DEF fake, geo
<1>8. a1 \in Client /\ a1.full = full
  BY <1>2, <1>4, FieldTypes DEF Client
<1>9. a1.floating = d.floating /\ a1.bw = d.bw
  BY <1>4 DEF Client
<1> HIDE DEF a1
<1>10. a2 \in Client
  BY <1>5, <1>8, FieldTypes
<1>11. a2.full = full /\ a2.fake = fake /\ a2.floating = d.floating /\ a2.bw = d.bw
  BY <1>8, <1>9 DEF Client
<1> HIDE DEF a2
<1>12. a3 \in Client
  BY <1>10, FieldTypes
<1>13. a3.full = full /\ a3.fake = fake /\ a3.floating = d.floating /\ a3.bw = d.bw /\ a3.lock = FALSE
  BY <1>10, <1>11 DEF Client
<1> HIDE DEF a3
<1>14. a4 \in Client
  BY <1>12, FieldTypes
<1>15. a4.full = full /\ a4.fake = fake /\ a4.floating = d.floating /\ a4.bw = d.bw /\ a4.lock = FALSE
  BY <1>12, <1>13 DEF Client
<1> HIDE DEF a4
<1>16. a5 \in Client
  BY <1>4, <1>14, FieldTypes
<1>17. a5.full = full /\ a5.fake = fake /\ a5.floating = d.floating /\ a5.bw = d.bw /\ a5.lock = FALSE
  BY <1>14, <1>15 DEF Client
<1> HIDE DEF a5
<1>18. a6 \in Client
  BY <1>16, FieldTypes
<1>19. /\ a6.full = full /\ a6.fake = fake /\ a6.floating = d.floating /\ a6.bw = d.bw
       /\ a6.lock = FALSE /\ a6.lost = FALSE
  BY <1>16, <1>17 DEF Client
<1> HIDE DEF a6
<1>20. a7 \in Client
  BY <1>5, <1>18, FieldTypes
<1>21. /\ a7.full = full /\ a7.fake = fake /\ a7.floating = d.floating /\ a7.bw = d.bw
       /\ a7.lock = FALSE /\ a7.lost = FALSE
  BY <1>18, <1>19 DEF Client
<1> HIDE DEF a7
<1>22. a8 \in Client
  BY <1>5, <1>20, FieldTypes
<1>23. /\ a8.full = full /\ a8.fake = fake /\ a8.floating = d.floating /\ a8.bw = d.bw
       /\ a8.lock = FALSE /\ a8.lost = FALSE
  BY <1>20, <1>21 DEF Client
<1> HIDE DEF a8
<1>24. Sound(c, a8)
  BY <1>2, <1>3, <1>5, <1>7, <1>22, <1>23 DEF Sound, RealFull
<1>25. KeepsFull(p, a8)
  BY <1>1, <1>23 DEF KeepsFull, KeptFloating, KeptBorder
<1>26. QED
  BY <1>6, <1>23, <1>24, <1>25 DEF p

\* dwm is restarted.
LEMMA RestartSafe ==
  ASSUME IInv, Restart
  PROVE  Safe
<1> DEFINE cl == [c \in Clients |-> Adopted(c)]
           U  == [wm EXCEPT !.cl = cl]
<1>1. PICK W \in FocusAny(U) : wm' = W
  BY DEF Restart
<1>2. \A c \in Clients : Sound(c, Adopted(c)) /\ KeepsFull(wm.cl[c], Adopted(c))
                         /\ ~Adopted(c).lock /\ ~Adopted(c).lost
  BY AdoptedSound DEF Restart
<1>3. cl \in [Clients -> Client] /\ \A c \in Clients : cl[c] = Adopted(c)
  BY <1>2 DEF Sound
<1> HIDE DEF cl
<1>4. U \in WmState /\ U.cl = cl
  BY <1>3, WmType DEF WmState
<1> HIDE DEF U
<1>5. /\ W \in WmState
      /\ \A c \in Clients : Sound(c, W.cl[c]) /\ Like(U.cl[c], W.cl[c])
  BY <1>2, <1>3, <1>4, FocusAnyKeeps
<1>6. \A c \in Clients : KeepsFull(wm.cl[c], W.cl[c])
  BY <1>2, <1>3, <1>4, <1>5 DEF Like, Same, KeepsFull, KeptFloating, KeptBorder, RealFull
<1>7. prop' \in [Clients -> BOOLEAN]
  <2>1. \A c \in Clients : W.cl[c].full \in BOOLEAN
    BY <1>5 DEF Sound, Client
  <2>2. prop' = [c \in Clients |-> W.cl[c].full]
    BY <1>1 DEF Restart
  <2>3. QED
    BY <2>1, <2>2
<1>8. notify' \in [Clients -> BOOLEAN] /\ msg' \in [Clients -> Ops \cup {"none"}]
  BY DEF Restart
<1>9. StatesAgree'
  BY DEF Restart, StatesAgree
<1>10. TypeOK'
  BY <1>1, <1>5, <1>7, <1>8 DEF TypeOK, WmState
<1>11. QED
  BY <1>1, <1>5, <1>6, <1>9, <1>10 DEF Safe, IInv

-----------------------------------------------------------------------------
\* The invariant holds when dwm has started.
LEMMA InitInv == Init => IInv
<1> SUFFICES ASSUME Init
             PROVE  IInv
  OBVIOUS
<1> DEFINE R(k, m, g) ==
      [full |-> FALSE, fake |-> k, lock |-> FALSE, saved |-> FALSE,
       floating |-> g # NoGeo, bw |-> Border, oldbw |-> OwnBorder,
       geo |-> IF g = NoGeo THEN Tile(m, Border) ELSE [g EXCEPT !.x = @ + MX[m]],
       old |-> NoGeo, mon |-> m, vis |-> TRUE, lost |-> FALSE]
<1>1. wm \in [cl : [Clients -> {R(k, m, g) : k \in {0, 1}, m \in Mons, g \in Floats}],
              sel : [Mons -> {None}], selmon : Mons]
  BY DEF Init
<1>2. ASSUME NEW k \in {0, 1}, NEW m \in Mons, NEW g \in Floats, NEW c \in Clients
      PROVE  Sound(c, R(k, m, g))
  <2> DEFINE geo == IF g = NoGeo THEN Tile(m, Border) ELSE [g EXCEPT !.x = @ + MX[m]]
             floats == g # NoGeo
             r == [full |-> FALSE, fake |-> k, lock |-> FALSE, saved |-> FALSE, floating |-> floats,
                   bw |-> Border, oldbw |-> OwnBorder, geo |-> geo, old |-> NoGeo, mon |-> m,
                   vis |-> TRUE, lost |-> FALSE]
  <2>1. /\ geo \in Geo /\ NoGeo \in Geo /\ floats \in BOOLEAN
        /\ Border \in Int /\ OwnBorder \in Int
    <3>1. Tile(m, Border) \in Geo /\ NoGeo \in Geo
      BY GeoTypes
    <3>2. [g EXCEPT !.x = @ + MX[m]] \in Geo
      BY DEF Geo
    <3>3. QED
      BY <3>1, <3>2
  <2>2. r = R(k, m, g)
    OBVIOUS
  <2> HIDE DEF geo, floats
  <2>3. r \in Client
    BY <2>1 DEF Client
  <2>4. r.full = FALSE /\ r.lock = FALSE /\ r.fake = k
    OBVIOUS
  <2> HIDE DEF r
  <2>5. Sound(c, r)
    BY <2>3, <2>4 DEF Sound, RealFull
  <2>6. QED
    BY <2>2, <2>5
<1> HIDE DEF R
<1>3. \A c \in Clients : Sound(c, wm.cl[c])
  BY <1>1, <1>2
<1>4. wm \in WmState
  <2>1. wm.cl \in [Clients -> Client]
    BY <1>1, <1>3 DEF Sound
  <2>2. QED
    BY <1>1, <2>1 DEF WmState
<1>5. /\ prop \in [Clients -> BOOLEAN] /\ notify \in [Clients -> BOOLEAN]
      /\ msg \in [Clients -> Ops \cup {"none"}]
  BY DEF Init
<1>6. StatesAgree
  <2>1. \A c \in Clients : wm.cl[c].full = FALSE
    <3>1. \A k \in {0, 1}, m \in Mons, g \in Floats : R(k, m, g).full = FALSE
      BY DEF R
    <3>2. QED
      BY <1>1, <3>1
  <2>2. \A c \in Clients : prop[c] = FALSE
    BY DEF Init
  <2>3. QED
    BY <2>1, <2>2 DEF StatesAgree
<1>7. QED
  BY <1>3, <1>4, <1>5, <1>6 DEF IInv, TypeOK, WmState

\* Every action is safe.
LEMMA NextSafe == IInv /\ Next => Safe
<1> SUFFICES ASSUME IInv, Next
             PROVE  Safe
  OBVIOUS
<1>1. ASSUME NEW c \in Clients, FocusClient(c) \/ View(c) \/ clientmessage(c) \/ propertynotify(c)
      PROVE  Safe
  BY <1>1, FocusClientSafe, ViewSafe, ClientMessageSafe, PropertySafe
<1>2. ASSUME NEW c \in Writers, WriteState(c) \/ \E op \in Ops : AskState(c, op)
      PROVE  Safe
  BY <1>2, ClientSideSafe
<1>3. ASSUME NEW c \in Writers, NEW t \in {"dialog", "splash"}, updatewindowtype(c, t)
      PROVE  Safe
  BY <1>3, WindowTypeSafe
<1>4. ASSUME NEW c \in Writers, NEW r \in Requests, configurerequest(c, r)
      PROVE  Safe
  BY <1>4, ConfigureSafe
<1>5. ASSUME NEW m \in Mons, sendmon(m)
      PROVE  Safe
  BY <1>5, SendmonSafe
<1>6. ASSUME togglefullscreen \/ togglefakefullscreen \/ togglefloating \/ Restart
      PROVE  Safe
  BY <1>6, ToggleFullscreenSafe, ToggleFakeSafe, ToggleFloatingSafe, RestartSafe
<1>7. QED
  BY <1>1, <1>2, <1>3, <1>4, <1>5, <1>6 DEF Next

\* Every step keeps the invariant.
LEMMA NextInv == IInv /\ [Next]_vars => IInv'
<1> SUFFICES ASSUME IInv, [Next]_vars
             PROVE  IInv'
  OBVIOUS
<1>1. CASE Next
  BY <1>1, NextSafe DEF Safe
<1>2. CASE UNCHANGED vars
  BY <1>2 DEF vars, IInv, TypeOK, StatesAgree
<1>3. QED
  BY <1>1, <1>2

\* The invariant holds in every state of every behaviour.
LEMMA Inductive == Spec => []IInv
<1>1. Init => IInv
  BY InitInv
<1>2. IInv /\ [Next]_vars => IInv'
  BY NextInv
<1>3. QED
  BY <1>1, <1>2, PTL DEF Spec

(* Whatever the toggles, the clients' messages, their properties, the move *)
(* to another monitor and a restart do to fullscreen, the lock bit of      *)
(* oldstate tells real fullscreen and such a client has its monitor.       *)
THEOREM AlwaysConsistent == Spec => []Consistent
<1>1. IInv => Consistent
  BY WmType DEF IInv, Sound, Consistent, LockMatches, FullCovers
<1>2. QED
  BY <1>1, Inductive, PTL

(* updatewindowstate and publishwindowstate leave no disagreement that no  *)
(* PropertyNotify is on its way to settle.                                 *)
THEOREM AlwaysAgree == Spec => []StatesAgree
<1>1. IInv => StatesAgree
  BY DEF IInv
<1>2. QED
  BY <1>1, Inductive, PTL

(* No step of the window manager or of a client loses what a client in     *)
(* real fullscreen is to get back.                                         *)
THEOREM NeverLoses == Spec => NothingLost
<1> DEFINE Settings == \A c \in Clients :
             LET p == wm.cl[c]
                 q == wm'.cl[c]
             IN  RealFull(p) \/ RealFull(q) =>
                   KeptFloating(q) = KeptFloating(p) /\ KeptBorder(q) = KeptBorder(p)
           Old == \A c \in Clients : wm.cl[c].lock /\ wm'.cl[c].lock => wm'.cl[c].old = wm.cl[c].old
<1>1. IInv /\ [Next]_vars => [Settings]_vars
  BY NextSafe DEF Safe, KeepsFull
<1>2. IInv /\ [Next]_vars => [Old]_vars
  BY NextSafe DEF Safe, KeepsFull
<1>3. Spec => [][Settings]_vars
  BY <1>1, Inductive, PTL DEF Spec
<1>4. Spec => [][Old]_vars
  BY <1>2, Inductive, PTL DEF Spec
<1>5. QED
  BY <1>3, <1>4 DEF NothingLost, SettingsKept, OldKept
=============================================================================
