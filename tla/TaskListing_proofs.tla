------------------------- MODULE TaskListing_proofs -------------------------
(***************************************************************************)
(* Proofs about TaskListing, for any number of tasks, statuses, limits and  *)
(* changes of the table: what a walk misses and what it gets twice.         *)
(***************************************************************************)
EXTENDS TaskListing, WellFoundedInduction, FiniteSetTheorems, TLAPS

(***************************************************************************)
(* Places in a listing.                                                     *)
(***************************************************************************)

\* The place that t has, or would have, in a listing of the rows R.
Above(R, t) == {u \in R : u > t}
Place(R, t) == Cardinality(Above(R, t))

\* The rows of X before place k, and the others.
Front(R, X, k) == {t \in X : Place(R, t) < k}
Back(R, X, k) == {t \in X : Place(R, t) >= k}

Listing == {R \in SUBSET Nat : IsFiniteSet(R)}

\* Part of a finite set is finite and counts no more.
LEMMA Parts ==
  ASSUME NEW S, IsFiniteSet(S), NEW T \in SUBSET S
  PROVE  /\ IsFiniteSet(T) /\ Cardinality(T) \in Nat /\ Cardinality(S) \in Nat
         /\ Cardinality(T) <= Cardinality(S)
BY FS_Subset, FS_CardinalityType

\* With one more element it counts at most one more.
LEMMA OneMore ==
  ASSUME NEW S, IsFiniteSet(S), NEW e
  PROVE  /\ IsFiniteSet(S \cup {e})
         /\ Cardinality(S \cup {e}) \in Nat /\ Cardinality(S) \in Nat
         /\ Cardinality(S \cup {e}) <= Cardinality(S) + 1
<1>1. Cardinality(S) \in Nat
  BY FS_CardinalityType
<1>2. /\ IsFiniteSet(S \cup {e})
      /\ Cardinality(S \cup {e}) = IF e \in S THEN Cardinality(S) ELSE Cardinality(S) + 1
  BY FS_AddElement
<1> QED BY <1>1, <1>2

LEMMA AboveFinite ==
  ASSUME NEW R \in Listing, NEW t
  PROVE  IsFiniteSet(Above(R, t)) /\ Place(R, t) \in Nat /\ Above(R, t) \subseteq R
<1>1. Above(R, t) \in SUBSET R /\ IsFiniteSet(R)
  BY DEF Above, Listing
<1> QED BY <1>1, Parts DEF Place

\* Of two rows the older one has the later place.
LEMMA PlaceOrder ==
  ASSUME NEW R \in Listing, NEW t \in Nat, NEW u \in R, t < u
  PROVE  Place(R, u) < Place(R, t)
<1>1. u \in Nat /\ u \notin Above(R, u)
  BY DEF Listing, Above
<1>2. Above(R, u) \cup {u} \in SUBSET Above(R, t)
  <2>1. \A v \in R : v \in Nat /\ (v > u => v > t)
    BY <1>1 DEF Listing
  <2> QED BY <2>1 DEF Above
<1>3. Cardinality(Above(R, u) \cup {u}) = Place(R, u) + 1
  BY <1>1, AboveFinite, FS_AddElement DEF Place
<1>4. Cardinality(Above(R, u) \cup {u}) <= Place(R, t)
  BY <1>2, AboveFinite, Parts DEF Place
<1> QED BY <1>3, <1>4, AboveFinite

\* No two rows share a place.
LEMMA OnePlace ==
  ASSUME NEW R \in Listing, NEW t \in R, NEW u \in R, Place(R, t) = Place(R, u)
  PROVE  t = u
<1>1. t \in Nat /\ u \in Nat /\ Place(R, t) \in Nat
  BY AboveFinite DEF Listing
<1>2. ~(t < u) /\ ~(u < t)
  BY <1>1, PlaceOrder
<1> QED BY <1>1, <1>2

\* A row that enters moves the older ones one place back.
LEMMA PlaceAfterEnter ==
  ASSUME NEW R \in Listing, NEW e \in Nat \ R, NEW t \in Nat
  PROVE  /\ R \cup {e} \in Listing
         /\ Place(R \cup {e}, t) = IF e > t THEN Place(R, t) + 1 ELSE Place(R, t)
<1>1. R \cup {e} \in Listing
  BY FS_AddElement DEF Listing
<1>2. CASE e > t
  <2>1. Above(R \cup {e}, t) = Above(R, t) \cup {e} /\ e \notin Above(R, t)
    BY <1>2 DEF Above
  <2>2. Cardinality(Above(R, t) \cup {e}) = Place(R, t) + 1
    BY <2>1, AboveFinite, FS_AddElement DEF Place
  <2> QED BY <1>1, <1>2, <2>1, <2>2 DEF Place
<1>3. CASE ~(e > t)
  <2>1. Above(R \cup {e}, t) = Above(R, t)
    BY <1>3 DEF Above
  <2> QED BY <1>1, <1>3, <2>1 DEF Place
<1> QED BY <1>2, <1>3

\* Every set of rows with one has a newest and an oldest one.
LEMMA Oldest ==
  ASSUME NEW S \in SUBSET Nat, S # {}
  PROVE  \E m \in S : \A t \in S : m <= t
<1> DEFINE Less == OpToRel(<, Nat)
<1>1. \E n \in S : \A m \in S : ~(<<m, n>> \in Less)
  <2>1. IsWellFoundedOn(Less, Nat)
    BY NatLessThanWellFounded
  <2> HIDE DEF Less
  <2> QED BY <2>1, WFMin
<1>2. \A m, n \in Nat : ~(<<m, n>> \in Less) => n <= m
  BY DEF OpToRel
<1> QED BY <1>1, <1>2

\* At most k rows are before place k.
LEMMA FrontBound ==
  ASSUME NEW R \in Listing, NEW k \in Nat
  PROVE  Cardinality(Front(R, R, k)) <= k
<1> DEFINE F == Front(R, R, k)
<1>1. F \in SUBSET R /\ IsFiniteSet(R) /\ R \in SUBSET Nat
  BY DEF Front, Listing
<1>2. IsFiniteSet(F) /\ Cardinality(F) \in Nat
  BY <1>1, Parts
<1>3. CASE F = {}
  BY <1>3, FS_EmptySet
<1>4. CASE F # {}
  <2>1. PICK m \in F : \A t \in F : m <= t
    BY <1>1, <1>4, Oldest
  <2>2. F \ {m} \in SUBSET Above(R, m)
    <3>1. ASSUME NEW t \in F \ {m} PROVE t \in R /\ t > m
      <4>1. t \in Nat /\ m \in Nat /\ m <= t /\ t # m /\ t \in R
        BY <1>1, <2>1
      <4> QED BY <4>1
    <3> QED BY <3>1 DEF Above
  <2>3. Cardinality(F \ {m}) = Cardinality(F) - 1
    BY <1>2, <2>1, FS_RemoveElement
  <2>4. Cardinality(F \ {m}) <= Place(R, m)
    BY <2>2, AboveFinite, Parts DEF Place
  <2>5. Place(R, m) < k /\ Place(R, m) \in Nat
    BY <2>1, AboveFinite DEF Front
  <2> QED BY <1>2, <2>3, <2>4, <2>5
<1> QED BY <1>3, <1>4

\* And all but k are behind.
LEMMA BackBound ==
  ASSUME NEW R \in Listing, NEW k \in Nat
  PROVE  Back(R, R, k) = {} \/ Cardinality(Back(R, R, k)) + k <= Cardinality(R)
<1> DEFINE B == Back(R, R, k)
           F == Front(R, R, k)
<1>1. IsFiniteSet(R) /\ F \in SUBSET R /\ B \in SUBSET R /\ R \in SUBSET Nat
  BY DEF Front, Back, Listing
<1>2. \A t \in R : Place(R, t) \in Nat
  BY AboveFinite
<1>3. B = R \ F /\ R \cap F = F
  BY <1>2 DEF Front, Back
<1>4. Cardinality(B) = Cardinality(R) - Cardinality(F)
  BY <1>1, <1>3, FS_Difference
<1>5. ASSUME NEW b \in B PROVE Cardinality(F) >= k
  <2> DEFINE places == {Place(R, t) : t \in B}
  <2>1. places \in SUBSET Nat /\ places # {}
    BY <1>1, <1>2, <1>5
  <2>2. PICK p \in places : \A q \in places : p <= q
    BY <2>1, Oldest
  <2>3. PICK m \in B : p = Place(R, m)
    BY <2>2
  <2>4. Above(R, m) \in SUBSET F
    <3>1. ASSUME NEW u \in Above(R, m) PROVE u \in F
      <4>1. u \in R /\ m < u /\ m \in Nat /\ m \in R /\ u \in Nat
        BY <1>1, <3>1 DEF Above
      <4>2. Place(R, u) < Place(R, m) /\ Place(R, u) \in Nat /\ Place(R, m) \in Nat
        BY <1>2, <4>1, PlaceOrder
      <4>3. u \notin B
        BY <2>2, <2>3, <4>2
      <4> QED BY <1>3, <4>1, <4>3
    <3> QED BY <3>1
  <2>5. Place(R, m) <= Cardinality(F) /\ Cardinality(F) \in Nat
    BY <1>1, <2>4, Parts DEF Place
  <2>6. Place(R, m) >= k /\ Place(R, m) \in Nat
    BY <1>1, <1>2, <2>3 DEF Back
  <2> QED BY <2>5, <2>6
<1>6. Cardinality(F) \in Nat /\ Cardinality(R) \in Nat
  BY <1>1, Parts
<1> QED BY <1>4, <1>5, <1>6

(***************************************************************************)
(* A row enters or leaves a listing.                                        *)
(***************************************************************************)

\* Parts of a part.
LEMMA FrontBackParts ==
  ASSUME NEW R \in Listing, NEW X \in Listing, NEW k \in Nat
  PROVE  /\ IsFiniteSet(Front(R, X, k)) /\ Cardinality(Front(R, X, k)) \in Nat
         /\ IsFiniteSet(Back(R, X, k)) /\ Cardinality(Back(R, X, k)) \in Nat
         /\ \A Y \in SUBSET X : /\ Y \in Listing
                                /\ Cardinality(Front(R, Y, k)) <= Cardinality(Front(R, X, k))
                                /\ Cardinality(Back(R, Y, k)) <= Cardinality(Back(R, X, k))
<1>1. IsFiniteSet(X) /\ X \in SUBSET Nat
  BY DEF Listing
<1>2. Front(R, X, k) \in SUBSET X /\ Back(R, X, k) \in SUBSET X
  BY DEF Front, Back
<1>3. \A Y \in SUBSET X : /\ Front(R, Y, k) \in SUBSET Front(R, X, k)
                          /\ Back(R, Y, k) \in SUBSET Back(R, X, k)
  BY DEF Front, Back
<1>4. \A Y \in SUBSET X : Y \in Listing
  BY <1>1, FS_Subset DEF Listing
<1>5. IsFiniteSet(Front(R, X, k)) /\ IsFiniteSet(Back(R, X, k))
  BY <1>1, <1>2, FS_Subset
<1> QED BY <1>3, <1>4, <1>5, Parts

\* At most one row has the place k, and so at most one crosses a boundary.
LEMMA OneCrosses ==
  ASSUME NEW R \in Listing, NEW S, IsFiniteSet(S), NEW T, NEW k,
         \A t \in T : t \in S \/ (t \in R /\ Place(R, t) = k)
  PROVE  Cardinality(T) <= Cardinality(S) + 1 /\ Cardinality(T) \in Nat
<1>1. CASE T \subseteq S
  <2>1. Cardinality(T) \in Nat /\ Cardinality(S) \in Nat /\ Cardinality(T) <= Cardinality(S)
    BY <1>1, Parts
  <2> QED BY <2>1
<1>2. ASSUME NEW c \in T, c \notin S
      PROVE  Cardinality(T) <= Cardinality(S) + 1 /\ Cardinality(T) \in Nat
  <2>1. \A t \in T : t \in S \/ t = c
    BY <1>2, OnePlace
  <2>2. T \in SUBSET (S \cup {c})
    BY <2>1
  <2>3. IsFiniteSet(S \cup {c}) /\ Cardinality(S \cup {c}) = Cardinality(S) + 1
    BY <1>2, FS_AddElement
  <2> QED BY <2>2, <2>3, Parts
<1> QED BY <1>1, <1>2

\* A row that enters puts at most one row behind the boundary, itself or another.
LEMMA EnterBack ==
  ASSUME NEW R \in Listing, NEW e \in Nat \ R, NEW X \in SUBSET R, NEW k \in Nat
  PROVE  /\ Cardinality(Back(R \cup {e}, X \cup {e}, k)) <= Cardinality(Back(R, X, k)) + 1
         /\ Cardinality(Back(R \cup {e}, X, k)) <= Cardinality(Back(R, X, k)) + 1
<1> DEFINE T == Back(R \cup {e}, X \cup {e}, k)
           S == Back(R, X, k)
<1>1. R \in SUBSET Nat /\ X \in Listing /\ R \cup {e} \in Listing /\ X \cup {e} \in Listing
  BY FS_Subset, FS_AddElement DEF Listing
<1>2. IsFiniteSet(S) /\ Cardinality(S) \in Nat
  BY <1>1, FrontBackParts
<1>3. \A t \in Nat : /\ Place(R, t) \in Nat
                     /\ Place(R \cup {e}, t) = IF e > t THEN Place(R, t) + 1 ELSE Place(R, t)
  BY PlaceAfterEnter, AboveFinite
<1>9. /\ Cardinality(Back(R \cup {e}, X, k)) \in Nat
      /\ Cardinality(Back(R \cup {e}, X, k)) <= Cardinality(T)
  <2>1. X \in SUBSET (X \cup {e})
    OBVIOUS
  <2> QED BY <1>1, <2>1, FrontBackParts
<1>4. CASE Place(R, e) >= k
  <2>1. ASSUME NEW t \in T, t # e PROVE t \in S
    <3>1. t \in R /\ t \in X /\ t \in Nat /\ e \in Nat
      BY <1>1, <2>1 DEF Back
    <3>2. CASE e > t
      <4>1. Place(R, e) <= Place(R, t)
        <5>1. Above(R, e) \in SUBSET Above(R, t)
          <6>1. \A v \in R : v \in Nat /\ (v > e => v > t)
            BY <1>1, <3>1, <3>2
          <6> QED BY <6>1 DEF Above
        <5> QED BY <5>1, AboveFinite, Parts DEF Place
      <4> QED BY <1>3, <1>4, <3>1, <4>1 DEF Back
    <3>3. CASE ~(e > t)
      BY <1>3, <2>1, <3>1, <3>3 DEF Back
    <3> QED BY <3>2, <3>3
  <2>2. T \in SUBSET (S \cup {e})
    BY <2>1
  <2>3. IsFiniteSet(S \cup {e}) /\ Cardinality(S \cup {e}) <= Cardinality(S) + 1
    BY <1>2, OneMore
  <2>4. Cardinality(T) <= Cardinality(S \cup {e}) /\ Cardinality(T) \in Nat /\ Cardinality(S \cup {e}) \in Nat
    BY <2>2, <2>3, Parts
  <2> QED BY <1>2, <1>9, <2>3, <2>4
<1>5. CASE ~(Place(R, e) >= k)
  <2>1. ASSUME NEW t \in T PROVE t \in S \/ (t \in R /\ Place(R, t) = k - 1)
    <3>1. t # e
      <4>1. Place(R \cup {e}, e) = Place(R, e)
        <5>1. e \in Nat /\ ~(e > e)
          OBVIOUS
        <5> QED BY <1>3, <5>1
      <4> QED BY <1>5, <2>1, <4>1 DEF Back
    <3>2. t \in X /\ t \in R /\ t \in Nat /\ Place(R \cup {e}, t) >= k
      BY <1>1, <2>1, <3>1 DEF Back
    <3>3. Place(R, t) \in Nat /\ Place(R \cup {e}, t) \in {Place(R, t), Place(R, t) + 1}
      BY <1>3, <3>2
    <3>4. Place(R, t) >= k \/ Place(R, t) = k - 1
      BY <3>2, <3>3
    <3> QED BY <3>2, <3>4 DEF Back
  <2>2. Cardinality(T) <= Cardinality(S) + 1 /\ Cardinality(T) \in Nat
    BY <1>2, <2>1, OneCrosses
  <2> QED BY <1>2, <1>9, <2>2
<1> QED BY <1>4, <1>5

\* It brings no row but itself before the boundary.
LEMMA EnterFront ==
  ASSUME NEW R \in Listing, NEW e \in Nat \ R, NEW X \in SUBSET R, NEW k \in Nat
  PROVE  /\ Cardinality(Front(R \cup {e}, X, k)) <= Cardinality(Front(R, X, k))
         /\ Cardinality(Front(R \cup {e}, X \cup {e}, k)) <= Cardinality(Front(R, X, k)) + 1
<1>1. R \in SUBSET Nat /\ X \in Listing /\ R \cup {e} \in Listing /\ X \cup {e} \in Listing
  BY FS_Subset, FS_AddElement DEF Listing
<1>2. \A t \in Nat : /\ Place(R, t) \in Nat
                     /\ Place(R \cup {e}, t) = IF e > t THEN Place(R, t) + 1 ELSE Place(R, t)
  BY PlaceAfterEnter, AboveFinite
<1>3. /\ Front(R \cup {e}, X, k) \in SUBSET Front(R, X, k)
      /\ Front(R \cup {e}, X \cup {e}, k) \in SUBSET (Front(R, X, k) \cup {e})
  <2>1. ASSUME NEW t \in X, Place(R \cup {e}, t) < k PROVE Place(R, t) < k
    <3>1. Place(R, t) \in Nat /\ Place(R \cup {e}, t) \in {Place(R, t), Place(R, t) + 1}
      BY <1>1, <1>2
    <3> QED BY <2>1, <3>1
  <2> QED BY <2>1 DEF Front
<1>4. IsFiniteSet(Front(R, X, k)) /\ Cardinality(Front(R, X, k)) \in Nat
  BY <1>1, FrontBackParts
<1>5. IsFiniteSet(Front(R, X, k) \cup {e})
      /\ Cardinality(Front(R, X, k) \cup {e}) <= Cardinality(Front(R, X, k)) + 1
  BY <1>4, OneMore
<1>6. Cardinality(Front(R \cup {e}, X, k)) <= Cardinality(Front(R, X, k))
  BY <1>3, <1>4, Parts
<1>7. /\ Cardinality(Front(R \cup {e}, X \cup {e}, k)) <= Cardinality(Front(R, X, k) \cup {e})
      /\ Cardinality(Front(R \cup {e}, X \cup {e}, k)) \in Nat
      /\ Cardinality(Front(R, X, k) \cup {e}) \in Nat
  BY <1>3, <1>5, Parts
<1> QED BY <1>4, <1>5, <1>6, <1>7

\* A row that leaves puts no row behind the boundary, and at most one before it,
\* in its own place if it was there itself.
LEMMA LeaveEffect ==
  ASSUME NEW R \in Listing, NEW e \in R, NEW X \in SUBSET (R \ {e}), NEW k \in Nat
  PROVE  /\ Cardinality(Back(R \ {e}, X, k)) <= Cardinality(Back(R, X, k))
         /\ Cardinality(Front(R \ {e}, X, k)) <= Cardinality(Front(R, X, k)) + 1
         /\ Cardinality(Front(R \ {e}, X, k)) <= Cardinality(Front(R, X \cup {e}, k))
<1> DEFINE Q == R \ {e}
<1>1. /\ R \in SUBSET Nat /\ Q \in Listing /\ X \in Listing /\ X \cup {e} \in Listing
      /\ e \in Nat \ Q /\ R = Q \cup {e} /\ X \in SUBSET Nat
  <2>1. /\ R \in SUBSET Nat /\ IsFiniteSet(R) /\ Q \in SUBSET R /\ X \in SUBSET R
        /\ X \cup {e} \in SUBSET R
    BY DEF Listing
  <2>2. IsFiniteSet(Q) /\ IsFiniteSet(X) /\ IsFiniteSet(X \cup {e})
    BY <2>1, FS_Subset
  <2> QED BY <2>1, <2>2 DEF Listing
<1> HIDE DEF Q
<1>2. \A t \in Nat : /\ Place(Q, t) \in Nat
                     /\ Place(R, t) = IF e > t THEN Place(Q, t) + 1 ELSE Place(Q, t)
  BY <1>1, PlaceAfterEnter, AboveFinite
<1>3. /\ IsFiniteSet(Front(R, X, k)) /\ Cardinality(Front(R, X, k)) \in Nat
      /\ IsFiniteSet(Back(R, X, k)) /\ Cardinality(Back(R, X, k)) \in Nat
      /\ IsFiniteSet(Front(R, X \cup {e}, k)) /\ Cardinality(Front(R, X \cup {e}, k)) \in Nat
      /\ Cardinality(Front(Q, X, k)) \in Nat
  BY <1>1, FrontBackParts
<1>4. Back(Q, X, k) \in SUBSET Back(R, X, k)
  <2>1. ASSUME NEW t \in X, Place(Q, t) >= k PROVE Place(R, t) >= k
    <3>1. Place(Q, t) \in Nat /\ Place(R, t) \in {Place(Q, t), Place(Q, t) + 1}
      BY <1>1, <1>2
    <3> QED BY <2>1, <3>1
  <2> QED BY <2>1 DEF Back
<1>5. Cardinality(Back(Q, X, k)) <= Cardinality(Back(R, X, k))
  BY <1>3, <1>4, Parts
<1>6. \A t \in Front(Q, X, k) : t \in Front(R, X, k) \/ (t \in R /\ Place(R, t) = k)
  <2>1. ASSUME NEW t \in X, Place(Q, t) < k, ~(Place(R, t) < k) PROVE t \in R /\ Place(R, t) = k
    <3>1. Place(Q, t) \in Nat /\ Place(R, t) \in {Place(Q, t), Place(Q, t) + 1}
      BY <1>1, <1>2
    <3> QED BY <2>1, <3>1
  <2> QED BY <2>1 DEF Front
<1>7. Cardinality(Front(Q, X, k)) <= Cardinality(Front(R, X, k)) + 1
  BY <1>3, <1>6, OneCrosses
<1>8. Cardinality(Front(Q, X, k)) <= Cardinality(Front(R, X \cup {e}, k))
  <2>1. CASE Place(R, e) < k
    <3>1. Front(R, X \cup {e}, k) = Front(R, X, k) \cup {e} /\ e \notin Front(R, X, k)
      BY <2>1 DEF Front
    <3>2. Cardinality(Front(R, X \cup {e}, k)) = Cardinality(Front(R, X, k)) + 1
      BY <1>3, <3>1, FS_AddElement
    <3> QED BY <1>7, <3>2
  <2>2. CASE ~(Place(R, e) < k)
    <3>1. ASSUME NEW t \in X, Place(Q, t) < k PROVE Place(R, t) < k
      <4>1. t \in Nat /\ e \in Nat /\ e \in R /\ Place(Q, t) \in Nat /\ Place(Q, e) \in Nat
        BY <1>1, <1>2
      <4>2. CASE e > t
        <5>1. Above(Q, e) \in SUBSET Above(Q, t)
          <6>1. \A v \in Q : v \in Nat /\ (v > e => v > t)
            BY <1>1, <4>1, <4>2 DEF Listing
          <6> QED BY <6>1 DEF Above
        <5>2. Place(Q, e) <= Place(Q, t)
          BY <1>1, <5>1, AboveFinite, Parts DEF Place
        <5> QED BY <1>2, <2>2, <3>1, <4>1, <5>2
      <4>3. CASE ~(e > t)
        BY <1>2, <3>1, <4>1, <4>3
      <4> QED BY <4>2, <4>3
    <3>2. Front(Q, X, k) \in SUBSET Front(R, X \cup {e}, k)
      BY <3>1 DEF Front
    <3> QED BY <1>3, <3>2, Parts
  <2> QED BY <2>1, <2>2
<1> QED BY <1>5, <1>7, <1>8 DEF Q

(***************************************************************************)
(* Types.                                                                   *)
(***************************************************************************)

\* Each record is there once its task is created, and while a walk is on, it only
\* wants rows of its listing.
TypeInv ==
  /\ TypeOK
  /\ tasks \in [Ids -> Statuses \cup {None}]
  /\ Walking => wanted \subseteq Rows(status)
  /\ pc = "idle" => wanted = {} /\ seen = {} /\ repeated = 0

\* What a listing lists.
LEMMA RowsType ==
  ASSUME TypeInv, NEW s
  PROVE  /\ created \in Nat /\ created <= MaxTasks /\ Rows(s) \in Listing
         /\ Rows(s) \subseteq 1..created /\ Cardinality(Rows(s)) \in 0..created
<1>1. created \in Nat /\ created <= MaxTasks
  BY ListingAssumption DEF TypeInv, TypeOK, ListingAssumption
<1>2. IsFiniteSet(1..created) /\ Cardinality(1..created) = created
  BY <1>1, FS_Interval
<1>3. Rows(s) \in SUBSET (1..created) /\ 1..created \in SUBSET Nat
  BY <1>1 DEF Rows
<1> QED BY <1>1, <1>2, <1>3, Parts DEF Listing

LEMMA SamePlace == \A t, s : Position(t, s) = Place(Rows(s), t)
BY DEF Position, Place, Above

\* What a step that is not the walk's does to the listing of the walk.
Moves ==
  /\ UNCHANGED <<pc, request, count, walked, skew>>
  /\ created \in Nat /\ created' \in {created, created + 1}
  /\ \/ UNCHANGED <<wanted, moves>> /\ (Walking => Rows(status)' = Rows(status))
     \/ \E e \in Nat \ Rows(status) :
          /\ Rows(status)' = Rows(status) \cup {e}
          /\ Walking /\ wanted' = wanted \ {e}
          /\ entered' = entered + 1 /\ left' = left
          /\ slipped' = IF pc = "page" THEN slipped + 1 ELSE slipped
     \/ \E e \in Rows(status) :
          /\ Rows(status)' = Rows(status) \ {e}
          /\ Walking /\ wanted' = wanted \ {e}
          /\ left' = left + 1 /\ UNCHANGED <<entered, slipped>>

LEMMA CreateMoves == TypeInv /\ CreateTask => Moves
<1> SUFFICES ASSUME TypeInv, CreateTask PROVE Moves
  OBVIOUS
<1>1. /\ created \in Nat /\ created' = created + 1 /\ created' \in Ids /\ created' \notin Rows(status)
      /\ tasks' = [tasks EXCEPT ![created'] = "queued"]
      /\ UNCHANGED <<pc, request, count, walked, skew>>
  BY ListingAssumption DEF CreateTask, TypeInv, TypeOK, ListingAssumption, Ids, Rows
<1>2. \A t \in 1..created : t \in Ids /\ tasks'[t] = tasks[t]
  BY <1>1, ListingAssumption DEF TypeInv, TypeOK, ListingAssumption, Ids
<1>3. tasks'[created'] = "queued" /\ 1..created' = (1..created) \cup {created'}
  BY <1>1 DEF TypeInv
<1>4. Rows(status)' = IF status \in {None, "queued"} THEN Rows(status) \cup {created'} ELSE Rows(status)
  BY <1>1, <1>2, <1>3 DEF Rows, request
<1>5. Move(created', FALSE, status \in {None, "queued"})
  BY DEF CreateTask
<1>6. CASE status \in {None, "queued"} /\ Walking
  BY <1>1, <1>4, <1>5, <1>6 DEF Move, Moves
<1>7. CASE ~(status \in {None, "queued"} /\ Walking)
  BY <1>1, <1>4, <1>5, <1>7 DEF Move, Moves
<1> QED BY <1>6, <1>7

LEMMA UpdateMoves ==
  ASSUME TypeInv, NEW t \in Ids, NEW s \in Statuses, UpdateTask(t, s)
  PROVE  Moves
<1>1. /\ created \in Nat /\ created' = created /\ t \in 1..created
      /\ tasks' = [tasks EXCEPT ![t] = s]
      /\ UNCHANGED <<pc, request, count, walked, skew>>
  BY ListingAssumption DEF UpdateTask, TypeInv, TypeOK, ListingAssumption, Ids
<1>2. \A u \in 1..created : tasks'[u] = IF u = t THEN s ELSE tasks[u]
  BY <1>1, ListingAssumption DEF TypeInv, TypeOK, ListingAssumption, Ids
<1> DEFINE before == status \in {None, tasks[t]}
           after == status \in {None, s}
<1>3. /\ Rows(status)' = IF after THEN Rows(status) \cup {t} ELSE Rows(status) \ {t}
      /\ t \in Rows(status) <=> before
  BY <1>1, <1>2 DEF Rows, request
<1>4. Move(t, before, after)
  BY DEF UpdateTask
<1>5. CASE ~Walking \/ before = after
  <2>1. before = after => Rows(status)' = Rows(status)
    BY <1>3
  <2> QED BY <1>1, <1>4, <1>5, <2>1 DEF Move, Moves
<1>6. CASE Walking /\ after /\ ~before
  <2>1. t \in Nat \ Rows(status) /\ Rows(status)' = Rows(status) \cup {t}
    BY <1>1, <1>3, <1>6
  <2>2. /\ entered' = entered + 1 /\ left' = left /\ wanted' = wanted \ {t}
        /\ slipped' = IF pc = "page" THEN slipped + 1 ELSE slipped
    BY <1>4, <1>6 DEF Move
  <2> QED BY <1>1, <1>6, <2>1, <2>2 DEF Moves
<1>7. CASE Walking /\ before /\ ~after
  <2>1. t \in Rows(status) /\ Rows(status)' = Rows(status) \ {t}
    BY <1>3, <1>7
  <2>2. left' = left + 1 /\ wanted' = wanted \ {t} /\ UNCHANGED <<entered, slipped>>
    BY <1>4, <1>7 DEF Move
  <2> QED BY <1>1, <1>7, <2>1, <2>2 DEF Moves
<1> QED BY <1>5, <1>6, <1>7

LEMMA TypeStep == TypeInv /\ [Next]_vars => TypeInv'
<1> SUFFICES ASSUME TypeInv, [Next]_vars PROVE TypeInv'
  OBVIOUS
<1> USE ListingAssumption DEF ListingAssumption, Ids
<1>1. /\ created \in Nat /\ created <= MaxTasks /\ wanted \subseteq 1..created /\ seen \subseteq 1..created
      /\ offset \in Nat /\ limit \in Nat /\ count \in Nat /\ count <= created
  BY DEF TypeInv, TypeOK
<1>2. ASSUME NEW r \in {"next", "previous"}, NEW s \in Statuses \cup {None}, NEW lim \in Limits,
             NEW off \in 0..MaxTasks, Start(r, s, lim, off)
      PROVE  TypeInv'
  <2>1. wanted' \subseteq Rows(s) /\ Rows(s) \subseteq 1..created
    BY <1>2, RowsType DEF Start
  <2>2. skew' \in Nat
    BY <1>2 DEF Start
  <2>3. Rows(status)' = Rows(s)
    BY <1>2 DEF Start, Rows, table
  <2> QED
    BY <1>1, <1>2, <2>1, <2>2, <2>3 DEF Start, TypeInv, TypeOK, table, moves, walked, Walking
<1>3. CASE Count
  <2>1. count' \in 0..created
    BY <1>3, RowsType DEF Count
  <2>2. Rows(status)' = Rows(status)
    BY <1>3 DEF Count, Rows, table, request
  <2> QED
    BY <1>3, <2>1, <2>2 DEF Count, TypeInv, TypeOK, table, moves, walked, Walking, request
<1>4. CASE GetPage
  <2>1. Page(status, offset, limit) \subseteq Rows(status) /\ Rows(status) \subseteq 1..created
    BY RowsType DEF Page
  <2>2. repeated' \in 0..(MaxMoves + 1)
    <3>1. seen \cap Page(status, offset, limit) \in SUBSET Rows(status) /\ IsFiniteSet(Rows(status))
      BY <2>1, RowsType DEF Listing
    <3>2. Cardinality(seen \cap Page(status, offset, limit)) \in Nat
      BY <3>1, Parts
    <3> QED BY <1>4, <3>2 DEF GetPage, Walk, TypeInv, TypeOK
  <2>3. offset' \in 0..MaxTasks
    BY <1>1, <1>4 DEF GetPage, Walk, HasNext, HasPrevious, TypeInv, TypeOK
  <2>4. /\ pc' \in {"count", "done"} /\ seen' \subseteq 1..created /\ Rows(status)' = Rows(status)
        /\ pc = "page"
        /\ UNCHANGED <<table, rel, status, limit, count, wanted, skew, moves>>
    BY <1>1, <1>4, <2>1 DEF GetPage, Walk, table, Rows
  <2> QED BY <2>2, <2>3, <2>4 DEF TypeInv, TypeOK, table, moves, Walking
<1>5. ASSUME Moves, tasks' \in [Ids -> Statuses \cup {None}], created' <= MaxTasks,
             \A t \in Ids : tasks'[t] \in IF t <= created' THEN Statuses ELSE {None}
      PROVE  TypeInv'
  <2>1. wanted' \subseteq 1..created' /\ seen' \subseteq 1..created' /\ count' \in 0..created'
    <3>1. wanted' \subseteq wanted /\ seen' = seen /\ count' = count
      BY <1>5 DEF Moves, walked
    <3>2. created' \in {created, created + 1}
      BY <1>5 DEF Moves
    <3>3. 1..created \subseteq 1..created' /\ count \in 0..created'
      BY <1>1, <3>2
    <3> QED BY <1>1, <3>1, <3>3
  <2>2. Walking' => wanted' \subseteq Rows(status)'
    BY <1>5 DEF Moves, Walking, TypeInv
  <2>3. {entered', left', slipped'} \subseteq Nat
    BY <1>5 DEF Moves, TypeInv, TypeOK, moves
  <2>4. pc = "idle" => wanted' = wanted
    BY <1>5 DEF Moves, Walking
  <2>5. created' \in 0..MaxTasks
    BY <1>1, <1>5 DEF Moves
  <2> QED BY <1>5, <2>1, <2>2, <2>3, <2>4, <2>5 DEF Moves, TypeInv, TypeOK, walked, request, Walking
<1>6. CASE CreateTask
  <2>1. /\ created' = created + 1 /\ created' \in Ids
        /\ tasks' = [tasks EXCEPT ![created'] = "queued"]
    BY <1>1, <1>6 DEF CreateTask
  <2>2. \A t \in Ids : tasks'[t] \in IF t <= created' THEN Statuses ELSE {None}
    BY <1>1, <2>1 DEF TypeInv, TypeOK
  <2> QED BY <1>5, <1>6, <2>1, <2>2, CreateMoves DEF TypeInv
<1>7. ASSUME NEW t \in Ids, NEW s \in Statuses, UpdateTask(t, s) PROVE TypeInv'
  <2>1. created' = created /\ t <= created /\ tasks' = [tasks EXCEPT ![t] = s]
    BY <1>7 DEF UpdateTask
  <2>2. \A u \in Ids : tasks'[u] \in IF u <= created' THEN Statuses ELSE {None}
    BY <1>1, <2>1 DEF TypeInv, TypeOK
  <2> QED BY <1>1, <1>5, <1>7, <2>1, <2>2, UpdateMoves DEF TypeInv
<1>8. CASE UNCHANGED vars
  <2>1. Rows(status)' = Rows(status)
    BY <1>8 DEF vars, Rows, table, request
  <2> QED BY <1>8, <2>1 DEF vars, TypeInv, TypeOK, table, request, moves, walked, Walking
<1> QED BY <1>2, <1>3, <1>4, <1>6, <1>7, <1>8 DEF Next

LEMMA TypeInvariance == Spec => []TypeInv
<1>1. Init => TypeInv
  BY ListingAssumption DEF ListingAssumption, Init, TypeInv, TypeOK, Walking, Ids
<1> QED BY <1>1, TypeStep, PTL DEF Spec

\* Each variable has its type; no link has a negative offset or leads past the
\* page behind the last row, whatever enters and leaves meanwhile.
THEOREM TypeCorrect == Spec => []TypeOK
BY TypeInvariance, PTL DEF TypeInv

(***************************************************************************)
(* What a walk misses and gets twice.                                       *)
(***************************************************************************)

\* Along next, what is missed before the offset is paid for by rows that left, and
\* what comes again, behind the offset still or already, by rows that entered.
ForwardInv ==
  Walking /\ rel = "next" =>
    /\ Cardinality(Front(Rows(status), Missed, offset)) <= left
    /\ Cardinality(Back(Rows(status), seen \cap Rows(status), offset)) + repeated <= entered
    /\ pc = "page" => Cardinality(Rows(status)) <= count + slipped

\* Along previous it is the other way round, and a row that was seen and left may
\* come back before the walk.  The offsets keep their distance from the pages'
\* boundaries.
BackwardInv ==
  Walking /\ rel = "previous" =>
    /\ Cardinality(Back(Rows(status), Missed, offset + limit)) <= entered
    /\ Cardinality(Front(Rows(status), seen \cap Rows(status), offset + limit))
         + Cardinality(seen \ Rows(status)) + repeated <= left
    /\ limit > 0 => skew < limit /\ \E q \in Nat : offset = q * limit + skew

\* And of a walk that has ended, and one that has not begun.
DoneInv == ~Walking => MissedByMoves /\ RepeatedByMoves

WalkInv == TypeInv /\ ForwardInv /\ BackwardInv /\ DoneInv

\* The numbers and sets that the steps deal with.
LEMMA WalkTypes ==
  ASSUME TypeInv
  PROVE  /\ Rows(status) \in Listing /\ Rows(status) \subseteq 1..created /\ created \in Nat
         /\ Walking => Missed \in SUBSET Rows(status)
         /\ seen \cap Rows(status) \in SUBSET Rows(status)
         /\ seen \in Listing
         /\ offset \in Nat /\ limit \in Nat /\ count \in Nat /\ repeated \in Nat
         /\ skew \in Nat /\ entered \in Nat /\ left \in Nat /\ slipped \in Nat
         /\ \A X \in SUBSET Rows(status) : X \in Listing
         /\ \A X \in SUBSET seen : X \in Listing
<1>1. Rows(status) \in Listing /\ created \in Nat /\ Rows(status) \subseteq 1..created
  BY RowsType
<1>2. seen \in SUBSET (1..created) /\ 1..created \in SUBSET Nat /\ IsFiniteSet(1..created)
  <2>1. IsFiniteSet(1..created)
    BY <1>1, FS_Interval
  <2>2. seen \in SUBSET (1..created)
    BY DEF TypeInv, TypeOK
  <2> QED BY <1>1, <2>1, <2>2
<1>3. seen \in Listing
  BY <1>2, FS_Subset DEF Listing
<1>4. \A X \in Listing : \A Y \in SUBSET X : Y \in Listing
  BY FS_Subset DEF Listing
<1>5. Walking => Missed \in SUBSET Rows(status)
  BY DEF TypeInv, Missed
<1>6. /\ offset \in Nat /\ limit \in Nat /\ count \in Nat /\ repeated \in Nat
      /\ skew \in Nat /\ entered \in Nat /\ left \in Nat /\ slipped \in Nat
  BY <1>1, ListingAssumption DEF TypeInv, TypeOK, ListingAssumption
<1> QED BY <1>1, <1>3, <1>4, <1>5, <1>6

LEMMA EnterStep ==
  ASSUME WalkInv, Walking, TypeInv', NEW e \in Nat \ Rows(status),
         UNCHANGED <<pc, request, count, walked, skew>>,
         Rows(status)' = Rows(status) \cup {e}, wanted' = wanted \ {e},
         entered' = entered + 1, left' = left,
         slipped' = IF pc = "page" THEN slipped + 1 ELSE slipped
  PROVE  ForwardInv' /\ BackwardInv'
<1> DEFINE R == Rows(status)
           Q == R \cup {e}
           S == seen \cap R
           k == offset + limit
<1>1. /\ R \in Listing /\ R \in SUBSET Nat /\ IsFiniteSet(R)
      /\ Missed \in SUBSET R /\ S \in SUBSET R /\ Q \in Listing
      /\ S \cup {e} \in SUBSET Q /\ Missed \in SUBSET Q /\ S \in SUBSET Q
      /\ offset \in Nat /\ limit \in Nat /\ count \in Nat /\ repeated \in Nat
      /\ skew \in Nat /\ entered \in Nat /\ left \in Nat /\ slipped \in Nat /\ k \in Nat
  BY WalkTypes, FS_AddElement DEF WalkInv, Listing
<1>2. Missed' = Missed
  BY <1>1 DEF Missed, walked, WalkInv, TypeInv
<1>3. (seen \cap Rows(status))' \in {S, S \cup {e}}
  BY DEF walked
<1>4. CASE rel = "next"
  <2>1. /\ Cardinality(Front(R, Missed, offset)) <= left
        /\ Cardinality(Back(R, S, offset)) + repeated <= entered
        /\ pc = "page" => Cardinality(R) <= count + slipped
    BY <1>4 DEF WalkInv, ForwardInv
  <2>2. Cardinality(Front(Q, Missed, offset)) <= left
    <3>1. Cardinality(Front(Q, Missed, offset)) <= Cardinality(Front(R, Missed, offset))
      BY <1>1, EnterFront
    <3>2. /\ Cardinality(Front(Q, Missed, offset)) \in Nat
          /\ Cardinality(Front(R, Missed, offset)) \in Nat
      BY <1>1, WalkTypes, FrontBackParts, FS_Subset DEF Listing, WalkInv
    <3> QED BY <1>1, <2>1, <3>1, <3>2
  <2>3. ASSUME NEW X \in {S, S \cup {e}}
        PROVE  Cardinality(Back(Q, X, offset)) + repeated <= entered + 1
    <3>1. Cardinality(Back(Q, X, offset)) <= Cardinality(Back(R, S, offset)) + 1
      BY <1>1, EnterBack
    <3>2. X \in Listing /\ S \in Listing
      <4>1. X \in SUBSET Q
        BY <1>1
      <4> QED BY <1>1, <4>1, FS_Subset DEF Listing
    <3>3. Cardinality(Back(Q, X, offset)) \in Nat /\ Cardinality(Back(R, S, offset)) \in Nat
      BY <1>1, <3>2, FrontBackParts
    <3> QED BY <1>1, <2>1, <3>1, <3>3
  <2>4. pc = "page" => Cardinality(Q) <= count + slipped'
    <3>1. Cardinality(Q) <= Cardinality(R) + 1 /\ Cardinality(Q) \in Nat /\ Cardinality(R) \in Nat
      BY <1>1, OneMore
    <3> QED BY <1>1, <2>1, <3>1
  <2> HIDE DEF R, S, Q
  <2>5. /\ Cardinality(Front(Q, Missed', offset')) <= left'
        /\ Cardinality(Back(Q, (seen \cap Rows(status))', offset')) + repeated' <= entered'
        /\ pc' = "page" => Cardinality(Q) <= count' + slipped'
    BY <1>2, <1>3, <2>2, <2>3, <2>4 DEF walked, request
  <2> QED BY <1>4, <2>5 DEF ForwardInv, BackwardInv, request, Q, R
<1>5. CASE rel = "previous"
  <2>1. /\ Cardinality(Back(R, Missed, k)) <= entered
        /\ Cardinality(Front(R, S, k)) + Cardinality(seen \ R) + repeated <= left
    BY <1>5 DEF WalkInv, BackwardInv
  <2>0. limit > 0 => skew < limit /\ \E q \in Nat : offset = q * limit + skew
    BY <1>5 DEF WalkInv, BackwardInv
  <2>2. Cardinality(Back(Q, Missed, k)) <= entered + 1
    <3>1. Cardinality(Back(Q, Missed, k)) <= Cardinality(Back(R, Missed, k)) + 1
      BY <1>1, EnterBack
    <3>2. Missed \in Listing
      BY <1>1, FS_Subset DEF Listing
    <3>3. Cardinality(Back(Q, Missed, k)) \in Nat /\ Cardinality(Back(R, Missed, k)) \in Nat
      BY <1>1, <3>2, FrontBackParts
    <3> QED BY <1>1, <2>1, <3>1, <3>3
  <2>3. IsFiniteSet(seen \ R) /\ Cardinality(seen \ R) \in Nat
    <3>1. seen \in Listing
      BY WalkTypes DEF WalkInv
    <3> QED BY <3>1, Parts DEF Listing
  <2>4. S \in Listing /\ Cardinality(Front(R, S, k)) \in Nat
    <3>1. S \in Listing
      BY <1>1, FS_Subset DEF Listing
    <3> QED BY <1>1, <3>1, FrontBackParts
  <2>5. Cardinality(Front(Q, seen \cap Q, k)) + Cardinality(seen \ Q) + repeated <= left
    <3>1. CASE e \in seen
      <4>1. seen \cap Q = S \cup {e} /\ seen \ Q = (seen \ R) \ {e} /\ e \in seen \ R
        BY <3>1
      <4>2. Cardinality(Front(Q, S \cup {e}, k)) <= Cardinality(Front(R, S, k)) + 1
        BY <1>1, EnterFront
      <4>3. Cardinality((seen \ R) \ {e}) = Cardinality(seen \ R) - 1
        BY <2>3, <4>1, FS_RemoveElement
      <4>4. S \cup {e} \in Listing
        BY <1>1, FS_Subset DEF Listing
      <4>5. Cardinality(Front(Q, S \cup {e}, k)) \in Nat
        BY <1>1, <4>4, FrontBackParts
      <4>6. /\ Cardinality(Front(Q, seen \cap Q, k)) = Cardinality(Front(Q, S \cup {e}, k))
            /\ Cardinality(seen \ Q) = Cardinality(seen \ R) - 1
        BY <4>1, <4>3
      <4> QED BY <1>1, <2>1, <2>3, <2>4, <4>2, <4>5, <4>6
    <3>2. CASE e \notin seen
      <4>1. seen \cap Q = S /\ seen \ Q = seen \ R
        BY <3>2
      <4>2. Cardinality(Front(Q, S, k)) <= Cardinality(Front(R, S, k))
        BY <1>1, EnterFront
      <4>3. Cardinality(Front(Q, S, k)) \in Nat
        BY <1>1, <2>4, FrontBackParts
      <4>4. /\ Cardinality(Front(Q, seen \cap Q, k)) = Cardinality(Front(Q, S, k))
            /\ Cardinality(seen \ Q) = Cardinality(seen \ R)
        BY <4>1
      <4> QED BY <1>1, <2>1, <2>3, <2>4, <4>2, <4>3, <4>4
    <3> QED BY <3>1, <3>2
  <2> HIDE DEF R, S, Q
  <2>6. /\ Cardinality(Back(Q, Missed', offset' + limit')) <= entered'
        /\ Cardinality(Front(Q, seen' \cap Q, offset' + limit'))
             + Cardinality(seen' \ Q) + repeated' <= left'
        /\ limit' > 0 => skew' < limit' /\ \E q \in Nat : offset' = q * limit' + skew'
    BY <1>2, <2>0, <2>2, <2>5 DEF walked, request
  <2> QED BY <1>5, <2>6 DEF ForwardInv, BackwardInv, request, Q, R
<1>6. rel \in {"next", "previous"}
  BY DEF WalkInv, TypeInv, TypeOK
<1> QED BY <1>4, <1>5, <1>6

LEMMA LeaveStep ==
  ASSUME WalkInv, Walking, TypeInv', NEW e \in Rows(status),
         UNCHANGED <<pc, request, count, walked, skew>>,
         Rows(status)' = Rows(status) \ {e}, wanted' = wanted \ {e},
         left' = left + 1, UNCHANGED <<entered, slipped>>
  PROVE  ForwardInv' /\ BackwardInv'
<1> DEFINE R == Rows(status)
           Q == R \ {e}
           S == seen \cap R
           Z == Missed \ {e}
           k == offset + limit
<1>1. /\ R \in Listing /\ R \in SUBSET Nat /\ IsFiniteSet(R)
      /\ Missed \in SUBSET R /\ S \in SUBSET R /\ Z \in SUBSET Q /\ S \ {e} \in SUBSET Q
      /\ Q \in Listing /\ Missed \in Listing /\ S \in Listing
      /\ Z \in Listing /\ S \ {e} \in Listing /\ Z \in SUBSET Missed /\ S \ {e} \in SUBSET S
      /\ offset \in Nat /\ limit \in Nat /\ count \in Nat /\ repeated \in Nat
      /\ skew \in Nat /\ entered \in Nat /\ left \in Nat /\ slipped \in Nat /\ k \in Nat
  BY WalkTypes DEF WalkInv, Listing
<1>2. Missed' = Z /\ seen' = seen /\ seen \cap Q = S \ {e}
  BY DEF Missed, walked
<1>4. CASE rel = "next"
  <2>1. /\ Cardinality(Front(R, Missed, offset)) <= left
        /\ Cardinality(Back(R, S, offset)) + repeated <= entered
        /\ pc = "page" => Cardinality(R) <= count + slipped
    BY <1>4 DEF WalkInv, ForwardInv
  <2>2. Cardinality(Front(Q, Z, offset)) <= left + 1
    <3>1. Cardinality(Front(Q, Z, offset)) <= Cardinality(Front(R, Z, offset)) + 1
      BY <1>1, LeaveEffect
    <3>2. Cardinality(Front(R, Z, offset)) <= Cardinality(Front(R, Missed, offset))
      BY <1>1, FrontBackParts
    <3>3. /\ Cardinality(Front(Q, Z, offset)) \in Nat /\ Cardinality(Front(R, Z, offset)) \in Nat
          /\ Cardinality(Front(R, Missed, offset)) \in Nat
      BY <1>1, FrontBackParts
    <3> QED BY <1>1, <2>1, <3>1, <3>2, <3>3
  <2>3. Cardinality(Back(Q, S \ {e}, offset)) + repeated <= entered
    <3>1. Cardinality(Back(Q, S \ {e}, offset)) <= Cardinality(Back(R, S \ {e}, offset))
      BY <1>1, LeaveEffect
    <3>2. Cardinality(Back(R, S \ {e}, offset)) <= Cardinality(Back(R, S, offset))
      BY <1>1, FrontBackParts
    <3>3. /\ Cardinality(Back(Q, S \ {e}, offset)) \in Nat /\ Cardinality(Back(R, S, offset)) \in Nat
          /\ Cardinality(Back(R, S \ {e}, offset)) \in Nat
      BY <1>1, FrontBackParts
    <3> QED BY <1>1, <2>1, <3>1, <3>2, <3>3
  <2>4. pc = "page" => Cardinality(Q) <= count + slipped
    <3>1. Cardinality(Q) <= Cardinality(R) /\ Cardinality(Q) \in Nat /\ Cardinality(R) \in Nat
      BY <1>1, Parts
    <3> QED BY <1>1, <2>1, <3>1
  <2> HIDE DEF R, S, Q, Z
  <2>5. /\ Cardinality(Front(Q, Missed', offset')) <= left'
        /\ Cardinality(Back(Q, seen' \cap Q, offset')) + repeated' <= entered'
        /\ pc' = "page" => Cardinality(Q) <= count' + slipped'
    BY <1>2, <2>2, <2>3, <2>4 DEF walked, request
  <2> QED BY <1>4, <2>5 DEF ForwardInv, BackwardInv, request, Q, R
<1>5. CASE rel = "previous"
  <2>1. /\ Cardinality(Back(R, Missed, k)) <= entered
        /\ Cardinality(Front(R, S, k)) + Cardinality(seen \ R) + repeated <= left
    BY <1>5 DEF WalkInv, BackwardInv
  <2>0. limit > 0 => skew < limit /\ \E q \in Nat : offset = q * limit + skew
    BY <1>5 DEF WalkInv, BackwardInv
  <2>2. Cardinality(Back(Q, Z, k)) <= entered
    <3>1. Cardinality(Back(Q, Z, k)) <= Cardinality(Back(R, Z, k))
      BY <1>1, LeaveEffect
    <3>2. Cardinality(Back(R, Z, k)) <= Cardinality(Back(R, Missed, k))
      BY <1>1, FrontBackParts
    <3>3. /\ Cardinality(Back(Q, Z, k)) \in Nat /\ Cardinality(Back(R, Z, k)) \in Nat
          /\ Cardinality(Back(R, Missed, k)) \in Nat
      BY <1>1, FrontBackParts
    <3> QED BY <1>1, <2>1, <3>1, <3>2, <3>3
  <2>3. IsFiniteSet(seen \ R) /\ Cardinality(seen \ R) \in Nat
    <3>1. seen \in Listing
      BY WalkTypes DEF WalkInv
    <3> QED BY <3>1, Parts DEF Listing
  <2>4. /\ Cardinality(Front(R, S, k)) \in Nat /\ Cardinality(Front(Q, S \ {e}, k)) \in Nat
        /\ Cardinality(Front(R, S \ {e}, k)) \in Nat
        /\ Cardinality(Front(R, S \ {e}, k)) <= Cardinality(Front(R, S, k))
    BY <1>1, FrontBackParts
  <2>5. /\ Cardinality(Front(Q, S \ {e}, k)) <= Cardinality(Front(R, S \ {e}, k)) + 1
        /\ Cardinality(Front(Q, S \ {e}, k)) <= Cardinality(Front(R, (S \ {e}) \cup {e}, k))
    BY <1>1, LeaveEffect
  <2>6. Cardinality(Front(Q, seen \cap Q, k)) + Cardinality(seen \ Q) + repeated <= left + 1
    <3>1. CASE e \in seen
      <4>1. seen \ Q = (seen \ R) \cup {e} /\ (S \ {e}) \cup {e} = S
        BY <3>1
      <4>2. /\ Cardinality((seen \ R) \cup {e}) <= Cardinality(seen \ R) + 1
            /\ Cardinality((seen \ R) \cup {e}) \in Nat
        BY <2>3, OneMore
      <4>3. Cardinality(Front(Q, S \ {e}, k)) <= Cardinality(Front(R, S, k))
        BY <2>5, <4>1
      <4>4. /\ Cardinality(Front(Q, seen \cap Q, k)) = Cardinality(Front(Q, S \ {e}, k))
            /\ Cardinality(seen \ Q) = Cardinality((seen \ R) \cup {e})
        BY <1>2, <4>1
      <4> QED BY <1>1, <2>1, <2>3, <2>4, <4>2, <4>3, <4>4
    <3>2. CASE e \notin seen
      <4>1. seen \ Q = seen \ R
        BY <3>2
      <4>2. /\ Cardinality(Front(Q, seen \cap Q, k)) = Cardinality(Front(Q, S \ {e}, k))
            /\ Cardinality(seen \ Q) = Cardinality(seen \ R)
        BY <1>2, <4>1
      <4> QED BY <1>1, <2>1, <2>3, <2>4, <2>5, <4>2
    <3> QED BY <3>1, <3>2
  <2> HIDE DEF R, S, Q, Z
  <2>7. /\ Cardinality(Back(Q, Missed', offset' + limit')) <= entered'
        /\ Cardinality(Front(Q, seen' \cap Q, offset' + limit'))
             + Cardinality(seen' \ Q) + repeated' <= left'
        /\ limit' > 0 => skew' < limit' /\ \E q \in Nat : offset' = q * limit' + skew'
    BY <1>2, <2>0, <2>2, <2>6 DEF walked, request
  <2> QED BY <1>5, <2>7 DEF ForwardInv, BackwardInv, request, Q, R
<1>6. rel \in {"next", "previous"}
  BY DEF WalkInv, TypeInv, TypeOK
<1> QED BY <1>4, <1>5, <1>6

\* What is not the walk's step moves at most one row over the boundary of what it
\* has passed, or the row that it counts.
LEMMA MovesStep == WalkInv /\ Moves /\ TypeInv' => WalkInv'
<1> SUFFICES ASSUME WalkInv, Moves, TypeInv' PROVE ForwardInv' /\ BackwardInv' /\ DoneInv'
  BY DEF WalkInv
<1>1. UNCHANGED <<pc, request, count, walked, skew>>
  BY DEF Moves
<1>2. CASE UNCHANGED <<wanted, moves>> /\ (Walking => Rows(status)' = Rows(status))
  <2>1. Walking' = Walking /\ Missed' = Missed
    BY <1>1, <1>2 DEF Walking, Missed, walked
  <2>2. DoneInv'
    BY <1>1, <1>2, <2>1 DEF WalkInv, DoneInv, MissedByMoves, RepeatedByMoves, request, walked, moves
  <2>3. ForwardInv' /\ BackwardInv'
    BY <1>1, <1>2, <2>1 DEF WalkInv, ForwardInv, BackwardInv, request, walked, moves
  <2> QED BY <2>2, <2>3
<1>3. CASE Walking /\ ForwardInv' /\ BackwardInv'
  <2>1. Walking'
    BY <1>1, <1>3 DEF Walking
  <2> QED BY <1>3, <2>1 DEF DoneInv
<1> QED BY <1>1, <1>2, <1>3, EnterStep, LeaveStep DEF Moves


\* What a start leaves of its offset, whole pages taken away.
LEMMA Division ==
  ASSUME NEW a \in Nat, NEW b \in Nat \ {0}
  PROVE  a % b < b /\ \E q \in Nat : a = q * b + (a % b)
<1>1. a = (a \div b) * b + (a % b) /\ a \div b \in Nat
  OBVIOUS
<1>2. a % b < b
  OBVIOUS
<1> QED BY <1>1, <1>2

LEMMA StartStep ==
  ASSUME WalkInv, TypeInv', NEW r \in {"next", "previous"}, NEW s \in Statuses \cup {None},
         NEW lim \in Limits, NEW off \in 0..MaxTasks, Start(r, s, lim, off)
  PROVE  WalkInv'
<1> DEFINE R == Rows(s)
<1>1. /\ off \in Nat /\ lim \in Nat /\ R \in Listing /\ Walking'
      /\ entered \in Nat /\ left \in Nat /\ entered' = entered /\ left' = left
      /\ repeated' = 0 /\ seen' = {}
  BY RowsType, WalkTypes, ListingAssumption
     DEF WalkInv, TypeInv, Start, Walking, walked, moves, ListingAssumption
<1>2. pc' = "count" /\ rel' = r /\ limit' = lim /\ offset' = off /\ Rows(status)' = R
  BY DEF Start, Rows, table
<1>3. Missed' = IF r = "next" THEN Back(R, R, off) ELSE Front(R, R, off + lim)
  <2>1. \A t \in R : Position(t, s) = Place(R, t)
    BY SamePlace
  <2> QED BY <1>1, <2>1 DEF Start, Missed, Back, Front
<1>4. Cardinality({}) = 0
  BY FS_EmptySet
<1>5. /\ \A t \in R : Place(R, t) \in Nat
      /\ \A X, k : Front(X, {}, k) = {} /\ Back(X, {}, k) = {}
  BY <1>1, AboveFinite DEF Front, Back
<1>6. CASE r = "next"
  <2>1. Front(R, Back(R, R, off), off) = {}
    BY <1>1, <1>5 DEF Front, Back
  <2>2. /\ Cardinality(Front(R, Missed', off)) = 0
        /\ Cardinality(Back(R, seen' \cap R, off)) = 0
    <3>1. seen' \cap R = {}
      BY <1>1
    <3> QED BY <1>3, <1>4, <1>5, <1>6, <2>1, <3>1
  <2> QED BY <1>1, <1>2, <1>6, <2>2 DEF WalkInv, ForwardInv, BackwardInv, DoneInv
<1>7. CASE r = "previous"
  <2>1. Back(R, Front(R, R, off + lim), off + lim) = {}
    BY <1>1, <1>5 DEF Front, Back
  <2>2. /\ Cardinality(Back(R, Missed', off + lim)) = 0
        /\ Cardinality(Front(R, seen' \cap R, off + lim)) = 0
        /\ Cardinality(seen' \ R) = 0
    <3>1. seen' \cap R = {} /\ seen' \ R = {}
      BY <1>1
    <3> QED BY <1>3, <1>4, <1>5, <1>7, <2>1, <3>1
  <2>3. lim > 0 => skew' < lim /\ \E q \in Nat : off = q * lim + skew'
    <3>1. \A a \in Nat, b \in Nat \ {0} :
             a % b < b /\ \E q \in Nat : a = q * b + (a % b)
      BY Division
    <3> HIDE DEF R
    <3>2. lim > 0 => skew' = off % lim
      BY <1>7 DEF Start
    <3>3. lim > 0 => off % lim < lim /\ \E q \in Nat : off = q * lim + (off % lim)
      <4>1. lim > 0 => lim \in Nat \ {0}
        BY <1>1
      <4> QED BY <1>1, <3>1, <4>1
    <3> QED BY <3>2, <3>3
  <2> QED BY <1>1, <1>2, <1>7, <2>2, <2>3 DEF WalkInv, ForwardInv, BackwardInv, DoneInv
<1> QED BY <1>6, <1>7

LEMMA CountStep == WalkInv /\ TypeInv' /\ Count => WalkInv'
<1> SUFFICES ASSUME WalkInv, TypeInv', Count PROVE ForwardInv' /\ BackwardInv' /\ DoneInv'
  BY DEF WalkInv
<1>1. /\ Rows(status)' = Rows(status) /\ Missed' = Missed /\ Walking /\ Walking'
      /\ count' = Cardinality(Rows(status)) /\ slipped' = slipped
      /\ UNCHANGED <<request, walked, skew, moves>>
  BY DEF Count, Rows, Missed, table, request, walked, Walking, moves
<1>2. slipped \in Nat /\ Cardinality(Rows(status)) \in Nat
  BY RowsType DEF WalkInv, TypeInv, TypeOK
<1>3. Cardinality(Rows(status)) <= count' + slipped'
  BY <1>1, <1>2
<1> QED BY <1>1, <1>3 DEF WalkInv, ForwardInv, BackwardInv, DoneInv, request, walked, moves

\* The page is what is between its offset and the next.
LEMMA PageIs ==
  ASSUME TypeInv
  PROVE  Page(status, offset, limit)
           = {t \in Rows(status) : offset <= Place(Rows(status), t)
                                   /\ Place(Rows(status), t) < offset + limit}
<1>1. \A t \in Rows(status) : Place(Rows(status), t) \in Nat
  BY RowsType, AboveFinite
<1>2. offset \in Nat /\ limit \in Nat
  BY WalkTypes
<1>3. \A t \in Rows(status) : Position(t, status) \in offset..(offset + limit - 1)
        <=> offset <= Place(Rows(status), t) /\ Place(Rows(status), t) < offset + limit
  BY <1>1, <1>2, SamePlace
<1> QED BY <1>3 DEF Page

\* Two parts of a set that have nothing in common count together.
LEMMA Together ==
  ASSUME NEW S, IsFiniteSet(S), NEW A \in SUBSET S, NEW B \in SUBSET S, A \cap B = {}
  PROVE  Cardinality(A \cup B) = Cardinality(A) + Cardinality(B)
<1>1. IsFiniteSet(A) /\ IsFiniteSet(B) /\ Cardinality(A) \in Nat /\ Cardinality(B) \in Nat
  BY Parts
<1>2. Cardinality(A \cup B) = Cardinality(A) + Cardinality(B) - Cardinality(A \cap B)
  BY <1>1, FS_Union
<1> QED BY <1>1, <1>2, FS_EmptySet

LEMMA PageStep == WalkInv /\ TypeInv' /\ GetPage => WalkInv'
<1> SUFFICES ASSUME WalkInv, TypeInv', GetPage PROVE ForwardInv' /\ BackwardInv' /\ DoneInv'
  BY DEF WalkInv
<1> DEFINE R == Rows(status)
           P == Page(status, offset, limit)
           S == seen \cap R
           k == offset + limit
           Z == Missed \ P
           T == S \cup P
<1>1. /\ R \in Listing /\ IsFiniteSet(R) /\ Walking /\ pc = "page"
      /\ Missed \in SUBSET R /\ S \in SUBSET R
      /\ offset \in Nat /\ limit \in Nat /\ count \in Nat /\ repeated \in Nat
      /\ skew \in Nat /\ entered \in Nat /\ left \in Nat /\ slipped \in Nat /\ k \in Nat
      /\ IsFiniteSet(seen)
  BY WalkTypes DEF WalkInv, Listing, GetPage, Walk, Walking
<1>2. P = {t \in R : offset <= Place(R, t) /\ Place(R, t) < k} /\ P \in SUBSET R
  BY PageIs DEF WalkInv
<1>3. \A t \in R : Place(R, t) \in Nat
  BY <1>1, AboveFinite
<1>4. /\ seen' = seen \cup P /\ Rows(status)' = R /\ Missed' = Z
      /\ seen' \cap R = T /\ seen' \ R = seen \ R
      /\ UNCHANGED <<rel, status, limit, count, wanted, skew, entered, left, slipped>>
  BY <1>2 DEF GetPage, Walk, Rows, table, Missed, moves
<1>5. /\ Cardinality(seen \cap P) \in Nat /\ repeated' \in Nat
      /\ repeated' <= repeated + Cardinality(seen \cap P)
  <2>1. seen \cap P \in SUBSET R
    BY <1>2
  <2>2. Cardinality(seen \cap P) \in Nat
    BY <1>1, <2>1, Parts
  <2>3. repeated' = LET again == repeated + Cardinality(seen \cap P)
                    IN  IF again > MaxMoves THEN MaxMoves + 1 ELSE again
    BY DEF GetPage, Walk
  <2> HIDE DEF P
  <2> QED BY <1>1, <2>2, <2>3, ListingAssumption DEF ListingAssumption
<1>6. Z \in SUBSET R /\ T \in SUBSET R
  BY <1>1, <1>2
<1>7. CASE rel = "next"
  <2>1. /\ Cardinality(Front(R, Missed, offset)) <= left
        /\ Cardinality(Back(R, S, offset)) + repeated <= entered
        /\ Cardinality(R) <= count + slipped
    BY <1>1, <1>7 DEF WalkInv, ForwardInv
  <2>2. /\ Back(R, S, offset) = Back(R, T, k) \cup (seen \cap P)
        /\ Back(R, T, k) \cap (seen \cap P) = {}
        /\ Back(R, T, k) \in SUBSET R /\ seen \cap P \in SUBSET R
    BY <1>1, <1>2, <1>3 DEF Back
  <2>3. Cardinality(Back(R, S, offset)) = Cardinality(Back(R, T, k)) + Cardinality(seen \cap P)
    <3> DEFINE A == Back(R, T, k)
               B == seen \cap P
    <3>1. IsFiniteSet(R) /\ A \in SUBSET R /\ B \in SUBSET R /\ A \cap B = {}
      BY <1>1, <2>2
    <3>2. Cardinality(A \cup B) = Cardinality(A) + Cardinality(B)
      <4> HIDE DEF A, B, R
      <4> QED BY <3>1, Together
    <3> QED BY <2>2, <3>2
  <2>4. Cardinality(Back(R, T, k)) \in Nat
    BY <1>1, <2>2, Parts
  <2>5. Cardinality(Back(R, T, k)) + repeated' <= entered
    BY <1>1, <1>5, <2>1, <2>3, <2>4
  <2>6. /\ Cardinality(Front(R, Missed, offset)) \in Nat
        /\ Cardinality(Front(R, Z, k)) <= left
    <3>1. Front(R, Z, k) \in SUBSET Front(R, Missed, offset) /\ Front(R, Missed, offset) \in SUBSET R
      BY <1>1, <1>2, <1>3 DEF Front
    <3>2. /\ IsFiniteSet(Front(R, Missed, offset)) /\ Cardinality(Front(R, Missed, offset)) \in Nat
      BY <1>1, <3>1, Parts
    <3>3. /\ Cardinality(Front(R, Z, k)) <= Cardinality(Front(R, Missed, offset))
          /\ Cardinality(Front(R, Z, k)) \in Nat
      BY <3>1, <3>2, Parts
    <3> QED BY <1>1, <2>1, <3>2, <3>3
  <2>7. CASE HasNext
    <3>1. pc' = "count" /\ offset' = k
      BY <1>7, <2>7 DEF GetPage, Walk
    <3>2. Walking' /\ rel' = "next"
      BY <1>4, <1>7, <3>1 DEF Walking
    <3> HIDE DEF R, S, T, P, Z, k
    <3>3. /\ Cardinality(Front(R, Missed', offset')) <= left'
          /\ Cardinality(Back(R, seen' \cap R, offset')) + repeated' <= entered'
      BY <1>4, <2>5, <2>6, <3>1
    <3> QED BY <1>4, <3>1, <3>2, <3>3 DEF ForwardInv, BackwardInv, DoneInv
  <2>8. CASE ~HasNext
    <3>1. pc' = "done" /\ offset' = offset /\ count < k
      BY <1>1, <1>7, <2>8 DEF GetPage, Walk, HasNext
    <3>2. Cardinality(Back(R, R, k)) <= slipped /\ Back(R, R, k) \in SUBSET R
      <4>1. Back(R, R, k) \in SUBSET R /\ Cardinality({}) = 0
        BY FS_EmptySet DEF Back
      <4>2. Cardinality(Back(R, R, k)) \in Nat /\ Cardinality(R) \in Nat
        BY <1>1, <4>1, Parts
      <4>3. Back(R, R, k) = {} \/ Cardinality(Back(R, R, k)) + k <= Cardinality(R)
        BY <1>1, BackBound
      <4>4. CASE Back(R, R, k) = {}
        BY <1>1, <4>1, <4>4
      <4>5. CASE Cardinality(Back(R, R, k)) + k <= Cardinality(R)
        BY <1>1, <2>1, <3>1, <4>1, <4>2, <4>5
      <4> QED BY <4>3, <4>4, <4>5
    <3>3. Cardinality(Z) <= left + slipped
      <4> DEFINE A == Front(R, Missed, offset)
                 B == Back(R, R, k)
      <4>1. Z \in SUBSET (A \cup B) /\ A \in SUBSET R /\ B \in SUBSET R /\ A \cap B = {}
        BY <1>1, <1>2, <1>3 DEF Front, Back
      <4>2. Cardinality(A \cup B) = Cardinality(A) + Cardinality(B)
        BY <1>1, <4>1, Together
      <4>3. /\ IsFiniteSet(A \cup B) /\ A \cup B \in SUBSET R
            /\ Cardinality(A) \in Nat /\ Cardinality(B) \in Nat
        BY <1>1, <4>1, Parts
      <4>4. Cardinality(Z) <= Cardinality(A \cup B) /\ Cardinality(Z) \in Nat
        BY <4>1, <4>3, Parts
      <4> QED BY <1>1, <2>1, <3>2, <4>2, <4>3, <4>4
    <3>4. repeated' <= entered
      BY <1>1, <1>5, <2>4, <2>5
    <3> HIDE DEF R, S, T, P, Z, k
    <3> QED BY <1>4, <1>7, <3>1, <3>3, <3>4
            DEF ForwardInv, BackwardInv, DoneInv, MissedByMoves, RepeatedByMoves, Walking
  <2> QED BY <2>7, <2>8
<1>8. CASE rel = "previous"
  <2>1. /\ Cardinality(Back(R, Missed, k)) <= entered
        /\ Cardinality(Front(R, S, k)) + Cardinality(seen \ R) + repeated <= left
    BY <1>1, <1>8 DEF WalkInv, BackwardInv
  <2>2. limit > 0 => skew < limit /\ \E q \in Nat : offset = q * limit + skew
    BY <1>1, <1>8 DEF WalkInv, BackwardInv
  <2>3. Cardinality(seen \ R) \in Nat
    <3>1. seen \ R \in SUBSET seen
      OBVIOUS
    <3> QED BY <1>1, <3>1, Parts
  <2>4. /\ Front(R, S, k) = Front(R, T, offset) \cup (seen \cap P)
        /\ Front(R, T, offset) \cap (seen \cap P) = {}
        /\ Front(R, T, offset) \in SUBSET R /\ seen \cap P \in SUBSET R
    BY <1>1, <1>2, <1>3 DEF Front
  <2>5. Cardinality(Front(R, S, k)) = Cardinality(Front(R, T, offset)) + Cardinality(seen \cap P)
    <3> DEFINE A == Front(R, T, offset)
               B == seen \cap P
    <3>1. IsFiniteSet(R) /\ A \in SUBSET R /\ B \in SUBSET R /\ A \cap B = {}
      BY <1>1, <2>4
    <3>2. Cardinality(A \cup B) = Cardinality(A) + Cardinality(B)
      <4> HIDE DEF A, B, R
      <4> QED BY <3>1, Together
    <3> QED BY <2>4, <3>2
  <2>6. Cardinality(Front(R, T, offset)) \in Nat
    BY <1>1, <2>4, Parts
  <2>7. Cardinality(Front(R, T, offset)) + Cardinality(seen \ R) + repeated' <= left
    BY <1>1, <1>5, <2>1, <2>3, <2>5, <2>6
  <2>8. /\ IsFiniteSet(Back(R, Missed, k)) /\ Cardinality(Back(R, Missed, k)) \in Nat
        /\ Cardinality(Back(R, Z, offset)) <= entered
    <3>1. Back(R, Z, offset) \in SUBSET Back(R, Missed, k) /\ Back(R, Missed, k) \in SUBSET R
      BY <1>1, <1>2, <1>3 DEF Back
    <3>2. IsFiniteSet(Back(R, Missed, k)) /\ Cardinality(Back(R, Missed, k)) \in Nat
      BY <1>1, <3>1, Parts
    <3>3. /\ Cardinality(Back(R, Z, offset)) <= Cardinality(Back(R, Missed, k))
          /\ Cardinality(Back(R, Z, offset)) \in Nat
      BY <3>1, <3>2, Parts
    <3> QED BY <1>1, <2>1, <3>2, <3>3
  <2>9. CASE HasPrevious
    <3>1. pc' = "count" /\ offset' = offset - limit /\ offset >= limit
      BY <1>1, <1>8, <2>9 DEF GetPage, Walk, HasPrevious
    <3>2. Walking' /\ rel' = "previous" /\ offset' + limit = offset
      BY <1>1, <1>4, <1>8, <3>1 DEF Walking
    <3>3. limit > 0 => skew < limit /\ \E q \in Nat : offset' = q * limit + skew
      <4>1. SUFFICES ASSUME limit > 0 PROVE \E q \in Nat : offset' = q * limit + skew
        BY <2>2
      <4>2. PICK q \in Nat : offset = q * limit + skew
        BY <2>2, <4>1
      <4>3. \A a, b \in Nat : (a - 1) * b = a * b - b
        OBVIOUS
      <4>4. q # 0
        BY <1>1, <2>2, <3>1, <4>1, <4>2
      <4>5. q - 1 \in Nat /\ offset' = (q - 1) * limit + skew
        BY <1>1, <3>1, <4>2, <4>3, <4>4
      <4> QED BY <4>5
    <3> HIDE DEF R, S, T, P, Z, k
    <3>4. /\ Cardinality(Back(R, Missed', offset' + limit')) <= entered'
          /\ Cardinality(Front(R, seen' \cap R, offset' + limit'))
               + Cardinality(seen' \ R) + repeated' <= left'
      BY <1>4, <2>7, <2>8, <3>2
    <3> QED BY <1>4, <3>2, <3>3, <3>4 DEF ForwardInv, BackwardInv, DoneInv
  <2>10. CASE ~HasPrevious
    <3>1. pc' = "done" /\ offset' = offset /\ offset < limit
      BY <1>1, <1>8, <2>10 DEF GetPage, Walk, HasPrevious
    <3>2. limit > 0 => offset = skew
      <4>1. SUFFICES ASSUME limit > 0 PROVE offset = skew
        OBVIOUS
      <4>2. PICK q \in Nat : offset = q * limit + skew
        BY <2>2, <4>1
      <4>3. \A a \in Nat, b \in Nat : a = 0 \/ a * b >= b
        OBVIOUS
      <4>4. q = 0
        BY <1>1, <3>1, <4>2, <4>3
      <4> QED BY <1>1, <4>2, <4>4
    <3>3. Cardinality(Z) <= entered + offset
      <4> DEFINE A == Back(R, Missed, k)
                 B == Front(R, R, offset)
      <4>1. Z \in SUBSET (A \cup B) /\ A \in SUBSET R /\ B \in SUBSET R /\ A \cap B = {}
        BY <1>1, <1>2, <1>3 DEF Front, Back
      <4>2. Cardinality(A \cup B) = Cardinality(A) + Cardinality(B)
        BY <1>1, <4>1, Together
      <4>3. /\ IsFiniteSet(A \cup B) /\ A \cup B \in SUBSET R
            /\ Cardinality(A) \in Nat /\ Cardinality(B) \in Nat
        BY <1>1, <4>1, Parts
      <4>4. Cardinality(Z) <= Cardinality(A \cup B) /\ Cardinality(Z) \in Nat
        BY <4>1, <4>3, Parts
      <4>5. Cardinality(B) <= offset
        BY <1>1, FrontBound
      <4> QED BY <1>1, <2>1, <4>2, <4>3, <4>4, <4>5
    <3>4. repeated' <= left
      BY <1>1, <1>5, <2>3, <2>6, <2>7
    <3> HIDE DEF R, S, T, P, Z, k
    <3> QED BY <1>4, <1>8, <3>1, <3>2, <3>3, <3>4
            DEF ForwardInv, BackwardInv, DoneInv, MissedByMoves, RepeatedByMoves, Walking
  <2> QED BY <2>9, <2>10
<1>9. rel \in {"next", "previous"}
  BY DEF WalkInv, TypeInv, TypeOK
<1> QED BY <1>7, <1>8, <1>9

LEMMA WalkInvariance == Spec => []WalkInv
<1>1. Init => WalkInv
  <2>1. Init => TypeInv
    BY ListingAssumption DEF ListingAssumption, Init, TypeInv, TypeOK, Walking, Ids
  <2> QED BY <2>1 DEF Init, WalkInv, ForwardInv, BackwardInv, DoneInv, MissedByMoves, RepeatedByMoves,
                      Walking
<1>2. WalkInv /\ [Next]_vars => WalkInv'
  <2> SUFFICES ASSUME WalkInv, [Next]_vars PROVE WalkInv'
    OBVIOUS
  <2>1. TypeInv'
    BY TypeStep DEF WalkInv
  <2>2. CASE UNCHANGED vars
    <3>1. Rows(status)' = Rows(status) /\ Missed' = Missed /\ Walking' = Walking
      BY <2>2 DEF vars, Rows, table, request, Missed, walked, Walking
    <3> QED BY <2>1, <2>2, <3>1 DEF vars, WalkInv, ForwardInv, BackwardInv, DoneInv, MissedByMoves,
                                   RepeatedByMoves, request, walked, moves
  <2>3. CASE CreateTask
    BY <2>1, <2>3, CreateMoves, MovesStep DEF WalkInv
  <2>4. ASSUME NEW t \in Ids, NEW s \in Statuses, UpdateTask(t, s) PROVE WalkInv'
    BY <2>1, <2>4, UpdateMoves, MovesStep DEF WalkInv
  <2> QED BY <2>1, <2>2, <2>3, <2>4, StartStep, CountStep, PageStep DEF Next
<1> QED BY <1>1, <1>2, PTL DEF Spec

LEMMA WalkBounds == WalkInv => MissedByMoves /\ RepeatedByMoves
<1> SUFFICES ASSUME WalkInv, Walking PROVE MissedByMoves /\ RepeatedByMoves
  BY DEF WalkInv, DoneInv
<1>1. /\ Rows(status) \in Listing /\ seen \cap Rows(status) \in Listing /\ IsFiniteSet(seen)
      /\ offset \in Nat /\ limit \in Nat /\ offset + limit \in Nat
      /\ repeated \in Nat /\ entered \in Nat /\ left \in Nat
  BY WalkTypes DEF WalkInv, Listing
<1>2. Cardinality(Back(Rows(status), seen \cap Rows(status), offset)) \in Nat
  BY <1>1, FrontBackParts
<1>3. Cardinality(Front(Rows(status), seen \cap Rows(status), offset + limit)) \in Nat
  BY <1>1, FrontBackParts
<1>4. Cardinality(seen \ Rows(status)) \in Nat
  <2>1. seen \ Rows(status) \in SUBSET seen
    OBVIOUS
  <2> QED BY <1>1, <2>1, Parts
<1>5. CASE rel = "next"
  <2>1. Cardinality(Back(Rows(status), seen \cap Rows(status), offset)) + repeated <= entered
    BY <1>5 DEF WalkInv, ForwardInv
  <2>2. repeated <= entered
    BY <1>1, <1>2, <2>1
  <2> QED BY <1>5, <2>2 DEF RepeatedByMoves, MissedByMoves, Walking
<1>6. CASE rel # "next"
  <2>1. Cardinality(Front(Rows(status), seen \cap Rows(status), offset + limit))
          + Cardinality(seen \ Rows(status)) + repeated <= left
    BY <1>6 DEF WalkInv, BackwardInv, TypeInv, TypeOK
  <2>2. repeated <= left
    BY <1>1, <1>3, <1>4, <2>1
  <2> QED BY <1>6, <2>2 DEF RepeatedByMoves, MissedByMoves, Walking
<1> QED BY <1>5, <1>6

\* A walk along next misses rows that stay only for rows that left before it or that
\* entered between a count and its page; one along previous for rows that entered,
\* and those before its first page boundary.
THEOREM MissedCorrect == Spec => []MissedByMoves
BY WalkInvariance, WalkBounds, PTL

\* It gets a row again only for one that entered, or along previous left.
THEOREM RepeatCorrect == Spec => []RepeatedByMoves
BY WalkInvariance, WalkBounds, PTL
=============================================================================
