-------------------------- MODULE SchedulerProofs --------------------------
(***************************************************************************)
(* Proofs about Scheduler for every set of links, chats and scans and for  *)
(* every value of the other constants.  The module first establishes what  *)
(* Min, Max and Place compute, then what the steps of a worker and of a    *)
(* scan have in common, then each part of IndInv in turn.                  *)
(***************************************************************************)
EXTENDS Scheduler, FiniteSetTheorems, TLAPS

---------------------------------------------------------------------------
(* Least and greatest elements. *)

\* A finite nonempty set of numbers has a least element: take the element
\* with the smallest set of elements below it.
LEMMA LeastExists ==
    ASSUME NEW S \in SUBSET Int, IsFiniteSet(S), S # {}
    PROVE  \E x \in S : \A y \in S : x <= y
<1> DEFINE Below(x) == {y \in S : y < x}
           T == {Below(x) : x \in S}
<1>1. IsWellFoundedOn(StrictSubsetOrdering(S), SUBSET S)
  BY FS_StrictSubsetOrderingWellFounded, FS_FiniteSubsetsOfFinite
<1>2. T \subseteq SUBSET S /\ T # {}
  OBVIOUS
<1>3. PICK B \in T : \A C \in T : ~(<<C, B>> \in StrictSubsetOrdering(S))
  <2> HIDE DEF T
  <2> QED
    BY <1>1, <1>2, WFMin
<1>4. PICK x \in S : B = Below(x)
  BY <1>3
<1>5. ASSUME NEW y \in S, y < x PROVE FALSE
  <2>0. \A z \in S : z \in Int
    OBVIOUS
  <2>3. y \in Below(x) /\ y \notin Below(y)
    BY <1>5, <2>0
  <2>4. ASSUME NEW z \in Below(y) PROVE z \in Below(x)
    BY <1>5, <2>0
  <2>1. Below(y) \subseteq Below(x) /\ y \in Below(x) /\ y \notin Below(y)
    BY <2>3, <2>4
  <2>2. <<Below(y), Below(x)>> \in StrictSubsetOrdering(S)
    BY <2>1 DEF StrictSubsetOrdering
  <2> QED
    BY <1>3, <1>4, <2>2
<1> QED
  BY <1>5

\* A finite nonempty set of numbers has a greatest element.
LEMMA GreatestExists ==
    ASSUME NEW S \in SUBSET Int, IsFiniteSet(S), S # {}
    PROVE  \E x \in S : \A y \in S : y <= x
<1> DEFINE Above(x) == {y \in S : x < y}
           T == {Above(x) : x \in S}
<1>1. IsWellFoundedOn(StrictSubsetOrdering(S), SUBSET S)
  BY FS_StrictSubsetOrderingWellFounded, FS_FiniteSubsetsOfFinite
<1>2. T \subseteq SUBSET S /\ T # {}
  OBVIOUS
<1>3. PICK B \in T : \A C \in T : ~(<<C, B>> \in StrictSubsetOrdering(S))
  <2> HIDE DEF T
  <2> QED
    BY <1>1, <1>2, WFMin
<1>4. PICK x \in S : B = Above(x)
  BY <1>3
<1>5. ASSUME NEW y \in S, x < y PROVE FALSE
  <2>0. \A z \in S : z \in Int
    OBVIOUS
  <2>3. y \in Above(x) /\ y \notin Above(y)
    BY <1>5, <2>0
  <2>4. ASSUME NEW z \in Above(y) PROVE z \in Above(x)
    BY <1>5, <2>0
  <2>1. Above(y) \subseteq Above(x) /\ y \in Above(x) /\ y \notin Above(y)
    BY <2>3, <2>4
  <2>2. <<Above(y), Above(x)>> \in StrictSubsetOrdering(S)
    BY <2>1 DEF StrictSubsetOrdering
  <2> QED
    BY <1>3, <1>4, <2>2
<1> QED
  BY <1>5

\* Min of a set of links is one of them, the first in the order of the ids.
LEMMA MinIsLeast ==
    ASSUME NEW S \in SUBSET Links, S # {}
    PROVE  Min(S) \in S /\ \A y \in S : Min(S) <= y
<1>1. S \in SUBSET Int
  BY LinksAssumption
<1>3. IsFiniteSet(S)
  BY LinksAssumption, FS_Subset
<1>2. \E x \in S : \A y \in S : x <= y
  BY <1>1, <1>3, LeastExists
<1> QED
  BY <1>2 DEF Min

\* Max of a set of times is one of them, the latest.
LEMMA MaxIsGreatest ==
    ASSUME NEW S \in SUBSET Time, S # {}
    PROVE  Max(S) \in S /\ \A y \in S : y <= Max(S)
<1>1. IsFiniteSet(Time) /\ Time \in SUBSET Int
  BY BoundsAssumption, FS_Interval DEF Time
<1>2. S \in SUBSET Int /\ IsFiniteSet(S)
  BY <1>1, FS_Subset
<1>3. \E x \in S : \A y \in S : y <= x
  BY <1>2, GreatestExists
<1> QED
  BY <1>2, <1>3 DEF Max

---------------------------------------------------------------------------
(* Places: the number of links of a set before a link. *)

Before(l, S) == {k \in S : k < l}

\* A place is a number.
LEMMA PlaceType ==
    ASSUME NEW S \in SUBSET Links, NEW l \in Links
    PROVE  /\ IsFiniteSet(Before(l, S))
           /\ Place(l, S) = Cardinality(Before(l, S))
           /\ Place(l, S) \in Nat
<1>1. Before(l, S) \in SUBSET Links
  BY DEF Before
<1>2. IsFiniteSet(Before(l, S))
  BY <1>1, LinksAssumption, FS_Subset
<1> QED
  BY <1>2, FS_CardinalityType DEF Before, Place

\* A link does not lose places when others are added.
LEMMA PlaceGrows ==
    ASSUME NEW T \in SUBSET Links, NEW S \in SUBSET T, NEW l \in Links
    PROVE  Place(l, S) <= Place(l, T)
<1>1. Before(l, S) \in SUBSET Before(l, T)
  BY DEF Before
<1> QED
  BY <1>1, PlaceType, FS_Subset

\* Places go up with the ids.
LEMMA PlaceIncreases ==
    ASSUME NEW S \in SUBSET Links, NEW k \in S, NEW l \in S, k < l
    PROVE  Place(k, S) < Place(l, S)
<1>0. k \in Int /\ l \in Int /\ \A j \in S : j \in Int
  BY LinksAssumption
<1>1. Before(k, S) \in SUBSET Before(l, S)
  <2> SUFFICES ASSUME NEW j \in Before(k, S) PROVE j \in Before(l, S)
    OBVIOUS
  <2> QED
    BY <1>0 DEF Before
<1>2. k \in Before(l, S) /\ k \notin Before(k, S)
  BY <1>0 DEF Before
<1>3. /\ Cardinality(Before(k, S)) <= Cardinality(Before(l, S))
      /\ Cardinality(Before(k, S)) # Cardinality(Before(l, S))
  BY <1>1, <1>2, PlaceType, FS_Subset
<1> QED
  BY <1>3, PlaceType

\* A link keeps its place when a link after it goes.
LEMMA PlaceOfEarlier ==
    ASSUME NEW S \in SUBSET Links, NEW g \in Links, NEW l \in Links, l < g
    PROVE  Place(l, S \ {g}) = Place(l, S)
<1>1. Before(l, S \ {g}) = Before(l, S)
  BY LinksAssumption DEF Before
<1> QED
  BY <1>1, PlaceType

\* The place of a member is less than the size of the set.
LEMMA PlaceIsSmall ==
    ASSUME NEW S \in SUBSET Links, NEW l \in S
    PROVE  Place(l, S) < Cardinality(S)
<1>1. IsFiniteSet(S)
  BY LinksAssumption, FS_Subset
<1>2. Before(l, S) \in SUBSET S /\ l \notin Before(l, S)
  BY LinksAssumption DEF Before
<1>3. /\ Cardinality(Before(l, S)) <= Cardinality(S)
      /\ Cardinality(Before(l, S)) # Cardinality(S)
  BY <1>1, <1>2, FS_Subset
<1> QED
  BY <1>1, <1>3, PlaceType, FS_CardinalityType

\* No place is free: before a link at place n or later there is one at n.
LEMMA PlacesAreTaken ==
    ASSUME NEW S \in SUBSET Links, NEW l \in S, NEW n \in Nat, n <= Place(l, S)
    PROVE  \E k \in S : Place(k, S) = n
<1> DEFINE R == {k \in S : n <= Place(k, S)}
<1>0. \A k \in S : k \in Links /\ k \in Nat
  BY LinksAssumption
<1>1. PICK m \in R : \A k \in R : m <= k
  <2>1. R \in SUBSET Int /\ R # {} /\ R \in SUBSET Links
    BY <1>0
  <2>2. IsFiniteSet(R)
    BY <2>1, LinksAssumption, FS_Subset
  <2> HIDE DEF R
  <2> QED
    BY <2>1, <2>2, LeastExists
<1>2. m \in S /\ m \in Links /\ n <= Place(m, S) /\ Place(m, S) \in Nat
  BY <1>0, PlaceType
<1>3. SUFFICES ASSUME n < Place(m, S) PROVE FALSE
  BY <1>2
<1>4. Before(m, S) \in SUBSET Int /\ Before(m, S) # {} /\ IsFiniteSet(Before(m, S))
  <2>1. Before(m, S) \in SUBSET Int
    BY <1>0 DEF Before
  <2>2. Cardinality(Before(m, S)) # 0
    BY <1>2, <1>3, PlaceType
  <2> QED
    BY <1>2, <2>1, <2>2, PlaceType, FS_EmptySet
<1>5. PICK p \in Before(m, S) : \A j \in Before(m, S) : j <= p
  BY <1>4, GreatestExists
<1>6. p \in S /\ p < m /\ p \in Links
  BY <1>0 DEF Before
<1>7. Before(p, S) = Before(m, S) \ {p}
  <2>1. ASSUME NEW j \in Before(p, S) PROVE j \in Before(m, S) \ {p}
    BY <1>0, <1>2, <1>6 DEF Before
  <2>2. ASSUME NEW j \in Before(m, S) \ {p} PROVE j \in Before(p, S)
    <3>1. j \in S /\ j <= p /\ j # p
      BY <1>5 DEF Before
    <3> QED
      BY <1>0, <1>6, <3>1 DEF Before
  <2> QED
    BY <2>1, <2>2
<1>8. Place(p, S) = Place(m, S) - 1
  <2>1. Cardinality(Before(m, S) \ {p}) = Cardinality(Before(m, S)) - 1
    BY <1>4, FS_RemoveElement
  <2> QED
    BY <1>2, <1>6, <1>7, <2>1, PlaceType
<1>9. p \in R
  BY <1>2, <1>3, <1>6, <1>8
<1> QED
  BY <1>0, <1>1, <1>2, <1>6, <1>9

\* A page of the query is part of the tracked links, and no longer than LIMIT.
LEMMA BatchIsBounded ==
    ASSUME NEW from \in Nat
    PROVE  /\ Tracked \in SUBSET Links
           /\ Batch(from) \in SUBSET Tracked
           /\ IsFiniteSet(Batch(from))
           /\ Cardinality(Batch(from)) <= BatchSize
<1>1. Tracked \in SUBSET Links /\ Batch(from) \in SUBSET Tracked
  BY DEF Tracked, Batch
<1>2. IsFiniteSet(Batch(from))
  BY <1>1, LinksAssumption, FS_Subset
<1> DEFINE I == from .. from + BatchSize - 1
           f == [l \in Batch(from) |-> Place(l, Tracked)]
<1>3. IsFiniteSet(I) /\ Cardinality(I) = BatchSize
  BY SizesAssumption, FS_Interval
<1>4. f \in Injection(Batch(from), I)
  <2>1. ASSUME NEW l \in Batch(from) PROVE Place(l, Tracked) \in I
    <3>1. Place(l, Tracked) \in Nat
      BY <1>1, PlaceType
    <3>2. from <= Place(l, Tracked) /\ Place(l, Tracked) < from + BatchSize
      BY DEF Batch
    <3> QED
      BY <3>1, <3>2, SizesAssumption
  <2>2. ASSUME NEW k \in Batch(from), NEW l \in Batch(from), f[k] = f[l]
        PROVE  k = l
    <3>1. k \in Tracked /\ l \in Tracked /\ k \in Nat /\ l \in Nat
      BY <1>1, LinksAssumption
    <3>2. Place(k, Tracked) = Place(l, Tracked) /\ Place(l, Tracked) \in Nat
      BY <1>1, <2>2, PlaceType
    <3> QED
      BY <1>1, <3>1, <3>2, PlaceIncreases
  <2>3. f \in [Batch(from) -> I]
    BY <2>1
  <2> QED
    BY <2>2, <2>3 DEF Injection, IsInjective
<1> HIDE DEF f, I
<1> QED
  BY <1>1, <1>2, <1>3, <1>4, FS_Injection

\* Division rounds down.
LEMMA DivBounds ==
    ASSUME NEW a \in Nat, NEW b \in Nat \ {0}
    PROVE  /\ a \div b \in Nat
           /\ b * (a \div b) <= a
           /\ a < b * (a \div b) + b
BY Z3

---------------------------------------------------------------------------
(* The parts of a page the goroutines are given. *)

Used(P) == IF WorkerCount > Cardinality(P) THEN Cardinality(P) ELSE WorkerCount

Size(P) == (Cardinality(P) + Used(P) - 1) \div Used(P)

\* The parts are as many as are used, and not empty.
LEMMA ChunkSize ==
    ASSUME NEW P \in SUBSET Links, P # {}
    PROVE  /\ IsFiniteSet(P)
           /\ Cardinality(P) \in Nat \ {0}
           /\ Used(P) \in 1 .. WorkerCount
           /\ Size(P) \in Nat \ {0}
           /\ Cardinality(P) <= Size(P) * Used(P)
<1>1. IsFiniteSet(P) /\ Cardinality(P) \in Nat \ {0}
  BY LinksAssumption, FS_Subset, FS_CardinalityType, FS_EmptySet
<1>2. Used(P) \in Nat \ {0} /\ Used(P) <= WorkerCount
  BY <1>1, SizesAssumption DEF Used
<1> DEFINE n == Cardinality(P)
           u == Used(P)
           z == Size(P)
<1>3. n + u - 1 \in Nat /\ u \in Nat \ {0} /\ z = (n + u - 1) \div u
  BY <1>1, <1>2 DEF Size
<1>4. z \in Nat /\ n + u - 1 < u * z + u
  BY <1>3, DivBounds
<1> HIDE DEF n, u, z
<1>5. n <= u * z
  <2>1. u * z \in Int
    BY <1>3, <1>4
  <2> QED
    BY <1>1, <1>3, <1>4, <2>1 DEF n
<1>6. z # 0
  BY <1>1, <1>3, <1>5 DEF n
<1>7. u * z = z * u
  BY <1>3, <1>4
<1> QED
  BY <1>1, <1>2, <1>4, <1>5, <1>6, <1>7, SizesAssumption DEF n, u, z

\* Two goroutines are never given the same link.
LEMMA ChunksAreDisjoint ==
    ASSUME NEW P \in SUBSET Links, P # {},
           NEW i \in 1 .. WorkerCount, NEW j \in 1 .. WorkerCount, i # j
    PROVE  Chunk(P, i) \subseteq P /\ Chunk(P, i) \cap Chunk(P, j) = {}
<1>1. Chunk(P, i) \subseteq P
  BY DEF Chunk
<1>2. ASSUME NEW l \in Chunk(P, i), l \in Chunk(P, j) PROVE FALSE
  <2> DEFINE q == Place(l, P) \div ((Cardinality(P) + Used(P) - 1) \div Used(P))
  <2>1. q = i - 1 /\ q = j - 1
    BY <1>2 DEF Chunk, Used
  <2> QED
    BY <2>1, SizesAssumption
<1> QED
  BY <1>1, <1>2

\* Every link of the page is given to a goroutine.
LEMMA ChunksCover ==
    ASSUME NEW P \in SUBSET Links, NEW l \in P
    PROVE  \E i \in 1 .. WorkerCount : l \in Chunk(P, i)
<1> DEFINE n == Cardinality(P)
           u == Used(P)
           z == Size(P)
           a == Place(l, P)
           q == a \div z
<1>1. /\ n \in Nat \ {0}
      /\ u \in 1 .. WorkerCount
      /\ z \in Nat \ {0}
      /\ n <= z * u
  BY ChunkSize
<1>2. a \in Nat /\ a < n
  BY <1>1, PlaceType, PlaceIsSmall
<1>3. q \in Nat /\ z * q <= a
  <2> HIDE DEF a, z
  <2> QED
    BY <1>1, <1>2, DivBounds
<1>4. q + 1 <= u
  <2> HIDE DEF n, u, z, a, q
  <2>1. SUFFICES ASSUME u <= q PROVE FALSE
    BY <1>1, <1>3, SizesAssumption
  <2>2. PICK d \in Nat : q = u + d
    <3>1. u \in Nat /\ q - u \in Nat /\ q = u + (q - u)
      BY <1>1, <1>3, <2>1, SizesAssumption
    <3> QED
      BY <3>1
  <2>3. z * q = z * u + z * d /\ z * d \in Nat /\ z * u \in Nat /\ z * q \in Nat
    BY <1>1, <2>2, SizesAssumption
  <2> QED
    BY <1>1, <1>2, <1>3, <2>3
<1>5. q + 1 \in 1 .. WorkerCount
  BY <1>1, <1>3, <1>4, SizesAssumption
<1>6. l \in Chunk(P, q + 1)
  <2>1. Place(l, P) \div ((n + u - 1) \div u) = q
    BY DEF Size
  <2>2. u = IF WorkerCount > n THEN n ELSE WorkerCount
    BY DEF Used
  <2>3. (q + 1) - 1 = q
    BY <1>3
  <2> HIDE DEF q
  <2>4. q + 1 <= (IF WorkerCount > n THEN n ELSE WorkerCount)
    BY <1>4, <2>2
  <2> QED
    BY <2>1, <2>2, <2>3, <2>4 DEF Chunk
<1> QED
  BY <1>5, <1>6

---------------------------------------------------------------------------
(* What the steps of a worker have in common. *)

\* The worker keeps its link, and nobody else notices.
Kept == UNCHANGED <<todo, scans, memory, due>>

\* The worker is done with its link, well or not.
Released(w) == Succeed(w) \/ \E e \in Errors : Fail(w, e)

\* The link in hand is one of the worker's links, the first of them.
LEMMA HandIsKnown ==
    ASSUME TypeOK, NEW w \in Workers, todo[w] # {}
    PROVE  /\ InHand(w) \in todo[w]
           /\ InHand(w) \in Links
           /\ w[1] \in Scans
           /\ Watermark(w) \in Time
           /\ Watermark(w) = since[w[1]][InHand(w)]
<1>1. todo[w] \in SUBSET Links /\ w[1] \in Scans
  BY DEF TypeOK, Workers
<1>2. InHand(w) \in todo[w] /\ InHand(w) \in Links
  BY <1>1, MinIsLeast DEF InHand
<1>3. since[w[1]] \in [Links -> Time]
  BY <1>1 DEF TypeOK
<1> QED
  BY <1>1, <1>2, <1>3 DEF Watermark

\* A page of a feed, and what is left of it above a watermark.
LEMMA PageIsPosted ==
    ASSUME TypeOK, NEW l \in Links, NEW f, NEW P \in Pages(l, f), NEW t
    PROVE  /\ P \subseteq OfFeed(l, f)
           /\ OfFeed(l, f) \subseteq posted[l]
           /\ posted[l] \subseteq Updates
           /\ NewerThan(P, t) \subseteq P
           /\ \A u \in NewerThan(P, t) : u.at > t
<1>1. posted[l] \subseteq Updates
  BY DEF TypeOK
<1> QED
  BY <1>1 DEF Pages, OfFeed, NewerThan

\* The newest of the times of updates and of the watermark.
Newest(w, ups) == Max({Watermark(w)} \cup {u.at : u \in ups})

\* It is one of them, and none of them is later.
LEMMA NewestIsLatest ==
    ASSUME TypeOK, NEW w \in Workers, todo[w] # {}, NEW ups \in SUBSET Updates
    PROVE  /\ Newest(w, ups) \in Time
           /\ Newest(w, ups) = Watermark(w) \/ \E u \in ups : Newest(w, ups) = u.at
           /\ Watermark(w) <= Newest(w, ups)
           /\ \A u \in ups : u.at <= Newest(w, ups)
<1> DEFINE S == {Watermark(w)} \cup {u.at : u \in ups}
<1>1. S \in SUBSET Time /\ S # {}
  BY HandIsKnown DEF Updates
<1>2. Newest(w, ups) \in S /\ \A t \in S : t <= Newest(w, ups)
  <2> HIDE DEF S
  <2>1. Newest(w, ups) = Max(S)
    BY DEF Newest, S
  <2> QED
    BY <1>1, <2>1, MaxIsGreatest
<1> QED
  BY <1>1, <1>2

\* The outcomes of Evaluate.
LEMMA EvaluateOutcomes ==
    ASSUME NEW w, NEW ups, Evaluate(w, ups)
    PROVE  \/ /\ Watermark(w) = 0
              /\ stamp' = [stamp EXCEPT ![w] = IF Newest(w, ups) = 0
                                                 THEN clock ELSE Newest(w, ups)]
              /\ step' = [step EXCEPT ![w] = "baseline"]
              /\ Kept
              /\ UNCHANGED found
           \/ Watermark(w) # 0 /\ ups = {} /\ Succeed(w)
           \/ /\ Watermark(w) # 0
              /\ ups # {}
              /\ found' = [found EXCEPT ![w] = ups]
              /\ stamp' = [stamp EXCEPT ![w] = Newest(w, ups)]
              /\ step' = [step EXCEPT ![w] =
                             IF ~OutboxEnabled /\ Newest(w, ups) > Watermark(w)
                             THEN "advance" ELSE "subscribers"]
              /\ Kept
BY DEF Evaluate, Newest, GoOn, Kept

\* A worker keeps the link in its hand or releases it; it writes none of the
\* other variables that the scans, the registry and the sources own.
LEMMA WorkerEffect ==
    ASSUME NEW w, WorkerStep(w)
    PROVE  /\ todo[w] # {}
           /\ phase[w[1]] = "work"
           /\ UNCHANGED <<phase, offset, page, since, notice, subs, sources,
                          overlap>>
           /\ Kept \/ Released(w)
<1> USE DEF Kept, Released, GoOn, scans, sources, Working
<1>1. ASSUME NEW ups, Evaluate(w, ups)
      PROVE  /\ UNCHANGED <<phase, offset, page, since, notice>>
             /\ Kept \/ Released(w)
  BY <1>1, EvaluateOutcomes DEF Succeed, Release
<1>2. CASE Fetch(w)
  BY <1>1, <1>2 DEF Fetch, registry
<1>3. CASE FetchComments(w)
  BY <1>1, <1>3 DEF FetchComments, registry
<1>4. CASE FetchBroken(w)
  <2>1. (CHOOSE e \in Errors : TRUE) \in Errors
    BY ErrorsAssumption
  <2> QED
    BY <1>4, <2>1 DEF FetchBroken, Fail, Release, registry
<1>5. CASE Baseline(w)
  BY <1>5 DEF Baseline, FirstLook, UpdateLastUpdated, Succeed, Release
<1>6. CASE Advance(w)
  BY <1>6 DEF Advance, UpdateLastUpdated
<1>7. CASE FindSubscribers(w)
  BY <1>7 DEF FindSubscribers, Succeed, Release, registry
<1>8. CASE Skip(w)
  BY <1>8 DEF Skip, PassOver, UpdateLastUpdated, Succeed, Release
<1>9. CASE Save(w)
  BY <1>9 DEF Save, SaveOutbox, UpdateLastUpdated, Succeed, Release, registry
<1>10. CASE SaveAckLost(w)
  BY <1>10 DEF SaveAckLost, SaveOutbox, UpdateLastUpdated, Fail, Release, registry
<1>11. CASE Send(w)
  BY <1>11 DEF Send, Succeed, Release, registry
<1>12. CASE SendAckLost(w)
  BY <1>12 DEF SendAckLost, Fail, Release, registry
<1>13. CASE CallFails(w)
  BY <1>13 DEF CallFails, Fail, Release, registry
<1>14. CASE UpdateAckLost(w)
  BY <1>14 DEF UpdateAckLost, FirstLook, PassOver, UpdateLastUpdated, Fail, Release
<1> QED
  BY <1>2, <1>3, <1>4, <1>5, <1>6, <1>7, <1>8, <1>9, <1>10, <1>11, <1>12,
     <1>13, <1>14 DEF WorkerStep

---------------------------------------------------------------------------
(* Types. *)

\* A released worker is back at its start, and what it shares keeps its type.
LEMMA ReleaseTypes ==
    ASSUME TypeOK, NEW w \in Workers, todo[w] # {}, Released(w)
    PROVE  /\ todo' = [todo EXCEPT ![w] = @ \ {InHand(w)}]
           /\ due' = [due EXCEPT ![w[1]] = @ \ {InHand(w)}]
           /\ step' = [step EXCEPT ![w] = "fetch"]
           /\ found' = [found EXCEPT ![w] = {}]
           /\ stamp' = [stamp EXCEPT ![w] = 0]
           /\ step' \in [Workers -> Steps]
           /\ found' \in [Workers -> SUBSET Updates]
           /\ stamp' \in [Workers -> Time]
           /\ todo' \in [Workers -> SUBSET Links]
           /\ due' \in [Scans -> SUBSET Links]
           /\ failed' \in [Scans -> SUBSET (Links \X Errors)]
           /\ reported' \in [Links -> Errors \cup {None}]
           /\ told' \in [Links -> SUBSET Errors]
           /\ muted' \in [Links -> BOOLEAN]
<1>1. Release(w)
  BY DEF Released, Succeed, Fail
<1>2. InHand(w) \in Links /\ w[1] \in Scans
  BY HandIsKnown
<1>3. Succeed(w) => /\ failed' \in [Scans -> SUBSET (Links \X Errors)]
                    /\ reported' \in [Links -> Errors \cup {None}]
                    /\ told' \in [Links -> SUBSET Errors]
                    /\ muted' \in [Links -> BOOLEAN]
  BY <1>2 DEF TypeOK, Succeed, Forget
<1>4. ASSUME NEW e \in Errors, Fail(w, e)
      PROVE  /\ failed' \in [Scans -> SUBSET (Links \X Errors)]
             /\ UNCHANGED memory
  BY <1>2, <1>4 DEF TypeOK, Fail
<1>5. /\ failed' \in [Scans -> SUBSET (Links \X Errors)]
      /\ reported' \in [Links -> Errors \cup {None}]
      /\ told' \in [Links -> SUBSET Errors]
      /\ muted' \in [Links -> BOOLEAN]
  BY <1>3, <1>4 DEF Released, TypeOK, memory, Succeed
<1>6. 0 \in Time /\ "fetch" \in Steps
  BY BoundsAssumption DEF Time, Steps
<1>7. /\ todo' = [todo EXCEPT ![w] = @ \ {InHand(w)}]
      /\ due' = [due EXCEPT ![w[1]] = @ \ {InHand(w)}]
      /\ step' = [step EXCEPT ![w] = "fetch"]
      /\ found' = [found EXCEPT ![w] = {}]
      /\ stamp' = [stamp EXCEPT ![w] = 0]
  BY <1>1 DEF Release
<1> QED
  BY <1>5, <1>6, <1>7 DEF TypeOK

\* So it does when the worker goes on with what it has found.
LEMMA GoOnTypes ==
    ASSUME TypeOK, NEW w \in Workers, NEW where \in Steps,
           NEW F \in SUBSET Updates,
           found' = [found EXCEPT ![w] = F], GoOn(w, where), UNCHANGED stamp
    PROVE  /\ step' \in [Workers -> Steps]
           /\ found' \in [Workers -> SUBSET Updates]
           /\ stamp' \in [Workers -> Time]
<1>1. step' = [step EXCEPT ![w] = where]
  BY DEF GoOn
<1>2. step' \in [Workers -> Steps]
  BY <1>1 DEF TypeOK
<1>3. found' \in [Workers -> SUBSET Updates]
  BY DEF TypeOK
<1> QED
  BY <1>2, <1>3 DEF TypeOK

\* What a worker knows of its own keeps its type in Evaluate.
LEMMA EvaluateTypes ==
    ASSUME TypeOK, NEW w \in Workers, todo[w] # {}, NEW ups \in SUBSET Updates,
           Evaluate(w, ups)
    PROVE  /\ step' \in [Workers -> Steps]
           /\ found' \in [Workers -> SUBSET Updates]
           /\ stamp' \in [Workers -> Time]
<1>1. Newest(w, ups) \in Time /\ clock \in Time
  BY NewestIsLatest DEF TypeOK
<1>2. {"baseline", "advance", "subscribers"} \subseteq Steps
  BY DEF Steps
<1>3. CASE Succeed(w)
  BY <1>3, ReleaseTypes DEF Released
<1>4. CASE /\ stamp' = [stamp EXCEPT ![w] = IF Newest(w, ups) = 0
                                              THEN clock ELSE Newest(w, ups)]
           /\ step' = [step EXCEPT ![w] = "baseline"]
           /\ UNCHANGED found
  BY <1>1, <1>2, <1>4 DEF TypeOK
<1>5. CASE /\ found' = [found EXCEPT ![w] = ups]
           /\ stamp' = [stamp EXCEPT ![w] = Newest(w, ups)]
           /\ step' = [step EXCEPT ![w] =
                          IF ~OutboxEnabled /\ Newest(w, ups) > Watermark(w)
                          THEN "advance" ELSE "subscribers"]
  <2> DEFINE next == IF ~OutboxEnabled /\ Newest(w, ups) > Watermark(w)
                     THEN "advance" ELSE "subscribers"
  <2>1. next \in Steps
    BY <1>2
  <2>2. step' = [step EXCEPT ![w] = next]
    BY <1>5
  <2> HIDE DEF next
  <2> QED
    BY <1>1, <1>5, <2>1, <2>2 DEF TypeOK
<1> QED
  BY <1>3, <1>4, <1>5, EvaluateOutcomes

\* So it does in every step of a worker, and the tables and the log with it.
LEMMA WorkerOwnTypes ==
    ASSUME TypeOK, NEW w \in Workers, WorkerStep(w)
    PROVE  /\ step' \in [Workers -> Steps]
           /\ found' \in [Workers -> SUBSET Updates]
           /\ stamp' \in [Workers -> Time]
           /\ lastUpdated' \in [Links -> Time]
           /\ edits' \in Nat
           /\ faults' \in Nat
           /\ handed' \subseteq Links \X Updates
           /\ handedTwice' \subseteq Links \X Updates
           /\ skipped' \subseteq Links \X Updates
<1> DEFINE Own == /\ step' \in [Workers -> Steps]
                  /\ found' \in [Workers -> SUBSET Updates]
                  /\ stamp' \in [Workers -> Time]
           Rest == /\ lastUpdated' \in [Links -> Time]
                   /\ edits' \in Nat
                   /\ faults' \in Nat
                   /\ handed' \subseteq Links \X Updates
                   /\ handedTwice' \subseteq Links \X Updates
                   /\ skipped' \subseteq Links \X Updates
           l == InHand(w)
<1>1. todo[w] # {} /\ InHand(w) \in Links
  BY WorkerEffect, HandIsKnown
<1>2. (UNCHANGED <<registry, bounds, handed, handedTwice, skipped>>) => Rest
  BY DEF TypeOK, registry, bounds
<1>3. Released(w) => Own
  BY <1>1, ReleaseTypes
<1>4. UpdateLastUpdated(w) => lastUpdated' \in [Links -> Time]
  BY <1>1 DEF UpdateLastUpdated, TypeOK
<1>5. ASSUME NEW ups \in SUBSET Updates, Hand(InHand(w), ups)
      PROVE  /\ handed' \subseteq Links \X Updates
             /\ handedTwice' \subseteq Links \X Updates
             /\ skipped' \subseteq Links \X Updates
  BY <1>1, <1>5 DEF Hand, TypeOK
<1>6. found[w] \in SUBSET Updates /\ stamp[w] \in Time
  BY DEF TypeOK
<1>7. SaveOutbox(w) => /\ lastUpdated' \in [Links -> Time]
                       /\ handed' \subseteq Links \X Updates
                       /\ handedTwice' \subseteq Links \X Updates
                       /\ skipped' \subseteq Links \X Updates
  BY <1>4, <1>5, <1>6 DEF SaveOutbox, registry, TypeOK
<1>8. {"comments", "subscribers", "skip", "save", "send"} \subseteq Steps
  BY DEF Steps
<1> HIDE DEF Own, Rest
<1>11. CASE Fetch(w)
  <2>1. PICK P \in Pages(InHand(w), FirstFeed(InHand(w))) :
           \/ Evaluate(w, NewerThan(P, Watermark(w)))
           \/ /\ found' = [found EXCEPT ![w] = NewerThan(P, Watermark(w))]
              /\ GoOn(w, "comments")
              /\ UNCHANGED stamp
    BY <1>11 DEF Fetch
  <2>2. NewerThan(P, Watermark(w)) \in SUBSET Updates
    BY <1>1, PageIsPosted
  <2>3. CASE Evaluate(w, NewerThan(P, Watermark(w)))
    <3>1. Own
      BY <1>1, <2>2, <2>3, EvaluateTypes DEF Own
    <3> QED
      BY <1>2, <1>11, <3>1 DEF Fetch, Own, Rest
  <2>4. CASE /\ found' = [found EXCEPT ![w] = NewerThan(P, Watermark(w))]
             /\ GoOn(w, "comments")
             /\ UNCHANGED stamp
    <3>1. Own
      BY <1>8, <2>2, <2>4, GoOnTypes DEF Own
    <3> QED
      BY <1>2, <1>11, <3>1 DEF Fetch, Own, Rest
  <2> QED
    BY <2>1, <2>3, <2>4
<1>12. CASE FetchComments(w)
  <2>1. PICK P \in Pages(InHand(w), "comments") :
           Evaluate(w, found[w] \cup NewerThan(P, Watermark(w)))
    BY <1>12 DEF FetchComments
  <2>2. found[w] \cup NewerThan(P, Watermark(w)) \in SUBSET Updates
    BY <1>1, <1>6, PageIsPosted
  <2>3. Own
    BY <1>1, <2>1, <2>2, EvaluateTypes DEF Own
  <2> QED
    BY <1>2, <1>12, <2>3 DEF FetchComments, Own, Rest
<1>13. CASE FetchBroken(w)
  <2>1. (CHOOSE e \in Errors : TRUE) \in Errors
    BY ErrorsAssumption
  <2> QED
    BY <1>2, <1>3, <1>13, <2>1 DEF FetchBroken, Released, log, Own, Rest
<1>14. CASE Baseline(w)
  BY <1>3, <1>4, <1>14
  DEF Baseline, FirstLook, Released, TypeOK, bounds, Own, Rest
<1>15. CASE Advance(w)
  BY <1>4, <1>8, <1>15 DEF Advance, GoOn, TypeOK, bounds, log, Own, Rest
<1>16. CASE FindSubscribers(w)
  <2>1. ASSUME NEW where \in Steps, GoOn(w, where), UNCHANGED <<found, stamp>>
        PROVE  Own
    <3>1. step' = [step EXCEPT ![w] = where]
      BY <2>1 DEF GoOn
    <3> QED
      BY <2>1, <3>1 DEF TypeOK, Own
  <2>2. Succeed(w) => Own
    BY <1>3 DEF Released
  <2>3. \/ Succeed(w)
        \/ \E where \in Steps : GoOn(w, where) /\ UNCHANGED <<found, stamp>>
    BY <1>8, <1>16 DEF FindSubscribers
  <2>4. Own
    BY <2>1, <2>2, <2>3
  <2> QED
    BY <1>2, <1>16, <2>4 DEF FindSubscribers, log, Own, Rest
<1>9. PassOver(w) => /\ lastUpdated' \in [Links -> Time]
                     /\ handed' \subseteq Links \X Updates
                     /\ handedTwice' \subseteq Links \X Updates
                     /\ skipped' \subseteq Links \X Updates
  BY <1>1, <1>4, <1>6 DEF PassOver, TypeOK
<1>17. CASE Skip(w)
  BY <1>3, <1>9, <1>17 DEF Skip, Released, TypeOK, bounds, Own, Rest
<1>18. CASE Save(w)
  BY <1>3, <1>7, <1>18 DEF Save, Released, TypeOK, bounds, Own, Rest
<1>19. CASE SaveAckLost(w)
  BY <1>3, <1>7, <1>19 DEF SaveAckLost, Released, TypeOK, Own, Rest
<1>20. CASE Send(w)
  <2>1. PICK u \in found[w] :
           /\ Hand(InHand(w), {u})
           /\ \/ Succeed(w)
              \/ /\ found' = [found EXCEPT ![w] = @ \ {u}]
                 /\ GoOn(w, "send")
                 /\ UNCHANGED stamp
    BY <1>20 DEF Send
  <2>2. {u} \in SUBSET Updates /\ found[w] \ {u} \in SUBSET Updates
    BY <1>6
  <2>3. Succeed(w) => Own
    BY <1>3 DEF Released
  <2>4. ASSUME found' = [found EXCEPT ![w] = @ \ {u}],
               GoOn(w, "send"), UNCHANGED stamp
        PROVE  Own
    <3>1. found' = [found EXCEPT ![w] = found[w] \ {u}]
      BY <2>4
    <3> QED
      BY <1>8, <2>2, <2>4, <3>1, GoOnTypes DEF Own
  <2>5. Own
    BY <2>1, <2>3, <2>4
  <2> QED
    BY <1>5, <1>20, <2>1, <2>2, <2>5
    DEF Send, registry, bounds, TypeOK, Own, Rest
<1>21. CASE SendAckLost(w)
  <2>1. PICK u \in found[w] : Hand(InHand(w), {u})
    BY <1>21 DEF SendAckLost
  <2>2. {u} \in SUBSET Updates
    BY <1>6
  <2> QED
    BY <1>3, <1>5, <1>21, <2>1, <2>2
    DEF SendAckLost, Released, registry, TypeOK, Own, Rest
<1>22. CASE CallFails(w)
  BY <1>3, <1>22 DEF CallFails, Released, registry, log, TypeOK, Own, Rest
<1>24. CASE UpdateAckLost(w)
  <2>1. Rest
    BY <1>4, <1>9, <1>24 DEF UpdateAckLost, FirstLook, TypeOK, log, Rest
  <2>2. Own
    BY <1>3, <1>24 DEF UpdateAckLost, Released
  <2> QED
    BY <2>1, <2>2 DEF Own, Rest
<1>23. Own /\ Rest
  BY <1>11, <1>12, <1>13, <1>14, <1>15, <1>16, <1>17, <1>18, <1>19, <1>20,
     <1>21, <1>22, <1>24 DEF WorkerStep, Own, Rest
<1> QED
  BY <1>23 DEF Own, Rest

\* Only a first look sets the base of a link, to the stamp of the worker; it
\* lets the base be if the link has a watermark and an update of that time.
LEMMA BaseWriter ==
    ASSUME TypeOK, NEW w \in Workers, WorkerStep(w)
    PROVE  /\ \/ UNCHANGED base
              \/ /\ step[w] = "baseline"
                 /\ base' = [base EXCEPT ![InHand(w)] = stamp[w]]
           /\ base' \in [Links -> Time]
           /\ \A l \in Links : l # InHand(w) => base'[l] = base[l]
<1>1. \/ UNCHANGED base
      \/ /\ step[w] = "baseline"
         /\ base' = [base EXCEPT ![InHand(w)] = stamp[w]]
  BY DEF WorkerStep, Fetch, FetchComments, FetchBroken, Baseline, FirstLook,
     Advance, FindSubscribers, Skip, PassOver, UpdateAckLost, Save, SaveAckLost,
     SaveOutbox, Send, SendAckLost, CallFails, Hand, Working, log
<1> QED
  BY <1>1 DEF TypeOK

\* Only a request to a source adds to what is beyond the pages.
LEMMA CutWriter ==
    ASSUME TypeOK, NEW w \in Workers, WorkerStep(w)
    PROVE  cut \subseteq cut' /\ cut' \subseteq Links \X Updates
<1>1. InHand(w) \in Links /\ posted[InHand(w)] \subseteq Updates
  BY WorkerEffect, HandIsKnown DEF TypeOK
<1>2. UNCHANGED cut \/ \E f, P : CutOff(w, f, P)
  BY DEF WorkerStep, Fetch, FetchComments, FetchBroken, Baseline, FirstLook,
     Advance, FindSubscribers, Skip, PassOver, UpdateAckLost, Save, SaveAckLost,
     SaveOutbox, Send, SendAckLost, CallFails, Hand, log
<1> QED
  BY <1>1, <1>2 DEF CutOff, OfFeed, TypeOK

\* No step of a worker breaks the types.
LEMMA WorkerStepTypes ==
    ASSUME TypeOK, NEW w \in Workers, WorkerStep(w) PROVE TypeOK'
<1>1. /\ todo[w] # {}
      /\ UNCHANGED <<phase, offset, page, since, notice, subs, sources, overlap>>
      /\ Kept \/ Released(w)
  BY WorkerEffect
<1>2. /\ todo' \in [Workers -> SUBSET Links]
      /\ due' \in [Scans -> SUBSET Links]
      /\ failed' \in [Scans -> SUBSET (Links \X Errors)]
      /\ reported' \in [Links -> Errors \cup {None}]
      /\ told' \in [Links -> SUBSET Errors]
      /\ muted' \in [Links -> BOOLEAN]
  BY <1>1, ReleaseTypes DEF Kept, scans, memory, TypeOK
<1>3. /\ subs' \in [Links -> SUBSET Chats]
      /\ clock' \in Time \ {0}
      /\ posted' \in [Links -> SUBSET Updates]
      /\ phase' \in [Scans -> Phases]
      /\ offset' \in [Scans -> Nat]
      /\ page' \in [Scans -> SUBSET Links]
      /\ since' \in [Scans -> [Links -> Time]]
      /\ notice' \in [Scans -> (Links \X Errors) \cup {None}]
      /\ contested' \subseteq Links
      /\ doubtful' \subseteq Links \X Updates
  BY <1>1 DEF sources, overlap, TypeOK
<1> QED
  BY <1>2, <1>3, WorkerOwnTypes, BaseWriter, CutWriter DEF TypeOK

\* Nor does a step of a scan: what it writes are links, failures and times it
\* has from the tables or from its workers.
LEMMA ScanStepTypes ==
    ASSUME TypeOK, NoticesAreSound, NEW s \in Scans, StartScan(s) \/ ScanStep(s)
    PROVE  TypeOK'
<1> USE DEF TypeOK, registry, sources, workers, bounds, log, overlap, memory
<1>0. /\ {"idle", "page", "work", "report", "lookup", "notify"} \subseteq Phases
      /\ Tracked \in SUBSET Links
      /\ [l \in Links |-> 0] \in [Links -> Time]
  BY BoundsAssumption DEF Phases, Tracked, Time
<1>1. CASE StartScan(s)
  BY <1>0, <1>1 DEF StartScan
<1>2. CASE FetchBatch(s)
  <2> DEFINE P == Batch(offset[s])
  <2>1. P \in SUBSET Links
    BY <1>0, BatchIsBounded
  <2>2. \A i : Chunk(P, i) \in SUBSET Links
    BY <2>1 DEF Chunk
  <2>3. [l \in Links |-> IF l \in P THEN lastUpdated[l] ELSE 0] \in [Links -> Time]
    BY BoundsAssumption DEF Time
  <2>6. contested' \subseteq Links /\ doubtful' \subseteq Links \X Updates
    BY <1>2, <2>1 DEF FetchBatch, Shared
  <2> HIDE DEF P
  <2>4. todo' \in [Workers -> SUBSET Links]
    BY <1>2, <2>2 DEF FetchBatch, P
  <2>5. since' \in [Scans -> [Links -> Time]] /\ page' \in [Scans -> SUBSET Links]
    BY <1>2, <2>1, <2>3 DEF FetchBatch, P
  <2> QED
    BY <1>0, <1>2, <2>4, <2>5, <2>6 DEF FetchBatch
<1>3. CASE EndScan(s)
  BY <1>0, <1>3 DEF EndScan
<1>4. CASE AbortScan(s)
  BY <1>0, <1>4 DEF AbortScan
<1>5. CASE JoinWorkers(s)
  BY <1>0, <1>5 DEF JoinWorkers
<1>6. CASE ClaimReport(s)
  <2>1. PICK f \in failed[s] :
          /\ failed' = [failed EXCEPT ![s] = @ \ {f}]
          /\ \/ UNCHANGED <<phase, notice, memory>>
             \/ /\ reported' = [reported EXCEPT ![f[1]] = f[2]]
                /\ muted' = [muted EXCEPT ![f[1]] = FALSE]
                /\ notice' = [notice EXCEPT ![s] = f]
                /\ phase' = [phase EXCEPT ![s] = "lookup"]
                /\ UNCHANGED told
    BY <1>6 DEF ClaimReport
  <2>2. f \in Links \X Errors /\ f[1] \in Links /\ f[2] \in Errors
    OBVIOUS
  <2>3. failed' \in [Scans -> SUBSET (Links \X Errors)]
    BY <2>1
  <2>4. /\ reported' \in [Links -> Errors \cup {None}]
        /\ muted' \in [Links -> BOOLEAN]
        /\ told' \in [Links -> SUBSET Errors]
    BY <2>1, <2>2
  <2>5. phase' \in [Scans -> Phases]
    BY <1>0, <2>1
  <2>6. notice' \in [Scans -> (Links \X Errors) \cup {None}]
    <3>1. f \in (Links \X Errors) \cup {None}
      BY <2>2
    <3>2. notice' = notice \/ notice' = [notice EXCEPT ![s] = f]
      BY <2>1
    <3> HIDE <2>1, <2>2
    <3> QED
      BY <3>1, <3>2
  <2> QED
    BY <1>6, <2>3, <2>4, <2>5, <2>6 DEF ClaimReport
<1>7. ASSUME EndReport(s)
      PROVE  /\ notice' \in [Scans -> (Links \X Errors) \cup {None}]
             /\ phase' \in [Scans -> Phases]
             /\ UNCHANGED <<offset, page, since, failed>>
  BY <1>0, <1>7 DEF EndReport
<1>8. ASSUME phase[s] \in {"lookup", "notify"}
      PROVE  notice[s][1] \in Links /\ notice[s][2] \in Errors
  BY <1>8 DEF NoticesAreSound
<1>9. CASE LookupForReport(s)
  <2> DEFINE l == notice[s][1]
  <2>1. l \in Links
    BY <1>8, <1>9 DEF LookupForReport
  <2>2. CASE /\ EndReport(s)
             /\ muted' = [muted EXCEPT ![l] = @ \/ reported[l] = notice[s][2]]
             /\ UNCHANGED <<reported, told>>
    <3>1. muted' \in [Links -> BOOLEAN]
      BY <2>1, <2>2
    <3> QED
      BY <1>7, <1>9, <2>2, <3>1 DEF LookupForReport
  <2>3. CASE /\ phase' = [phase EXCEPT ![s] = "notify"]
             /\ UNCHANGED <<offset, page, since, failed, notice, memory>>
    BY <1>0, <1>9, <2>3 DEF LookupForReport
  <2> QED
    BY <1>9, <2>2, <2>3 DEF LookupForReport
<1>10. CASE SendReport(s)
  BY <1>7, <1>8, <1>10 DEF SendReport
<1>11. CASE ReportFails(s)
  BY <1>7, <1>8, <1>11 DEF ReportFails, Forget
<1>12. CASE NextBatch(s)
  <2>1. IsFiniteSet(page[s])
    BY LinksAssumption, FS_Subset
  <2>2. Cardinality(page[s]) \in Nat
    BY <2>1, FS_CardinalityType
  <2>3. /\ phase' \in [Scans -> Phases]
        /\ offset' \in [Scans -> Nat]
        /\ page' \in [Scans -> SUBSET Links]
        /\ since' \in [Scans -> [Links -> Time]]
    BY <1>0, <1>12, <2>2 DEF NextBatch
  <2> QED
    BY <1>12, <2>3 DEF NextBatch
<1> QED
  BY <1>1, <1>2, <1>3, <1>4, <1>5, <1>6, <1>9, <1>10, <1>11, <1>12
  DEF ScanStep

\* Nor do the sources, the registry and a crash.
LEMMA OtherStepTypes ==
    ASSUME TypeOK, Environment \/ Crash \/ UNCHANGED vars PROVE TypeOK'
<1> USE DEF TypeOK, registry, sources, scans, workers, bounds, log, overlap, memory
<1>1. CASE Tick
  BY <1>1, BoundsAssumption DEF Tick, Time
<1>2. CASE \E l \in Links, f \in Feeds : Post(l, f)
  <2> PICK l \in Links, f \in Feeds : Post(l, f)
    BY <1>2
  <2>1. PICK nr \in 1 .. MaxPerTick :
           posted' = [posted EXCEPT ![l] = @ \cup {[feed |-> f, at |-> clock, nr |-> nr]}]
    BY DEF Post
  <2>2. [feed |-> f, at |-> clock, nr |-> nr] \in Updates
    BY DEF Updates
  <2>3. doubtful' \subseteq Links \X Updates
    <3>1. PICK n \in 1 .. MaxPerTick :
             doubtful' = doubtful \cup
               (({l} \cap Disputed) \X {[feed |-> f, at |-> clock, nr |-> n]})
      BY DEF Post
    <3>2. [feed |-> f, at |-> clock, nr |-> n] \in Updates
      BY DEF Updates
    <3> QED
      BY <3>1, <3>2
  <2> QED
    BY <2>1, <2>2, <2>3 DEF Post
<1>3. CASE \E c \in Chats, l \in Links : AddLink(c, l)
  BY <1>3, BoundsAssumption DEF AddLink, Time
<1>4. CASE \E c \in Chats, l \in Links : RemoveLink(c, l)
  BY <1>4 DEF RemoveLink, Excuse
<1>5. CASE Crash
  BY <1>5, BoundsAssumption DEF Crash, Phases, Steps, Time
<1>6. CASE UNCHANGED vars
  BY <1>6 DEF vars
<1> QED
  BY <1>1, <1>2, <1>3, <1>4, <1>5, <1>6 DEF Environment

\* So no step breaks the types.
LEMMA NextTypes ==
    ASSUME TypeOK, NoticesAreSound, [Next]_vars PROVE TypeOK'
BY ScanStepTypes, WorkerStepTypes, OtherStepTypes DEF Next

---------------------------------------------------------------------------
(* Workers, notices and silences: any number of overlapping scans. *)

\* A worker that keeps its link stays where a link may be; a released one has
\* one link less, and is at its start.
LEMMA WorkerStepWorkers ==
    ASSUME TypeOK, WorkersAreSound, NEW w \in Workers, WorkerStep(w)
    PROVE  WorkersAreSound'
<1>1. /\ todo[w] # {}
      /\ phase' = phase
      /\ Kept \/ Released(w)
  BY WorkerEffect
<1>2. CASE Released(w)
  <2>1. /\ todo' = [todo EXCEPT ![w] = @ \ {InHand(w)}]
        /\ step' = [step EXCEPT ![w] = "fetch"]
    BY <1>1, <1>2, ReleaseTypes
  <2> QED
    BY <1>1, <2>1 DEF WorkersAreSound, TypeOK
<1>3. CASE Kept
  <2>1. todo' = todo
    BY <1>3 DEF Kept
  <2>2. \A v \in Workers \ {w} : step'[v] = step[v]
    <3>1. Released(w) => step' = [step EXCEPT ![w] = "fetch"]
      BY <1>1, ReleaseTypes
    <3>2. ASSUME NEW ups, Evaluate(w, ups)
          PROVE  \A v \in Workers \ {w} : step'[v] = step[v]
      BY <3>1, <3>2, EvaluateOutcomes DEF TypeOK, Released
    <3> QED
      BY <3>1, <3>2 DEF WorkerStep, Fetch, FetchComments, FetchBroken,
         Baseline, Advance, FindSubscribers, Skip, UpdateAckLost, Save, SaveAckLost, Send,
         SendAckLost, CallFails, GoOn, Released, Succeed, Fail, Release, TypeOK
  <2> QED
    BY <1>1, <2>1, <2>2 DEF WorkersAreSound
<1> QED
  BY <1>1, <1>2, <1>3

\* A scan hands out links only when its workers are done, to each its own.
LEMMA ScanStepWorkers ==
    ASSUME TypeOK, WorkersAreSound, NEW s \in Scans, StartScan(s) \/ ScanStep(s)
    PROVE  WorkersAreSound'
<1>1. CASE FetchBatch(s)
  <2> DEFINE P == Batch(offset[s])
  <2>1. P \in SUBSET Links /\ P # {}
    BY <1>1, BatchIsBounded DEF TypeOK, FetchBatch
  <2>2. /\ \A w \in Workers : w[1] = s => todo'[w] = Chunk(P, w[2])
        /\ \A w \in Workers : w[1] # s => todo'[w] = todo[w]
        /\ phase' = [phase EXCEPT ![s] = "work"]
        /\ step' = step
        /\ phase[s] = "page"
    BY <1>1 DEF FetchBatch
  <2>3. \A w \in Workers : w[1] = s => todo[w] = {}
    BY <2>2 DEF WorkersAreSound
  <2>4. ASSUME NEW v \in Workers, NEW w \in Workers, v[1] = w[1], v # w
        PROVE  todo'[v] \cap todo'[w] = {}
    <3>1. CASE v[1] = s
      <4>1. v[2] \in 1 .. WorkerCount /\ w[2] \in 1 .. WorkerCount /\ v[2] # w[2]
        BY <2>4 DEF Workers
      <4> HIDE DEF P
      <4> QED
        BY <2>1, <2>2, <2>4, <3>1, <4>1, ChunksAreDisjoint
    <3>2. CASE v[1] # s
      BY <2>2, <2>4, <3>2 DEF WorkersAreSound
    <3> QED
      BY <3>1, <3>2
  <2>5. ASSUME NEW w \in Workers
        PROVE  /\ todo'[w] # {} => phase'[w[1]] = "work"
               /\ todo'[w] = {} => step'[w] = "fetch"
    <3>1. w[1] \in Scans
      BY DEF Workers
    <3> QED
      BY <2>2, <2>3, <3>1 DEF WorkersAreSound, TypeOK
  <2> QED
    BY <2>4, <2>5 DEF WorkersAreSound
<1>2. CASE ~FetchBatch(s)
  <2>1. UNCHANGED workers
    BY <1>2 DEF ScanStep, StartScan, EndScan, AbortScan, JoinWorkers,
       ClaimReport, LookupForReport, SendReport, ReportFails, NextBatch
  <2>2. \/ phase' = phase
        \/ phase[s] # "work" /\ \E p : phase' = [phase EXCEPT ![s] = p]
        \/ /\ \A w \in Workers : w[1] = s => todo[w] = {}
           /\ \E p : phase' = [phase EXCEPT ![s] = p]
    BY <1>2 DEF ScanStep, StartScan, EndScan, AbortScan, JoinWorkers,
       ClaimReport, LookupForReport, SendReport, ReportFails, NextBatch, EndReport
  <2>3. ASSUME NEW w \in Workers, todo[w] # {} PROVE phase'[w[1]] = "work"
    <3>1. w[1] \in Scans /\ phase[w[1]] = "work"
      BY <2>3 DEF Workers, WorkersAreSound
    <3> QED
      BY <2>2, <2>3, <3>1 DEF TypeOK
  <2> QED
    BY <2>1, <2>3 DEF WorkersAreSound, workers
<1> QED
  BY <1>1, <1>2

\* A crash takes everything out of the hands of the workers.
LEMMA OtherStepWorkers ==
    ASSUME WorkersAreSound, Environment \/ Crash \/ UNCHANGED vars
    PROVE  WorkersAreSound'
<1>1. CASE Crash
  BY <1>1 DEF Crash, WorkersAreSound
<1>2. CASE ~Crash
  <2>1. UNCHANGED <<workers, phase>>
    BY <1>2 DEF Environment, Tick, Post, AddLink, RemoveLink, vars, scans
  <2> QED
    BY <2>1 DEF WorkersAreSound, workers
<1> QED
  BY <1>1, <1>2

\* So the workers are sound after every step.
LEMMA NextWorkers ==
    ASSUME TypeOK, WorkersAreSound, [Next]_vars PROVE WorkersAreSound'
BY WorkerStepWorkers, ScanStepWorkers, OtherStepWorkers DEF Next

\* Only ClaimReport takes a failure in hand, only the three ends of a report
\* and a crash lay it down.
LEMMA NextNotices ==
    ASSUME TypeOK, NoticesAreSound, [Next]_vars PROVE NoticesAreSound'
<1>1. ASSUME NEW w \in Workers, WorkerStep(w) PROVE NoticesAreSound'
  BY <1>1, WorkerEffect DEF NoticesAreSound
<1>2. CASE Environment \/ UNCHANGED vars
  <2>1. UNCHANGED <<phase, notice>>
    BY <1>2 DEF Environment, Tick, Post, AddLink, RemoveLink, vars, scans
  <2> QED
    BY <2>1 DEF NoticesAreSound
<1>3. CASE Crash
  BY <1>3 DEF Crash, NoticesAreSound
<1>4. ASSUME NEW s \in Scans, StartScan(s) \/ ScanStep(s) PROVE NoticesAreSound'
  <2>1. CASE ClaimReport(s)
    <3>1. PICK f \in failed[s] :
            \/ UNCHANGED <<phase, notice>>
            \/ /\ notice' = [notice EXCEPT ![s] = f]
               /\ phase' = [phase EXCEPT ![s] = "lookup"]
      BY <2>1 DEF ClaimReport
    <3>2. f \in Links \X Errors
      BY DEF TypeOK
    <3> QED
      BY <3>1, <3>2 DEF NoticesAreSound, TypeOK
  <2>2. CASE LookupForReport(s) \/ SendReport(s) \/ ReportFails(s)
    <3>1. \/ /\ notice' = [notice EXCEPT ![s] = None]
             /\ phase' = [phase EXCEPT ![s] = "report"]
          \/ /\ phase[s] = "lookup"
             /\ phase' = [phase EXCEPT ![s] = "notify"]
             /\ UNCHANGED notice
      BY <2>2 DEF LookupForReport, SendReport, ReportFails, EndReport
    <3> QED
      BY <3>1 DEF NoticesAreSound, TypeOK
  <2>3. CASE ~(ClaimReport(s) \/ LookupForReport(s) \/ SendReport(s)
                 \/ ReportFails(s))
    <3>1. /\ phase[s] \notin {"lookup", "notify"}
          /\ \E p \in Phases \ {"lookup", "notify"} : phase' = [phase EXCEPT ![s] = p]
          /\ UNCHANGED notice
      BY <1>4, <2>3 DEF ScanStep, StartScan, FetchBatch, EndScan, AbortScan,
         JoinWorkers, NextBatch, Phases
    <3> QED
      BY <3>1 DEF NoticesAreSound, TypeOK
  <2> QED
    BY <2>1, <2>2, <2>3
<1> QED
  BY <1>1, <1>2, <1>3, <1>4 DEF Next

\* A failure stays silenced for a reason: the entry is made with a scan that is
\* about to tell, and that scan ends with the subscribers told, nobody to
\* tell, or the entry gone.
LEMMA NextSilences ==
    ASSUME TypeOK, NoticesAreSound, SilencesAreSound, [Next]_vars
    PROVE  SilencesAreSound'
<1> DEFINE Tells(s, l) == /\ phase[s] \in {"lookup", "notify"}
                          /\ notice[s] = <<l, reported[l]>>
           Silent(l) == \/ reported[l] \in told[l]
                        \/ \E s \in Scans : Tells(s, l)
                        \/ muted[l]
<1>0. \A l \in Links : reported[l] # None => Silent(l)
  BY DEF SilencesAreSound
<1>1. ASSUME UNCHANGED <<phase, notice>>,
             UNCHANGED memory \/ \E k \in Links : Forget(k)
      PROVE  SilencesAreSound'
  BY <1>0, <1>1 DEF SilencesAreSound, memory, Forget, TypeOK
<1>2. ASSUME NEW w \in Workers, WorkerStep(w) PROVE SilencesAreSound'
  <2>1. /\ todo[w] # {}
        /\ UNCHANGED <<phase, notice>>
        /\ Kept \/ Released(w)
    BY <1>2, WorkerEffect
  <2>2. UNCHANGED memory \/ \E k \in Links : Forget(k)
    BY <2>1, HandIsKnown DEF Kept, Released, Succeed, Fail
  <2> QED
    BY <1>1, <2>1, <2>2
<1>3. CASE Environment \/ UNCHANGED vars
  <2>1. UNCHANGED <<phase, notice, memory>>
    BY <1>3 DEF Environment, Tick, Post, AddLink, RemoveLink, vars, scans
  <2> QED
    BY <1>1, <2>1
<1>4. CASE Crash
  BY <1>4 DEF Crash, SilencesAreSound
<1>5. ASSUME NEW s \in Scans, StartScan(s) \/ ScanStep(s) PROVE SilencesAreSound'
  <2>1. CASE ClaimReport(s)
    <3>1. phase[s] = "report"
      BY <2>1 DEF ClaimReport
    <3>2. CASE UNCHANGED <<phase, notice, memory>>
      BY <1>1, <3>2
    <3>3. CASE ~UNCHANGED <<phase, notice, memory>>
      <4>1. PICK f \in failed[s] :
              /\ reported' = [reported EXCEPT ![f[1]] = f[2]]
              /\ muted' = [muted EXCEPT ![f[1]] = FALSE]
              /\ notice' = [notice EXCEPT ![s] = f]
              /\ phase' = [phase EXCEPT ![s] = "lookup"]
              /\ UNCHANGED told
        BY <2>1, <3>3 DEF ClaimReport
      <4>2. f \in Links \X Errors /\ f = <<f[1], f[2]>>
        BY DEF TypeOK
      <4>3. ASSUME NEW l \in Links, reported'[l] # None
            PROVE  \/ reported'[l] \in told'[l]
                   \/ \E t \in Scans : /\ phase'[t] \in {"lookup", "notify"}
                                       /\ notice'[t] = <<l, reported'[l]>>
                   \/ muted'[l]
        <5>1. CASE l = f[1]
          BY <4>1, <4>2, <5>1 DEF TypeOK
        <5>2. CASE l # f[1]
          <6>1. reported'[l] = reported[l] /\ muted'[l] = muted[l] /\ told' = told
            BY <4>1, <5>2 DEF TypeOK
          <6>2. \A t \in Scans \ {s} : phase'[t] = phase[t] /\ notice'[t] = notice[t]
            BY <4>1 DEF TypeOK
          <6>3. ~Tells(s, l)
            BY <3>1
          <6> QED
            BY <1>0, <4>3, <6>1, <6>2, <6>3
        <5> QED
          BY <5>1, <5>2
      <4> QED
        BY <4>3 DEF SilencesAreSound
    <3> QED
      BY <3>2, <3>3
  <2>2. CASE \/ LookupForReport(s) /\ subs[notice[s][1]] = {}
             \/ SendReport(s)
             \/ ReportFails(s)
    <3> DEFINE k == notice[s][1]
               e == notice[s][2]
    <3>1. phase[s] \in {"lookup", "notify"}
      BY <2>2 DEF LookupForReport, SendReport, ReportFails
    <3>2. k \in Links /\ e \in Errors /\ notice[s] = <<k, e>>
      BY <3>1 DEF NoticesAreSound
    <3>3. \A t \in Scans \ {s} : phase'[t] = phase[t] /\ notice'[t] = notice[t]
      BY <2>2 DEF LookupForReport, SendReport, ReportFails, EndReport, TypeOK
    <3>4. ASSUME NEW l \in Links, l # k
          PROVE  /\ reported'[l] = reported[l]
                 /\ muted'[l] = muted[l]
                 /\ told'[l] = told[l]
                 /\ ~Tells(s, l)
      BY <2>2, <3>2, <3>4
      DEF LookupForReport, SendReport, ReportFails, Forget, TypeOK, memory
    <3>5. \/ reported'[k] = None
          \/ /\ reported'[k] = reported[k]
             /\ told'[k] = told[k] \cup {e}
             /\ muted'[k] = muted[k]
          \/ /\ reported'[k] = reported[k]
             /\ told'[k] = told[k]
             /\ muted'[k] = (muted[k] \/ reported[k] = e)
      BY <2>2, <3>2
      DEF LookupForReport, SendReport, ReportFails, Forget, TypeOK
    <3>6. ASSUME NEW l \in Links, reported'[l] # None
          PROVE  \/ reported'[l] \in told'[l]
                 \/ \E t \in Scans : /\ phase'[t] \in {"lookup", "notify"}
                                     /\ notice'[t] = <<l, reported'[l]>>
                 \/ muted'[l]
      <4>1. CASE l # k
        BY <1>0, <3>3, <3>4, <3>6, <4>1
      <4>2. CASE l = k
        <5>1. reported'[k] = reported[k] /\ Silent(k)
          BY <1>0, <3>2, <3>5, <3>6, <4>2
        <5>2. CASE reported[k] \in told[k] \/ muted[k]
          BY <3>5, <3>6, <4>2, <5>1, <5>2
        <5>3. CASE Tells(s, k)
          <6>1. reported[k] = e
            BY <3>2, <5>3
          <6> QED
            BY <3>5, <3>6, <4>2, <5>1, <6>1
        <5>4. CASE \E t \in Scans \ {s} : Tells(t, k)
          BY <3>3, <4>2, <5>1, <5>4
        <5> QED
          BY <5>1, <5>2, <5>3, <5>4
      <4> QED
        BY <4>1, <4>2
    <3> QED
      BY <3>6 DEF SilencesAreSound
  <2>3. CASE LookupForReport(s) /\ subs[notice[s][1]] # {}
    <3>1. /\ phase[s] = "lookup"
          /\ phase' = [phase EXCEPT ![s] = "notify"]
          /\ UNCHANGED <<notice, memory>>
      BY <2>3 DEF LookupForReport
    <3> QED
      BY <1>0, <3>1 DEF SilencesAreSound, TypeOK, memory
  <2>4. CASE ~(ClaimReport(s) \/ LookupForReport(s) \/ SendReport(s)
                 \/ ReportFails(s))
    <3>1. /\ phase[s] \notin {"lookup", "notify"}
          /\ \E p : phase' = [phase EXCEPT ![s] = p]
          /\ UNCHANGED <<notice, memory>>
      BY <1>5, <2>4 DEF ScanStep, StartScan, FetchBatch, EndScan, AbortScan,
         JoinWorkers, NextBatch
    <3> QED
      BY <1>0, <3>1 DEF SilencesAreSound, TypeOK, memory
  <2> QED
    BY <2>1, <2>2, <2>3, <2>4
<1> QED
  BY <1>2, <1>3, <1>4, <1>5 DEF Next

---------------------------------------------------------------------------
(* What a scan owes: pages by OFFSET while subscriptions come and go. *)

\* A worker pays what it releases.
LEMMA WorkerStepDues ==
    ASSUME TypeOK, WorkersAreSound, DuesAreSound, NEW w \in Workers, WorkerStep(w)
    PROVE  DuesAreSound'
<1>1. /\ todo[w] # {}
      /\ UNCHANGED <<phase, offset, page, subs>>
      /\ Kept \/ Released(w)
  BY WorkerEffect
<1>2. Tracked' = Tracked /\ \A l : Place(l, Tracked)' = Place(l, Tracked)
  BY <1>1 DEF Tracked, Place
<1>3. CASE Kept
  BY <1>1, <1>2, <1>3 DEF Kept, DuesAreSound
<1>4. CASE Released(w)
  <2>1. /\ todo' = [todo EXCEPT ![w] = @ \ {InHand(w)}]
        /\ due' = [due EXCEPT ![w[1]] = @ \ {InHand(w)}]
    BY <1>1, <1>4, ReleaseTypes
  <2>2. w[1] \in Scans /\ \A s \in Scans : due'[s] \subseteq due[s]
    BY <2>1 DEF TypeOK, Workers
  <2>3. ASSUME NEW s \in Scans, NEW l \in due'[s],
               NEW v \in Workers, v[1] = s, l \in todo[v]
        PROVE  l \in todo'[v]
    <3>1. CASE v = w
      <4>1. due'[s] = due[s] \ {InHand(w)}
        BY <2>1, <2>3, <3>1 DEF TypeOK
      <4> QED
        BY <2>1, <2>3, <3>1, <4>1 DEF TypeOK
    <3>2. CASE v # w
      BY <2>1, <2>3, <3>2 DEF TypeOK
    <3> QED
      BY <3>1, <3>2
  <2> QED
    BY <1>1, <1>2, <2>2, <2>3 DEF DuesAreSound
<1> QED
  BY <1>1, <1>3, <1>4

\* A new subscription moves links to later places only.
LEMMA AddLinkDues ==
    ASSUME TypeOK, DuesAreSound, NEW c \in Chats, NEW l \in Links, AddLink(c, l)
    PROVE  DuesAreSound'
<1>1. /\ subs' = [subs EXCEPT ![l] = @ \cup {c}]
      /\ UNCHANGED <<phase, offset, page, todo, due>>
  BY DEF AddLink, scans, workers
<1>2. Tracked \in SUBSET Tracked' /\ Tracked' \in SUBSET Links
  BY <1>1 DEF Tracked, TypeOK
<1>3. ASSUME NEW k \in Links
      PROVE  Place(k, Tracked) <= Place(k, Tracked')
  BY <1>2, PlaceGrows
<1>4. ASSUME NEW k \in Links, NEW n \in Nat, n <= Place(k, Tracked)
      PROVE  n <= Place(k, Tracked')
  BY <1>2, <1>3, <1>4, PlaceType
<1>5. ASSUME NEW s \in Scans
      PROVE  /\ offset[s] \in Nat
             /\ offset[s] + Cardinality(page[s]) \in Nat
             /\ due[s] \subseteq Links
  <2>1. page[s] \in SUBSET Links /\ offset[s] \in Nat /\ due[s] \subseteq Links
    BY DEF TypeOK
  <2>2. IsFiniteSet(page[s])
    BY <2>1, LinksAssumption, FS_Subset
  <2>3. Cardinality(page[s]) \in Nat
    BY <2>2, FS_CardinalityType
  <2> QED
    BY <2>1, <2>3
<1> QED
  BY <1>1, <1>2, <1>4, <1>5 DEF DuesAreSound

\* A link that loses its last subscriber moves the later ones up, which the
\* scans need not reach any more; the earlier ones keep their places.
LEMMA RemoveLinkDues ==
    ASSUME TypeOK, DuesAreSound, NEW c \in Chats, NEW l \in Links,
           RemoveLink(c, l)
    PROVE  DuesAreSound'
<1>1. /\ subs' = [subs EXCEPT ![l] = @ \ {c}]
      /\ Excuse({g \in {l} : subs[g] = {c}})
      /\ UNCHANGED <<phase, offset, page, todo>>
      /\ c \in subs[l]
  BY DEF RemoveLink, scans, workers
<1>2. CASE subs[l] = {c}
  <2>1. due' = [s \in Scans |-> {k \in due[s] : k < l}]
    BY <1>1, <1>2 DEF Excuse
  <2>2. Tracked' = Tracked \ {l} /\ Tracked \in SUBSET Links
    BY <1>1, <1>2 DEF Tracked, TypeOK
  <2>3. ASSUME NEW s \in Scans, NEW k \in due'[s]
        PROVE  /\ k \in due[s]
               /\ k \in Tracked'
               /\ Place(k, Tracked') = Place(k, Tracked)
    <3>1. k \in due[s] /\ k < l /\ k \in Tracked /\ k \in Links
      BY <2>1, <2>2 DEF DuesAreSound
    <3> QED
      BY <2>2, <3>1, PlaceOfEarlier, LinksAssumption
  <2> QED
    BY <1>1, <2>3 DEF DuesAreSound
<1>3. CASE subs[l] # {c}
  <2>1. due' = due
    BY <1>1, <1>3 DEF Excuse, TypeOK
  <2>2. Tracked' = Tracked
    BY <1>1, <1>3 DEF Tracked, TypeOK
  <2> QED
    BY <1>1, <2>1, <2>2 DEF DuesAreSound
<1> QED
  BY <1>2, <1>3

\* What a page holds of what is due goes to the workers, the rest is behind
\* the page; a page that is empty leaves nothing behind it.
LEMMA FetchBatchDues ==
    ASSUME TypeOK, WorkersAreSound, DuesAreSound, NEW s \in Scans,
           FetchBatch(s) \/ EndScan(s)
    PROVE  DuesAreSound'
<1> DEFINE P == Batch(offset[s])
<1>0. offset[s] \in Nat /\ phase[s] = "page" /\ s \in Scans
  BY DEF TypeOK, FetchBatch, EndScan
<1>1. /\ Tracked \in SUBSET Links
      /\ P \in SUBSET Tracked
      /\ IsFiniteSet(P)
      /\ Cardinality(P) \in Nat
      /\ Cardinality(P) <= BatchSize
  BY <1>0, BatchIsBounded, FS_CardinalityType
<1>2. \A l \in due[s] : l \in Tracked /\ offset[s] <= Place(l, Tracked)
  BY <1>0 DEF DuesAreSound
<1>3. Tracked' = Tracked /\ UNCHANGED <<due, offset>>
  BY DEF FetchBatch, EndScan, Tracked, registry
<1>4. CASE EndScan(s)
  <2>1. ASSUME NEW l \in due[s] PROVE FALSE
    <3>1. PICK k \in Tracked : Place(k, Tracked) = offset[s]
      BY <1>0, <1>1, <1>2, PlacesAreTaken
    <3>2. k \in Batch(offset[s])
      BY <1>0, <3>1, SizesAssumption DEF Batch
    <3> QED
      BY <1>4, <3>2 DEF EndScan
  <2>2. /\ phase' = [phase EXCEPT ![s] = "idle"]
        /\ UNCHANGED <<page, todo>>
    BY <1>4 DEF EndScan, workers
  <2> QED
    BY <1>3, <2>1, <2>2 DEF DuesAreSound, TypeOK
<1>5. CASE FetchBatch(s)
  <2>1. /\ page' = [page EXCEPT ![s] = P]
        /\ \A w \in Workers : w[1] = s => todo'[w] = Chunk(P, w[2])
        /\ \A w \in Workers : w[1] # s => todo'[w] = todo[w]
        /\ phase' = [phase EXCEPT ![s] = "work"]
    BY <1>5 DEF FetchBatch
  <2> HIDE DEF P
  <2>2. ASSUME NEW l \in due[s]
        PROVE  \/ \E w \in Workers : w[1] = s /\ l \in todo'[w]
               \/ offset[s] + Cardinality(P) <= Place(l, Tracked)
    <3>1. CASE l \in P
      <4>1. PICK i \in 1 .. WorkerCount : l \in Chunk(P, i)
        BY <1>1, <3>1, ChunksCover
      <4>2. <<s, i>> \in Workers
        BY DEF Workers
      <4> QED
        BY <2>1, <4>1, <4>2
    <3>2. CASE l \notin P
      <4>1. offset[s] + BatchSize <= Place(l, Tracked)
        <5>1. Place(l, Tracked) \in Nat
          BY <1>1, <1>2, PlaceType
        <5> QED
          BY <1>0, <1>2, <3>2, <5>1, SizesAssumption DEF Batch, P
      <4>2. Place(l, Tracked) \in Nat
        BY <1>1, <1>2, PlaceType
      <4> QED
        BY <1>0, <1>1, <4>1, <4>2, SizesAssumption
    <3> QED
      BY <3>1, <3>2
  <2>3. page'[s] = P /\ phase'[s] = "work"
    BY <2>1 DEF TypeOK
  <2>4. ASSUME NEW t \in Scans, t # s
        PROVE  page'[t] = page[t] /\ phase'[t] = phase[t]
    BY <2>1, <2>4 DEF TypeOK
  <2>5. ASSUME NEW t \in Scans
        PROVE  /\ due'[t] \subseteq Tracked'
               /\ phase'[t] = "idle" => due'[t] = {}
               /\ phase'[t] = "page" =>
                     \A l \in due'[t] : offset'[t] <= Place(l, Tracked')
               /\ phase'[t] \notin {"idle", "page"} =>
                     \A l \in due'[t] :
                         \/ \E w \in Workers : w[1] = t /\ l \in todo'[w]
                         \/ offset'[t] + Cardinality(page'[t]) <= Place(l, Tracked')
    <3>1. CASE t = s
      BY <1>2, <1>3, <2>2, <2>3, <3>1
    <3>2. CASE t # s
      BY <1>3, <2>1, <2>4, <3>2 DEF DuesAreSound
    <3> QED
      BY <3>1, <3>2
  <2> QED
    BY <2>5 DEF DuesAreSound
<1> QED
  BY <1>4, <1>5

\* The other steps of a scan.
LEMMA ScanStepDues ==
    ASSUME TypeOK, WorkersAreSound, DuesAreSound, NEW s \in Scans,
           StartScan(s) \/ ScanStep(s)
    PROVE  DuesAreSound'
<1>1. CASE FetchBatch(s) \/ EndScan(s)
  BY <1>1, FetchBatchDues
<1>2. CASE StartScan(s)
  <2>1. /\ phase' = [phase EXCEPT ![s] = "page"]
        /\ offset' = [offset EXCEPT ![s] = 0]
        /\ due' = [due EXCEPT ![s] = Tracked]
        /\ Tracked' = Tracked
        /\ UNCHANGED <<page, todo>>
    BY <1>2 DEF StartScan, Tracked, registry, workers
  <2>2. \A l \in Tracked : 0 <= Place(l, Tracked)
    BY PlaceType DEF Tracked
  <2> QED
    BY <2>1, <2>2 DEF DuesAreSound, TypeOK
<1>3. CASE AbortScan(s)
  <2>1. /\ phase' = [phase EXCEPT ![s] = "idle"]
        /\ due' = [due EXCEPT ![s] = {}]
        /\ Tracked' = Tracked
        /\ UNCHANGED <<offset, page, todo>>
    BY <1>3 DEF AbortScan, Tracked, registry, workers
  <2> QED
    BY <2>1 DEF DuesAreSound, TypeOK
<1>4. CASE NextBatch(s)
  <2>1. /\ phase[s] = "report"
        /\ phase' = [phase EXCEPT ![s] = "page"]
        /\ offset' = [offset EXCEPT ![s] = @ + Cardinality(page[s])]
        /\ page' = [page EXCEPT ![s] = {}]
        /\ Tracked' = Tracked
        /\ UNCHANGED <<due, todo>>
    BY <1>4 DEF NextBatch, Tracked, registry, workers
  <2>2. \A w \in Workers : w[1] = s => todo[w] = {}
    BY <2>1 DEF WorkersAreSound
  <2>3. \A l \in due[s] : offset[s] + Cardinality(page[s]) <= Place(l, Tracked)
    BY <2>1, <2>2 DEF DuesAreSound
  <2>4. phase'[s] = "page" /\ offset'[s] = offset[s] + Cardinality(page[s])
    BY <2>1 DEF TypeOK
  <2>5. \A t \in Scans \ {s} : /\ phase'[t] = phase[t]
                               /\ offset'[t] = offset[t]
                               /\ page'[t] = page[t]
    BY <2>1 DEF TypeOK
  <2> QED
    BY <2>1, <2>3, <2>4, <2>5 DEF DuesAreSound
<1>5. CASE ~(\/ FetchBatch(s) \/ EndScan(s) \/ StartScan(s) \/ AbortScan(s)
             \/ NextBatch(s))
  <2>1. /\ phase[s] \notin {"idle", "page"}
        /\ \/ phase' = phase
           \/ \E p \in Phases \ {"idle", "page"} : phase' = [phase EXCEPT ![s] = p]
        /\ Tracked' = Tracked
        /\ UNCHANGED <<offset, page, todo, due>>
    BY <1>5 DEF ScanStep, JoinWorkers, ClaimReport, LookupForReport, SendReport,
       ReportFails, EndReport, Phases, Tracked, registry, workers
  <2> QED
    BY <2>1 DEF DuesAreSound, TypeOK
<1> QED
  BY <1>1, <1>2, <1>3, <1>4, <1>5

\* So no step loses a link a scan owes.
LEMMA NextDues ==
    ASSUME TypeOK, WorkersAreSound, DuesAreSound, [Next]_vars
    PROVE  DuesAreSound'
<1>1. CASE Tick \/ (\E l \in Links, f \in Feeds : Post(l, f)) \/ UNCHANGED vars
  <2>1. Tracked' = Tracked /\ UNCHANGED <<phase, offset, page, todo, due>>
    BY <1>1 DEF Tick, Post, vars, scans, workers, registry, Tracked
  <2> QED
    BY <2>1 DEF DuesAreSound
<1>2. CASE Crash
  BY <1>2 DEF Crash, DuesAreSound
<1> QED
  BY <1>1, <1>2, WorkerStepDues, ScanStepDues, AddLinkDues, RemoveLinkDues
  DEF Next, Environment

---------------------------------------------------------------------------
(* What a check knows and what it writes. *)

\* A worker does not touch what the others have in hand.
LEMMA OthersKeepStill ==
    ASSUME TypeOK, NEW w \in Workers, WorkerStep(w), NEW v \in Workers, v # w
    PROVE  /\ todo'[v] = todo[v]
           /\ step'[v] = step[v]
           /\ found'[v] = found[v]
           /\ stamp'[v] = stamp[v]
           /\ InHand(v)' = InHand(v)
           /\ Watermark(v)' = Watermark(v)
<1>1. todo[w] # {} /\ UNCHANGED since /\ (Kept \/ Released(w))
  BY WorkerEffect
<1>2. Released(w) => /\ todo' = [todo EXCEPT ![w] = @ \ {InHand(w)}]
                     /\ step' = [step EXCEPT ![w] = "fetch"]
                     /\ found' = [found EXCEPT ![w] = {}]
                     /\ stamp' = [stamp EXCEPT ![w] = 0]
  BY <1>1, ReleaseTypes
<1>3. todo'[v] = todo[v]
  BY <1>1, <1>2 DEF Kept, TypeOK
<1> DEFINE Still == /\ step'[v] = step[v]
                    /\ found'[v] = found[v]
                    /\ stamp'[v] = stamp[v]
<1>4. Released(w) => Still
  BY <1>2 DEF TypeOK
<1>5. ASSUME NEW ups, Evaluate(w, ups) PROVE Still
  BY <1>4, <1>5, EvaluateOutcomes DEF Released, TypeOK
<1>6. Still
  BY <1>4, <1>5 DEF WorkerStep, Fetch, FetchComments, FetchBroken,
     Baseline, Advance, FindSubscribers, Skip, UpdateAckLost, Save, SaveAckLost, Send,
     SendAckLost, CallFails, GoOn, Released, Succeed, Fail, Release, TypeOK
<1> QED
  BY <1>1, <1>3, <1>6 DEF InHand, Watermark

\* A worker that keeps its link keeps its watermark.
LEMMA KeptIsInHand ==
    ASSUME TypeOK, NEW w, WorkerStep(w), Kept
    PROVE  /\ todo'[w] = todo[w]
           /\ InHand(w)' = InHand(w)
           /\ Watermark(w)' = Watermark(w)
BY WorkerEffect DEF Kept, InHand, Watermark

\* The steps of a worker that keep its link: from one step of processLink to
\* a later one, with what it found.
KeepsOn(w) ==
    \/ /\ step[w] \in {"fetch", "comments"}
       /\ step' = [step EXCEPT ![w] = "baseline"]
       /\ Watermark(w) = 0
       /\ UNCHANGED <<found, lastUpdated, handed, handedTwice>>
    \/ /\ step[w] = "fetch"
       /\ Kind[InHand(w)] = "stackoverflow"
       /\ step' = [step EXCEPT ![w] = "comments"]
       /\ found'[w] \subseteq posted[InHand(w)]
       /\ \A u \in found'[w] : Watermark(w) < u.at
       /\ UNCHANGED <<stamp, lastUpdated, handed, handedTwice>>
    \/ /\ step[w] \in {"fetch", "comments"}
       /\ Watermark(w) # 0
       /\ step'[w] \in {"advance", "subscribers"}
       /\ step'[w] = "advance" => ~OutboxEnabled
       /\ step'[w] = "subscribers" => OutboxEnabled
       /\ found'[w] \subseteq posted[InHand(w)]
       /\ \A u \in found'[w] : Watermark(w) < u.at /\ u.at <= stamp'[w]
       /\ \E u \in found'[w] : u.at = stamp'[w]
       /\ UNCHANGED <<lastUpdated, handed, handedTwice>>
    \/ /\ step[w] = "advance"
       /\ step'[w] = "subscribers"
       /\ lastUpdated' = [lastUpdated EXCEPT ![InHand(w)] = stamp[w]]
       /\ UNCHANGED <<found, stamp, handed, handedTwice>>
    \/ /\ step[w] = "subscribers"
       /\ step'[w] \in (IF OutboxEnabled THEN {"skip", "save"} ELSE {"send"})
       /\ UNCHANGED <<found, stamp, lastUpdated, handed, handedTwice>>
    \/ /\ step[w] = "send"
       /\ step'[w] = "send"
       /\ \E u \in found[w] : /\ Hand(InHand(w), {u})
                              /\ found'[w] = found[w] \ {u}
       /\ UNCHANGED <<stamp, lastUpdated>>

\* The steps of a worker that release its link, by what they write.
Writes(w) ==
    \/ UNCHANGED <<lastUpdated, handed, handedTwice>>
    \/ /\ step[w] \in {"baseline", "advance", "skip"}
       /\ lastUpdated' = [lastUpdated EXCEPT ![InHand(w)] = stamp[w]]
       /\ UNCHANGED <<handed, handedTwice>>
       /\ step[w] = "skip" => skipped' = skipped \cup ({InHand(w)} \X found[w])
    \/ step[w] = "save" /\ SaveOutbox(w)
    \/ /\ step[w] = "send"
       /\ \E u \in found[w] : Hand(InHand(w), {u})
       /\ UNCHANGED lastUpdated

\* Evaluate goes on from updates that are at the source and are new.
LEMMA EvaluateGoesOn ==
    ASSUME TypeOK, NEW w \in Workers, todo[w] # {},
           step[w] \in {"fetch", "comments"},
           NEW ups \in SUBSET posted[InHand(w)],
           \A u \in ups : Watermark(w) < u.at,
           Evaluate(w, ups),
           UNCHANGED <<lastUpdated, handed, handedTwice>>
    PROVE  (Kept /\ KeepsOn(w)) \/ (Released(w) /\ Writes(w))
<1>1. ups \in SUBSET Updates
  BY HandIsKnown DEF TypeOK
<1>2. /\ Newest(w, ups) = Watermark(w) \/ \E u \in ups : Newest(w, ups) = u.at
      /\ \A u \in ups : u.at <= Newest(w, ups)
      /\ Newest(w, ups) \in Nat
      /\ Watermark(w) \in Nat
      /\ \A u \in ups : u.at \in Nat
  BY <1>1, NewestIsLatest, HandIsKnown, BoundsAssumption DEF Time, Updates
<1>3. CASE /\ Watermark(w) = 0
           /\ step' = [step EXCEPT ![w] = "baseline"]
           /\ Kept
           /\ UNCHANGED found
  BY <1>3 DEF KeepsOn
<1>4. CASE Succeed(w)
  BY <1>4 DEF Released, Writes
<1>5. CASE /\ Watermark(w) # 0
           /\ ups # {}
           /\ found' = [found EXCEPT ![w] = ups]
           /\ stamp' = [stamp EXCEPT ![w] = Newest(w, ups)]
           /\ step' = [step EXCEPT ![w] =
                          IF ~OutboxEnabled /\ Newest(w, ups) > Watermark(w)
                          THEN "advance" ELSE "subscribers"]
           /\ Kept
  <2>1. \E u \in ups : Newest(w, ups) = u.at
    BY <1>2, <1>5
  <2>2. Newest(w, ups) > Watermark(w)
    BY <1>2, <2>1
  <2>3. found'[w] = ups /\ stamp'[w] = Newest(w, ups)
    BY <1>5 DEF TypeOK
  <2>4. step'[w] = IF ~OutboxEnabled THEN "advance" ELSE "subscribers"
    BY <1>5, <2>2 DEF TypeOK
  <2>5. /\ step'[w] \in {"advance", "subscribers"}
        /\ step'[w] = "advance" => ~OutboxEnabled
        /\ step'[w] = "subscribers" => OutboxEnabled
    BY <2>4
  <2> QED
    BY <1>2, <1>5, <2>1, <2>3, <2>5 DEF KeepsOn
<1> QED
  BY <1>3, <1>4, <1>5, EvaluateOutcomes

\* Every step of a worker is one of these.
LEMMA WorkerOutcomes ==
    ASSUME TypeOK, ChecksAreSound, NEW w \in Workers, WorkerStep(w)
    PROVE  (Kept /\ KeepsOn(w)) \/ (Released(w) /\ Writes(w))
<1>1. todo[w] # {} /\ InHand(w) \in Links /\ CheckIsSound(w)
  BY WorkerEffect, HandIsKnown DEF ChecksAreSound
<1> USE DEF Working
<1>2. CASE Fetch(w)
  <2>1. PICK P \in Pages(InHand(w), FirstFeed(InHand(w))) :
           \/ Evaluate(w, NewerThan(P, Watermark(w)))
           \/ /\ Kind[InHand(w)] = "stackoverflow"
              /\ found' = [found EXCEPT ![w] = NewerThan(P, Watermark(w))]
              /\ GoOn(w, "comments")
              /\ UNCHANGED stamp
    BY <1>2 DEF Fetch
  <2>2. /\ NewerThan(P, Watermark(w)) \in SUBSET posted[InHand(w)]
        /\ \A u \in NewerThan(P, Watermark(w)) : Watermark(w) < u.at
    BY <1>1, PageIsPosted DEF NewerThan
  <2>3. step[w] = "fetch" /\ UNCHANGED <<lastUpdated, handed, handedTwice>>
    BY <1>2 DEF Fetch, registry
  <2>4. CASE Evaluate(w, NewerThan(P, Watermark(w)))
    BY <1>1, <2>2, <2>3, <2>4, EvaluateGoesOn
  <2>5. CASE /\ Kind[InHand(w)] = "stackoverflow"
             /\ found' = [found EXCEPT ![w] = NewerThan(P, Watermark(w))]
             /\ GoOn(w, "comments")
             /\ UNCHANGED stamp
    <3>1. found'[w] = NewerThan(P, Watermark(w))
      BY <2>5 DEF TypeOK
    <3> QED
      BY <2>2, <2>3, <2>5, <3>1 DEF KeepsOn, GoOn, Kept
  <2> QED
    BY <2>1, <2>4, <2>5
<1>3. CASE FetchComments(w)
  <2>1. PICK P \in Pages(InHand(w), "comments") :
           Evaluate(w, found[w] \cup NewerThan(P, Watermark(w)))
    BY <1>3 DEF FetchComments
  <2>2. step[w] = "comments" /\ UNCHANGED <<lastUpdated, handed, handedTwice>>
    BY <1>3 DEF FetchComments, registry
  <2> DEFINE ups == found[w] \cup NewerThan(P, Watermark(w))
  <2>3. ups \in SUBSET posted[InHand(w)] /\ \A u \in ups : Watermark(w) < u.at
    BY <1>1, <2>2, PageIsPosted DEF CheckIsSound, NewerThan
  <2> HIDE DEF ups
  <2>4. Evaluate(w, ups)
    BY <2>1 DEF ups
  <2> QED
    BY <1>1, <2>2, <2>3, <2>4, EvaluateGoesOn
<1>4. CASE FetchBroken(w)
  <2>1. (CHOOSE e \in Errors : TRUE) \in Errors
    BY ErrorsAssumption
  <2> QED
    BY <1>4, <2>1 DEF FetchBroken, Released, Writes, registry, log
<1>5. CASE Baseline(w)
  BY <1>5 DEF Baseline, FirstLook, UpdateLastUpdated, Released, Writes
<1>6. CASE Advance(w)
  <2>1. step'[w] = "subscribers"
    BY <1>6 DEF Advance, GoOn, TypeOK
  <2> QED
    BY <1>6, <2>1 DEF Advance, UpdateLastUpdated, GoOn, KeepsOn, Kept, log
<1>7. CASE FindSubscribers(w)
  <2>1. UNCHANGED <<lastUpdated, handed, handedTwice>> /\ step[w] = "subscribers"
    BY <1>7 DEF FindSubscribers, registry, log
  <2>2. CASE Succeed(w)
    BY <2>1, <2>2 DEF Released, Writes
  <2>3. CASE /\ \/ OutboxEnabled /\ GoOn(w, "skip")
                \/ GoOn(w, IF OutboxEnabled THEN "save" ELSE "send")
             /\ UNCHANGED <<found, stamp>>
    <3>1. step'[w] \in (IF OutboxEnabled THEN {"skip", "save"} ELSE {"send"})
      BY <2>3 DEF GoOn, TypeOK
    <3> QED
      BY <2>1, <2>3, <3>1 DEF GoOn, KeepsOn, Kept
  <2> QED
    BY <1>7, <2>2, <2>3 DEF FindSubscribers
<1>8. CASE Skip(w)
  BY <1>8 DEF Skip, PassOver, UpdateLastUpdated, Released, Writes
<1>9. CASE Save(w)
  BY <1>9 DEF Save, Released, Writes
<1>10. CASE SaveAckLost(w)
  BY <1>10 DEF SaveAckLost, Released, Writes
<1>11. CASE Send(w)
  <2>1. PICK u \in found[w] :
           /\ Hand(InHand(w), {u})
           /\ \/ Succeed(w)
              \/ /\ found' = [found EXCEPT ![w] = @ \ {u}]
                 /\ GoOn(w, "send")
                 /\ UNCHANGED stamp
    BY <1>11 DEF Send
  <2>2. step[w] = "send" /\ UNCHANGED lastUpdated
    BY <1>11 DEF Send, registry
  <2>3. CASE Succeed(w)
    BY <2>1, <2>2, <2>3 DEF Released, Writes
  <2>4. CASE /\ found' = [found EXCEPT ![w] = @ \ {u}]
             /\ GoOn(w, "send")
             /\ UNCHANGED stamp
    <3>1. found'[w] = found[w] \ {u} /\ step'[w] = "send"
      BY <2>4 DEF GoOn, TypeOK
    <3> QED
      BY <2>1, <2>2, <2>4, <3>1 DEF GoOn, KeepsOn, Kept
  <2> QED
    BY <2>1, <2>3, <2>4
<1>12. CASE SendAckLost(w)
  BY <1>12 DEF SendAckLost, Released, Writes, registry
<1>13. CASE CallFails(w)
  BY <1>13 DEF CallFails, Released, Writes, registry, log
<1>14. CASE UpdateAckLost(w)
  <2>1. Released(w)
    BY <1>14 DEF UpdateAckLost, Released
  <2> QED
    BY <1>14, <2>1
    DEF UpdateAckLost, FirstLook, PassOver, UpdateLastUpdated, Writes, log
<1> QED
  BY <1>2, <1>3, <1>4, <1>5, <1>6, <1>7, <1>8, <1>9, <1>10, <1>11, <1>12,
     <1>13, <1>14 DEF WorkerStep

\* What a step of a worker hands on is what it found.
LEMMA HandedIsFound ==
    ASSUME TypeOK, ChecksAreSound, NEW w \in Workers, WorkerStep(w)
    PROVE  /\ handed \subseteq handed'
           /\ \A l, u : <<l, u>> \in handed' \ handed =>
                 /\ l = InHand(w)
                 /\ u \in found[w]
                 /\ step[w] \in {"save", "send"}
<1>1. \/ UNCHANGED handed
      \/ /\ step[w] \in {"save", "send"}
         /\ \E ups \in SUBSET found[w] : handed' = handed \cup ({InHand(w)} \X ups)
  <2> DEFINE Some == /\ step[w] \in {"save", "send"}
                     /\ \E ups \in SUBSET found[w] :
                           handed' = handed \cup ({InHand(w)} \X ups)
  <2>1. ASSUME NEW u \in found[w], Hand(InHand(w), {u}), step[w] = "send"
        PROVE  Some
    <3>1. {u} \in SUBSET found[w] /\ handed' = handed \cup ({InHand(w)} \X {u})
      BY <2>1 DEF Hand
    <3> QED
      BY <2>1, <3>1
  <2>2. ASSUME SaveOutbox(w), step[w] = "save" PROVE Some
    <3>1. handed' = handed \cup ({InHand(w)} \X found[w])
      BY <2>2 DEF SaveOutbox, Hand
    <3> QED
      BY <2>2, <3>1
  <2> HIDE DEF Some
  <2>3. UNCHANGED handed \/ Some
    BY <2>1, <2>2, WorkerOutcomes DEF KeepsOn, Writes
  <2> QED
    BY <2>3 DEF Some
<1> QED
  BY <1>1

\* The sources only grow, and what is handed on was found there.
LEMMA NextSources ==
    ASSUME TypeOK, ChecksAreSound, SourcesAreSound, [Next]_vars
    PROVE  SourcesAreSound'
<1>1. ASSUME NEW w \in Workers, WorkerStep(w) PROVE SourcesAreSound'
  <2>1. todo[w] # {} /\ UNCHANGED <<clock, posted>>
    BY <1>1, WorkerEffect DEF sources
  <2>2. ASSUME NEW l \in Links, NEW u \in Updates, <<l, u>> \in handed'
        PROVE  u \in posted[l]
    <3>1. CASE <<l, u>> \in handed
      BY <3>1 DEF SourcesAreSound
    <3>2. CASE <<l, u>> \notin handed
      BY <1>1, <2>1, <2>2, <3>2, HandedIsFound DEF ChecksAreSound, CheckIsSound
    <3> QED
      BY <3>1, <3>2
  <2> QED
    BY <2>1, <2>2 DEF SourcesAreSound, FeedsOf
<1>2. CASE Tick
  <2>1. clock' = clock + 1 /\ UNCHANGED <<posted, handed>>
    BY <1>2 DEF Tick, log
  <2>2. ASSUME NEW l \in Links, NEW u \in posted[l]
        PROVE  u.at <= clock' /\ u.feed \in FeedsOf(l)
    <3>1. u \in Updates /\ u.at \in Nat /\ clock \in Nat
      BY BoundsAssumption DEF TypeOK, Updates, Time
    <3> QED
      BY <2>1, <3>1 DEF SourcesAreSound
  <2> QED
    BY <2>1, <2>2 DEF SourcesAreSound, FeedsOf
<1>3. CASE \E l \in Links, f \in Feeds : Post(l, f)
  <2> PICK l \in Links, f \in Feeds : Post(l, f)
    BY <1>3
  <2>1. PICK nr \in 1 .. MaxPerTick :
           posted' = [posted EXCEPT ![l] = @ \cup {[feed |-> f, at |-> clock, nr |-> nr]}]
    BY DEF Post
  <2>2. f \in FeedsOf(l) /\ UNCHANGED <<clock, handed>>
    BY DEF Post, log
  <2>3. clock \in Nat
    BY BoundsAssumption DEF TypeOK, Time
  <2> QED
    BY <2>1, <2>2, <2>3 DEF SourcesAreSound, TypeOK, FeedsOf
<1>4. CASE ~Tick /\ ~(\E l \in Links, f \in Feeds : Post(l, f))
           /\ ~(\E w \in Workers : WorkerStep(w))
  <2>1. UNCHANGED <<clock, posted, handed>>
    <3>1. ASSUME NEW s \in Scans, StartScan(s) \/ ScanStep(s)
          PROVE  UNCHANGED <<clock, posted, handed>>
      BY <3>1 DEF ScanStep, StartScan, FetchBatch, EndScan, AbortScan,
         JoinWorkers, ClaimReport, LookupForReport, SendReport, ReportFails,
         NextBatch, sources, log
    <3> QED
      BY <1>4, <3>1 DEF Next, Environment, AddLink, RemoveLink, Crash, vars,
         sources, log
  <2> QED
    BY <2>1 DEF SourcesAreSound, FeedsOf
<1> QED
  BY <1>1, <1>2, <1>3, <1>4

\* A step of a scan leaves alone what is in hand: it changes the watermarks of
\* a scan only when its workers have nothing in hand.
LEMMA ScanStepHands ==
    ASSUME TypeOK, WorkersAreSound, NEW s \in Scans, StartScan(s) \/ ScanStep(s),
           NEW w \in Workers, todo'[w] # {}
    PROVE  /\ found' = found /\ stamp' = stamp /\ step' = step
           /\ UNCHANGED <<registry, sources, log>>
           /\ \/ step[w] = "fetch" /\ w[1] = s /\ FetchBatch(s)
              \/ /\ todo'[w] = todo[w]
                 /\ since'[w[1]] = since[w[1]]
                 /\ InHand(w)' = InHand(w)
                 /\ Watermark(w)' = Watermark(w)
<1>1. /\ found' = found /\ stamp' = stamp /\ step' = step
      /\ UNCHANGED <<registry, sources, log>>
  BY DEF ScanStep, StartScan, FetchBatch, EndScan, AbortScan, JoinWorkers,
     ClaimReport, LookupForReport, SendReport, ReportFails, NextBatch, EndReport,
     workers
<1>2. \/ todo'[w] = todo[w] /\ since'[w[1]] = since[w[1]]
      \/ step[w] = "fetch" /\ w[1] = s /\ FetchBatch(s)
  <2>1. CASE FetchBatch(s)
    <3>1. CASE w[1] = s
      <4>1. phase[s] = "page"
        BY <2>1 DEF FetchBatch
      <4>2. todo[w] = {}
        BY <3>1, <4>1 DEF WorkersAreSound
      <4> QED
        BY <2>1, <3>1, <4>2 DEF WorkersAreSound
    <3>2. CASE w[1] # s
      BY <2>1, <3>2 DEF FetchBatch, TypeOK, Workers
    <3> QED
      BY <3>1, <3>2
  <2>2. CASE NextBatch(s)
    <3>1. UNCHANGED todo /\ since' = [since EXCEPT ![s] = [l \in Links |-> 0]]
          /\ phase[s] = "report"
      BY <2>2 DEF NextBatch, workers
    <3>2. w[1] # s
      BY <3>1 DEF WorkersAreSound
    <3> QED
      BY <3>1, <3>2 DEF TypeOK, Workers
  <2>3. CASE ~FetchBatch(s) /\ ~NextBatch(s)
    BY <2>3 DEF ScanStep, StartScan, EndScan, AbortScan, JoinWorkers,
       ClaimReport, LookupForReport, SendReport, ReportFails, EndReport, workers
  <2> QED
    BY <2>1, <2>2, <2>3
<1> QED
  BY <1>1, <1>2 DEF InHand, Watermark

\* The sources and the registry leave everything in hand alone.
LEMMA EnvironmentHands ==
    ASSUME Environment \/ UNCHANGED vars
    PROVE  /\ UNCHANGED <<workers, since, log>>
           /\ \A w : InHand(w)' = InHand(w) /\ Watermark(w)' = Watermark(w)
<1>1. UNCHANGED <<workers, since, log>>
  BY DEF Environment, Tick, Post, AddLink, RemoveLink, vars, scans
<1> QED
  BY <1>1 DEF InHand, Watermark, workers

\* Updates do not disappear from a source.
LEMMA PostedGrows ==
    ASSUME TypeOK, [Next]_vars, NEW l \in Links
    PROVE  posted[l] \subseteq posted'[l]
<1>1. CASE \E k \in Links, f \in Feeds : Post(k, f)
  <2> PICK k \in Links, f \in Feeds : Post(k, f)
    BY <1>1
  <2>1. PICK u : posted' = [posted EXCEPT ![k] = @ \cup {u}]
    BY DEF Post
  <2> QED
    BY <2>1 DEF TypeOK
<1>2. CASE ~(\E k \in Links, f \in Feeds : Post(k, f))
  <2>1. ASSUME NEW w \in Workers, WorkerStep(w) PROVE UNCHANGED posted
    BY <2>1, WorkerEffect DEF sources
  <2>2. ASSUME NEW s \in Scans, StartScan(s) \/ ScanStep(s) PROVE UNCHANGED posted
    BY <2>2 DEF ScanStep, StartScan, FetchBatch, EndScan, AbortScan,
       JoinWorkers, ClaimReport, LookupForReport, SendReport, ReportFails,
       NextBatch, sources
  <2>3. UNCHANGED posted
    BY <1>2, <2>1, <2>2 DEF Next, Environment, Tick, AddLink, RemoveLink,
       Crash, vars, sources
  <2> QED
    BY <2>3
<1> QED
  BY <1>1, <1>2

\* What a check knows stays true: each step of processLink has it from the one
\* before, and the sources only grow.
LEMMA NextChecks ==
    ASSUME TypeOK, WorkersAreSound, ChecksAreSound, [Next]_vars
    PROVE  ChecksAreSound'
<1> SUFFICES ASSUME NEW v \in Workers, todo'[v] # {} PROVE CheckIsSound(v)'
  BY DEF ChecksAreSound, CheckIsSound
<1>0. ASSUME todo'[v] = todo[v], step'[v] = step[v], found'[v] = found[v],
             stamp'[v] = stamp[v], InHand(v)' = InHand(v),
             Watermark(v)' = Watermark(v)
      PROVE  CheckIsSound(v)'
  <2>1. todo[v] # {} /\ CheckIsSound(v) /\ InHand(v) \in Links
    BY <1>0, HandIsKnown DEF ChecksAreSound
  <2>2. posted[InHand(v)] \subseteq posted'[InHand(v)]
    BY <2>1, PostedGrows
  <2> QED
    BY <1>0, <2>1, <2>2 DEF CheckIsSound
<1>1. ASSUME NEW w \in Workers, WorkerStep(w) PROVE CheckIsSound(v)'
  <2>1. CASE v # w
    BY <1>0, <1>1, <2>1, OthersKeepStill
  <2>2. CASE v = w /\ Released(w)
    <3>1. step'[v] = "fetch"
      BY <1>1, <2>2, WorkerEffect, ReleaseTypes DEF TypeOK
    <3> QED
      BY <3>1 DEF CheckIsSound
  <2>3. CASE v = w /\ Kept /\ KeepsOn(w)
    <3>1. /\ todo[w] # {}
          /\ posted' = posted
          /\ InHand(w)' = InHand(w)
          /\ Watermark(w)' = Watermark(w)
          /\ CheckIsSound(w)
          /\ v = w
      BY <1>1, <2>3, WorkerEffect, KeptIsInHand DEF ChecksAreSound, sources
    <3>2. CASE /\ step[w] \in {"fetch", "comments"}
               /\ step' = [step EXCEPT ![w] = "baseline"]
               /\ Watermark(w) = 0
      BY <3>1, <3>2 DEF CheckIsSound, TypeOK
    <3>3. CASE /\ Kind[InHand(w)] = "stackoverflow"
               /\ step' = [step EXCEPT ![w] = "comments"]
               /\ found'[w] \subseteq posted[InHand(w)]
               /\ \A u \in found'[w] : Watermark(w) < u.at
      BY <3>1, <3>3 DEF CheckIsSound, TypeOK
    <3>4. CASE /\ Watermark(w) # 0
               /\ step'[w] \in {"advance", "subscribers"}
               /\ step'[w] = "advance" => ~OutboxEnabled
               /\ found'[w] \subseteq posted[InHand(w)]
               /\ \A u \in found'[w] : Watermark(w) < u.at /\ u.at <= stamp'[w]
               /\ \E u \in found'[w] : u.at = stamp'[w]
      BY <3>1, <3>4 DEF CheckIsSound
    <3>5. CASE /\ step[w] = "advance"
               /\ step'[w] = "subscribers"
               /\ UNCHANGED <<found, stamp>>
      BY <3>1, <3>5 DEF CheckIsSound
    <3>6. CASE /\ step[w] = "subscribers"
               /\ step'[w] \in (IF OutboxEnabled THEN {"skip", "save"} ELSE {"send"})
               /\ UNCHANGED <<found, stamp>>
      <4>1. \/ OutboxEnabled /\ step'[w] \in {"skip", "save"}
            \/ ~OutboxEnabled /\ step'[w] = "send"
        BY <3>6, OutboxAssumption
      <4> QED
        BY <3>1, <3>6, <4>1 DEF CheckIsSound
    <3>7. CASE /\ step[w] = "send"
               /\ step'[w] = "send"
               /\ \E u \in found[w] : found'[w] = found[w] \ {u}
               /\ UNCHANGED stamp
      BY <3>1, <3>7 DEF CheckIsSound
    <3> QED
      BY <2>3, <3>2, <3>3, <3>4, <3>5, <3>6, <3>7 DEF KeepsOn
  <2> QED
    BY <1>1, <2>1, <2>2, <2>3, WorkerOutcomes
<1>2. ASSUME NEW s \in Scans, StartScan(s) \/ ScanStep(s) PROVE CheckIsSound(v)'
  <2>1. CASE step'[v] = "fetch"
    BY <2>1 DEF CheckIsSound
  <2>2. CASE step'[v] # "fetch"
    BY <1>0, <1>2, <2>2, ScanStepHands
  <2> QED
    BY <2>1, <2>2
<1>3. CASE Environment \/ UNCHANGED vars
  BY <1>0, <1>3, EnvironmentHands DEF workers
<1>4. CASE Crash
  BY <1>4 DEF Crash, CheckIsSound
<1> QED
  BY <1>1, <1>2, <1>3, <1>4 DEF Next

---------------------------------------------------------------------------
(* Scans that overlap. *)

\* Only a page that is read and a post can put something in doubt, and only a
\* page that is read can make a link contested.
LEMMA OverlapWriters ==
    ASSUME [Next]_vars
    PROVE  \/ UNCHANGED overlap
           \/ \E s \in Scans : FetchBatch(s)
           \/ \E l \in Links, f \in Feeds : Post(l, f)
<1>1. ASSUME NEW w \in Workers, WorkerStep(w) PROVE UNCHANGED overlap
  BY <1>1, WorkerEffect
<1>2. ASSUME NEW s \in Scans, StartScan(s) \/ ScanStep(s)
      PROVE  UNCHANGED overlap \/ FetchBatch(s)
  BY <1>2 DEF ScanStep, StartScan, EndScan, AbortScan, JoinWorkers, ClaimReport,
     LookupForReport, SendReport, ReportFails, NextBatch
<1> QED
  BY <1>1, <1>2 DEF Next, Environment, Tick, AddLink, RemoveLink, Crash, vars

\* What is in doubt stays so.
LEMMA DoubtsStay ==
    ASSUME [Next]_vars PROVE doubtful \subseteq doubtful'
<1>1. ASSUME NEW l \in Links, NEW f \in Feeds, Post(l, f)
      PROVE  doubtful \subseteq doubtful'
  BY <1>1 DEF Post
<1>2. ASSUME NEW s \in Scans, FetchBatch(s) PROVE doubtful \subseteq doubtful'
  BY <1>2 DEF FetchBatch
<1> QED
  BY <1>1, <1>2, OverlapWriters DEF overlap

\* A link stays contested as long as one of the goroutines has it: when it is
\* read again, that goroutine is of another scan.
LEMMA ContestsStay ==
    ASSUME TypeOK, WorkersAreSound, [Next]_vars, NEW v \in Workers,
           NEW l \in todo[v], l \in todo'[v], l \in contested
    PROVE  l \in contested'
<1>1. ASSUME NEW s \in Scans, FetchBatch(s) PROVE l \in contested'
  <2>1. v[1] # s
    <3>1. phase[s] = "page" /\ phase[v[1]] = "work"
      BY <1>1 DEF FetchBatch, WorkersAreSound
    <3> QED
      BY <3>1
  <2> DEFINE P == Batch(offset[s])
  <2>2. contested' = (contested \ P) \cup Shared(s, P)
    BY <1>1 DEF FetchBatch
  <2>3. l \in P => l \in Shared(s, P)
    BY <2>1 DEF Shared
  <2> HIDE DEF P
  <2> QED
    BY <2>2, <2>3
<1>2. ASSUME NEW k \in Links, NEW f \in Feeds, Post(k, f) PROVE l \in contested'
  BY <1>2 DEF Post
<1> QED
  BY <1>1, <1>2, OverlapWriters DEF overlap

\* What is posted at a contested link before it is checked is in doubt.
LEMMA DisputedPosts ==
    ASSUME TypeOK, [Next]_vars, NEW v \in Workers, NEW l \in todo[v],
           l \in contested, NEW u \in posted'[l], u \notin posted[l]
    PROVE  <<l, u>> \in doubtful'
<1>1. PICK k \in Links, f \in Feeds : Post(k, f)
  <2>1. ASSUME NEW w \in Workers, WorkerStep(w) PROVE UNCHANGED posted
    BY <2>1, WorkerEffect DEF sources
  <2>2. ASSUME NEW s \in Scans, StartScan(s) \/ ScanStep(s) PROVE UNCHANGED posted
    BY <2>2 DEF ScanStep, StartScan, FetchBatch, EndScan, AbortScan,
       JoinWorkers, ClaimReport, LookupForReport, SendReport, ReportFails,
       NextBatch, sources
  <2> QED
    BY <2>1, <2>2 DEF Next, Environment, Tick, AddLink, RemoveLink, Crash,
       vars, sources
<1>2. PICK n : /\ posted' = [posted EXCEPT ![k] = @ \cup {n}]
               /\ doubtful' = doubtful \cup (({k} \cap Disputed) \X {n})
  BY <1>1 DEF Post
<1>3. k = l /\ u = n
  BY <1>2 DEF TypeOK
<1>4. l \in Disputed
  BY DEF Disputed
<1> QED
  BY <1>2, <1>3, <1>4

\* What a scan that reads a page has in common with others is contested, and
\* what is news at it to either of them is in doubt.
LEMMA FetchBatchOverlaps ==
    ASSUME TypeOK, WorkersAreSound, WorkersAreSound', OverlapsAreSound,
           NEW s \in Scans, FetchBatch(s)
    PROVE  OverlapsAreSound'
<1> DEFINE P == Batch(offset[s])
<1>1. /\ contested' = (contested \ P) \cup Shared(s, P)
      /\ doubtful' = doubtful \cup {d \in Shared(s, P) \X Updates :
                                       d[2] \in NewsOf(d[1])'}
      /\ posted' = posted
      /\ \A w \in Workers : w[1] = s => todo'[w] \subseteq P
      /\ \A w \in Workers : w[1] # s => todo'[w] = todo[w]
      /\ \A w \in Workers : w[1] # s => since'[w[1]] = since[w[1]]
  BY DEF FetchBatch, sources, Chunk, TypeOK, Workers
<1> HIDE DEF P
<1>2. ASSUME NEW v \in Workers, NEW w \in Workers, v # w,
             NEW l \in todo'[v], l \in todo'[w]
      PROVE  l \in contested'
  <2>1. CASE v[1] = s /\ w[1] = s
    BY <1>2, <2>1 DEF WorkersAreSound
  <2>2. CASE v[1] = s /\ w[1] # s
    BY <1>1, <1>2, <2>2 DEF Shared
  <2>3. CASE v[1] # s /\ w[1] = s
    BY <1>1, <1>2, <2>3 DEF Shared
  <2>4. CASE v[1] # s /\ w[1] # s
    <3>1. l \in contested
      BY <1>1, <1>2, <2>4 DEF OverlapsAreSound
    <3>2. l \in P => l \in Shared(s, P)
      BY <1>1, <1>2, <2>4 DEF Shared
    <3> QED
      BY <1>1, <3>1, <3>2
  <2> QED
    BY <2>1, <2>2, <2>3, <2>4
<1>3. ASSUME NEW w \in Workers, NEW l \in todo'[w], l \in contested',
             NEW u \in posted'[l], since'[w[1]][l] < u.at
      PROVE  <<l, u>> \in doubtful'
  <2>1. CASE l \in Shared(s, P)
    <3>1. u \in NewsOf(l)'
      BY <1>3 DEF NewsOf
    <3>2. l \in Links /\ u \in Updates
      <4>1. todo'[w] \subseteq Links
        BY <1>1, BatchIsBounded DEF TypeOK, P
      <4> QED
        BY <1>1, <1>3, <4>1 DEF TypeOK
    <3> DEFINE d == <<l, u>>
    <3>3. d \in Shared(s, P) \X Updates /\ d[1] = l /\ d[2] = u
      BY <2>1, <3>2
    <3> HIDE DEF d
    <3>4. d \in doubtful'
      BY <1>1, <3>1, <3>3
    <3> QED
      BY <3>4 DEF d
  <2>2. CASE l \notin Shared(s, P)
    <3>1. l \in contested /\ l \notin P
      BY <1>1, <1>3, <2>2
    <3>2. w[1] # s
      BY <1>1, <1>3, <3>1
    <3>3. <<l, u>> \in doubtful
      BY <1>1, <1>3, <3>1, <3>2 DEF OverlapsAreSound
    <3> QED
      BY <1>1, <3>3
  <2> QED
    BY <2>1, <2>2
<1> QED
  BY <1>2, <1>3 DEF OverlapsAreSound

\* So every step keeps the account of what scans have in common.
LEMMA NextOverlaps ==
    ASSUME TypeOK, WorkersAreSound, WorkersAreSound', OverlapsAreSound, [Next]_vars
    PROVE  OverlapsAreSound'
<1>1. CASE \E s \in Scans : FetchBatch(s)
  BY <1>1, FetchBatchOverlaps
<1>2. CASE Crash
  BY <1>2 DEF Crash, OverlapsAreSound
<1>3. CASE ~Crash /\ ~(\E s \in Scans : FetchBatch(s))
  <2>1. contested' = contested
    BY <1>3, OverlapWriters DEF overlap, Post
  <2>2. ASSUME NEW v \in Workers, NEW l \in todo'[v]
        PROVE  l \in todo[v] /\ since'[v[1]] = since[v[1]]
    <3>1. ASSUME NEW w \in Workers, WorkerStep(w)
          PROVE  todo'[v] \subseteq todo[v] /\ since' = since
      <4>1. todo[w] # {} /\ since' = since /\ (Kept \/ Released(w))
        BY <3>1, WorkerEffect
      <4>2. Kept => todo' = todo
        BY DEF Kept
      <4>3. Released(w) => todo' = [todo EXCEPT ![w] = @ \ {InHand(w)}]
        BY <4>1, ReleaseTypes
      <4> QED
        BY <4>1, <4>2, <4>3 DEF TypeOK
    <3>2. ASSUME NEW s \in Scans, StartScan(s) \/ ScanStep(s)
          PROVE  todo'[v] = todo[v] /\ since'[v[1]] = since[v[1]]
      BY <1>3, <2>2, <3>2, ScanStepHands
    <3>3. CASE Environment \/ UNCHANGED vars
      BY <3>3, EnvironmentHands DEF workers
    <3> QED
      BY <1>3, <2>2, <3>1, <3>2, <3>3 DEF Next
  <2>3. ASSUME NEW w \in Workers, NEW l \in todo'[w], l \in contested',
               NEW u \in posted'[l], since'[w[1]][l] < u.at
        PROVE  <<l, u>> \in doubtful'
    <3>1. l \in todo[w] /\ l \in contested /\ since[w[1]][l] < u.at
      BY <2>1, <2>2, <2>3
    <3>2. CASE u \in posted[l]
      <4>1. <<l, u>> \in doubtful
        BY <3>1, <3>2 DEF OverlapsAreSound
      <4> QED
        BY <4>1, DoubtsStay
    <3>3. CASE u \notin posted[l]
      BY <3>1, <2>3, <3>3, DisputedPosts
    <3> QED
      BY <3>2, <3>3
  <2> QED
    BY <2>1, <2>2, <2>3 DEF OverlapsAreSound
<1> QED
  BY <1>1, <1>2, <1>3

\* What was handed on beyond doubt is not newer than the watermark that a
\* goroutine goes by at a contested link.
LEMMA HandedIsOlder ==
    ASSUME TypeOK, SourcesAreSound, OverlapsAreSound, NEW w \in Workers,
           NEW l \in todo[w], l \in contested,
           NEW u \in Updates, <<l, u>> \in handed \ doubtful
    PROVE  u.at <= since[w[1]][l]
<1>1. l \in Links /\ w[1] \in Scans
  BY DEF TypeOK, Workers
<1>2. u \in posted[l]
  BY <1>1 DEF SourcesAreSound
<1>3. ~(since[w[1]][l] < u.at)
  BY <1>2 DEF OverlapsAreSound
<1>4. since[w[1]][l] \in Nat /\ u.at \in Nat
  BY <1>1, BoundsAssumption DEF TypeOK, Updates, Time
<1> QED
  BY <1>3, <1>4

\* Two goroutines with one link know that it is contested.
LEMMA SharedIsContested ==
    ASSUME OverlapsAreSound, NEW v \in Workers, NEW w \in Workers, v # w,
           NEW l \in todo[v], l \in todo[w]
    PROVE  l \in contested
BY DEF OverlapsAreSound

---------------------------------------------------------------------------
(* Complete fetches. *)

\* What was handed on, passed over, beyond a page or in doubt stays so.
LEMMA LogGrows ==
    ASSUME TypeOK, [Next]_vars
    PROVE  /\ handed \subseteq handed'
           /\ skipped \subseteq skipped'
           /\ cut \subseteq cut'
           /\ doubtful \subseteq doubtful'
<1>1. ASSUME NEW w \in Workers, WorkerStep(w)
      PROVE  handed \subseteq handed' /\ skipped \subseteq skipped'
  BY <1>1 DEF WorkerStep, Fetch, FetchComments, FetchBroken, Baseline, FirstLook,
     Advance, FindSubscribers, Skip, PassOver, UpdateAckLost, Save, SaveAckLost,
     SaveOutbox, Send, SendAckLost, CallFails, Hand, log
<1>2. ASSUME NEW s \in Scans, StartScan(s) \/ ScanStep(s) PROVE UNCHANGED log
  BY <1>2 DEF ScanStep, StartScan, FetchBatch, EndScan, AbortScan, JoinWorkers,
     ClaimReport, LookupForReport, SendReport, ReportFails, NextBatch
<1>3. ASSUME Environment \/ UNCHANGED vars PROVE UNCHANGED log
  BY <1>3, EnvironmentHands DEF log
<1>4. ASSUME Crash PROVE UNCHANGED log
  BY <1>4 DEF Crash, log
<1>5. /\ handed \subseteq handed'
      /\ skipped \subseteq skipped'
      /\ cut \subseteq cut'
  BY <1>1, <1>2, <1>3, <1>4, CutWriter DEF Next, log
<1>6. doubtful \subseteq doubtful'
  BY DoubtsStay
<1> QED
  BY <1>5, <1>6

\* What a check found is all there is up to its stamp, but for what is beyond
\* the page.
Complete(w) ==
    (todo[w] # {} /\ step[w] \in {"advance", "subscribers", "skip", "save"})
        => \A u \in posted[InHand(w)] :
              Covered(InHand(w), u, Watermark(w), stamp[w])
                  => u \in found[w] \/ <<InHand(w), u>> \in cut

\* The property speaks of one worker at a time.
LEMMA CompleteFetches == FetchIsComplete <=> \A w \in Workers : Complete(w)
BY DEF FetchIsComplete, Complete

\* What is posted where something is already that is not older has the second
\* of it: it is not alone in its second.
LEMMA NewIsNotAlone ==
    ASSUME TypeOK, SourcesAreSound, NEW l \in Links, [Next]_vars,
           NEW u \in posted'[l], u \notin posted[l],
           NEW v \in posted[l], u.at <= v.at
    PROVE  v.at = u.at /\ ~Alone(l, u)'
<1>1. PICK k \in Links, f \in Feeds : Post(k, f)
  <2>1. ASSUME NEW w \in Workers, WorkerStep(w) PROVE UNCHANGED posted
    BY <2>1, WorkerEffect DEF sources
  <2>2. ASSUME NEW s \in Scans, StartScan(s) \/ ScanStep(s) PROVE UNCHANGED posted
    BY <2>2 DEF ScanStep, StartScan, FetchBatch, EndScan, AbortScan,
       JoinWorkers, ClaimReport, LookupForReport, SendReport, ReportFails,
       NextBatch, sources
  <2> QED
    BY <2>1, <2>2 DEF Next, Environment, Tick, AddLink, RemoveLink, Crash,
       vars, sources
<1>2. PICK nr \in 1 .. MaxPerTick :
         posted' = [posted EXCEPT ![k] = @ \cup {[feed |-> f, at |-> clock, nr |-> nr]}]
  BY <1>1 DEF Post
<1>3. u.at = clock
  BY <1>2 DEF TypeOK
<1>4. v.at <= clock /\ v \in posted'[l]
  BY PostedGrows DEF SourcesAreSound
<1>5. v.at = u.at
  <2>1. v.at \in Nat /\ clock \in Nat
    BY BoundsAssumption DEF TypeOK, Updates, Time
  <2> QED
    BY <1>3, <1>4, <2>1
<1> QED
  BY <1>4, <1>5 DEF Alone

\* A new update is not older than the stamp of a check that is under way: it
\* is younger, or it has the second of something that the check found.
LEMMA PostComplete ==
    ASSUME TypeOK, WorkersAreSound, SourcesAreSound, ChecksAreSound,
           NEW l \in Links, NEW f \in Feeds, Post(l, f),
           NEW w \in Workers, Complete(w)
    PROVE  Complete(w)'
<1> PICK h : h = InHand(w)
  OBVIOUS
<1>1. UNCHANGED <<todo, step, found, stamp, cut>>
  BY DEF Post, workers, log
<1>2. InHand(w)' = h /\ Watermark(w)' = Watermark(w)
  BY EnvironmentHands DEF Environment
<1>3. ASSUME todo[w] # {}, step[w] \in {"advance", "subscribers", "skip", "save"},
             NEW u \in posted'[h],
             Promised(h, u), Watermark(w) < u.at,
             u.at < stamp[w] \/ (u.at = stamp[w] /\ Alone(h, u)')
      PROVE  u \in found[w] \/ <<h, u>> \in cut
  <2>1. h \in Links /\ CheckIsSound(w) /\ [Next]_vars
    BY <1>3, HandIsKnown DEF ChecksAreSound, Next, Environment
  <2>2. CASE u \in posted[h]
    <3>1. posted[h] \subseteq posted'[h]
      BY <2>1, PostedGrows
    <3>2. Alone(h, u)' => Alone(h, u)
      BY <3>1 DEF Alone
    <3> QED
      BY <1>3, <2>2, <3>2 DEF Complete, Covered
  <2>3. CASE u \notin posted[h]
    <3>1. PICK v \in posted[h] : v.at = stamp[w]
      BY <1>3, <2>1 DEF CheckIsSound
    <3>2. u.at \in Nat /\ stamp[w] \in Nat
      <4>1. PICK nr : posted' = [posted EXCEPT
                        ![l] = @ \cup {[feed |-> f, at |-> clock, nr |-> nr]}]
        BY DEF Post
      <4>2. u.at = clock
        BY <1>3, <2>1, <2>3, <4>1 DEF TypeOK
      <4> QED
        BY <4>2, BoundsAssumption DEF TypeOK, Time
    <3>3. u.at <= v.at
      BY <1>3, <3>1, <3>2
    <3>4. v.at = u.at /\ ~Alone(h, u)'
      BY <2>1, <2>3, <3>3, NewIsNotAlone
    <3> QED
      BY <1>3, <3>1, <3>2, <3>4
  <2> QED
    BY <2>2, <2>3
<1>4. \A u : Covered(InHand(w), u, Watermark(w), stamp[w])' =>
         /\ Promised(h, u)
         /\ Watermark(w) < u.at
         /\ u.at < stamp[w] \/ (u.at = stamp[w] /\ Alone(h, u)')
  BY <1>1, <1>2 DEF Covered, Promised, Alone
<1> QED
  BY <1>1, <1>2, <1>3, <1>4 DEF Complete

\* What is newer than the watermark in the feed that completes a check is in
\* its page or beyond it.
LEMMA FetchComplete ==
    ASSUME TypeOK, SourcesAreSound, ChecksAreSound,
           NEW w \in Workers, WorkerStep(w), Kept,
           step[w] \in {"fetch", "comments"},
           step'[w] \in {"advance", "subscribers"}
    PROVE  \A u \in posted[InHand(w)] :
              (Watermark(w) < u.at /\ Promised(InHand(w), u))
                 => u \in found'[w] \/ <<InHand(w), u>> \in cut'
<1>1. todo[w] # {} /\ InHand(w) \in Links /\ CheckIsSound(w)
  BY WorkerEffect, HandIsKnown DEF ChecksAreSound
<1>2. ~Released(w)
  <2>1. Released(w) => todo' = [todo EXCEPT ![w] = @ \ {InHand(w)}]
    BY <1>1, ReleaseTypes
  <2>2. InHand(w) \in todo[w]
    BY <1>1, HandIsKnown
  <2> QED
    BY <2>1, <2>2 DEF Kept, TypeOK
<1>3. ASSUME NEW ups, Evaluate(w, ups) PROVE found'[w] = ups /\ Watermark(w) # 0
  <2>1. \/ found' = [found EXCEPT ![w] = ups] /\ Watermark(w) # 0
        \/ step' = [step EXCEPT ![w] = "baseline"]
    BY <1>2, <1>3, EvaluateOutcomes DEF Released
  <2>2. step' # [step EXCEPT ![w] = "baseline"]
    BY DEF TypeOK
  <2> QED
    BY <2>1, <2>2 DEF TypeOK
<1>4. ASSUME NEW f, NEW P \in Pages(InHand(w), f), CutOff(w, f, P),
             NewerThan(P, Watermark(w)) \subseteq found'[w], Watermark(w) # 0,
             NEW u \in posted[InHand(w)], u.feed = f, Watermark(w) < u.at
      PROVE  u \in found'[w] \/ <<InHand(w), u>> \in cut'
  <2>1. CASE u \in P
    <3>1. u.at > Watermark(w)
      BY <1>4
    <3> QED
      BY <1>4, <2>1, <3>1 DEF NewerThan
  <2>2. CASE u \notin P
    BY <1>4, <2>2 DEF CutOff, OfFeed
  <2> QED
    BY <2>1, <2>2
<1>5. Fetch(w) \/ FetchComments(w)
  <2>1. (CHOOSE e \in Errors : TRUE) \in Errors
    BY ErrorsAssumption
  <2> QED
    BY <1>2, <2>1 DEF WorkerStep, Working, FetchBroken, Baseline, Advance,
       FindSubscribers, Skip, UpdateAckLost, Save, SaveAckLost, Send, SendAckLost, CallFails,
       Released
<1>6. CASE Fetch(w)
  <2>1. PICK P \in Pages(InHand(w), FirstFeed(InHand(w))) :
           /\ \/ /\ Kind[InHand(w)] = "github"
                 /\ Evaluate(w, NewerThan(P, Watermark(w)))
              \/ step' = [step EXCEPT ![w] = "comments"]
           /\ CutOff(w, FirstFeed(InHand(w)), P)
    BY <1>6 DEF Fetch, GoOn
  <2>2. step' # [step EXCEPT ![w] = "comments"]
    BY DEF TypeOK
  <2>3. /\ Kind[InHand(w)] = "github"
        /\ found'[w] = NewerThan(P, Watermark(w))
        /\ Watermark(w) # 0
    BY <1>3, <2>1, <2>2
  <2>4. \A u \in posted[InHand(w)] : u.feed = FirstFeed(InHand(w))
    BY <1>1, <2>3 DEF SourcesAreSound, FeedsOf, FirstFeed
  <2> QED
    BY <1>4, <2>1, <2>3, <2>4
<1>7. CASE FetchComments(w)
  <2>1. PICK P \in Pages(InHand(w), "comments") :
           /\ Evaluate(w, found[w] \cup NewerThan(P, Watermark(w)))
           /\ CutOff(w, "comments", P)
    BY <1>7 DEF FetchComments
  <2>2. /\ found'[w] = found[w] \cup NewerThan(P, Watermark(w))
        /\ Watermark(w) # 0
    BY <1>3, <2>1
  <2>3. Kind[InHand(w)] = "stackoverflow"
    BY <1>1, <1>7 DEF CheckIsSound, FetchComments, Working
  <2>4. \A u : Promised(InHand(w), u) => u.feed = "comments"
    BY <2>3 DEF Promised
  <2> QED
    BY <1>4, <2>1, <2>2, <2>4
<1> QED
  BY <1>5, <1>6, <1>7

\* A check stays complete from the fetch to the record.
LEMMA NextFetches ==
    ASSUME TypeOK, WorkersAreSound, SourcesAreSound, ChecksAreSound,
           FetchIsComplete, [Next]_vars
    PROVE  FetchIsComplete'
<1> SUFFICES ASSUME NEW v \in Workers, todo'[v] # {},
                    step'[v] \in {"advance", "subscribers", "skip", "save"}
             PROVE  Complete(v)'
  BY CompleteFetches DEF Complete, FetchIsComplete
<1>0. Complete(v) /\ cut \subseteq cut'
  BY CompleteFetches, LogGrows
<1>1. ASSUME NEW w \in Workers, WorkerStep(w) PROVE Complete(v)'
  <2>0. todo[w] # {} /\ posted' = posted
    BY <1>1, WorkerEffect DEF sources
  <2>1. CASE v # w
    BY <1>0, <1>1, <2>0, <2>1, OthersKeepStill DEF Complete, Covered, Promised, Alone
  <2>2. CASE v = w /\ Released(w)
    BY <2>0, <2>2, ReleaseTypes DEF TypeOK
  <2>3. CASE v = w /\ Kept /\ KeepsOn(w)
    <3>1. InHand(w)' = InHand(w) /\ Watermark(w)' = Watermark(w) /\ v = w
      BY <1>1, <2>3, KeptIsInHand
    <3>2. CASE step[w] \in {"fetch", "comments"}
      <4>1. step'[w] \in {"advance", "subscribers"}
        BY <2>3, <3>2 DEF KeepsOn, TypeOK
      <4> QED
        BY <1>1, <2>0, <2>3, <3>1, <3>2, <4>1, FetchComplete
        DEF Complete, Covered, Promised, Alone
    <3>3. CASE step[w] \notin {"fetch", "comments"}
      <4>1. step[w] \in {"advance", "subscribers"} /\ UNCHANGED <<found, stamp>>
        BY <2>3, <3>1, <3>3 DEF KeepsOn
      <4> QED
        BY <1>0, <2>0, <3>1, <4>1 DEF Complete, Covered, Promised, Alone
    <3> QED
      BY <3>2, <3>3
  <2> QED
    BY <1>1, <2>1, <2>2, <2>3, WorkerOutcomes
<1>2. ASSUME NEW s \in Scans, StartScan(s) \/ ScanStep(s) PROVE Complete(v)'
  BY <1>0, <1>2, ScanStepHands DEF Complete, Covered, Promised, Alone, sources
<1>3. CASE \E l \in Links, f \in Feeds : Post(l, f)
  BY <1>0, <1>3, PostComplete
<1>4. CASE Tick \/ (\E c \in Chats, l \in Links : AddLink(c, l) \/ RemoveLink(c, l))
           \/ UNCHANGED vars
  <2>1. UNCHANGED posted
    BY <1>4 DEF Tick, AddLink, RemoveLink, vars, sources
  <2> QED
    BY <1>0, <1>4, <2>1, EnvironmentHands DEF Complete, Covered, Promised, Alone,
       workers, Environment
<1>5. CASE Crash
  BY <1>5 DEF Crash
<1> QED
  BY <1>1, <1>2, <1>3, <1>4, <1>5 DEF Next, Environment

---------------------------------------------------------------------------
(* Nothing twice, but what is in doubt. *)

\* The page of a feed holds one of its newest updates.
LEMMA PageHoldsNewest ==
    ASSUME TypeOK, NEW l \in Links, NEW f, NEW P \in Pages(l, f),
           NEW u \in OfFeed(l, f)
    PROVE  \E v \in P : u.at <= v.at
<1>1. P \subseteq OfFeed(l, f) /\ OfFeed(l, f) \subseteq Updates
  BY PageIsPosted
<1>2. \A v \in Updates : v.at \in Nat
  BY BoundsAssumption DEF Updates, Time
<1>3. CASE u \in P
  BY <1>1, <1>2, <1>3
<1>4. CASE u \notin P
  <2>1. Cardinality(P) = PerPage /\ \A v \in P : v.at >= u.at
    BY <1>4 DEF Pages
  <2>2. P # {}
    BY <2>1, SizesAssumption, FS_EmptySet
  <2> QED
    BY <1>1, <1>2, <2>1, <2>2
<1> QED
  BY <1>3, <1>4

\* With the zero watermark the client drops nothing.
LEMMA FirstLookHoldsNewest ==
    ASSUME TypeOK, NEW l \in Links, NEW f, NEW P \in Pages(l, f),
           NEW u \in OfFeed(l, f)
    PROVE  \E v \in NewerThan(P, 0) : v \in Updates /\ u.at <= v.at
<1>1. PICK v \in P : u.at <= v.at
  BY PageHoldsNewest
<1>2. v \in Updates
  BY PageIsPosted
<1>3. v.at > 0
  BY <1>2, BoundsAssumption DEF Updates, Time
<1> QED
  BY <1>1, <1>2, <1>3 DEF NewerThan

\* A worker cannot keep its link and release it.
LEMMA KeptIsNotReleased ==
    ASSUME TypeOK, NEW w \in Workers, WorkerStep(w), Kept
    PROVE  ~Released(w)
<1>1. todo[w] # {}
  BY WorkerEffect
<1>2. Released(w) => todo' = [todo EXCEPT ![w] = @ \ {InHand(w)}]
  BY <1>1, ReleaseTypes
<1>3. InHand(w) \in todo[w]
  BY <1>1, HandIsKnown
<1> QED
  BY <1>2, <1>3 DEF Kept, TypeOK

\* The step a kept link is at tells which request was made.
LEMMA FetchingSteps ==
    ASSUME TypeOK, NEW w \in Workers, WorkerStep(w), Kept
    PROVE  /\ step[w] = "fetch" => Fetch(w)
           /\ step[w] = "comments" => FetchComments(w)
<1>1. (CHOOSE e \in Errors : TRUE) \in Errors
  BY ErrorsAssumption
<1>2. ~Released(w)
  BY KeptIsNotReleased
<1> QED
  BY <1>1, <1>2 DEF WorkerStep, Working, Fetch, FetchComments, FetchBroken,
     Baseline, Advance, FindSubscribers, Skip, UpdateAckLost, Save, SaveAckLost, Send,
     SendAckLost, CallFails, Released

\* The first watermark of a link is not older than anything that is among
\* the newest of the page, so not older than any update that existed.
LEMMA BaselineStamp ==
    ASSUME TypeOK, NEW w \in Workers, todo[w] # {}, NEW ups \in SUBSET Updates,
           Evaluate(w, ups), step'[w] = "baseline",
           Kept, ~Released(w), NEW v \in ups
    PROVE  v.at <= stamp'[w]
<1>1. /\ Newest(w, ups) \in Nat
      /\ v.at <= Newest(w, ups)
      /\ v.at \in Nat \ {0}
  BY NewestIsLatest, BoundsAssumption DEF Time, Updates
<1>2. stamp' = [stamp EXCEPT ![w] = IF Newest(w, ups) = 0
                                      THEN clock ELSE Newest(w, ups)]
  <2>1. ~(step' = [step EXCEPT ![w] =
                     IF ~OutboxEnabled /\ Newest(w, ups) > Watermark(w)
                     THEN "advance" ELSE "subscribers"])
    BY DEF TypeOK
  <2> QED
    BY <2>1, EvaluateOutcomes DEF Released
<1>3. stamp'[w] = Newest(w, ups)
  BY <1>1, <1>2 DEF TypeOK
<1> QED
  BY <1>1, <1>3

\* So the watermark of a first look at a link that is not contested is past
\* all that was handed on before.
LEMMA BaselineCovers ==
    ASSUME TypeOK, SourcesAreSound, ChecksAreSound, NEW w \in Workers,
           HandIsSound(w), WorkerStep(w), Kept, InHand(w) \notin contested,
           step[w] \in {"fetch", "comments"}, step'[w] = "baseline",
           Watermark(w) = 0,
           NEW u \in Updates, <<InHand(w), u>> \in handed \ doubtful
    PROVE  u.at <= stamp'[w]
<1> DEFINE l == InHand(w)
<1>1. todo[w] # {} /\ l \in Links /\ CheckIsSound(w) /\ ~Released(w)
  BY WorkerEffect, HandIsKnown, KeptIsNotReleased DEF ChecksAreSound
<1>2. u \in posted[l] /\ u.feed \in FeedsOf(l) /\ posted[l] \subseteq Updates
  BY <1>1 DEF SourcesAreSound, TypeOK
<1>3. stamp'[w] \in Nat /\ u.at \in Nat
  BY BoundsAssumption, WorkerOwnTypes DEF Updates, Time
<1>4. SUFFICES \E v \in Updates : u.at <= v.at /\ v.at <= stamp'[w]
  BY <1>3, BoundsAssumption DEF Updates, Time
<1>5. CASE step[w] = "fetch"
  <2>1. PICK P \in Pages(l, FirstFeed(l)) :
           \/ Kind[l] = "github" /\ Evaluate(w, NewerThan(P, 0))
           \/ GoOn(w, "comments")
    BY <1>5, FetchingSteps DEF Fetch
  <2>2. ~GoOn(w, "comments")
    BY DEF GoOn, TypeOK
  <2>3. Kind[l] = "github" /\ Evaluate(w, NewerThan(P, 0)) /\ P \in Pages(l, "issues")
    BY <2>1, <2>2 DEF FirstFeed
  <2>4. u \in OfFeed(l, "issues")
    BY <1>2, <2>3 DEF FeedsOf, OfFeed
  <2>5. PICK v \in NewerThan(P, 0) : v \in Updates /\ u.at <= v.at
    BY <1>1, <2>3, <2>4, FirstLookHoldsNewest
  <2>6. NewerThan(P, 0) \in SUBSET Updates
    BY <1>1, <2>3, PageIsPosted
  <2>7. v.at <= stamp'[w]
    BY <1>1, <2>3, <2>5, <2>6, BaselineStamp
  <2> QED
    BY <2>5, <2>7
<1>6. CASE step[w] = "comments"
  <2>1. PICK P \in Pages(l, "comments") : Evaluate(w, found[w] \cup NewerThan(P, 0))
    BY <1>6, FetchingSteps DEF FetchComments
  <2> DEFINE ups == found[w] \cup NewerThan(P, 0)
  <2>2. ups \in SUBSET Updates
    BY <1>1, PageIsPosted DEF TypeOK
  <2>3. PICK v \in ups : u.at <= v.at
    <3>1. Kind[l] = "stackoverflow"
      BY <1>1, <1>6 DEF CheckIsSound
    <3>2. CASE u.feed = "answers"
      BY <1>1, <1>6, <3>2 DEF HandIsSound
    <3>3. CASE u.feed = "comments"
      <4>1. u \in OfFeed(l, "comments")
        BY <1>2, <3>3 DEF OfFeed
      <4> QED
        BY <1>1, <4>1, FirstLookHoldsNewest
    <3> QED
      BY <1>2, <3>1, <3>2, <3>3 DEF FeedsOf
  <2> HIDE DEF ups
  <2>4. Evaluate(w, ups)
    BY <2>1 DEF ups
  <2>5. v.at <= stamp'[w]
    BY <1>1, <2>2, <2>3, <2>4, BaselineStamp
  <2> QED
    BY <2>2, <2>3, <2>5
<1> QED
  BY <1>5, <1>6

\* The answers a first look found are not older than those handed on before.
LEMMA CommentsCover ==
    ASSUME TypeOK, SourcesAreSound, NEW w \in Workers, WorkerStep(w), Kept,
           step[w] = "fetch", step'[w] = "comments", Watermark(w) = 0,
           NEW u \in Updates, <<InHand(w), u>> \in handed, u.feed = "answers"
    PROVE  \E v \in found'[w] : u.at <= v.at
<1> DEFINE l == InHand(w)
<1>1. todo[w] # {} /\ l \in Links /\ ~Released(w)
  BY WorkerEffect, HandIsKnown, KeptIsNotReleased
<1>2. PICK P \in Pages(l, FirstFeed(l)) :
         \/ Evaluate(w, NewerThan(P, 0))
         \/ /\ Kind[l] = "stackoverflow"
            /\ found' = [found EXCEPT ![w] = NewerThan(P, 0)]
  BY FetchingSteps DEF Fetch
<1>3. ~Evaluate(w, NewerThan(P, 0))
  BY <1>1, EvaluateOutcomes DEF Released, TypeOK
<1>4. Kind[l] = "stackoverflow" /\ found'[w] = NewerThan(P, 0) /\ P \in Pages(l, "answers")
  BY <1>2, <1>3 DEF FirstFeed, TypeOK
<1>5. u \in OfFeed(l, "answers")
  BY <1>1 DEF SourcesAreSound, OfFeed
<1> QED
  BY <1>1, <1>4, <1>5, FirstLookHoldsNewest

\* A worker writes about the link in its hand only.
LEMMA OnlyTheHand ==
    ASSUME TypeOK, ChecksAreSound, NEW w \in Workers, WorkerStep(w),
           NEW k \in Links, k # InHand(w)
    PROVE  /\ lastUpdated'[k] = lastUpdated[k]
           /\ \A u : <<k, u>> \in handed' <=> <<k, u>> \in handed
<1>1. \A u : <<k, u>> \in handed' <=> <<k, u>> \in handed
  BY HandedIsFound
<1>2. \/ UNCHANGED lastUpdated
      \/ lastUpdated' = [lastUpdated EXCEPT ![InHand(w)] = stamp[w]]
  BY WorkerOutcomes DEF KeepsOn, Writes, SaveOutbox, UpdateLastUpdated, registry
<1> QED
  BY <1>1, <1>2 DEF TypeOK

\* What a worker hands on has not been handed on, or it is in doubt.
LEMMA HandedIsNew ==
    ASSUME TypeOK, SourcesAreSound, ChecksAreSound, OverlapsAreSound,
           HandsAreSound, NEW w \in Workers, todo[w] # {},
           step[w] \in {"save", "send"}, NEW u \in found[w]
    PROVE  <<InHand(w), u>> \notin handed \ doubtful
<1>1. InHand(w) \in todo[w] /\ CheckIsSound(w) /\ HandIsSound(w) /\ u \in Updates
  BY HandIsKnown DEF ChecksAreSound, HandsAreSound, TypeOK
<1>2. /\ Watermark(w) # 0 /\ Watermark(w) < u.at
      /\ Watermark(w) = since[w[1]][InHand(w)]
      /\ Watermark(w) \in Nat /\ u.at \in Nat
  BY <1>1, HandIsKnown, BoundsAssumption DEF CheckIsSound, Updates, Time
<1>3. CASE InHand(w) \in contested
  <2>1. <<InHand(w), u>> \in handed \ doubtful => u.at <= Watermark(w)
    BY <1>1, <1>2, <1>3, HandedIsOlder
  <2> QED
    BY <1>2, <2>1
<1>4. CASE InHand(w) \notin contested /\ step[w] = "save"
  <2>1. WatermarkIsKnown(w, InHand(w))
    BY <1>1, <1>4 DEF HandsAreSound, Advanced
  <2> QED
    BY <1>1, <1>2, <2>1 DEF WatermarkIsKnown
<1>5. CASE InHand(w) \notin contested /\ step[w] = "send"
  BY <1>1, <1>5 DEF CheckIsSound, HandIsSound, Advanced
<1> QED
  BY <1>3, <1>4, <1>5

\* So no step of a worker hands on an update again that is not in doubt.
LEMMA WorkerStepOnce ==
    ASSUME TypeOK, SourcesAreSound, ChecksAreSound, OverlapsAreSound,
           HandsAreSound, NEW w \in Workers, WorkerStep(w)
    PROVE  AtMostOnce'
<1>1. todo[w] # {} /\ doubtful' = doubtful
  BY WorkerEffect DEF overlap
<1>2. ASSUME NEW ups \in SUBSET found[w], step[w] \in {"save", "send"},
             Hand(InHand(w), ups)
      PROVE  handedTwice' \subseteq handedTwice \cup doubtful
  <2>1. \A u \in ups : <<InHand(w), u>> \notin handed \ doubtful
    BY <1>1, <1>2, HandedIsNew
  <2> QED
    BY <1>2, <2>1 DEF Hand
<1>3. handedTwice' \subseteq handedTwice \cup doubtful
  <2>1. ASSUME NEW u \in found[w], step[w] = "send", Hand(InHand(w), {u})
        PROVE  handedTwice' \subseteq handedTwice \cup doubtful
    <3>1. {u} \in SUBSET found[w]
      OBVIOUS
    <3> QED
      BY <1>2, <2>1, <3>1
  <2>2. ASSUME step[w] = "save", SaveOutbox(w)
        PROVE  handedTwice' \subseteq handedTwice \cup doubtful
    BY <1>2, <2>2 DEF SaveOutbox
  <2> QED
    BY <2>1, <2>2, WorkerOutcomes DEF KeepsOn, Writes
<1> QED
  BY <1>1, <1>3 DEF HandsAreSound, AtMostOnce

\* What a worker writes to the table, if anything, is its stamp, and the stamp
\* is not older than the watermark it went by.
LEMMA StampIsWritten ==
    ASSUME TypeOK, ChecksAreSound, NEW w \in Workers, WorkerStep(w)
    PROVE  \/ UNCHANGED lastUpdated
           \/ /\ lastUpdated' = [lastUpdated EXCEPT ![InHand(w)] = stamp[w]]
              /\ step[w] \in {"baseline", "advance", "skip", "save"}
              /\ Watermark(w) <= stamp[w]
<1>1. /\ todo[w] # {} /\ CheckIsSound(w)
      /\ stamp[w] \in Nat /\ Watermark(w) \in Nat
  BY WorkerEffect, HandIsKnown, BoundsAssumption DEF ChecksAreSound, TypeOK, Time
<1>2. \/ UNCHANGED lastUpdated
      \/ /\ lastUpdated' = [lastUpdated EXCEPT ![InHand(w)] = stamp[w]]
         /\ step[w] \in {"baseline", "advance", "skip", "save"}
  BY WorkerOutcomes DEF KeepsOn, Writes, SaveOutbox, UpdateLastUpdated, registry
<1>3. step[w] \in {"baseline", "advance", "skip", "save"} => Watermark(w) <= stamp[w]
  <2>1. CASE step[w] = "baseline"
    BY <1>1, <2>1 DEF CheckIsSound
  <2>2. CASE step[w] \in {"advance", "skip", "save"}
    BY <1>1, <2>2 DEF CheckIsSound
  <2> QED
    BY <2>1, <2>2
<1> QED
  BY <1>2, <1>3

\* The new watermark is not older than what was handed on before and now.
LEMMA WorkerStepOld ==
    ASSUME TypeOK, SourcesAreSound, ChecksAreSound, OverlapsAreSound,
           HandsAreSound, NEW w \in Workers, WorkerStep(w)
    PROVE  HandedIsOld'
<1> SUFFICES ASSUME NEW l \in Links, NEW u \in Updates,
                    <<l, u>> \in handed', <<l, u>> \notin doubtful,
                    lastUpdated'[l] # 0
             PROVE  u.at <= lastUpdated'[l]
  BY WorkerEffect DEF HandedIsOld, overlap
<1>1. /\ todo[w] # {}
      /\ InHand(w) \in todo[w]
      /\ InHand(w) \in Links
      /\ CheckIsSound(w)
      /\ HandIsSound(w)
  BY WorkerEffect, HandIsKnown DEF ChecksAreSound, HandsAreSound
<1>2. CASE l # InHand(w)
  BY <1>2, OnlyTheHand DEF HandsAreSound, HandedIsOld
<1>4. CASE l = InHand(w) /\ l \in contested
  <2>1. <<l, u>> \in handed
    <3>1. u \in found[w] /\ step[w] \in {"save", "send"} =>
             /\ Watermark(w) < u.at
             /\ u \in posted[l]
      BY <1>1, <1>4 DEF CheckIsSound
    <3>2. u \in posted[l] /\ Watermark(w) < u.at => <<l, u>> \in doubtful
      BY <1>1, <1>4, HandIsKnown DEF OverlapsAreSound
    <3> QED
      BY <1>4, <3>1, <3>2, HandedIsFound
  <2>2. u.at <= Watermark(w)
    BY <1>1, <1>4, <2>1, HandIsKnown, HandedIsOlder
  <2>3. u.at \in Nat /\ stamp[w] \in Nat /\ Watermark(w) \in Nat
    BY <1>1, HandIsKnown, BoundsAssumption DEF TypeOK, Updates, Time
  <2>4. UNCHANGED lastUpdated \/ (lastUpdated'[l] = stamp[w] /\ Watermark(w) <= stamp[w])
    BY <1>1, <1>4, StampIsWritten DEF TypeOK
  <2> QED
    BY <2>1, <2>2, <2>3, <2>4 DEF HandsAreSound, HandedIsOld
<1>3. CASE l = InHand(w) /\ l \notin contested
  <2>1. /\ u.at \in Nat /\ stamp[w] \in Nat /\ Watermark(w) \in Nat
        /\ lastUpdated[l] \in Nat
        /\ \A v \in found[w] : v.at \in Nat
    BY <1>1, HandIsKnown, BoundsAssumption DEF TypeOK, Updates, Time
  <2>2. <<l, u>> \in handed \/ (u \in found[w] /\ step[w] \in {"save", "send"})
    BY <1>3, HandedIsFound
  <2>3. CASE step[w] \in {"advance", "skip", "save"}
    <3>1. ~Advanced(w) /\ Watermark(w) # 0
      BY <1>1, <2>3 DEF Advanced, CheckIsSound
    <3>2. WatermarkIsKnown(w, l)
      BY <1>1, <1>3, <3>1 DEF HandsAreSound
    <3>3. PICK v \in found[w] : v.at = stamp[w] /\ Watermark(w) < v.at
      BY <1>1, <2>3 DEF CheckIsSound
    <3>4. u.at <= stamp[w]
      <4>1. CASE <<l, u>> \in handed
        BY <1>3, <2>1, <3>1, <3>2, <3>3, <4>1 DEF WatermarkIsKnown, Watermark
      <4>2. CASE u \in found[w]
        BY <1>1, <2>3, <4>2 DEF CheckIsSound
      <4> QED
        BY <2>2, <4>1, <4>2
    <3>5. lastUpdated'[l] = stamp[w] \/ (UNCHANGED <<lastUpdated, handed>>)
      <4>1. stamp[w] > Watermark(w)
        BY <2>1, <3>3
      <4>2. SaveOutbox(w) => lastUpdated' = [lastUpdated EXCEPT ![l] = stamp[w]]
        BY <1>3, <4>1 DEF SaveOutbox, UpdateLastUpdated
      <4>3. \/ lastUpdated' = [lastUpdated EXCEPT ![l] = stamp[w]]
            \/ UNCHANGED <<lastUpdated, handed>>
        BY <1>3, <2>3, <4>2, WorkerOutcomes DEF KeepsOn, Writes
      <4> QED
        BY <1>1, <1>3, <4>3 DEF TypeOK
    <3> QED
      BY <3>4, <3>5 DEF HandsAreSound, HandedIsOld
  <2>4. CASE step[w] = "baseline"
    <3>1. <<l, u>> \in handed /\ u.at <= stamp[w]
      BY <1>1, <1>3, <2>2, <2>4 DEF HandIsSound
    <3>2. lastUpdated'[l] = stamp[w] \/ UNCHANGED lastUpdated
      BY <1>1, <1>3, <2>4, WorkerOutcomes DEF KeepsOn, Writes, TypeOK
    <3> QED
      BY <3>1, <3>2 DEF HandsAreSound, HandedIsOld
  <2>5. CASE step[w] \notin {"advance", "skip", "save", "baseline"}
    <3>1. UNCHANGED lastUpdated
      BY <2>5, WorkerOutcomes DEF KeepsOn, Writes
    <3>2. CASE <<l, u>> \in handed
      BY <3>1, <3>2 DEF HandsAreSound, HandedIsOld
    <3>3. CASE u \in found[w] /\ step[w] = "send"
      <4>1. lastUpdated[l] \in {0, stamp[w]} /\ u.at <= stamp[w]
        BY <1>1, <1>3, <3>3 DEF CheckIsSound, HandIsSound, Advanced
      <4> QED
        BY <3>1, <4>1
    <3> QED
      BY <2>2, <2>5, <3>2, <3>3
  <2> QED
    BY <2>3, <2>4, <2>5
<1> QED
  BY <1>2, <1>3, <1>4

\* The watermarks of the links that are still to be checked stay known.
LEMMA WorkerStepKnown ==
    ASSUME TypeOK, ChecksAreSound, OverlapsAreSound, HandsAreSound,
           NEW w \in Workers, WorkerStep(w), NEW v \in Workers,
           NEW l \in todo'[v] \ contested', l # InHand(v)' \/ ~Advanced(v)'
    PROVE  WatermarkIsKnown(v, l)'
<1>1. /\ todo[w] # {}
      /\ InHand(w) \in todo[w]
      /\ CheckIsSound(w)
      /\ UNCHANGED <<since, contested, doubtful>>
      /\ Kept \/ Released(w)
  BY WorkerEffect, HandIsKnown DEF ChecksAreSound, overlap
<1>2. Released(w) => todo' = [todo EXCEPT ![w] = @ \ {InHand(w)}]
  BY <1>1, ReleaseTypes
<1>3. l \in todo[v] /\ l \in Links /\ l \notin contested
  <2>1. todo[v] \in SUBSET Links
    BY DEF TypeOK
  <2>2. Kept => todo' = todo
    BY DEF Kept
  <2>3. Released(w) => todo'[v] \subseteq todo[v]
    <3>1. v \in DOMAIN todo
      BY DEF TypeOK
    <3>2. Released(w) => todo'[v] = IF v = w THEN todo[w] \ {InHand(w)} ELSE todo[v]
      BY <1>2, <3>1
    <3> QED
      BY <3>2
  <2> QED
    BY <1>1, <2>1, <2>2, <2>3 DEF overlap
<1>4. CASE l # InHand(w)
  <2>1. lastUpdated'[l] = lastUpdated[l] /\ \A u : <<l, u>> \in handed' <=> <<l, u>> \in handed
    BY <1>3, <1>4, OnlyTheHand
  <2>2. l # InHand(v) \/ ~Advanced(v)
    <3>1. CASE v = w
      BY <1>4, <3>1
    <3>2. CASE v # w
      BY <3>2, OthersKeepStill DEF Advanced
    <3> QED
      BY <3>1, <3>2
  <2>3. WatermarkIsKnown(v, l)
    BY <1>3, <2>2 DEF HandsAreSound
  <2> QED
    BY <1>1, <2>1, <2>3 DEF WatermarkIsKnown
<1>5. CASE l = InHand(w)
  <2>1. v = w
    BY <1>1, <1>3, <1>5, SharedIsContested
  <2>2. Kept /\ KeepsOn(w)
    <3>1. ~Released(w)
      BY <1>2, <1>5, <2>1 DEF TypeOK
    <3> QED
      BY <3>1, WorkerOutcomes
  <2>3. InHand(v)' = l
    BY <1>5, <2>1, <2>2, KeptIsInHand
  <2>4. ~Advanced(w)'
    BY <2>1, <2>3
  <2>5. ~Advanced(w) /\ UNCHANGED <<lastUpdated, handed>>
    BY <1>1, <2>2, <2>4 DEF KeepsOn, Advanced, CheckIsSound
  <2>6. WatermarkIsKnown(v, l)
    BY <1>3, <2>1, <2>5 DEF HandsAreSound
  <2> QED
    BY <1>1, <2>5, <2>6 DEF WatermarkIsKnown
<1> QED
  BY <1>4, <1>5

\* What is left to do with the link in hand stays sound.
LEMMA WorkerStepHand ==
    ASSUME TypeOK, SourcesAreSound, ChecksAreSound, OverlapsAreSound,
           HandsAreSound, NEW w \in Workers, WorkerStep(w), NEW v \in Workers
    PROVE  HandIsSound(v)'
<1>1. /\ todo[w] # {}
      /\ InHand(w) \in todo[w]
      /\ InHand(w) \in Links
      /\ CheckIsSound(w)
      /\ HandIsSound(w)
      /\ HandIsSound(v)
      /\ UNCHANGED <<contested, doubtful>>
  BY WorkerEffect, HandIsKnown DEF ChecksAreSound, HandsAreSound, overlap
<1>2. CASE v # w
  <2>1. /\ todo'[v] = todo[v]
        /\ step'[v] = step[v]
        /\ found'[v] = found[v]
        /\ stamp'[v] = stamp[v]
        /\ InHand(v)' = InHand(v)
        /\ Watermark(v)' = Watermark(v)
    BY <1>2, OthersKeepStill
  <2>2. SUFFICES ASSUME todo[v] # {}, InHand(v) \notin contested
                 PROVE  HandIsSound(v)'
    BY <1>1, <2>1 DEF HandIsSound
  <2>3. InHand(v) \in todo[v] /\ InHand(v) \in Links
    BY <2>2, HandIsKnown
  <2>4. InHand(v) # InHand(w)
    BY <1>1, <1>2, <2>2, <2>3, SharedIsContested
  <2>5. /\ lastUpdated'[InHand(v)] = lastUpdated[InHand(v)]
        /\ \A u : <<InHand(v), u>> \in handed' <=> <<InHand(v), u>> \in handed
    BY <2>3, <2>4, OnlyTheHand
  <2> QED
    BY <1>1, <2>1, <2>2, <2>5 DEF HandIsSound, Advanced
<1>3. CASE v = w /\ Released(w)
  <2>1. step'[v] = "fetch"
    BY <1>1, <1>3, ReleaseTypes DEF TypeOK
  <2> QED
    BY <2>1 DEF HandIsSound, Advanced
<1>5. CASE v = w /\ Kept /\ InHand(w) \in contested
  <2>1. InHand(v)' \in contested'
    BY <1>1, <1>5, KeptIsInHand
  <2> QED
    BY <2>1 DEF HandIsSound
<1>4. CASE v = w /\ Kept /\ KeepsOn(w) /\ InHand(w) \notin contested
  <2>1. /\ v = w
        /\ InHand(w)' = InHand(w)
        /\ Watermark(w)' = Watermark(w)
    BY <1>4, KeptIsInHand
  <2>2. CASE step'[w] = "baseline"
    <3>1. step[w] \in {"fetch", "comments"} /\ Watermark(w) = 0 /\ UNCHANGED handed
      BY <1>4, <2>2 DEF KeepsOn, TypeOK
    <3>2. \A u \in Updates :
             <<InHand(w), u>> \in handed \ doubtful => u.at <= stamp'[w]
      BY <1>1, <1>4, <2>2, <3>1, BaselineCovers
    <3> QED
      BY <1>1, <2>1, <2>2, <3>1, <3>2 DEF HandIsSound, Advanced
  <2>3. CASE step'[w] = "comments"
    <3>1. step[w] = "fetch" /\ UNCHANGED handed
      BY <1>4, <2>3 DEF KeepsOn, TypeOK
    <3> QED
      BY <1>1, <1>4, <2>1, <2>3, <3>1, CommentsCover DEF HandIsSound, Advanced
  <2>4. CASE step[w] = "advance" /\ step'[w] = "subscribers"
    <3>1. /\ lastUpdated' = [lastUpdated EXCEPT ![InHand(w)] = stamp[w]]
          /\ UNCHANGED <<found, stamp, handed>>
      BY <1>4, <2>4 DEF KeepsOn, TypeOK
    <3>2. lastUpdated'[InHand(w)] = stamp[w]
      BY <1>1, <3>1 DEF TypeOK
    <3>3. ASSUME NEW u \in found[w] PROVE <<InHand(w), u>> \notin handed \ doubtful
      <4>1. Watermark(w) # 0 /\ Watermark(w) < u.at /\ u \in Updates
        BY <1>1, <2>4 DEF CheckIsSound, TypeOK
      <4>2. WatermarkIsKnown(w, InHand(w))
        BY <1>1, <1>4, <2>4 DEF HandsAreSound, Advanced
      <4>3. Watermark(w) \in Nat /\ u.at \in Nat
        BY <1>1, <4>1, HandIsKnown, BoundsAssumption DEF Updates, Time
      <4> QED
        BY <4>1, <4>2, <4>3 DEF WatermarkIsKnown, Watermark
    <3> QED
      BY <1>1, <2>1, <2>4, <3>1, <3>2, <3>3 DEF HandIsSound, Advanced
  <2>5. CASE step[w] = "subscribers"
    <3>1. /\ step'[w] \in (IF OutboxEnabled THEN {"skip", "save"} ELSE {"send"})
          /\ UNCHANGED <<found, stamp, lastUpdated, handed>>
      BY <1>4, <2>5 DEF KeepsOn
    <3>2. \/ OutboxEnabled /\ step'[w] \in {"skip", "save"}
          \/ ~OutboxEnabled /\ step'[w] = "send"
      BY <3>1, OutboxAssumption
    <3> QED
      BY <1>1, <1>4, <2>1, <2>5, <3>1, <3>2 DEF HandIsSound, Advanced
  <2>6. CASE step[w] = "send"
    <3>1. PICK u \in found[w] : /\ Hand(InHand(w), {u})
                                /\ found'[w] = found[w] \ {u}
      BY <1>4, <2>6 DEF KeepsOn
    <3>2. step'[w] = "send" /\ UNCHANGED <<stamp, lastUpdated>> /\ ~OutboxEnabled
      BY <1>1, <1>4, <2>6 DEF KeepsOn, CheckIsSound
    <3>3. handed' = handed \cup ({InHand(w)} \X {u})
      BY <3>1 DEF Hand
    <3>4. \A x \in found'[w] : <<InHand(w), x>> \notin handed' \ doubtful
      BY <1>1, <1>4, <2>6, <3>1, <3>2, <3>3 DEF HandIsSound, Advanced
    <3> QED
      BY <1>1, <1>4, <2>1, <2>6, <3>2, <3>4 DEF HandIsSound, Advanced
  <2>7. CASE /\ step'[w] \in {"advance", "subscribers"}
             /\ step'[w] = "subscribers" => OutboxEnabled
    BY <2>1, <2>7 DEF HandIsSound, Advanced
  <2> QED
    BY <1>4, <2>2, <2>3, <2>4, <2>5, <2>6, <2>7 DEF KeepsOn, TypeOK
<1> QED
  BY <1>2, <1>3, <1>4, <1>5, WorkerOutcomes

\* So no step hands on an update twice, nor leaves a watermark behind what was
\* handed on, but what is in doubt.
LEMMA NextHands ==
    ASSUME TypeOK, WorkersAreSound, SourcesAreSound, ChecksAreSound,
           OverlapsAreSound, HandsAreSound, [Next]_vars
    PROVE  HandsAreSound'
<1>0. doubtful \subseteq doubtful'
  BY DoubtsStay
<1>1. ASSUME NEW w \in Workers, WorkerStep(w) PROVE HandsAreSound'
  BY <1>1, WorkerStepOnce, WorkerStepOld, WorkerStepKnown, WorkerStepHand
  DEF HandsAreSound
<1>2. ASSUME NEW s \in Scans, StartScan(s) \/ ScanStep(s) PROVE HandsAreSound'
  <2>1. UNCHANGED <<registry, log, step, found, stamp>>
    BY <1>2 DEF ScanStep, StartScan, FetchBatch, EndScan, AbortScan,
       JoinWorkers, ClaimReport, LookupForReport, SendReport, ReportFails,
       NextBatch, workers
  <2>2. AtMostOnce' /\ HandedIsOld'
    BY <1>0, <2>1 DEF HandsAreSound, AtMostOnce, HandedIsOld, registry, log
  <2>3. ASSUME NEW v \in Workers, NEW l \in todo'[v] \ contested',
               l # InHand(v)' \/ ~Advanced(v)'
        PROVE  WatermarkIsKnown(v, l)'
    <3>1. CASE FetchBatch(s) /\ v[1] = s
      <4>1. l \in Batch(offset[s])
        BY <3>1 DEF FetchBatch, Chunk
      <4>2. l \in Links
        BY <4>1 DEF Batch, Tracked
      <4>3. since'[v[1]][l] = lastUpdated[l]
        BY <3>1, <4>1, <4>2 DEF FetchBatch, TypeOK
      <4> QED
        BY <1>0, <2>1, <4>2, <4>3
        DEF HandsAreSound, HandedIsOld, WatermarkIsKnown, registry, log
    <3>2. CASE ~(FetchBatch(s) /\ v[1] = s)
      <4>1. /\ todo'[v] = todo[v]
            /\ since'[v[1]] = since[v[1]]
            /\ InHand(v)' = InHand(v)
        BY <1>2, <2>3, <3>2, ScanStepHands
      <4>2. l \notin contested
        BY <1>2, <2>3, <4>1, ContestsStay DEF Next
      <4>3. WatermarkIsKnown(v, l)
        BY <2>1, <2>3, <4>1, <4>2 DEF HandsAreSound, Advanced
      <4> QED
        BY <1>0, <2>1, <4>1, <4>3 DEF WatermarkIsKnown, registry, log
    <3> QED
      BY <3>1, <3>2
  <2>4. ASSUME NEW v \in Workers PROVE HandIsSound(v)'
    <3>1. CASE todo'[v] = {} \/ step'[v] = "fetch"
      BY <3>1 DEF HandIsSound, Advanced
    <3>2. CASE todo'[v] # {} /\ step'[v] # "fetch"
      <4>1. /\ todo'[v] = todo[v]
            /\ InHand(v)' = InHand(v)
            /\ Watermark(v)' = Watermark(v)
        BY <1>2, <2>1, <3>2, ScanStepHands
      <4>2. InHand(v) \in contested => InHand(v) \in contested'
        BY <1>2, <3>2, <4>1, HandIsKnown, ContestsStay DEF Next
      <4> QED
        BY <1>0, <2>1, <3>2, <4>1, <4>2
        DEF HandsAreSound, HandIsSound, Advanced, registry, log
    <3> QED
      BY <3>1, <3>2
  <2> QED
    BY <2>2, <2>3, <2>4 DEF HandsAreSound
<1>3. CASE Environment \/ UNCHANGED vars
  <2>1. UNCHANGED <<todo, step, found, stamp, since, handed, handedTwice, contested>>
    <3>1. UNCHANGED contested
      BY <1>3 DEF Environment, Tick, Post, AddLink, RemoveLink, overlap, vars
    <3> QED
      BY <1>3, <3>1, EnvironmentHands DEF workers, log
  <2>2. \A w : InHand(w)' = InHand(w) /\ Watermark(w)' = Watermark(w)
    BY <1>3, EnvironmentHands
  <2>3. \A l \in Links : lastUpdated'[l] \in {0, lastUpdated[l]}
    <3>1. \/ UNCHANGED lastUpdated
          \/ \E l \in Links : lastUpdated' = [lastUpdated EXCEPT ![l] = 0]
      BY <1>3 DEF Environment, Tick, Post, AddLink, RemoveLink, vars, registry
    <3> QED
      BY <3>1 DEF TypeOK
  <2>4. AtMostOnce' /\ HandedIsOld'
    BY <1>0, <2>1, <2>3 DEF HandsAreSound, AtMostOnce, HandedIsOld
  <2>5. ASSUME NEW v \in Workers, NEW l \in todo'[v] \ contested',
               l # InHand(v)' \/ ~Advanced(v)'
        PROVE  WatermarkIsKnown(v, l)'
    <3>1. l \in todo[v] /\ l \in Links /\ l \notin contested
      BY <2>1, <2>5 DEF TypeOK
    <3>2. WatermarkIsKnown(v, l)
      BY <2>1, <2>2, <2>5, <3>1 DEF HandsAreSound, Advanced
    <3> QED
      BY <1>0, <2>1, <2>3, <3>1, <3>2 DEF WatermarkIsKnown
  <2>6. ASSUME NEW v \in Workers PROVE HandIsSound(v)'
    <3>1. todo[v] # {} => InHand(v) \in Links
      BY HandIsKnown
    <3>2. HandIsSound(v)
      BY DEF HandsAreSound
    <3> QED
      BY <1>0, <2>1, <2>2, <2>3, <3>1, <3>2 DEF HandIsSound, Advanced
  <2> QED
    BY <2>4, <2>5, <2>6 DEF HandsAreSound
<1>4. CASE Crash
  <2>1. /\ UNCHANGED <<lastUpdated, handed, handedTwice, doubtful>>
        /\ \A v \in Workers : todo'[v] = {}
    BY <1>4 DEF Crash, registry, log, overlap
  <2> QED
    BY <2>1 DEF HandsAreSound, AtMostOnce, HandedIsOld, HandIsSound
<1> QED
  BY <1>1, <1>2, <1>3, <1>4 DEF Next

---------------------------------------------------------------------------
(* Nothing lost with the outbox, but what is in doubt. *)

\* A time for which all is accounted keeps that, as long as there is no new
\* first look at the link: what still gets the time of a watermark is not alone
\* in its second.
LEMMA AccountsStay ==
    ASSUME TypeOK, TypeOK', SourcesAreSound, [Next]_vars,
           NEW l \in Links, base'[l] = base[l],
           NEW t \in Time, Accounted(l, t), Dated(l, t)
    PROVE  Accounted(l, t)' /\ Dated(l, t)'
<1>1. posted[l] \subseteq posted'[l] /\ posted'[l] \subseteq Updates
  BY PostedGrows DEF TypeOK
<1>2. clock <= clock' /\ clock \in Nat /\ clock' \in Nat /\ t \in Nat
  <2>1. clock \in Nat /\ clock' \in Nat /\ t \in Nat
    BY BoundsAssumption DEF TypeOK, Time
  <2>2. ASSUME NEW w \in Workers, WorkerStep(w) PROVE UNCHANGED clock
    BY <2>2, WorkerEffect DEF sources
  <2>3. ASSUME NEW s \in Scans, StartScan(s) \/ ScanStep(s) PROVE UNCHANGED clock
    BY <2>3 DEF ScanStep, StartScan, FetchBatch, EndScan, AbortScan,
       JoinWorkers, ClaimReport, LookupForReport, SendReport, ReportFails,
       NextBatch, sources
  <2>4. UNCHANGED clock \/ clock' = clock + 1
    BY <2>2, <2>3 DEF Next, Environment, Tick, Post, AddLink, RemoveLink,
       Crash, vars, sources
  <2> QED
    BY <2>1, <2>4
<1>3. Dated(l, t)'
  BY <1>1, <1>2 DEF Dated
<1>4. ASSUME NEW u \in posted'[l], Promised(l, u), Alone(l, u)', base[l] < u.at,
             u.at <= t
      PROVE  <<l, u>> \in handed' \cup skipped' \cup cut' \cup doubtful'
  <2>1. CASE u \in posted[l]
    <3>1. Alone(l, u)
      BY <1>1, <1>4 DEF Alone
    <3> QED
      BY <1>4, <2>1, <3>1, LogGrows DEF Accounted
  <2>2. CASE u \notin posted[l]
    <3>1. ~(t <= base[l])
      <4>1. base[l] \in Nat /\ u.at \in Nat
        BY <1>1, BoundsAssumption DEF TypeOK, Updates, Time
      <4> QED
        BY <1>2, <1>4, <4>1
    <3>2. PICK v \in posted[l] : v.at = t
      BY <3>1 DEF Dated
    <3> QED
      BY <1>4, <2>2, <3>2, NewIsNotAlone
  <2> QED
    BY <2>1, <2>2
<1>5. Accounted(l, t)'
  BY <1>4 DEF Accounted, Promised
<1> QED
  BY <1>3, <1>5

\* At a contested link that is still to be checked it needs no more than that
\* the link keeps its base: what is posted is in doubt.
LEMMA DisputedAccountsStay ==
    ASSUME TypeOK, TypeOK', [Next]_vars, NEW v \in Workers,
           NEW l \in todo[v], l \in contested, base'[l] = base[l],
           NEW t, Accounted(l, t)
    PROVE  Accounted(l, t)'
<1>1. l \in Links
  BY DEF TypeOK
<1>2. posted[l] \subseteq posted'[l]
  BY <1>1, PostedGrows
<1>3. ASSUME NEW u \in posted'[l], Promised(l, u), Alone(l, u)', base[l] < u.at,
             u.at <= t
      PROVE  <<l, u>> \in handed' \cup skipped' \cup cut' \cup doubtful'
  <2>1. CASE u \in posted[l]
    <3>1. Alone(l, u)
      BY <1>2, <1>3 DEF Alone
    <3> QED
      BY <1>3, <2>1, <3>1, LogGrows DEF Accounted
  <2>2. CASE u \notin posted[l]
    BY <1>3, <2>2, DisputedPosts
  <2> QED
    BY <2>1, <2>2
<1> QED
  BY <1>3 DEF Accounted, Promised

\* The zero time accounts for nothing.
LEMMA NothingBeforeTime ==
    ASSUME TypeOK, NEW l \in Links
    PROVE  Accounted(l, 0) /\ Dated(l, 0)
<1>1. clock \in Nat /\ base[l] \in Nat /\ \A u \in posted[l] : u.at \in Nat \ {0}
  BY BoundsAssumption DEF TypeOK, Updates, Time
<1> QED
  BY <1>1 DEF Accounted, Dated

\* The first look at a link is where its account begins.
LEMMA FirstLookAccounts ==
    ASSUME TypeOK', NEW l \in Links, NEW t \in Time, t = base'[l], t <= clock'
    PROVE  Accounted(l, t)' /\ Dated(l, t)'
<1>1. t \in Nat /\ \A u \in posted'[l] : u.at \in Nat
  BY BoundsAssumption DEF TypeOK, Updates, Time
<1> QED
  BY <1>1 DEF Accounted, Dated

\* What a worker writes with the outbox, for the link in its hand: the first
\* look, or the watermark together with all it found.
LEMMA WatermarkAndLog ==
    ASSUME TypeOK, ChecksAreSound, OutboxEnabled, NEW w \in Workers, WorkerStep(w)
    PROVE  LET l == InHand(w) IN
           \/ UNCHANGED <<lastUpdated, base>>
           \/ /\ step[w] = "baseline" /\ Released(w)
              /\ lastUpdated'[l] = stamp[w]
              /\ \/ base'[l] = stamp[w]
                 \/ /\ UNCHANGED base
                    /\ lastUpdated[l] # 0
                    /\ \E u \in posted[l] : u.at = stamp[w]
           \/ /\ step[w] \in {"skip", "save"} /\ Released(w)
              /\ lastUpdated'[l] = stamp[w] /\ UNCHANGED base
              /\ {l} \X found[w] \subseteq handed' \cup skipped'
<1>1. todo[w] # {} /\ InHand(w) \in Links /\ CheckIsSound(w)
  BY WorkerEffect, HandIsKnown DEF ChecksAreSound
<1>2. ASSUME FirstLook(w)
      PROVE  /\ lastUpdated'[InHand(w)] = stamp[w]
             /\ \/ base'[InHand(w)] = stamp[w]
                \/ /\ UNCHANGED base
                   /\ lastUpdated[InHand(w)] # 0
                   /\ \E u \in posted[InHand(w)] : u.at = stamp[w]
  BY <1>1, <1>2 DEF FirstLook, UpdateLastUpdated, TypeOK
<1>3. ASSUME PassOver(w)
      PROVE  /\ lastUpdated'[InHand(w)] = stamp[w]
             /\ UNCHANGED base
             /\ {InHand(w)} \X found[w] \subseteq handed' \cup skipped'
  BY <1>1, <1>3 DEF PassOver, UpdateLastUpdated, TypeOK
<1>8. CASE Baseline(w) \/ Skip(w)
  BY <1>2, <1>3, <1>8 DEF Baseline, Skip, Working, Released
<1>9. CASE UpdateAckLost(w)
  <2>1. Released(w)
    BY <1>9 DEF UpdateAckLost, Released
  <2>2. ~Working(w, "advance")
    BY <1>1 DEF Working, CheckIsSound
  <2> QED
    BY <1>2, <1>3, <1>9, <2>1, <2>2 DEF UpdateAckLost, Working
<1>4. ASSUME SaveOutbox(w), Released(w), step[w] = "save"
      PROVE  \/ UNCHANGED <<lastUpdated, base>>
             \/ /\ lastUpdated'[InHand(w)] = stamp[w] /\ UNCHANGED base
                /\ {InHand(w)} \X found[w] \subseteq handed' \cup skipped'
  BY <1>1, <1>4 DEF SaveOutbox, UpdateLastUpdated, Hand, registry, TypeOK
<1>5. CASE Save(w) \/ SaveAckLost(w)
  BY <1>4, <1>5 DEF Save, SaveAckLost, Working, Released
<1>6. CASE Advance(w)
  BY <1>1, <1>6 DEF Advance, Working, CheckIsSound
<1>7. CASE ~(\/ Baseline(w) \/ Skip(w) \/ UpdateAckLost(w) \/ Save(w)
             \/ SaveAckLost(w) \/ Advance(w))
  BY <1>7 DEF WorkerStep, Fetch, FetchComments, FetchBroken, FindSubscribers,
     Send, SendAckLost, CallFails, Hand, registry, log
<1> QED
  BY <1>5, <1>6, <1>7, <1>8, <1>9

\* All that was posted up to the stamp is then in the outbox, passed over or
\* beyond a page: what is not newer than the watermark that the check went by
\* was accounted for, what is newer was found, the second of the stamp included.
LEMMA RecordAccounts ==
    ASSUME TypeOK, TypeOK', SourcesAreSound, ChecksAreSound,
           FetchIsComplete, NEW w \in Workers, WorkerStep(w),
           step[w] \in {"skip", "save"}, UNCHANGED base,
           NEW l, l = InHand(w), NEW t, t = stamp[w],
           {l} \X found[w] \subseteq handed' \cup skipped',
           Accounted(l, Watermark(w))
    PROVE  Accounted(l, t)' /\ Dated(l, t)'
<1>1. /\ todo[w] # {} /\ l \in Links /\ CheckIsSound(w) /\ UNCHANGED sources
      /\ Watermark(w) \in Nat /\ stamp[w] \in Nat /\ clock \in Nat
      /\ posted[l] \subseteq Updates /\ \A u \in Updates : u.at \in Nat
  BY WorkerEffect, HandIsKnown, BoundsAssumption
  DEF ChecksAreSound, TypeOK, Updates, Time
<1>2. PICK v \in posted[l] : v \in found[w] /\ v.at = stamp[w]
  BY <1>1 DEF CheckIsSound
<1>3. [Next]_vars
  BY DEF Next
<1>4. ASSUME NEW u \in posted[l], Promised(l, u), Alone(l, u), base[l] < u.at,
             u.at <= stamp[w]
      PROVE  <<l, u>> \in handed' \cup skipped' \cup cut' \cup doubtful'
  <2>1. CASE u.at <= Watermark(w)
    BY <1>3, <1>4, <2>1, LogGrows DEF Accounted
  <2>2. CASE ~(u.at <= Watermark(w))
    <3>1. u.at \in Nat /\ Watermark(w) < u.at
      BY <1>1, <2>2
    <3>2. Covered(l, u, Watermark(w), stamp[w])
      BY <1>1, <1>4, <3>1 DEF Covered
    <3>3. u \in found[w] \/ <<l, u>> \in cut
      BY <1>1, <3>2 DEF FetchIsComplete
    <3> QED
      BY <1>3, <3>3, LogGrows
  <2> QED
    BY <2>1, <2>2
<1>5. UNCHANGED <<posted, clock>>
  BY <1>1 DEF sources
<1>6. Accounted(l, t)'
  BY <1>4, <1>5 DEF Accounted, Promised, Alone
<1>7. Dated(l, t)'
  BY <1>1, <1>2, <1>5 DEF Dated, SourcesAreSound
<1> QED
  BY <1>6, <1>7

\* The watermark of a first look is of the past.
LEMMA FirstLookIsPast ==
    ASSUME TypeOK, SourcesAreSound, ChecksAreSound, NEW w \in Workers,
           WorkerStep(w), Kept, step[w] \in {"fetch", "comments"},
           step'[w] = "baseline", Watermark(w) = 0
    PROVE  stamp'[w] <= clock
<1> DEFINE l == InHand(w)
<1>1. /\ todo[w] # {} /\ l \in Links /\ CheckIsSound(w) /\ ~Released(w)
      /\ posted[l] \subseteq Updates /\ clock \in Nat
  BY WorkerEffect, HandIsKnown, KeptIsNotReleased, BoundsAssumption
  DEF ChecksAreSound, TypeOK, Time
<1>2. ASSUME NEW ups \in SUBSET posted[l], Evaluate(w, ups) PROVE stamp'[w] <= clock
  <2>1. Newest(w, ups) = 0 \/ \E u \in ups : Newest(w, ups) = u.at
    BY <1>1, NewestIsLatest
  <2>2. Newest(w, ups) <= clock
    BY <1>1, <2>1 DEF SourcesAreSound
  <2>3. ~(step' = [step EXCEPT ![w] =
                     IF ~OutboxEnabled /\ Newest(w, ups) > Watermark(w)
                     THEN "advance" ELSE "subscribers"])
    BY DEF TypeOK
  <2>4. stamp' = [stamp EXCEPT ![w] = IF Newest(w, ups) = 0
                                        THEN clock ELSE Newest(w, ups)]
    BY <1>1, <1>2, <2>3, EvaluateOutcomes DEF Released
  <2> QED
    BY <1>1, <2>2, <2>4 DEF TypeOK
<1>3. CASE step[w] = "fetch"
  <2>1. PICK P \in Pages(l, FirstFeed(l)) :
           Evaluate(w, NewerThan(P, 0)) \/ GoOn(w, "comments")
    BY <1>3, FetchingSteps DEF Fetch
  <2>2. ~GoOn(w, "comments")
    BY DEF GoOn, TypeOK
  <2>3. NewerThan(P, 0) \in SUBSET posted[l]
    BY <1>1, PageIsPosted
  <2> QED
    BY <1>2, <2>1, <2>2, <2>3
<1>4. CASE step[w] = "comments"
  <2>1. PICK P \in Pages(l, "comments") : Evaluate(w, found[w] \cup NewerThan(P, 0))
    BY <1>4, FetchingSteps DEF FetchComments
  <2>2. found[w] \cup NewerThan(P, 0) \in SUBSET posted[l]
    BY <1>1, <1>4, PageIsPosted DEF CheckIsSound
  <2> QED
    BY <1>2, <2>1, <2>2
<1> QED
  BY <1>3, <1>4

\* The accounts stay sound: with each step of a worker,
LEMMA WorkerStepAccounts ==
    ASSUME OutboxEnabled, TypeOK, TypeOK', SourcesAreSound, ChecksAreSound,
           FetchIsComplete, OverlapsAreSound, HandsAreSound, AccountIsSound,
           NEW w \in Workers, WorkerStep(w)
    PROVE  AccountIsSound'
<1> DEFINE h == InHand(w)
<1>1. /\ todo[w] # {} /\ h \in todo[w] /\ h \in Links /\ w[1] \in Scans
      /\ UNCHANGED <<since, clock, posted, contested, doubtful>>
      /\ Kept \/ Released(w)
      /\ Watermark(w) = since[w[1]][h] /\ Watermark(w) \in Time
      /\ CheckIsSound(w)
  BY WorkerEffect, HandIsKnown DEF sources, overlap, ChecksAreSound
<1>0. Released(w) => /\ todo'[w] = todo[w] \ {h}
                     /\ step'[w] = "fetch"
  <2>1. Released(w) => /\ todo' = [todo EXCEPT ![w] = @ \ {h}]
                       /\ step' = [step EXCEPT ![w] = "fetch"]
    BY <1>1, ReleaseTypes
  <2>2. w \in DOMAIN todo /\ w \in DOMAIN step
    BY DEF TypeOK
  <2> QED
    BY <2>1, <2>2
<1>2. ASSUME NEW l \in Links, base'[l] = base[l], NEW t \in Time,
             Accounted(l, t), Dated(l, t)
      PROVE  Accounted(l, t)' /\ Dated(l, t)'
  BY <1>2, AccountsStay DEF Next
<1>9. ASSUME NEW v \in Workers, NEW l \in todo[v], l \in contested, base'[l] = base[l],
             NEW t, Accounted(l, t)
      PROVE  Accounted(l, t)'
  BY <1>9, DisputedAccountsStay DEF Next
<1>10. ASSUME step[w] = "baseline", NEW l, l = h, l \in contested, NEW t
       PROVE  Accounted(l, t)'
  <2>1. ASSUME NEW u \in posted[l] PROVE <<l, u>> \in doubtful
    <3>1. Watermark(w) = 0 /\ u \in Updates
      BY <1>1, <1>10 DEF CheckIsSound, TypeOK
    <3>2. since[w[1]][l] < u.at
      BY <1>1, <1>10, <3>1, BoundsAssumption DEF Updates, Time
    <3> QED
      BY <1>1, <1>10, <3>2 DEF OverlapsAreSound
  <2> QED
    BY <1>1, <2>1 DEF Accounted
<1>11. ASSUME step[w] = "baseline", lastUpdated[h] # 0 PROVE h \in contested
  <2>1. ~Advanced(w) /\ Watermark(w) = 0
    BY <1>1, <1>11 DEF Advanced, CheckIsSound
  <2>2. h \notin contested => WatermarkIsKnown(w, h)
    BY <1>1, <2>1 DEF HandsAreSound
  <2> QED
    BY <1>1, <1>11, <2>1, <2>2 DEF WatermarkIsKnown
<1>3. /\ \A l \in Links : l # h => lastUpdated'[l] = lastUpdated[l] /\ base'[l] = base[l]
      /\ \A l \in Links : lastUpdated[l] \in Time /\ lastUpdated'[l] \in Time
  <2>1. \A l \in Links : l # h => base'[l] = base[l]
    BY BaseWriter
  <2>2. \A l \in Links : l # h => lastUpdated'[l] = lastUpdated[l]
    BY OnlyTheHand
  <2> QED
    BY <2>1, <2>2 DEF TypeOK
<1>4. ASSUME NEW l \in Links, NEW t \in Time, t = lastUpdated'[l]
      PROVE  Accounted(l, t)' /\ Dated(l, t)'
  <2>1. CASE lastUpdated'[l] = lastUpdated[l] /\ base'[l] = base[l]
    BY <1>2, <1>4, <2>1 DEF AccountIsSound, NothingIsLost
  <2>2. CASE /\ l = h /\ step[w] = "baseline"
             /\ lastUpdated'[l] = stamp[w] /\ base'[l] = stamp[w]
    <3>1. t = base'[l] /\ t <= clock'
      BY <1>1, <1>4, <2>2 DEF AccountIsSound
    <3> QED
      BY <3>1, FirstLookAccounts
  <2>4. CASE /\ l = h /\ step[w] = "baseline"
             /\ lastUpdated'[l] = stamp[w] /\ lastUpdated[l] # 0
             /\ \E u \in posted[l] : u.at = stamp[w]
    <3>1. Accounted(l, t)'
      BY <1>10, <1>11, <2>4
    <3>2. t <= clock'
      BY <1>1, <1>4, <2>4 DEF AccountIsSound
    <3>3. \E u \in posted'[l] : u.at = t
      BY <1>1, <1>4, <2>4
    <3> QED
      BY <3>1, <3>2, <3>3 DEF Dated
  <2>3. CASE /\ l = h /\ step[w] \in {"skip", "save"}
             /\ lastUpdated'[l] = stamp[w] /\ UNCHANGED base
             /\ {l} \X found[w] \subseteq handed' \cup skipped'
    <3>1. Accounted(l, Watermark(w)) /\ t = stamp[w]
      BY <1>1, <1>4, <2>3 DEF AccountIsSound, Watermark
    <3> QED
      BY <2>3, <3>1, RecordAccounts
  <2> QED
    BY <1>3, <2>1, <2>2, <2>3, <2>4, WatermarkAndLog
<1>5. ASSUME NEW v \in Workers, NEW l \in todo'[v]
      PROVE  /\ l \in todo[v]
             /\ l \in Links
             /\ \/ base'[l] = base[l]
                \/ l = h /\ l \in contested /\ step[w] = "baseline"
  <2>1. todo[v] \in SUBSET Links
    BY DEF TypeOK
  <2>2. CASE v = w
    <3>1. CASE Kept
      BY <1>1, <1>5, <2>1, <2>2, <3>1, KeptIsNotReleased, WatermarkAndLog DEF Kept
    <3>2. CASE Released(w)
      BY <1>0, <1>3, <1>5, <2>1, <2>2, <3>2
    <3> QED
      BY <1>1, <3>1, <3>2
  <2>3. CASE v # w
    <3>1. todo'[v] = todo[v]
      BY <2>3, OthersKeepStill
    <3>2. l = h => l \in contested
      BY <1>1, <1>5, <2>3, <3>1, SharedIsContested
    <3>3. base'[h] = base[h] \/ step[w] = "baseline"
      BY BaseWriter
    <3> QED
      BY <1>3, <1>5, <2>1, <3>1, <3>2, <3>3
  <2> QED
    BY <2>2, <2>3
<1>6. ASSUME NEW v \in Workers, NEW l \in todo'[v], NEW t \in Time, t = since'[v[1]][l]
      PROVE  Accounted(l, t)' /\ (l \notin contested => Dated(l, t)')
  <2>1. /\ l \in todo[v]
        /\ Accounted(l, t)
        /\ l \notin contested => Dated(l, t)
    BY <1>1, <1>5, <1>6 DEF AccountIsSound
  <2>2. CASE l \notin contested
    BY <1>2, <1>5, <1>6, <2>1, <2>2
  <2>3. CASE l \in contested /\ base'[l] = base[l]
    BY <1>6, <1>9, <2>1, <2>3
  <2>4. CASE l = h /\ l \in contested /\ step[w] = "baseline"
    BY <1>10, <2>4
  <2> QED
    BY <1>5, <1>6, <2>2, <2>3, <2>4
<1>7. ASSUME NEW v \in Workers, todo'[v] # {}, step'[v] = "baseline"
      PROVE  stamp'[v] <= clock'
  <2>1. CASE v # w
    BY <1>1, <1>7, <2>1, OthersKeepStill DEF AccountIsSound
  <2>2. CASE v = w /\ Released(w)
    BY <1>0, <1>7, <2>2
  <2>3. CASE v = w /\ Kept /\ KeepsOn(w)
    <3>1. step[w] \in {"fetch", "comments"} /\ Watermark(w) = 0
      BY <1>7, <2>3 DEF KeepsOn, TypeOK
    <3> QED
      BY <1>1, <1>7, <2>3, <3>1, FirstLookIsPast
  <2> QED
    BY <2>1, <2>2, <2>3, WorkerOutcomes
<1>8. ASSUME NEW v \in Workers, NEW l \in todo'[v] PROVE since'[v[1]][l] \in Time
  BY <1>1, <1>5 DEF TypeOK, Workers
<1> QED
  BY <1>1, <1>3, <1>4, <1>6, <1>7, <1>8 DEF AccountIsSound, NothingIsLost

\* of a scan, which goes by the watermarks in the table,
LEMMA ScanStepAccounts ==
    ASSUME TypeOK, TypeOK', WorkersAreSound, SourcesAreSound,
           AccountIsSound, NEW s \in Scans, StartScan(s) \/ ScanStep(s)
    PROVE  AccountIsSound'
<1>1. UNCHANGED <<registry, sources, log, step, found, stamp>>
  BY DEF ScanStep, StartScan, FetchBatch, EndScan, AbortScan, JoinWorkers,
     ClaimReport, LookupForReport, SendReport, ReportFails, NextBatch, workers
<1>2. ASSUME NEW l, NEW t
      PROVE  (Accounted(l, t) => Accounted(l, t)') /\ (Dated(l, t)' <=> Dated(l, t))
  <2>1. doubtful \subseteq doubtful'
    BY DoubtsStay DEF Next
  <2> QED
    BY <1>1, <2>1 DEF Accounted, Dated, Promised, Alone, sources, log
<1>3. \A l \in Links : /\ Accounted(l, lastUpdated[l])
                        /\ Dated(l, lastUpdated[l])
                        /\ lastUpdated'[l] = lastUpdated[l]
  BY <1>1 DEF AccountIsSound, NothingIsLost, registry
<1>4. ASSUME NEW v \in Workers, NEW l \in todo'[v], NEW t, t = since'[v[1]][l]
      PROVE  Accounted(l, t) /\ (l \notin contested' => Dated(l, t))
  <2>1. CASE FetchBatch(s) /\ v[1] = s
    <3>1. l \in Batch(offset[s])
      BY <1>4, <2>1 DEF FetchBatch, Chunk
    <3>2. l \in Links
      BY <3>1 DEF Batch, Tracked
    <3>3. since'[v[1]][l] = lastUpdated[l]
      BY <2>1, <3>1, <3>2 DEF FetchBatch, TypeOK
    <3> QED
      BY <1>3, <1>4, <3>2, <3>3
  <2>2. CASE ~(FetchBatch(s) /\ v[1] = s)
    <3>1. todo'[v] = todo[v] /\ since'[v[1]] = since[v[1]]
      BY <1>4, <2>2, ScanStepHands
    <3>2. l \notin contested' => l \notin contested
      BY <1>4, <3>1, ContestsStay DEF Next
    <3> QED
      BY <1>4, <3>1, <3>2 DEF AccountIsSound
  <2> QED
    BY <2>1, <2>2
<1>5. ASSUME NEW v \in Workers, todo'[v] # {}, step'[v] = "baseline"
      PROVE  stamp'[v] <= clock'
  <2>1. todo'[v] = todo[v]
    BY <1>1, <1>5, ScanStepHands
  <2> QED
    BY <1>1, <1>5, <2>1 DEF AccountIsSound, sources
<1> QED
  BY <1>2, <1>3, <1>4, <1>5 DEF AccountIsSound, NothingIsLost

\* of the registry, which resets watermarks, of the sources and of the clock,
LEMMA EnvironmentAccounts ==
    ASSUME TypeOK, TypeOK', SourcesAreSound, AccountIsSound,
           Environment \/ UNCHANGED vars
    PROVE  AccountIsSound'
<1>1. UNCHANGED <<todo, step, stamp, since, base, contested>> /\ [Next]_vars
  <2>1. UNCHANGED contested
    BY DEF Environment, Tick, Post, AddLink, RemoveLink, overlap, vars
  <2> QED
    BY <2>1, EnvironmentHands DEF workers, log, Next
<1>2. clock <= clock'
  <2>1. clock' = clock \/ clock' = clock + 1
    BY DEF Environment, Tick, Post, AddLink, RemoveLink, vars, sources
  <2>2. clock \in Nat
    BY BoundsAssumption DEF TypeOK, Time
  <2> QED
    BY <2>1, <2>2
<1>3. \A l \in Links : lastUpdated'[l] \in {0, lastUpdated[l]} /\ lastUpdated[l] \in Time
  <2>1. \/ UNCHANGED lastUpdated
        \/ \E l \in Links : lastUpdated' = [lastUpdated EXCEPT ![l] = 0]
    BY DEF Environment, Tick, Post, AddLink, RemoveLink, vars, registry
  <2> QED
    BY <2>1 DEF TypeOK
<1>4. ASSUME NEW l \in Links, NEW t \in Time, Accounted(l, t), Dated(l, t)
      PROVE  Accounted(l, t)' /\ Dated(l, t)'
  BY <1>1, <1>4, AccountsStay
<1>5. \A l \in Links : Accounted(l, 0) /\ Dated(l, 0)
  BY NothingBeforeTime
<1>6. 0 \in Time
  BY BoundsAssumption DEF Time
<1>7. ASSUME NEW l \in Links, NEW t, t = lastUpdated'[l]
      PROVE  Accounted(l, t)' /\ Dated(l, t)'
  BY <1>3, <1>4, <1>5, <1>6, <1>7 DEF AccountIsSound, NothingIsLost
<1>8. ASSUME NEW v \in Workers, NEW l \in todo'[v], NEW t, t = since'[v[1]][l]
      PROVE  Accounted(l, t)' /\ (l \notin contested => Dated(l, t)')
  <2>1. l \in todo[v] /\ l \in Links /\ t = since[v[1]][l] /\ t \in Time
    BY <1>1, <1>8 DEF TypeOK, Workers
  <2>2. CASE l \notin contested
    BY <1>4, <2>1, <2>2 DEF AccountIsSound
  <2>3. CASE l \in contested
    <3>1. Accounted(l, t)
      BY <2>1 DEF AccountIsSound
    <3>2. base'[l] = base[l]
      BY <1>1
    <3> QED
      BY <1>1, <2>1, <2>3, <3>1, <3>2, DisputedAccountsStay
  <2> QED
    BY <2>2, <2>3
<1>9. ASSUME NEW v \in Workers, todo'[v] # {}, step'[v] = "baseline"
      PROVE  stamp'[v] <= clock'
  <2>1. stamp'[v] <= clock /\ stamp'[v] \in Nat /\ clock \in Nat /\ clock' \in Nat
    BY <1>1, <1>9, BoundsAssumption DEF AccountIsSound, TypeOK, Time
  <2> QED
    BY <1>2, <2>1
<1> QED
  BY <1>1, <1>7, <1>8, <1>9 DEF AccountIsSound, NothingIsLost

\* and with a crash, after which no goroutine has a link.
LEMMA NextAccounts ==
    ASSUME OutboxEnabled, TypeOK, TypeOK', WorkersAreSound, SourcesAreSound,
           ChecksAreSound, FetchIsComplete, OverlapsAreSound, HandsAreSound,
           AccountIsSound, [Next]_vars
    PROVE  AccountIsSound'
<1>1. CASE Crash
  <2>1. /\ UNCHANGED <<lastUpdated, sources, log, doubtful>>
        /\ \A v \in Workers : todo'[v] = {}
    BY <1>1 DEF Crash, registry, overlap
  <2>2. ASSUME NEW l, NEW t
        PROVE  (Accounted(l, t)' <=> Accounted(l, t)) /\ (Dated(l, t)' <=> Dated(l, t))
    BY <2>1 DEF Accounted, Dated, Promised, Alone, sources, log
  <2> QED
    BY <2>1, <2>2 DEF AccountIsSound, NothingIsLost
<1> QED
  BY <1>1, WorkerStepAccounts, ScanStepAccounts, EnvironmentAccounts DEF Next

---------------------------------------------------------------------------
(* The theorems. *)

\* At the start nothing is in hand or handed on.
LEMMA InitIndInv == Init => IndInv
<1> SUFFICES ASSUME Init PROVE IndInv
  OBVIOUS
<1>1. /\ \A w \in Workers : todo[w] = {} /\ step[w] = "fetch"
      /\ \A s \in Scans : phase[s] = "idle" /\ due[s] = {} /\ notice[s] = None
      /\ \A l \in Links : posted[l] = {} /\ reported[l] = None
      /\ handed = {} /\ handedTwice = {}
  BY DEF Init
<1>2. TypeOK
  BY BoundsAssumption DEF Init, TypeOK, Time, Phases, Steps
<1>3. WorkersAreSound /\ NoticesAreSound /\ SilencesAreSound
  BY <1>1 DEF WorkersAreSound, NoticesAreSound, SilencesAreSound
<1>4. DuesAreSound /\ SourcesAreSound /\ ChecksAreSound
  BY <1>1 DEF DuesAreSound, SourcesAreSound, ChecksAreSound, CheckIsSound
<1>5. FetchIsComplete /\ OverlapsAreSound /\ HandsAreSound
  BY <1>1 DEF FetchIsComplete, OverlapsAreSound, HandsAreSound, AtMostOnce,
     HandedIsOld, HandIsSound
<1>6. AccountIsSound
  <2>1. \A l \in Links : Accounted(l, lastUpdated[l]) /\ Dated(l, lastUpdated[l])
    BY <1>2, NothingBeforeTime DEF Init
  <2> QED
    BY <1>1, <2>1 DEF AccountIsSound, NothingIsLost
<1> QED
  BY <1>2, <1>3, <1>4, <1>5, <1>6 DEF IndInv

\* No step breaks the invariant.
LEMMA NextIndInv == IndInv /\ [Next]_vars => IndInv'
<1> SUFFICES ASSUME IndInv, [Next]_vars PROVE IndInv'
  OBVIOUS
<1> USE DEF IndInv
<1>1. TypeOK' /\ WorkersAreSound' /\ NoticesAreSound'
  BY NextTypes, NextWorkers, NextNotices
<1>2. SilencesAreSound' /\ DuesAreSound'
  BY NextSilences, NextDues
<1>3. SourcesAreSound' /\ ChecksAreSound'
  BY NextSources, NextChecks
<1>4. FetchIsComplete'
  BY NextFetches
<1>5. OverlapsAreSound' /\ HandsAreSound'
  BY <1>1, NextOverlaps, NextHands
<1>6. OutboxEnabled => AccountIsSound'
  BY <1>1, NextAccounts
<1> QED
  BY <1>1, <1>2, <1>3, <1>4, <1>5, <1>6

\* The invariant of the scheduler, for every number of links, chats, scans
\* and workers, every page size and every pattern of failures: the types, what
\* the goroutines have in hand and know of it, the failures being reported,
\* what every scan still owes, what was handed on and what is accounted for.
THEOREM SchedulerInvariant == Spec => []IndInv
BY InitIndInv, NextIndInv, PTL DEF Spec

\* An entry of reportedFailures silences a failure only if the subscribers
\* know of it, are about to, or there was none to tell: for any number of
\* overlapping scans that report the same link.
THEOREM SilencesAreDeserved == Spec => []SilenceIsDeserved
<1>1. IndInv => SilenceIsDeserved
  BY DEF IndInv, SilencesAreSound, SilenceIsDeserved
<1> QED
  BY <1>1, SchedulerInvariant, PTL

\* A scan that ends has checked every link that was tracked all along, for
\* any number of links, subscriptions, workers and overlapping scans and any
\* size of the pages.
THEOREM ScansAreComplete == Spec => []ScanIsComplete
<1>1. IndInv => ScanIsComplete
  BY DEF IndInv, DuesAreSound, ScanIsComplete
<1> QED
  BY <1>1, SchedulerInvariant, PTL

\* A check that is about to record its findings found all there was, in a
\* repository, and all the comments that there were, on a question, up to the
\* page: for any number of overlapping scans and any pattern of posts.
THEOREM FetchesAreComplete == Spec => []FetchIsComplete
<1>1. IndInv => FetchIsComplete
  BY DEF IndInv
<1> QED
  BY <1>1, SchedulerInvariant, PTL

\* No update is handed on twice, with and without the outbox, whatever fails,
\* crashes or is tracked anew and however many scans overlap, unless it was news
\* to one of two scans that had its link in hand at once.
THEOREM NothingIsHandedTwice == Spec => []AtMostOnce
<1>1. IndInv => AtMostOnce
  BY DEF IndInv, HandsAreSound
<1> QED
  BY <1>1, SchedulerInvariant, PTL

\* Only a worker gives a link another watermark than zero, and only the one
\* that has the link in hand.
LEMMA WatermarkWriter ==
    ASSUME IndInv, Next, NEW l \in Links,
           lastUpdated'[l] # lastUpdated[l], lastUpdated'[l] # 0
    PROVE  \E w \in Workers : WorkerStep(w) /\ l = InHand(w)
<1> USE DEF IndInv
<1>1. PICK w \in Workers : WorkerStep(w)
  <2>1. ASSUME NEW s \in Scans, StartScan(s) \/ ScanStep(s)
        PROVE  UNCHANGED lastUpdated
    BY <2>1 DEF ScanStep, StartScan, FetchBatch, EndScan, AbortScan,
       JoinWorkers, ClaimReport, LookupForReport, SendReport, ReportFails,
       NextBatch, registry
  <2>2. ASSUME Environment \/ Crash
        PROVE  UNCHANGED lastUpdated \/
               \E k \in Links : lastUpdated' = [lastUpdated EXCEPT ![k] = 0]
    BY <2>2 DEF Environment, Tick, Post, AddLink, RemoveLink, Crash, registry
  <2>3. \A k \in Links : lastUpdated' = [lastUpdated EXCEPT ![k] = 0]
           => lastUpdated'[l] = lastUpdated[l] \/ lastUpdated'[l] = 0
    BY DEF TypeOK
  <2> QED
    BY <2>1, <2>2, <2>3 DEF Next
<1> QED
  BY <1>1, OnlyTheHand

\* The watermark is an honest account of the past, for any number of links,
\* subscribers, workers, overlapping scans, checks, resets, failures and crashes
\* and any size of the pages: with the outbox, whatever was posted since the
\* first look and is not newer than the watermark was saved or passed over for
\* want of a subscriber, unless it was beyond the page of a check, shares its
\* second with something else or was news to one of two scans that had the link
\* in hand at once.
THEOREM NothingReportableIsLost ==
    ASSUME OutboxEnabled PROVE Spec => []NothingIsLost
<1>1. IndInv => NothingIsLost
  BY OutboxEnabled DEF IndInv, AccountIsSound
<1> QED
  BY <1>1, SchedulerInvariant, PTL

\* No check takes a watermark back, but at a link that two scans had in hand at
\* once: it is the one the check read, or the link was added again meanwhile,
\* and what the check found is newer than what it read.
THEOREM WatermarksGrow == Spec => WatermarkGrows
<1>1. ASSUME IndInv, Next, NEW l \in Links, lastUpdated'[l] # 0, l \notin contested
      PROVE  lastUpdated[l] <= lastUpdated'[l]
  <2> USE <1>1 DEF IndInv
  <2>1. lastUpdated[l] \in Nat
    BY BoundsAssumption DEF TypeOK, Time
  <2>2. CASE lastUpdated'[l] = lastUpdated[l]
    BY <2>1, <2>2
  <2>3. CASE lastUpdated'[l] # lastUpdated[l]
    <3>1. PICK w \in Workers : WorkerStep(w) /\ l = InHand(w)
      BY <2>3, WatermarkWriter
    <3>2. /\ todo[w] # {} /\ l \in todo[w]
          /\ stamp[w] \in Nat /\ Watermark(w) \in Nat
      BY <3>1, WorkerEffect, HandIsKnown, BoundsAssumption DEF TypeOK, Time
    <3>3. /\ lastUpdated' = [lastUpdated EXCEPT ![l] = stamp[w]]
          /\ step[w] \in {"baseline", "advance", "skip", "save"}
          /\ Watermark(w) <= stamp[w]
      BY <2>3, <3>1, StampIsWritten
    <3>4. lastUpdated'[l] = stamp[w]
      BY <3>3 DEF TypeOK
    <3>5. lastUpdated[l] \in {0, Watermark(w)}
      BY <3>1, <3>2, <3>3 DEF HandsAreSound, Advanced, WatermarkIsKnown, Watermark
    <3> QED
      BY <3>2, <3>3, <3>4, <3>5
  <2> QED
    BY <2>2, <2>3
<1>2. IndInv /\ [Next]_vars =>
         [\A l \in Links :
             \/ lastUpdated'[l] = 0
             \/ lastUpdated[l] <= lastUpdated'[l]
             \/ l \in contested]_vars
  BY <1>1
<1> QED
  BY <1>2, SchedulerInvariant, PTL DEF Spec, WatermarkGrows

\* With the outbox only news is saved, and the watermark is past it in the same
\* step: what is lost stays lost, and what is saved is saved in time, but for
\* what was news to one of two scans that had the link in hand at once.
THEOREM SavedIsNews ==
    ASSUME OutboxEnabled PROVE Spec => OnlyNewsIsSaved
<1>1. ASSUME IndInv, Next, NEW l \in Links, NEW u \in Updates,
             <<l, u>> \in handed' \ handed
      PROVE  /\ \/ lastUpdated[l] = 0
                \/ lastUpdated[l] < u.at
                \/ <<l, u>> \in doubtful
             /\ u.at <= lastUpdated'[l]
  <2> USE <1>1 DEF IndInv
  <2>1. PICK w \in Workers : WorkerStep(w)
    <3>1. ASSUME NEW s \in Scans, StartScan(s) \/ ScanStep(s) PROVE UNCHANGED handed
      BY <3>1 DEF ScanStep, StartScan, FetchBatch, EndScan, AbortScan,
         JoinWorkers, ClaimReport, LookupForReport, SendReport, ReportFails,
         NextBatch, log
    <3>2. ASSUME Environment PROVE UNCHANGED handed
      BY <3>2, EnvironmentHands DEF log
    <3> QED
      BY <3>1, <3>2 DEF Next, Crash, log
  <2>2. l = InHand(w) /\ u \in found[w] /\ step[w] \in {"save", "send"}
    BY <2>1, HandedIsFound
  <2>3. /\ todo[w] # {} /\ l \in todo[w] /\ CheckIsSound(w)
        /\ Watermark(w) \in Nat /\ stamp[w] \in Nat /\ u.at \in Nat
        /\ Watermark(w) = since[w[1]][l]
    BY <2>1, <2>2, WorkerEffect, HandIsKnown, BoundsAssumption
    DEF ChecksAreSound, TypeOK, Updates, Time
  <2>4. /\ step[w] = "save" /\ Watermark(w) < u.at /\ u.at <= stamp[w]
        /\ Watermark(w) # 0 /\ u \in posted[l]
    BY <2>2, <2>3, OutboxEnabled DEF CheckIsSound
  <2>5. ASSUME l \in contested PROVE <<l, u>> \in doubtful
    BY <2>3, <2>4, <2>5 DEF OverlapsAreSound
  <2>6. ASSUME l \notin contested PROVE lastUpdated[l] = 0 \/ lastUpdated[l] < u.at
    <3>1. lastUpdated[l] \in {0, Watermark(w)}
      BY <2>2, <2>3, <2>6, OutboxEnabled
      DEF HandsAreSound, Advanced, WatermarkIsKnown
    <3> QED
      BY <2>4, <3>1
  <2>7. lastUpdated'[l] = stamp[w]
    <3>1. SaveOutbox(w)
      BY <2>1, <2>4, WorkerOutcomes DEF KeepsOn, Writes
    <3>2. lastUpdated' = [lastUpdated EXCEPT ![l] = stamp[w]]
      BY <2>2, <2>3, <2>4, <3>1 DEF SaveOutbox, UpdateLastUpdated
    <3> QED
      BY <3>2 DEF TypeOK
  <2> QED
    BY <2>4, <2>5, <2>6, <2>7
<1>2. IndInv /\ [Next]_vars =>
         [\A l \in Links, u \in Updates :
             <<l, u>> \in handed' \ handed =>
                 /\ \/ lastUpdated[l] = 0
                    \/ lastUpdated[l] < u.at
                    \/ <<l, u>> \in doubtful
                 /\ u.at <= lastUpdated'[l]]_vars
  <2>1. UNCHANGED vars => handed' = handed
    BY DEF vars, log
  <2> QED
    BY <1>1, <2>1
<1> QED
  BY <1>2, SchedulerInvariant, PTL DEF Spec, OnlyNewsIsSaved

\* Without the outbox, for any number of overlapping scans, what a check has
\* found beyond the new watermark is sent, unless a call fails, the process
\* ends or the link has no subscriber left.
THEOREM FoundIsSentUnlessSomethingFails == Spec => SentUnlessFailed
<1>1. ASSUME IndInv, Next, NEW w \in Workers, todo[w] # {},
             step[w] \in {"subscribers", "send"}, ~OutboxEnabled, NEW u \in found[w]
      PROVE  \/ todo'[w] = todo[w] /\ u \in found'[w]
             \/ <<InHand(w), u>> \in handed'
             \/ faults' < faults
             \/ step[w] = "subscribers" /\ subs[InHand(w)] = {}
  <2> USE <1>1 DEF IndInv
  <2>1. faults \in Nat
    BY DEF TypeOK
  <2>2. CASE Crash
    BY <2>1, <2>2 DEF Crash
  <2>3. CASE Environment
    BY <2>3, EnvironmentHands DEF workers
  <2>4. ASSUME NEW s \in Scans, StartScan(s) \/ ScanStep(s)
        PROVE  todo'[w] = todo[w] /\ found' = found
    <3>1. found' = found /\ (UNCHANGED todo \/ FetchBatch(s))
      BY <2>4 DEF ScanStep, StartScan, FetchBatch, EndScan, AbortScan,
         JoinWorkers, ClaimReport, LookupForReport, SendReport, ReportFails,
         NextBatch, EndReport, workers
    <3>2. CASE FetchBatch(s)
      <4>1. phase[w[1]] = "work" /\ phase[s] = "page"
        BY <3>2 DEF FetchBatch, WorkersAreSound
      <4> QED
        BY <3>1, <3>2, <4>1 DEF FetchBatch, TypeOK
    <3> QED
      BY <3>1, <3>2
  <2>5. ASSUME NEW v \in Workers, WorkerStep(v), v # w
        PROVE  todo'[w] = todo[w] /\ found'[w] = found[w]
    BY <2>5, OthersKeepStill
  <2>6. CASE WorkerStep(w)
    <3> USE DEF Working
    <3>1. CASE FindSubscribers(w)
      BY <3>1 DEF FindSubscribers, GoOn
    <3>2. CASE Send(w)
      <4>1. PICK v \in found[w] :
               /\ Hand(InHand(w), {v})
               /\ \/ found[w] = {v}
                  \/ /\ found' = [found EXCEPT ![w] = @ \ {v}]
                     /\ GoOn(w, "send")
        BY <3>2 DEF Send
      <4>2. CASE u = v
        BY <4>1, <4>2 DEF Hand
      <4>3. CASE u # v
        BY <4>1, <4>3 DEF GoOn, TypeOK
      <4> QED
        BY <4>2, <4>3
    <3>3. CASE SendAckLost(w) \/ CallFails(w)
      BY <2>1, <3>3 DEF SendAckLost, CallFails
    <3> QED
      BY <2>6, <3>1, <3>2, <3>3 DEF WorkerStep, Fetch, FetchComments,
         FetchBroken, Baseline, Advance, Skip, UpdateAckLost, Save, SaveAckLost
  <2> QED
    BY <2>2, <2>3, <2>4, <2>5, <2>6 DEF Next
<1>2. IndInv /\ [Next]_vars =>
         [\A w \in Workers :
             (todo[w] # {} /\ step[w] \in {"subscribers", "send"} /\ ~OutboxEnabled)
                => \A u \in found[w] :
                      \/ todo'[w] = todo[w] /\ u \in found'[w]
                      \/ <<InHand(w), u>> \in handed'
                      \/ faults' < faults
                      \/ step[w] = "subscribers" /\ subs[InHand(w)] = {}]_vars
  BY <1>1
<1> QED
  BY <1>2, SchedulerInvariant, PTL DEF Spec, SentUnlessFailed
============================================================================
