--------------------------- MODULE ListingProofs ----------------------------
(***************************************************************************)
(* Theorems about Listing, for any number of users, of writes and of       *)
(* pages, and any size of the ints.                                        *)
(***************************************************************************)
EXTENDS Listing, FiniteSetTheorems, TLAPS

(***************************************************************************)
(* Sets.                                                                   *)
(***************************************************************************)

\* A set that another one holds, but for one element at most.
LEMMA OneMoreAtMost ==
    ASSUME NEW S, NEW T, IsFiniteSet(T), \A a, b \in S \ T : a = b
    PROVE  IsFiniteSet(S) /\ Cardinality(S) <= Cardinality(T) + 1
<1>1. Cardinality(T) \in Nat
  BY FS_CardinalityType
<1>2. CASE S \ T = {}
  <2>1. S \in SUBSET T
    BY <1>2
  <2>2. IsFiniteSet(S) /\ Cardinality(S) <= Cardinality(T)
    BY <2>1, FS_Subset
  <2> QED
    BY <1>1, <2>2, FS_CardinalityType
<1>3. CASE S \ T # {}
  <2>1. PICK a \in S \ T : TRUE
    BY <1>3
  <2>2. S \in SUBSET (T \cup {a})
    BY <2>1
  <2>3. IsFiniteSet(T \cup {a}) /\ Cardinality(T \cup {a}) = Cardinality(T) + 1
    BY <2>1, FS_AddElement
  <2>4. IsFiniteSet(S) /\ Cardinality(S) <= Cardinality(T \cup {a})
    BY <2>2, <2>3, FS_Subset
  <2> QED
    BY <2>3, <2>4
<1> QED
  BY <1>2, <1>3

\* A set and what is left of it without one element.
LEMMA WithoutOne ==
    ASSUME NEW S, NEW x, IsFiniteSet(S)
    PROVE  /\ IsFiniteSet(S \ {x}) /\ Cardinality(S \ {x}) \in Nat
           /\ Cardinality(S) = IF x \in S THEN Cardinality(S \ {x}) + 1
                                          ELSE Cardinality(S \ {x})
<1>1. /\ IsFiniteSet(S \ {x})
      /\ Cardinality(S \ {x}) = IF x \in S THEN Cardinality(S) - 1 ELSE Cardinality(S)
  BY FS_RemoveElement
<1>2. Cardinality(S \ {x}) \in Nat /\ Cardinality(S) \in Nat
  BY <1>1, FS_CardinalityType
<1> QED
  BY <1>1, <1>2

\* A part of a set.
LEMMA PartOf ==
    ASSUME NEW S, NEW T, IsFiniteSet(S), T \subseteq S
    PROVE  /\ IsFiniteSet(T) /\ Cardinality(T) \in Nat /\ Cardinality(S) \in Nat
           /\ Cardinality(T) <= Cardinality(S)
<1>1. T \in SUBSET S
  OBVIOUS
<1> QED
  BY <1>1, FS_Subset, FS_CardinalityType

(***************************************************************************)
(* The order of the list.                                                  *)
(***************************************************************************)

LEMMA UserIdFinite == IsFiniteSet(UserId) /\ Cardinality(UserId) \in Nat
  BY ListingAssumption, FS_CardinalityType

LEMMA ListedIsFinite ==
    ASSUME TypeOK
    PROVE  /\ Listed \subseteq UserId /\ IsFiniteSet(Listed)
           /\ Cardinality(Listed) \in 0 .. Cardinality(UserId)
<1>1. Listed \subseteq UserId
  BY DEF Listed, TypeOK
<1> QED
  BY <1>1, UserIdFinite, PartOf

\* Display names and ids are compared as numbers.
LEMMA ListedKeys ==
    ASSUME TypeOK, NEW u \in Listed
    PROVE  u \in UserId /\ u \in Nat /\ name[u] \in Nat
  BY ListingAssumption DEF TypeOK, Listed

InFrontOf(u) == {v \in Listed : Before(v, u)}

LEMMA RankType ==
    ASSUME TypeOK, NEW u
    PROVE  IsFiniteSet(InFrontOf(u)) /\ Rank(u) \in Nat /\ Rank(u) = Cardinality(InFrontOf(u))
<1>1. InFrontOf(u) \subseteq Listed
  BY DEF InFrontOf
<1> QED
  BY <1>1, ListedIsFinite, PartOf DEF InFrontOf, Rank

\* One who is in front of another has the lower rank.
LEMMA RankFollowsOrder ==
    ASSUME TypeOK, NEW u \in Listed, NEW v \in Listed, Before(u, v)
    PROVE  Rank(u) < Rank(v)
<1>1. InFrontOf(u) \subseteq InFrontOf(v)
  BY ListedKeys DEF InFrontOf, Before
<1>2. u \in InFrontOf(v) /\ u \notin InFrontOf(u)
  BY ListedKeys DEF InFrontOf, Before
<1>3. InFrontOf(u) \subseteq InFrontOf(v) \ {u}
  BY <1>1, <1>2
<1>4. /\ IsFiniteSet(InFrontOf(v) \ {u})
      /\ Cardinality(InFrontOf(v)) = Cardinality(InFrontOf(v) \ {u}) + 1
  BY <1>2, RankType, WithoutOne
<1>5. Cardinality(InFrontOf(u)) <= Cardinality(InFrontOf(v) \ {u})
  BY <1>3, <1>4, PartOf
<1>6. /\ Rank(u) \in Nat /\ Rank(u) = Cardinality(InFrontOf(u))
      /\ Rank(v) \in Nat /\ Rank(v) = Cardinality(InFrontOf(v))
  BY RankType
<1>7. Cardinality(InFrontOf(v) \ {u}) \in Nat
  BY <1>4, FS_CardinalityType
<1> QED
  BY <1>4, <1>5, <1>6, <1>7

\* No two users share a place.
LEMMA OneUserPerRank ==
    ASSUME TypeOK, NEW u \in Listed, NEW v \in Listed, Rank(u) = Rank(v)
    PROVE  u = v
<1>1. u = v \/ Before(u, v) \/ Before(v, u)
  BY ListedKeys DEF Before
<1> QED
  BY <1>1, RankFollowsOrder, RankType

LEMMA RankBelowSize ==
    ASSUME TypeOK, NEW u \in Listed
    PROVE  Rank(u) < Cardinality(Listed)
<1>1. InFrontOf(u) \subseteq Listed \ {u}
  BY ListedKeys DEF InFrontOf, Before
<1>2. /\ IsFiniteSet(Listed \ {u}) /\ Cardinality(Listed \ {u}) \in Nat
      /\ Cardinality(Listed) = Cardinality(Listed \ {u}) + 1
  BY ListedIsFinite, WithoutOne
<1>3. Cardinality(InFrontOf(u)) <= Cardinality(Listed \ {u})
  BY <1>1, <1>2, PartOf
<1> QED
  BY <1>2, <1>3, RankType

\* A list of k + m has no more than m users from place k on.
LEMMA FewFromPlace ==
    ASSUME TypeOK, NEW k \in Nat, NEW m \in Nat, Cardinality(Listed) <= k + m
    PROVE  LET S == {u \in Listed : Rank(u) >= k}
           IN  IsFiniteSet(S) /\ Cardinality(S) <= m
<1> DEFINE S == {u \in Listed : Rank(u) >= k}
           f == [u \in S |-> Rank(u)]
<1>1. Cardinality(Listed) \in Nat
  BY ListedIsFinite
<1>2. \A u \in S : Rank(u) \in k .. k + m - 1
  BY <1>1, RankType, RankBelowSize
<1>3. \A u, v \in S : f[u] = f[v] => u = v
  BY OneUserPerRank
<1>4. f \in Injection(S, k .. k + m - 1)
  BY <1>2, <1>3 DEF Injection, IsInjective
<1>5. IsFiniteSet(k .. k + m - 1) /\ Cardinality(k .. k + m - 1) = m
  BY FS_Interval
<1> HIDE DEF S, f
<1>6. IsFiniteSet(S) /\ Cardinality(S) <= Cardinality(k .. k + m - 1)
  BY <1>4, <1>5, FS_Injection
<1> QED
  BY <1>5, <1>6 DEF S

(***************************************************************************)
(* The invariant.                                                          *)
(***************************************************************************)

\* Who has had a profile made still has it, while there is a user.
ProfilesAreKept ==
    /\ \A u \in UserId : name[u] # NoProfile => u \in live /\ migrated
    /\ settled \cap live \subseteq Listed
    /\ steady \subseteq Listed

\* Before the walk, nothing has been counted.
FreshClient ==
    pc = "idle" =>
        /\ left = 0 /\ came = 0 /\ late = 0 /\ steady = {}
        /\ \A u \in UserId : seen[u] = 0

\* What of the list the client has been through: the rows before this one.
Done == IF pc = "answered" THEN page * size ELSE (page - 1) * size

\* The offsets of a walk from the first page fit an int.
OffsetsFit == (page - 1) * size <= Cardinality(UserId)

\* The users who stayed in place and that the client has gone past, unseen.
Passed == {u \in steady : seen[u] = 0 /\ Rank(u) < Done}

\* Those it has seen and still has in front of it.
Ahead == {u \in steady : seen[u] >= 1 /\ Rank(u) >= Done}

Unseen == {u \in steady : seen[u] = 0}

\* The total is that of the list, but for those who came since.
TotalIsRecent == pc = "page" => Cardinality(Listed) <= total + late

NothingLostAtEnd == AtEnd => Cardinality(Unseen) <= left + late

WalkInv ==
    first = 1 /\ Walking =>
        /\ OffsetsFit
        /\ Cardinality(Passed) <= left
        /\ NothingLostAtEnd
        /\ Cardinality(Repeats) + Cardinality(Ahead) <= came

UnmovedInv == Walking /\ left = 0 /\ came = 0 => steady = Listed

\* Those who came late are among those who came.
LateCame == Walking => late <= came

\* An offset that fits is that of the page which was asked for.
BeyondInv ==
    pc = "answered" /\ (page - 1) * size <= MaxInt /\ (page - 1) * size >= total + late
        => items = {}

Inv ==
    /\ TypeOK
    /\ ProfilesAreKept
    /\ FreshClient
    /\ TotalIsRecent
    /\ WalkInv
    /\ UnmovedInv
    /\ LateCame
    /\ BeyondInv

-----------------------------------------------------------------------------
(***************************************************************************)
(* Rows that move.                                                         *)
(***************************************************************************)

\* No row but that of x is added, changed or removed.
OthersStay(x) ==
    \A u \in UserId \ {x} : (u \in Listed' <=> u \in Listed) /\ name'[u] = name[u]

LEMMA ListedIsFiniteNext ==
    ASSUME TypeOK'
    PROVE  /\ Listed' \subseteq UserId /\ IsFiniteSet(Listed')
           /\ Cardinality(Listed') \in 0 .. Cardinality(UserId)
<1>1. Listed' \subseteq UserId
  BY DEF Listed, TypeOK
<1> QED
  BY <1>1, UserIdFinite, PartOf

\* A row that moves shifts the others by one place at most: forward if it
\* leaves, backward if it comes.
LEMMA RankShift ==
    ASSUME TypeOK, TypeOK', NEW x \in UserId, OthersStay(x),
           NEW w \in Listed, w # x
    PROVE  /\ w \in Listed' /\ Rank(w)' \in Nat /\ Rank(w) \in Nat
           /\ Rank(w)' <= Rank(w) + 1 /\ Rank(w) <= Rank(w)' + 1
           /\ x \notin Listed => Rank(w) <= Rank(w)'
           /\ x \notin Listed' => Rank(w)' <= Rank(w)
<1> DEFINE A == InFrontOf(w)
           B == {v \in Listed' : Before(v, w)'}
<1>1. w \in UserId /\ w \in Listed'
  BY ListedKeys DEF OthersStay
<1>2. A \ {x} = B \ {x}
  <2>1. \A v \in UserId \ {x} : Before(v, w)' <=> Before(v, w)
    BY <1>1 DEF OthersStay, Before
  <2>2. A \subseteq UserId /\ B \subseteq UserId
    BY ListedIsFinite, ListedIsFiniteNext DEF InFrontOf
  <2> QED
    BY <2>1, <2>2 DEF InFrontOf, OthersStay
<1>3. /\ IsFiniteSet(A) /\ Cardinality(A) \in Nat /\ Rank(w) = Cardinality(A)
  BY RankType
<1>4. /\ IsFiniteSet(B) /\ Cardinality(B) \in Nat /\ Rank(w)' = Cardinality(B)
  <2>1. B \subseteq Listed'
    OBVIOUS
  <2>2. Rank(w)' = Cardinality(B)
    BY DEF Rank
  <2> QED
    BY <2>1, <2>2, ListedIsFiniteNext, PartOf
<1>5. (x \notin Listed => x \notin A) /\ (x \notin Listed' => x \notin B)
  BY DEF InFrontOf
<1> HIDE DEF A, B
<1>6. /\ Cardinality(A \ {x}) \in Nat
      /\ Cardinality(A) = IF x \in A THEN Cardinality(A \ {x}) + 1
                                     ELSE Cardinality(A \ {x})
  BY <1>3, WithoutOne
<1>7. Cardinality(B) = IF x \in B THEN Cardinality(B \ {x}) + 1 ELSE Cardinality(B \ {x})
  BY <1>4, WithoutOne
<1>8. Cardinality(B \ {x}) = Cardinality(A \ {x})
  BY <1>2
<1>9. /\ Cardinality(B) <= Cardinality(A) + 1 /\ Cardinality(A) <= Cardinality(B) + 1
      /\ x \notin A => Cardinality(A) <= Cardinality(B)
      /\ x \notin B => Cardinality(B) <= Cardinality(A)
  BY <1>6, <1>7, <1>8
<1> QED
  BY <1>1, <1>3, <1>4, <1>5, <1>9

\* The sets the invariant counts.
LEMMA RepeatsIsFinite ==
    ASSUME NEW seenBy \in [UserId -> Nat], NEW S \in SUBSET UserId
    PROVE  IsFiniteSet(UNION {{u} \X (2 .. seenBy[u]) : u \in S})
<1> DEFINE P(u) == {u} \X (2 .. seenBy[u])
           f == [u \in S |-> P(u)]
           T == {P(u) : u \in S}
<1>1. IsFiniteSet(S)
  BY UserIdFinite, PartOf
<1>2. f \in Surjection(S, T)
  BY DEF Surjection
<1>3. IsFiniteSet(T)
  BY <1>1, <1>2, FS_Surjection
<1>4. \A X \in T : IsFiniteSet(X)
  <2>1. SUFFICES ASSUME NEW u \in S PROVE IsFiniteSet(P(u))
    OBVIOUS
  <2>2. IsFiniteSet({u}) /\ IsFiniteSet(2 .. seenBy[u])
    <3>1. 2 \in Int /\ seenBy[u] \in Int
      OBVIOUS
    <3> QED
      BY <3>1, FS_Singleton, FS_Interval
  <2> QED
    BY <2>2, FS_Product
<1> QED
  BY <1>3, <1>4, FS_UNION

LEMMA CountedSets ==
    ASSUME TypeOK
    PROVE  /\ IsFiniteSet(Passed) /\ Cardinality(Passed) \in Nat
           /\ IsFiniteSet(Ahead) /\ Cardinality(Ahead) \in Nat
           /\ IsFiniteSet(Unseen) /\ Cardinality(Unseen) \in Nat
           /\ IsFiniteSet(Repeats) /\ Cardinality(Repeats) \in Nat
           /\ Done \in Nat
<1>1. steady \subseteq UserId /\ seen \in [UserId -> Nat]
  BY DEF TypeOK
<1>2. IsFiniteSet(steady)
  BY <1>1, UserIdFinite, PartOf
<1>3. Passed \subseteq steady /\ Ahead \subseteq steady /\ Unseen \subseteq steady
  BY DEF Passed, Ahead, Unseen
<1>4. IsFiniteSet(Repeats)
  BY <1>1, RepeatsIsFinite DEF Repeats
<1>5. Done \in Nat
  <2>1. page \in Nat /\ size \in Nat /\ page - 1 \in Nat
    BY ListingAssumption DEF TypeOK
  <2>2. \A m, n \in Nat : m * n \in Nat
    OBVIOUS
  <2> QED
    BY <2>1, <2>2 DEF Done
<1> QED
  BY <1>2, <1>3, <1>4, <1>5, PartOf, FS_CardinalityType

\* What the invariant says of the rows and of the walk.
RowsInv ==
    /\ FreshClient /\ TotalIsRecent /\ WalkInv /\ UnmovedInv /\ LateCame /\ BeyondInv

LEMMA ClientStays ==
    ASSUME UNCHANGED client
    PROVE  /\ UNCHANGED <<pc, page, size, total, items, first, seen>>
           /\ Done' = Done /\ Walking' = Walking /\ AtEnd' = AtEnd
  BY DEF client, Done, Walking, AtEnd

LEMMA SizeOfOne ==
    ASSUME NEW S, NEW x
    PROVE  Cardinality(S \cap {x}) = IF x \in S THEN 1 ELSE 0
<1>1. CASE x \in S
  <2>1. S \cap {x} = {x}
    BY <1>1
  <2> QED
    BY <1>1, <2>1, FS_Singleton
<1>2. CASE x \notin S
  <2>1. S \cap {x} = {}
    BY <1>2
  <2> QED
    BY <1>2, <2>1, FS_EmptySet
<1> QED
  BY <1>1, <1>2

\* Rows that come or go without the client: one of them at a time, ...
LEMMA OneRowMoves ==
    ASSUME Inv, TypeOK', NEW x \in UserId, OthersStay(x),
           Moves(Listed \cap {x}, Listed' \cap {x}), UNCHANGED client
    PROVE  RowsInv'
<1> DEFINE g == IF x \in Listed THEN 1 ELSE 0
           n == IF x \in Listed' THEN 1 ELSE 0
<1>1. /\ {left, came, late} \subseteq Nat /\ {left', came', late'} \subseteq Nat
      /\ total \in Nat /\ seen \in [UserId -> Nat] /\ Done \in Nat
  BY UserIdFinite, CountedSets DEF Inv, TypeOK
<1>2. /\ UNCHANGED <<pc, page, size, total, items, first, seen>>
      /\ Done' = Done /\ Walking' = Walking /\ AtEnd' = AtEnd
  BY ClientStays
<1>3. /\ Cardinality(Listed \cap {x}) = g /\ Cardinality(Listed' \cap {x}) = n
  BY SizeOfOne
<1>4. /\ left' = IF Walking THEN left + g ELSE left
      /\ came' = IF Walking THEN came + n ELSE came
      /\ late' = IF pc = "page" THEN late + n ELSE late
  BY <1>3 DEF Moves
<1>5. steady \subseteq Listed /\ steady' = steady \ {x}
  BY DEF Moves, Inv, ProfilesAreKept
<1>6. \A w \in steady' : /\ w \in Listed /\ w # x /\ Rank(w) \in Nat /\ Rank(w)' \in Nat
                         /\ Rank(w)' <= Rank(w) + n /\ Rank(w) <= Rank(w)' + g
  BY <1>5, RankShift DEF Inv
<1>7. /\ IsFiniteSet(Passed) /\ Cardinality(Passed) \in Nat
      /\ IsFiniteSet(Ahead) /\ Cardinality(Ahead) \in Nat
      /\ IsFiniteSet(Unseen) /\ Cardinality(Unseen) \in Nat
      /\ IsFiniteSet(Repeats) /\ Cardinality(Repeats) \in Nat
  BY CountedSets DEF Inv
<1>8. IsFiniteSet(Passed') /\ Cardinality(Passed') \in Nat
      /\ Cardinality(Passed') <= Cardinality(Passed) + g
  <2>1. \A w \in Passed' \ Passed : g = 1 /\ w \in Listed /\ Rank(w) = Done
    BY <1>1, <1>2, <1>5, <1>6 DEF Passed
  <2>2. \A v, w \in Passed' \ Passed : v = w
    BY <2>1, OneUserPerRank DEF Inv
  <2>3. CASE x \in Listed
    BY <2>2, <2>3, <1>7, OneMoreAtMost, FS_CardinalityType
  <2>4. CASE x \notin Listed
    <3>1. Passed' \subseteq Passed
      BY <2>1, <2>4
    <3> QED
      BY <3>1, <2>4, <1>7, PartOf
  <2> QED
    BY <2>3, <2>4
<1>9. IsFiniteSet(Ahead') /\ Cardinality(Ahead') \in Nat
      /\ Cardinality(Ahead') <= Cardinality(Ahead) + n
  <2>1. \A w \in Ahead' \ Ahead : n = 1 /\ w \in Listed /\ Rank(w) = Done - 1
    BY <1>1, <1>2, <1>5, <1>6 DEF Ahead
  <2>2. \A v, w \in Ahead' \ Ahead : v = w
    BY <2>1, OneUserPerRank DEF Inv
  <2>3. CASE x \in Listed'
    BY <2>2, <2>3, <1>7, OneMoreAtMost, FS_CardinalityType
  <2>4. CASE x \notin Listed'
    <3>1. Ahead' \subseteq Ahead
      BY <2>1, <2>4
    <3> QED
      BY <3>1, <2>4, <1>7, PartOf
  <2> QED
    BY <2>3, <2>4
<1>10. Cardinality(Repeats') \in Nat /\ Cardinality(Repeats') <= Cardinality(Repeats)
  <2>1. Repeats' \subseteq Repeats
    BY <1>2, <1>5 DEF Repeats
  <2> QED
    BY <2>1, <1>7, PartOf
<1>11. Cardinality(Unseen') \in Nat /\ Cardinality(Unseen') <= Cardinality(Unseen)
  <2>1. Unseen' \subseteq Unseen
    BY <1>2, <1>5 DEF Unseen
  <2> QED
    BY <2>1, <1>7, PartOf
<1>12. WalkInv'
  <2>1. SUFFICES ASSUME first = 1, Walking PROVE (OffsetsFit /\ NothingLostAtEnd)'
                     /\ Cardinality(Passed') <= left'
                     /\ Cardinality(Repeats') + Cardinality(Ahead') <= came'
    BY <1>2 DEF WalkInv
  <2>2. /\ OffsetsFit /\ NothingLostAtEnd /\ Cardinality(Passed) <= left
        /\ Cardinality(Repeats) + Cardinality(Ahead) <= came
    BY <2>1 DEF Inv, WalkInv
  <2>3. Cardinality(Passed') <= left'
    BY <2>1, <2>2, <1>1, <1>4, <1>7, <1>8
  <2>4. Cardinality(Repeats') + Cardinality(Ahead') <= came'
    BY <2>1, <2>2, <1>1, <1>4, <1>7, <1>9, <1>10
  <2>5. NothingLostAtEnd'
    BY <2>1, <2>2, <1>1, <1>2, <1>4, <1>7, <1>11 DEF NothingLostAtEnd, AtEnd
  <2> QED
    BY <2>2, <2>3, <2>4, <2>5, <1>2 DEF OffsetsFit
<1>13. TotalIsRecent'
  <2>1. SUFFICES ASSUME pc = "page" PROVE Cardinality(Listed') <= total + late + n
    BY <1>1, <1>2, <1>4 DEF TotalIsRecent
  <2>2. Cardinality(Listed) <= total + late
    BY <2>1 DEF Inv, TotalIsRecent
  <2>3. /\ IsFiniteSet(Listed) /\ Cardinality(Listed) \in Nat
        /\ Listed \subseteq UserId /\ Listed' \subseteq UserId
        /\ Cardinality(Listed') \in Nat
    BY ListedIsFinite, ListedIsFiniteNext, UserIdFinite DEF Inv
  <2>4. Listed' \ Listed \subseteq {x}
    BY <2>3 DEF OthersStay
  <2>5. CASE x \in Listed'
    <3>1. Cardinality(Listed') <= Cardinality(Listed) + 1
      BY <2>3, <2>4, OneMoreAtMost
    <3> QED
      BY <3>1, <2>2, <2>3, <2>5, <1>1
  <2>6. CASE x \notin Listed'
    <3>1. Listed' \subseteq Listed
      BY <2>4, <2>6
    <3>2. Cardinality(Listed') <= Cardinality(Listed)
      BY <3>1, <2>3, PartOf
    <3> QED
      BY <3>2, <2>2, <2>3, <2>6, <1>1
  <2> QED
    BY <2>5, <2>6
<1>14. UnmovedInv'
  <2>1. SUFFICES ASSUME Walking, left' = 0, came' = 0 PROVE steady' = Listed'
    BY <1>2 DEF UnmovedInv
  <2>2. left = 0 /\ came = 0 /\ x \notin Listed /\ x \notin Listed'
    BY <2>1, <1>1, <1>4
  <2>3. steady = Listed
    BY <2>1, <2>2 DEF Inv, UnmovedInv
  <2> QED
    BY <2>2, <2>3, <1>5, ListedIsFinite, ListedIsFiniteNext DEF Inv, OthersStay
<1>15. FreshClient' /\ BeyondInv'
  BY <1>1, <1>2, <1>4, <1>5 DEF Inv, FreshClient, BeyondInv, Walking, TypeOK
<1>16. LateCame'
  BY <1>1, <1>2, <1>4 DEF Inv, LateCame
<1> QED
  BY <1>12, <1>13, <1>14, <1>15, <1>16 DEF RowsInv

\* ... all of them, or ...
LEMMA AllRowsMove ==
    ASSUME Inv, TypeOK', Moves(Listed, Listed'), Listed = {} \/ Listed' = {}, UNCHANGED client
    PROVE  RowsInv'
<1>1. /\ {left, came, late} \subseteq Nat /\ {left', came', late'} \subseteq Nat
      /\ total \in Nat
  BY UserIdFinite DEF Inv, TypeOK
<1>2. /\ UNCHANGED <<pc, page, size, total, items, first, seen>>
      /\ Done' = Done /\ Walking' = Walking /\ AtEnd' = AtEnd
  BY ClientStays
<1>3. steady' = {}
  BY DEF Moves, Inv, ProfilesAreKept
<1>4. IsFiniteSet(Listed') /\ Cardinality(Listed') \in Nat
  BY ListedIsFiniteNext, UserIdFinite
<1>5. Passed' = {} /\ Ahead' = {} /\ Unseen' = {} /\ Repeats' = {}
  BY <1>3 DEF Passed, Ahead, Unseen, Repeats
<1>6. /\ Cardinality(Passed') = 0 /\ Cardinality(Ahead') = 0
      /\ Cardinality(Unseen') = 0 /\ Cardinality(Repeats') = 0
  BY <1>5, FS_EmptySet
<1>7. WalkInv'
  BY <1>1, <1>2, <1>6 DEF Inv, WalkInv, NothingLostAtEnd, OffsetsFit
<1>8. TotalIsRecent'
  BY <1>1, <1>2, <1>4 DEF TotalIsRecent, Moves
<1>9. UnmovedInv'
  <2>1. SUFFICES ASSUME Walking, came' = 0 PROVE Listed' = {}
    BY <1>2, <1>3 DEF UnmovedInv
  <2>2. came' = came + Cardinality(Listed')
    BY <2>1 DEF Moves
  <2> QED
    BY <2>1, <2>2, <1>1, <1>4, FS_EmptySet
<1>10. FreshClient' /\ BeyondInv'
  BY <1>1, <1>2, <1>3 DEF Inv, FreshClient, BeyondInv, Walking, Moves
<1>11. LateCame'
  BY <1>1, <1>2, <1>4 DEF Inv, LateCame, Moves
<1> QED
  BY <1>7, <1>8, <1>9, <1>10, <1>11 DEF RowsInv

\* ... none.
LEMMA RankStays ==
    ASSUME Listed' = Listed, name' = name
    PROVE  \A u : Rank(u)' = Rank(u)
  BY DEF Rank, Before

LEMMA NoRowMoves ==
    ASSUME Inv, Listed' = Listed, name' = name, UNCHANGED <<client, moves>>
    PROVE  RowsInv'
<1>1. /\ UNCHANGED <<pc, page, size, total, items, first, seen, steady, left, came, late>>
      /\ Done' = Done /\ Walking' = Walking /\ AtEnd' = AtEnd
  BY ClientStays DEF moves
<1>2. Passed' = Passed /\ Ahead' = Ahead
  BY <1>1, RankStays DEF Passed, Ahead
<1>3. Unseen' = Unseen /\ Repeats' = Repeats
  BY <1>1 DEF Unseen, Repeats
<1>4. WalkInv'
  BY <1>1, <1>2, <1>3 DEF Inv, WalkInv, NothingLostAtEnd, OffsetsFit
<1> QED
  BY <1>1, <1>4 DEF Inv, RowsInv, FreshClient, TotalIsRecent, UnmovedInv, LateCame, BeyondInv

-----------------------------------------------------------------------------
(***************************************************************************)
(* The steps of the client.                                                *)
(***************************************************************************)

\* An offset that fits an int is computed as it was meant.
LEMMA OffsetIsExact ==
    ASSUME TypeOK, (page - 1) * size <= MaxInt
    PROVE  Offset(page, size) = (page - 1) * size /\ (page - 1) * size \in Nat
<1>1. page \in Nat /\ size \in Nat /\ page - 1 \in Nat /\ MaxInt \in Nat
  BY ListingAssumption DEF TypeOK
<1>2. \A m, n \in Nat : m * n \in Nat
  OBVIOUS
<1> DEFINE k == (page - 1) * size
<1>3. k \in Nat /\ k <= MaxInt
  BY <1>1, <1>2
<1> HIDE DEF k
<1>4. (k + (MaxInt + 1)) % (2 * (MaxInt + 1)) = k + (MaxInt + 1)
  BY <1>1, <1>3
<1>5. Wrap(k) = k
  BY <1>1, <1>3, <1>4 DEF Wrap
<1> QED
  BY <1>3, <1>5 DEF Offset, k

LEMMA ListKeepsRows ==
    ASSUME Inv, NEW p \in Pages, NEW s \in Sizes, NEW known \in BOOLEAN, List(p, s, known)
    PROVE  RowsInv'
<1>1. Listed' = Listed /\ UNCHANGED <<seen, left, came, late, items, total>>
  BY DEF List, tables, Listed
<1>2. \A u : Rank(u)' = Rank(u)
  BY <1>1, RankStays DEF List, tables
<1>3. left = 0 /\ came = 0 /\ late = 0 /\ \A u \in UserId : seen[u] = 0
  BY DEF Inv, FreshClient, List
<1>4. CASE Accepted(p, s, known)
  <2>1. pc' = "count" /\ page' = p /\ size' = s /\ first' = p /\ steady' = Listed /\ s \in Nat
    BY <1>4, ListingAssumption DEF List, Accepted
  <2>2. CASE p = 1
    <3>1. Done' = 0
      BY <2>1, <2>2 DEF Done
    <3>2. steady' \subseteq UserId
      BY <2>1, ListedIsFinite DEF Inv
    <3>3. Passed' = {}
      BY <1>2, <2>1, <3>1, RankType DEF Passed, Inv
    <3>4. Ahead' = {} /\ Repeats' = {}
      BY <1>1, <1>3, <3>2 DEF Ahead, Repeats
    <3>5. /\ Cardinality(Passed') = 0 /\ Cardinality(Ahead') = 0 /\ Cardinality(Repeats') = 0
      BY <3>3, <3>4, FS_EmptySet
    <3>6. OffsetsFit'
      BY <2>1, <2>2, UserIdFinite DEF OffsetsFit
    <3>7. NothingLostAtEnd'
      BY <2>1 DEF NothingLostAtEnd, AtEnd
    <3> QED
      BY <1>1, <1>3, <2>1, <3>5, <3>6, <3>7
         DEF RowsInv, FreshClient, TotalIsRecent, WalkInv, UnmovedInv, LateCame, BeyondInv
  <2>3. CASE p # 1
    BY <1>1, <1>3, <2>1, <2>3
       DEF RowsInv, FreshClient, TotalIsRecent, WalkInv, UnmovedInv, LateCame, BeyondInv
  <2> QED
    BY <2>2, <2>3
<1>5. CASE ~ Accepted(p, s, known)
  BY <1>5 DEF List, RowsInv, FreshClient, TotalIsRecent, WalkInv, UnmovedInv, LateCame, BeyondInv, Walking
<1> QED
  BY <1>4, <1>5

LEMMA CountKeepsRows ==
    ASSUME Inv, TypeOK', Count
    PROVE  RowsInv'
<1>1. /\ Listed' = Listed /\ name' = name /\ pc = "count"
      /\ UNCHANGED <<page, size, items, first, seen, steady, left, came>>
  BY DEF Count, tables, Listed
<1>2. CASE pc' = "page"
  <2>1. Done' = Done
    BY <1>1, <1>2 DEF Done
  <2>2. Passed' = Passed /\ Ahead' = Ahead /\ Repeats' = Repeats
    BY <1>1, <2>1, RankStays DEF Passed, Ahead, Repeats
  <2>3. total' = Cardinality(Listed) /\ late' = 0
    BY <1>2 DEF Count
  <2>4. WalkInv'
    BY <1>1, <1>2, <2>2 DEF Inv, WalkInv, NothingLostAtEnd, AtEnd, OffsetsFit, Walking
  <2>5. Cardinality(Listed) \in Nat /\ came' \in Nat
    BY ListedIsFinite, UserIdFinite DEF Inv, TypeOK
  <2> QED
    BY <1>1, <1>2, <2>3, <2>4, <2>5
       DEF Inv, RowsInv, FreshClient, TotalIsRecent, UnmovedInv, LateCame, BeyondInv, Walking
<1>3. CASE pc' = "failed"
  BY <1>3 DEF RowsInv, FreshClient, TotalIsRecent, WalkInv, UnmovedInv, LateCame, BeyondInv, Walking
<1> QED
  BY <1>2, <1>3 DEF Count

LEMMA NextPageKeepsRows ==
    ASSUME Inv, TypeOK', NextPage
    PROVE  RowsInv'
<1>1. /\ Listed' = Listed /\ name' = name /\ pc = "answered" /\ pc' = "count"
      /\ page' = page + 1 /\ page * size < total
      /\ UNCHANGED <<size, total, items, first, seen, steady, left, came, late>>
  <2>1. page \in Nat /\ size \in Nat /\ total \in Nat
    BY UserIdFinite, ListingAssumption DEF Inv, TypeOK
  <2>2. page * size \in Nat
    BY <2>1
  <2> QED
    BY <2>1, <2>2 DEF NextPage, AtEnd, tables, moves, Listed
<1>2. page \in Nat /\ size \in Nat
  BY ListingAssumption DEF Inv, TypeOK
<1>3. (page + 1) - 1 = page
  BY <1>2
<1>4. Done' = Done
  BY <1>1, <1>3 DEF Done
<1>5. Passed' = Passed /\ Ahead' = Ahead /\ Repeats' = Repeats
  BY <1>1, <1>4, RankStays DEF Passed, Ahead, Repeats
<1>6. OffsetsFit'
  <2>1. page * size \in Nat /\ total \in Nat /\ total <= Cardinality(UserId)
    BY <1>2, UserIdFinite DEF Inv, TypeOK
  <2>2. page * size <= Cardinality(UserId)
    BY <1>1, <2>1, UserIdFinite
  <2> QED
    BY <1>1, <1>3, <2>2 DEF OffsetsFit
<1>7. WalkInv'
  BY <1>1, <1>5, <1>6 DEF Inv, WalkInv, NothingLostAtEnd, AtEnd, Walking
<1> QED
  BY <1>1, <1>7 DEF Inv, RowsInv, FreshClient, TotalIsRecent, UnmovedInv, LateCame, BeyondInv, Walking

\* The page goes past the rows of its places, which are seen once more.
LEMMA PageKeepsRows ==
    ASSUME Inv, TypeOK', Page
    PROVE  RowsInv'
<1> DEFINE k == (page - 1) * size
<1>1. /\ Listed' = Listed /\ name' = name /\ pc = "page" /\ Walking
      /\ UNCHANGED <<page, size, total, first, steady, left, came, late>>
  BY DEF Page, tables, moves, Listed, Walking
<1>2. CASE pc' = "failed"
  BY <1>2 DEF RowsInv, FreshClient, TotalIsRecent, WalkInv, UnmovedInv, LateCame, BeyondInv, Walking
<1>3. CASE pc' = "answered"
  <2>1. /\ items' = PageAt(Offset(page, size), size)
        /\ seen' = [u \in UserId |-> IF u \in items' THEN seen[u] + 1 ELSE seen[u]]
    BY <1>3 DEF Page
  <2>2. /\ page \in Nat /\ size \in Nat /\ size >= 1 /\ total \in Nat /\ MaxInt \in Nat
        /\ left \in Nat /\ came \in Nat /\ late \in Nat
        /\ steady \subseteq UserId /\ seen \in [UserId -> Nat]
    BY ListingAssumption, UserIdFinite DEF Inv, TypeOK
  <2>3. /\ k \in Nat /\ page * size = k + size
    <3>1. page - 1 \in Nat
      BY ListingAssumption DEF Inv, TypeOK
    <3>2. \A m, n \in Nat : m * n \in Nat /\ (m + 1) * n = m * n + n
      OBVIOUS
    <3>3. page = (page - 1) + 1
      BY <2>2
    <3> QED
      BY <2>2, <3>1, <3>2, <3>3
  <2>4. Done = k /\ Done' = k + size
    BY <1>1, <1>3, <2>3 DEF Done
  <2>5. Cardinality(Listed) <= total + late /\ Cardinality(Listed) \in Nat
    BY <1>1, ListedIsFinite, UserIdFinite DEF Inv, TotalIsRecent
  <2> HIDE DEF k
  <2>6. ASSUME k <= MaxInt
        PROVE  items' = {u \in Listed : Rank(u) \in k .. k + size - 1}
    BY <2>1, <2>6, OffsetIsExact DEF Inv, PageAt, k
  <2>7. BeyondInv'
    <3>1. SUFFICES ASSUME k <= MaxInt, k >= total + late PROVE items' = {}
      BY <1>1 DEF BeyondInv, k
    <3>2. \A u \in Listed : Rank(u) < k /\ Rank(u) \in Nat
      BY <2>2, <2>3, <2>5, <3>1, RankBelowSize, RankType DEF Inv
    <3> QED
      BY <2>3, <2>6, <3>1, <3>2
  <2>8. WalkInv'
    <3>1. SUFFICES ASSUME first = 1
                   PROVE  /\ (OffsetsFit /\ NothingLostAtEnd)' /\ Cardinality(Passed') <= left
                          /\ Cardinality(Repeats') + Cardinality(Ahead') <= came
      BY <1>1 DEF WalkInv
    <3>2. /\ k <= Cardinality(UserId) /\ Cardinality(Passed) <= left
          /\ Cardinality(Repeats) + Cardinality(Ahead) <= came
      BY <1>1, <3>1 DEF Inv, WalkInv, OffsetsFit, k
    <3>3. /\ IsFiniteSet(Passed) /\ Cardinality(Passed) \in Nat
          /\ IsFiniteSet(Ahead) /\ Cardinality(Ahead) \in Nat
          /\ IsFiniteSet(Unseen) /\ Cardinality(Unseen) \in Nat
          /\ IsFiniteSet(Repeats) /\ Cardinality(Repeats) \in Nat
      BY CountedSets DEF Inv
    <3>4. items' = {u \in Listed : Rank(u) \in k .. k + size - 1}
      BY <2>2, <2>3, <2>6, <3>2, UserIdFinite, ListingAssumption
    <3>5. /\ steady \subseteq Listed
          /\ \A u \in Listed : Rank(u) \in Nat /\ Rank(u)' = Rank(u)
      BY <1>1, RankType, RankStays DEF Inv, ProfilesAreKept
    <3>6. Passed' \subseteq Passed
      BY <1>1, <2>1, <2>2, <2>3, <2>4, <3>4, <3>5 DEF Passed
    <3>7. Cardinality(Passed') \in Nat /\ IsFiniteSet(Passed')
          /\ Cardinality(Passed') <= left
      BY <2>2, <3>2, <3>3, <3>6, PartOf
    <3> DEFINE Again == {u \in steady : seen[u] >= 1 /\ u \in items'}
               f == [u \in Again |-> <<u, seen[u] + 1>>]
               New == {<<u, seen[u] + 1>> : u \in Again}
    <3>8. Again \subseteq Ahead /\ Ahead' \subseteq Ahead \ Again
      BY <1>1, <2>1, <2>2, <2>3, <2>4, <3>4, <3>5 DEF Ahead
    <3>9. Repeats' \subseteq Repeats \cup New
      <4>1. SUFFICES ASSUME NEW u \in steady, NEW i \in 2 .. seen'[u], i \notin 2 .. seen[u]
                     PROVE  <<u, i>> \in New
        BY <1>1 DEF Repeats
      <4>2. u \in items' /\ seen'[u] = seen[u] + 1
        BY <2>1, <2>2, <4>1
      <4>3. seen[u] >= 1 /\ i = seen[u] + 1
        BY <2>2, <4>1, <4>2
      <4> QED
        BY <4>2, <4>3
    <3>10. f \in Surjection(Again, New)
      BY DEF Surjection
    <3> HIDE DEF Again, f, New
    <3>11. /\ IsFiniteSet(Again) /\ Cardinality(Again) \in Nat
           /\ IsFiniteSet(Ahead \ Again) /\ IsFiniteSet(Ahead')
           /\ Cardinality(Ahead') \in Nat /\ Cardinality(Ahead \ Again) \in Nat
           /\ Cardinality(Ahead') <= Cardinality(Ahead \ Again)
      BY <3>3, <3>8, PartOf
    <3>12. Cardinality(Ahead \ Again) + Cardinality(Again) = Cardinality(Ahead)
      <4>1. Cardinality(Ahead \cap Again) = Cardinality(Again)
        <5>1. Ahead \cap Again = Again
          BY <3>8
        <5> QED
          BY <5>1
      <4>2. Cardinality(Ahead \ Again) = Cardinality(Ahead) - Cardinality(Ahead \cap Again)
        BY <3>3, FS_Difference
      <4> QED
        BY <3>3, <3>11, <4>1, <4>2
    <3>13. /\ IsFiniteSet(New) /\ Cardinality(New) \in Nat
           /\ Cardinality(New) <= Cardinality(Again)
      BY <3>10, <3>11, FS_Surjection, FS_CardinalityType
    <3>14. /\ Cardinality(Repeats') \in Nat
           /\ Cardinality(Repeats') <= Cardinality(Repeats) + Cardinality(New)
      <4>1. /\ IsFiniteSet(Repeats \cup New)
            /\ Cardinality(Repeats \cup New)
                 = Cardinality(Repeats) + Cardinality(New) - Cardinality(Repeats \cap New)
        BY <3>3, <3>13, FS_Union
      <4>2. Cardinality(Repeats \cap New) \in Nat
        BY <3>3, FS_Intersection, FS_CardinalityType
      <4>3. /\ Cardinality(Repeats') \in Nat /\ Cardinality(Repeats \cup New) \in Nat
            /\ Cardinality(Repeats') <= Cardinality(Repeats \cup New)
        BY <3>9, <4>1, PartOf
      <4> QED
        BY <3>3, <3>13, <4>1, <4>2, <4>3
    <3>15. Cardinality(Repeats') + Cardinality(Ahead') <= came
      BY <2>2, <3>2, <3>3, <3>11, <3>12, <3>13, <3>14
    <3>16. NothingLostAtEnd'
      <4> DEFINE Tail == {u \in Listed : Rank(u) >= k + size}
      <4>1. SUFFICES ASSUME k + size >= total
                     PROVE  Cardinality(Unseen') <= left + late
        BY <1>1, <1>3, <2>3 DEF NothingLostAtEnd, AtEnd
      <4>2. IsFiniteSet(Tail) /\ Cardinality(Tail) <= late
        <5>1. k + size \in Nat /\ Cardinality(Listed) <= (k + size) + late
          BY <2>2, <2>3, <2>5, <4>1
        <5> QED
          BY <5>1, <2>2, FewFromPlace DEF Inv
      <4>3. Unseen' \subseteq Passed' \cup Tail
        BY <1>1, <2>2, <2>3, <2>4, <3>5 DEF Unseen, Passed
      <4> HIDE DEF Tail
      <4>4. /\ IsFiniteSet(Passed' \cup Tail)
            /\ Cardinality(Passed' \cup Tail)
                 = Cardinality(Passed') + Cardinality(Tail) - Cardinality(Passed' \cap Tail)
        BY <3>7, <4>2, FS_Union
      <4>5. Cardinality(Passed' \cap Tail) \in Nat /\ Cardinality(Tail) \in Nat
        BY <3>7, <4>2, FS_Intersection, FS_CardinalityType
      <4>6. /\ Cardinality(Unseen') \in Nat /\ Cardinality(Passed' \cup Tail) \in Nat
            /\ Cardinality(Unseen') <= Cardinality(Passed' \cup Tail)
        BY <4>3, <4>4, PartOf
      <4> QED
        BY <2>2, <3>7, <4>2, <4>4, <4>5, <4>6
    <3>17. OffsetsFit'
      BY <1>1, <3>2 DEF OffsetsFit, k
    <3> QED
      BY <3>7, <3>15, <3>16, <3>17
  <2> QED
    BY <1>1, <1>3, <2>7, <2>8 DEF Inv, RowsInv, FreshClient, TotalIsRecent, UnmovedInv, LateCame, Walking
<1> QED
  BY <1>2, <1>3 DEF Page

-----------------------------------------------------------------------------
(***************************************************************************)
(* The steps of the others.                                                *)
(***************************************************************************)

MovesType ==
    /\ steady' \subseteq steady
    /\ {left', came', late'} \subseteq Nat

LEMMA MovesKeepType ==
    ASSUME TypeOK, NEW gone, NEW new, Moves(gone, new),
           IsFiniteSet(gone), IsFiniteSet(new)
    PROVE  MovesType
<1>1. Cardinality(gone) \in Nat /\ Cardinality(new) \in Nat
  BY FS_CardinalityType
<1> QED
  BY <1>1 DEF MovesType, Moves, TypeOK

\* The types, where the client stays.
LEMMA TypeKept ==
    ASSUME TypeOK, UNCHANGED client, {left', came', late'} \subseteq Nat,
           live' \subseteq used', used' \subseteq UserId, migrated' \in BOOLEAN,
           name' \in [UserId -> Name \cup {NoProfile}], signing' \subseteq UserId,
           writes' = writes \/ Write, steady' \subseteq live', settled' \subseteq used'
    PROVE  TypeOK'
<1>1. writes' \in 0 .. MaxWrites
  BY ListingAssumption DEF TypeOK, Write
<1> QED
  BY <1>1 DEF TypeOK, client

LEMMA InitHolds == Init => Inv
<1> SUFFICES ASSUME Init PROVE Inv
  OBVIOUS
<1> USE ListingAssumption, UserIdFinite
<1>1. TypeOK
  BY DEF Init, TypeOK
<1>2. ProfilesAreKept
  BY DEF Init, ProfilesAreKept, Listed
<1> QED
  BY <1>1, <1>2 DEF Init, Inv, FreshClient, TotalIsRecent, WalkInv, UnmovedInv, LateCame, BeyondInv, Walking

\* Steps of the client alone: the type of its variables, and no row.
LEMMA ClientStep ==
    ASSUME Inv,
           \/ \E p \in Pages, s \in Sizes, known \in BOOLEAN : List(p, s, known)
           \/ Count \/ Page \/ NextPage
           \/ \E u \in UserId : GetProfile(u)
    PROVE  Inv'
<1> USE ListingAssumption, UserIdFinite
<1>1. UNCHANGED tables /\ settled' = settled /\ Listed' = Listed
  BY DEF List, Count, Page, NextPage, GetProfile, tables, Listed
<1>2. Listed \subseteq live /\ Listed \subseteq UserId /\ Cardinality(Listed) \in 0 .. Cardinality(UserId)
  BY ListedIsFinite DEF Inv, Listed
<1>3. ASSUME NEW p \in Pages, NEW s \in Sizes, NEW known \in BOOLEAN, List(p, s, known)
      PROVE  Inv'
  <2>1. TypeOK'
    BY <1>2, <1>3 DEF Inv, TypeOK, List, tables, Accepted
  <2>2. ProfilesAreKept'
    BY <1>1, <1>3 DEF Inv, ProfilesAreKept, List, tables
  <2> QED
    BY <1>3, <2>1, <2>2, ListKeepsRows DEF Inv, RowsInv
<1>4. CASE Count
  <2>1. TypeOK'
    BY <1>2, <1>4 DEF Inv, TypeOK, Count, tables
  <2>2. ProfilesAreKept'
    BY <1>1, <1>4 DEF Inv, ProfilesAreKept, Count, tables
  <2> QED
    BY <1>4, <2>1, <2>2, CountKeepsRows DEF Inv, RowsInv
<1>5. CASE Page
  <2>1. TypeOK'
    <3>1. PageAt(Offset(page, size), size) \subseteq UserId
      BY <1>2 DEF PageAt
    <3>2. items' \subseteq UserId /\ seen' \in [UserId -> Nat] /\ pc' \in {"answered", "failed"}
      <4>1. items \subseteq UserId /\ seen \in [UserId -> Nat]
        BY DEF Inv, TypeOK
      <4>2. CASE pc' = "answered"
        <5>1. /\ items' = PageAt(Offset(page, size), size)
              /\ seen' = [u \in UserId |-> IF u \in items' THEN seen[u] + 1 ELSE seen[u]]
          BY <1>5, <4>2 DEF Page
        <5> QED
          BY <3>1, <4>1, <4>2, <5>1
      <4> QED
        BY <1>5, <4>1, <4>2 DEF Page
    <3>3. UNCHANGED <<tables, page, size, total, first, moves, settled>>
      BY <1>5 DEF Page
    <3> QED
      BY <3>2, <3>3 DEF Inv, TypeOK, tables, moves
  <2>2. ProfilesAreKept'
    BY <1>1, <1>5 DEF Inv, ProfilesAreKept, Page, tables, moves
  <2> QED
    BY <1>5, <2>1, <2>2, PageKeepsRows DEF Inv, RowsInv
<1>6. CASE NextPage
  <2>1. TypeOK'
    <3>1. page \in Nat /\ size \in Nat /\ size >= 1 /\ total \in Nat /\ total <= MaxInt
      BY DEF Inv, TypeOK
    <3>2. \A m, n \in Nat : m * n \in Nat /\ (n >= 1 => m <= m * n)
      OBVIOUS
    <3>3. page < total
      BY <1>6, <3>1, <3>2 DEF NextPage, AtEnd
    <3> QED
      BY <1>6, <3>1, <3>3 DEF Inv, TypeOK, NextPage, tables, moves
  <2>2. ProfilesAreKept'
    BY <1>1, <1>6 DEF Inv, ProfilesAreKept, NextPage, tables, moves
  <2> QED
    BY <1>6, <2>1, <2>2, NextPageKeepsRows DEF Inv, RowsInv
<1>7. ASSUME NEW u \in UserId, GetProfile(u)
      PROVE  Inv'
  <2>1. TypeOK'
    BY <1>7 DEF Inv, TypeOK, GetProfile, tables, moves
  <2>2. ProfilesAreKept'
    BY <1>1, <1>7 DEF Inv, ProfilesAreKept, GetProfile, tables, moves
  <2>3. RowsInv'
    BY <1>7 DEF GetProfile, RowsInv, FreshClient, TotalIsRecent, WalkInv, UnmovedInv,
                LateCame, BeyondInv, Walking
  <2> QED
    BY <2>1, <2>2, <2>3 DEF Inv, RowsInv
<1> QED
  BY <1>3, <1>4, <1>5, <1>6, <1>7

LEMMA OneRowStep ==
    ASSUME Inv, NEW x \in UserId,
           \/ EnsureProfile(x) \/ DeleteUser(x) \/ \E n \in Name : Rename(x, n)
    PROVE  Inv'
<1> USE ListingAssumption, UserIdFinite
<1>0. TypeOK /\ ProfilesAreKept
  BY DEF Inv
<1>1. /\ Moves(Listed \cap {x}, Listed' \cap {x}) \/ UNCHANGED <<Listed, name, moves>>
      /\ OthersStay(x) /\ UNCHANGED client
  <2>1. CASE EnsureProfile(x)
    BY <1>0, <2>1 DEF EnsureProfile, Listed, OthersStay, TypeOK
  <2>2. CASE DeleteUser(x)
    BY <1>0, <2>2 DEF DeleteUser, Listed, OthersStay, TypeOK
  <2>3. ASSUME NEW n \in Name, Rename(x, n)
        PROVE  Moves(Listed \cap {x}, Listed' \cap {x}) /\ OthersStay(x) /\ UNCHANGED client
    BY <1>0, <2>3 DEF Rename, Listed, OthersStay, TypeOK
  <2> QED
    BY <2>1, <2>2, <2>3
<1>2. MovesType
  <2>1. IsFiniteSet(Listed \cap {x}) /\ IsFiniteSet(Listed' \cap {x})
    BY FS_Singleton, FS_Intersection
  <2> QED
    BY <1>0, <1>1, <2>1, MovesKeepType DEF MovesType, TypeOK, moves
<1>3. TypeOK'
  <2>1. steady' \subseteq live'
    <3>1. CASE DeleteUser(x)
      BY <1>0, <3>1 DEF DeleteUser, Moves, ProfilesAreKept, TypeOK
    <3>2. CASE ~ DeleteUser(x)
      BY <1>0, <1>2, <3>2 DEF EnsureProfile, Rename, MovesType, TypeOK
    <3> QED
      BY <3>1, <3>2
  <2>2. name' \in [UserId -> Name \cup {NoProfile}] /\ (writes' = writes \/ Write)
    BY <1>0 DEF TypeOK, EnsureProfile, DeleteUser, Rename
  <2>3. /\ live' \subseteq used' /\ used' = used /\ migrated' = migrated
        /\ signing' \subseteq UserId /\ settled' \subseteq used'
    BY <1>0 DEF TypeOK, EnsureProfile, DeleteUser, Rename
  <2>4. used \subseteq UserId /\ migrated \in BOOLEAN
    BY <1>0 DEF TypeOK
  <2> QED
    BY <1>0, <1>1, <1>2, <2>1, <2>2, <2>3, <2>4, TypeKept DEF MovesType
<1>4. ProfilesAreKept'
  <2>1. \A u \in UserId : name'[u] # NoProfile => u \in live' /\ migrated'
    BY <1>0 DEF ProfilesAreKept, TypeOK, EnsureProfile, DeleteUser, Rename, Listed
  <2>2. settled' \cap live' \subseteq Listed'
    <3>1. settled \cap live \subseteq Listed
      BY <1>0 DEF ProfilesAreKept
    <3>2. (settled' \cap live') \ {x} \subseteq Listed'
      BY <1>0, <1>1, <3>1, ListedIsFinite
         DEF OthersStay, EnsureProfile, DeleteUser, Rename, TypeOK
    <3>3. x \in live' => x \in Listed'
      BY <1>0 DEF TypeOK, EnsureProfile, DeleteUser, Rename, Listed
    <3> QED
      BY <3>2, <3>3
  <2>3. steady' \subseteq Listed'
    BY <1>0, <1>1, ListedIsFinite DEF ProfilesAreKept, Moves, OthersStay, moves
  <2> QED
    BY <2>1, <2>2, <2>3 DEF ProfilesAreKept
<1>5. RowsInv'
  BY <1>1, <1>3, OneRowMoves, NoRowMoves
<1> QED
  BY <1>3, <1>4, <1>5 DEF Inv, RowsInv

LEMMA NoRowStep ==
    ASSUME Inv, NEW u \in UserId, Upsert(u) \/ LoginFails(u) \/ LegacyLogin(u)
    PROVE  Inv'
<1> USE ListingAssumption, UserIdFinite
<1>0. TypeOK /\ ProfilesAreKept
  BY DEF Inv
<1>1. UNCHANGED <<name, client, moves, settled, migrated>>
  BY DEF Upsert, LoginFails, LegacyLogin
<1>2. Listed' = Listed
  BY <1>0, <1>1 DEF Upsert, LoginFails, LegacyLogin, Listed, ProfilesAreKept, TypeOK
<1>3. TypeOK'
  <2>1. /\ live' \subseteq used' /\ used' \subseteq UserId /\ signing' \subseteq UserId
        /\ live \subseteq live' /\ used \subseteq used' /\ (writes' = writes \/ Write)
    BY <1>0 DEF Upsert, LoginFails, LegacyLogin, TypeOK
  <2>2. /\ {left, came, late} \subseteq Nat /\ steady \subseteq live /\ settled \subseteq used
        /\ name \in [UserId -> Name \cup {NoProfile}] /\ migrated \in BOOLEAN
    BY <1>0 DEF TypeOK
  <2>3. /\ {left', came', late'} \subseteq Nat
        /\ steady' \subseteq live' /\ settled' \subseteq used'
        /\ name' \in [UserId -> Name \cup {NoProfile}] /\ migrated' \in BOOLEAN
    BY <1>1, <2>1, <2>2 DEF moves
  <2> QED
    BY <1>0, <1>1, <2>1, <2>3, TypeKept
<1>4. ProfilesAreKept'
  <2>1. settled \cap live' \subseteq live
    BY <1>0 DEF Upsert, LoginFails, LegacyLogin, TypeOK
  <2>2. live \subseteq live'
    BY DEF Upsert, LoginFails, LegacyLogin
  <2> QED
    BY <1>0, <1>1, <1>2, <2>1, <2>2 DEF ProfilesAreKept, moves
<1>5. RowsInv'
  BY <1>1, <1>2, NoRowMoves
<1> QED
  BY <1>3, <1>4, <1>5 DEF Inv, RowsInv

LEMMA MigrationStep ==
    ASSUME Inv, Migrate \/ Rollback
    PROVE  Inv'
<1> USE ListingAssumption, UserIdFinite
<1>0. TypeOK /\ ProfilesAreKept
  BY DEF Inv
<1>1. Moves(Listed, Listed') /\ (Listed = {} \/ Listed' = {}) /\ UNCHANGED client
  <2>1. CASE Migrate
    <3>1. Listed = {} /\ Listed' = live
      BY <1>0, <2>1 DEF Migrate, Listed, ProfilesAreKept, Backfill, TypeOK
    <3> QED
      BY <2>1, <3>1 DEF Migrate
  <2>2. CASE Rollback
    <3>1. Listed' = {}
      BY <1>0, <2>2 DEF Rollback, Listed, TypeOK
    <3> QED
      BY <2>2, <3>1 DEF Rollback
  <2> QED
    BY <2>1, <2>2
<1>2. steady' = {}
  BY <1>0, <1>1 DEF Moves, ProfilesAreKept
<1>3. TypeOK'
  <2>1. IsFiniteSet(Listed) /\ IsFiniteSet(Listed')
    <3>1. Listed \subseteq UserId /\ Listed' \subseteq UserId
      BY <1>0, ListedIsFinite DEF Migrate, Rollback, Listed, TypeOK
    <3> QED
      BY <3>1, PartOf
  <2>2. MovesType
    BY <1>0, <1>1, <2>1, MovesKeepType
  <2>3. name' \in [UserId -> Name \cup {NoProfile}]
    BY DEF Migrate, Rollback, Backfill
  <2>4. /\ live' = live /\ used' = used /\ signing' = signing /\ Write
        /\ migrated' \in BOOLEAN /\ settled' \subseteq live
    BY DEF Migrate, Rollback
  <2>5. live \subseteq used /\ used \subseteq UserId /\ signing \subseteq UserId
    BY <1>0 DEF TypeOK
  <2> QED
    BY <1>0, <1>1, <1>2, <2>2, <2>3, <2>4, <2>5, TypeKept DEF MovesType
<1>4. ProfilesAreKept'
  <2>1. CASE Migrate
    <3>1. \A u \in UserId : name'[u] = IF u \in live THEN AccountName[u] ELSE NoProfile
      BY <2>1 DEF Migrate, Backfill
    <3>2. \A u \in live : u \in UserId /\ AccountName[u] # NoProfile
      BY <1>0 DEF TypeOK
    <3>3. live' = live /\ migrated' /\ settled' = live
      BY <2>1 DEF Migrate
    <3> QED
      BY <1>2, <3>1, <3>2, <3>3 DEF ProfilesAreKept, Listed
  <2>2. CASE Rollback
    BY <1>2, <2>2 DEF ProfilesAreKept, Rollback
  <2> QED
    BY <2>1, <2>2
<1>5. RowsInv'
  BY <1>1, <1>3, AllRowsMove
<1> QED
  BY <1>3, <1>4, <1>5 DEF Inv, RowsInv

LEMMA InvStep == Inv /\ [Next]_vars => Inv'
<1> SUFFICES ASSUME Inv, [Next]_vars PROVE Inv'
  OBVIOUS
<1>1. CASE UNCHANGED vars
  <2>1. TypeOK' /\ ProfilesAreKept' /\ Listed' = Listed
    BY <1>1 DEF vars, tables, client, moves, Inv, TypeOK, ProfilesAreKept, Listed
  <2> QED
    BY <1>1, <2>1, NoRowMoves DEF vars, tables, Inv, RowsInv
<1>2. CASE Next
  BY <1>2, ClientStep, OneRowStep, NoRowStep, MigrationStep DEF Next
<1> QED
  BY <1>1, <1>2

-----------------------------------------------------------------------------
(***************************************************************************)
(* Theorems.                                                               *)
(***************************************************************************)

LEMMA Invariance == Spec => []Inv
  BY InitHolds, InvStep, PTL DEF Spec

\* The variables keep their types; in particular, a client that asks for one
\* page after the other never asks for one that is not an int.
THEOREM ListingTypeCorrect == Spec => []TypeOK
<1>1. Inv => TypeOK
  BY DEF Inv
<1> QED
  BY <1>1, Invariance, PTL

\* A client of List that goes from the first page to the last misses no more of
\* those who stayed in place than others left a place or came too late to be
\* counted, however many do so and whenever.
THEOREM MissedOnlyWhenRowsMoveHolds == Spec => []MissedOnlyWhenRowsMove
<1>1. Inv => MissedOnlyWhenRowsMove
  BY DEF Inv, WalkInv, NothingLostAtEnd, MissedOnlyWhenRowsMove, WalkedThrough, AtEnd,
         Walking, Unseen
<1> QED
  BY <1>1, Invariance, PTL

\* Nor does it get them again more often than others came.
THEOREM RepeatedOnlyWhenRowsComeHolds == Spec => []RepeatedOnlyWhenRowsCome
<1>1. ASSUME Inv PROVE RepeatedOnlyWhenRowsCome
  <2>1. SUFFICES ASSUME AtEnd, first = 1 PROVE Cardinality(Repeats) <= came
    BY DEF RepeatedOnlyWhenRowsCome, WalkedThrough
  <2>2. Cardinality(Repeats) + Cardinality(Ahead) <= came
    BY <1>1, <2>1 DEF Inv, WalkInv, AtEnd, Walking
  <2>3. Cardinality(Repeats) \in Nat /\ Cardinality(Ahead) \in Nat /\ came \in Nat
    BY <1>1, CountedSets DEF Inv, TypeOK
  <2> QED
    BY <2>2, <2>3
<1> QED
  BY <1>1, Invariance, PTL

\* A list of which no row moves is read once, each user exactly one time, for
\* any number of users of one name and any size of the pages (PR-15 has ten
\* users and pages of three).
THEOREM UnmovedListIsReadOnceHolds == Spec => []UnmovedListIsReadOnce
<1>1. ASSUME Inv PROVE UnmovedListIsReadOnce
  <2>1. SUFFICES ASSUME AtEnd, first = 1, left = 0, came = 0, NEW u \in Listed
                 PROVE  seen[u] = 1
    BY DEF UnmovedListIsReadOnce, WalkedThrough
  <2>2. /\ IsFiniteSet(Unseen) /\ Cardinality(Unseen) \in Nat
        /\ IsFiniteSet(Repeats) /\ Cardinality(Repeats) \in Nat
        /\ IsFiniteSet(Ahead) /\ Cardinality(Ahead) \in Nat
    BY <1>1, CountedSets DEF Inv
  <2>3. u \in steady /\ u \in UserId /\ seen[u] \in Nat
    BY <1>1, <2>1, ListedIsFinite DEF Inv, UnmovedInv, AtEnd, Walking, TypeOK
  <2>4. late = 0
    BY <1>1, <2>1 DEF Inv, LateCame, AtEnd, Walking, TypeOK
  <2>5. Cardinality(Unseen) <= 0 /\ Cardinality(Repeats) + Cardinality(Ahead) <= 0
    BY <1>1, <2>1, <2>4 DEF Inv, WalkInv, NothingLostAtEnd, AtEnd, Walking
  <2>6. Unseen = {} /\ Repeats = {}
    BY <2>2, <2>5, FS_EmptySet
  <2>7. seen[u] # 0
    BY <2>3, <2>6 DEF Unseen
  <2>8. ~ (seen[u] >= 2)
    <3>1. SUFFICES ASSUME seen[u] >= 2 PROVE <<u, 2>> \in Repeats
      BY <2>6
    <3>2. <<u, 2>> \in {u} \X (2 .. seen[u])
      BY <2>3, <3>1
    <3> QED
      BY <2>3, <3>2 DEF Repeats
  <2> QED
    BY <2>3, <2>7, <2>8
<1> QED
  BY <1>1, Invariance, PTL

\* A page beyond the total is empty as PR-14 says, whenever its offset fits an
\* int: the run of PageBeyondTotalIsEmpty has the other case.
THEOREM PageBeyondTotalHolds ==
    Spec => []((page - 1) * size <= MaxInt => PageBeyondTotalIsEmpty)
<1>1. ASSUME Inv
      PROVE  (page - 1) * size <= MaxInt => PageBeyondTotalIsEmpty
  <2>1. total \in Nat
    BY <1>1, UserIdFinite DEF Inv, TypeOK
  <2> QED
    BY <1>1, <2>1 DEF Inv, BeyondInv, PageBeyondTotalIsEmpty
<1> QED
  BY <1>1, Invariance, PTL

\* GetProfile does not say of a user whose profile was made that there is none.
THEOREM SettledUsersAreFoundHolds == Spec => SettledUsersAreFound
<1>1. ASSUME Inv, [Next]_vars, pc = "idle" /\ pc' = "notFound"
      PROVE  items' \cap live \cap settled = {}
  <2>1. PICK u \in UserId : GetProfile(u)
    BY <1>1 DEF Next, List, Count, Page, NextPage, Upsert, EnsureProfile, LoginFails,
                LegacyLogin, Rename, DeleteUser, Migrate, Rollback, vars, client
  <2>2. items' = {u} /\ u \notin Listed
    BY <1>1, <2>1 DEF GetProfile
  <2> QED
    BY <1>1, <2>2 DEF Inv, ProfilesAreKept
<1>2. Inv /\ [Next]_vars => [pc = "idle" /\ pc' = "notFound"
                                => items' \cap live \cap settled = {}]_vars
  BY <1>1
<1> QED
  BY <1>2, Invariance, PTL DEF Spec, SettledUsersAreFound
=============================================================================
