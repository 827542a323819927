---------------------------- MODULE ChaptersProofs ----------------------------
(***************************************************************************)
(* Proofs about the chapters of a video: their bounds share it out, and no *)
(* more of them are made than requests overlap.                            *)
(***************************************************************************)
EXTENDS Chapters, FiniteSetTheorems, WellFoundedInduction, TLAPS

\* No two chapters start together: the unique key.
UniqueStarts == \A j, k \in chapters : start[j] = start[k] => j = k

\* A request about a chapter names one.
NamesChapter == \A c \in Clients : request[c].op \in {"update", "delete"} => request[c].chapter \in Ids

\* A request that has counted holds its place until it ends.
Counted == {c \in Clients : request[c].op = "create"}
RoomIsKept == Cardinality(chapters) + Cardinality(Counted) <= Limit - 1 + Cardinality(Clients)

IInv == TypeOK /\ NamesChapter /\ UniqueStarts /\ RoomIsKept

-----------------------------------------------------------------------------
(* The least element of a set of naturals *)

\* The interval below the least element is minimal under strict inclusion.
LEMMA LeastElement ==
  ASSUME NEW S \in SUBSET Nat, S # {}
  PROVE  \E x \in S : \A y \in S : x <= y
<1> DEFINE Below(x) == 0..x
           T == {Below(x) : x \in S}
<1>1. T \subseteq FiniteSubsetsOf(Nat)
  <2>1. ASSUME NEW x \in S PROVE Below(x) \in FiniteSubsetsOf(Nat)
    <3>1. IsFiniteSet(0..x)
      BY FS_Interval
    <3> QED
      BY <3>1 DEF FiniteSubsetsOf
  <2> QED
    BY <2>1
<1>2. PICK t \in T : \A r \in T : ~ (<<r, t>> \in StrictSubsetOrdering(Nat))
  <2>1. IsWellFoundedOn(StrictSubsetOrdering(Nat), FiniteSubsetsOf(Nat))
    BY FS_StrictSubsetOrderingWellFounded
  <2>2. T # {}
    OBVIOUS
  <2> HIDE DEF T
  <2> QED
    BY <1>1, <2>1, <2>2, WFMin
<1>3. PICK x \in S : t = Below(x)
  OBVIOUS
<1>4. ASSUME NEW y \in S, y < x PROVE FALSE
  <2>1. Below(y) \subseteq Below(x) /\ Below(y) # Below(x)
    BY <1>4
  <2>2. <<Below(y), t>> \in StrictSubsetOrdering(Nat)
    BY <2>1, <1>3 DEF StrictSubsetOrdering
  <2> QED
    BY <2>2, <1>2
<1> QED
  BY <1>4

\* Min is the least element.
LEMMA MinIsLeast ==
  ASSUME NEW S \in SUBSET Nat, S # {}
  PROVE  Min(S) \in S /\ \A y \in S : Min(S) <= y
BY LeastElement DEF Min

\* Of the numbers of a set that are at most m there is a greatest.
LEMMA GreatestBelow ==
  ASSUME NEW S \in SUBSET Nat, NEW m \in Nat, \E x \in S : x <= m
  PROVE  \E x \in S : x <= m /\ \A y \in S : y <= m => y <= x
<1> DEFINE D == {m - x : x \in {y \in S : y <= m}}
<1>1. D \in SUBSET Nat /\ D # {}
  OBVIOUS
<1>2. PICK d \in D : \A e \in D : d <= e
  BY <1>1, LeastElement
<1>3. PICK x \in S : x <= m /\ d = m - x
  OBVIOUS
<1>4. ASSUME NEW y \in S, y <= m PROVE y <= x
  <2>1. m - y \in D
    BY <1>4
  <2>2. m - x <= m - y
    BY <2>1, <1>2, <1>3
  <2>3. m \in Int /\ x \in Int /\ y \in Int
    OBVIOUS
  <2> HIDE DEF D
  <2> QED
    BY <2>2, <2>3
<1> QED
  BY <1>3, <1>4

-----------------------------------------------------------------------------
(* The invariant *)

LEMMA InitInvariant == Init => IInv
<1> SUFFICES ASSUME Init PROVE IInv
  OBVIOUS
<1>1. TypeOK /\ NamesChapter /\ UniqueStarts
  BY SizeAssumption DEF Init, TypeOK, NamesChapter, UniqueStarts, Idle, Request, Same
<1>2. Counted = {}
  BY DEF Init, Counted, Idle
<1>3. RoomIsKept
  BY <1>2, FS_EmptySet, FS_CardinalityType, SizeAssumption, ClientsAssumption DEF Init, RoomIsKept
<1> QED
  BY <1>1, <1>3 DEF IInv

LEMMA TypeStep == TypeOK /\ NamesChapter /\ [Next]_vars => TypeOK' /\ NamesChapter'
<1> SUFFICES ASSUME TypeOK, NamesChapter, [Next]_vars PROVE TypeOK' /\ NamesChapter'
  OBVIOUS
<1> USE SizeAssumption DEF TypeOK, NamesChapter
<1>1. ASSUME NEW c \in Clients, NEW s \in 0..Duration, BeginCreate(c, s) PROVE TypeOK' /\ NamesChapter'
  BY <1>1 DEF BeginCreate, Begin, Within, Request, Milliseconds, Same
<1>2. ASSUME NEW c \in Clients, NEW k \in Ids, CommitCreate(c, k) PROVE TypeOK' /\ NamesChapter'
  BY <1>2 DEF CommitCreate, Ended, Idle, Request, Milliseconds, Same
<1>3. ASSUME NEW c \in Clients, NEW k \in Ids, NEW s \in {Same} \cup 0..Duration, BeginUpdate(c, k, s)
      PROVE TypeOK' /\ NamesChapter'
  BY <1>3 DEF BeginUpdate, Begin, Within, Request, Milliseconds, Same
<1>4. ASSUME NEW c \in Clients, NEW k \in Ids, BeginDelete(c, k) PROVE TypeOK' /\ NamesChapter'
  BY <1>4 DEF BeginDelete, Begin, Request, Same
<1>5. ASSUME NEW c \in Clients, CommitUpdate(c) PROVE TypeOK' /\ NamesChapter'
  BY <1>5 DEF CommitUpdate, Ended, Idle, Request, Milliseconds, Same
<1>6. ASSUME NEW c \in Clients, CommitDelete(c) PROVE TypeOK' /\ NamesChapter'
  BY <1>6 DEF CommitDelete, Ended, Idle, Request, Milliseconds, Same
<1>7. ASSUME NEW c \in Clients, Abort(c) PROVE TypeOK' /\ NamesChapter'
  BY <1>7 DEF Abort, Ended, Idle, Request, Same
<1>8. CASE VideoReady
  BY <1>8 DEF VideoReady
<1>9. CASE DeleteVideo
  BY <1>9 DEF DeleteVideo
<1>10. CASE UNCHANGED vars
  BY <1>10 DEF vars
<1> QED
  BY <1>1, <1>2, <1>3, <1>4, <1>5, <1>6, <1>7, <1>8, <1>9, <1>10 DEF Next

\* The unique key is asked at the write, so no overlap passes it.
LEMMA UniqueStep == IInv /\ [Next]_vars => UniqueStarts'
<1> SUFFICES ASSUME IInv, [Next]_vars PROVE UniqueStarts'
  OBVIOUS
<1> USE DEF IInv, TypeOK, UniqueStarts
<1>1. ASSUME NEW c \in Clients, NEW k \in Ids, CommitCreate(c, k) PROVE UniqueStarts'
  BY <1>1 DEF CommitCreate, Free
<1>2. ASSUME NEW c \in Clients, CommitUpdate(c) PROVE UniqueStarts'
  BY <1>2 DEF CommitUpdate, Free
<1>3. ASSUME NEW c \in Clients, CommitDelete(c) PROVE UniqueStarts'
  BY <1>3 DEF CommitDelete
<1>4. CASE DeleteVideo
  BY <1>4 DEF DeleteVideo
<1>5. CASE UNCHANGED <<chapters, start>>
  BY <1>5
<1> QED
  BY <1>1, <1>2, <1>3, <1>4, <1>5
  DEF Next, BeginCreate, BeginUpdate, BeginDelete, Begin, Abort, VideoReady, vars

\* Counting takes a place, inserting turns it into a row, ending gives it up.
LEMMA RoomStep == IInv /\ [Next]_vars => RoomIsKept'
<1> SUFFICES ASSUME IInv, [Next]_vars PROVE RoomIsKept'
  OBVIOUS
<1> USE SizeAssumption
<1>1. IsFiniteSet(Clients) /\ IsFiniteSet(chapters) /\ IsFiniteSet(Counted) /\ IsFiniteSet(Counted')
  BY ClientsAssumption, FS_Subset DEF IInv, TypeOK, Counted
<1>2. /\ Cardinality(Clients) \in Nat /\ Cardinality(chapters) \in Nat
      /\ Cardinality(Counted) \in Nat /\ Cardinality(Counted') \in Nat
  BY <1>1, FS_CardinalityType
<1>3. ASSUME NEW c \in Clients, NEW s \in 0..Duration, BeginCreate(c, s) PROVE RoomIsKept'
  <2>1. Cardinality(Counted') <= Cardinality(Clients)
    BY <1>1, FS_Subset DEF Counted
  <2>2. chapters' = chapters /\ Cardinality(chapters) < Limit
    BY <1>3 DEF BeginCreate, Begin, BelowLimit
  <2> QED
    BY <2>1, <2>2, <1>2 DEF RoomIsKept
<1>4. ASSUME NEW c \in Clients, NEW k \in Ids, CommitCreate(c, k) PROVE RoomIsKept'
  <2>1. Counted' = Counted \ {c} /\ c \in Counted
    BY <1>4 DEF CommitCreate, Ended, Idle, Counted, IInv, TypeOK
  <2>2. Cardinality(Counted') = Cardinality(Counted) - 1
    BY <2>1, <1>1, FS_RemoveElement
  <2>3. chapters' = chapters \cup {k} /\ k \notin chapters
    BY <1>4 DEF CommitCreate
  <2>4. Cardinality(chapters') = Cardinality(chapters) + 1
    BY <2>3, <1>1, FS_AddElement
  <2> QED
    BY <2>2, <2>4, <1>2 DEF RoomIsKept, IInv
<1>5. ASSUME Counted' \subseteq Counted, chapters' \subseteq chapters PROVE RoomIsKept'
  <2>1. Cardinality(Counted') <= Cardinality(Counted)
    BY <1>5, <1>1, FS_Subset
  <2>2. Cardinality(chapters') <= Cardinality(chapters) /\ Cardinality(chapters') \in Nat
    BY <1>5, <1>1, FS_Subset, FS_CardinalityType
  <2> QED
    BY <2>1, <2>2, <1>2 DEF RoomIsKept, IInv
<1>6. ASSUME NEW c \in Clients, NEW k \in Ids, NEW s \in {Same} \cup 0..Duration,
             BeginUpdate(c, k, s) \/ BeginDelete(c, k)
      PROVE  Counted' \subseteq Counted /\ chapters' \subseteq chapters
  BY <1>6 DEF BeginUpdate, BeginDelete, Begin, Counted, IInv, TypeOK
<1>7. ASSUME NEW c \in Clients, CommitUpdate(c) \/ CommitDelete(c) \/ Abort(c)
      PROVE  Counted' \subseteq Counted /\ chapters' \subseteq chapters
  BY <1>7 DEF CommitUpdate, CommitDelete, Abort, Ended, Idle, Counted, IInv, TypeOK
<1>8. ASSUME VideoReady \/ DeleteVideo \/ UNCHANGED vars
      PROVE  Counted' \subseteq Counted /\ chapters' \subseteq chapters
  BY <1>8 DEF VideoReady, DeleteVideo, vars, Counted
<1>9. ASSUME NEW c \in Clients, NEW k \in Ids, BeginDelete(c, k)
      PROVE  Counted' \subseteq Counted /\ chapters' \subseteq chapters
  BY <1>9, <1>6
<1> QED
  BY <1>3, <1>4, <1>5, <1>6, <1>7, <1>8, <1>9 DEF Next

LEMMA Invariance == Spec => []IInv
<1>1. IInv /\ [Next]_vars => IInv'
  BY TypeStep, UniqueStep, RoomStep DEF IInv
<1> QED
  BY InitInvariant, <1>1, PTL DEF Spec

-----------------------------------------------------------------------------
(* The bounds a read computes *)

\* The end of a chapter is the end of the video or the next start, and no
\* other start lies between.
LEMMA EndIsNext ==
  ASSUME TypeOK, NEW k \in chapters
  PROVE  /\ EndOf(k) \in Nat /\ EndOf(k) > start[k] /\ EndOf(k) <= Duration
         /\ EndOf(k) = Duration \/ \E j \in chapters : EndOf(k) = start[j]
         /\ \A j \in chapters : start[j] > start[k] => EndOf(k) <= start[j]
<1> DEFINE later == {start[j] : j \in {i \in chapters : start[i] > start[k]}}
           S == later \cup {Duration}
<1>1. S \in SUBSET Nat /\ S # {}
  BY SizeAssumption DEF TypeOK
<1>2. \A x \in S : x > start[k]
  BY SizeAssumption DEF TypeOK, Milliseconds
<1>3. \A j \in chapters : start[j] > start[k] => start[j] \in S
  OBVIOUS
<1>4. \A x \in S : x = Duration \/ \E j \in chapters : x = start[j]
  OBVIOUS
<1>5. EndOf(k) = Min(S)
  BY DEF EndOf
<1>6. Duration \in S
  OBVIOUS
<1> HIDE DEF S
<1>7. Min(S) \in S /\ \A y \in S : Min(S) <= y
  BY <1>1, MinIsLeast
<1> QED
  BY <1>1, <1>2, <1>3, <1>4, <1>5, <1>6, <1>7

\* Of the chapters that start by m one starts last.
LEMMA LastBefore ==
  ASSUME TypeOK, NEW m \in Nat, \E k \in chapters : start[k] <= m
  PROVE  \E k \in chapters :
           start[k] <= m /\ \A j \in chapters : start[j] <= m => start[j] <= start[k]
<1> DEFINE S == {start[k] : k \in chapters}
<1>1. S \in SUBSET Nat /\ \E x \in S : x <= m
  BY DEF TypeOK
<1>2. PICK x \in S : x <= m /\ \A y \in S : y <= m => y <= x
  BY <1>1, GreatestBelow
<1>3. PICK k \in chapters : x = start[k]
  OBVIOUS
<1> QED
  BY <1>2, <1>3

LEMMA PartitionHolds == TypeOK /\ UniqueStarts => BoundsPartition
<1> SUFFICES ASSUME TypeOK, UniqueStarts PROVE BoundsPartition
  OBVIOUS
<1>1. \A k \in chapters : start[k] \in Nat
  BY DEF TypeOK
<1>2. ASSUME NEW k \in chapters PROVE Span(k) # {}
  <2>1. EndOf(k) \in Nat /\ EndOf(k) > start[k]
    BY EndIsNext
  <2>2. start[k] \in Span(k)
    BY <2>1, <1>1 DEF Span
  <2> QED
    BY <2>2
<1>3. ASSUME NEW m \in Milliseconds, \E k \in chapters : start[k] <= m
      PROVE  \E k \in chapters : {j \in chapters : m \in Span(j)} = {k}
  <2>1. m \in Nat /\ m < Duration
    BY SizeAssumption DEF Milliseconds
  <2>2. PICK k \in chapters :
          start[k] <= m /\ \A j \in chapters : start[j] <= m => start[j] <= start[k]
    BY <2>1, <1>3, LastBefore
  <2>6. m \in Span(k)
    <3>1. EndOf(k) = Duration \/ \E j \in chapters : EndOf(k) = start[j]
      BY EndIsNext
    <3>2. EndOf(k) \in Nat /\ EndOf(k) > start[k]
      BY EndIsNext
    <3>3. m < EndOf(k)
      BY <3>1, <3>2, <2>1, <2>2, <1>1
    <3> QED
      BY <3>2, <3>3, <2>1, <2>2, <1>1 DEF Span
  <2>7. ASSUME NEW j \in chapters, m \in Span(j) PROVE j = k
    <3>1. /\ EndOf(j) \in Nat
          /\ \A i \in chapters : start[i] > start[j] => EndOf(j) <= start[i]
      BY EndIsNext
    <3>2. start[j] <= m /\ m < EndOf(j)
      BY <2>7, <3>1, <2>1, <1>1 DEF Span
    <3>3. ~ (start[k] > start[j])
      BY <3>1, <3>2, <2>1, <2>2, <1>1
    <3>4. start[j] = start[k]
      BY <3>2, <3>3, <2>2, <1>1
    <3> QED
      BY <3>4 DEF UniqueStarts
  <2> QED
    BY <2>6, <2>7
<1> QED
  BY <1>2, <1>3 DEF BoundsPartition

-----------------------------------------------------------------------------
(* Done with every chapter *)

\* A quotient is what its divisor fits in so many times.
LEMMA Quotient ==
  ASSUME NEW a \in Nat, NEW b \in Nat \ {0}
  PROVE  /\ a \div b \in Nat
         /\ b * (a \div b) <= a /\ a < b * (a \div b) + b
OBVIOUS

\* Being done with a chapter is having watched the share of it: the percent of
\* its coverage is cut off, and the threshold is whole.
LEMMA DoneIsShare ==
  ASSUME TypeOK, NEW W \in SUBSET Milliseconds, NEW k \in chapters, IsDone(k, W)
  PROVE  100 * CoveredMs(k, W) >= ThresholdPct * (EndOf(k) - start[k])
<1>1. /\ EndOf(k) \in Nat /\ EndOf(k) > start[k]
      /\ start[k] \in Nat
  BY EndIsNext DEF TypeOK
<1> DEFINE len == EndOf(k) - start[k]
           c == CoveredMs(k, W)
           q == (100 * c) \div len
<1>2. len \in Nat \ {0}
  BY <1>1
<1>3. c \in Nat
  <2>1. IsFiniteSet(start[k]..(EndOf(k) - 1))
    BY <1>1, FS_Interval
  <2>2. IsFiniteSet(W \cap Span(k))
    BY <2>1, FS_Subset DEF Span
  <2> QED
    BY <2>2, FS_CardinalityType DEF CoveredMs
<1>4. q >= ThresholdPct
  BY <1>1, <1>2 DEF IsDone, CoveragePct, LengthMs
<1> HIDE DEF len, c
<1>5. q \in Nat /\ len * q <= 100 * c
  BY <1>2, <1>3, Quotient
<1> HIDE DEF q
<1>6. len * ThresholdPct <= len * q
  BY <1>2, <1>4, <1>5, ThresholdAssumption
<1>7. len * ThresholdPct = ThresholdPct * len
  BY <1>2, ThresholdAssumption
<1>8. 100 * c >= ThresholdPct * len
  BY <1>2, <1>3, <1>5, <1>6, <1>7, ThresholdAssumption
<1> QED
  BY <1>8 DEF c, len

\* Up to the start of a chapter, or to the end, the share was watched: or there
\* is a first place where it was not, and a chapter that ends there.
LEMMA ShareOfAll ==
  ASSUME TypeOK, NEW W \in SUBSET Milliseconds, \E k \in chapters : start[k] = 0,
         \A k \in chapters : IsDone(k, W)
  PROVE  100 * Cardinality(W) >= ThresholdPct * Duration
<1> DEFINE Prefix(m) == W \cap (0..(m - 1))
           Boundary(m) == m = Duration \/ \E k \in chapters : m = start[k]
           size(m) == Cardinality(Prefix(m))
           Held(m) == 100 * size(m) >= ThresholdPct * m
           Bad == {m \in Nat : Boundary(m) /\ ~Held(m)}
<1>1. /\ Duration \in Nat /\ ThresholdPct \in Nat
      /\ \A k \in chapters : start[k] \in Nat /\ start[k] < Duration
  BY SizeAssumption, ThresholdAssumption DEF TypeOK, Milliseconds
<1>2. \A m \in Nat : IsFiniteSet(Prefix(m)) /\ size(m) \in Nat
  <2> SUFFICES ASSUME NEW m \in Nat PROVE IsFiniteSet(Prefix(m)) /\ size(m) \in Nat
    OBVIOUS
  <2>1. IsFiniteSet(0..(m - 1))
    BY FS_Interval
  <2> QED
    BY <2>1, FS_Subset, FS_CardinalityType
<1>3. Bad = {}
  <2> SUFFICES ASSUME Bad # {} PROVE FALSE
    OBVIOUS
  <2>1. PICK m \in Bad : \A n \in Bad : m <= n
    BY LeastElement
  <2>2. m \in Nat /\ Boundary(m) /\ ~Held(m)
    OBVIOUS
  <2>3. m > 0
    <3>1. size(0) \in Nat
      <4>1. 0 \in Nat
        OBVIOUS
      <4> HIDE DEF size
      <4> QED
        BY <4>1, <1>2
    <3>0. ThresholdPct * 0 = 0
      BY <1>1
    <3> HIDE DEF size
    <3>2. Held(0)
      BY <3>1, <3>0
    <3> QED
      BY <2>2, <3>2
  <2>4. (m - 1) \in Nat /\ \E k \in chapters : start[k] <= m - 1
    BY <1>1, <2>2, <2>3
  <2>5. PICK k \in chapters :
          start[k] <= m - 1 /\ \A j \in chapters : start[j] <= m - 1 => start[j] <= start[k]
    BY <2>4, LastBefore
  <2> DEFINE x == start[k]
  <2>7. EndOf(k) = m
    <3>1. /\ EndOf(k) \in Nat /\ EndOf(k) > start[k] /\ EndOf(k) <= Duration
          /\ EndOf(k) = Duration \/ \E j \in chapters : EndOf(k) = start[j]
          /\ \A j \in chapters : start[j] > start[k] => EndOf(k) <= start[j]
      BY EndIsNext
    <3>2. EndOf(k) <= m
      BY <1>1, <2>2, <2>5, <3>1
    <3>3. m <= Duration
      BY <1>1, <2>2
    <3>4. m <= EndOf(k)
      <4>1. CASE EndOf(k) = Duration
        BY <4>1, <3>3
      <4>2. ASSUME NEW j \in chapters, EndOf(k) = start[j] PROVE m <= EndOf(k)
        <5>1. start[j] \in Nat /\ start[j] > x /\ x \in Nat
          BY <4>2, <1>1, <3>1
        <5>2. ~(start[j] <= m - 1)
          BY <5>1, <2>5
        <5> QED
          BY <5>1, <5>2, <4>2, <2>2
      <4> QED
        BY <4>1, <4>2, <3>1
    <3> QED
      BY <3>1, <3>2, <3>4, <2>2
  <2>8. x \in Nat /\ x < m /\ Held(x)
    BY <1>1, <2>1, <2>2, <2>5
  <2>9. size(m) = size(x) + CoveredMs(k, W)
    <3> DEFINE B == W \cap Span(k)
    <3>1. Prefix(m) = Prefix(x) \cup B /\ Prefix(x) \cap B = {}
      BY <2>2, <2>7, <2>8 DEF Span
    <3>2. B \in SUBSET Prefix(m)
      BY <3>1
    <3>3. IsFiniteSet(Prefix(x)) /\ IsFiniteSet(B)
      BY <1>2, <2>2, <2>8, <3>2, FS_Subset
    <3>4. Cardinality(Prefix(x)) \in Nat /\ Cardinality(B) \in Nat
      BY <3>3, FS_CardinalityType
    <3>5. CoveredMs(k, W) = Cardinality(B)
      BY DEF CoveredMs
    <3> HIDE DEF Prefix, B
    <3>6. Cardinality(Prefix(x) \cup B) = Cardinality(Prefix(x)) + Cardinality(B) - Cardinality({})
      BY <3>1, <3>3, FS_Union
    <3> QED
      BY <3>1, <3>4, <3>5, <3>6, FS_EmptySet
  <2>10. 100 * CoveredMs(k, W) >= ThresholdPct * (m - x)
    BY DoneIsShare, <2>7
  <2>11. CoveredMs(k, W) \in Int /\ size(x) \in Nat /\ size(m) \in Nat
    <3>1. size(x) \in Nat /\ size(m) \in Nat
      BY <1>2, <2>2, <2>8
    <3>2. IsFiniteSet(W \cap Span(k))
      <4>1. W \cap Span(k) \in SUBSET Prefix(m)
        BY <2>2, <2>7, <2>8 DEF Span
      <4> QED
        BY <4>1, <1>2, <2>2, FS_Subset
    <3> QED
      BY <3>1, <3>2, FS_CardinalityType DEF CoveredMs
  <2>12. ThresholdPct * m = ThresholdPct * x + ThresholdPct * (m - x)
    BY <1>1, <2>2, <2>8
  <2>13. ~(100 * size(m) >= ThresholdPct * m) /\ 100 * size(x) >= ThresholdPct * x
    BY <2>2, <2>8
  <2> DEFINE before == ThresholdPct * x
             within == ThresholdPct * (m - x)
  <2>14. before \in Nat /\ within \in Nat /\ ThresholdPct * m = before + within
    BY <1>1, <2>2, <2>8, <2>12
  <2> HIDE DEF before, within, size
  <2>15. 100 * size(m) >= before + within
    BY <2>9, <2>10, <2>11, <2>13, <2>14 DEF before, within
  <2> QED
    BY <2>13, <2>14, <2>15
<1>4. Held(Duration)
  BY <1>1, <1>3
<1>5. Prefix(Duration) = W
  BY <1>1 DEF Milliseconds
<1> QED
  BY <1>4, <1>5

LEMMA DoneShows == TypeOK => AllDoneShowsInPercent
<1> SUFFICES ASSUME TypeOK, NEW W \in SUBSET Milliseconds,
                    \E k \in chapters : start[k] = 0, \A k \in chapters : IsDone(k, W)
             PROVE  VideoPct(W) >= ThresholdPct
  BY DEF AllDoneShowsInPercent
<1> DEFINE n == Cardinality(W)
           q == (100 * n) \div Duration
<1>1. n \in Nat
  <2>1. IsFiniteSet(Milliseconds)
    BY SizeAssumption, FS_Interval DEF Milliseconds
  <2> QED
    BY <2>1, FS_Subset, FS_CardinalityType
<1>2. Duration \in Nat \ {0} /\ ThresholdPct \in Nat
  <2>1. Milliseconds # {}
    BY DEF TypeOK
  <2> QED
    BY <2>1, SizeAssumption, ThresholdAssumption DEF Milliseconds
<1>3. 100 * n >= ThresholdPct * Duration
  BY ShareOfAll
<1> HIDE DEF n
<1>4. q \in Nat /\ 100 * n < Duration * q + Duration
  BY <1>1, <1>2, Quotient
<1> HIDE DEF q
<1>5. Duration * q + Duration = Duration * (q + 1) /\ ThresholdPct * Duration = Duration * ThresholdPct
  BY <1>2, <1>4
<1>6. Duration * ThresholdPct < Duration * (q + 1)
  BY <1>1, <1>2, <1>3, <1>4, <1>5
<1>7. ThresholdPct < q + 1
  BY <1>2, <1>4, <1>6
<1>8. VideoPct(W) = q
  BY <1>2 DEF VideoPct, q, n
<1> QED
  BY <1>2, <1>4, <1>7, <1>8

-----------------------------------------------------------------------------
(* The theorems *)

\* Every variable of the chapters keeps its type, and every chapter starts
\* within the video.
THEOREM ChaptersTypeCorrect == Spec => []TypeOK
<1>1. IInv => TypeOK
  BY DEF IInv
<1> QED
  BY Invariance, <1>1, PTL

\* The bounds the reads compute share out the video, whatever requests
\* overlapped.
THEOREM ChaptersPartition == Spec => []BoundsPartition
<1>1. IInv => BoundsPartition
  BY PartitionHolds DEF IInv
<1> QED
  BY Invariance, <1>1, PTL

\* Requests that count together pass the limit by less than their number.
THEOREM LimitOverlapOnly == Spec => []LimitUpToOverlap
<1>1. IInv => LimitUpToOverlap
  <2> SUFFICES ASSUME IInv PROVE LimitUpToOverlap
    OBVIOUS
  <2>1. IsFiniteSet(Clients) /\ IsFiniteSet(chapters) /\ IsFiniteSet(Counted)
    BY ClientsAssumption, FS_Subset DEF IInv, TypeOK, Counted
  <2>2. /\ Cardinality(Clients) \in Nat /\ Cardinality(chapters) \in Nat
        /\ Cardinality(Counted) \in Nat
    BY <2>1, FS_CardinalityType
  <2> QED
    BY <2>2, SizeAssumption DEF IInv, RoomIsKept, LimitUpToOverlap
<1> QED
  BY Invariance, <1>1, PTL

\* One request at a time never passes the limit of chapters.
THEOREM LimitOfOne == ASSUME Cardinality(Clients) = 1
                      PROVE  Spec => [](Cardinality(chapters) <= Limit)
<1>1. IInv => Cardinality(chapters) <= Limit
  <2> SUFFICES ASSUME IInv PROVE Cardinality(chapters) <= Limit
    OBVIOUS
  <2>1. IsFiniteSet(chapters) /\ IsFiniteSet(Counted)
    BY ClientsAssumption, FS_Subset DEF IInv, TypeOK, Counted
  <2>2. Cardinality(chapters) \in Nat /\ Cardinality(Counted) \in Nat
    BY <2>1, FS_CardinalityType
  <2> QED
    BY <2>2, SizeAssumption DEF IInv, RoomIsKept
<1> QED
  BY Invariance, <1>1, PTL

\* The report of the chapters and the percent of the video agree, for any length,
\* any threshold and any chapters.
THEOREM AllDoneShows == Spec => []AllDoneShowsInPercent
<1>1. IInv => AllDoneShowsInPercent
  BY DoneShows DEF IInv
<1> QED
  BY Invariance, <1>1, PTL
=============================================================================
