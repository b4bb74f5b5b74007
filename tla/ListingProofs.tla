---------------------------- MODULE ListingProofs ----------------------------
(***************************************************************************)
(* Proofs about the pages of GET /jobs, for any number of jobs and any     *)
(* limits and filters.                                                     *)
(***************************************************************************)
EXTENDS JobListing, FiniteSetTheorems, SequenceTheorems, TLAPS

-----------------------------------------------------------------------------
(***************************************************************************)
(* Type correctness.                                                       *)
(***************************************************************************)
Rows == {j \in Jobs : row[j] # NoRow}

RowValues ==
  {NoRow, "pending", "scheduled", "processing", "completed", "failed", "dead"}

\* What ListingTypeOK leaves out.
ListingShape ==
  /\ clock \in Nat /\ created \in [Jobs -> Nat]
  /\ limit \in Limits /\ ended \in BOOLEAN
  /\ IsFiniteSet(Rows)

ListingTypes == ListingTypeOK /\ ListingShape

\* The jobs listed are rows, and there are finitely many.
LEMMA MatchingFinite ==
  ASSUME ListingTypes
  PROVE  /\ Matching \subseteq Rows /\ Matching \subseteq Jobs
         /\ IsFiniteSet(Matching) /\ Cardinality(Matching) \in Nat
         /\ \A j \in Matching : created[j] \in Nat /\ created[j] # 0
<1>1. Matching \subseteq Rows /\ Matching \subseteq Jobs
  BY DEF Matching, Rows
<1>2. IsFiniteSet(Matching)
  BY <1>1, FS_Subset DEF ListingTypes, ListingShape
<1>3. Cardinality(Matching) \in Nat
  BY <1>2, FS_CardinalityType
<1>4. \A j \in Matching : created[j] \in Nat /\ created[j] # 0
  BY <1>1 DEF ListingTypes, ListingTypeOK, ListingShape, Rows
<1> QED
  BY <1>1, <1>2, <1>3, <1>4

\* A list of all jobs that match has each of them once.
LEMMA OrderOnce ==
  ASSUME ListingTypes, NEW order \in SetToSeqs(Matching)
  PROVE  /\ order \in Seq(Matching) /\ Len(order) = Cardinality(Matching)
         /\ DOMAIN order = 1 .. Len(order)
         /\ \A i, k \in DOMAIN order : order[i] = order[k] => i = k
         /\ \A j \in Matching : \E i \in DOMAIN order : order[i] = j
<1> DEFINE n == Cardinality(Matching)
<1>1. IsFiniteSet(Matching) /\ n \in Nat
  BY MatchingFinite
<1>2. /\ order \in [1 .. n -> Matching]
      /\ \A i, k \in 1 .. n : i # k => order[i] # order[k]
  BY DEF SetToSeqs
<1>3. order \in Injection(1 .. n, Matching)
  BY <1>2 DEF Injection, IsInjective
<1>4. Cardinality(1 .. n) = n
  BY <1>1, FS_Interval
<1>5. order \in Surjection(1 .. n, Matching)
  BY <1>1, <1>3, <1>4, FS_Injection
<1>6. \A j \in Matching : \E i \in 1 .. n : order[i] = j
  BY <1>5 DEF Surjection
<1> QED
  BY <1>1, <1>2, <1>6

\* Both storages list the jobs that match.
LEMMA OrdersList == Orders \subseteq SetToSeqs(Matching)
BY DEF Orders, PostgresOrders, MemoryOrders

\* The limit is a number.
LEMMA LimitNumber == ASSUME ListingTypes PROVE EffectiveLimit \in Int
BY LimitAssumption DEF ListingTypes, ListingShape, EffectiveLimit

\* The last position of a page.
LastOf(order, offset) ==
  IF EffectiveLimit > 0 /\ offset + EffectiveLimit < Len(order)
    THEN offset + EffectiveLimit
    ELSE Len(order)

\* A page is the part of the list between its offset and its last position.
LEMMA PageIs ==
  ASSUME ListingTypes, NEW order \in Seq(Jobs), NEW offset \in Nat
  PROVE  LET page == Page(order, offset)
             last == LastOf(order, offset)
         IN  /\ page \in Seq(Jobs) /\ last \in Nat
             /\ Len(page) = IF offset < last THEN last - offset ELSE 0
             /\ \A i \in 1 .. (last - offset) : page[i] = order[offset + i]
<1> DEFINE last == LastOf(order, offset)
<1>1. EffectiveLimit \in Int /\ Len(order) \in Nat /\ DOMAIN order = 1 .. Len(order)
  BY LimitNumber
<1>2. last \in Nat /\ last <= Len(order)
  BY <1>1 DEF LastOf
<1>3. Page(order, offset) = SubSeq(order, offset + 1, last)
  BY <1>1 DEF Page, LastOf
<1> HIDE DEF last
<1>4. \A i \in (offset + 1) .. last : order[i] \in Jobs
  BY <1>1, <1>2
<1>5. offset + 1 \in Int /\ last \in Int
  BY <1>2
<1>6. /\ SubSeq(order, offset + 1, last) \in Seq(Jobs)
      /\ Len(SubSeq(order, offset + 1, last)) =
           IF offset + 1 <= last THEN last - (offset + 1) + 1 ELSE 0
      /\ \A i \in 1 .. (last - (offset + 1) + 1) :
           SubSeq(order, offset + 1, last)[i] = order[(offset + 1) + i - 1]
  BY <1>4, <1>5, SubSeqProperties
<1>7. /\ last - (offset + 1) + 1 = last - offset
      /\ offset + 1 <= last <=> offset < last
      /\ \A i \in Int : (offset + 1) + i - 1 = offset + i
  BY <1>2
<1> DEFINE page == Page(order, offset)
<1>8. page \in Seq(Jobs)
  BY <1>3, <1>6
<1>9. Len(page) = IF offset < last THEN last - offset ELSE 0
  BY <1>3, <1>6, <1>7
<1>10. ASSUME NEW i \in 1 .. (last - offset)
       PROVE  page[i] = order[offset + i]
  <2>1. (offset + 1) + i - 1 = offset + i /\ i \in 1 .. (last - (offset + 1) + 1)
    BY <1>7, <1>10
  <2> QED
    BY <1>3, <1>6, <2>1
<1> HIDE DEF page
<1> QED
  BY <1>2, <1>8, <1>9, <1>10, Zenon DEF last, page

\* The steps keep the types.
LEMMA ListingTypesPreserved ==
  ASSUME ListingTypes, [ListingNext]_listingVars
  PROVE  ListingTypes'
<1> USE DEF ListingTypes, ListingTypeOK, ListingShape
<1>1. CASE UNCHANGED listingVars
  BY <1>1 DEF listingVars, tableVars, clientVars, Rows, Matching
<1>2. ASSUME NEW j \in Jobs, BuildJob(j)
      PROVE  ListingTypes'
  <2>1. clock' \in Nat /\ clock' # 0 /\ clock <= clock'
    BY <1>2 DEF BuildJob
  <2>2. Rows' = Rows /\ Matching' = Matching
    BY <1>2 DEF BuildJob, Rows, Matching, clientVars
  <2>3. created' = [created EXCEPT ![j] = clock'] /\ created[j] = 0
    BY <1>2 DEF BuildJob
  <2>4. \A k \in Jobs : created'[k] \in 0 .. clock'
    BY <2>1, <2>3
  <2>5. \A k \in Jobs : row'[k] # NoRow => created'[k] # 0
    BY <1>2, <2>1, <2>3 DEF BuildJob
  <2>6. created' \in [Jobs -> Nat]
    BY <2>1, <2>3
  <2> QED
    BY <1>2, <2>1, <2>2, <2>4, <2>5, <2>6 DEF BuildJob, clientVars
<1>3. ASSUME NEW j \in Jobs, SaveJob(j) \/ UpdateJob(j)
      PROVE  ListingTypes'
  <2>1. created[j] # 0 /\ \E status \in RowValues : row' = [row EXCEPT ![j] = status]
    BY <1>3 DEF SaveJob, UpdateJob, Successors, PostgresSuccessors,
                MemorySuccessors, RowValues
  <2>2. row' \in [Jobs -> RowValues] /\ \A k \in Jobs \ {j} : row'[k] = row[k]
    BY <2>1 DEF RowValues
  <2>3. IsFiniteSet(Rows \cup {j})
    BY FS_AddElement
  <2>4. Rows' \subseteq Rows \cup {j}
    BY <2>2 DEF Rows
  <2>5. IsFiniteSet(Rows')
    BY <2>3, <2>4, FS_Subset
  <2>6. UNCHANGED <<clock, created, limit, read, ended>> /\ Watch
    BY <1>3 DEF SaveJob, UpdateJob, Watch, clientVars
  <2>7. ~ended' => steady' \subseteq Matching'
    BY <2>6 DEF Watch
  <2>8. ListingTypeOK'
    BY <2>1, <2>2, <2>6, <2>7 DEF RowValues
  <2> QED
    BY <2>5, <2>6, <2>8
<1>4. CASE ListJobs
  <2>1. PICK order \in Orders : /\ read' = read \o Page(order, Len(read))
                                /\ ended' = (Page(order, Len(read)) = <<>>)
    BY <1>4 DEF ListJobs
  <2>2. order \in Seq(Jobs) /\ Len(read) \in Nat
    BY <2>1, OrdersList, OrderOnce, MatchingFinite
  <2>3. Page(order, Len(read)) \in Seq(Jobs)
    BY <2>2, PageIs
  <2>4. read' \in Seq(Jobs) /\ ended' \in BOOLEAN
    BY <2>1, <2>3
  <2>5. /\ UNCHANGED <<clock, created, row, filter, limit, steady>> /\ ~ended
        /\ Matching' = Matching /\ Rows' = Rows
    BY <1>4 DEF ListJobs, tableVars, Matching, Rows
  <2> QED
    BY <2>4, <2>5
<1> QED
  BY <1>1, <1>2, <1>3, <1>4 DEF ListingNext

\* The types hold in every behaviour.
LEMMA ListingTypesHold == ListingSpec => []ListingTypes
<1>1. ListingInit => ListingTypes
  <2> SUFFICES ASSUME ListingInit PROVE ListingTypes
    OBVIOUS
  <2>1. Rows = {}
    BY DEF ListingInit, Rows
  <2>2. IsFiniteSet(Rows)
    BY <2>1, FS_EmptySet
  <2>3. ListingShape
    BY <2>2 DEF ListingInit, ListingShape
  <2>4. ListingTypeOK
    BY DEF ListingInit, ListingTypeOK
  <2> QED
    BY <2>3, <2>4 DEF ListingTypes
<1>2. ListingTypes /\ [ListingNext]_listingVars => ListingTypes'
  BY ListingTypesPreserved
<1> QED
  BY <1>1, <1>2, PTL DEF ListingSpec

(***************************************************************************)
(* Rows, stamps and pages have their types: a row has a stamp not later    *)
(* than the clock from SaveJob on, a page holds jobs, and what a walk is   *)
(* to find matches the filter while it lasts.                              *)
(***************************************************************************)
THEOREM ListingTypeCorrect == ListingSpec => []ListingTypeOK
BY ListingTypesHold, PTL DEF ListingTypes

-----------------------------------------------------------------------------
(***************************************************************************)
(* The place of a job in the list.                                         *)
(***************************************************************************)

\* The jobs listed before it.
Newer(j) == {k \in Matching : created[k] > created[j]}

Rank(j) == Cardinality(Newer(j))

\* The number of jobs listed before it is a number.
LEMMA RankNumber ==
  ASSUME ListingTypes, NEW j
  PROVE  IsFiniteSet(Newer(j)) /\ Rank(j) \in Nat
<1>1. Newer(j) \subseteq Matching
  BY DEF Newer
<1>2. IsFiniteSet(Newer(j))
  BY <1>1, MatchingFinite, FS_Subset
<1> QED
  BY <1>2, FS_CardinalityType DEF Rank

\* ORDER BY created_at DESC puts a job after the newer ones and no others,
\* when no two jobs have the same stamp.
LEMMA RankAt ==
  ASSUME ListingTypes, Ordered, NEW order \in Orders, NEW i \in DOMAIN order
  PROVE  Rank(order[i]) = i - 1
<1> DEFINE before == [k \in 1 .. (i - 1) |-> order[k]]
           N == Newer(order[i])
<1>1. /\ order \in Seq(Matching) /\ DOMAIN order = 1 .. Len(order)
      /\ Len(order) \in Nat
      /\ \A k, l \in DOMAIN order : order[k] = order[l] => k = l
      /\ \A j \in Matching : \E k \in DOMAIN order : order[k] = j
  BY OrdersList, OrderOnce
<1>2. \A k, l \in DOMAIN order : k < l => created[order[k]] >= created[order[l]]
  BY DEF Orders, PostgresOrders, Ordered
<1>3. \A k \in DOMAIN order : /\ order[k] \in Matching /\ order[k] \in Jobs
                              /\ created[order[k]] \in Nat /\ created[order[k]] # 0
  BY <1>1, MatchingFinite
<1>4. \A k, l \in DOMAIN order : k # l => created[order[k]] # created[order[l]]
  BY <1>1, <1>3 DEF Ordered
<1>5. \A k \in DOMAIN order : created[order[k]] > created[order[i]] <=> k < i
  <2> SUFFICES ASSUME NEW k \in DOMAIN order
               PROVE  created[order[k]] > created[order[i]] <=> k < i
    OBVIOUS
  <2>1. k \in Int /\ i \in Int
    BY <1>1
  <2>2. CASE k < i
    BY <1>2, <1>3, <1>4, <2>1, <2>2
  <2>3. CASE k = i
    BY <1>3, <2>1, <2>3
  <2>4. CASE i < k
    BY <1>2, <1>3, <2>1, <2>4
  <2> QED
    BY <2>1, <2>2, <2>3, <2>4
<1>6. i \in Nat /\ 1 .. (i - 1) \subseteq DOMAIN order
      /\ \A k \in DOMAIN order : k < i => k \in 1 .. (i - 1)
  BY <1>1
<1>7. \A k \in 1 .. (i - 1) : order[k] \in N
  BY <1>1, <1>3, <1>5, <1>6 DEF Newer
<1>8. \A j \in N : \E k \in 1 .. (i - 1) : order[k] = j
  <2> SUFFICES ASSUME NEW j \in N
               PROVE  \E k \in 1 .. (i - 1) : order[k] = j
    OBVIOUS
  <2>1. j \in Matching /\ created[j] > created[order[i]]
    BY DEF Newer
  <2>2. PICK k \in DOMAIN order : order[k] = j
    BY <1>1, <2>1
  <2> QED
    BY <1>5, <1>6, <2>1, <2>2
<1> HIDE DEF N
<1>9. before \in Injection(1 .. (i - 1), N)
  BY <1>1, <1>6, <1>7 DEF Injection, IsInjective
<1>10. before \in Surjection(1 .. (i - 1), N)
  BY <1>7, <1>8 DEF Surjection
<1> HIDE DEF before
<1>11. IsFiniteSet(N)
  BY RankNumber DEF N
<1>12. Cardinality(1 .. (i - 1)) = Cardinality(N)
  BY <1>9, <1>10, <1>11, FS_Injection
<1>13. Cardinality(1 .. (i - 1)) = i - 1
  <2>1. \A m \in Nat : Cardinality(1 .. m) = m
    BY FS_Interval
  <2>2. i - 1 \in Nat
    BY <1>1, <1>6
  <2> QED
    BY <2>1, <2>2
<1> QED
  BY <1>12, <1>13 DEF Rank, N

-----------------------------------------------------------------------------
(***************************************************************************)
(* What the table's steps mean to a walk.                                  *)
(***************************************************************************)

\* A step of ScheduleJob, a worker or the clock.
TableStep == \E j \in Jobs : BuildJob(j) \/ SaveJob(j) \/ UpdateJob(j)

\* Stamps are set once and never changed.
LEMMA StampsStay ==
  ASSUME ListingTypes, [ListingNext]_listingVars
  PROVE  /\ \A j \in Jobs : created[j] # 0 => created'[j] = created[j]
         /\ \A j \in Matching : created'[j] = created[j]
         /\ Ordered' => Ordered
         /\ EffectiveLimit' = EffectiveLimit
<1>1. \A j \in Jobs : created[j] # 0 => created'[j] = created[j]
  BY DEF ListingNext, BuildJob, SaveJob, UpdateJob, ListJobs, listingVars,
         tableVars, ListingTypes, ListingShape
<1>2. storage' = storage /\ limit' = limit
  BY DEF ListingNext, BuildJob, SaveJob, UpdateJob, ListJobs, Watch, listingVars,
         tableVars, clientVars
<1>3. \A j \in Matching : created'[j] = created[j]
  BY <1>1, MatchingFinite
<1>4. Ordered' => Ordered
  BY <1>1, <1>2 DEF Ordered
<1> QED
  BY <1>1, <1>2, <1>3, <1>4 DEF EffectiveLimit

\* What a step of the table leaves of a walk.
LEMMA TableSteps ==
  ASSUME ListingTypes, ListingTypes', TableStep \/ UNCHANGED listingVars
  PROVE  /\ UNCHANGED <<read, ended>>
         /\ ended => UNCHANGED <<steady, moves>>
         /\ ~ended /\ read = <<>> /\ steady = Matching /\ moves = {}
              => steady' = Matching' /\ moves' = {}
         /\ ~ended /\ read # <<>> =>
              /\ steady' \subseteq steady /\ moves \subseteq moves'
              /\ "left" \notin moves' => Matching \subseteq Matching'
              /\ "came" \notin moves' => Matching' \subseteq Matching
<1>1. CASE UNCHANGED listingVars
  BY <1>1 DEF listingVars, tableVars, clientVars, Matching
<1>2. ASSUME NEW j \in Jobs, BuildJob(j)
      PROVE  UNCHANGED <<read, ended, steady, moves>> /\ Matching' = Matching
  BY <1>2 DEF BuildJob, clientVars, Matching
<1>3. ASSUME NEW j \in Jobs, SaveJob(j) \/ UpdateJob(j)
      PROVE  Watch
  BY <1>3 DEF SaveJob, UpdateJob
<1>4. CASE Watch
  <2>1. UNCHANGED <<read, ended>>
    BY <1>4 DEF Watch, clientVars
  <2>2. ended => UNCHANGED <<steady, moves>>
    BY <1>4 DEF Watch
  <2>3. ~ended /\ read = <<>> => steady' = Matching' /\ moves' = {}
    BY <1>4 DEF Watch
  <2>4. ASSUME ~ended, read # <<>>
        PROVE  /\ steady' \subseteq steady /\ moves \subseteq moves'
               /\ "left" \notin moves' => Matching \subseteq Matching'
               /\ "came" \notin moves' => Matching' \subseteq Matching
    <3>1. /\ steady' = steady \cap Matching'
          /\ moves' = moves
               \cup (IF Matching' \subseteq Matching THEN {} ELSE {"came"})
               \cup (IF Matching \subseteq Matching' THEN {} ELSE {"left"})
      BY <1>4, <2>4 DEF Watch
    <3> QED
      BY <3>1
  <2> QED
    BY <2>1, <2>2, <2>3, <2>4
<1> QED
  BY <1>1, <1>2, <1>3, <1>4 DEF TableStep

\* While none leaves, a job that matches is not listed earlier than before.
LEMMA RankGrows ==
  ASSUME ListingTypes, ListingTypes', [ListingNext]_listingVars,
         Matching \subseteq Matching', NEW j \in Matching
  PROVE  /\ Rank(j) <= Rank(j)'
         /\ Matching' = Matching => Rank(j)' = Rank(j)
<1>1. \A k \in Matching : created'[k] = created[k]
  BY StampsStay
<1>2. Newer(j) \subseteq Newer(j)' /\ (Matching' = Matching => Newer(j)' = Newer(j))
  BY <1>1 DEF Newer
<1>3. IsFiniteSet(Newer(j)')
  <2>1. Newer(j)' \subseteq Rows'
    BY DEF Newer, Matching, Rows
  <2>2. IsFiniteSet(Rows')
    BY DEF ListingTypes, ListingShape
  <2> QED
    BY <2>1, <2>2, FS_Subset
<1> QED
  BY <1>2, <1>3, FS_Subset DEF Rank

-----------------------------------------------------------------------------
(***************************************************************************)
(* A walk misses nothing.                                                  *)
(***************************************************************************)

\* Before its first page a walk has everything before it.
WalkBegins == ~ended /\ read = <<>> => steady = Matching /\ moves = {}

(***************************************************************************)
(* A job the walk is to find has been read or is listed among what is not  *)
(* read yet: at least as many jobs as have been read come before it.       *)
(***************************************************************************)
NothingSkipped ==
  ~ended /\ "left" \notin moves /\ Ordered =>
    \A j \in steady : j \in Range(read) \/ Len(read) <= Rank(j)

\* Without a limit the first page has them all.
FirstPageWhole ==
  ~ended /\ read # <<>> /\ EffectiveLimit <= 0 => steady \subseteq Range(read)

WalkOnTrack ==
  WalkBegins /\ NothingSkipped /\ FirstPageWhole /\ WalkComplete

\* What a list holds after another has been put at its end.
LEMMA RangeConcat ==
  ASSUME NEW S, NEW s \in Seq(S), NEW t \in Seq(S)
  PROVE  /\ Range(s) \subseteq Range(s \o t)
         /\ \A i \in DOMAIN t : t[i] \in Range(s \o t)
<1>1. \A u, x : x \in Range(u) <=> \E i \in DOMAIN u : u[i] = x
  BY Zenon DEF Range
<1>2. \A i \in DOMAIN s : i \in DOMAIN (s \o t) /\ (s \o t)[i] = s[i]
  OBVIOUS
<1>3. \A i \in DOMAIN t : /\ i + Len(s) \in DOMAIN (s \o t)
                          /\ (s \o t)[i + Len(s)] = t[i]
  OBVIOUS
<1>4. \A i \in DOMAIN t : t[i] \in Range(s \o t)
  BY <1>1, <1>3, Zenon
<1>5. ASSUME NEW x \in Range(s)
      PROVE  x \in Range(s \o t)
  <2>1. PICK i \in DOMAIN s : s[i] = x
    BY <1>1, <1>5, Zenon
  <2>2. i \in DOMAIN (s \o t) /\ (s \o t)[i] = x
    BY <1>2, <2>1, Zenon
  <2> QED
    BY <1>1, <2>2, Zenon
<1> QED
  BY <1>4, <1>5, Zenon

\* One page of a walk: what the answer holds.
LEMMA OnePage ==
  ASSUME ListingTypes, ListJobs
  PROVE  \E order \in Orders : \E page \in Seq(Jobs) :
           /\ order \in Seq(Matching) /\ Len(order) = Cardinality(Matching)
           /\ DOMAIN order = 1 .. Len(order)
           /\ \A i, k \in DOMAIN order : order[i] = order[k] => i = k
           /\ \A j \in Matching : \E i \in DOMAIN order : order[i] = j
           /\ read' = read \o page /\ (ended' <=> page = <<>>) /\ ended' \in BOOLEAN
           /\ LET last == LastOf(order, Len(read)) IN
              /\ Len(page) = IF Len(read) < last THEN last - Len(read) ELSE 0
              /\ \A i \in 1 .. (last - Len(read)) : page[i] = order[Len(read) + i]
<1>1. PICK order \in Orders : /\ read' = read \o Page(order, Len(read))
                              /\ ended' = (Page(order, Len(read)) = <<>>)
  BY DEF ListJobs
<1>2. /\ order \in Seq(Matching) /\ Len(order) = Cardinality(Matching)
      /\ DOMAIN order = 1 .. Len(order)
      /\ \A i, k \in DOMAIN order : order[i] = order[k] => i = k
      /\ \A j \in Matching : \E i \in DOMAIN order : order[i] = j
  BY <1>1, OrdersList, OrderOnce
<1>3. order \in Seq(Jobs) /\ Len(read) \in Nat
  BY <1>2, MatchingFinite DEF ListingTypes, ListingTypeOK
<1> DEFINE page == Page(order, Len(read))
           last == LastOf(order, Len(read))
<1>4. /\ page \in Seq(Jobs)
      /\ Len(page) = IF Len(read) < last THEN last - Len(read) ELSE 0
      /\ \A i \in 1 .. (last - Len(read)) : page[i] = order[Len(read) + i]
  BY <1>3, PageIs
<1> HIDE DEF page
<1>5. read' = read \o page /\ (ended' <=> page = <<>>) /\ ended' \in BOOLEAN
  BY <1>1 DEF page
<1> QED
  BY <1>2, <1>4, <1>5

\* A page takes the walk on.
LEMMA PageOnTrack ==
  ASSUME ListingTypes, ListingTypes', WalkOnTrack, ListJobs
  PROVE  WalkOnTrack'
<1>1. /\ ~ended
      /\ UNCHANGED <<storage, clock, created, row, filter, limit, steady, moves>>
  BY DEF ListJobs, tableVars
<1>2. /\ Matching' = Matching /\ EffectiveLimit' = EffectiveLimit
      /\ (Ordered' <=> Ordered) /\ \A j : Rank(j)' = Rank(j)
  BY <1>1 DEF Matching, EffectiveLimit, Ordered, Rank, Newer
<1> DEFINE o == Len(read)
           L == EffectiveLimit
<1>3. PICK order \in Orders, page \in Seq(Jobs) :
        /\ order \in Seq(Matching) /\ Len(order) = Cardinality(Matching)
        /\ DOMAIN order = 1 .. Len(order)
        /\ \A i, k \in DOMAIN order : order[i] = order[k] => i = k
        /\ \A j \in Matching : \E i \in DOMAIN order : order[i] = j
        /\ read' = read \o page /\ (ended' <=> page = <<>>) /\ ended' \in BOOLEAN
        /\ Len(page) = IF o < LastOf(order, o) THEN LastOf(order, o) - o ELSE 0
        /\ \A i \in 1 .. (LastOf(order, o) - o) : page[i] = order[o + i]
  BY OnePage
<1> DEFINE last == LastOf(order, o)
           n == Len(order)
<1>4. /\ read \in Seq(Jobs) /\ o \in Nat /\ L \in Int /\ n \in Nat
      /\ last = IF L > 0 /\ o + L < n THEN o + L ELSE n
      /\ Len(read') = o + Len(page) /\ Len(page) \in Nat
      /\ DOMAIN page = 1 .. Len(page)
      /\ page = <<>> <=> Len(page) = 0
  <2>1. read \in Seq(Jobs) /\ o \in Nat /\ n \in Nat
    BY <1>3 DEF ListingTypes, ListingTypeOK
  <2>2. L \in Int /\ last = IF L > 0 /\ o + L < n THEN o + L ELSE n
    BY LimitNumber DEF LastOf
  <2>3. /\ Len(page) \in Nat /\ DOMAIN page = 1 .. Len(page)
        /\ page = <<>> <=> Len(page) = 0
    OBVIOUS
  <2>4. Len(read') = o + Len(page)
    <3>1. \A s, u \in Seq(Jobs) : Len(s \o u) = Len(s) + Len(u)
      OBVIOUS
    <3> QED
      BY <1>3, <2>1, <3>1
  <2> QED
    BY <2>1, <2>2, <2>3, <2>4
<1>5. /\ Range(read) \subseteq Range(read')
      /\ \A i \in DOMAIN page : page[i] \in Range(read')
  BY <1>3, <1>4, RangeConcat
<1>6. steady \subseteq Matching
  BY <1>1 DEF ListingTypes, ListingTypeOK
<1> HIDE DEF o, L, last, n
<1>7. \A i \in DOMAIN order : o < i /\ i <= last => order[i] \in Range(read')
  <2> SUFFICES ASSUME NEW i \in DOMAIN order, o < i, i <= last
               PROVE  order[i] \in Range(read')
    OBVIOUS
  <2>0. i \in Int /\ last \in Int /\ o \in Int
    BY <1>3, <1>4
  <2>1. i - o \in 1 .. (last - o) /\ o + (i - o) = i /\ o < last
    BY <2>0
  <2>2. page[i - o] = order[o + (i - o)]
    BY <1>3, <2>1 DEF last
  <2>3. Len(page) = last - o
    BY <1>3, <2>1 DEF last
  <2>4. i - o \in DOMAIN page
    BY <1>4, <2>1, <2>3
  <2> QED
    BY <1>5, <2>1, <2>2, <2>4
\* With the jobs in order, one that has not been read comes now or later.
<1>8. ASSUME "left" \notin moves, Ordered, NEW j \in steady
      PROVE  j \in Range(read') \/ (page # <<>> /\ Len(read') <= Rank(j))
  <2>1. PICK i \in DOMAIN order : order[i] = j
    BY <1>3, <1>6, <1>8
  <2>2. Rank(j) = i - 1 /\ i \in 1 .. n
    BY <1>3, <1>8, <2>1, RankAt DEF n
  <2>3. j \in Range(read) \/ o <= i - 1
    BY <1>1, <1>8, <2>2 DEF WalkOnTrack, NothingSkipped, o
  <2>4. CASE j \in Range(read)
    BY <1>5, <2>4
  <2>5. CASE o <= i - 1 /\ i <= last
    BY <1>4, <1>7, <2>1, <2>2, <2>5
  <2>6. CASE o <= i - 1 /\ last < i
    <3>1. L > 0 /\ last = o + L
      BY <1>4, <2>2, <2>6
    <3>2. Len(page) = L
      BY <1>3, <1>4, <3>1 DEF last
    <3> QED
      BY <1>4, <2>2, <2>6, <3>1, <3>2
  <2> QED
    BY <1>4, <2>2, <2>3, <2>4, <2>5, <2>6
\* Without a limit the first page is the list.
<1>9. ASSUME L <= 0
      PROVE  steady \subseteq Range(read')
  <2>1. CASE read # <<>>
    BY <1>1, <1>5, <1>9, <2>1 DEF WalkOnTrack, FirstPageWhole, L
  <2>2. CASE read = <<>>
    <3>1. o = 0 /\ last = n
      BY <1>4, <1>9, <2>2 DEF o
    <3> SUFFICES ASSUME NEW j \in steady
                 PROVE  j \in Range(read')
      OBVIOUS
    <3>2. PICK i \in DOMAIN order : order[i] = j
      BY <1>3, <1>6
    <3>3. o < i /\ i <= last
      BY <1>3, <1>4, <3>1 DEF n
    <3> QED
      BY <1>7, <3>2, <3>3
  <2> QED
    BY <2>1, <2>2
<1>10. WalkBegins'
  <2>1. ~ended' => read' # <<>>
    BY <1>3, <1>4
  <2> QED
    BY <2>1 DEF WalkBegins
<1>11. NothingSkipped'
  BY <1>1, <1>2, <1>8 DEF NothingSkipped
<1>12. FirstPageWhole'
  BY <1>1, <1>2, <1>9 DEF FirstPageWhole, L
<1>13. WalkComplete'
  BY <1>1, <1>2, <1>3, <1>8, <1>9 DEF WalkComplete, L
<1> QED
  BY <1>10, <1>11, <1>12, <1>13 DEF WalkOnTrack

\* So does no step of the table take it off its way.
LEMMA TableOnTrack ==
  ASSUME ListingTypes, ListingTypes', WalkOnTrack,
         TableStep \/ UNCHANGED listingVars
  PROVE  WalkOnTrack'
<1>n. [ListingNext]_listingVars
  BY DEF TableStep, ListingNext
<1>1. /\ read' = read /\ ended' = ended /\ (Ordered' => Ordered)
      /\ EffectiveLimit' = EffectiveLimit
  BY <1>n, TableSteps, StampsStay
<1>2. CASE ended
  <2>1. steady' = steady /\ moves' = moves
    BY <1>2, TableSteps
  <2> QED
    BY <1>1, <1>2, <2>1
    DEF WalkOnTrack, WalkBegins, NothingSkipped, FirstPageWhole, WalkComplete
<1>3. CASE ~ended /\ read = <<>>
  <2>1. steady' = Matching' /\ moves' = {}
    BY <1>3, TableSteps DEF WalkOnTrack, WalkBegins
  <2>2. Len(read') = 0 /\ \A j : Rank(j)' \in Nat
    <3>1. \A j : Newer(j)' \subseteq Rows'
      BY DEF Newer, Matching, Rows
    <3>2. IsFiniteSet(Rows')
      BY DEF ListingTypes, ListingShape
    <3>3. \A j : Cardinality(Newer(j)') \in Nat
      BY <3>1, <3>2, FS_Subset, FS_CardinalityType
    <3> QED
      BY <1>1, <1>3, <3>3 DEF Rank
  <2>3. \A j : Len(read') <= Rank(j)'
    BY <2>2
  <2> QED
    BY <1>1, <1>3, <2>1, <2>3
    DEF WalkOnTrack, WalkBegins, NothingSkipped, FirstPageWhole, WalkComplete
<1>4. CASE ~ended /\ read # <<>>
  <2>1. /\ steady' \subseteq steady /\ moves \subseteq moves'
        /\ "left" \notin moves' => Matching \subseteq Matching'
    BY <1>4, TableSteps
  <2>2. steady \subseteq Matching
    BY <1>4 DEF ListingTypes, ListingTypeOK
  <2>3. NothingSkipped'
    <3> SUFFICES ASSUME "left" \notin moves', Ordered', NEW j \in steady'
                 PROVE  j \in Range(read') \/ Len(read') <= Rank(j)'
      BY DEF NothingSkipped
    <3>1. j \in Range(read) \/ Len(read) <= Rank(j)
      BY <1>1, <1>4, <2>1 DEF WalkOnTrack, NothingSkipped
    <3>2. Rank(j) <= Rank(j)' /\ j \in Matching
      BY <1>n, <2>1, <2>2, RankGrows
    <3>3. Rank(j) \in Nat /\ Len(read) \in Nat
      BY RankNumber DEF ListingTypes, ListingTypeOK
    <3>4. Rank(j)' \in Nat
      <4>1. Newer(j)' \subseteq Rows'
        BY DEF Newer, Matching, Rows
      <4>2. IsFiniteSet(Rows')
        BY DEF ListingTypes, ListingShape
      <4> QED
        BY <4>1, <4>2, FS_Subset, FS_CardinalityType DEF Rank
    <3> QED
      BY <1>1, <3>1, <3>2, <3>3, <3>4
  <2>4. FirstPageWhole'
    BY <1>1, <1>4, <2>1 DEF WalkOnTrack, FirstPageWhole
  <2> QED
    BY <1>1, <1>4, <2>3, <2>4 DEF WalkOnTrack, WalkBegins, WalkComplete
<1> QED
  BY <1>2, <1>3, <1>4

(***************************************************************************)
(* For any number of jobs and any limit: while no job leaves the filter, a *)
(* walk through the pages of PostgreSQL's list, with stamps that differ,   *)
(* and any walk without a limit, misses no job that was there from the     *)
(* beginning, however many come in between its requests.                   *)
(***************************************************************************)
THEOREM NoneMissed == ListingSpec => []WalkComplete
<1>1. ListingInit => WalkOnTrack
  BY DEF ListingInit, WalkOnTrack, WalkBegins, NothingSkipped, FirstPageWhole,
         WalkComplete, Matching
<1>2. ListingTypes /\ ListingTypes' /\ WalkOnTrack /\ [ListingNext]_listingVars
        => WalkOnTrack'
  BY PageOnTrack, TableOnTrack DEF ListingNext, TableStep
<1>3. WalkOnTrack => WalkComplete
  BY DEF WalkOnTrack
<1> QED
  BY <1>1, <1>2, <1>3, ListingTypesHold, PTL DEF ListingSpec

-----------------------------------------------------------------------------
(***************************************************************************)
(* A walk repeats nothing.                                                 *)
(***************************************************************************)

\* While nothing moves, what has been read is the beginning of the list.
ReadInOrder ==
  ~ended /\ moves = {} /\ Ordered =>
    \A i \in DOMAIN read : read[i] \in Matching /\ Rank(read[i]) = i - 1

\* Without a limit it is the list.
ReadAtOnce ==
  ~ended /\ moves = {} /\ EffectiveLimit <= 0 /\ read # <<>> =>
    Len(read) = Cardinality(Matching)

NoRepeats == ReadInOrder /\ ReadAtOnce /\ WalkRepeatsNothing

\* A page repeats nothing.
LEMMA PageRepeatsNothing ==
  ASSUME ListingTypes, ListingTypes', NoRepeats, ListJobs
  PROVE  NoRepeats'
<1>1. /\ ~ended
      /\ UNCHANGED <<storage, clock, created, row, filter, limit, steady, moves>>
  BY DEF ListJobs, tableVars
<1>2. /\ Matching' = Matching /\ EffectiveLimit' = EffectiveLimit
      /\ (Ordered' <=> Ordered) /\ \A j : Rank(j)' = Rank(j)
  BY <1>1 DEF Matching, EffectiveLimit, Ordered, Rank, Newer
<1> DEFINE o == Len(read)
<1>3. PICK order \in Orders, page \in Seq(Jobs) :
        /\ order \in Seq(Matching) /\ Len(order) = Cardinality(Matching)
        /\ DOMAIN order = 1 .. Len(order)
        /\ \A i, k \in DOMAIN order : order[i] = order[k] => i = k
        /\ read' = read \o page /\ (ended' <=> page = <<>>)
        /\ Len(page) = IF o < LastOf(order, o) THEN LastOf(order, o) - o ELSE 0
        /\ \A i \in 1 .. (LastOf(order, o) - o) : page[i] = order[o + i]
  BY OnePage
<1> DEFINE last == LastOf(order, o)
<1>4. /\ read \in Seq(Jobs) /\ o \in Nat /\ DOMAIN read = 1 .. o
      /\ Len(order) \in Nat /\ Len(page) \in Nat /\ DOMAIN page = 1 .. Len(page)
      /\ page = <<>> <=> Len(page) = 0
  BY <1>3 DEF ListingTypes, ListingTypeOK
<1>5. last \in Nat /\ last <= Len(order) /\ (EffectiveLimit <= 0 => last = Len(order))
  BY <1>4, LimitNumber DEF LastOf
<1>6. /\ read' \in Seq(Jobs) /\ Len(read') = o + Len(page)
      /\ DOMAIN read' = 1 .. (o + Len(page))
      /\ \A i \in 1 .. o : read'[i] = read[i]
      /\ \A i \in (o + 1) .. (o + Len(page)) : read'[i] = page[i - o]
  <2>1. \A s, u \in Seq(Jobs) :
          /\ s \o u \in Seq(Jobs) /\ Len(s \o u) = Len(s) + Len(u)
          /\ DOMAIN (s \o u) = 1 .. (Len(s) + Len(u))
          /\ \A i \in 1 .. Len(s) : (s \o u)[i] = s[i]
          /\ \A i \in (Len(s) + 1) .. (Len(s) + Len(u)) :
               (s \o u)[i] = u[i - Len(s)]
    OBVIOUS
  <2>2. read' = read \o page /\ read \in Seq(Jobs) /\ page \in Seq(Jobs)
    BY <1>3, <1>4
  <2> QED
    BY <2>1, <2>2, Zenon
<1> HIDE DEF o, last
<1>7. page # <<>> => Len(page) = last - o
  BY <1>3, <1>4 DEF last
<1>8. \A i \in (o + 1) .. (o + Len(page)) :
        i \in DOMAIN order /\ read'[i] = order[i]
  <2> SUFFICES ASSUME NEW i \in (o + 1) .. (o + Len(page))
               PROVE  i \in DOMAIN order /\ read'[i] = order[i]
    OBVIOUS
  <2>1. Len(page) = last - o
    BY <1>4, <1>7
  <2>2. i - o \in 1 .. (last - o) /\ o + (i - o) = i /\ i \in 1 .. Len(order)
    BY <1>4, <1>5, <2>1
  <2>3. page[i - o] = order[o + (i - o)]
    BY <1>3, <2>2 DEF last
  <2> QED
    BY <1>3, <1>6, <2>2, <2>3
<1>9. ReadInOrder'
  <2> SUFFICES ASSUME moves = {}, Ordered, NEW i \in DOMAIN read'
               PROVE  read'[i] \in Matching /\ Rank(read'[i]) = i - 1
    BY <1>1, <1>2 DEF ReadInOrder
  <2>1. CASE i \in 1 .. o
    BY <1>1, <1>4, <1>6, <2>1 DEF NoRepeats, ReadInOrder
  <2>2. CASE i \in (o + 1) .. (o + Len(page))
    <3>1. i \in DOMAIN order /\ read'[i] = order[i]
      BY <1>8, <2>2
    <3>2. order[i] \in Matching
      BY <1>3, <3>1
    <3>3. Rank(order[i]) = i - 1
      BY <1>3, <3>1, RankAt
    <3> QED
      BY <3>1, <3>2, <3>3
  <2> QED
    BY <1>4, <1>6, <2>1, <2>2
<1>10. ASSUME moves = {}, EffectiveLimit <= 0
       PROVE  /\ page # <<>> => Len(read') = Cardinality(Matching)
              /\ \A i, k \in DOMAIN read' : read'[i] = read'[k] => i = k
  <2>1. CASE read = <<>>
    <3>1. o = 0
      BY <2>1 DEF o
    <3>2. page # <<>> => Len(read') = Cardinality(Matching)
      BY <1>3, <1>4, <1>5, <1>6, <1>7, <1>10, <3>1
    <3>3. \A i \in DOMAIN read' : i \in DOMAIN order /\ read'[i] = order[i]
      BY <1>4, <1>6, <1>8, <3>1
    <3> QED
      BY <1>3, <3>2, <3>3
  <2>2. CASE read # <<>>
    <3>1. o = Len(order)
      BY <1>1, <1>3, <1>10, <2>2 DEF NoRepeats, ReadAtOnce, o
    <3>2. page = <<>>
      BY <1>4, <1>5, <1>7, <1>10, <3>1
    <3>3. \A i, k \in DOMAIN read : read[i] = read[k] => i = k
      BY <1>10 DEF NoRepeats, WalkRepeatsNothing, IsInjective
    <3>4. DOMAIN read' = DOMAIN read /\ \A i \in DOMAIN read : read'[i] = read[i]
      BY <1>4, <1>6, <3>2
    <3> QED
      BY <3>2, <3>3, <3>4
  <2> QED
    BY <2>1, <2>2
<1>11. ReadAtOnce'
  BY <1>1, <1>2, <1>3, <1>10 DEF ReadAtOnce
<1>12. WalkRepeatsNothing'
  <2>1. ASSUME moves = {}, Ordered
        PROVE  \A i, k \in DOMAIN read' : read'[i] = read'[k] => i = k
    <3>1. CASE page # <<>>
      <4>1. \A i \in DOMAIN read' : i \in Int /\ Rank(read'[i]) = i - 1
        BY <1>1, <1>2, <1>3, <1>4, <1>6, <1>9, <2>1, <3>1 DEF ReadInOrder
      <4> SUFFICES ASSUME NEW i \in DOMAIN read', NEW k \in DOMAIN read',
                          read'[i] = read'[k]
                   PROVE  i = k
        OBVIOUS
      <4>2. i \in Int /\ k \in Int /\ i - 1 = k - 1
        BY <4>1
      <4> QED
        BY <4>2
    <3>2. CASE page = <<>>
      <4>1. \A i, k \in DOMAIN read : read[i] = read[k] => i = k
        BY <2>1 DEF NoRepeats, WalkRepeatsNothing, IsInjective
      <4>2. DOMAIN read' = DOMAIN read /\ \A i \in DOMAIN read : read'[i] = read[i]
        BY <1>4, <1>6, <3>2
      <4> QED
        BY <4>1, <4>2
    <3> QED
      BY <3>1, <3>2
  <2> QED
    BY <1>1, <1>2, <1>10, <2>1 DEF WalkRepeatsNothing, IsInjective
<1> QED
  BY <1>9, <1>11, <1>12 DEF NoRepeats

\* No more does a step of the table make it repeat something.
LEMMA TableRepeatsNothing ==
  ASSUME ListingTypes, ListingTypes', WalkBegins, NoRepeats,
         TableStep \/ UNCHANGED listingVars
  PROVE  NoRepeats'
<1>n. [ListingNext]_listingVars
  BY DEF TableStep, ListingNext
<1>1. /\ read' = read /\ ended' = ended /\ (Ordered' => Ordered)
      /\ EffectiveLimit' = EffectiveLimit
  BY <1>n, TableSteps, StampsStay
<1>2. CASE ended
  <2>1. moves' = moves
    BY <1>2, TableSteps
  <2> QED
    BY <1>1, <1>2, <2>1 DEF NoRepeats, ReadInOrder, ReadAtOnce, WalkRepeatsNothing
<1>3. CASE ~ended /\ read = <<>>
  <2>1. DOMAIN read' = {} /\ read' = <<>>
    BY <1>1, <1>3
  <2> QED
    BY <2>1 DEF NoRepeats, ReadInOrder, ReadAtOnce, WalkRepeatsNothing, IsInjective
<1>4. CASE ~ended /\ read # <<>>
  <2>1. moves' = {} => moves = {} /\ Matching' = Matching
    BY <1>4, TableSteps
  <2>2. ReadInOrder'
    <3> SUFFICES ASSUME moves' = {}, Ordered', NEW i \in DOMAIN read
                 PROVE  read[i] \in Matching' /\ Rank(read[i])' = i - 1
      BY <1>1 DEF ReadInOrder
    <3>1. read[i] \in Matching /\ Rank(read[i]) = i - 1
      BY <1>1, <1>4, <2>1 DEF NoRepeats, ReadInOrder
    <3>2. PICK j \in Matching : j = read[i] /\ j = read'[i]
      BY <1>1, <3>1
    <3>3. Rank(j)' = Rank(j)
      BY <1>n, <2>1, RankGrows
    <3> QED
      BY <1>1, <2>1, <3>1, <3>2, <3>3
  <2> QED
    BY <1>1, <1>4, <2>1, <2>2 DEF NoRepeats, ReadAtOnce, WalkRepeatsNothing
<1> QED
  BY <1>2, <1>3, <1>4

(***************************************************************************)
(* For any number of jobs and any limit: while no job comes to match the   *)
(* filter or ceases to, no page of PostgreSQL's list, with stamps that     *)
(* differ, repeats a job of an earlier page, and no walk without a limit   *)
(* repeats one.                                                            *)
(***************************************************************************)
THEOREM NoneRepeated == ListingSpec => []WalkRepeatsNothing
<1>1. ListingInit => NoRepeats /\ WalkOnTrack
  BY DEF ListingInit, NoRepeats, ReadInOrder, ReadAtOnce, WalkRepeatsNothing,
         IsInjective, WalkOnTrack, WalkBegins, NothingSkipped, FirstPageWhole,
         WalkComplete, Matching
<1>2. ListingTypes /\ ListingTypes' /\ WalkOnTrack /\ NoRepeats
        /\ [ListingNext]_listingVars => WalkOnTrack' /\ NoRepeats'
  BY PageOnTrack, TableOnTrack, PageRepeatsNothing, TableRepeatsNothing
  DEF ListingNext, TableStep, WalkOnTrack
<1>3. NoRepeats => WalkRepeatsNothing
  BY DEF NoRepeats
<1> QED
  BY <1>1, <1>2, <1>3, ListingTypesHold, PTL DEF ListingSpec
==============================================================================
