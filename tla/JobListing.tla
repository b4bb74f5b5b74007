------------------------------ MODULE JobListing -----------------------------
(***************************************************************************)
(* GET /jobs: Handler.ListJobs and the ListJobs of both storages, read     *)
(* page by page by a client while jobs come in and change their status.    *)
(*                                                                         *)
(* A row is its status and created_at.  ScheduleJob stamps a job before it *)
(* saves it, so rows may come in in another order than that of their       *)
(* stamps, and two of them may have the same one.  The filters on type and *)
(* priority pick a set of jobs that never changes: they are not modelled.  *)
(***************************************************************************)
EXTENDS Integers, SequencesExt

CONSTANTS
  Jobs,          \* job identifiers
  Filters,       \* the status query parameters clients send
  Limits,        \* the limit query parameters clients send
  DefaultLimit,  \* ListJobs' own limit (50)
  NoFilter,      \* no status parameter
  NoNumber,      \* no limit or offset parameter, or one Atoi refuses
  NoRow          \* the job has no row

ASSUME LimitAssumption ==
  Limits \subseteq Int \cup {NoNumber} /\ DefaultLimit \in Int

VARIABLES
  storage,   \* "postgres" or "memory"
  clock,     \* the latest stamp
  created,   \* job -> CreatedAt, 0 before ScheduleJob has built the job
  row,       \* job -> status in the table, or NoRow
  filter,    \* the status the client asks for, page after page
  limit,     \* the limit it asks for
  read,      \* the jobs of the pages so far
  ended,     \* an empty page has come
  (* History variables. *)
  steady,    \* jobs that have matched the filter since the walk began
  moves      \* whether any has come to match it, or ceased to, since then

tableVars   == <<storage, clock, created, row>>
clientVars  == <<filter, limit, read, ended>>
listingVars == <<tableVars, clientVars, steady, moves>>

-----------------------------------------------------------------------------
(* Listing *)

Matching == {j \in Jobs : row[j] # NoRow /\ filter \in {NoFilter, row[j]}}

\* Mutant: no ORDER BY.
PostgresOrdersAny == SetToSeqs(Matching)

\* ORDER BY created_at DESC says nothing about rows with equal stamps.
PostgresOrders ==
  {order \in SetToSeqs(Matching) :
     \A i, k \in DOMAIN order : i < k => created[order[i]] >= created[order[k]]}

\* A Go map is walked in a new order every time.
MemoryOrders == SetToSeqs(Matching)

Orders == IF storage = "postgres" THEN PostgresOrders ELSE MemoryOrders

\* Handler.ListJobs: a parameter Atoi does not accept is as good as none.
EffectiveLimit == IF limit = NoNumber THEN DefaultLimit ELSE limit

\* OFFSET and LIMIT, or the loop's "skipped" and "count".  A limit of 0 or
\* less is no limit.
Page(order, offset) ==
  LET last == IF EffectiveLimit > 0 THEN offset + EffectiveLimit ELSE Len(order)
  IN  SubSeq(order, offset + 1, IF last < Len(order) THEN last ELSE Len(order))

-----------------------------------------------------------------------------
ListingInit ==
  /\ storage \in {"postgres", "memory"}
  /\ clock = 0
  /\ created = [j \in Jobs |-> 0]
  /\ row = [j \in Jobs |-> NoRow]
  /\ filter \in Filters
  /\ limit \in Limits
  /\ read = <<>>
  /\ ended = FALSE
  /\ steady = {}
  /\ moves = {}

\* What a change of the table means to the client's walk: nothing once it is
\* over, and before its first page that it will begin with another table.
Watch ==
  /\ UNCHANGED clientVars
  /\ CASE ended                  -> UNCHANGED <<steady, moves>>
       [] ~ended /\ read = <<>>  -> steady' = Matching' /\ moves' = {}
       [] OTHER                  ->
            /\ steady' = steady \cap Matching'
            /\ moves' = moves
                 \cup (IF Matching' \subseteq Matching THEN {} ELSE {"came"})
                 \cup (IF Matching \subseteq Matching' THEN {} ELSE {"left"})

\* ScheduleJob builds the job; the clock may show the same time as before.
BuildJob(j) ==
  /\ created[j] = 0
  /\ clock' \in {clock, clock + 1} \ {0}
  /\ created' = [created EXCEPT ![j] = clock']
  /\ UNCHANGED <<storage, row, clientVars, steady, moves>>

\* Mutant: CreatedAt is not set.
SaveJobUnstamped(j) ==
  /\ row[j] = NoRow
  /\ row' = [row EXCEPT ![j] = "pending"]
  /\ UNCHANGED <<storage, clock, created>>
  /\ Watch

\* ScheduleJob saves it.
SaveJob(j) ==
  /\ created[j] # 0
  /\ row[j] = NoRow
  /\ \E status \in {"pending", "scheduled"} : row' = [row EXCEPT ![j] = status]
  /\ UNCHANGED <<storage, clock, created>>
  /\ Watch

\* What UpdateJob may write over each status in the table.  The row does not
\* say which run wrote it: the late write of an earlier attempt, or a second
\* copy of the job, may replace any outcome.
PostgresSuccessors(status) ==
  IF status = "pending" THEN {"processing"}
                        ELSE {"processing", "completed", "scheduled", "dead"}

\* What a goroutine or ProcessDelayedJobs may set through the pointer that
\* the map of the in-memory storage holds.
MemorySuccessors(status) ==
  CASE status = "scheduled"  -> {"pending"}
    [] status = "pending"    -> {"processing"}
    [] status = "processing" -> {"completed", "failed"}
    [] status = "failed"     -> {"scheduled", "dead"}
    [] OTHER                 -> {}

Successors(status) ==
  IF storage = "postgres" THEN PostgresSuccessors(status)
                          ELSE MemorySuccessors(status)

\* Mutant: the row is written with the time of the update.
UpdateJobStamps(j) ==
  /\ row[j] # NoRow
  /\ \E status \in Successors(row[j]) : row' = [row EXCEPT ![j] = status]
  /\ clock' = clock + 1
  /\ created' = [created EXCEPT ![j] = clock']
  /\ UNCHANGED storage
  /\ Watch

\* UpdateJob writes created_at as the job has it; a write through the pointer
\* does not touch it.
UpdateJob(j) ==
  /\ row[j] # NoRow
  /\ \E status \in Successors(row[j]) : row' = [row EXCEPT ![j] = status]
  /\ UNCHANGED <<storage, clock, created>>
  /\ Watch

\* The client asks for the page after what it has read; an empty one ends its
\* walk.  (An error changes nothing, and it asks again.)
ListJobs ==
  /\ ~ended
  /\ \E order \in Orders :
       LET page == Page(order, Len(read)) IN
       /\ read' = read \o page
       /\ ended' = (page = <<>>)
  /\ UNCHANGED <<tableVars, filter, limit, steady, moves>>

ListingNext ==
  \/ \E j \in Jobs : BuildJob(j) \/ SaveJob(j) \/ UpdateJob(j)
  \/ ListJobs

ListingSpec == ListingInit /\ [][ListingNext]_listingVars

-----------------------------------------------------------------------------
\* Types: rows, pages and stamps.
ListingTypeOK ==
  /\ \A j \in Jobs : created[j] \in 0 .. clock
  /\ row \in [Jobs -> {NoRow, "pending", "scheduled", "processing",
                       "completed", "failed", "dead"}]
  /\ \A j \in Jobs : row[j] # NoRow => created[j] # 0
  /\ read \in Seq(Jobs)
  /\ ~ended => steady \subseteq Matching

\* The order of the rows is the same for every page.
Ordered ==
  /\ storage = "postgres"
  /\ \A j, k \in Jobs : created[j] = created[k] /\ created[j] # 0 => j = k

(***************************************************************************)
(* While no job leaves the filter, a walk through the pages misses none    *)
(* that was there from the beginning, however many come in meanwhile and   *)
(* in whatever order: newest first, a new row can only push others towards *)
(* pages still to be read.  Without a limit the first page is the list,    *)
(* whatever the storage.                                                   *)
(***************************************************************************)
WalkComplete ==
  ended /\ "left" \notin moves /\ (Ordered \/ EffectiveLimit <= 0)
    => steady \subseteq Range(read)

(***************************************************************************)
(* While no job comes or leaves, no page repeats a job of an earlier one.  *)
(***************************************************************************)
WalkRepeatsNothing ==
  moves = {} /\ (Ordered \/ EffectiveLimit <= 0) => IsInjective(read)
==============================================================================
