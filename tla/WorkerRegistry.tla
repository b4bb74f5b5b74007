---------------------------- MODULE WorkerRegistry ---------------------------
(***************************************************************************)
(* The table workers: what WorkerRunner writes into it (Start and          *)
(* sendHeartbeat in internal/adapters/primary/worker/runner.go) and what   *)
(* PostgresStorage offers to whoever watches it (GetActiveWorkers and      *)
(* DeactivateStaleWorkers in internal/adapters/secondary/storage).         *)
(*                                                                         *)
(* Time is discrete.  A row keeps the age of its last_heartbeat.  A time   *)
(* stamp is taken when a call is made and reaches the row when the         *)
(* database carries the call out, up to Latency later; meanwhile other     *)
(* processes write the same row, and the caller may have ended.  No        *)
(* process removes its row when it ends, so a row outlives its process.    *)
(***************************************************************************)
EXTENDS Naturals

CONSTANTS
  Workers,     \* worker processes
  WorkerIDs,   \* identifiers they register under
  IdOf,        \* process -> identifier (cmd/worker gives all "worker-1")
  Period,      \* time between two heartbeats (30 s in sendHeartbeat)
  Latency,     \* longest time from taking a time stamp to the end of the
               \* call that carries it, and in Start to the ticker's creation
  Timeout,     \* the timeout DeactivateStaleWorkers is called with
  MaxMissed    \* failed heartbeats in a row that the timeout allows for

ASSUME IdAssumption == IdOf \in [Workers -> WorkerIDs]

ASSUME TimeAssumption ==
  /\ Period \in Nat \ {0}
  /\ Latency \in Nat
  /\ Latency < Period
  /\ Timeout \in Nat
  /\ MaxMissed \in Nat
  /\ Period * (MaxMissed + 1) + 3 * Latency <= Timeout

VARIABLES
  status,   \* id -> column status of its row, "absent" when there is no row
  age,      \* id -> time since last_heartbeat, at most MaxAge
  phase,    \* process -> "down", "starting" until it has its ticker, "live"
  timer,    \* process -> time since its ticker last fired
  call,     \* process -> the call it has made that may yet reach its row
  stamp,    \* process -> time since that call's time stamp was taken; while
            \* it is starting, since Start took the stamp
  missed    \* process -> heartbeats that have failed in a row; MaxMissed + 1
            \* for the rest of its life once there were too many

processVars == <<phase, timer, call, stamp, missed>>
registryVars == <<status, age, processVars>>

Live(p) == phase[p] = "live"

\* RegisterWorker has written the row of a process that goes on.
Registered(p) == Live(p) \/ (phase[p] = "starting" /\ call[p] = "none")

\* No comparison tells greater ages apart.
MaxAge == Timeout + Latency + 1

RegistryInit ==
  /\ status = [id \in WorkerIDs |-> "absent"]
  /\ age = [id \in WorkerIDs |-> 0]
  /\ phase = [p \in Workers |-> "down"]
  /\ timer = [p \in Workers |-> 0]
  /\ call = [p \in Workers |-> "none"]
  /\ stamp = [p \in Workers |-> 0]
  /\ missed = [p \in Workers |-> 0]

-----------------------------------------------------------------------------
(* StoragePort: what the database does when it carries a call out. *)

\* Mutant: a worker that is known already only gets a new time stamp.
RegisterWorkerKeepsStatus(id, t) ==
  /\ status' = [status EXCEPT ![id] = IF @ = "absent" THEN "active" ELSE @]
  /\ age' = [age EXCEPT ![id] = t]

\* Mutant: a worker that is known already only becomes active again.
RegisterWorkerKeepsTime(id, t) ==
  /\ status' = [status EXCEPT ![id] = "active"]
  /\ age' = [age EXCEPT ![id] = IF status[id] = "absent" THEN t ELSE @]

\* Save writes every column, whatever an earlier registration left there.
RegisterWorker(id, t) ==
  /\ status' = [status EXCEPT ![id] = "active"]
  /\ age' = [age EXCEPT ![id] = t]

\* Mutant: Save of a model that has an identifier and a time stamp only.
UpdateWorkerHeartbeatSaved(id, t) ==
  /\ status' = [status EXCEPT ![id] = ""]
  /\ age' = [age EXCEPT ![id] = t]

\* Update of one column: the heartbeat of an inactive worker leaves it so,
\* and one that was held up replaces a later one of another process.
UpdateWorkerHeartbeat(id, t) ==
  /\ age' = [age EXCEPT ![id] = IF status[id] = "absent" THEN @ ELSE t]
  /\ UNCHANGED status

GetActiveWorkers == {id \in WorkerIDs : status[id] = "active"}

\* last_heartbeat < cutoff AND status = 'active', where the cutoff was
\* computed some time (lag) before the statement runs.
Stale(id, lag) == age[id] > Timeout + lag /\ status[id] = "active"

DeactivateStaleWorkers ==
  \E lag \in 0 .. Latency :
    /\ \E id \in WorkerIDs : Stale(id, lag)
    /\ status' = [id \in WorkerIDs |-> IF Stale(id, lag) THEN "inactive"
                                                         ELSE status[id]]
    /\ UNCHANGED <<age, processVars>>

-----------------------------------------------------------------------------
(* WorkerRunner *)

\* The process takes the time and calls RegisterWorker.
Start(p) ==
  /\ phase[p] = "down"
  /\ call[p] = "none"
  /\ phase' = [phase EXCEPT ![p] = "starting"]
  /\ call' = [call EXCEPT ![p] = "register"]
  /\ UNCHANGED <<status, age, timer, stamp, missed>>

\* The call is over; a process that is starting still needs the stamp's age.
EndCall(p) ==
  /\ call' = [call EXCEPT ![p] = "none"]
  /\ stamp' = [stamp EXCEPT ![p] = IF phase[p] = "starting" THEN @ ELSE 0]
  /\ UNCHANGED <<phase, timer>>

\* The database carries the call out, whether its caller still runs or not.
Registers(p) ==
  /\ call[p] = "register"
  /\ RegisterWorker(IdOf[p], stamp[p])
  /\ EndCall(p)
  /\ UNCHANGED missed

SendHeartbeat(p) ==
  /\ call[p] = "heartbeat"
  /\ UpdateWorkerHeartbeat(IdOf[p], stamp[p])
  /\ EndCall(p)
  /\ missed' = [missed EXCEPT ![p] = IF @ > MaxMissed THEN @ ELSE 0]

\* The row is not reached.  The error is logged; the next attempt is a period
\* away.  (An error after the row was written is as good as SendHeartbeat.)
HeartbeatFails(p) ==
  /\ Live(p)
  /\ call[p] = "heartbeat"
  /\ EndCall(p)
  /\ missed' = [missed EXCEPT ![p] = IF @ > MaxMissed THEN @ ELSE @ + 1]
  /\ UNCHANGED <<status, age>>

\* RegisterWorker has returned, and the goroutine of sendHeartbeat creates
\* its ticker.
StartTicker(p) ==
  /\ phase[p] = "starting"
  /\ call[p] = "none"
  /\ phase' = [phase EXCEPT ![p] = "live"]
  /\ stamp' = [stamp EXCEPT ![p] = 0]
  /\ UNCHANGED <<status, age, timer, call, missed>>

\* The ticker fires; UpdateWorkerHeartbeat takes the time and is on its way.
TickerFires(p) ==
  /\ Live(p)
  /\ timer[p] = Period
  /\ timer' = [timer EXCEPT ![p] = 0]
  /\ call' = [call EXCEPT ![p] = "heartbeat"]
  /\ UNCHANGED <<status, age, phase, stamp, missed>>

\* The process is gone.  A call it has made reaches the database all the
\* same, or never.
Ends(p) ==
  /\ phase' = [phase EXCEPT ![p] = "down"]
  /\ timer' = [timer EXCEPT ![p] = 0]
  /\ missed' = [missed EXCEPT ![p] = 0]
  /\ \/ /\ call[p] # "none"
        /\ UNCHANGED <<call, stamp>>
     \/ /\ call' = [call EXCEPT ![p] = "none"]
        /\ stamp' = [stamp EXCEPT ![p] = 0]
  /\ UNCHANGED <<status, age>>

\* RegisterWorker returns an error, with the row written or not, and main
\* ends the process with log.Fatalf.  (A signal does the same.)
StartFails(p) ==
  /\ phase[p] = "starting"
  /\ Ends(p)

\* SIGTERM or a crash.  Nothing more is sent to the table.
Stop(p) ==
  /\ Live(p)
  /\ Ends(p)

\* What a stamp's age is kept for: a call on its way, a process that starts.
Timed(p) == call[p] # "none" \/ phase[p] = "starting"

\* Tickers are punctual and calls are over within Latency: time does not
\* pass a heartbeat that is due nor the end of a call.
Tick ==
  /\ \A p \in Workers : /\ Live(p) => timer[p] < Period
                        /\ Timed(p) => stamp[p] < Latency
  /\ age' = [id \in WorkerIDs |-> IF age[id] < MaxAge THEN age[id] + 1
                                                      ELSE age[id]]
  /\ timer' = [p \in Workers |-> IF Live(p) THEN timer[p] + 1 ELSE timer[p]]
  /\ stamp' = [p \in Workers |-> IF Timed(p) THEN stamp[p] + 1 ELSE stamp[p]]
  /\ UNCHANGED <<status, phase, call, missed>>

RegistryNext ==
  \/ \E p \in Workers :
       \/ Start(p)
       \/ Registers(p)
       \/ StartTicker(p)
       \/ StartFails(p)
       \/ TickerFires(p)
       \/ SendHeartbeat(p)
       \/ HeartbeatFails(p)
       \/ Stop(p)
  \/ DeactivateStaleWorkers
  \/ Tick

\* No fairness: nothing in the repository calls DeactivateStaleWorkers, so
\* that it is called is not for this specification to promise.
RegistrySpec == RegistryInit /\ [][RegistryNext]_registryVars

-----------------------------------------------------------------------------
(* Properties *)

\* Types: in particular the column status holds one of the two values that
\* Start and DeactivateStaleWorkers write (GetActiveWorkers compares it with
\* a string).
RegistryTypeOK ==
  /\ status \in [WorkerIDs -> {"absent", "active", "inactive"}]
  /\ age \in [WorkerIDs -> 0 .. MaxAge]
  /\ phase \in [Workers -> {"down", "starting", "live"}]
  /\ timer \in [Workers -> 0 .. Period]
  /\ call \in [Workers -> {"none", "register", "heartbeat"}]
  /\ stamp \in [Workers -> 0 .. Latency]
  /\ missed \in [Workers -> 0 .. (MaxMissed + 1)]

\* A process that is registered is listed by GetActiveWorkers, through
\* restarts under an identifier that was deactivated before, with other
\* processes under the same identifier and with calls that arrive late, also
\* from processes that have ended, unless more than MaxMissed of its
\* heartbeats have failed in a row: UpdateWorkerHeartbeat does not bring an
\* inactive worker back, so from then on nothing is promised until it starts
\* again.  The timeout needs three latencies on top of the periods.
LiveIsActive ==
  \A p \in Workers :
    Registered(p) /\ missed[p] <= MaxMissed => IdOf[p] \in GetActiveWorkers

\* What the latencies add to the age of a process's last heartbeat: that of
\* its own registration, that of another process's write over it, and a
\* period more while the next heartbeat is on its way.
Slack(p) ==
  IF phase[p] = "starting"
  THEN Latency + stamp[p]
  ELSE 2 * Latency + (IF call[p] = "heartbeat" THEN Period ELSE 0)

\* What HeartbeatFresh says of one process.
FreshFor(p) ==
  /\ status[IdOf[p]] = "active"
  /\ age[IdOf[p]] <= Period * missed[p] + timer[p] + Slack(p)

\* Strengthening of LiveIsActive: how old the last heartbeat of a registered
\* process can be, from the heartbeats it missed, the state of its ticker in
\* sendHeartbeat and the calls on their way.
HeartbeatFresh ==
  \A p \in Workers : Registered(p) /\ missed[p] <= MaxMissed => FreshFor(p)
==============================================================================
