------------------------- MODULE WorkerRegistryProofs ------------------------
(***************************************************************************)
(* Proofs about WorkerRegistry, for any processes, identifiers and times   *)
(* that satisfy the assumptions of that module.                            *)
(***************************************************************************)
EXTENDS WorkerRegistry, TLAPS

(***************************************************************************)
(* A worker that has missed no more heartbeats than the timeout allows for *)
(* is not taken for dead by DeactivateStaleWorkers while its next call is  *)
(* on its way: the arithmetic of Period, MaxMissed, Latency and Timeout.   *)
(***************************************************************************)
LEMMA NotYetStale ==
  ASSUME NEW k \in 0..MaxMissed
  PROVE  /\ Period * k \in Nat
         /\ Period * k + Period + 3 * Latency <= Timeout
         /\ Period * (k + 1) = Period * k + Period
<1>1. Period * k \in Nat
  BY TimeAssumption
<1>2. Period * (k + 1) = Period * k + Period
  BY TimeAssumption
<1>3. Period * (MaxMissed + 1) = Period * MaxMissed + Period
  BY TimeAssumption
<1>4. Period * k <= Period * MaxMissed
  BY TimeAssumption
<1>5. Period * MaxMissed \in Nat
  BY TimeAssumption
<1>6. Period * k + Period + 3 * Latency <= Timeout
  BY <1>1, <1>3, <1>4, <1>5, TimeAssumption
<1> QED
  BY <1>1, <1>2, <1>6

(***************************************************************************)
(* Type correctness of the table workers, of the runners' tickers and of   *)
(* the calls on their way (Start, sendHeartbeat, DeactivateStaleWorkers).  *)
(***************************************************************************)
THEOREM RegistryTypeCorrect == RegistrySpec => []RegistryTypeOK
<1> USE IdAssumption, TimeAssumption
<1>0. MaxAge \in Nat /\ Latency <= MaxAge
  BY DEF MaxAge
<1>1. RegistryInit => RegistryTypeOK
  BY <1>0 DEF RegistryInit, RegistryTypeOK
<1>2. RegistryTypeOK /\ [RegistryNext]_registryVars => RegistryTypeOK'
  <2> SUFFICES ASSUME RegistryTypeOK, [RegistryNext]_registryVars
               PROVE  RegistryTypeOK'
    OBVIOUS
  <2> USE DEF RegistryTypeOK
  <2>1. CASE \E p \in Workers : Start(p) \/ StartTicker(p)
    BY <2>1 DEF Start, StartTicker
  <2>2. ASSUME NEW p \in Workers, EndCall(p)
        PROVE  /\ call' \in [Workers -> {"none", "register", "heartbeat"}]
               /\ stamp' \in [Workers -> 0 .. Latency]
               /\ phase' \in [Workers -> {"down", "starting", "live"}]
               /\ timer' \in [Workers -> 0 .. Period]
    BY <2>2 DEF EndCall
  <2>3. ASSUME NEW p \in Workers, Registers(p)
        PROVE  RegistryTypeOK'
    <3>1. stamp[p] \in 0 .. MaxAge
      BY <1>0
    <3> QED
      BY <2>2, <2>3, <3>1 DEF Registers, RegisterWorker
  <2>4. ASSUME NEW p \in Workers, SendHeartbeat(p)
        PROVE  RegistryTypeOK'
    <3>1. stamp[p] \in 0 .. MaxAge
      BY <1>0
    <3> QED
      BY <2>2, <2>4, <3>1 DEF SendHeartbeat, UpdateWorkerHeartbeat
  <2>5. ASSUME NEW p \in Workers, HeartbeatFails(p)
        PROVE  RegistryTypeOK'
    BY <2>2, <2>5 DEF HeartbeatFails
  <2>6. CASE \E p \in Workers : TickerFires(p)
    BY <2>6 DEF TickerFires
  <2>7. CASE \E p \in Workers : StartFails(p) \/ Stop(p)
    BY <2>7 DEF StartFails, Stop, Ends
  <2>8. CASE DeactivateStaleWorkers
    BY <2>8 DEF DeactivateStaleWorkers, processVars
  <2>9. CASE Tick
    <3>1. age' \in [WorkerIDs -> 0 .. MaxAge]
      BY <2>9, <1>0 DEF Tick
    <3>2. timer' \in [Workers -> 0..Period]
      BY <2>9 DEF Tick
    <3>3. stamp' \in [Workers -> 0..Latency]
      BY <2>9 DEF Tick
    <3> QED
      BY <2>9, <3>1, <3>2, <3>3 DEF Tick
  <2>10. CASE UNCHANGED registryVars
    BY <2>10 DEF registryVars, processVars
  <2> QED
    BY <2>1, <2>3, <2>4, <2>5, <2>6, <2>7, <2>8, <2>9, <2>10 DEF RegistryNext
<1> QED
  BY <1>1, <1>2, PTL DEF RegistrySpec

(***************************************************************************)
(* The two clocks of a process agree: a running process has at most a      *)
(* heartbeat on its way, sent when its ticker last fired, and the age of a *)
(* stamp nobody needs is not kept.                                         *)
(***************************************************************************)
ClocksAgree ==
  \A p \in Workers :
    /\ Live(p) => call[p] # "register"
    /\ phase[p] = "starting" => call[p] # "heartbeat"
    /\ Live(p) /\ call[p] = "heartbeat" => timer[p] = stamp[p]
    /\ ~Timed(p) => stamp[p] = 0

\* sendHeartbeat takes the time when the ticker fires, and Start when it is
\* called.
LEMMA ClocksDoAgree == RegistrySpec => []ClocksAgree
<1> USE IdAssumption, TimeAssumption
<1>1. RegistryInit => ClocksAgree
  BY DEF RegistryInit, ClocksAgree, Live, Timed
<1>2. RegistryTypeOK /\ ClocksAgree /\ [RegistryNext]_registryVars
        => ClocksAgree'
  <2> SUFFICES ASSUME RegistryTypeOK, ClocksAgree,
                      [RegistryNext]_registryVars
               PROVE  ClocksAgree'
    OBVIOUS
  <2> USE DEF RegistryTypeOK, ClocksAgree, Live, Timed
  <2>1. CASE \E p \in Workers : Start(p) \/ StartTicker(p)
    BY <2>1 DEF Start, StartTicker
  <2>2. CASE \E p \in Workers : Registers(p) \/ SendHeartbeat(p)
                                  \/ HeartbeatFails(p)
    BY <2>2 DEF Registers, SendHeartbeat, HeartbeatFails, EndCall
  <2>3. CASE \E p \in Workers : TickerFires(p)
    BY <2>3 DEF TickerFires
  <2>4. CASE \E p \in Workers : StartFails(p) \/ Stop(p)
    BY <2>4 DEF StartFails, Stop, Ends
  <2>5. CASE DeactivateStaleWorkers
    BY <2>5 DEF DeactivateStaleWorkers, processVars
  <2>6. CASE Tick
    BY <2>6 DEF Tick
  <2>7. CASE UNCHANGED registryVars
    BY <2>7 DEF registryVars, processVars
  <2> QED
    BY <2>1, <2>2, <2>3, <2>4, <2>5, <2>6, <2>7 DEF RegistryNext
<1> QED
  BY <1>1, <1>2, RegistryTypeCorrect, PTL DEF RegistrySpec

(***************************************************************************)
(* Whatever write reaches the row of a registered process, its own or that *)
(* of another process under its identifier, its stamp is no older than     *)
(* Latency, which every process's account has room for.                    *)
(***************************************************************************)
LEMMA WritesAreFresh ==
  ASSUME RegistryTypeOK, RegistryTypeOK',
         NEW p \in Workers, NEW q \in Workers,
         age' = age \/ age' = [age EXCEPT ![IdOf[q]] = stamp[q]],
         status[IdOf[p]]' = "active",
         missed[p]' = missed[p], timer[p]' = timer[p],
         phase[p]' = phase[p], call[p]' = call[p], stamp[p]' = stamp[p],
         missed[p] <= MaxMissed, FreshFor(p)
  PROVE  FreshFor(p)'
<1> USE IdAssumption, TimeAssumption
<1>1. Period * missed[p] \in Nat
  BY NotYetStale DEF RegistryTypeOK
<1>2. Slack(p) \in Nat /\ Slack(p) >= Latency
  BY DEF Slack, RegistryTypeOK
<1>3. Slack(p)' = Slack(p)
  BY DEF Slack
<1>4. age'[IdOf[p]] = age[IdOf[p]] \/ age'[IdOf[p]] <= Latency
  BY DEF RegistryTypeOK
<1>5. timer[p] \in Nat /\ age'[IdOf[p]] \in Nat
  BY DEF RegistryTypeOK, MaxAge
<1> QED
  BY <1>1, <1>2, <1>3, <1>4, <1>5 DEF FreshFor

(***************************************************************************)
(* The last heartbeat of a registered process is never older than its      *)
(* missed heartbeats, its ticker and the latency of the calls account for, *)
(* and its row is active (Start, UpdateWorkerHeartbeat, sendHeartbeat).    *)
(***************************************************************************)
THEOREM HeartbeatsFresh == RegistrySpec => []HeartbeatFresh
<1> USE IdAssumption, TimeAssumption
<1>1. RegistryInit => HeartbeatFresh
  BY DEF RegistryInit, HeartbeatFresh, Registered, Live
<1>2. RegistryTypeOK /\ RegistryTypeOK' /\ ClocksAgree /\ HeartbeatFresh
        /\ [RegistryNext]_registryVars => HeartbeatFresh'
  <2> SUFFICES ASSUME RegistryTypeOK, RegistryTypeOK', ClocksAgree,
                      HeartbeatFresh, [RegistryNext]_registryVars,
                      NEW p \in Workers,
                      Registered(p)', missed[p]' <= MaxMissed
               PROVE  FreshFor(p)'
    BY DEF HeartbeatFresh
  <2> DEFINE id == IdOf[p]
  <2>0. id \in WorkerIDs
    OBVIOUS
  <2>a. Registered(p) /\ missed[p] <= MaxMissed
          => /\ FreshFor(p)
             /\ Period * missed[p] \in Nat
             /\ Period * missed[p] + Period + 3 * Latency <= Timeout
             /\ Period * (missed[p] + 1) = Period * missed[p] + Period
    BY NotYetStale DEF HeartbeatFresh, RegistryTypeOK
  <2>b. /\ missed[p] \in Nat /\ timer[p] \in Nat /\ stamp[p] \in Nat
        /\ timer[p] <= Period /\ stamp[p] <= Latency
        /\ age[id] \in Nat /\ age'[id] \in Nat
    BY <2>0 DEF RegistryTypeOK, MaxAge
  <2>1. ASSUME NEW q \in Workers, Start(q)
        PROVE  FreshFor(p)'
    <3>1. p # q
      BY <2>1 DEF Start, Registered, Live, RegistryTypeOK
    <3>2. Registered(p) /\ missed[p] <= MaxMissed
      BY <2>1, <3>1 DEF Start, Registered, Live, RegistryTypeOK
    <3>3. /\ UNCHANGED <<status, age, missed, timer, stamp>>
          /\ phase[p]' = phase[p] /\ call[p]' = call[p]
      BY <2>1, <3>1 DEF Start, RegistryTypeOK
    <3> QED
      BY <2>a, <3>2, <3>3 DEF FreshFor, Slack
  <2>2. ASSUME NEW q \in Workers, Registers(q)
        PROVE  FreshFor(p)'
    <3>1. CASE q = p
      <4>1. /\ status'[id] = "active" /\ age'[id] = stamp[p]
            /\ missed'[p] = missed[p] /\ timer'[p] = timer[p]
        BY <2>2, <3>1, <2>0
           DEF Registers, RegisterWorker, EndCall, RegistryTypeOK
      <4>2. phase'[p] = "starting" /\ stamp'[p] = stamp[p]
        BY <2>2, <3>1
           DEF Registers, EndCall, Registered, Live, RegistryTypeOK, ClocksAgree
      <4>3. Slack(p)' = Latency + stamp[p]
        BY <4>2 DEF Slack
      <4>4. Period * missed[p] \in Nat
        BY <4>1, NotYetStale, <2>b
      <4> QED
        BY <4>1, <4>3, <4>4, <2>b DEF FreshFor
    <3>2. CASE q # p
      <4>1. /\ missed[p]' = missed[p] /\ timer[p]' = timer[p]
            /\ phase[p]' = phase[p] /\ call[p]' = call[p]
            /\ stamp[p]' = stamp[p]
            /\ age' = [age EXCEPT ![IdOf[q]] = stamp[q]]
        BY <2>2, <3>2 DEF Registers, RegisterWorker, EndCall, RegistryTypeOK
      <4>2. Registered(p) /\ missed[p] <= MaxMissed
        BY <4>1 DEF Registered, Live
      <4>3. status[IdOf[p]]' = "active"
        BY <2>2, <4>2, <2>a DEF Registers, RegisterWorker, FreshFor, RegistryTypeOK
      <4> QED
        BY <4>1, <4>2, <4>3, <2>a, WritesAreFresh
    <3> QED
      BY <3>1, <3>2
  <2>3. ASSUME NEW q \in Workers, StartTicker(q)
        PROVE  FreshFor(p)'
    <3>1. /\ Registered(p) /\ missed'[p] = missed[p] /\ timer'[p] = timer[p]
          /\ status' = status /\ age' = age
      BY <2>3 DEF StartTicker, Registered, Live, RegistryTypeOK
    <3>2. Slack(p) <= Slack(p)' /\ Slack(p) \in Nat /\ Slack(p)' \in Nat
      <4>1. CASE q = p
        <5>1. Slack(p) = Latency + stamp[p]
          BY <2>3, <4>1 DEF StartTicker, Slack
        <5>2. Slack(p)' = 2 * Latency
          BY <2>3, <4>1 DEF StartTicker, Slack, RegistryTypeOK
        <5> QED
          BY <5>1, <5>2, <2>b
      <4>2. CASE q # p
        <5>1. Slack(p)' = Slack(p)
          BY <2>3, <4>2 DEF StartTicker, Slack, RegistryTypeOK
        <5>2. Slack(p) \in Nat
          BY <2>b DEF Slack
        <5> QED
          BY <5>1, <5>2
      <4> QED
        BY <4>1, <4>2
    <3> QED
      BY <3>1, <3>2, <2>a, <2>b DEF FreshFor
  <2>4. ASSUME NEW q \in Workers, StartFails(q) \/ Stop(q)
        PROVE  FreshFor(p)'
    <3>1. q # p
      BY <2>4 DEF StartFails, Stop, Ends, Registered, Live, RegistryTypeOK
    <3>2. /\ UNCHANGED <<status, age>>
          /\ missed[p]' = missed[p] /\ timer[p]' = timer[p]
          /\ phase[p]' = phase[p] /\ call[p]' = call[p]
          /\ stamp[p]' = stamp[p]
      BY <2>4, <3>1 DEF StartFails, Stop, Ends, RegistryTypeOK
    <3> QED
      BY <3>2, <2>a DEF FreshFor, Slack, Registered, Live
  <2>5. ASSUME NEW q \in Workers, TickerFires(q)
        PROVE  FreshFor(p)'
    <3>1. /\ Registered(p) /\ missed'[p] = missed[p]
          /\ status' = status /\ age' = age
      BY <2>5 DEF TickerFires, Registered, Live, RegistryTypeOK
    <3>2. CASE q = p
      <4>1. /\ timer[p] = Period /\ timer'[p] = 0
            /\ phase[p] = "live" /\ phase'[p] = "live"
            /\ call'[p] = "heartbeat"
        BY <2>5, <3>2 DEF TickerFires, Live, RegistryTypeOK
      <4>2. call[p] # "heartbeat"
        BY <4>1, <2>b DEF ClocksAgree, Live
      <4>3. Slack(p) = 2 * Latency /\ Slack(p)' = 2 * Latency + Period
        BY <4>1, <4>2 DEF Slack
      <4> QED
        BY <3>1, <4>1, <4>3, <2>a, <2>b DEF FreshFor
    <3>3. CASE q # p
      <4>1. /\ timer[p]' = timer[p] /\ phase[p]' = phase[p]
            /\ call[p]' = call[p] /\ stamp[p]' = stamp[p]
        BY <2>5, <3>3 DEF TickerFires, RegistryTypeOK
      <4> QED
        BY <3>1, <4>1, <2>a DEF FreshFor, Slack
    <3> QED
      BY <3>2, <3>3
  <2>6. ASSUME NEW q \in Workers, SendHeartbeat(q)
        PROVE  FreshFor(p)'
    <3>1. Registered(p) /\ missed[p] <= MaxMissed
      BY <2>6 DEF SendHeartbeat, EndCall, Registered, Live, RegistryTypeOK,
                  ClocksAgree
    <3>2. status'[id] = "active"
      BY <2>6, <3>1, <2>a DEF SendHeartbeat, UpdateWorkerHeartbeat, FreshFor
    <3>3. CASE q = p
      <4>1. age'[id] = stamp[p]
        BY <2>6, <3>1, <3>3, <2>a, <2>0
           DEF SendHeartbeat, UpdateWorkerHeartbeat, FreshFor, RegistryTypeOK
      <4>2. /\ missed'[p] = 0 /\ timer'[p] = timer[p]
            /\ call'[p] = "none" /\ phase'[p] = phase[p]
        BY <2>6, <3>1, <3>3 DEF SendHeartbeat, EndCall, RegistryTypeOK
      <4>3. Live(p)
        BY <2>6, <3>1, <3>3 DEF SendHeartbeat, Registered
      <4>4. Slack(p)' = 2 * Latency
        BY <4>2, <4>3 DEF Slack, Live
      <4>5. Period * 0 = 0
        OBVIOUS
      <4> QED
        BY <3>2, <4>1, <4>2, <4>4, <4>5, <2>b DEF FreshFor
    <3>4. CASE q # p
      <4>1. /\ missed[p]' = missed[p] /\ timer[p]' = timer[p]
            /\ phase[p]' = phase[p] /\ call[p]' = call[p]
            /\ stamp[p]' = stamp[p]
        BY <2>6, <3>4 DEF SendHeartbeat, EndCall, RegistryTypeOK
      <4>2. age' = age \/ age' = [age EXCEPT ![IdOf[q]] = stamp[q]]
        BY <2>6 DEF SendHeartbeat, UpdateWorkerHeartbeat, RegistryTypeOK
      <4> QED
        BY <4>1, <4>2, <3>1, <3>2, <2>a, WritesAreFresh
    <3> QED
      BY <3>3, <3>4
  <2>7. ASSUME NEW q \in Workers, HeartbeatFails(q)
        PROVE  FreshFor(p)'
    <3>1. Registered(p) /\ missed[p] <= MaxMissed
      BY <2>7 DEF HeartbeatFails, EndCall, Registered, Live, RegistryTypeOK
    <3>2. status' = status /\ age' = age
      BY <2>7 DEF HeartbeatFails
    <3>3. CASE q = p
      <4>1. /\ missed'[p] = missed[p] + 1 /\ timer'[p] = timer[p]
            /\ phase[p] = "live" /\ phase'[p] = "live"
            /\ call[p] = "heartbeat" /\ call'[p] = "none"
        BY <2>7, <3>1, <3>3 DEF HeartbeatFails, EndCall, Live, RegistryTypeOK
      <4>2. Slack(p) = 2 * Latency + Period /\ Slack(p)' = 2 * Latency
        BY <4>1 DEF Slack
      <4> QED
        BY <3>1, <3>2, <4>1, <4>2, <2>a, <2>b DEF FreshFor
    <3>4. CASE q # p
      <4>1. /\ missed[p]' = missed[p] /\ timer[p]' = timer[p]
            /\ phase[p]' = phase[p] /\ call[p]' = call[p]
            /\ stamp[p]' = stamp[p]
        BY <2>7, <3>4 DEF HeartbeatFails, EndCall, RegistryTypeOK
      <4> QED
        BY <3>1, <3>2, <4>1, <2>a DEF FreshFor, Slack
    <3> QED
      BY <3>3, <3>4
  <2>8. CASE DeactivateStaleWorkers
    <3>1. PICK lag \in 0 .. Latency :
            /\ status' = [i \in WorkerIDs |-> IF Stale(i, lag) THEN "inactive"
                                                               ELSE status[i]]
            /\ UNCHANGED <<age, processVars>>
      BY <2>8 DEF DeactivateStaleWorkers
    <3>2. Registered(p) /\ missed[p] <= MaxMissed
      BY <3>1 DEF Registered, Live, processVars
    <3>3. timer[p] + Slack(p) <= Period + 3 * Latency /\ Slack(p) \in Nat
      <4>1. CASE phase[p] = "starting"
        <5>1. Slack(p) = Latency + stamp[p]
          BY <4>1 DEF Slack
        <5> QED
          BY <5>1, <2>b
      <4>2. CASE phase[p] # "starting" /\ call[p] = "heartbeat"
        <5>1. Slack(p) = 2 * Latency + Period
          BY <4>2 DEF Slack
        <5>2. timer[p] <= Latency
          BY <3>2, <4>2, <2>b DEF ClocksAgree, Registered
        <5> QED
          BY <5>1, <5>2, <2>b
      <4>3. CASE phase[p] # "starting" /\ call[p] # "heartbeat"
        <5>1. Slack(p) = 2 * Latency
          BY <4>3 DEF Slack
        <5> QED
          BY <5>1, <2>b
      <4> QED
        BY <4>1, <4>2, <4>3
    <3>4. age[id] <= Timeout
      BY <3>2, <3>3, <2>a, <2>b DEF FreshFor
    <3>5. ~Stale(id, lag)
      BY <3>4, <2>b DEF Stale
    <3>6. status'[id] = "active"
      BY <3>1, <3>2, <3>5, <2>a, <2>0 DEF FreshFor
    <3>7. UNCHANGED <<age, phase, timer, call, stamp, missed>>
      BY <3>1 DEF processVars
    <3> QED
      BY <3>2, <3>6, <3>7, <2>a DEF FreshFor, Slack
  <2>9. CASE Tick
    <3>1. /\ Registered(p) /\ missed'[p] = missed[p] /\ status' = status
          /\ phase' = phase /\ call' = call
      BY <2>9 DEF Tick, Registered, Live
    <3>2. age'[id] <= age[id] + 1
      BY <2>9, <2>0, <2>b DEF Tick
    <3>3. CASE Live(p)
      <4>1. timer'[p] = timer[p] + 1
        BY <2>9, <3>3 DEF Tick
      <4>2. Slack(p)' = Slack(p) /\ Slack(p) \in Nat
        BY <3>1, <3>3, <2>b DEF Slack, Live
      <4> QED
        BY <3>1, <3>2, <4>1, <4>2, <2>a, <2>b DEF FreshFor
    <3>4. CASE phase[p] = "starting"
      <4>1. timer'[p] = timer[p] /\ stamp'[p] = stamp[p] + 1
        BY <2>9, <3>4 DEF Tick, Timed, Live
      <4>2. Slack(p) = Latency + stamp[p] /\ Slack(p)' = Latency + stamp[p] + 1
        BY <3>1, <3>4, <4>1, <2>b DEF Slack
      <4> QED
        BY <3>1, <3>2, <4>1, <4>2, <2>a, <2>b DEF FreshFor
    <3> QED
      BY <3>1, <3>3, <3>4 DEF Registered
  <2>10. CASE UNCHANGED registryVars
    BY <2>10, <2>a DEF registryVars, processVars, Registered, Live, FreshFor,
                       Slack
  <2> QED
    BY <2>1, <2>2, <2>3, <2>4, <2>5, <2>6, <2>7, <2>8, <2>9, <2>10
       DEF RegistryNext
<1> QED
  BY <1>1, <1>2, RegistryTypeCorrect, ClocksDoAgree, PTL DEF RegistrySpec

(***************************************************************************)
(* GetActiveWorkers lists every registered process that keeps its          *)
(* heartbeats up, whatever others do under its identifier and however late *)
(* calls arrive, within Latency.                                           *)
(***************************************************************************)
THEOREM RunningWorkersListed == RegistrySpec => []LiveIsActive
<1>1. HeartbeatFresh => LiveIsActive
  BY IdAssumption DEF HeartbeatFresh, FreshFor, LiveIsActive, GetActiveWorkers
<1> QED
  BY <1>1, HeartbeatsFresh, PTL
==============================================================================
