\* The table of workers while something may deactivate stale ones; Timeout is
\* the smallest one that TimeAssumption allows.
SPECIFICATION RegistrySpec
CONSTANTS
  w1 = w1
  w2 = w2
  w3 = w3
  Workers <- MCWorkers
  WorkerIDs <- MCWorkerIDs
  IdOf <- MCIdOf
  Period = 2
  Latency = 1
  Timeout = 7
  MaxMissed = 1
INVARIANTS
  RegistryTypeOK
  LiveIsActive
  HeartbeatFresh
