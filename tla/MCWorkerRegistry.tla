--------------------------- MODULE MCWorkerRegistry --------------------------
(***************************************************************************)
(* Values for the constants of WorkerRegistry.                             *)
(***************************************************************************)
EXTENDS WorkerRegistry, TLC

CONSTANTS w1, w2, w3

MCWorkers == {w1, w2, w3}

\* Two processes share an identifier, as under cmd/worker; one has its own.
MCWorkerIDs == {"worker-1", "worker-2"}
MCIdOf == w1 :> "worker-1" @@ w2 :> "worker-1" @@ w3 :> "worker-2"
==============================================================================
