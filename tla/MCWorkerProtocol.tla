-------------------------- MODULE MCWorkerProtocol --------------------------
(* Instances of WorkerProtocol for TLC. *)
EXTENDS WorkerProtocol, FiniteSets, TLC

(* Identities are interchangeable where no liveness property is checked. *)
Symmetric == Permutations(Workers) \cup Permutations(Calls)
             \cup Permutations(Scanners) \cup Permutations(Users)

(* bound: of the handlers, the scans and the cancellations (with their     *)
(* answers), at most two are followed at a time, whichever they are.       *)
TwoAtATime ==
    Cardinality({c \in Calls : calls[c] # NoCall})
      + Cardinality({s \in Scanners : scan[s] # IdleScan})
      + Cardinality({u \in Users : cancel[u] # NewCancel}) <= 2
=============================================================================
