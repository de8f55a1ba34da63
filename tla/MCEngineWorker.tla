--------------------------- MODULE MCEngineWorker ---------------------------
(* Instances of EngineWorker for TLC: the operation of each job, and which  *)
(* of them a behaviour's supervisor sends.                                  *)
EXTENDS EngineWorker

CONSTANTS q, r, b, e, f

VARIABLE script

(* A query, a run, a batch and two EndSessions.                             *)
MCOp == [j \in Jobs |-> CASE j = q -> "query" [] j = r -> "resume"
                      [] j = b -> "batch" [] j \in {e, f} -> "end"]

(* Two jobs and a teardown, or one job and two teardowns.                   *)
Scripts == {{q, r, e}, {q, b, e}, {r, b, e}, {r, e, f}, {b, e, f}}

(* The rest is never sent.                                                  *)
Sent == Jobs \ unread \subseteq script

MCInit == Init /\ script \in Scripts
MCNext == UNCHANGED script /\ Next /\ Sent'
MCSpec == MCInit /\ [][MCNext]_<<vars, script>> /\ Fairness
=============================================================================
