------------------------------ MODULE MCServer ------------------------------
(***************************************************************************)
(* Parts of the server that share no state, for TLC: a batch on a worker's *)
(* engine thread, the runs of one session, the clients' leases, a          *)
(* composite session, and the breaks of a live wait.  Side by side their   *)
(* interleavings would say nothing about any of them, so each behaviour is *)
(* one part's: the others stay where they start.  The parts are "batch",   *)
(* "execution", "lease", "composite" and "live".                           *)
(***************************************************************************)
EXTENDS MCBatch, Execution, Lease, Composite, LiveBreak

VARIABLE part

CONSTANTS
    a, b,
    Parts  \* the ones of a run

\* Client b sends the second request, client a the others.
MCSenders == [q \in 1..MaxRequests |-> IF q = 2 THEN {b} ELSE {a}]

ServerInit ==
    /\ part \in Parts
    /\ Init /\ ExecInit /\ LeaseInit /\ CompositeInit /\ LiveInit
    \* One representative of the parts that stand still.
    /\ part # "batch" => plan = Bare
    /\ part # "live" => \A j \in Jobs : script[j] = "sealed"

ServerNext ==
    /\ UNCHANGED part
    /\ \/ /\ part = "batch" /\ Next
          /\ UNCHANGED <<execVars, leaseVars, compositeVars, liveVars>>
       \/ /\ part = "execution" /\ ExecNext
          /\ UNCHANGED <<vars, leaseVars, compositeVars, liveVars>>
       \/ /\ part = "lease" /\ LeaseNext
          /\ UNCHANGED <<vars, execVars, compositeVars, liveVars>>
       \/ /\ part = "composite" /\ CompositeNext
          /\ UNCHANGED <<vars, execVars, leaseVars, liveVars>>
       \/ /\ part = "live" /\ LiveNext
          /\ UNCHANGED <<vars, execVars, leaseVars, compositeVars>>

\* A batch ends in its report; the others may also have no more calls to answer.
Rest == part # "batch" /\ UNCHANGED <<part, vars, execVars, leaseVars, compositeVars, liveVars>>

ServerSpec ==
    /\ ServerInit
    /\ [][ServerNext \/ Rest]_<<part, vars, execVars, leaseVars, compositeVars, liveVars>>
    /\ ExecFairness
=============================================================================
