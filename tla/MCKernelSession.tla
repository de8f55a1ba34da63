-------------------------- MODULE MCKernelSession --------------------------
(* KernelSession with small sets of calls; a behaviour has the calls and    *)
(* the outside events of one of the Scripts.                                *)
EXTENDS KernelSession

CONSTANTS c1, c2, e1

VARIABLE script

Scripts ==
    {{c1, c2}, {c1, e1},
     {c1, "crash", "loss", "handoff"}, {e1, "crash", "loss", "handoff"}}

Follows ==
    /\ \A j \in Changes \cup Ends : call[j] # "idle" => j \in script
    /\ process = "crashed" => "crash" \in script
    /\ input = "closed" => "loss" \in script
    /\ child = "taken" => "handoff" \in script

MCInit == Init /\ script \in Scripts
MCNext == UNCHANGED script /\ Next /\ Follows'
MCSpec == MCInit /\ [][MCNext]_<<vars, script>> /\ Fairness
=============================================================================
