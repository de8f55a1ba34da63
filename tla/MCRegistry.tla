------------------------------ MODULE MCRegistry ------------------------------
(***************************************************************************)
(* Instances of Registry for TLC: two kernel sessions at one endpoint and  *)
(* two plain ones, all of one client.  A behaviour has the sessions and    *)
(* the outside events of one of the Scripts.                               *)
(***************************************************************************)
EXTENDS Registry

CONSTANTS k1, k2, p1, p2, alice, port

VARIABLE script

OneOwner == [i \in Ids |-> alice]
OnePort == [i \in Ids |-> IF i \in {k1, k2} THEN port ELSE NoEndpoint]

\* Races for capacity, one for an endpoint, and everything being let go by the
\* server, by a client that ends, or by both.
Scripts ==
    {{k1, p1, p2, "call"}, {k1, p1, "call", "timeout"},
     {k1, k2, "idle", "end", "timeout", "refusal", "death", "handoff"},
     {k1, p1, "shutdown", "refusal", "timeout"},
     {k1, p1, "revoke", "refusal", "timeout"},
     {k1, "shutdown", "revoke", "timeout"}}

\* The kernel sessions differ in nothing but their name, and so do the plain ones.
InOrder ==
    /\ open[k2] # "idle" => open[k1] # "idle"
    /\ open[p2] # "idle" => open[p1] # "idle"

\* Whatever is not in the script does not happen.  A claim for capacity may
\* look like one for idleness.
Follows ==
    /\ \A i \in Ids \ script : open'[i] = "idle"
    /\ "call" \in script \/ call' = call
    /\ "shutdown" \in script \/ ~closing'
    /\ "revoke" \in script \/ revoked' = {}
    /\ "idle" \in script \/ (ReleaseIdle => \E i \in Ids : Reconcile(i))
    /\ \A i \in Ids :
         /\ "end" \in script \/ ~AskEnd(i)
         /\ "timeout" \in script \/ ~Abandon(i)
         /\ "refusal" \in script \/ ~(SpawnFails(i) \/ OpenerReplies(i, "err"))
         /\ "death" \in script \/ ~Die(i)
         /\ "handoff" \in script \/ ~Handoff(i)

MCInit == Init /\ script \in Scripts
MCNext == UNCHANGED script /\ Next /\ InOrder' /\ Follows
MCSpec == MCInit /\ [][MCNext]_<<vars, script>> /\ Fairness
===============================================================================
