--------------------------- MODULE RegistryProofs ---------------------------
(* What is proved of the registry for every set of sessions and clients,    *)
(* every session limit and every combination of outside events.             *)
EXTENDS Registry, TLAPS

-----------------------------------------------------------------------------
(* The inductive invariant.                                                 *)

Teardowns == {"none", "owed", "queued", "forwarded", "ok", "err", "done"}

(* The types of what the argument reads; the order of the registry does not *)
(* matter to it.                                                            *)
Fields ==
    /\ open \in [Ids -> {"idle", "spawning", "spawned", "admitted", "submitting", "opening",
                         "abandoned", "late", "landed", "done"}]
    /\ state \in [Ids -> {"Opening", "Open", "Unresolved", "Failed", "Closed"}]
    /\ delivered \in [Ids -> BOOLEAN]
    /\ job \in [Ids -> {"none", "queued", "running", "done"}]
    /\ call \in [Ids -> {"none", "resolved", "queued", "forwarded"}]
    /\ release \in [Ids -> [Releasers -> Teardowns]]

(* Whoever opened the session has been answered, or has stopped waiting.    *)
Answered == {"abandoned", "late", "done"}

DeliveredIsAnswered == \A i \in Ids : delivered[i] => open[i] \in Answered

(* A claimed session was idle when it was claimed, and its state has kept   *)
(* the pump from forwarding anything since.                                 *)
ClaimedIsQuiet ==
    \A i \in Ids : release[i]["claim"] # "none" =>
        /\ delivered[i]
        /\ job[i] \notin {"queued", "running"}
        /\ call[i] # "forwarded"
        /\ state[i] \notin {"Opening", "Open"}

ReclaimInv == Fields /\ DeliveredIsAnswered /\ ClaimedIsQuiet

-----------------------------------------------------------------------------
(* Every initial state satisfies the invariant: nothing is claimed yet.     *)
LEMMA ReclaimInit == Init => ReclaimInv
BY DEF Init, ReclaimInv, Fields, DeliveredIsAnswered, ClaimedIsQuiet, Releasers, Teardowns

(* Recording where one teardown of a session is keeps the teardowns' type.  *)
LEMMA TeardownMoves ==
    ASSUME NEW f \in [Ids -> [Releasers -> Teardowns]], NEW i \in Ids, NEW r \in Releasers,
           NEW t \in Teardowns
    PROVE  [f EXCEPT ![i][r] = t] \in [Ids -> [Releasers -> Teardowns]]
OBVIOUS

(* Every step of an open, a call, a teardown or the outside preserves it.   *)
LEMMA ReclaimStep == ReclaimInv /\ [Next]_vars => ReclaimInv'
<1> SUFFICES ASSUME ReclaimInv, [Next]_vars
             PROVE  ReclaimInv'
  OBVIOUS
<1> USE DEF ReclaimInv, Fields, DeliveredIsAnswered, ClaimedIsQuiet, Answered, Set, Teardowns,
            Releasers, registryVars, sessionVars, workerVars, callVars
<1>1. ASSUME NEW i \in Ids, TakeSlot(i)
      PROVE  ReclaimInv'
  BY <1>1 DEF TakeSlot
<1>2. ASSUME NEW i \in Ids, SpawnFails(i)
      PROVE  ReclaimInv'
  BY <1>2 DEF SpawnFails
<1>3. ASSUME NEW i \in Ids, Spawn(i)
      PROVE  ReclaimInv'
  BY <1>3 DEF Spawn
<1>4. ASSUME NEW i \in Ids, Admit(i)
      PROVE  ReclaimInv'
  BY <1>4 DEF Admit
<1>5. ASSUME NEW i \in Ids, Refuse(i)
      PROVE  ReclaimInv'
  BY <1>5 DEF Refuse, Kill
<1>6. ASSUME NEW i \in Ids, DropSlot(i)
      PROVE  ReclaimInv'
  BY <1>6 DEF DropSlot
<1>7. ASSUME NEW i \in Ids, SubmitOpener(i)
      PROVE  ReclaimInv'
  BY <1>7 DEF SubmitOpener
<1>8. ASSUME NEW i \in Ids, PumpOpener(i)
      PROVE  ReclaimInv'
  BY <1>8 DEF PumpOpener, Accepts
<1>9. ASSUME NEW i \in Ids, Commit(i)
      PROVE  ReclaimInv'
  BY <1>9 DEF Commit
<1>10. ASSUME NEW i \in Ids, Abandon(i)
      PROVE  ReclaimInv'
  BY <1>10 DEF Abandon, Preserved
<1>11. ASSUME NEW i \in Ids, NEW r \in {"ok", "err"}, OpenerReplies(i, r)
      PROVE  ReclaimInv'
  <2> DEFINE unclaimed == open[i] = "abandoned" /\ r = "err" /\ phase[i] = "Started"
  <2>1. CASE unclaimed
    <3>1. Fields'
      BY <1>11, <2>1, SMTT(30) DEF OpenerReplies, FailUnclaimed
    <3>2. DeliveredIsAnswered' /\ ClaimedIsQuiet'
      BY <1>11, <2>1 DEF OpenerReplies, FailUnclaimed
    <3> QED
      BY <3>1, <3>2
  <2>2. CASE ~unclaimed
    <3>1. Fields'
      <4>1. state' \in [Ids -> {"Opening", "Open", "Unresolved", "Failed", "Closed"}]
        BY <1>11, <2>2 DEF OpenerReplies, Promoted, Live
      <4>2. release' \in [Ids -> [Releasers -> Teardowns]]
        BY <1>11, <2>2 DEF OpenerReplies, Promoted, Live
      <4>3. open' \in [Ids -> {"idle", "spawning", "spawned", "admitted", "submitting", "opening",
                              "abandoned", "late", "landed", "done"}]
        BY <1>11, <2>2 DEF OpenerReplies, Promoted, Live
      <4>4. /\ delivered' \in [Ids -> BOOLEAN]
            /\ job' \in [Ids -> {"none", "queued", "running", "done"}]
            /\ call' \in [Ids -> {"none", "resolved", "queued", "forwarded"}]
        BY <1>11, <2>2 DEF OpenerReplies, Promoted, Live
      <4> QED
        BY <4>1, <4>2, <4>3, <4>4
    <3>2. DeliveredIsAnswered' /\ ClaimedIsQuiet'
      BY <1>11, <2>2 DEF OpenerReplies
    <3> QED
      BY <3>1, <3>2
  <2> QED
    BY <2>1, <2>2
<1>12. ASSUME NEW i \in Ids, Land(i)
      PROVE  ReclaimInv'
  <2>1. Fields'
    BY <1>12, ZenonT(30) DEF Land, FailUnclaimed, Preserved, Promoted
  <2>2. DeliveredIsAnswered'
    BY <1>12 DEF Land
  <2>3. ClaimedIsQuiet'
    BY <1>12 DEF Land, FailUnclaimed, Live
  <2> QED
    BY <2>1, <2>2, <2>3
<1>13. ASSUME NEW i \in Ids, Reconcile(i)
      PROVE  ReclaimInv'
  BY <1>13 DEF Reconcile, Victim, Claim, Busy, Waited
<1>14. ASSUME NEW i \in Ids, Reconciled(i)
      PROVE  ReclaimInv'
  BY <1>14 DEF Reconciled
<1>15. ASSUME NEW i \in Ids, Resolve(i)
      PROVE  ReclaimInv'
  BY <1>15 DEF Resolve
<1>16. ASSUME NEW i \in Ids, SubmitCall(i)
      PROVE  ReclaimInv'
  BY <1>16 DEF SubmitCall
<1>17. ASSUME NEW i \in Ids, PumpCall(i)
      PROVE  ReclaimInv'
  BY <1>17 DEF PumpCall, Accepts
<1>18. ASSUME NEW i \in Ids, CallReplies(i)
      PROVE  ReclaimInv'
  BY <1>18 DEF CallReplies
<1>19. ASSUME NEW i \in Ids, AskEnd(i)
      PROVE  ReclaimInv'
  BY <1>19 DEF AskEnd
<1>20. ASSUME NEW i \in Ids, Die(i)
      PROVE  ReclaimInv'
  BY <1>20 DEF Die
<1>21. ASSUME NEW i \in Ids, Eof(i)
      PROVE  ReclaimInv'
  BY <1>21 DEF Eof, FailOutstanding, Lost
<1>22. ASSUME NEW i \in Ids, Handoff(i)
      PROVE  ReclaimInv'
  BY <1>22 DEF Handoff, FailOutstanding, Lost
<1>23. ASSUME NEW i \in Ids, NEW r \in Releasers, SubmitRelease(i, r)
      PROVE  ReclaimInv'
  BY <1>23 DEF SubmitRelease, Preserved, Marked, ClosedUnlessUnresolved
<1>24. ASSUME NEW i \in Ids, NEW r \in Releasers, PumpRelease(i, r)
      PROVE  ReclaimInv'
  <2> DEFINE stale == r = "end" /\ ~AcceptsTeardown(i)
  <2>1. CASE state[i] = "Unresolved" /\ UNCHANGED state
    <3>1. Fields'
      <4>1. PICK t \in {"forwarded", "err", "done"} : release' = [release EXCEPT ![i][r] = t]
        BY <1>24, <2>1 DEF PumpRelease
      <4>2. release' \in [Ids -> [Releasers -> Teardowns]]
        BY <4>1, TeardownMoves
      <4> QED
        BY <1>24, <2>1, <4>2 DEF PumpRelease
    <3>2. DeliveredIsAnswered' /\ ClaimedIsQuiet'
      BY <1>24, <2>1 DEF PumpRelease
    <3> QED
      BY <3>1, <3>2
  <2>2. CASE stale /\ UNCHANGED state
    <3>1. Fields'
      <4>1. PICK t \in {"forwarded", "err", "done"} : release' = [release EXCEPT ![i][r] = t]
        BY <1>24, <2>2 DEF PumpRelease
      <4>2. release' \in [Ids -> [Releasers -> Teardowns]]
        BY <4>1, TeardownMoves
      <4> QED
        BY <1>24, <2>2, <4>2 DEF PumpRelease
    <3>2. DeliveredIsAnswered' /\ ClaimedIsQuiet'
      BY <1>24, <2>2 DEF PumpRelease
    <3> QED
      BY <3>1, <3>2
  <2>3. CASE state[i] # "Unresolved" /\ ~stale
    <3>1. Fields'
      <4>1. state' \in [Ids -> {"Opening", "Open", "Unresolved", "Failed", "Closed"}]
        BY <1>24, <2>3 DEF PumpRelease
      <4>2. release' \in [Ids -> [Releasers -> Teardowns]]
        <5>1. PICK t \in {"forwarded", "err"} : release' = [release EXCEPT ![i][r] = t]
          BY <1>24, <2>3 DEF PumpRelease
        <5> QED
          BY <5>1, TeardownMoves
      <4>3. open' \in [Ids -> {"idle", "spawning", "spawned", "admitted", "submitting", "opening",
                              "abandoned", "late", "landed", "done"}]
        BY <1>24, <2>3 DEF PumpRelease
      <4>4. /\ delivered' \in [Ids -> BOOLEAN]
            /\ job' \in [Ids -> {"none", "queued", "running", "done"}]
            /\ call' \in [Ids -> {"none", "resolved", "queued", "forwarded"}]
        BY <1>24, <2>3 DEF PumpRelease
      <4> QED
        BY <4>1, <4>2, <4>3, <4>4
    <3>2. DeliveredIsAnswered' /\ ClaimedIsQuiet'
      BY <1>24, <2>3 DEF PumpRelease
    <3> QED
      BY <3>1, <3>2
  <2> QED
    BY <1>24, <2>1, <2>2, <2>3 DEF PumpRelease
<1>25. ASSUME NEW i \in Ids, NEW r \in Releasers, ReleaseReplies(i, r)
      PROVE  ReclaimInv'
  BY <1>25 DEF ReleaseReplies
<1>26. ASSUME NEW i \in Ids, NEW r \in Releasers, ReleaseTimesOut(i, r)
      PROVE  ReclaimInv'
  BY <1>26 DEF ReleaseTimesOut
<1>27. ASSUME NEW i \in Ids, NEW r \in Releasers, ReleaseFinishes(i, r)
      PROVE  ReclaimInv'
  <2> DEFINE unconfirmed == release[i][r] = "err" /\ Kernel(i) /\ ~verified[i]
  <2>1. CASE unconfirmed
    <3>1. Fields'
      <4>1. state' \in [Ids -> {"Opening", "Open", "Unresolved", "Failed", "Closed"}]
        BY <1>27, <2>1 DEF ReleaseFinishes, Preserved
      <4>2. release' \in [Ids -> [Releasers -> Teardowns]]
        <5>1. release' = [release EXCEPT ![i][r] = "done"]
          BY <1>27, <2>1 DEF ReleaseFinishes
        <5> QED
          BY <5>1, TeardownMoves
      <4>3. open' \in [Ids -> {"idle", "spawning", "spawned", "admitted", "submitting", "opening",
                              "abandoned", "late", "landed", "done"}]
        BY <1>27, <2>1 DEF ReleaseFinishes, Preserved
      <4>4. /\ delivered' \in [Ids -> BOOLEAN]
            /\ job' \in [Ids -> {"none", "queued", "running", "done"}]
            /\ call' \in [Ids -> {"none", "resolved", "queued", "forwarded"}]
        BY <1>27, <2>1 DEF ReleaseFinishes, Preserved
      <4> QED
        BY <4>1, <4>2, <4>3, <4>4
    <3>2. DeliveredIsAnswered' /\ ClaimedIsQuiet'
      BY <1>27, <2>1 DEF ReleaseFinishes, Preserved
    <3> QED
      BY <3>1, <3>2
  <2>2. CASE ~unconfirmed
    <3>1. Fields'
      <4>1. state' \in [Ids -> {"Opening", "Open", "Unresolved", "Failed", "Closed"}]
        BY <1>27, <2>2 DEF ReleaseFinishes, FailOutstanding, Lost
      <4>2. release' \in [Ids -> [Releasers -> Teardowns]]
        <5>1. release' = [release EXCEPT ![i] = [Lost(i) EXCEPT ![r] = "done"]]
          BY <1>27, <2>2 DEF ReleaseFinishes
        <5>2. Lost(i) \in [Releasers -> Teardowns]
          BY DEF Lost
        <5>3. [Lost(i) EXCEPT ![r] = "done"] \in [Releasers -> Teardowns]
          BY <5>2
        <5> QED
          BY <5>1, <5>3
      <4>3. open' \in [Ids -> {"idle", "spawning", "spawned", "admitted", "submitting", "opening",
                              "abandoned", "late", "landed", "done"}]
        BY <1>27, <2>2 DEF ReleaseFinishes, FailOutstanding, Lost
      <4>4. /\ delivered' \in [Ids -> BOOLEAN]
            /\ job' \in [Ids -> {"none", "queued", "running", "done"}]
            /\ call' \in [Ids -> {"none", "resolved", "queued", "forwarded"}]
        BY <1>27, <2>2, ZenonT(30) DEF ReleaseFinishes, FailOutstanding, Lost
      <4> QED
        BY <4>1, <4>2, <4>3, <4>4
    <3>2. DeliveredIsAnswered'
      BY <1>27, <2>2 DEF ReleaseFinishes
    <3>3. ASSUME NEW j \in Ids, release'[j]["claim"] # "none"
          PROVE  release[j]["claim"] # "none"
      <4>1. release' = [release EXCEPT ![i] = [Lost(i) EXCEPT ![r] = "done"]]
        BY <1>27, <2>2 DEF ReleaseFinishes
      <4>2. release[i][r] \in {"ok", "err"}
        BY <1>27 DEF ReleaseFinishes
      <4> QED
        BY <3>3, <4>1, <4>2 DEF Lost
    <3>4. ASSUME NEW j \in Ids
          PROVE  /\ job[j] \notin {"queued", "running"} => job'[j] \notin {"queued", "running"}
                 /\ call[j] # "forwarded" => call'[j] # "forwarded"
                 /\ state[j] \notin {"Opening", "Open"} => state'[j] \notin {"Opening", "Open"}
                 /\ delivered[j] => delivered'[j]
      BY <1>27, <2>2 DEF ReleaseFinishes, FailOutstanding
    <3>5. ClaimedIsQuiet'
      BY <3>3, <3>4
    <3> QED
      BY <3>1, <3>2, <3>5
  <2> QED
    BY <2>1, <2>2
<1>28. ASSUME NEW o \in Clients, Revoke(o)
      PROVE  ReclaimInv'
  BY <1>28 DEF Revoke
<1>29. ASSUME NEW o \in Clients, LeaseSweep(o)
      PROVE  ReclaimInv'
  BY <1>29 DEF LeaseSweep
<1>30. ASSUME ReleaseIdle
      PROVE  ReclaimInv'
  BY <1>30 DEF ReleaseIdle, Claim, Busy, Waited
<1>31. ASSUME Shutdown
      PROVE  ReclaimInv'
  BY <1>31 DEF Shutdown
<1>32. ASSUME Exit
      PROVE  ReclaimInv'
  BY <1>32 DEF Exit
<1>33. CASE UNCHANGED vars
  BY <1>33 DEF vars
<1> QED
  BY <1>1, <1>2, <1>3, <1>4, <1>5, <1>6, <1>7, <1>8, <1>9, <1>10, <1>11, <1>12, <1>13, <1>14,
     <1>15, <1>16, <1>17, <1>18, <1>19, <1>20, <1>21, <1>22, <1>23, <1>24, <1>25, <1>26, <1>27,
     <1>28, <1>29, <1>30, <1>31, <1>32, <1>33, SMTT(30) DEF Next, Opening, Calling, Releasing, Rest

(* The open a claim ends was delivered, and nothing of it is in the         *)
(* worker's hands, for any number of sessions: Session::busy, read under    *)
(* the lock that submit registers its waiter under, together with the       *)
(* pump's second look at the state, is enough.                              *)
THEOREM ReclaimSafe == Spec => []ReclaimSparesUse
<1>1. ReclaimInv => ReclaimSparesUse
  BY DEF ReclaimInv, DeliveredIsAnswered, ClaimedIsQuiet, Answered, ReclaimSparesUse
<1> QED
  BY <1>1, ReclaimInit, ReclaimStep, PTL DEF Spec

-----------------------------------------------------------------------------
(* What the registry keeps.  The second inductive invariant.                *)

KeepFields ==
    /\ all \subseteq Ids /\ closing \in BOOLEAN /\ exited \in BOOLEAN
    /\ phase \in [Ids -> {"Started", "Committed", "Opened"}]
    /\ verified \in [Ids -> BOOLEAN] /\ child \in [Ids -> BOOLEAN] /\ holds \in [Ids -> BOOLEAN]
    /\ worker \in [Ids -> {"none", "up", "gone", "drained"}]
    /\ reply \in [Ids -> {"none", "ok", "err", "recovery"}]

(* A target is held by a worker that is up, and such a worker by its        *)
(* session.                                                                 *)
WorkerInv ==
    \A i \in Ids :
        /\ worker[i] = "up" => child[i]
        /\ holds[i] => worker[i] = "up" /\ phase[i] # "Started"

(* Only a kernel is ever unresolved.                                        *)
PlainInv ==
    \A i \in Ids : ~Kernel(i) => state[i] # "Unresolved" /\ reply[i] # "recovery"

(* A kernel known to be let go stays so, and the supervisor parts with a    *)
(* registered kernel's process only then.                                   *)
LetGoInv ==
    \A i \in Ids : Kernel(i) =>
        /\ verified[i] => ~Live(i) /\ job[i] # "running" /\ ~holds[i]
        /\ i \in all /\ ~child[i] => verified[i]

(* What no caller has seen, and what the registry may forget.               *)
Before == {"idle", "spawning", "spawned"}
Unused(i) ==
    job[i] = "none" /\ call[i] = "none" /\ \A r \in Releasers : release[i][r] = "none"
LetGo(i) == ~Live(i) /\ ~child[i] /\ (Kernel(i) => verified[i])
Refused(i) == open[i] = "done" /\ Unused(i) /\ worker[i] # "up"

(* A session is unused until it is admitted, and out of the registry only   *)
(* if it was refused or has been let go.                                    *)
AdmissionInv ==
    \A i \in Ids :
        /\ open[i] \in Before => i \notin all /\ Unused(i) /\ ~holds[i]
        /\ open[i] \in {"idle", "spawning"} => worker[i] = "none" /\ state[i] = "Opening"
        /\ open[i] = "spawned" =>
             /\ Kernel(i) => child[i] \/ verified[i]
             /\ state[i] = "Unresolved" => worker[i] # "up"
        /\ open[i] \notin Before /\ i \notin all => LetGo(i) \/ Refused(i)

(* Of the sessions at one endpoint at most one is not let go.               *)
ExclusiveInv ==
    \A i, j \in all : i # j /\ Kernel(i) /\ Endpoint[i] = Endpoint[j]
        => ~((Live(i) \/ child[i]) /\ (Live(j) \/ child[j]))

(* Shutdown owes a release to every session that owns a worker, and has     *)
(* paid it when the worker is gone or is a kernel's that is preserved or    *)
(* let go.                                                                  *)
ExitInv ==
    /\ exited => closing /\ \A i \in Ids : release[i]["shutdown"] \in {"none", "done"}
    /\ \A i \in Ids :
        /\ closing /\ i \in all /\ child[i] => release[i]["shutdown"] # "none"
        /\ release[i]["shutdown"] = "done" /\ child[i] =>
             Kernel(i) /\ (state[i] = "Unresolved" \/ verified[i])

KeepInv ==
    /\ KeepFields /\ WorkerInv /\ PlainInv /\ LetGoInv /\ AdmissionInv
    /\ ExclusiveInv /\ ExitInv

(* An empty registry keeps all of this.                                     *)
LEMMA KeepInit == Init => KeepInv
<1> SUFFICES ASSUME Init PROVE KeepInv
  OBVIOUS
<1>1. KeepFields /\ WorkerInv /\ PlainInv /\ ExclusiveInv
  BY DEF Init, KeepFields, WorkerInv, PlainInv, ExclusiveInv
<1>2. LetGoInv
  BY DEF Init, LetGoInv
<1>3. AdmissionInv
  BY DEF Init, AdmissionInv, Unused, Before
<1>4. ExitInv
  BY DEF Init, ExitInv, Releasers
<1> QED
  BY <1>1, <1>2, <1>3, <1>4 DEF KeepInv

(* What Session::kill does: nothing, to a worker that is not owned or is    *)
(* preserved, or the process goes and its target with it.                   *)
LEMMA KillIs ==
    ASSUME KeepFields, NEW i \in Ids, Kill(i)
    PROVE  /\ child' \in [Ids -> BOOLEAN] /\ holds' \in [Ids -> BOOLEAN]
           /\ worker' \in [Ids -> {"none", "up", "gone", "drained"}]
           /\ \A j \in Ids \ {i} :
                child'[j] = child[j] /\ worker'[j] = worker[j] /\ holds'[j] = holds[j]
           /\ \/ /\ child'[i] = child[i] /\ worker'[i] = worker[i] /\ holds'[i] = holds[i]
                 /\ child[i] => state'[i] = "Unresolved" /\ ~verified'[i]
              \/ ~child'[i] /\ worker'[i] # "up" /\ ~holds'[i]
BY DEF KeepFields, Kill, Set, workerVars

(* Changing one flag keeps the flags' type.                                 *)
LEMMA FlagMoves ==
    ASSUME NEW f \in [Ids -> BOOLEAN], NEW i \in Ids, NEW b \in BOOLEAN
    PROVE  [f EXCEPT ![i] = b] \in [Ids -> BOOLEAN]
OBVIOUS

(* What settling an open that claimed nothing does: the session fails and   *)
(* its worker goes, or it had settled already.                              *)
LEMMA FailUnclaimedIs ==
    ASSUME Fields, KeepFields, NEW i \in Ids, FailUnclaimed(i)
    PROVE  /\ verified' \in [Ids -> BOOLEAN] /\ verified'[i] = (verified[i] \/ Kernel(i))
           /\ \A j \in Ids \ {i} : verified'[j] = verified[j] /\ state'[j] = state[j]
           /\ state' \in [Ids -> {"Opening", "Open", "Unresolved", "Failed", "Closed"}]
           /\ \/ Live(i) /\ state'[i] = "Failed" /\ Kill(i)
              \/ ~Live(i) /\ state'[i] = state[i] /\ UNCHANGED workerVars
<1>1. (verified[i] \/ Kernel(i)) \in BOOLEAN
  BY DEF KeepFields
<1>2. verified' = [verified EXCEPT ![i] = verified[i] \/ Kernel(i)]
  BY DEF FailUnclaimed, Set
<1>3. /\ verified' \in [Ids -> BOOLEAN] /\ verified'[i] = (verified[i] \/ Kernel(i))
      /\ \A j \in Ids \ {i} : verified'[j] = verified[j]
  BY <1>1, <1>2 DEF KeepFields
<1> QED
  BY <1>3 DEF Fields, FailUnclaimed, Set

(* Every step of an open, a call, a release, a worker and the sweeps keeps  *)
(* it; what a step does to the calls is in the first invariant.             *)
LEMMA KeepStep == ReclaimInv /\ ReclaimInv' /\ KeepInv /\ [Next]_vars => KeepInv'
<1> SUFFICES ASSUME ReclaimInv, ReclaimInv', KeepInv, [Next]_vars
             PROVE  KeepInv'
  OBVIOUS
<1> USE DEF KeepInv, KeepFields, ReclaimInv, Fields, Set, registryVars, sessionVars,
            workerVars, callVars
<1>1. ASSUME NEW i \in Ids, TakeSlot(i)
      PROVE  KeepInv'
  <2>1. KeepFields'
    BY <1>1 DEF TakeSlot
  <2>2. WorkerInv'
    BY <1>1 DEF TakeSlot, WorkerInv
  <2>3. PlainInv'
    BY <1>1 DEF TakeSlot, PlainInv
  <2>4. LetGoInv'
    BY <1>1 DEF TakeSlot, LetGoInv, Live
  <2>5. AdmissionInv'
    BY <1>1 DEF TakeSlot, AdmissionInv, WorkerInv, LetGoInv, Unused, LetGo, Refused, Before, Live
  <2>6. ExclusiveInv'
    BY <1>1 DEF TakeSlot, ExclusiveInv, LetGoInv, Live
  <2>7. ExitInv'
    BY <1>1 DEF TakeSlot, ExitInv
  <2> QED
    BY <2>1, <2>2, <2>3, <2>4, <2>5, <2>6, <2>7
<1>2. ASSUME NEW i \in Ids, SpawnFails(i)
      PROVE  KeepInv'
  <2>1. KeepFields'
    BY <1>2 DEF SpawnFails
  <2>2. WorkerInv'
    BY <1>2 DEF SpawnFails, WorkerInv
  <2>3. PlainInv'
    BY <1>2 DEF SpawnFails, PlainInv
  <2>4. LetGoInv'
    BY <1>2 DEF SpawnFails, LetGoInv, Live
  <2>5. AdmissionInv'
    BY <1>2 DEF SpawnFails, AdmissionInv, WorkerInv, LetGoInv, Unused, LetGo, Refused, Before, Live
  <2>6. ExclusiveInv'
    BY <1>2 DEF SpawnFails, ExclusiveInv, LetGoInv, Live
  <2>7. ExitInv'
    BY <1>2 DEF SpawnFails, ExitInv
  <2> QED
    BY <2>1, <2>2, <2>3, <2>4, <2>5, <2>6, <2>7
<1>3. ASSUME NEW i \in Ids, Spawn(i)
      PROVE  KeepInv'
  <2>1. KeepFields'
    BY <1>3 DEF Spawn
  <2>2. WorkerInv'
    BY <1>3 DEF Spawn, WorkerInv
  <2>3. PlainInv'
    BY <1>3 DEF Spawn, PlainInv
  <2>4. LetGoInv'
    BY <1>3 DEF Spawn, LetGoInv, Live
  <2>5. AdmissionInv'
    BY <1>3 DEF Spawn, AdmissionInv, WorkerInv, LetGoInv, Unused, LetGo, Refused, Before, Live
  <2>6. ExclusiveInv'
    BY <1>3 DEF Spawn, ExclusiveInv, LetGoInv, AdmissionInv, Live
  <2>7. ExitInv'
    <3>1. i \notin all /\ release[i]["shutdown"] = "none"
      BY <1>3 DEF Spawn, AdmissionInv, Unused, Before, Releasers
    <3> QED
      BY <1>3, <3>1 DEF Spawn, ExitInv
  <2> QED
    BY <2>1, <2>2, <2>3, <2>4, <2>5, <2>6, <2>7
<1>4. ASSUME NEW i \in Ids, Admit(i)
      PROVE  KeepInv'
  <2>1. KeepFields'
    BY <1>4 DEF Admit, Trimmed
  <2>2. WorkerInv'
    BY <1>4 DEF Admit, WorkerInv
  <2>3. PlainInv'
    BY <1>4 DEF Admit, PlainInv
  <2>4. LetGoInv'
    BY <1>4 DEF Admit, Trimmed, Evictable, LetGoInv, AdmissionInv, Live
  <2>5. AdmissionInv'
    BY <1>4 DEF Admit, Trimmed, Evictable, Admissible, Reserved, AdmissionInv, WorkerInv,
           LetGoInv, Unused, LetGo, Refused, Before, Live
  <2>6. ExclusiveInv'
    <3>1. all' \subseteq all \cup {i} /\ UNCHANGED <<state, child>>
      BY <1>4 DEF Admit, Trimmed
    <3>2. \A j \in all : Kernel(i) /\ Endpoint[j] = Endpoint[i] => ~Live(j) /\ ~child[j]
      BY <1>4 DEF Admit, Admissible, Reserved
    <3> QED
      BY <3>1, <3>2 DEF ExclusiveInv, Live, Kernel
  <2>7. ExitInv'
    BY <1>4 DEF Admit, Trimmed, Evictable, Admissible, Reserved, ExitInv
  <2> QED
    BY <2>1, <2>2, <2>3, <2>4, <2>5, <2>6, <2>7
<1>5. ASSUME NEW i \in Ids, Refuse(i)
      PROVE  KeepInv'
  <2>1. KeepFields'
    BY <1>5, KillIs DEF Refuse
  <2>2. WorkerInv'
    BY <1>5, KillIs, SMTT(30) DEF Refuse, WorkerInv
  <2>3. PlainInv'
    BY <1>5 DEF Refuse, Kill, PlainInv
  <2>4. LetGoInv'
    BY <1>5, KillIs DEF Refuse, LetGoInv, AdmissionInv, Before, Live
  <2>5. AdmissionInv'
    BY <1>5 DEF Refuse, Kill, AdmissionInv, WorkerInv, LetGoInv, Unused, LetGo, Refused, Before,
           Live
  <2>6. ExclusiveInv'
    BY <1>5, KillIs DEF Refuse, ExclusiveInv, Live
  <2>7. ExitInv'
    BY <1>5 DEF Refuse, Kill, ExitInv, Before
  <2> QED
    BY <2>1, <2>2, <2>3, <2>4, <2>5, <2>6, <2>7
<1>6. ASSUME NEW i \in Ids, DropSlot(i)
      PROVE  KeepInv'
  <2>1. KeepFields'
    BY <1>6 DEF DropSlot
  <2>2. WorkerInv'
    BY <1>6 DEF DropSlot, WorkerInv
  <2>3. PlainInv'
    BY <1>6 DEF DropSlot, PlainInv
  <2>4. LetGoInv'
    BY <1>6 DEF DropSlot, LetGoInv, Live
  <2>5. AdmissionInv'
    BY <1>6 DEF DropSlot, AdmissionInv, WorkerInv, LetGoInv, Unused, LetGo, Refused, Before, Live
  <2>6. ExclusiveInv'
    BY <1>6 DEF DropSlot, ExclusiveInv, LetGoInv, Live
  <2>7. ExitInv'
    BY <1>6 DEF DropSlot, ExitInv
  <2> QED
    BY <2>1, <2>2, <2>3, <2>4, <2>5, <2>6, <2>7
<1>7. ASSUME NEW i \in Ids, SubmitOpener(i)
      PROVE  KeepInv'
  <2>1. KeepFields'
    BY <1>7, SMTT(30) DEF SubmitOpener
  <2>2. WorkerInv'
    BY <1>7 DEF SubmitOpener, WorkerInv
  <2>3. PlainInv'
    BY <1>7 DEF SubmitOpener, PlainInv
  <2>4. LetGoInv'
    BY <1>7 DEF SubmitOpener, LetGoInv, Live
  <2>5. AdmissionInv'
    BY <1>7 DEF SubmitOpener, AdmissionInv, WorkerInv, LetGoInv, Unused, LetGo, Refused, Before,
           Live
  <2>6. ExclusiveInv'
    BY <1>7 DEF SubmitOpener, ExclusiveInv, LetGoInv, Live
  <2>7. ExitInv'
    BY <1>7 DEF SubmitOpener, ExitInv
  <2> QED
    BY <2>1, <2>2, <2>3, <2>4, <2>5, <2>6, <2>7
<1>8. ASSUME NEW i \in Ids, PumpOpener(i)
      PROVE  KeepInv'
  <2>1. KeepFields'
    <3>1. reply' \in [Ids -> {"none", "ok", "err", "recovery"}]
      BY <1>8 DEF PumpOpener
    <3> QED
      BY <1>8, <3>1 DEF PumpOpener
  <2>2. WorkerInv'
    BY <1>8 DEF PumpOpener, Accepts, WorkerInv
  <2>3. PlainInv'
    BY <1>8 DEF PumpOpener, Accepts, PlainInv
  <2>4. LetGoInv'
    BY <1>8 DEF PumpOpener, Accepts, LetGoInv, Live
  <2>5. AdmissionInv'
    BY <1>8 DEF PumpOpener, Accepts, AdmissionInv, WorkerInv, LetGoInv, Unused, LetGo, Refused, Live
  <2>6. ExclusiveInv'
    BY <1>8 DEF PumpOpener, Accepts, ExclusiveInv, LetGoInv, Live
  <2>7. ExitInv'
    BY <1>8 DEF PumpOpener, Accepts, ExitInv
  <2> QED
    BY <2>1, <2>2, <2>3, <2>4, <2>5, <2>6, <2>7
<1>9. ASSUME NEW i \in Ids, Commit(i)
      PROVE  KeepInv'
  <2>1. KeepFields'
    BY <1>9 DEF Commit
  <2>2. WorkerInv'
    BY <1>9 DEF Commit, WorkerInv
  <2>3. PlainInv'
    BY <1>9 DEF Commit, PlainInv
  <2>4. LetGoInv'
    BY <1>9 DEF Commit, LetGoInv, Live
  <2>5. AdmissionInv'
    BY <1>9 DEF Commit, AdmissionInv, WorkerInv, LetGoInv, Unused, LetGo, Refused, Live
  <2>6. ExclusiveInv'
    BY <1>9 DEF Commit, ExclusiveInv, LetGoInv, Live
  <2>7. ExitInv'
    BY <1>9 DEF Commit, ExitInv
  <2> QED
    BY <2>1, <2>2, <2>3, <2>4, <2>5, <2>6, <2>7
<1>10. ASSUME NEW i \in Ids, Abandon(i)
      PROVE  KeepInv'
  <2>1. KeepFields'
    BY <1>10 DEF Abandon, Preserved
  <2>2. WorkerInv'
    BY <1>10 DEF Abandon, Preserved, WorkerInv
  <2>3. PlainInv'
    BY <1>10 DEF Abandon, Preserved, PlainInv
  <2>4. LetGoInv'
    BY <1>10 DEF Abandon, Preserved, LetGoInv, Live
  <2>5. AdmissionInv'
    BY <1>10 DEF Abandon, Preserved, AdmissionInv, WorkerInv, LetGoInv, Unused, LetGo, Refused,
           Before, Live
  <2>6. ExclusiveInv'
    BY <1>10 DEF Abandon, Preserved, ExclusiveInv, LetGoInv, Live
  <2>7. ExitInv'
    BY <1>10 DEF Abandon, Preserved, ExitInv
  <2> QED
    BY <2>1, <2>2, <2>3, <2>4, <2>5, <2>6, <2>7
<1>11. ASSUME NEW i \in Ids, NEW r \in {"ok", "err"}, OpenerReplies(i, r)
      PROVE  KeepInv'
  <2>1. KeepFields'
    <3>1. reply' \in [Ids -> {"none", "ok", "err", "recovery"}]
      BY <1>11 DEF OpenerReplies
    <3>2. phase' \in [Ids -> {"Started", "Committed", "Opened"}]
      BY <1>11 DEF OpenerReplies
    <3>3. verified' \in [Ids -> BOOLEAN]
      BY <1>11, FailUnclaimedIs DEF OpenerReplies
    <3>4. Kill(i) \/ UNCHANGED workerVars
      BY <1>11 DEF OpenerReplies, FailUnclaimed
    <3> QED
      BY <1>11, <3>1, <3>2, <3>3, <3>4, KillIs DEF OpenerReplies
  <2>2. WorkerInv'
    BY <1>11 DEF OpenerReplies, FailUnclaimed, Kill, WorkerInv
  <2>3. PlainInv'
    BY <1>11 DEF OpenerReplies, FailUnclaimed, Promoted, PlainInv
  <2>4. LetGoInv'
    BY <1>11 DEF OpenerReplies, FailUnclaimed, Kill, LetGoInv, WorkerInv, Live
  <2>5. AdmissionInv'
    BY <1>11 DEF OpenerReplies, FailUnclaimed, Kill, Promoted, AdmissionInv, WorkerInv, LetGoInv,
           Unused, LetGo, Refused, Before, Live
  <2>6. ExclusiveInv'
    BY <1>11 DEF OpenerReplies, FailUnclaimed, Kill, Promoted, ExclusiveInv, LetGoInv, Live
  <2>7. ExitInv'
    BY <1>11 DEF OpenerReplies, FailUnclaimed, Kill, Promoted, ExitInv
  <2> QED
    BY <2>1, <2>2, <2>3, <2>4, <2>5, <2>6, <2>7
<1>12. ASSUME NEW i \in Ids, Land(i)
      PROVE  KeepInv'
  <2>1. KeepFields'
    <3>1. verified' \in [Ids -> BOOLEAN]
      BY <1>12 DEF Land, FailUnclaimed
    <3>2. Kill(i) \/ UNCHANGED workerVars
      BY <1>12 DEF Land, FailUnclaimed
    <3> QED
      BY <1>12, <3>1, <3>2, KillIs DEF Land
  <2>2. WorkerInv'
    BY <1>12 DEF Land, FailUnclaimed, Kill, Preserved, WorkerInv
  <2>3. PlainInv'
    BY <1>12 DEF Land, FailUnclaimed, Promoted, PlainInv
  <2>4. LetGoInv'
    BY <1>12 DEF Land, FailUnclaimed, Kill, Preserved, Promoted, LetGoInv, WorkerInv, Live
  <2>5. AdmissionInv'
    BY <1>12 DEF Land, FailUnclaimed, Kill, Preserved, Promoted, AdmissionInv, WorkerInv,
           LetGoInv, PlainInv, Unused, LetGo, Refused, Before, Live
  <2>6. ExclusiveInv'
    <3>1. \A j \in all : Live(j)' \/ child'[j] => Live(j) \/ child[j]
      <4>1. CASE FailUnclaimed(i)
        BY <1>12, <4>1, FailUnclaimedIs, KillIs DEF Land, Live
      <4>2. CASE UNCHANGED <<verified, workerVars>> /\ Kernel(i) /\ state' = Set(state, i, Preserved(i))
        BY <1>12, <4>2 DEF Live, Preserved, LetGoInv
      <4>3. CASE /\ UNCHANGED <<verified, workerVars>>
                 /\ UNCHANGED state \/ state' = Set(state, i, Promoted(i))
        BY <1>12, <4>3 DEF Live, Promoted
      <4> QED
        BY <1>12, <4>1, <4>2, <4>3 DEF Land, PlainInv
    <3>2. UNCHANGED all
      BY <1>12 DEF Land
    <3> QED
      BY <3>1, <3>2 DEF ExclusiveInv
  <2>7. ExitInv'
    <3>1. /\ UNCHANGED <<all, closing, exited, release>>
          /\ \A j \in Ids : child'[j] => child[j]
      BY <1>12, FailUnclaimedIs, KillIs DEF Land
    <3>2. ASSUME NEW j \in Ids, child'[j], Kernel(j), state[j] = "Unresolved" \/ verified[j]
          PROVE  state'[j] = "Unresolved" \/ verified'[j]
      <4>1. CASE FailUnclaimed(i)
        BY <3>2, <4>1, FailUnclaimedIs
      <4>2. CASE UNCHANGED verified /\ state' = Set(state, i, Preserved(i))
        BY <3>2, <4>2 DEF Preserved
      <4>3. CASE UNCHANGED verified /\ (UNCHANGED state \/ state' = Set(state, i, Promoted(i)))
        BY <3>2, <4>3 DEF Promoted
      <4> QED
        BY <1>12, <4>1, <4>2, <4>3 DEF Land
    <3> QED
      BY <3>1, <3>2 DEF ExitInv
  <2> QED
    BY <2>1, <2>2, <2>3, <2>4, <2>5, <2>6, <2>7
<1>13. ASSUME NEW i \in Ids, Reconcile(i)
      PROVE  KeepInv'
  <2>1. KeepFields'
    BY <1>13 DEF Reconcile
  <2>2. WorkerInv'
    BY <1>13 DEF Reconcile, WorkerInv
  <2>3. PlainInv'
    BY <1>13 DEF Reconcile, Claim, PlainInv
  <2>4. LetGoInv'
    BY <1>13 DEF Reconcile, Victim, Claim, LetGoInv, Live
  <2>5. AdmissionInv'
    BY <1>13 DEF Reconcile, Victim, Claim, Busy, LiveFor, AdmissionInv, WorkerInv, LetGoInv,
           PlainInv, Unused, LetGo, Refused, Live
  <2>6. ExclusiveInv'
    BY <1>13 DEF Reconcile, Victim, Claim, Busy, LiveFor, ExclusiveInv, LetGoInv, Live
  <2>7. ExitInv'
    BY <1>13 DEF Reconcile, Victim, Claim, Busy, LiveFor, ExitInv, AdmissionInv, LetGoInv
  <2> QED
    BY <2>1, <2>2, <2>3, <2>4, <2>5, <2>6, <2>7
<1>14. ASSUME NEW i \in Ids, Reconciled(i)
      PROVE  KeepInv'
  <2>1. KeepFields'
    BY <1>14 DEF Reconciled
  <2>2. WorkerInv'
    BY <1>14 DEF Reconciled, WorkerInv
  <2>3. PlainInv'
    BY <1>14 DEF Reconciled, PlainInv
  <2>4. LetGoInv'
    BY <1>14 DEF Reconciled, LetGoInv, Live
  <2>5. AdmissionInv'
    BY <1>14 DEF Reconciled, AdmissionInv, WorkerInv, LetGoInv, Unused, LetGo, Refused, Before, Live
  <2>6. ExclusiveInv'
    BY <1>14 DEF Reconciled, ExclusiveInv, LetGoInv, Live
  <2>7. ExitInv'
    BY <1>14 DEF Reconciled, ExitInv
  <2> QED
    BY <2>1, <2>2, <2>3, <2>4, <2>5, <2>6, <2>7
<1>15. ASSUME NEW i \in Ids, Resolve(i)
      PROVE  KeepInv'
  <2>1. KeepFields'
    BY <1>15 DEF Resolve
  <2>2. WorkerInv'
    BY <1>15 DEF Resolve, WorkerInv
  <2>3. PlainInv'
    BY <1>15 DEF Resolve, PlainInv
  <2>4. LetGoInv'
    BY <1>15 DEF Resolve, LetGoInv, Live
  <2>5. AdmissionInv'
    BY <1>15 DEF Resolve, AdmissionInv, WorkerInv, LetGoInv, Unused, LetGo, Refused, Live
  <2>6. ExclusiveInv'
    BY <1>15 DEF Resolve, ExclusiveInv, LetGoInv, Live
  <2>7. ExitInv'
    BY <1>15 DEF Resolve, ExitInv
  <2> QED
    BY <2>1, <2>2, <2>3, <2>4, <2>5, <2>6, <2>7
<1>16. ASSUME NEW i \in Ids, SubmitCall(i)
      PROVE  KeepInv'
  <2>1. KeepFields'
    BY <1>16 DEF SubmitCall
  <2>2. WorkerInv'
    BY <1>16 DEF SubmitCall, WorkerInv
  <2>3. PlainInv'
    BY <1>16 DEF SubmitCall, PlainInv
  <2>4. LetGoInv'
    BY <1>16 DEF SubmitCall, LetGoInv, Live
  <2>5. AdmissionInv'
    BY <1>16 DEF SubmitCall, AdmissionInv, WorkerInv, LetGoInv, Unused, LetGo, Refused, Live
  <2>6. ExclusiveInv'
    BY <1>16 DEF SubmitCall, ExclusiveInv, LetGoInv, Live
  <2>7. ExitInv'
    BY <1>16 DEF SubmitCall, ExitInv
  <2> QED
    BY <2>1, <2>2, <2>3, <2>4, <2>5, <2>6, <2>7
<1>17. ASSUME NEW i \in Ids, PumpCall(i)
      PROVE  KeepInv'
  <2>1. KeepFields'
    BY <1>17 DEF PumpCall
  <2>2. WorkerInv'
    BY <1>17 DEF PumpCall, WorkerInv
  <2>3. PlainInv'
    BY <1>17 DEF PumpCall, PlainInv
  <2>4. LetGoInv'
    BY <1>17 DEF PumpCall, LetGoInv, Live
  <2>5. AdmissionInv'
    BY <1>17 DEF PumpCall, AdmissionInv, WorkerInv, LetGoInv, Unused, LetGo, Refused, Live
  <2>6. ExclusiveInv'
    BY <1>17 DEF PumpCall, ExclusiveInv, LetGoInv, Live
  <2>7. ExitInv'
    BY <1>17 DEF PumpCall, ExitInv
  <2> QED
    BY <2>1, <2>2, <2>3, <2>4, <2>5, <2>6, <2>7
<1>18. ASSUME NEW i \in Ids, CallReplies(i)
      PROVE  KeepInv'
  <2>1. KeepFields'
    BY <1>18 DEF CallReplies
  <2>2. WorkerInv'
    BY <1>18 DEF CallReplies, WorkerInv
  <2>3. PlainInv'
    BY <1>18 DEF CallReplies, PlainInv
  <2>4. LetGoInv'
    BY <1>18 DEF CallReplies, LetGoInv, Live
  <2>5. AdmissionInv'
    BY <1>18 DEF CallReplies, AdmissionInv, WorkerInv, LetGoInv, Unused, LetGo, Refused, Live
  <2>6. ExclusiveInv'
    BY <1>18 DEF CallReplies, ExclusiveInv, LetGoInv, Live
  <2>7. ExitInv'
    BY <1>18 DEF CallReplies, ExitInv
  <2> QED
    BY <2>1, <2>2, <2>3, <2>4, <2>5, <2>6, <2>7
<1>19. ASSUME NEW i \in Ids, AskEnd(i)
      PROVE  KeepInv'
  <2>1. KeepFields'
    BY <1>19 DEF AskEnd
  <2>2. WorkerInv'
    BY <1>19 DEF AskEnd, WorkerInv
  <2>3. PlainInv'
    BY <1>19 DEF AskEnd, PlainInv
  <2>4. LetGoInv'
    BY <1>19 DEF AskEnd, LetGoInv, Live
  <2>5. AdmissionInv'
    BY <1>19 DEF AskEnd, AdmissionInv, WorkerInv, LetGoInv, PlainInv, Unused, LetGo, Refused, Live
  <2>6. ExclusiveInv'
    BY <1>19 DEF AskEnd, ExclusiveInv, LetGoInv, Live
  <2>7. ExitInv'
    BY <1>19 DEF AskEnd, ExitInv, AdmissionInv, LetGoInv
  <2> QED
    BY <2>1, <2>2, <2>3, <2>4, <2>5, <2>6, <2>7
<1>20. ASSUME NEW i \in Ids, Die(i)
      PROVE  KeepInv'
  <2>1. KeepFields'
    BY <1>20 DEF Die
  <2>2. WorkerInv'
    BY <1>20 DEF Die, WorkerInv
  <2>3. PlainInv'
    BY <1>20 DEF Die, PlainInv
  <2>4. LetGoInv'
    BY <1>20 DEF Die, LetGoInv, Live
  <2>5. AdmissionInv'
    BY <1>20 DEF Die, AdmissionInv, WorkerInv, LetGoInv, Unused, LetGo, Refused, Live
  <2>6. ExclusiveInv'
    BY <1>20 DEF Die, ExclusiveInv, LetGoInv, Live
  <2>7. ExitInv'
    BY <1>20 DEF Die, ExitInv
  <2> QED
    BY <2>1, <2>2, <2>3, <2>4, <2>5, <2>6, <2>7
<1>21. ASSUME NEW i \in Ids, Eof(i)
      PROVE  KeepInv'
  <2>1. KeepFields'
    BY <1>21 DEF Eof, FailOutstanding, Lost
  <2>2. WorkerInv'
    BY <1>21 DEF Eof, WorkerInv
  <2>3. PlainInv'
    BY <1>21 DEF Eof, FailOutstanding, PlainInv
  <2>4. LetGoInv'
    BY <1>21 DEF Eof, FailOutstanding, LetGoInv, Live
  <2>5. AdmissionInv'
    BY <1>21 DEF Eof, FailOutstanding, Lost, AdmissionInv, WorkerInv, LetGoInv, PlainInv, Unused,
           LetGo, Refused, Live
  <2>6. ExclusiveInv'
    BY <1>21 DEF Eof, FailOutstanding, Lost, ExclusiveInv, LetGoInv, Live
  <2>7. ExitInv'
    BY <1>21 DEF Eof, FailOutstanding, Lost, ExitInv, AdmissionInv, LetGoInv, Releasers
  <2> QED
    BY <2>1, <2>2, <2>3, <2>4, <2>5, <2>6, <2>7
<1>22. ASSUME NEW i \in Ids, Handoff(i)
      PROVE  KeepInv'
  <2>1. KeepFields'
    BY <1>22 DEF Handoff, FailOutstanding, Lost
  <2>2. WorkerInv'
    BY <1>22 DEF Handoff, WorkerInv
  <2>3. PlainInv'
    BY <1>22 DEF Handoff, FailOutstanding, PlainInv
  <2>4. LetGoInv'
    BY <1>22 DEF Handoff, FailOutstanding, LetGoInv, Live
  <2>5. AdmissionInv'
    BY <1>22 DEF Handoff, FailOutstanding, Lost, AdmissionInv, WorkerInv, LetGoInv, PlainInv,
           Unused, LetGo, Refused, Live
  <2>6. ExclusiveInv'
    BY <1>22 DEF Handoff, FailOutstanding, Lost, ExclusiveInv, LetGoInv, Live
  <2>7. ExitInv'
    BY <1>22 DEF Handoff, FailOutstanding, Lost, ExitInv, AdmissionInv, LetGoInv
  <2> QED
    BY <2>1, <2>2, <2>3, <2>4, <2>5, <2>6, <2>7
<1>23. ASSUME NEW i \in Ids, NEW r \in Releasers, SubmitRelease(i, r)
      PROVE  KeepInv'
  <2>1. KeepFields'
    BY <1>23 DEF SubmitRelease
  <2>2. WorkerInv'
    BY <1>23 DEF SubmitRelease, WorkerInv
  <2>3. PlainInv'
    BY <1>23 DEF SubmitRelease, Marked, ClosedUnlessUnresolved, PlainInv
  <2>4. LetGoInv'
    BY <1>23 DEF SubmitRelease, Preserved, Marked, LetGoInv, Live
  <2>5. AdmissionInv'
    BY <1>23 DEF SubmitRelease, Preserved, Marked, ClosedUnlessUnresolved, AdmissionInv,
           WorkerInv, LetGoInv, PlainInv, Unused, LetGo, Refused, Before, Live
  <2>6. ExclusiveInv'
    BY <1>23 DEF SubmitRelease, Preserved, Marked, ClosedUnlessUnresolved, ExclusiveInv, LetGoInv,
           Live
  <2>7. ExitInv'
    BY <1>23 DEF SubmitRelease, Preserved, Marked, ClosedUnlessUnresolved, ExitInv, AdmissionInv,
           LetGoInv
  <2> QED
    BY <2>1, <2>2, <2>3, <2>4, <2>5, <2>6, <2>7
<1>24. ASSUME NEW i \in Ids, NEW r \in Releasers, PumpRelease(i, r)
      PROVE  KeepInv'
  <2>1. KeepFields'
    BY <1>24 DEF PumpRelease, AcceptsTeardown
  <2>2. WorkerInv'
    BY <1>24 DEF PumpRelease, AcceptsTeardown, WorkerInv
  <2>3. PlainInv'
    BY <1>24 DEF PumpRelease, AcceptsTeardown, PlainInv
  <2>4. LetGoInv'
    BY <1>24, SMTT(30) DEF PumpRelease, AcceptsTeardown, LetGoInv, WorkerInv, Live
  <2>5. AdmissionInv'
    BY <1>24 DEF PumpRelease, AcceptsTeardown, AdmissionInv, WorkerInv, LetGoInv, PlainInv,
           Unused, LetGo, Refused, Before, Live, Teardowns
  <2>6. ExclusiveInv'
    BY <1>24, SMTT(30)
       DEF PumpRelease, AcceptsTeardown, ExclusiveInv, LetGoInv, AdmissionInv, WorkerInv, Live
  <2>7. ExitInv'
    BY <1>24 DEF PumpRelease, AcceptsTeardown, ExitInv, AdmissionInv, LetGoInv, Live, Releasers
  <2> QED
    BY <2>1, <2>2, <2>3, <2>4, <2>5, <2>6, <2>7
<1>25. ASSUME NEW i \in Ids, NEW r \in Releasers, ReleaseReplies(i, r)
      PROVE  KeepInv'
  <2>1. KeepFields'
    BY <1>25 DEF ReleaseReplies
  <2>2. WorkerInv'
    BY <1>25 DEF ReleaseReplies, WorkerInv
  <2>3. PlainInv'
    BY <1>25 DEF ReleaseReplies, PlainInv
  <2>4. LetGoInv'
    BY <1>25 DEF ReleaseReplies, LetGoInv, Live
  <2>5. AdmissionInv'
    BY <1>25 DEF ReleaseReplies, AdmissionInv, WorkerInv, LetGoInv, PlainInv, Unused, LetGo,
           Refused, Live
  <2>6. ExclusiveInv'
    BY <1>25 DEF ReleaseReplies, ExclusiveInv, LetGoInv, Live
  <2>7. ExitInv'
    BY <1>25 DEF ReleaseReplies, ExitInv, AdmissionInv, LetGoInv
  <2> QED
    BY <2>1, <2>2, <2>3, <2>4, <2>5, <2>6, <2>7
<1>26. ASSUME NEW i \in Ids, NEW r \in Releasers, ReleaseTimesOut(i, r)
      PROVE  KeepInv'
  <2>1. KeepFields'
    BY <1>26 DEF ReleaseTimesOut
  <2>2. WorkerInv'
    BY <1>26 DEF ReleaseTimesOut, WorkerInv
  <2>3. PlainInv'
    BY <1>26 DEF ReleaseTimesOut, PlainInv
  <2>4. LetGoInv'
    BY <1>26 DEF ReleaseTimesOut, LetGoInv, Live
  <2>5. AdmissionInv'
    BY <1>26 DEF ReleaseTimesOut, AdmissionInv, WorkerInv, LetGoInv, PlainInv, Unused, LetGo,
           Refused, Live
  <2>6. ExclusiveInv'
    BY <1>26 DEF ReleaseTimesOut, ExclusiveInv, LetGoInv, Live
  <2>7. ExitInv'
    BY <1>26 DEF ReleaseTimesOut, ExitInv, AdmissionInv, LetGoInv
  <2> QED
    BY <2>1, <2>2, <2>3, <2>4, <2>5, <2>6, <2>7
<1>27. ASSUME NEW i \in Ids, NEW r \in Releasers, ReleaseFinishes(i, r)
      PROVE  KeepInv'
  <2>1. KeepFields'
    <3>1. verified' \in [Ids -> BOOLEAN]
      <4>1. (verified[i] \/ release[i][r] = "ok") \in BOOLEAN
        OBVIOUS
      <4>2. PICK b \in BOOLEAN : verified' = [verified EXCEPT ![i] = b] \/ UNCHANGED verified
        BY <1>27, <4>1 DEF ReleaseFinishes
      <4>3. verified \in [Ids -> BOOLEAN]
        OBVIOUS
      <4>4. CASE UNCHANGED verified
        BY <4>3, <4>4
      <4>5. CASE verified' = [verified EXCEPT ![i] = b]
        BY <4>3, <4>5, FlagMoves
      <4> QED
        BY <4>2, <4>4, <4>5
    <3>2. reply' \in [Ids -> {"none", "ok", "err", "recovery"}]
      BY <1>27, SMTT(30) DEF ReleaseFinishes, FailOutstanding
    <3>3. Kill(i) \/ UNCHANGED workerVars
      BY <1>27 DEF ReleaseFinishes
    <3> QED
      BY <1>27, <3>1, <3>2, <3>3, KillIs DEF ReleaseFinishes
  <2>2. WorkerInv'
    <3>1. Kill(i) \/ UNCHANGED workerVars
      BY <1>27 DEF ReleaseFinishes
    <3> QED
      BY <1>27, <3>1, KillIs DEF ReleaseFinishes, WorkerInv
  <2>3. PlainInv'
    BY <1>27 DEF ReleaseFinishes, FailOutstanding, PlainInv
  <2>4. LetGoInv'
    <3>1. CASE release[i][r] = "err" /\ Kernel(i) /\ ~verified[i]
      BY <1>27, <3>1 DEF ReleaseFinishes, Preserved, LetGoInv, Live
    <3>2. CASE ~(release[i][r] = "err" /\ Kernel(i) /\ ~verified[i])
      <4>1. Kill(i) /\ FailOutstanding(i) /\ UNCHANGED registryVars
        BY <1>27, <3>2 DEF ReleaseFinishes
      <4>2. verified'[i] = (verified[i] \/ release[i][r] = "ok")
        BY <1>27, <3>2 DEF ReleaseFinishes
      <4>3. /\ state'[i] = IF Kernel(i) /\ release[i][r] = "ok" THEN "Closed" ELSE state[i]
            /\ \A j \in Ids \ {i} : verified'[j] = verified[j] /\ state'[j] = state[j]
        BY <1>27, <3>2 DEF ReleaseFinishes
      <4>4. Kernel(i) => verified'[i] /\ state'[i] \in {"Closed", "Failed"}
        BY <1>27, <3>2, <4>2, <4>3 DEF ReleaseFinishes, LetGoInv, Live
      <4>5. ASSUME NEW j \in Ids, Kernel(j), verified'[j]
            PROVE  ~Live(j)' /\ job'[j] # "running" /\ ~holds'[j]
        <5>1. CASE j = i
          BY <4>1, <4>4, <5>1, <4>5, KillIs DEF FailOutstanding, Live, WorkerInv
        <5>2. CASE j # i
          BY <4>1, <4>3, <5>2, <4>5, KillIs DEF FailOutstanding, Live, LetGoInv
        <5> QED
          BY <5>1, <5>2
      <4>6. ASSUME NEW j \in Ids, Kernel(j), j \in all', ~child'[j]
            PROVE  verified'[j]
        <5>1. CASE j = i
          BY <4>4, <4>6, <5>1
        <5>2. CASE j # i
          <6>1. child'[j] = child[j] /\ verified'[j] = verified[j] /\ all' = all
            BY <4>1, <4>3, <5>2, KillIs
          <6> QED
            BY <4>6, <6>1 DEF LetGoInv
        <5> QED
          BY <5>1, <5>2
      <4> QED
        BY <4>5, <4>6 DEF LetGoInv, Live, Kernel
    <3> QED
      BY <3>1, <3>2
  <2>5. AdmissionInv'
    BY <1>27 DEF ReleaseFinishes, Preserved, FailOutstanding, Lost, Kill, AdmissionInv, WorkerInv,
           LetGoInv, PlainInv, Unused, LetGo, Refused, Before, Live, Releasers
  <2>6. ExclusiveInv'
    BY <1>27 DEF ReleaseFinishes, Preserved, FailOutstanding, Lost, Kill, ExclusiveInv, LetGoInv,
           Live
  <2>7. ExitInv'
    <3>1. CASE release[i][r] = "err" /\ Kernel(i) /\ ~verified[i]
      <4>1. /\ UNCHANGED <<all, closing, exited, child, verified>>
            /\ release' = [release EXCEPT ![i][r] = "done"]
            /\ state' = [state EXCEPT ![i] = "Unresolved"]
        BY <1>27, <3>1 DEF ReleaseFinishes, Preserved
      <4> QED
        BY <1>27, <3>1, <4>1 DEF ExitInv
    <3>2. CASE ~(release[i][r] = "err" /\ Kernel(i) /\ ~verified[i])
      <4>1. Kill(i) /\ UNCHANGED registryVars /\ ~exited
        BY <1>27, <3>2 DEF ReleaseFinishes
      <4>2. release' = [release EXCEPT ![i] = [Lost(i) EXCEPT ![r] = "done"]]
        BY <1>27, <3>2 DEF ReleaseFinishes
      <4>3. \A j \in Ids : release[j]["shutdown"] # "none" => release'[j]["shutdown"] # "none"
        BY <4>2 DEF Lost, Releasers, Teardowns
      <4>4. \A j \in Ids \ {i} : /\ release'[j] = release[j]
                                   /\ verified'[j] = verified[j] /\ state'[j] = state[j]
        BY <1>27, <3>2, <4>2 DEF ReleaseFinishes
      <4>5. child'[i] => Kernel(i) /\ (state'[i] = "Unresolved" \/ verified'[i])
        BY <1>27, <3>2, <4>1, KillIs DEF ReleaseFinishes, PlainInv
      <4>6. \A j \in Ids : child'[j] => child[j]
        BY <4>1, KillIs
      <4>7. exited' => closing' /\ \A j \in Ids : release'[j]["shutdown"] \in {"none", "done"}
        BY <4>1
      <4>8. ASSUME NEW j \in Ids, closing', j \in all', child'[j]
            PROVE  release'[j]["shutdown"] # "none"
        BY <4>1, <4>3, <4>6, <4>8 DEF ExitInv
      <4>9. ASSUME NEW j \in Ids, release'[j]["shutdown"] = "done", child'[j]
            PROVE  Kernel(j) /\ (state'[j] = "Unresolved" \/ verified'[j])
        BY <4>4, <4>5, <4>6, <4>9 DEF ExitInv
      <4> QED
        BY <4>7, <4>8, <4>9 DEF ExitInv, Kernel
    <3> QED
      BY <3>1, <3>2
  <2> QED
    BY <2>1, <2>2, <2>3, <2>4, <2>5, <2>6, <2>7
<1>28. ASSUME NEW o \in Clients, Revoke(o)
      PROVE  KeepInv'
  <2>1. KeepFields'
    BY <1>28 DEF Revoke
  <2>2. WorkerInv'
    BY <1>28 DEF Revoke, WorkerInv
  <2>3. PlainInv'
    BY <1>28 DEF Revoke, PlainInv
  <2>4. LetGoInv'
    BY <1>28 DEF Revoke, LetGoInv, Live
  <2>5. AdmissionInv'
    BY <1>28 DEF Revoke, AdmissionInv, WorkerInv, LetGoInv, Unused, LetGo, Refused, Live
  <2>6. ExclusiveInv'
    BY <1>28 DEF Revoke, ExclusiveInv, LetGoInv, Live
  <2>7. ExitInv'
    BY <1>28 DEF Revoke, ExitInv
  <2> QED
    BY <2>1, <2>2, <2>3, <2>4, <2>5, <2>6, <2>7
<1>29. ASSUME NEW o \in Clients, LeaseSweep(o)
      PROVE  KeepInv'
  <2>1. KeepFields'
    BY <1>29 DEF LeaseSweep, OwningWorkers
  <2>2. WorkerInv'
    BY <1>29 DEF LeaseSweep, OwningWorkers, WorkerInv
  <2>3. PlainInv'
    BY <1>29 DEF LeaseSweep, OwningWorkers, PlainInv
  <2>4. LetGoInv'
    BY <1>29 DEF LeaseSweep, LetGoInv, Live
  <2>5. AdmissionInv'
    BY <1>29 DEF LeaseSweep, OwningWorkers, AdmissionInv, WorkerInv, LetGoInv, PlainInv, Unused,
           LetGo, Refused, Live
  <2>6. ExclusiveInv'
    BY <1>29 DEF LeaseSweep, OwningWorkers, ExclusiveInv, LetGoInv, Live
  <2>7. ExitInv'
    BY <1>29 DEF LeaseSweep, OwningWorkers, ExitInv, AdmissionInv, LetGoInv
  <2> QED
    BY <2>1, <2>2, <2>3, <2>4, <2>5, <2>6, <2>7
<1>30. ASSUME ReleaseIdle
      PROVE  KeepInv'
  <2>1. KeepFields'
    BY <1>30 DEF ReleaseIdle, Claim, Busy
  <2>2. WorkerInv'
    BY <1>30 DEF ReleaseIdle, WorkerInv
  <2>3. PlainInv'
    BY <1>30 DEF ReleaseIdle, Claim, PlainInv
  <2>4. LetGoInv'
    BY <1>30 DEF ReleaseIdle, Claim, LetGoInv, Live
  <2>5. AdmissionInv'
    BY <1>30 DEF ReleaseIdle, Claim, Busy, AdmissionInv, WorkerInv, LetGoInv, PlainInv, Unused,
           LetGo, Refused, Live
  <2>6. ExclusiveInv'
    BY <1>30 DEF ReleaseIdle, Claim, Busy, ExclusiveInv, LetGoInv, Live
  <2>7. ExitInv'
    BY <1>30 DEF ReleaseIdle, Claim, Busy, ExitInv, AdmissionInv, LetGoInv
  <2> QED
    BY <2>1, <2>2, <2>3, <2>4, <2>5, <2>6, <2>7
<1>31. ASSUME Shutdown
      PROVE  KeepInv'
  <2>1. KeepFields'
    BY <1>31 DEF Shutdown, OwningWorkers
  <2>2. WorkerInv'
    BY <1>31 DEF Shutdown, OwningWorkers, WorkerInv
  <2>3. PlainInv'
    BY <1>31 DEF Shutdown, OwningWorkers, PlainInv
  <2>4. LetGoInv'
    BY <1>31 DEF Shutdown, LetGoInv, Live
  <2>5. AdmissionInv'
    BY <1>31 DEF Shutdown, OwningWorkers, AdmissionInv, WorkerInv, LetGoInv, PlainInv, Unused,
           LetGo, Refused, Live
  <2>6. ExclusiveInv'
    BY <1>31 DEF Shutdown, OwningWorkers, ExclusiveInv, LetGoInv, Live
  <2>7. ExitInv'
    BY <1>31 DEF Shutdown, OwningWorkers, ExitInv, AdmissionInv, LetGoInv
  <2> QED
    BY <2>1, <2>2, <2>3, <2>4, <2>5, <2>6, <2>7
<1>32. ASSUME Exit
      PROVE  KeepInv'
  <2>1. KeepFields'
    BY <1>32 DEF Exit
  <2>2. WorkerInv'
    BY <1>32 DEF Exit, WorkerInv
  <2>3. PlainInv'
    BY <1>32 DEF Exit, PlainInv
  <2>4. LetGoInv'
    BY <1>32 DEF Exit, LetGoInv, Live
  <2>5. AdmissionInv'
    BY <1>32 DEF Exit, AdmissionInv, WorkerInv, LetGoInv, Unused, LetGo, Refused, Live
  <2>6. ExclusiveInv'
    BY <1>32 DEF Exit, ExclusiveInv, LetGoInv, Live
  <2>7. ExitInv'
    BY <1>32 DEF Exit, ExitInv
  <2> QED
    BY <2>1, <2>2, <2>3, <2>4, <2>5, <2>6, <2>7
<1>33. CASE UNCHANGED vars
  BY <1>33 DEF vars, WorkerInv, PlainInv, LetGoInv, AdmissionInv, ExclusiveInv, ExitInv, Unused,
         LetGo, Refused, Live
<1> QED
  BY <1>1, <1>2, <1>3, <1>4, <1>5, <1>6, <1>7, <1>8, <1>9, <1>10, <1>11, <1>12, <1>13, <1>14,
     <1>15, <1>16, <1>17, <1>18, <1>19, <1>20, <1>21, <1>22, <1>23, <1>24, <1>25, <1>26, <1>27,
     <1>28, <1>29, <1>30, <1>31, <1>32, <1>33 DEF Next, Opening, Calling, Releasing, Rest

(* An admitted session whose worker is up, or which is unresolved, is never *)
(* dropped from the registry, whatever the history bound (Registry::trim,   *)
(* engine.rs): only what has been let go, or was refused, is out of it.     *)
THEOREM KeptSessions == Spec => []NeverForgotten
<1>1. KeepInv => NeverForgotten
  BY DEF KeepInv, NeverForgotten, AdmissionInv, WorkerInv, LetGo, Refused, Live, Before, Unused
<1> QED
  BY <1>1, ReclaimInit, ReclaimStep, KeepInit, KeepStep, PTL DEF Spec

(* Two sessions never hold one kernel endpoint together, for any number of  *)
(* opens, deadlines, deaths and handoffs (admit_with_companion, engine.rs). *)
THEOREM OneController == Spec => []EndpointExclusive
<1>1. KeepInv => EndpointExclusive
  BY DEF KeepInv, EndpointExclusive, ExclusiveInv, AdmissionInv, WorkerInv, LetGo, Refused
<1> QED
  BY <1>1, ReclaimInit, ReclaimStep, KeepInit, KeepStep, PTL DEF Spec

(* When the server exits after its shutdown, a worker that still holds a    *)
(* target belongs to an unresolved session: no open slipped in behind the   *)
(* single pass over the registry, and no cancelled background release was   *)
(* the only one its session had (shutdown, engine.rs).                      *)
THEOREM NothingLeft == Spec => []ExitLeavesNothing
<1>1. KeepInv => ExitLeavesNothing
  BY DEF KeepInv, ExitLeavesNothing, ExitInv, AdmissionInv, WorkerInv, LetGoInv, LetGo, Refused
<1> QED
  BY <1>1, ReclaimInit, ReclaimStep, KeepInit, KeepStep, PTL DEF Spec
=============================================================================
