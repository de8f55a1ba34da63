------------------------------ MODULE Registry ------------------------------
(***************************************************************************)
(* The supervisor's session registry (engine.rs, Registry and Sessions):   *)
(* opens racing one another for the session limit, the reclamation that    *)
(* pays for them, the sweeps that let idle, revoked and all sessions go,   *)
(* and the calls and worker deaths that happen meanwhile.                  *)
(*                                                                         *)
(* One step is one acquisition of the registry lock, or one thing a        *)
(* session's pump, reader or worker does.  Everything an open does between *)
(* two acquisitions can be interleaved with everything else, which is what *)
(* the registry's checks have to survive.  A session here is public; the   *)
(* hidden half of a composite Secure Kernel session is not modelled.       *)
(***************************************************************************)
EXTENDS Integers, FiniteSets

CONSTANTS
    Ids,            \* the sessions that may be opened
    Clients,
    Owner,          \* the client each session belongs to
    Endpoint,       \* the kernel endpoint it attaches to, or NoEndpoint
    NoEndpoint,
    MaxSessions,    \* MAX_SESSIONS, per client
    History,        \* CLOSED_HISTORY, per client
    Events          \* what may come from outside, a subset of AllEvents

AllEvents == {"call", "end", "idle", "timeout", "refusal", "death", "handoff", "revoke", "shutdown"}

ASSUME RegistryConstants ==
    /\ Owner \in [Ids -> Clients]
    /\ MaxSessions \in Nat \ {0}
    /\ History \in Nat
    /\ Events \subseteq AllEvents

VARIABLES
    all,        \* Registry::all
    elders,     \* its order: the sessions of it admitted before each one
    closing,    \* Registry::closing
    exited,     \* shutdown has returned and the supervisor is gone
    revoked,    \* Registry::revoked
    swept,      \* the revoked clients whose lease the sweep has released
    open,       \* where the task opening each session is
    state,      \* SessionState; Opening stands for Attaching too
    phase,      \* OpenPhase
    delivered,  \* Session::delivered
    verified,   \* Session::released, or the completed handoff
    child,      \* the supervisor still owns the process handle
    worker,     \* the process: "drained" once the reader has handled its end
    holds,      \* the worker holds a target
    job,        \* the opener: its waiter is registered while "queued" or "running"
    reply,      \* what the opener's waiter was sent
    call,       \* one other caller of the session at a time
    release     \* the teardowns of each session, by who asked for them

registryVars == <<all, elders, closing, exited, revoked, swept>>
sessionVars == <<state, phase, delivered, verified>>
workerVars == <<child, worker, holds>>
callVars == <<job, reply, call, release>>
vars == <<registryVars, open, sessionVars, workerVars, callVars>>

Releasers == {"claim", "end", "lease", "shutdown"}

Init ==
    /\ all = {} /\ elders = [i \in Ids |-> {}]
    /\ closing = FALSE /\ exited = FALSE
    /\ revoked = {} /\ swept = {}
    /\ open = [i \in Ids |-> "idle"]
    /\ state = [i \in Ids |-> "Opening"]
    /\ phase = [i \in Ids |-> "Started"]
    /\ delivered = [i \in Ids |-> FALSE]
    /\ verified = [i \in Ids |-> FALSE]
    /\ child = [i \in Ids |-> FALSE]
    /\ worker = [i \in Ids |-> "none"]
    /\ holds = [i \in Ids |-> FALSE]
    /\ job = [i \in Ids |-> "none"]
    /\ reply = [i \in Ids |-> "none"]
    /\ call = [i \in Ids |-> "none"]
    /\ release = [i \in Ids |-> [r \in Releasers |-> "none"]]

-----------------------------------------------------------------------------
(* What the registry can be asked. *)

Kernel(i) == Endpoint[i] # NoEndpoint
Live(i) == state[i] \notin {"Failed", "Closed"}
Accepts(i) == state[i] \in {"Opening", "Open"}
AcceptsTeardown(i) == Live(i)
LiveFor(o) == {i \in all : Owner[i] = o /\ Live(i)}
OwningWorkers == {i \in all : child[i]}
Slots(o) == {i \in Ids : Owner[i] = o /\ open[i] \in {"spawning", "spawned", "admitted"}}

Waited(i) ==
    \/ job[i] \in {"queued", "running"}
    \/ call[i] \in {"queued", "forwarded"}
    \/ \E r \in Releasers : release[i][r] \in {"queued", "forwarded"}

BusyIgnoringWaiters(i) ==
    \/ state[i] \in {"Unresolved", "Opening"}
    \/ ~delivered[i]

\* Session::busy, the same question for a reclamation and for the idle sweep.
Busy(i) ==
    \/ state[i] \in {"Unresolved", "Opening"}
    \/ ~delivered[i]
    \/ Waited(i)

EvictableOnceSettled(i) == ~Live(i)

\* A settled session that owns no worker; the rest are remembered however many there are.
Evictable(i) == ~Live(i) /\ ~child[i]

\* Registry::trim once i is admitted: per owner, the oldest evictable ones over the bound go.
Trimmed(i) ==
    LET added == all \cup {i}
        Excess(o) == Cardinality({j \in added : Owner[j] = o}) - (History + MaxSessions)
        Older(j) == {k \in elders[j] : Owner[k] = Owner[j] /\ Evictable(k)}
        Evicted(j) == j # i /\ Evictable(j) /\ Cardinality(Older(j)) < Excess(Owner[j])
    IN  {j \in added : ~Evicted(j)}

-----------------------------------------------------------------------------
(* What happens to a session. *)

Set(f, i, v) == [f EXCEPT ![i] = v]

\* preserve_kernel: sticky, unless the target is known to be let go or handed off.
Preserved(i) == IF verified[i] THEN state[i] ELSE "Unresolved"

\* ordinary_move to Closed, which a kernel's unresolved state refuses.
ClosedUnlessUnresolved(i) ==
    IF state[i] = "Failed" \/ (state[i] = "Unresolved" /\ ~verified[i]) THEN state[i] ELSE "Closed"

Promoted(i) == IF state[i] = "Opening" THEN "Open" ELSE state[i]

\* Session::kill; it reads the state and the flag this step leaves.
Kill(i) ==
    IF child[i] /\ ~(state'[i] = "Unresolved" /\ ~verified'[i])
    THEN /\ child' = Set(child, i, FALSE)
         /\ worker' = Set(worker, i, IF worker[i] = "up" THEN "gone" ELSE worker[i])
         /\ holds' = Set(holds, i, FALSE)
    ELSE UNCHANGED workerVars

\* fail_outstanding: every registered waiter is told that the session is lost.
FailOutstanding(i) ==
    /\ job' = Set(job, i, IF job[i] \in {"queued", "running"} THEN "done" ELSE job[i])
    /\ reply' = Set(reply, i, IF job[i] \in {"queued", "running"} THEN "err" ELSE reply[i])
    /\ call' = Set(call, i, IF call[i] \in {"queued", "forwarded"} THEN "none" ELSE call[i])

Lost(i) ==
    [r \in Releasers |-> IF release[i][r] \in {"queued", "forwarded"} THEN "err" ELSE release[i][r]]

-----------------------------------------------------------------------------
(* Opening a session. *)

\* take_slot: what this open and those in flight will need must be reclaimable now.  A
\* request authenticated before its client was revoked gets this far: admission refuses it.
TakeSlot(i) ==
    LET o == Owner[i]
        needed == Cardinality(LiveFor(o)) + Cardinality(Slots(o)) + 1 - MaxSessions
    IN  /\ ~exited
        /\ open[i] = "idle"
        /\ ~closing
        /\ needed <= Cardinality({j \in LiveFor(o) : ~Busy(j)})
        /\ open' = Set(open, i, "spawning")
        /\ UNCHANGED <<registryVars, sessionVars, workerVars, callVars>>

SpawnFails(i) ==
    /\ ~exited
    /\ "refusal" \in Events
    /\ open[i] = "spawning"
    /\ open' = Set(open, i, "done")
    /\ UNCHANGED <<registryVars, sessionVars, workerVars, callVars>>

Spawn(i) ==
    /\ ~exited
    /\ open[i] = "spawning"
    /\ open' = Set(open, i, "spawned")
    /\ child' = Set(child, i, TRUE)
    /\ worker' = Set(worker, i, "up")
    /\ UNCHANGED <<registryVars, sessionVars, holds, callVars>>

ReservedByLive(i) ==
    \E j \in all : Kernel(i) /\ Endpoint[j] = Endpoint[i] /\ Live(j)

\* The endpoint is another controller's, live or merely still owning its worker.
Reserved(i) ==
    \E j \in all : Kernel(i) /\ Endpoint[j] = Endpoint[i] /\ (Live(j) \/ child[j])

AdmissibleIfRevoked(i) == ~closing /\ ~Reserved(i)

\* admit_with_companion reads the gate a second time, a worker handshake after take_slot.
Admissible(i) ==
    /\ ~closing
    /\ Owner[i] \notin revoked
    /\ ~Reserved(i)

\* A worker that died in the meantime is registered all the same; its reader finds out.
Admit(i) ==
    /\ ~exited
    /\ open[i] = "spawned"
    /\ Admissible(i)
    /\ all' = Trimmed(i)
    /\ elders' = [j \in Ids |-> IF j = i THEN all' \ {i} ELSE {k \in elders[j] : {j, k} \subseteq all'}]
    /\ open' = Set(open, i, "admitted")
    /\ UNCHANGED <<closing, exited, revoked, swept, sessionVars, workerVars, callVars>>

Refuse(i) ==
    /\ ~exited
    /\ open[i] = "spawned"
    /\ ~Admissible(i)
    /\ open' = Set(open, i, "done")
    /\ UNCHANGED sessionVars
    /\ Kill(i)
    /\ UNCHANGED <<registryVars, callVars>>

DropSlot(i) ==
    /\ ~exited
    /\ open[i] = "admitted"
    /\ open' = Set(open, i, "submitting")
    /\ UNCHANGED <<registryVars, sessionVars, workerVars, callVars>>

\* submit refuses an unresolved kernel at once; a dead worker's queue may still take the job.
SubmitOpener(i) ==
    /\ ~exited
    /\ open[i] = "submitting"
    /\ open' = Set(open, i, "opening")
    /\ IF state[i] = "Unresolved"
       THEN job' = Set(job, i, "done") /\ reply' = Set(reply, i, "recovery")
       ELSE job' = Set(job, i, "queued") /\ UNCHANGED reply
    /\ UNCHANGED <<registryVars, sessionVars, workerVars, call, release>>

\* pump: the gate is read again before anything is written to the worker.
PumpOpener(i) ==
    /\ ~exited
    /\ job[i] = "queued"
    /\ IF Accepts(i) /\ worker[i] = "up"
       THEN job' = Set(job, i, "running") /\ UNCHANGED reply
       ELSE /\ job' = Set(job, i, "done")
            /\ reply' = Set(reply, i, IF state[i] = "Unresolved" THEN "recovery" ELSE "err")
    /\ UNCHANGED <<registryVars, open, sessionVars, workerVars, call, release>>

Commit(i) ==
    /\ ~exited
    /\ job[i] = "running" /\ worker[i] = "up" /\ phase[i] = "Started"
    /\ phase' = Set(phase, i, "Committed")
    /\ holds' = Set(holds, i, TRUE)
    /\ UNCHANGED <<registryVars, open, state, delivered, verified, child, worker, callVars>>

\* The caller's deadline: the waiter stays registered, and a kernel becomes unresolved.
Abandon(i) ==
    /\ ~exited
    /\ "timeout" \in Events
    /\ open[i] = "opening" /\ job[i] \in {"queued", "running"}
    /\ open' = Set(open, i, "abandoned")
    /\ delivered' = Set(delivered, i, TRUE)
    /\ state' = Set(state, i, IF Kernel(i) THEN Preserved(i) ELSE state[i])
    /\ UNCHANGED <<registryVars, phase, verified, workerVars, callVars>>

\* settle_uncommitted and release_unclaimed_kernel: the open claimed nothing.
FailUnclaimed(i) ==
    /\ verified' = Set(verified, i, verified[i] \/ Kernel(i))
    /\ IF Live(i)
       THEN state' = Set(state, i, "Failed") /\ Kill(i)
       ELSE UNCHANGED <<state, workerVars>>

\* The reader answers the opener; with nobody waiting it settles the open itself.
OpenerReplies(i, r) ==
    /\ ~exited
    /\ job[i] = "running" /\ worker[i] = "up"
    /\ r = "ok" => phase[i] = "Committed"
    /\ r = "err" => "refusal" \in Events
    /\ job' = Set(job, i, "done")
    /\ reply' = Set(reply, i, r)
    /\ phase' = IF r = "ok" THEN Set(phase, i, "Opened") ELSE phase
    /\ IF open[i] = "abandoned" /\ r = "err" /\ phase[i] = "Started"
       THEN FailUnclaimed(i) /\ open' = Set(open, i, "done")
       ELSE /\ state' = Set(state, i, IF r = "ok" \/ open[i] = "abandoned" THEN Promoted(i) ELSE state[i])
            /\ open' = Set(open, i, IF open[i] # "abandoned" THEN open[i]
                                    ELSE IF Live(i) THEN "late" ELSE "done")
            /\ UNCHANGED <<verified, workerVars>>
    /\ UNCHANGED <<registryVars, delivered, call, release>>

\* open_reserved once call_as has returned anything but a timeout.
Land(i) ==
    /\ ~exited
    /\ open[i] = "opening" /\ job[i] = "done"
    /\ \/ /\ reply[i] = "err" /\ phase[i] = "Started" /\ state[i] # "Unresolved"
          /\ FailUnclaimed(i)
          /\ open' = Set(open, i, "done")
          /\ delivered' = Set(delivered, i, TRUE)
       \/ /\ reply[i] = "err" /\ phase[i] # "Started" /\ ~Live(i)
          /\ open' = Set(open, i, "done")
          /\ delivered' = Set(delivered, i, TRUE)
          /\ UNCHANGED <<state, verified, workerVars>>
       \/ /\ \/ reply[i] = "recovery"
             \/ reply[i] = "err" /\ phase[i] = "Committed" /\ Live(i) /\ Kernel(i)
          /\ state' = Set(state, i, Preserved(i))
          /\ open' = Set(open, i, "done")
          /\ delivered' = Set(delivered, i, TRUE)
          /\ UNCHANGED <<verified, workerVars>>
       \/ /\ \/ reply[i] = "ok"
             \/ reply[i] = "err" /\ phase[i] = "Started" /\ state[i] = "Unresolved"
             \/ reply[i] = "err" /\ phase[i] = "Committed" /\ Live(i) /\ ~Kernel(i)
          /\ state' = Set(state, i, Promoted(i))
          /\ open' = Set(open, i, "landed")
          /\ UNCHANGED <<delivered, verified, workerVars>>
    /\ UNCHANGED <<registryVars, phase, callVars>>

\* claim_overage_victim: while over the limit, the oldest idle session but the one kept.
Victim(i, v) ==
    LET live == LiveFor(Owner[i])
        idle == {j \in live \ {i} : ~Busy(j)}
    IN  /\ Cardinality(live) > MaxSessions
        /\ v \in idle
        /\ \A j \in idle \ {v} : v \in elders[j]

ClaimOnly(S) ==
    /\ state' = [i \in Ids |-> IF i \in S THEN "Closed" ELSE state[i]]
    /\ release' = [i \in Ids |-> IF i \in S THEN Set(release[i], "claim", "done") ELSE release[i]]

Claim(S) ==
    /\ state' = [i \in Ids |-> IF i \in S THEN "Closed" ELSE state[i]]
    /\ release' = [i \in Ids |-> IF i \in S THEN Set(release[i], "claim", "owed") ELSE release[i]]

\* reconcile_capacity takes the lock once per victim.
Reconcile(i) ==
    /\ ~exited
    /\ open[i] \in {"landed", "late"}
    /\ \E v \in Ids : Victim(i, v) /\ Claim({v})
    /\ UNCHANGED <<registryVars, open, phase, delivered, verified, workerVars, job, reply, call>>

Reconciled(i) ==
    /\ ~exited
    /\ open[i] \in {"landed", "late"}
    /\ \A v \in Ids : ~Victim(i, v)
    /\ open' = Set(open, i, "done")
    /\ delivered' = Set(delivered, i, TRUE)
    /\ UNCHANGED <<registryVars, state, phase, verified, workerVars, callVars>>

-----------------------------------------------------------------------------
(* A caller using a session. *)

Resolve(i) ==
    /\ ~exited
    /\ "call" \in Events
    /\ call[i] = "none"
    /\ i \in all /\ Accepts(i)
    /\ call' = Set(call, i, "resolved")
    /\ UNCHANGED <<registryVars, open, sessionVars, workerVars, job, reply, release>>

\* submit registers the waiter under the registry lock, without asking for the state again.
SubmitCall(i) ==
    /\ ~exited
    /\ call[i] = "resolved"
    /\ call' = Set(call, i, IF state[i] = "Unresolved" THEN "none" ELSE "queued")
    /\ UNCHANGED <<registryVars, open, sessionVars, workerVars, job, reply, release>>

PumpCall(i) ==
    /\ ~exited
    /\ call[i] = "queued"
    /\ call' = Set(call, i, IF Accepts(i) /\ worker[i] = "up" THEN "forwarded" ELSE "none")
    /\ UNCHANGED <<registryVars, open, sessionVars, workerVars, job, reply, release>>

\* The engine thread takes jobs in order, so not before the opener is through.
CallReplies(i) ==
    /\ ~exited
    /\ call[i] = "forwarded" /\ worker[i] = "up"
    /\ job[i] # "running"
    /\ call' = Set(call, i, "none")
    /\ UNCHANGED <<registryVars, open, sessionVars, workerVars, job, reply, release>>

-----------------------------------------------------------------------------
(* Letting sessions go. *)

\* release_idle: everything idle for long enough, claimed under one lock.
ReleaseIdle ==
    /\ ~exited
    /\ "idle" \in Events
    /\ \E S \in SUBSET {i \in all : Live(i) /\ ~Busy(i)} : S # {} /\ Claim(S)
    /\ UNCHANGED <<registryVars, open, phase, delivered, verified, workerVars, job, reply, call>>

AskEnd(i) ==
    /\ ~exited
    /\ "end" \in Events
    /\ release[i]["end"] = "none"
    /\ i \in all /\ AcceptsTeardown(i)
    /\ release' = [release EXCEPT ![i]["end"] = "owed"]
    /\ UNCHANGED <<registryVars, open, sessionVars, workerVars, job, reply, call>>

\* The sweeps mark a session first so that nothing new is routed to it; a kernel keeps its state.
Marked(i, r) ==
    IF r \in {"lease", "shutdown"} /\ ~Kernel(i) THEN ClosedUnlessUnresolved(i) ELSE state[i]

\* release: refused for a kernel whose attach is unresolved, else EndSession is submitted.
SubmitRelease(i, r) ==
    /\ ~exited
    /\ release[i][r] = "owed"
    /\ LET refused == Kernel(i) /\ ~verified[i]
                      /\ (state[i] = "Unresolved" \/ phase[i] # "Opened")
       IN  /\ state' = Set(state, i, IF refused THEN Preserved(i) ELSE Marked(i, r))
           /\ release' = [release EXCEPT ![i][r] = IF refused THEN "done" ELSE "queued"]
    /\ UNCHANGED <<registryVars, open, phase, delivered, verified, workerVars, job, reply, call>>

\* pump: the supervisor's own teardown passes a closed gate, a caller's end_session does not.
PumpRelease(i, r) ==
    /\ ~exited
    /\ release[i][r] = "queued"
    /\ \/ /\ state[i] = "Unresolved"
          /\ release' = [release EXCEPT ![i][r] = "err"]
          /\ UNCHANGED state
       \/ /\ r = "end" /\ ~AcceptsTeardown(i)
          /\ release' = [release EXCEPT ![i][r] = "done"]
          /\ UNCHANGED state
       \/ /\ state[i] # "Unresolved"
          /\ r = "end" => AcceptsTeardown(i)
          /\ release' = [release EXCEPT ![i][r] = IF worker[i] = "up" THEN "forwarded" ELSE "err"]
          /\ state' = Set(state, i, IF r # "end" THEN state[i]
                                    ELSE IF Kernel(i) THEN "Unresolved" ELSE "Closed")
    /\ UNCHANGED <<registryVars, open, phase, delivered, verified, workerVars, job, reply, call>>

\* The worker lets its target go, after the jobs ahead of it; the reader settles a kernel.
ReleaseReplies(i, r) ==
    /\ ~exited
    /\ release[i][r] = "forwarded" /\ worker[i] = "up"
    /\ job[i] # "running" /\ call[i] # "forwarded"
    /\ release' = [release EXCEPT ![i][r] = "ok"]
    /\ holds' = Set(holds, i, FALSE)
    /\ verified' = Set(verified, i, verified[i] \/ Kernel(i))
    /\ state' = Set(state, i, IF Kernel(i) THEN "Closed" ELSE state[i])
    /\ UNCHANGED <<registryVars, open, phase, delivered, child, worker, job, reply, call>>

ReleaseTimesOut(i, r) ==
    /\ ~exited
    /\ release[i][r] \in {"queued", "forwarded"}
    /\ release' = [release EXCEPT ![i][r] = "err"]
    /\ UNCHANGED <<registryVars, open, sessionVars, workerVars, job, reply, call>>

\* The rest of release: an unconfirmed kernel is preserved, anything else is terminated.
ReleaseFinishes(i, r) ==
    /\ ~exited
    /\ release[i][r] \in {"ok", "err"}
    /\ IF release[i][r] = "err" /\ Kernel(i) /\ ~verified[i]
       THEN /\ state' = Set(state, i, Preserved(i))
            /\ release' = [release EXCEPT ![i][r] = "done"]
            /\ UNCHANGED <<verified, workerVars, job, reply, call>>
       ELSE /\ verified' = Set(verified, i, verified[i] \/ release[i][r] = "ok")
            /\ state' = Set(state, i, IF Kernel(i) /\ release[i][r] = "ok"
                                      THEN "Closed" ELSE state[i])
            /\ release' = Set(release, i, Set(Lost(i), r, "done"))
            /\ FailOutstanding(i)
            /\ Kill(i)
    /\ UNCHANGED <<registryVars, open, phase, delivered>>

ShutdownWithoutOwners ==
    /\ ~exited
    /\ "shutdown" \in Events
    /\ ~closing
    /\ closing' = TRUE
    /\ release' = [i \in Ids |-> IF i \in all /\ Live(i)
                                 THEN Set(release[i], "shutdown", "owed") ELSE release[i]]
    /\ UNCHANGED <<all, elders, exited, revoked, swept, open, sessionVars, workerVars, job, reply, call>>

\* shutdown: the gate and the snapshot of every session owning a worker, under one lock.
Shutdown ==
    /\ ~exited
    /\ "shutdown" \in Events
    /\ ~closing
    /\ closing' = TRUE
    /\ release' = [i \in Ids |-> IF i \in OwningWorkers
                                 THEN Set(release[i], "shutdown", "owed") ELSE release[i]]
    /\ UNCHANGED <<all, elders, exited, revoked, swept, open, sessionVars, workerVars, job, reply, call>>

\* shutdown has awaited every release it began; whatever else was under way ends with the process.
Exit ==
    /\ ~exited
    /\ closing
    /\ \A i \in Ids : release[i]["shutdown"] \in {"none", "done"}
    /\ exited' = TRUE
    /\ UNCHANGED <<all, elders, closing, revoked, swept, open, sessionVars, workerVars, callVars>>

Revoke(o) ==
    /\ ~exited
    /\ "revoke" \in Events
    /\ o \notin revoked
    /\ revoked' = revoked \cup {o}
    /\ UNCHANGED <<all, elders, closing, exited, swept, open, sessionVars, workerVars, callVars>>

\* The listener's sweep finds the revoked lease expired: release_leased, one snapshot.
LeaseSweep(o) ==
    /\ ~exited
    /\ o \in revoked \ swept
    /\ swept' = swept \cup {o}
    /\ release' = [i \in Ids |-> IF i \in OwningWorkers /\ Owner[i] = o
                                 THEN Set(release[i], "lease", "owed") ELSE release[i]]
    /\ UNCHANGED <<all, elders, closing, exited, revoked, open, sessionVars, workerVars, job, reply, call>>

-----------------------------------------------------------------------------
(* Workers ending on their own, and the operator's handoff. *)

Die(i) ==
    /\ ~exited
    /\ "death" \in Events
    /\ worker[i] = "up"
    /\ worker' = Set(worker, i, "gone")
    /\ holds' = Set(holds, i, FALSE)
    /\ UNCHANGED <<registryVars, open, sessionVars, child, callVars>>

\* The reader's end of file; the process handle is not taken.
Eof(i) ==
    /\ ~exited
    /\ worker[i] = "gone"
    /\ worker' = Set(worker, i, "drained")
    /\ state' = Set(state, i, IF ~Live(i) THEN state[i]
                              ELSE IF Kernel(i) /\ ~verified[i] THEN "Unresolved" ELSE "Closed")
    /\ FailOutstanding(i)
    /\ release' = Set(release, i, Lost(i))
    /\ UNCHANGED <<registryVars, open, phase, delivered, verified, child, holds>>

Handoff(i) ==
    /\ ~exited
    /\ "handoff" \in Events
    /\ Kernel(i) /\ state[i] = "Unresolved" /\ child[i]
    /\ child' = Set(child, i, FALSE)
    /\ worker' = Set(worker, i, IF worker[i] = "up" THEN "gone" ELSE worker[i])
    /\ holds' = Set(holds, i, FALSE)
    /\ verified' = Set(verified, i, TRUE)
    /\ state' = Set(state, i, "Closed")
    /\ FailOutstanding(i)
    /\ release' = Set(release, i, Lost(i))
    /\ UNCHANGED <<registryVars, open, phase, delivered>>

-----------------------------------------------------------------------------
Opening(i) ==
    \/ TakeSlot(i) \/ SpawnFails(i) \/ Spawn(i) \/ Admit(i) \/ Refuse(i) \/ DropSlot(i)
    \/ SubmitOpener(i) \/ PumpOpener(i) \/ Commit(i) \/ Abandon(i)
    \/ OpenerReplies(i, "ok") \/ OpenerReplies(i, "err")
    \/ Land(i) \/ Reconcile(i) \/ Reconciled(i)

Calling(i) == Resolve(i) \/ SubmitCall(i) \/ PumpCall(i) \/ CallReplies(i)

Releasing(i, r) ==
    \/ SubmitRelease(i, r) \/ PumpRelease(i, r) \/ ReleaseReplies(i, r)
    \/ ReleaseTimesOut(i, r) \/ ReleaseFinishes(i, r)

\* The supervisor is gone, or nothing is left to happen.
Rest == UNCHANGED vars

Next ==
    \/ \E i \in Ids : Opening(i) \/ Calling(i) \/ AskEnd(i) \/ Die(i) \/ Eof(i) \/ Handoff(i)
    \/ \E i \in Ids, r \in Releasers : Releasing(i, r)
    \/ \E o \in Clients : Revoke(o) \/ LeaseSweep(o)
    \/ ReleaseIdle \/ Shutdown \/ Exit
    \/ Rest

\* Tasks and threads that are runnable run, and every wait has a timer; nothing obliges a
\* client to ask, a worker to answer or a target to appear.
Fairness ==
    /\ \A i \in Ids :
        /\ WF_vars(Spawn(i) \/ Admit(i) \/ Refuse(i) \/ DropSlot(i) \/ SubmitOpener(i))
        /\ WF_vars(PumpOpener(i))
        /\ WF_vars(Land(i) \/ Reconcile(i) \/ Reconciled(i))
        /\ WF_vars(Eof(i))
    /\ \A i \in Ids, r \in Releasers :
        /\ WF_vars(SubmitRelease(i, r) \/ ReleaseFinishes(i, r))
        /\ WF_vars(ReleaseTimesOut(i, r))
    /\ \A o \in Clients : WF_vars(LeaseSweep(o))
    /\ WF_vars(Exit)

Spec == Init /\ [][Next]_vars /\ Fairness

-----------------------------------------------------------------------------
(* A session is reclaimed, for capacity or for idleness, only once its     *)
(* open was delivered and nobody uses it: no call and no opener of it is   *)
(* ever in the worker's hands while or after it is claimed, whatever was   *)
(* resolved before the claim and submitted behind it.                      *)
ReclaimSparesUse ==
    \A i \in Ids : release[i]["claim"] # "none" =>
        /\ open[i] \in {"abandoned", "late", "done"}
        /\ job[i] # "running"
        /\ call[i] # "forwarded"

(* unknown_handle tells a caller that "a session still in flight is never  *)
(* forgotten": an admitted session whose worker is up, or which is         *)
(* unresolved, is in the registry, where the next sweep and session_status *)
(* find it, however much history has been trimmed since.                   *)
NeverForgotten ==
    \A i \in Ids :
        /\ open[i] \notin {"idle", "spawning", "spawned"}
        /\ worker[i] = "up" \/ (state[i] = "Unresolved" /\ job[i] # "none")
        => i \in all

(* Two controllers never hold one kernel endpoint: not while the first is  *)
(* reclaimed and its release still runs in the background, and not after   *)
(* its open was given up on.                                               *)
EndpointExclusive ==
    \A i, j \in Ids : i # j /\ Kernel(i) /\ Endpoint[i] = Endpoint[j] => ~(holds[i] /\ holds[j])

(* When the supervisor exits, every worker that still holds a target is    *)
(* one whose release could not be confirmed and which is reported          *)
(* unresolved: no open slipped in behind shutdown's single pass, and no    *)
(* background release it cancelled was the only one that session had.      *)
ExitLeavesNothing ==
    exited => \A i \in Ids : holds[i] => state[i] = "Unresolved"

(* After its credential is revoked, a client's sessions are all let go,    *)
(* those still opening when it was revoked and those that take their slot  *)
(* after it included: nothing will ever authenticate as that client and    *)
(* end them.                                                               *)
RevokedLetsGo ==
    \A o \in Clients : o \in revoked ~>
        (exited \/ \A i \in Ids : Owner[i] = o =>
                       worker[i] \in {"none", "gone", "drained"} \/ state[i] = "Unresolved")

(* Whatever is reclaimed is also released: the worker goes, or the session *)
(* is reported unresolved.                                                 *)
ReclaimedIsReleased ==
    \A i \in Ids : release[i]["claim"] # "none" ~>
        (exited \/ worker[i] # "up" \/ state[i] = "Unresolved")

=============================================================================
