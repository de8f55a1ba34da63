---------------------------- MODULE KernelSession ----------------------------
(***************************************************************************)
(* One remote-kernel session, supervisor and worker together.  The         *)
(* supervisor half (engine.rs) is four kinds of activity on shared state:  *)
(* the callers, each with a deadline; `pump', which gates and forwards     *)
(* jobs in order; `reader', which handles what the worker says; and an     *)
(* operator's explicit recovery handoff.  The worker half is KernelWorker. *)
(*                                                                         *)
(* At stake is a machine halted in its kernel debugger: the supervisor     *)
(* must neither terminate a worker that may still hold it nor offer its    *)
(* endpoint to a second controller, whatever order deadlines, refusals,    *)
(* late replies and worker deaths come in, and it should need an operator  *)
(* only when nothing less can prove that the kernel was let go.            *)
(***************************************************************************)
EXTENDS KernelWorker

CONSTANTS
    Named,      \* the calls that carry the session's handle
    Early,      \* the calls routed between registration and the opener's submission
    Events      \* what may happen from outside: "crash" of the worker, "loss" of the
                \* supervisor, "handoff" asked for by the operator

ASSUME KernelCalls ==
    /\ Named \subseteq Jobs \ {Attach}
    /\ Early \subseteq Jobs \ {Attach}
    /\ Events \subseteq {"crash", "loss", "handoff"}
    /\ None \notin {"ok", "err", "recovery", "lost", "stale", "timeout"}

VARIABLES
    state,      \* SessionState
    phase,      \* OpenPhase, what the opener's milestones have said
    released,   \* Session::released: the worker provably holds no target
    handoff,    \* Session::kernel_handoff_complete
    takeover,   \* Claims::takeover, the latest retiring job forwarded
    withheld,   \* Claims::withheld is some reason
    child,      \* the process handle: "held", with a handoff task ("taken", "verified"), "none"
    queue,      \* Session::tx, jobs on their way to pump
    pump,       \* the pump thread: where it is and the job it decided on
    waiters,    \* Session::waiters, the jobs whose reply has somewhere to go
    call,       \* each call as its caller sees it
    reply,      \* what the call returned
    eof         \* the supervisor's reader has seen the worker's output end

sessionVars == <<state, phase, released, handoff, takeover, withheld, child>>
callVars == <<queue, pump, waiters, call, reply, eof>>
vars == <<workerVars, sessionVars, callVars>>

Init ==
    /\ WorkerInit
    /\ state = "Opening"
    /\ phase = "Started"
    /\ released = FALSE /\ handoff = FALSE /\ withheld = FALSE /\ eof = FALSE
    /\ takeover = None
    /\ child = "held"
    /\ queue = <<>>
    /\ pump = [at |-> "taking", job |-> None]
    /\ waiters = {}
    /\ call = [j \in Jobs |-> "idle"]
    /\ reply = [j \in Jobs |-> None]

-----------------------------------------------------------------------------
(* Session state. *)

Live(s) == s \notin {"Failed", "Closed"}

AcceptsHandle(s) == s \in {"Opening", "Attaching", "Open"}
AcceptsDefault(s) == AcceptsHandle(s) \/ s = "Retired"
AcceptsTeardown(s) == AcceptsDefault(s) \/ s = "KernelUnresolved"

Admits(j, s) ==
    CASE j \in Ends /\ j \in Named -> AcceptsTeardown(s)
      [] j \in Changes /\ j \in Named -> AcceptsHandle(s)
      [] OTHER -> AcceptsDefault(s)

OpenerState ==
    CASE phase = "Started" -> "Opening"
      [] phase = "Committed" -> "Attaching"
      [] phase = "Opened" -> "Open"

PromoteOpened == state' = IF state \in {"Opening", "Attaching"} THEN "Open" ELSE state

\* Session::kill, which refuses an unresolved kernel worker; reads the state and flag just set.
Kill ==
    IF state' = "KernelUnresolved" /\ ~released'
    THEN UNCHANGED <<child, process>>
    ELSE /\ child' = IF child = "held" THEN "none" ELSE child
         /\ process' = IF child = "held" /\ process = "up" THEN "killed" ELSE process

\* A second PreserveKernel directly behind another has nothing left to record.
Enqueue(j) ==
    queue' = IF \/ pump.at = "stopped"
                \/ j = Preserve /\ queue # <<>> /\ queue[Len(queue)] = Preserve
             THEN queue
             ELSE Append(queue, j)

\* preserve_kernel: unresolved, unless released or handed off; the worker is told either way.
PreserveKernel ==
    /\ state' = IF handoff \/ released THEN state ELSE "KernelUnresolved"
    /\ Enqueue(Preserve)

\* fail_unclaimed and the kill that follows it when the state moved.
FailUnclaimed ==
    /\ released' = TRUE
    /\ IF Live(state)
       THEN state' = "Failed" /\ Kill
       ELSE UNCHANGED <<state, child, process>>

Keep == UNCHANGED <<state, released, withheld, child, process>>

SettleIgnoringTakeover ==
    IF state = "KernelUnresolved"
    THEN Keep
    ELSE FailUnclaimed /\ UNCHANGED withheld

\* The open claimed nothing: end the worker, unless it is unresolved or something took it over.
SettleUncommitted ==
    IF state = "KernelUnresolved"
    THEN Keep
    ELSE IF state = "Retired" \/ takeover # None
    THEN withheld' = TRUE /\ UNCHANGED <<state, released, child, process>>
    ELSE FailUnclaimed /\ UNCHANGED withheld

FailOutstanding(left) ==
    /\ waiters' = {}
    /\ call' = [j \in Jobs |-> IF j \in left /\ call[j] = "waiting" THEN "answered" ELSE call[j]]
    /\ reply' = [j \in Jobs |-> IF j \in left /\ call[j] = "waiting" THEN "lost" ELSE reply[j]]

\* Send on the job's oneshot; a caller that closed its end is not there to receive.
Answer(j, r) ==
    /\ waiters' = waiters \ {j}
    /\ IF j \in waiters /\ call[j] = "waiting"
       THEN call' = [call EXCEPT ![j] = "answered"] /\ reply' = [reply EXCEPT ![j] = r]
       ELSE UNCHANGED <<call, reply>>

Settled(j, r) ==
    /\ call' = [call EXCEPT ![j] = "settled"]
    /\ reply' = [reply EXCEPT ![j] = r]

-----------------------------------------------------------------------------
(* The callers. *)

\* submit_gated, for a call whose session was resolved in the current state.
Submit(j) ==
    /\ input = "open"
    /\ call[j] = "idle"
    /\ j \in Early \/ call[Attach] # "idle"
    /\ Admits(j, state) /\ state # "KernelUnresolved"
    /\ j \in Ends => released \/ phase = "Opened"
    /\ IF pump.at = "stopped"
       THEN /\ call' = [call EXCEPT ![j] = "answered"]
            /\ reply' = [reply EXCEPT ![j] = "lost"]
            /\ UNCHANGED waiters
       ELSE /\ call' = [call EXCEPT ![j] = "waiting"]
            /\ waiters' = waiters \cup {j}
            /\ UNCHANGED reply
    /\ Enqueue(j)
    /\ UNCHANGED <<workerVars, sessionVars, pump, eof>>

\* The opener's own submission; the session may have been preserved before it.
SubmitAttach ==
    /\ input = "open"
    /\ call[Attach] = "idle"
    /\ IF state = "KernelUnresolved"
       THEN /\ call' = [call EXCEPT ![Attach] = "answered"]
            /\ reply' = [reply EXCEPT ![Attach] = "recovery"]
            /\ UNCHANGED <<queue, waiters>>
       ELSE IF pump.at = "stopped"
       THEN /\ call' = [call EXCEPT ![Attach] = "answered"]
            /\ reply' = [reply EXCEPT ![Attach] = "lost"]
            /\ UNCHANGED <<queue, waiters>>
       ELSE /\ call' = [call EXCEPT ![Attach] = "waiting"]
            /\ waiters' = waiters \cup {Attach}
            /\ Enqueue(Attach)
            /\ UNCHANGED reply
    /\ UNCHANGED <<workerVars, sessionVars, pump, eof>>

\* release on a session not known to be open: preserved without asking the worker.
EndRefused(j) ==
    /\ input = "open"
    /\ call[j] = "idle"
    /\ j \in Early \/ call[Attach] # "idle"
    /\ Admits(j, state)
    /\ ~released /\ (state = "KernelUnresolved" \/ phase # "Opened")
    /\ PreserveKernel
    /\ Settled(j, "recovery")
    /\ UNCHANGED <<workerVars, phase, released, handoff, takeover, withheld, child,
                   pump, waiters, eof>>

\* call_as past its budget: read `released', then close the receiving end.  A call made
\* after the opener with the same budget outlasts the opener's own.
Expire(j) ==
    /\ input = "open"
    /\ call[j] = "waiting"
    /\ j \in Changes \ Early => call[Attach] = "settled"
    /\ IF released
       THEN /\ call' = [call EXCEPT ![j] = "answered"]
            /\ reply' = [reply EXCEPT ![j] = "timeout"]
       ELSE /\ call' = [call EXCEPT ![j] = "expiring"]
            /\ UNCHANGED reply
    /\ UNCHANGED <<workerVars, sessionVars, queue, pump, waiters, eof>>

ExpirePreserves(j) ==
    /\ input = "open"
    /\ call[j] = "expiring"
    /\ PreserveKernel
    /\ call' = [call EXCEPT ![j] = "answered"]
    /\ reply' = [reply EXCEPT ![j] = "recovery"]
    /\ UNCHANGED <<workerVars, phase, released, handoff, takeover, withheld, child,
                   pump, waiters, eof>>

\* open_reserved, from the reply of its opener on.
SettleOpen ==
    /\ input = "open"
    /\ call[Attach] = "answered"
    /\ call' = [call EXCEPT ![Attach] = "settled"]
    /\ LET r == reply[Attach]
           failed == r \in {"err", "lost", "stale"}
           preserve == \/ r = "recovery" /\ state # "KernelUnresolved" /\ ~released
                       \/ failed /\ phase = "Committed" /\ Live(state)
           promote == r = "ok" \/ (failed /\ phase = "Opened" /\ Live(state))
       IN  \/ /\ failed /\ phase = "Started"
              /\ SettleUncommitted
              /\ UNCHANGED queue
           \/ /\ preserve
              /\ PreserveKernel
              /\ UNCHANGED <<released, withheld, child, process>>
           \/ /\ promote
              /\ PromoteOpened
              /\ UNCHANGED <<released, withheld, child, process, queue>>
           \/ /\ ~preserve /\ ~promote /\ ~(failed /\ phase = "Started")
              /\ Keep
              /\ UNCHANGED queue
    /\ UNCHANGED <<input, requests, reader, safety, todo, engine, holds, ack, messages,
                   phase, handoff, takeover, pump, waiters, reply, eof>>

\* release, from the reply of its EndSession on.
SettleEnd(j) ==
    /\ input = "open"
    /\ call[j] = "answered"
    /\ \/ /\ reply[j] = "stale"
          /\ call' = [call EXCEPT ![j] = "settled"]
          /\ Keep
          /\ UNCHANGED <<queue, waiters, reply>>
       \/ /\ reply[j] \notin {"stale", "ok"} /\ ~released
          /\ call' = [call EXCEPT ![j] = "settled"]
          /\ PreserveKernel
          /\ UNCHANGED <<released, withheld, child, process, waiters, reply>>
       \/ /\ reply[j] # "stale" /\ (reply[j] = "ok" \/ released)
          /\ released' = TRUE
          /\ state' = IF reply[j] = "ok" /\ Live(state) THEN "Closed" ELSE state
          /\ Kill
          /\ waiters' = {}
          /\ call' = [k \in Jobs |->
                IF k = j THEN "settled"
                ELSE IF k \in waiters /\ call[k] = "waiting" THEN "answered" ELSE call[k]]
          /\ reply' = [k \in Jobs |->
                IF k \in waiters /\ call[k] = "waiting" THEN "lost" ELSE reply[k]]
          /\ UNCHANGED <<withheld, queue>>
    /\ UNCHANGED <<input, requests, reader, safety, todo, engine, holds, ack, messages,
                   phase, handoff, takeover, pump, eof>>
-----------------------------------------------------------------------------
(* pump: one job at a time, decided under the state lock and then written. *)

Refuses(j) ==
    IF state = "KernelUnresolved" THEN "recovery"
    ELSE IF ~Admits(j, state) THEN "stale" ELSE None

PumpRefuses ==
    /\ input = "open"
    /\ pump.at = "taking"
    /\ queue # <<>>
    /\ Head(queue) # Preserve
    /\ Refuses(Head(queue)) # None
    /\ queue' = Tail(queue)
    /\ Answer(Head(queue), Refuses(Head(queue)))
    /\ UNCHANGED <<workerVars, sessionVars, pump, eof>>

Claimed(j) == IF j \in Changes THEN j ELSE takeover

\* Retires for a target change, closes for an end, and records the takeover.
PumpTakes ==
    /\ input = "open"
    /\ pump.at = "taking"
    /\ queue # <<>>
    /\ Head(queue) # Preserve => Refuses(Head(queue)) = None
    /\ queue' = Tail(queue)
    /\ pump' = [at |-> "writing", job |-> Head(queue)]
    /\ takeover' = Claimed(Head(queue))
    /\ state' = IF Head(queue) \in Changes THEN "Retired"
                ELSE IF Head(queue) \in Ends THEN "KernelUnresolved" ELSE state
    /\ UNCHANGED <<workerVars, phase, released, handoff, withheld, child,
                   waiters, call, reply, eof>>

PumpWrites ==
    /\ input = "open"
    /\ pump.at = "writing"
    /\ IF process = "up"
       THEN /\ requests' = Append(requests, pump.job)
            /\ pump' = [at |-> "taking", job |-> None]
            /\ UNCHANGED <<queue, waiters, call, reply>>
       ELSE /\ pump' = [at |-> "stopped", job |-> None]
            /\ queue' = <<>>
            /\ IF pump.job = Preserve
               THEN UNCHANGED <<waiters, call, reply>>
               ELSE Answer(pump.job, "lost")
            /\ UNCHANGED requests
    /\ UNCHANGED <<input, reader, safety, todo, engine, holds, ack, process, messages,
                   sessionVars, eof>>

-----------------------------------------------------------------------------
(* reader: the worker's messages, in order, and then the end of its output. *)

Hears(kind) ==
    /\ input = "open"
    /\ messages # <<>>
    /\ Head(messages).kind = kind
    /\ messages' = Tail(messages)
    /\ UNCHANGED <<input, requests, reader, safety, todo, engine, holds, ack>>

HearsCommitted ==
    /\ Hears("Committed")
    /\ phase' = IF phase = "Started" THEN "Committed" ELSE phase
    /\ state' = IF state = "Opening" THEN "Attaching" ELSE state
    /\ UNCHANGED <<process, released, handoff, takeover, withheld, child, callVars>>

HearsOpened ==
    /\ Hears("Opened")
    /\ phase' = "Opened"
    /\ PromoteOpened
    /\ UNCHANGED <<process, released, handoff, takeover, withheld, child, callVars>>

HearsReplaced ==
    /\ Hears("TargetReplaced")
    /\ state' = IF AcceptsHandle(state) THEN "Retired" ELSE state
    /\ UNCHANGED <<process, phase, released, handoff, takeover, withheld, child, callVars>>

Verdict == Head(messages).result = "recovery" /\ Head(messages).job = takeover

UndoWithheldOnly ==
    IF withheld
    THEN withheld' = FALSE /\ FailUnclaimed
    ELSE UNCHANGED <<state, withheld, released, child, process>>

\* What a refused takeover leaves standing: the withheld failure, or the state it retired.
UndoTakeover ==
    IF withheld
    THEN withheld' = FALSE /\ FailUnclaimed
    ELSE /\ state' = IF state = "Retired" THEN OpenerState ELSE state
         /\ UNCHANGED <<withheld, released, child, process>>

\* The worker refused the latest target-changing command without running it.
HearsVerdict ==
    /\ Hears("Done")
    /\ Verdict
    /\ takeover' = None
    /\ UndoTakeover
    /\ Answer(Head(messages).job, "recovery")
    /\ UNCHANGED <<phase, handoff, queue, pump, eof>>

ConfirmedByAnyReply == Head(messages).job \in Ends \cap waiters

ConfirmedIfAwaited ==
    /\ Head(messages).job \in Ends \cap waiters
    /\ Head(messages).result = "ok"
    /\ call[Head(messages).job] = "waiting"

Confirmed ==
    /\ Head(messages).job \in Ends \cap waiters
    /\ Head(messages).result = "ok"

\* A confirmed release, late or not.
HearsReleased ==
    /\ Hears("Done")
    /\ Confirmed
    /\ released' = TRUE
    /\ state' = IF Live(state) THEN "Closed" ELSE state
    /\ Kill
    /\ LET j == Head(messages).job
           lost == {k \in waiters \ {j} : call[k] = "waiting"}
       IN  /\ waiters' = {}
           /\ call' = [k \in Jobs |->
                 IF k \in lost \/ (k = j /\ call[k] = "waiting") THEN "answered" ELSE call[k]]
           /\ reply' = [k \in Jobs |->
                 IF k \in lost THEN "lost"
                 ELSE IF k = j /\ call[k] = "waiting" THEN "ok" ELSE reply[k]]
    /\ UNCHANGED <<phase, handoff, takeover, withheld, queue, pump, eof>>

Unreceived ==
    /\ Head(messages).job = Attach
    /\ Attach \in waiters /\ call[Attach] # "waiting"

HearsReply ==
    /\ Hears("Done")
    /\ ~Verdict /\ ~Confirmed /\ ~Unreceived
    /\ Answer(Head(messages).job, Head(messages).result)
    /\ UNCHANGED <<process, sessionVars, queue, pump, eof>>

RefusalInAnyPhase(r) == r = "err"

RefusalUnlessPreserved(r) == r = "err" /\ phase = "Started" /\ state # "KernelUnresolved"

Refusal(r) == r = "err" /\ phase = "Started"

\* settle_open: the opener's result, when its caller has stopped waiting.
HearsLateOpen ==
    /\ Hears("Done")
    /\ Unreceived
    /\ waiters' = waiters \ {Attach}
    /\ LET r == Head(messages).result
           refusal == Refusal(r)
       IN  \/ /\ refusal /\ takeover = None
              /\ FailUnclaimed
              /\ UNCHANGED <<withheld, queue>>
           \/ /\ refusal /\ takeover # None
              /\ withheld' = TRUE
              /\ UNCHANGED <<state, released, child, process, queue>>
           \/ /\ ~refusal /\ state = "KernelUnresolved"
              /\ Keep
              /\ UNCHANGED queue
           \/ /\ ~refusal /\ state # "KernelUnresolved"
              /\ r = "recovery" \/ (r = "err" /\ phase = "Committed")
              /\ PreserveKernel
              /\ UNCHANGED <<released, withheld, child, process>>
           \/ /\ ~refusal /\ state # "KernelUnresolved"
              /\ r = "ok" \/ (r = "err" /\ phase = "Opened")
              /\ PromoteOpened
              /\ UNCHANGED <<released, withheld, child, process, queue>>
    /\ UNCHANGED <<phase, handoff, takeover, pump, call, reply, eof>>

EofNeverPreserves == FALSE

EofPreserves == Live(state) /\ ~released

ReaderEof ==
    /\ input = "open"
    /\ ~eof
    /\ process # "up"
    /\ messages = <<>>
    /\ eof' = TRUE
    /\ IF EofPreserves
       THEN PreserveKernel
       ELSE /\ state' = IF Live(state) THEN "Closed" ELSE state
            /\ UNCHANGED queue
    /\ FailOutstanding(waiters)
    /\ UNCHANGED <<workerVars, phase, released, handoff, takeover, withheld, child, pump>>

-----------------------------------------------------------------------------
(* The operator's recovery handoff, a task that outlives its caller. *)

HandoffTakes ==
    /\ "handoff" \in Events
    /\ input = "open"
    /\ state = "KernelUnresolved"
    /\ child = "held"
    /\ child' = "taken"
    /\ UNCHANGED <<workerVars, state, phase, released, handoff, takeover, withheld, callVars>>

HandoffKills ==
    /\ input = "open"
    /\ child = "taken"
    /\ child' = "verified"
    /\ process' = IF process = "up" THEN "handedOff" ELSE process
    /\ UNCHANGED <<input, requests, reader, safety, todo, engine, holds, ack, messages,
                   state, phase, released, handoff, takeover, withheld, callVars>>

\* The exit could not be verified: the handle goes back, the reservation stays.
HandoffFails ==
    /\ input = "open"
    /\ child = "taken"
    /\ child' = "held"
    /\ UNCHANGED <<workerVars, state, phase, released, handoff, takeover, withheld, callVars>>

HandoffFinishes ==
    /\ input = "open"
    /\ child = "verified"
    /\ child' = "none"
    /\ handoff' = TRUE
    /\ state' = IF Live(state) THEN "Closed" ELSE state
    /\ FailOutstanding(waiters)
    /\ UNCHANGED <<workerVars, phase, released, takeover, withheld, queue, pump, eof>>

-----------------------------------------------------------------------------
(* The environment, and the whole. *)

WorkerCrashes ==
    /\ "crash" \in Events
    /\ process = "up"
    /\ process' = "crashed"
    /\ UNCHANGED <<input, requests, reader, safety, todo, engine, holds, ack, messages,
                   sessionVars, callVars>>

SupervisorLost ==
    /\ "loss" \in Events
    /\ input = "open"
    /\ input' = "closed"
    /\ messages' = <<>>
    /\ UNCHANGED <<requests, reader, safety, todo, engine, holds, ack, process,
                   sessionVars, callVars>>

\* Nothing more is asked of the session, or nobody is left to ask.
Rests ==
    /\ \/ input = "closed" /\ (process # "up" \/ reader.at = "retaining")
       \/ /\ input = "open"
          /\ queue = <<>> /\ messages = <<>>
          /\ \A j \in Jobs : call[j] \notin {"waiting", "expiring"}
          /\ process = "up" => requests = <<>> /\ todo = <<>> /\ engine = Idle
    /\ UNCHANGED vars

Worker == (ReaderStep \/ EngineStep) /\ UNCHANGED <<sessionVars, callVars>>

Pump == PumpRefuses \/ PumpTakes \/ PumpWrites

Reader ==
    \/ HearsCommitted \/ HearsOpened \/ HearsReplaced \/ HearsVerdict
    \/ HearsReleased \/ HearsReply \/ HearsLateOpen \/ ReaderEof

Caller ==
    \/ SubmitAttach \/ SettleOpen
    \/ \E j \in Changes \cup Ends : Submit(j)
    \/ \E j \in Ends : EndRefused(j) \/ SettleEnd(j)
    \/ \E j \in Jobs : Expire(j) \/ ExpirePreserves(j)

Handoff == HandoffTakes \/ HandoffKills \/ HandoffFails \/ HandoffFinishes

Next == Worker \/ Pump \/ Reader \/ Caller \/ Handoff \/ WorkerCrashes \/ SupervisorLost \/ Rests

(***************************************************************************)
(* Fairness: the threads and tasks of both processes are scheduled, a      *)
(* handoff once started included, and DbgEng returns from what it runs.    *)
(* Nobody is obliged to make a call, no deadline to pass, no handoff to be *)
(* asked for and nothing to fail.                                          *)
(***************************************************************************)
Fairness ==
    /\ WF_vars(ReaderStep /\ UNCHANGED <<sessionVars, callVars>>)
    /\ WF_vars(EngineStep /\ UNCHANGED <<sessionVars, callVars>>)
    /\ WF_vars(Pump)
    /\ WF_vars(Reader)
    /\ WF_vars(HandoffKills \/ HandoffFails)
    /\ WF_vars(HandoffFinishes)
    /\ WF_vars(SettleOpen)
    /\ \A j \in Ends : WF_vars(SettleEnd(j))
    /\ \A j \in Jobs : WF_vars(ExpirePreserves(j))

Spec == Init /\ [][Next]_vars /\ Fairness

-----------------------------------------------------------------------------
(* Properties. *)

\* What admit_with_companion counts as holding the endpoint.
Reserved == Live(state) \/ child = "held"

(***************************************************************************)
(* The endpoint is offered to another controller only when this session's  *)
(* worker holds no kernel, or an operator took the matter over: deadlines, *)
(* late replies, worker death and handoff all settle the state and the     *)
(* process handle that admit_with_companion reads.                         *)
(***************************************************************************)
EndpointFreeIsSafe == ~Reserved => holds # "kernel" \/ handoff

(***************************************************************************)
(* Session::kill ends only a worker that holds nothing, neither the kernel *)
(* nor a target some queued command gave it: every path to it goes through *)
(* a confirmed release or a refusal that nothing took over.                *)
(***************************************************************************)
KillLeavesNothing == process = "killed" => holds = "none"

(***************************************************************************)
(* `released' is what every guard trusts, so it is raised only when the    *)
(* engine really holds no kernel: by a confirmed EndSession or by an       *)
(* attach that failed before its commit.                                   *)
(***************************************************************************)
ReleasedIsTrue == released => holds # "kernel" \/ handoff

(***************************************************************************)
(* A kernel session leaves `kernel_unresolved' only on proof: the worker   *)
(* holds no kernel any more, or the operator's handoff completed.          *)
(***************************************************************************)
UnresolvedUntilProven ==
    [][state = "KernelUnresolved" /\ state' # state => holds' # "kernel" \/ handoff']_vars

\* The attach has just failed before claiming anything.
ClaimedNothing ==
    /\ At("returned", Attach)
    /\ engine.result = "err"
    /\ "committed" \notin safety

\* What else may have become of the session: a queued command really ran, or a process went.
Overtaken ==
    \/ \E j \in Changes : engine.job = j
    \/ process = "crashed" \/ input = "closed" \/ child # "held"

(***************************************************************************)
(* An attach refused before it claimed anything never costs an operator a  *)
(* handoff: keeping the controller reserved would send an operator to      *)
(* recover a target that nothing attached to (settle_open, engine.rs).     *)
(***************************************************************************)
RefusalEndsTheSession == ClaimedNothing ~> ~Live(state) \/ Overtaken

\* A teardown preserved the session, and the refusal then went to a caller still waiting,
\* whose settlement (settle_uncommitted) leaves a preserved session alone.
PreservedUnderItsCaller ==
    /\ state = "KernelUnresolved"
    /\ reply[Attach] = "err"
    /\ \E j \in Ends : reply[j] = "recovery"

(***************************************************************************)
(* Every other refused attach ends its session: one nobody waits for any   *)
(* more, even if a teardown or its deadline preserved the session, and one *)
(* whose caller still waits, even if commands were queued behind it, in    *)
(* whichever order the worker's two threads answered.                      *)
(***************************************************************************)
LateRefusalEndsTheSession ==
    ClaimedNothing ~> ~Live(state) \/ Overtaken \/ PreservedUnderItsCaller

(***************************************************************************)
(* A release the worker carried out settles the session as soon as its     *)
(* confirmation has been read, even when the caller's deadline preserved   *)
(* the session in the meantime or a handoff is under way.                  *)
(***************************************************************************)
LateReleaseSettles ==
    /\ "committed" \in safety /\ "remote" \notin safety
    /\ engine = Idle /\ messages = <<>> /\ input = "open"
    => ~Live(state)
=============================================================================
