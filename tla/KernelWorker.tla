---------------------------- MODULE KernelWorker ----------------------------
(***************************************************************************)
(* The engine-worker process of a remote-kernel session: what worker.rs    *)
(* adds around DbgEng so that a live kernel is never dropped halted.       *)
(*                                                                         *)
(* Two threads share KernelSafety.  The request reader takes lines off the *)
(* pipe, holds back everything while an attach is pending or the           *)
(* controller is preserved, and on end of input decides whether the        *)
(* process may exit.  The engine thread runs one job at a time.            *)
(*                                                                         *)
(* The module has no specification of its own: KernelSession supplies the  *)
(* supervisor that writes `requests' and reads `messages'.                 *)
(***************************************************************************)
EXTENDS Naturals, Sequences

CONSTANTS
    Attach,     \* the opener, EngineOp::AttachKernel
    Changes,    \* commands that may replace or release the target
    Ends,       \* EngineOp::EndSession jobs
    Preserve,   \* EngineOp::PreserveKernel, a request nobody waits for
    Release,    \* Job::Release, queued by the reader at end of input
    None

Jobs == {Attach} \cup Changes \cup Ends

ASSUME KernelJobs ==
    /\ Changes \cap Ends = {}
    /\ Attach \notin Changes \cup Ends
    /\ {Preserve, Release, None} \cap Jobs = {}
    /\ Preserve # Release /\ Preserve # None /\ Release # None

VARIABLES
    input,      \* the request pipe: "open", or "closed" once the supervisor is gone
    requests,   \* lines written to it and not read yet
    reader,     \* the request reader: where it is and the job it is answering
    safety,     \* KERNEL_SAFETY, as the set of its flags that are true
    todo,       \* the channel from the reader to the engine thread
    engine,     \* the engine thread: where it is, its job and that job's result
    holds,      \* what DbgEng holds: "none", the "kernel" attached, or an "other" target
    ack,        \* the answer to Job::Release
    process,    \* "up", or how the process ended
    messages    \* WorkerMessages on their way to the supervisor

workerVars == <<input, requests, reader, safety, todo, engine, holds, ack,
                process, messages>>

Reading == [at |-> "reading", job |-> None]
Idle == [at |-> "idle", job |-> None, result |-> None]

WorkerInit ==
    /\ input = "open"
    /\ requests = <<>>
    /\ reader = Reading
    /\ safety = {}
    /\ todo = <<>>
    /\ engine = Idle
    /\ holds = "none"
    /\ ack = "none"
    /\ process = "up"
    /\ messages = <<>>

-----------------------------------------------------------------------------
(* KernelSafety. *)

Hold == "remote" \in safety /\ ("pending" \in safety \/ "preserved" \in safety)

Preserved(flags) == IF "remote" \in flags THEN flags \cup {"preserved"} ELSE flags

\* A failure returned before the commit proves that nothing was claimed.
FinishedAttach(failed, panicked) ==
    (CASE ~failed -> safety
       [] failed /\ (panicked \/ "committed" \in safety) -> Preserved(safety)
       [] OTHER -> safety \ {"remote"}) \ {"pending"}

Emit(message) ==
    messages' = IF input = "open" THEN Append(messages, message) ELSE messages

Done(j, result) == [kind |-> "Done", job |-> j, result |-> result]

Milestone(kind, j) == [kind |-> kind, job |-> j]

-----------------------------------------------------------------------------
(* The request reader. *)

Reads(line) ==
    /\ process = "up"
    /\ reader.at = "reading"
    /\ requests # <<>>
    /\ Head(requests) = line
    /\ requests' = Tail(requests)

\* KernelSafety::preserve loads `remote' here and stores `preserved' in the next step.
ReadPreserve ==
    /\ Reads(Preserve)
    /\ reader' = IF "remote" \in safety THEN [Reading EXCEPT !.at = "preserving"] ELSE reader
    /\ UNCHANGED <<input, safety, todo, engine, holds, ack, process, messages>>

StorePreserved ==
    /\ process = "up"
    /\ reader.at = "preserving"
    /\ safety' = safety \cup {"preserved"}
    /\ reader' = Reading
    /\ UNCHANGED <<input, requests, todo, engine, holds, ack, process, messages>>

ReadAttach ==
    /\ Reads(Attach)
    /\ safety' = safety \cup {"remote", "pending"}
    /\ todo' = Append(todo, Attach)
    /\ UNCHANGED <<input, reader, engine, holds, ack, process, messages>>

\* The refusal is written in a step of its own: the engine thread may answer in between.
ReadHeld(j) ==
    /\ j # Attach
    /\ Reads(j)
    /\ Hold
    /\ reader' = [at |-> "refusing", job |-> j]
    /\ UNCHANGED <<input, safety, todo, engine, holds, ack, process, messages>>

EmitHeld ==
    /\ process = "up"
    /\ reader.at = "refusing"
    /\ Emit(Done(reader.job, "recovery"))
    /\ reader' = Reading
    /\ UNCHANGED <<input, requests, safety, todo, engine, holds, ack, process>>

ReadJob(j) ==
    /\ j # Attach
    /\ Reads(j)
    /\ ~Hold
    /\ todo' = Append(todo, j)
    /\ UNCHANGED <<input, reader, safety, engine, holds, ack, process, messages>>

\* End of input: the supervisor is gone, and this thread decides how the process ends.
InputEnds ==
    /\ process = "up"
    /\ input = "closed"
    /\ requests = <<>>
    /\ reader.at = "reading"
    /\ \/ /\ Hold
          /\ reader' = [Reading EXCEPT !.at = "retaining"]
          /\ UNCHANGED todo
       \/ /\ ~Hold
          /\ reader' = [Reading EXCEPT !.at = "releasing"]
          /\ todo' = Append(todo, Release)
    /\ UNCHANGED <<input, requests, safety, engine, holds, ack, process, messages>>

ReleaseWaitEndsInExit ==
    /\ process = "up"
    /\ reader.at = "releasing"
    /\ process' = "exited"
    /\ UNCHANGED <<input, requests, reader, safety, todo, engine, holds, ack, messages>>

\* The wait for Job::Release ends with its answer or, unanswered, with the grace.
ReleaseWaitEnds ==
    /\ process = "up"
    /\ reader.at = "releasing"
    /\ IF ack # "yes" /\ "remote" \in safety
       THEN /\ reader' = [Reading EXCEPT !.at = "retaining"]
            /\ UNCHANGED process
       ELSE /\ process' = "exited"
            /\ UNCHANGED reader
    /\ UNCHANGED <<input, requests, safety, todo, engine, holds, ack, messages>>

RetainEnds ==
    /\ process = "up"
    /\ reader.at = "retaining"
    /\ "remote" \notin safety
    /\ process' = "exited"
    /\ UNCHANGED <<input, requests, reader, safety, todo, engine, holds, ack, messages>>

-----------------------------------------------------------------------------
(* The engine thread. *)

Takes(j) ==
    /\ process = "up"
    /\ engine.at = "idle"
    /\ todo # <<>>
    /\ Head(todo) = j
    /\ todo' = Tail(todo)

EngineRefuses(j) ==
    /\ Takes(j)
    /\ "preserved" \in safety
    /\ Emit(Done(j, "recovery"))
    /\ UNCHANGED <<input, requests, reader, safety, engine, holds, ack, process>>

EngineStarts(j) ==
    /\ Takes(j)
    /\ "preserved" \notin safety
    /\ engine' = [at |-> "running", job |-> j, result |-> None]
    /\ UNCHANGED <<input, requests, reader, safety, holds, ack, process, messages>>

At(where, j) == process = "up" /\ engine.at = where /\ engine.job = j

Returns(result) == engine' = [engine EXCEPT !.at = "returned", !.result = result]

\* attach_kernel_begin, or the startup symbol path before it, failed: nothing is claimed.
AttachRefused ==
    /\ At("running", Attach)
    /\ safety' = FinishedAttach(TRUE, FALSE)
    /\ Returns("err")
    /\ UNCHANGED <<input, requests, reader, todo, holds, ack, process, messages>>

AttachCommits ==
    /\ At("running", Attach)
    /\ holds' = "kernel"
    /\ safety' = safety \cup {"committed"}
    /\ Emit(Milestone("Committed", Attach))
    /\ engine' = [engine EXCEPT !.at = "committed"]
    /\ UNCHANGED <<input, requests, reader, todo, ack, process>>

AttachStops ==
    /\ At("committed", Attach)
    /\ Emit(Milestone("Opened", Attach))
    /\ engine' = [engine EXCEPT !.at = "opened"]
    /\ UNCHANGED <<input, requests, reader, safety, todo, holds, ack, process>>

\* The wait for the initial stop failed, or the opening report did.
AttachFailsLate ==
    /\ At("committed", Attach) \/ At("opened", Attach)
    /\ safety' = FinishedAttach(TRUE, FALSE)
    /\ Returns("err")
    /\ UNCHANGED <<input, requests, reader, todo, holds, ack, process, messages>>

AttachPanics ==
    /\ At("running", Attach) \/ At("committed", Attach) \/ At("opened", Attach)
    /\ holds' \in IF engine.at = "running" THEN {holds, "kernel"} ELSE {holds}
    /\ safety' = FinishedAttach(TRUE, TRUE)
    /\ Returns("recovery")
    /\ UNCHANGED <<input, requests, reader, todo, ack, process, messages>>

AttachReports ==
    /\ At("opened", Attach)
    /\ safety' = FinishedAttach(FALSE, FALSE)
    /\ Returns("ok")
    /\ UNCHANGED <<input, requests, reader, todo, holds, ack, process, messages>>

\* A target-changing command; watch_the_target reports a target that went away.
ChangeRuns(j) ==
    /\ At("running", j)
    /\ holds' \in {holds, "none", "other"}
    /\ IF holds # "none" /\ holds' # holds
       THEN Emit(Milestone("TargetReplaced", j))
       ELSE UNCHANGED messages
    /\ \E result \in {"ok", "err"} : Returns(result)
    /\ UNCHANGED <<input, requests, reader, safety, todo, ack, process>>

EndRuns(j) ==
    /\ At("running", j)
    /\ \/ /\ Returns("ok")
          /\ holds' = "none"
          /\ safety' = safety \ {"remote"}
       \/ /\ Returns("err")
          /\ holds' \in {holds, "none"}
          /\ safety' = Preserved(safety)
    /\ UNCHANGED <<input, requests, reader, todo, ack, process, messages>>

EngineReturns ==
    /\ process = "up"
    /\ engine.at = "returned"
    /\ Emit(Done(engine.job, engine.result))
    /\ engine' = Idle
    /\ UNCHANGED <<input, requests, reader, safety, todo, holds, ack, process>>

\* Job::Release, behind whatever was queued before the input ended.
EngineReleases ==
    /\ Takes(Release)
    /\ \/ /\ Hold
          /\ ack' = "no"
          /\ UNCHANGED <<safety, holds>>
       \/ /\ ~Hold
          /\ ack' = "yes"
          /\ holds' = "none"
          /\ safety' = safety \ {"remote"}
       \/ /\ ~Hold
          /\ ack' = "no"
          /\ holds' \in {holds, "none"}
          /\ UNCHANGED safety
    /\ UNCHANGED <<input, requests, reader, engine, process, messages>>

-----------------------------------------------------------------------------
ReaderStep ==
    \/ ReadPreserve \/ StorePreserved \/ ReadAttach \/ EmitHeld
    \/ InputEnds \/ ReleaseWaitEnds \/ RetainEnds
    \/ \E j \in Jobs : ReadHeld(j) \/ ReadJob(j)

EngineStep ==
    \/ \E j \in Jobs : EngineRefuses(j) \/ EngineStarts(j)
    \/ AttachRefused \/ AttachCommits \/ AttachStops \/ AttachFailsLate
    \/ AttachPanics \/ AttachReports
    \/ \E j \in Changes : ChangeRuns(j)
    \/ \E j \in Ends : EndRuns(j)
    \/ EngineReturns \/ EngineReleases

(***************************************************************************)
(* The process never ends by itself with a kernel it attached and did not  *)
(* release: run's exit paths all wait for KernelSafety::remote to clear.   *)
(***************************************************************************)
OrphanKeepsKernel == process = "exited" => holds # "kernel"
=============================================================================
