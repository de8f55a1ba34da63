----------------------------- MODULE Execution -----------------------------
(***************************************************************************)
(* Asynchronous runs of one session (engine.rs): the slot that holds the   *)
(* session's one run, the calls that start it, wait for its stop and break *)
(* it in, the reader of the worker's messages and the task that files the  *)
(* stop.                                                                   *)
(*                                                                         *)
(* A run stands for its handle and its worker job.  The worker is here     *)
(* what its messages show of it: a queue, an engine thread and a reader    *)
(* that serves interrupts ahead of the queue; EngineWorker has the rest.   *)
(***************************************************************************)
EXTENDS Naturals, Sequences, FiniteSets

CONSTANTS
    MaxRuns, \* calls of continue_async
    Calls,   \* ordinary calls, which read the target
    Waits,   \* calls of wait_for_stop
    Breaks,  \* calls of break_in
    Actors,  \* how many of these calls, the worker's death counted, one behaviour has
    None     \* no run, no result

\* Numbered in the order they take the gate.
Runs == 1 .. MaxRuns

\* How a run ends: the kernel's own event or the bound, a break, a command
\* that never moved the target, a refusal, or the loss of the worker.
Failed == {"refused", "lost"}
Endings == {"stop", "break", "still"} \cup Failed

\* None is none of what a call is told of a run.
ASSUME ExecutionConstants ==
    /\ MaxRuns \in Nat /\ Actors \in Nat
    /\ Runs \cap Calls = {}
    /\ None \notin Runs /\ None \notin Calls /\ None \notin Endings \cup {"moved", "stopped"}

VARIABLES
    slot,       \* Session::execution: its run, whether it moves, its result
    gate,       \* who holds submit_gate across two steps
    waiters,    \* the jobs whose reply is awaited
    replies,    \* results sent to the filing tasks and not yet filed
    starts,     \* start_execution, per run
    milestone,  \* the oneshot channel of each start
    waits,      \* wait_for_stop, per call
    breaks,     \* break_in, per call
    calls,      \* ordinary calls
    reader,     \* the milestone the reader is handling, step by step
    messages,   \* worker to server
    queue,      \* the worker's jobs, the first one the engine's own
    pumping,    \* the engine is in the run at the head of the queue
    barred,     \* runs the worker will not start
    broken,     \* runs the worker has raised a break on
    alive,      \* the worker's process
    moved,      \* history: the runs whose target has moved
    ending      \* history: how each run ended

callVars == <<starts, milestone, waits, breaks, calls>>
workerVars == <<queue, pumping, barred, broken, alive, moved, ending>>
execVars == <<slot, gate, waiters, replies, callVars, reader, messages, workerVars>>

NoSlot == [run |-> None, moving |-> FALSE, stopped |-> None]
Quiet == [at |-> "idle", run |-> None, told |-> FALSE]

ExecInit ==
    /\ slot = NoSlot /\ gate = None
    /\ waiters = {} /\ replies = {}
    /\ starts = [r \in Runs |-> [pc |-> "idle", told |-> FALSE, fresh |-> FALSE, answer |-> None]]
    /\ milestone = [r \in Runs |-> FALSE]
    /\ waits = [w \in Waits |-> [pc |-> "idle", run |-> None, fresh |-> FALSE,
                                 ranOut |-> FALSE, answer |-> None]]
    /\ breaks = [b \in Breaks |-> [pc |-> "idle", run |-> None, answer |-> None]]
    /\ calls = [c \in Calls |-> "idle"]
    /\ reader = Quiet /\ messages = <<>>
    /\ queue = <<>> /\ pumping = FALSE /\ barred = {} /\ broken = {}
    /\ alive = TRUE
    /\ moved = {} /\ ending = [r \in Runs |-> None]

-----------------------------------------------------------------------------
(***************************************************************************)
(* execution_moved: the watch channel.  A receiver sees a change made      *)
(* since it last looked.                                                   *)
(***************************************************************************)
Subscribed == {"polling", "reading", "asleep"}

Woken(receivers) ==
    [x \in DOMAIN receivers |->
        [receivers[x] EXCEPT !.fresh = @ \/ receivers[x].pc \in Subscribed]]

(***************************************************************************)
(* The bound on what is called, or happens, in one behaviour.              *)
(***************************************************************************)
Room ==
    Cardinality({r \in Runs : starts[r].pc # "idle"})
      + Cardinality({w \in Waits : waits[w].pc # "idle"})
      + Cardinality({b \in Breaks : breaks[b].pc # "idle"})
      + Cardinality({c \in Calls : calls[c] # "idle"})
      + (IF alive THEN 0 ELSE 1) < Actors

RunningOnceItMoves == slot.run # None /\ slot.stopped = None /\ slot.moving
Running == slot.run # None /\ slot.stopped = None

(***************************************************************************)
(* finish_execution, keyed by the job: a result for a run the slot no      *)
(* longer holds is dropped.                                                *)
(***************************************************************************)
Finish(r, result) ==
    IF slot.run = r
    THEN /\ slot' = [slot EXCEPT !.stopped = result]
         /\ waits' = Woken(waits)
         /\ starts' = Woken(starts)
    ELSE UNCHANGED <<slot, waits, starts>>

-----------------------------------------------------------------------------
(***************************************************************************)
(* start_execution.  The gate is held from the claim to the enqueue.       *)
(***************************************************************************)
Answered(answer) == [pc |-> "answered", told |-> FALSE, fresh |-> FALSE, answer |-> answer]
Arrives(r) == Room /\ starts[r].pc = "idle" /\ \A q \in 1 .. r - 1 : starts[q].pc # "idle"

StartRefused(r) ==
    /\ Arrives(r) /\ gate = None
    /\ Running
    /\ starts' = [starts EXCEPT ![r] = Answered("TargetRunning")]
    /\ UNCHANGED <<slot, gate, waiters, replies, milestone, waits, breaks, calls, reader, messages,
                   workerVars>>

StartClaim(r) ==
    /\ Arrives(r) /\ gate = None
    /\ ~Running
    /\ slot' = [run |-> r, moving |-> FALSE, stopped |-> None]
    /\ gate' = r
    /\ starts' = [Woken(starts) EXCEPT ![r].pc = "claimed"]
    /\ waits' = Woken(waits)
    /\ UNCHANGED <<waiters, replies, milestone, breaks, calls, reader, messages, workerVars>>

(***************************************************************************)
(* subscribe, then submit_gated: the waiter is registered and the job      *)
(* queued; or it is refused, for the session or because the queue is gone. *)
(* A job queued to a worker that has died is never read.                   *)
(***************************************************************************)
StartSubmit(r) ==
    /\ starts[r].pc = "claimed"
    /\ gate' = None
    /\ \/ /\ waiters' = waiters \cup {r}
          /\ queue' = IF alive THEN Append(queue, r) ELSE queue
          /\ starts' = [starts EXCEPT ![r].pc = "polling", ![r].fresh = FALSE]
       \/ /\ starts' = [starts EXCEPT ![r].pc = "failed"]
          /\ UNCHANGED <<waiters, queue>>
    /\ UNCHANGED <<slot, replies, milestone, waits, breaks, calls, reader, messages, pumping,
                   barred, broken, alive, moved, ending>>

StartFails(r) ==
    /\ starts[r].pc = "failed"
    /\ slot' = IF slot.run = r THEN [slot EXCEPT !.stopped = "refused"] ELSE slot
    /\ waits' = Woken(waits)
    /\ starts' = [Woken(starts) EXCEPT ![r] = Answered("refused")]
    /\ ending' = [ending EXCEPT ![r] = "refused"]
    /\ UNCHANGED <<gate, waiters, replies, milestone, breaks, calls, reader, messages, queue,
                   pumping, barred, broken, alive, moved>>

(***************************************************************************)
(* One turn of the starter's loop: the milestone's channel is polled, then *)
(* the slot is read, without a lock that covers both.                      *)
(***************************************************************************)
StartPoll(r) ==
    /\ starts[r].pc = "polling"
    /\ starts' = [starts EXCEPT ![r].pc = "reading", ![r].told = milestone[r]]
    /\ UNCHANGED <<slot, gate, waiters, replies, milestone, waits, breaks, calls, reader, messages,
                   workerVars>>

StartAnswer(r) ==
    IF slot.run # r THEN "Stale"
    ELSE IF starts[r].told THEN "moved"
    ELSE IF slot.stopped = None THEN None
    ELSE IF slot.stopped \in Failed THEN slot.stopped
    ELSE "never moved"

StartRead(r) ==
    /\ starts[r].pc = "reading"
    /\ starts' = IF StartAnswer(r) = None THEN [starts EXCEPT ![r].pc = "asleep"]
                  ELSE [starts EXCEPT ![r] = Answered(StartAnswer(r))]
    /\ UNCHANGED <<slot, gate, waiters, replies, milestone, waits, breaks, calls, reader, messages,
                   workerVars>>

StartWakes(r) ==
    /\ starts[r].pc = "asleep" /\ starts[r].fresh
    /\ starts' = [starts EXCEPT ![r].pc = "polling", ![r].fresh = FALSE]
    /\ UNCHANGED <<slot, gate, waiters, replies, milestone, waits, breaks, calls, reader, messages,
                   workerVars>>

(***************************************************************************)
(* The call's budget runs out, or its client goes: the run stays.          *)
(***************************************************************************)
StartTimeout(r) ==
    /\ starts[r].pc = "asleep"
    /\ starts' = [starts EXCEPT ![r] = Answered("Timeout")]
    /\ UNCHANGED <<slot, gate, waiters, replies, milestone, waits, breaks, calls, reader, messages,
                   workerVars>>

Start(r) ==
    StartSubmit(r) \/ StartFails(r) \/ StartPoll(r) \/ StartRead(r) \/ StartWakes(r)

(***************************************************************************)
(* The filing task.                                                        *)
(***************************************************************************)
File ==
    \E reply \in replies :
        /\ Finish(reply[1], reply[2])
        /\ replies' = replies \ {reply}
        /\ ending' = IF reply[2] = "lost" /\ ending[reply[1]] = None
                    THEN [ending EXCEPT ![reply[1]] = "lost"] ELSE ending
        /\ UNCHANGED <<gate, waiters, milestone, breaks, calls, reader, messages, queue, pumping,
                       barred, broken, alive, moved>>

-----------------------------------------------------------------------------
(***************************************************************************)
(* wait_for_stop on a handle some claim has published.                     *)
(***************************************************************************)
Published(r) == starts[r].pc # "idle" /\ starts[r].answer # "TargetRunning"

WaitBegin(w, r) ==
    /\ Room /\ waits[w].pc = "idle" /\ Published(r)
    /\ waits' = [waits EXCEPT ![w].pc = "reading", ![w].run = r, ![w].fresh = FALSE]
    /\ UNCHANGED <<slot, gate, waiters, replies, starts, milestone, breaks, calls, reader, messages,
                   workerVars>>

WaitAnswer(w) ==
    IF slot.run # waits[w].run THEN "Stale"
    ELSE IF slot.stopped # None THEN slot.stopped
    ELSE IF waits[w].ranOut THEN "running"
    ELSE None

WaitRead(w) ==
    /\ waits[w].pc = "reading"
    /\ waits' = IF WaitAnswer(w) = None THEN [waits EXCEPT ![w].pc = "asleep"]
                 ELSE [waits EXCEPT ![w].pc = "answered", ![w].answer = WaitAnswer(w),
                                    ![w].fresh = FALSE, ![w].ranOut = FALSE]
    /\ UNCHANGED <<slot, gate, waiters, replies, starts, milestone, breaks, calls, reader, messages,
                   workerVars>>

WaitWakes(w) ==
    /\ waits[w].pc = "asleep" /\ waits[w].fresh
    /\ waits' = [waits EXCEPT ![w].pc = "reading", ![w].fresh = FALSE]
    /\ UNCHANGED <<slot, gate, waiters, replies, starts, milestone, breaks, calls, reader, messages,
                   workerVars>>

WaitRunsOut(w) ==
    /\ waits[w].pc = "asleep"
    /\ waits' = [waits EXCEPT ![w].pc = "reading", ![w].ranOut = TRUE]
    /\ UNCHANGED <<slot, gate, waiters, replies, starts, milestone, breaks, calls, reader, messages,
                   workerVars>>

Wait(w) == WaitRead(w) \/ WaitWakes(w)

-----------------------------------------------------------------------------
(***************************************************************************)
(* break_in: the slot is read once, and the interrupt is bound to the run  *)
(* it named, and submitted like any other call.                            *)
(***************************************************************************)
BreakRead(b, r) ==
    /\ Room /\ breaks[b].pc = "idle" /\ Published(r)
    /\ LET found == slot.run = r
           sent == found /\ slot.stopped = None
       IN  breaks' = [breaks EXCEPT ![b].pc = IF sent THEN "sending" ELSE "answered",
                                    ![b].run = r,
                                    ![b].answer = IF sent THEN None
                                                  ELSE IF found THEN "stopped" ELSE "Stale"]
    /\ UNCHANGED <<slot, gate, waiters, replies, starts, milestone, waits, calls, reader, messages,
                   workerVars>>

BreakSend(b) ==
    /\ breaks[b].pc = "sending" /\ gate = None
    /\ breaks' = [breaks EXCEPT ![b].pc = "sent"]
    /\ UNCHANGED <<slot, gate, waiters, replies, starts, milestone, waits, calls, reader, messages,
                   workerVars>>

(***************************************************************************)
(* The worker's request reader: a break for the run it is pumping is       *)
(* raised; any other run is barred, whether it is still queued or over.    *)
(***************************************************************************)
InterruptsWhateverRuns(b) ==
    /\ breaks[b].pc = "sent" /\ alive
    /\ breaks' = [breaks EXCEPT ![b].pc = "answered", ![b].answer = "requested"]
    /\ broken' = IF pumping THEN broken \cup {Head(queue)} ELSE broken
    /\ UNCHANGED <<slot, gate, waiters, replies, starts, milestone, waits, calls, reader, messages,
                   queue, pumping, barred, alive, moved, ending>>

WorkerInterrupt(b) ==
    /\ breaks[b].pc = "sent" /\ alive
    /\ breaks' = [breaks EXCEPT ![b].pc = "answered", ![b].answer = "requested"]
    /\ LET r == breaks[b].run
           begun == pumping /\ Head(queue) = r
       IN  /\ broken' = IF begun THEN broken \cup {r} ELSE broken
           /\ barred' = IF begun THEN barred ELSE barred \cup {r}
    /\ UNCHANGED <<slot, gate, waiters, replies, starts, milestone, waits, calls, reader, messages,
                   queue, pumping, alive, moved, ending>>

BreakLost(b) ==
    /\ breaks[b].pc = "sent" /\ ~alive
    /\ breaks' = [breaks EXCEPT ![b].pc = "answered", ![b].answer = "lost"]
    /\ UNCHANGED <<slot, gate, waiters, replies, starts, milestone, waits, calls, reader, messages,
                   workerVars>>

(***************************************************************************)
(* An ordinary call: refuse_while_running and the enqueue, under the gate. *)
(***************************************************************************)
CallSubmit(c) ==
    /\ Room /\ calls[c] = "idle" /\ gate = None
    /\ \/ /\ Running
          /\ calls' = [calls EXCEPT ![c] = "TargetRunning"]
          /\ UNCHANGED <<waiters, queue>>
       \/ /\ ~Running
          /\ calls' = [calls EXCEPT ![c] = "submitted"]
          /\ waiters' = waiters \cup {c}
          /\ queue' = IF alive THEN Append(queue, c) ELSE queue
    /\ UNCHANGED <<slot, gate, replies, starts, milestone, waits, breaks, reader, messages, pumping,
                   barred, broken, alive, moved, ending>>

-----------------------------------------------------------------------------
(***************************************************************************)
(* The engine thread.  A run either moves the target, which is reported at *)
(* once, or ends without having moved it.                                  *)
(***************************************************************************)
Resumed(r) == [type |-> "Resumed", id |-> r, result |-> None]
Finished(j, result) == [type |-> "Done", id |-> j, result |-> result]

EngineMoves ==
    /\ queue # <<>> /\ ~pumping
    /\ LET r == Head(queue)
       IN  /\ r \in Runs \ barred
           /\ pumping' = TRUE
           /\ moved' = moved \cup {r}
           /\ messages' = Append(messages, Resumed(r))
    /\ UNCHANGED <<slot, gate, waiters, replies, callVars, reader, queue, barred, broken, alive, ending>>

EngineEnds ==
    /\ queue # <<>>
    /\ LET j == Head(queue)
       IN  \E result \in Endings \ {"lost"} :
             /\ j \in Calls => result = "still"
             /\ j \in Runs => CASE pumping -> result = IF j \in broken THEN "break" ELSE "stop"
                                [] ~pumping /\ j \in barred -> result = "refused"
                                [] OTHER -> result \in {"still", "refused"}
             /\ messages' = Append(messages, Finished(j, result))
             /\ ending' = IF j \in Runs THEN [ending EXCEPT ![j] = result] ELSE ending
    /\ queue' = Tail(queue) /\ pumping' = FALSE
    /\ UNCHANGED <<slot, gate, waiters, replies, callVars, reader, barred, broken, alive, moved>>

Die ==
    /\ Room /\ alive
    /\ alive' = FALSE /\ queue' = <<>> /\ pumping' = FALSE
    /\ UNCHANGED <<slot, gate, waiters, replies, callVars, reader, messages, barred, broken, moved, ending>>

(***************************************************************************)
(* fail_outstanding: every reply still awaited is answered as lost.  A     *)
(* kill does not wait for the messages that were already read.             *)
(***************************************************************************)
FailOutstanding ==
    /\ ~alive /\ waiters # {}
    /\ replies' = replies \cup {<<r, "lost">> : r \in waiters \cap Runs}
    /\ waiters' = {}
    /\ UNCHANGED <<slot, gate, callVars, reader, messages, workerVars>>

-----------------------------------------------------------------------------
(***************************************************************************)
(* The reader of the worker's messages.                                    *)
(***************************************************************************)
ReaderDone ==
    /\ reader.at = "idle" /\ messages # <<>> /\ Head(messages).type = "Done"
    /\ LET m == Head(messages)
       IN  /\ replies' = IF m.id \in waiters \cap Runs
                         THEN replies \cup {<<m.id, m.result>>} ELSE replies
           /\ waiters' = waiters \ {m.id}
    /\ messages' = Tail(messages)
    /\ UNCHANGED <<slot, gate, callVars, reader, workerVars>>

ReaderResumed ==
    /\ reader.at = "idle" /\ messages # <<>> /\ Head(messages).type = "Resumed"
    /\ reader' = [at |-> "moving", run |-> Head(messages).id, told |-> Head(messages).id \in waiters]
    /\ messages' = Tail(messages)
    /\ UNCHANGED <<slot, gate, waiters, replies, callVars, workerVars>>

(***************************************************************************)
(* The phase on the slot, then the channel, then the wake.                 *)
(***************************************************************************)
Goes(at) == reader' = IF at = "idle" THEN Quiet ELSE [reader EXCEPT !.at = at]

Moving ==
    /\ slot' = IF slot.run = reader.run THEN [slot EXCEPT !.moving = TRUE] ELSE slot
    /\ UNCHANGED <<starts, milestone, waits>>

Send ==
    /\ milestone' = [milestone EXCEPT ![reader.run] = @ \/ reader.told]
    /\ UNCHANGED <<slot, starts, waits>>

Wake ==
    /\ starts' = Woken(starts) /\ waits' = Woken(waits)
    /\ UNCHANGED <<slot, milestone>>

WakesBeforeItSends ==
    /\ \/ reader.at = "moving" /\ Moving /\ Goes("wake")
       \/ reader.at = "wake" /\ Wake /\ Goes("send")
       \/ reader.at = "send" /\ Send /\ Goes("idle")
    /\ UNCHANGED <<gate, waiters, replies, breaks, calls, messages, workerVars>>

ReaderMilestone ==
    /\ \/ reader.at = "moving" /\ Moving /\ Goes("send")
       \/ reader.at = "send" /\ Send /\ Goes("wake")
       \/ reader.at = "wake" /\ Wake /\ Goes("idle")
    /\ UNCHANGED <<gate, waiters, replies, breaks, calls, messages, workerVars>>

Server == ReaderDone \/ ReaderResumed \/ ReaderMilestone

-----------------------------------------------------------------------------
ExecNext ==
    \/ \E r \in Runs : StartRefused(r) \/ StartClaim(r) \/ Start(r) \/ StartTimeout(r)
    \/ \E w \in Waits : (\E r \in Runs : WaitBegin(w, r)) \/ Wait(w) \/ WaitRunsOut(w)
    \/ \E b \in Breaks : (\E r \in Runs : BreakRead(b, r)) \/ BreakSend(b) \/ WorkerInterrupt(b) \/ BreakLost(b)
    \/ \E c \in Calls : CallSubmit(c)
    \/ File \/ Server
    \/ EngineMoves \/ EngineEnds \/ Die \/ FailOutstanding

(***************************************************************************)
(* Fairness: the runtime polls every task that can go on.  Nothing makes   *)
(* the target stop or the engine thread take the next job, and no budget   *)
(* has to run out.                                                         *)
(***************************************************************************)
ExecFairness ==
    /\ \A r \in Runs : WF_execVars(Start(r))
    /\ \A w \in Waits : WF_execVars(Wait(w))
    /\ WF_execVars(File) /\ WF_execVars(Server)

ExecSpec == ExecInit /\ [][ExecNext]_execVars /\ ExecFairness

-----------------------------------------------------------------------------
(***************************************************************************)
(* What a caller is told of a run is true of that run: "moved" of one      *)
(* whose target moved; the stop of the run its handle names, whatever has  *)
(* taken the slot since; "had already stopped" of one that had.  And a     *)
(* break reaches only a run that some break_in named.                      *)
(***************************************************************************)
AnswersAreTrue ==
    /\ \A r \in Runs : starts[r].answer = "moved" => r \in moved
    /\ \A w \in Waits :
         waits[w].answer \in Endings \ {"lost"} => ending[waits[w].run] = waits[w].answer
    /\ \A b \in Breaks : breaks[b].answer = "stopped" => ending[breaks[b].run] # None
    /\ \A r \in broken : \E b \in Breaks : breaks[b].run = r

(***************************************************************************)
(* A run reported as one that never moved the target did not move it.      *)
(***************************************************************************)
NeverMovedIsTrue == \A r \in Runs : starts[r].answer = "never moved" => r \notin moved

(***************************************************************************)
(* No ordinary call waits for a run: it is ahead of the resume in the      *)
(* worker's queue, or it was refused.                                      *)
(***************************************************************************)
NoCallBehindARun ==
    \A i, j \in DOMAIN queue : i < j => ~(queue[i] \in Runs /\ queue[j] \in Calls)

(***************************************************************************)
(* Whoever waits for something that is there is told, though nothing makes *)
(* the run stop or a budget run out: a starter once the milestone has been *)
(* handled or the stop filed, a waiter once the stop is filed.             *)
(***************************************************************************)
Answerable(r) == reader.run # r /\ (milestone[r] \/ slot.run # r \/ slot.stopped # None)

NobodySleepsOnTheAnswer ==
    /\ \A r \in Runs : (starts[r].pc = "asleep" /\ Answerable(r)) ~> (starts[r].pc = "answered")
    /\ \A w \in Waits :
         (waits[w].pc = "asleep" /\ slot.run = waits[w].run /\ slot.stopped # None)
            ~> (waits[w].pc = "answered")
=============================================================================
