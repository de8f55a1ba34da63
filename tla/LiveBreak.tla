----------------------------- MODULE LiveBreak -----------------------------
(***************************************************************************)
(* sk_live_break against sk_live_wait, in the worker of a live Secure      *)
(* Kernel controller (worker.rs, skdispatch.rs).  The engine thread runs   *)
(* the queue, and a wait sits in DbgEng on it; the reader thread binds a   *)
(* break to the wait that is running, wakes it, and queues the break       *)
(* behind it.                                                              *)
(*                                                                         *)
(* Two locks: RUNNING, whose holder never waits, so that a critical        *)
(* section of it is one step; and the scope gate of the wait's activity,   *)
(* which the engine holds while it takes RUNNING.                          *)
(***************************************************************************)
EXTENDS Naturals, Sequences, WaitActivity

CONSTANT MaxJobs   \* requests the reader reads

ASSUME LiveBreakConstants == MaxJobs \in Nat

VARIABLES
    script,    \* the requests in the order the supervisor wrote them
    read,      \* how many requests the reader has read
    binder,    \* where request_live_break or stop_resuming is: pc, its own job, the wait's
    lane,      \* the queue to the engine thread
    op,        \* the engine thread: pc, its job, how its wait ended
    claimed,   \* Running: job, live_wait_job, whose activity is published,
               \* the outcome of the wait, an interrupt recorded, tearing_down
    staged,    \* Running::live_break
    activity,  \* the WaitActivity of the current wait
    scope,     \* who holds its scope gate
    held,      \* the stop the controller holds: the job that made it
    filed,     \* the engine's break flag: the job the interrupt was raised for
    results,   \* history: how each job ended
    boundTo    \* history: the wait each break was bound to

liveVars == <<script, read, binder, lane, op, claimed, staged, activity, scope, held, filed, results, boundTo>>

NoJob == 0
Jobs == 1 .. MaxJobs
Kind(j) == script[j]

\* sk_live_wait, sk_live_break, any sealed op, and the teardown, after which
\* the supervisor writes nothing but breaks.
Scripts ==
    {s \in [Jobs -> {"wait", "break", "sealed", "end"}] :
        \A i, j \in Jobs : i < j /\ s[i] = "end" => s[j] = "break"}

NoBreak == [wait |-> NoJob, by |-> NoJob, filed |-> FALSE, outcome |-> "pending"]
NoClaim == [job |-> NoJob, waits |-> NoJob, published |-> NoJob, outcome |-> "pending",
            interrupted |-> FALSE, ending |-> FALSE]

LiveInit ==
    /\ script \in Scripts /\ read = 0 /\ binder = [pc |-> "idle", job |-> NoJob, wait |-> NoJob]
    /\ lane = <<>> /\ op = [pc |-> "idle", job |-> NoJob, result |-> "pending"]
    /\ claimed = NoClaim /\ staged = NoBreak
    /\ activity = FinishWait(ArmedWait) /\ scope = "free" /\ held = NoJob /\ filed = NoJob
    /\ results = [j \in Jobs |-> "pending"] /\ boundTo = [j \in Jobs |-> NoJob]

-----------------------------------------------------------------------------
(***************************************************************************)
(* The reader thread.                                                      *)
(***************************************************************************)
Queued(j) == lane' = Append(lane, j)
Refuse(j) == results' = [results EXCEPT ![j] = "refused"]

\* stage_live_break finds a wait to bind to.
Bindable ==
    /\ staged = NoBreak
    /\ claimed.waits # NoJob /\ claimed.waits = claimed.job

\* The wait is still in its published interval, and is asked to break.
Wakeable == claimed.outcome = "pending" /\ claimed.published = claimed.waits

\* request_live_break, up to the point where it lets RUNNING go.
Stage(j) ==
    IF claimed.ending
    THEN Refuse(j) /\ UNCHANGED <<staged, activity, binder, lane, boundTo>>
    ELSE IF ~Bindable
    THEN Queued(j) /\ UNCHANGED <<staged, activity, binder, results, boundTo>>
    ELSE /\ staged' = [NoBreak EXCEPT !.wait = claimed.job, !.by = j, !.outcome = claimed.outcome]
         /\ boundTo' = [boundTo EXCEPT ![j] = claimed.job]
         /\ IF Wakeable
            THEN /\ activity' = RequestBreak(activity)
                 /\ binder' = [pc |-> "wake", job |-> j, wait |-> claimed.job]
                 /\ UNCHANGED lane
            ELSE Queued(j) /\ UNCHANGED <<activity, binder>>
         /\ UNCHANGED results

\* One request: a break is bound, a teardown closes the door on waits and
\* records its interrupt of a published one, the others are queued.
Read ==
    /\ binder.pc = "idle" /\ read < MaxJobs
    /\ read' = read + 1
    /\ LET j == read + 1 IN
       \/ Kind(j) = "break" /\ Stage(j) /\ UNCHANGED claimed
       \/ /\ Kind(j) \in {"wait", "sealed"} /\ Queued(j)
          /\ UNCHANGED <<staged, activity, binder, claimed, results, boundTo>>
       \/ /\ Kind(j) = "end"
          /\ LET published == claimed.published # NoJob IN
             /\ claimed' = [claimed EXCEPT !.ending = TRUE, !.interrupted = @ \/ published]
             /\ binder' = IF published
                          THEN [pc |-> "stop", job |-> j, wait |-> claimed.published] ELSE binder
             /\ IF published THEN UNCHANGED lane ELSE Queued(j)
          /\ UNCHANGED <<staged, activity, results, boundTo>>
    /\ UNCHANGED <<script, op, scope, filed, held>>

\* The activity the binder holds is the wait's own; a later wait has another.
Active == Interruptible(activity) /\ op.job = binder.wait

\* while_active: under the scope gate, the wait is interrupted or has ended.
WakeWait ==
    /\ binder.pc = "wake" /\ scope = "free"
    /\ \/ /\ Active
          /\ filed' = binder.wait /\ binder' = [binder EXCEPT !.pc = "record"]
          /\ UNCHANGED <<lane, activity>>
       \/ /\ ~Active
          /\ binder' = [binder EXCEPT !.pc = "idle"] /\ Queued(binder.job)
          /\ UNCHANGED <<filed, activity>>
       \/ /\ Active    \* SetInterrupt fails
          /\ activity' = CancelBreak(activity) /\ binder' = [binder EXCEPT !.pc = "undo"]
          /\ UNCHANGED <<filed, lane>>
    /\ UNCHANGED <<script, read, op, claimed, staged, scope, held, results, boundTo>>

\* RUNNING again: the interrupt is noted on the request it was raised for.
Record ==
    /\ binder.pc = "record"
    /\ staged' = IF staged.wait = binder.wait /\ staged.by = binder.job
                THEN [staged EXCEPT !.filed = TRUE] ELSE staged
    /\ binder' = [binder EXCEPT !.pc = "idle"] /\ Queued(binder.job)
    /\ UNCHANGED <<script, read, op, claimed, activity, scope, filed, held, results, boundTo>>

Undone ==
    /\ binder.pc = "undo"
    /\ staged' = NoBreak /\ Refuse(binder.job)
    /\ binder' = [binder EXCEPT !.pc = "idle"]
    /\ UNCHANGED <<script, read, lane, op, claimed, activity, scope, filed, boundTo, held>>

\* stop_resuming: the same, for the teardown.
StopWait ==
    /\ binder.pc = "stop" /\ scope = "free"
    /\ filed' = IF Active THEN binder.wait ELSE filed
    /\ binder' = [binder EXCEPT !.pc = "idle"] /\ Queued(binder.job)
    /\ UNCHANGED <<script, read, op, claimed, staged, activity, scope, held, results, boundTo>>

-----------------------------------------------------------------------------
(***************************************************************************)
(* The engine thread.                                                      *)
(***************************************************************************)
\* claim: every op but the wait is sealed in the same step, which drains
\* what is pending on the engine.
Claim ==
    /\ op.pc = "idle" /\ lane # <<>>
    /\ LET j == Head(lane) IN
       /\ lane' = Tail(lane)
       /\ claimed' = [claimed EXCEPT !.job = j, !.waits = IF Kind(j) = "wait" THEN j ELSE NoJob]
       /\ op' = [pc |-> IF Kind(j) = "wait" THEN "enter" ELSE "work", job |-> j, result |-> "pending"]
       /\ filed' = IF Kind(j) = "wait" THEN filed ELSE NoJob
       /\ activity' = IF Kind(j) = "wait" THEN ArmedWait ELSE activity
    /\ UNCHANGED <<script, read, binder, staged, scope, held, results, boundTo>>

\* wait_for_stop is refused at a stop; otherwise enter takes the scope gate ...
Enters ==
    /\ op.pc = "enter"
    /\ \/ /\ held # NoJob
          /\ op' = [op EXCEPT !.pc = "drain", !.result = "failed"] /\ UNCHANGED scope
       \/ /\ held = NoJob /\ scope = "free"
          /\ scope' = "engine" /\ op' = [op EXCEPT !.pc = "begin"]
    /\ UNCHANGED <<script, read, binder, lane, claimed, staged, activity, held, filed, results, boundTo>>

\* Mutant: only a break that finds the wait published is heard.
HeardOnlyInside(j) == FALSE

\* A break bound to the wait ends it before it begins.
AlreadyBound(j) == staged.wait = j

\* ... and begin_live_wait RUNNING: the wait is refused, ends in its break
\* at once, or is published.
Begins ==
    /\ op.pc = "begin" /\ scope' = "free"
    /\ \/ /\ claimed.ending
          /\ op' = [op EXCEPT !.pc = "drain", !.result = "failed"]
          /\ activity' = FinishWait(activity) /\ UNCHANGED claimed
       \/ /\ ~claimed.ending /\ AlreadyBound(op.job)
          /\ op' = [op EXCEPT !.pc = "rendezvous"]
          /\ activity' = FinishWait(activity) /\ UNCHANGED claimed
       \/ /\ ~claimed.ending /\ ~AlreadyBound(op.job)
          /\ op' = [op EXCEPT !.pc = "waiting"]
          /\ activity' = Enter(activity, TRUE)
          /\ claimed' = [claimed EXCEPT !.published = op.job]
    /\ UNCHANGED <<script, read, binder, lane, staged, filed, held, results, boundTo>>

\* DbgEng returns: a stop of the target's own, the wait's time limit, or the
\* interrupt.
Returns ==
    /\ op.pc = "waiting"
    /\ \/ /\ op' = [op EXCEPT !.pc = "leave", !.result = "stopped"]
          /\ held' = op.job /\ UNCHANGED filed
       \/ op' = [op EXCEPT !.pc = "leave", !.result = "failed"] /\ UNCHANGED <<held, filed>>
       \/ /\ filed # NoJob /\ filed' = NoJob /\ UNCHANGED held
          /\ op' = [op EXCEPT !.pc = "leave", !.result = IF activity.broken THEN "woken" ELSE "failed"]
    /\ UNCHANGED <<script, read, binder, lane, claimed, staged, activity, scope, results, boundTo>>

\* The guards drop: the interval ends under the gate, then its publication.
LeavesWait ==
    /\ op.pc = "leave" /\ scope = "free"
    /\ activity' = FinishWait(activity) /\ op' = [op EXCEPT !.pc = "unpublish"]
    /\ UNCHANGED <<script, read, binder, lane, claimed, staged, scope, filed, held, results, boundTo>>

Unpublishes ==
    /\ op.pc = "unpublish"
    /\ claimed' = [claimed EXCEPT !.published = NoJob]
    /\ op' = [op EXCEPT !.pc = IF op.result = "woken" THEN "rendezvous" ELSE "drain"]
    /\ UNCHANGED <<script, read, binder, lane, staged, activity, scope, filed, held, results, boundTo>>

\* break_on_demand, in the wait or in the break itself: it needs a running
\* target, and may fail on one.
Rendezvous ==
    /\ op.pc = "rendezvous"
    /\ LET next == IF Kind(op.job) = "wait" THEN "drain" ELSE "release" IN
       \/ /\ held = NoJob /\ held' = op.job
          /\ op' = [op EXCEPT !.result = "stopped", !.pc = next]
       \/ /\ op' = [op EXCEPT !.result = "failed", !.pc = next]
          /\ UNCHANGED held
    /\ UNCHANGED <<script, read, binder, lane, claimed, staged, activity, scope, filed, results, boundTo>>

\* drain_live_break_interrupt
Drains ==
    /\ op.pc = "drain"
    /\ LET mine == staged.wait = op.job /\ staged.filed IN
       /\ filed' = IF mine THEN NoJob ELSE filed
       /\ staged' = IF mine THEN [staged EXCEPT !.filed = FALSE] ELSE staged
    /\ op' = [op EXCEPT !.pc = "settle"]
    /\ UNCHANGED <<script, read, binder, lane, claimed, activity, scope, held, results, boundTo>>

\* Mutant: the outcome is left with the break that is bound by then.
SettlesTheBoundOnly ==
    /\ op.pc = "settle"
    /\ staged' = IF staged.wait = op.job THEN [staged EXCEPT !.outcome = op.result] ELSE staged
    /\ op' = [op EXCEPT !.pc = "release"]
    /\ UNCHANGED <<script, read, binder, lane, claimed, activity, scope, filed, held, results, boundTo>>

\* finish_live_break: the outcome, for the break bound and for one that will
\* bind before the job is given back.
Settles ==
    /\ op.pc = "settle"
    /\ claimed' = [claimed EXCEPT !.outcome = op.result]
    /\ staged' = IF staged.wait = op.job THEN [staged EXCEPT !.outcome = op.result] ELSE staged
    /\ op' = [op EXCEPT !.pc = "release"]
    /\ UNCHANGED <<script, read, binder, lane, activity, scope, filed, held, results, boundTo>>

\* A sealed op may let the target run again.
Works ==
    /\ op.pc = "work" /\ Kind(op.job) # "break"
    /\ op' = [op EXCEPT !.pc = "release", !.result = "done"]
    /\ held' \in {held, NoJob}
    /\ UNCHANGED <<script, read, binder, lane, claimed, staged, activity, scope, filed, results, boundTo>>

\* take_live_break: the outcome of the wait it was bound to is its answer,
\* unless that stop has gone; a break without one makes the rendezvous.
BreakTakes ==
    /\ op.pc = "work" /\ Kind(op.job) = "break"
    /\ LET taken == staged.by = op.job
           outcome == IF taken THEN staged.outcome ELSE "pending"
       IN  /\ staged' = IF taken THEN NoBreak ELSE staged
           /\ op' = IF outcome = "pending" THEN [op EXCEPT !.pc = "rendezvous"]
                    ELSE [op EXCEPT !.pc = "release",
                            !.result = IF outcome = "stopped" /\ held # staged.wait THEN "stale" ELSE outcome]
    /\ UNCHANGED <<script, read, binder, lane, claimed, activity, scope, held, filed, results, boundTo>>

\* release, and the drain of an interrupt recorded on the job.
Releases ==
    /\ op.pc = "release"
    /\ claimed' = [NoClaim EXCEPT !.ending = claimed.ending]
    /\ filed' = IF claimed.interrupted THEN NoJob ELSE filed
    /\ results' = [results EXCEPT ![op.job] = op.result]
    /\ op' = [op EXCEPT !.pc = "idle", !.job = NoJob]
    /\ UNCHANGED <<script, read, binder, lane, staged, activity, scope, boundTo, held>>

ReaderStep == Read \/ WakeWait \/ Record \/ Undone \/ StopWait
EngineStep ==
    \/ Claim \/ Enters \/ Begins \/ Returns \/ LeavesWait \/ Unpublishes
    \/ Rendezvous \/ Drains \/ Settles \/ Works \/ BreakTakes \/ Releases

LiveNext == ReaderStep \/ EngineStep
LiveSpec == LiveInit /\ [][LiveNext]_liveVars

-----------------------------------------------------------------------------
(***************************************************************************)
(* Properties.                                                             *)
(***************************************************************************)
\* A break that was bound to a wait does not sit behind it: once the reader
\* has dealt with it, the wait is not in DbgEng without its interrupt.  The
\* break is bound under one lock and the interval it may interrupt is made
\* active under another.
BoundBreakWakes ==
    (binder.pc = "idle" /\ staged.wait # NoJob /\ op.job = staged.wait /\ op.pc = "waiting")
        => filed # NoJob

\* A break that was bound to a wait answers with the outcome of that wait
\* (or that its stop has gone): not with a later stop, not with one of its
\* own making.
BreakAnswersForItsWait ==
    \A j \in Jobs : (boundTo[j] # NoJob /\ results[j] \in {"stopped", "failed"})
        => results[j] = results[boundTo[j]]
=============================================================================
