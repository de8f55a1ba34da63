-------------------------------- MODULE Batch --------------------------------
(***************************************************************************)
(* The debug_batch executor (batch.rs, run and run_step): an ordered list  *)
(* of steps, each an action and the assertions on it, and an `always'      *)
(* block that undoes them, run as one job on a worker's engine thread.     *)
(*                                                                         *)
(* The executor itself is sequential.  What makes it hard is what happens  *)
(* around it: any engine call may take up to its watchdog, replace or end  *)
(* the target, fail, or be cut short by a break; a teardown may arrive at  *)
(* any moment; and the report has to be right about all of it, because a   *)
(* patch left applied and reported as undone is what the tool exists to    *)
(* prevent.                                                                *)
(***************************************************************************)
EXTENDS Integers, Sequences, FiniteSets

CONSTANTS
    Plans,      \* the batches that may be submitted
    Budget,     \* what batch_budget grants, in clock units
    Reserve,    \* ROLLBACK_RESERVE
    MinStep,    \* MIN_STEP_BUDGET_MS
    Slack       \* what the debugger's watchdog takes to interrupt and unwind

Blocks == {"steps", "always"}
Kinds == {"query", "execution", "release"}

\* A step's action by what it may do to the target, its assertions in order, whether it
\* binds a name, and the steps whose names it refers to.
Step == [kind : Kinds, expect : Seq({"text", "eval"}), captures : BOOLEAN, needs : SUBSET (Blocks \X Nat)]

ASSUME BatchConstants ==
    /\ \A p \in Plans : p.steps \in Seq(Step) /\ p.always \in Seq(Step)
    /\ MinStep \in Nat \ {0} /\ Slack \in Nat /\ Slack <= MinStep
    /\ Reserve \in Nat /\ Reserve >= MinStep
    /\ Budget \in Nat /\ Budget >= 2 * MinStep

VARIABLES
    plan,
    clock,      \* Debuggee::elapsed
    block,      \* the block being run and, 1-based, the step of it
    pos,
    at,         \* "next" step, its action "acting", its identity check "asking", its
                \* assertions "checking", an evaluation "querying", "finished", the final
                \* "probing", or "done"
    cur,        \* run_step's locals
    outcome,    \* BatchOutcome
    report,     \* the step outcomes of each block so far
    ended,      \* some step ended the target
    unverified, \* Unverified: "none", or what run saw when it could not certify the target
    inCleanup,  \* Unverified::during_cleanup
    bound,      \* the steps whose capture is bound
    after,      \* SessionAfter
    target,     \* what the engine really holds: the "original", an "other" one, or it is "gone"
    abandon,    \* BatchSignal::abandon
    broke,      \* Running::interrupted names this job
    sealed,     \* Running::uninterruptible names this job
    landed      \* history: the step a break landed in, as <<block, position>>

worker == <<target, abandon, broke, sealed, landed>>
vars == <<plan, clock, block, pos, at, cur, outcome, report, ended, unverified, inCleanup,
          bound, after, worker>>

NoStep == [ran |-> "none", result |-> "Ok", cut |-> FALSE, gone |-> FALSE, held |-> "Same",
           left |-> <<>>, queries |-> 0]

Init ==
    /\ plan \in Plans
    /\ clock = 0
    /\ block = "steps" /\ pos = 1 /\ at = "next" /\ cur = NoStep
    /\ outcome = "Committed"
    /\ report = [b \in Blocks |-> <<>>]
    /\ ended = FALSE /\ unverified = "none" /\ inCleanup = FALSE /\ bound = {} /\ after = "none"
    /\ target = "original"
    /\ abandon = FALSE /\ broke = FALSE /\ sealed = FALSE /\ landed = <<>>

-----------------------------------------------------------------------------
(* Deadlines. *)

Least(m, n) == IF m < n THEN m ELSE n
Most(m, n) == IF m < n THEN n ELSE m

NoReserve == Budget

\* Reserved before a single step runs, and at most half of a short budget.
StepsDeadline == Budget - Least(Reserve, Budget \div 2)

Deadline == IF block = "steps" THEN StepsDeadline ELSE Budget

\* The watchdog an engine call is armed with: what is left, but never so little as none.
Armed(deadline) == Most(deadline - clock, MinStep)

\* An engine call returns within its watchdog and the time that takes to unwind.
Elapses(deadline) == \E d \in 0..(Armed(deadline) + Slack) : clock' = clock + d

-----------------------------------------------------------------------------
(* The steps of a block. *)

This == plan[block][pos]
More == pos <= Len(plan[block])
Unbound == ~(This.needs \subseteq bound)

Records(result, cut, gone) ==
    /\ report' = [report EXCEPT ![block] =
                    Append(@, [result |-> result, cut |-> cut, gone |-> gone, kind |-> This.kind])]
    /\ pos' = pos + 1
    /\ cur' = NoStep
    /\ at' = "next"

\* The batch stopped at an earlier step.
SkipStopped ==
    /\ at = "next" /\ block = "steps" /\ More
    /\ outcome # "Committed"
    /\ Records("Skipped", FALSE, FALSE)
    /\ UNCHANGED <<plan, clock, block, outcome, ended, unverified, inCleanup, bound, after, worker>>

\* What stops the batch before a step starts, the most urgent first.
Stops ==
    CASE abandon -> "Abandoned"
      [] ~abandon /\ broke -> "Interrupted"
      [] ~abandon /\ ~broke /\ clock >= StepsDeadline -> "TimedOut"
      [] OTHER -> "Committed"

StopBefore ==
    /\ at = "next" /\ block = "steps" /\ More
    /\ outcome = "Committed" /\ Stops # "Committed"
    /\ outcome' = Stops
    /\ Records("Skipped", FALSE, FALSE)
    /\ UNCHANGED <<plan, clock, block, ended, unverified, inCleanup, bound, after, worker>>

WithheldNever == FALSE

\* Cleanup that cannot be aimed is not attempted.
Withheld == unverified # "none"

SkipCleanup ==
    /\ at = "next" /\ block = "always" /\ More
    /\ Withheld \/ clock >= Budget
    /\ Records("Skipped", FALSE, FALSE)
    /\ UNCHANGED <<plan, clock, block, outcome, ended, unverified, inCleanup, bound, after, worker>>

MayStart ==
    IF block = "steps"
    THEN outcome = "Committed" /\ Stops = "Committed"
    ELSE ~Withheld /\ clock < Budget

\* A name that was never bound: the step costs nothing and does not run.
SkipUnbound ==
    /\ at = "next" /\ More /\ MayStart
    /\ Unbound
    /\ cur' = [NoStep EXCEPT !.result = "Skipped"]
    /\ at' = "finished"
    /\ UNCHANGED <<plan, clock, block, pos, outcome, report, ended, unverified, inCleanup, bound, after, worker>>

StartStep ==
    /\ at = "next" /\ More /\ MayStart
    /\ ~Unbound
    /\ cur' = [NoStep EXCEPT !.left = This.expect]
    /\ at' = "acting"
    /\ UNCHANGED <<plan, clock, block, pos, outcome, report, ended, unverified, inCleanup, bound, after, worker>>

\* What an action may leave the engine holding; one that holds nothing refuses everything.
Leaves(kind) ==
    CASE target # "original" -> {target}
      [] target = "original" /\ kind = "query" -> {"original"}
      [] OTHER -> {"original", "other", "gone"}

GoneNow(alreadyGone) == target' = "gone"

\* At most one step is the ending.
Ends(alreadyGone) == ~alreadyGone /\ target' = "gone"

\* The action returns; dbgscope or this worker's own record says whether a break reached it.
ActionReturns ==
    /\ at = "acting"
    /\ Elapses(Deadline)
    /\ target' \in Leaves(This.kind)
    /\ \E ran \in IF target = "gone" THEN {"err"} ELSE {"ok", "err"} :
         \E told \in BOOLEAN :
           cur' = [cur EXCEPT !.ran = ran,
                              !.cut = ran = "ok" /\ broke,
                              !.gone = Ends(ended) /\ (ran = "ok" \/ told)]
    /\ at' = "asking"
    /\ UNCHANGED <<plan, block, pos, outcome, report, ended, unverified, inCleanup, bound, after,
                   abandon, broke, sealed, landed>>

\* Debuggee::replaced, honest where it answers: nothing held is not a replacement.
Readings == {"Uncertain", IF target = "other" THEN "Replaced" ELSE "Same"}

\* Asked between the action and the step's own assertions; a target lost is sealed at once.
AskHeld ==
    /\ at = "asking"
    /\ \E held \in Readings :
         /\ cur' = [cur EXCEPT !.held = held,
                               !.result = IF cur.ran = "err" THEN "Failed" ELSE cur.result]
         /\ sealed' = (sealed \/ held # "Same")
    /\ at' = IF cur.ran = "err" THEN "finished" ELSE "checking"
    /\ UNCHANGED <<plan, clock, block, pos, outcome, report, ended, unverified, inCleanup,
                   bound, after, target, abandon, broke, landed>>

Concludes(result) ==
    /\ cur' = [cur EXCEPT !.result = result]
    /\ at' = "finished"

InTimeOnce == TRUE

\* The clock is read again before every assertion and every query of one.
InTime == clock < Deadline

\* An evaluation sent now would be answered by the target the step was aimed at.
Askable == ~cur.gone /\ cur.held = "Same"

\* A check that cannot be made fails the step: nothing was learned about the target.
CheckRefused ==
    /\ at = "checking" /\ cur.left # <<>>
    /\ (Head(cur.left) = "eval" /\ ~Askable) \/ ~InTime
    /\ Concludes("Failed")
    /\ UNCHANGED <<plan, clock, block, pos, outcome, report, ended, unverified, inCleanup,
                   bound, after, worker>>

CheckText ==
    /\ at = "checking" /\ cur.left # <<>> /\ InTime
    /\ Head(cur.left) = "text"
    /\ \/ cur' = [cur EXCEPT !.left = Tail(@)] /\ UNCHANGED at
       \/ Concludes("Unmet")
    /\ UNCHANGED <<plan, clock, block, pos, outcome, report, ended, unverified, inCleanup,
                   bound, after, worker>>

\* An eval check is two engine queries.
CheckEval ==
    /\ at = "checking" /\ cur.left # <<>> /\ InTime
    /\ Head(cur.left) = "eval" /\ Askable
    /\ cur' = [cur EXCEPT !.left = Tail(@), !.queries = 2]
    /\ at' = "querying"
    /\ UNCHANGED <<plan, clock, block, pos, outcome, report, ended, unverified, inCleanup,
                   bound, after, worker>>

\* eval_value reads the clock itself: the second query is told what the first one left.
QueryExpires ==
    /\ at = "querying" /\ ~InTime
    /\ Concludes("Failed")
    /\ UNCHANGED <<plan, clock, block, pos, outcome, report, ended, unverified, inCleanup,
                   bound, after, worker>>

\* The query answers, and a break during it belongs to the step; or the assertion fails.
QueryReturns ==
    /\ at = "querying" /\ InTime
    /\ Elapses(Deadline)
    /\ \/ /\ cur' = [cur EXCEPT !.cut = @ \/ broke, !.queries = @ - 1]
          /\ at' = IF cur.queries = 1 THEN "checking" ELSE "querying"
       \/ \E cut \in {cur.cut, cur.cut \/ broke} :
            /\ cur' = [cur EXCEPT !.cut = cut, !.result = "Unmet", !.queries = 0]
            /\ at' = "finished"
    /\ UNCHANGED <<plan, block, pos, outcome, report, ended, unverified, inCleanup,
                   bound, after, worker>>

\* Every assertion held; a capture may still print no value.
AssertionsHold ==
    /\ at = "checking" /\ cur.left = <<>>
    /\ \/ /\ at' = "finished"
          /\ bound' = IF This.captures THEN bound \cup {<<block, pos>>} ELSE bound
          /\ UNCHANGED cur
       \/ /\ This.captures
          /\ Concludes("Failed")
          /\ UNCHANGED bound
    /\ UNCHANGED <<plan, clock, block, pos, outcome, report, ended, unverified, inCleanup,
                   after, worker>>

-----------------------------------------------------------------------------
(* What a step means for the batch. *)

\* The harmful reading first, then the terminal one, then the break, then the failure.
Verdict ==
    CASE cur.held = "Replaced" -> "TargetReplaced"
      [] cur.held = "Uncertain" -> "TargetUncertain"
      [] cur.held = "Same" /\ cur.gone -> "TargetGone"
      [] cur.held = "Same" /\ ~cur.gone /\ cur.cut ->
            IF abandon THEN "Abandoned" ELSE "Interrupted"
      [] cur.held = "Same" /\ ~cur.gone /\ ~cur.cut /\ cur.result = "Ok" -> "Committed"
      [] OTHER -> IF cur.result # "Unmet" /\ clock >= StepsDeadline THEN "TimedOut" ELSE "Failed"

FinishStep ==
    /\ at = "finished"
    /\ ended' = (ended \/ cur.gone)
    /\ outcome' = IF block = "steps" THEN Verdict ELSE outcome
    /\ IF cur.held = "Same"
       THEN UNCHANGED <<unverified, inCleanup>>
       ELSE unverified' = cur.held /\ inCleanup' = (block = "always")
    /\ Records(cur.result, cur.cut, cur.gone)
    /\ UNCHANGED <<plan, clock, block, bound, after, worker>>

SealedVerdictIgnored == outcome

\* A break that landed after the last step stopped nothing, and is reported all the same.
SealedVerdict == IF outcome = "Committed" /\ broke THEN "Interrupted" ELSE outcome

\* From here no break may reach the engine; a batch that lost its target sealed earlier.
BeginCleanup ==
    /\ at = "next" /\ block = "steps" /\ ~More
    /\ IF unverified = "none"
       THEN sealed' = TRUE /\ outcome' = SealedVerdict
       ELSE UNCHANGED <<sealed, outcome>>
    /\ block' = "always" /\ pos' = 1
    /\ UNCHANGED <<plan, clock, at, cur, report, ended, unverified, inCleanup, bound, after,
                   target, abandon, broke, landed>>

-----------------------------------------------------------------------------
(* Where the session is left. *)

\* The outcomes of both blocks, in order.
Ran == report["steps"] \o report["always"]

\* The attempted steps that may have taken the target, by their place in the batch.
TookTarget(s) == s.result # "Skipped" /\ (s.gone \/ s.kind = "release")
Took == {n \in DOMAIN Ran : TookTarget(Ran[n])}

\* Whichever did so first: what ran after it ran against nothing.
TookFirst == Ran[CHOOSE n \in Took : \A m \in Took : n <= m]

ProbesReplacement == Took = {}

\* The probe is asked only about a target the batch can still identify.
Probes == unverified = "none" /\ Took = {}

BeginProbe ==
    /\ at = "next" /\ block = "always" /\ ~More
    /\ IF Probes
       THEN at' = "probing" /\ UNCHANGED after
       ELSE /\ at' = "done"
            /\ after' = CASE unverified = "Replaced" -> "detached"
                          [] unverified = "Uncertain" -> "uncertain"
                          [] OTHER -> IF TookFirst.kind = "release" THEN "detached" ELSE "ended"
    /\ UNCHANGED <<plan, clock, block, pos, cur, outcome, report, ended, unverified, inCleanup,
                   bound, worker>>

\* `? @$ip', armed like any other call; a target that runs or does not answer says so.
ProbeReturns ==
    /\ at = "probing"
    /\ Elapses(Budget)
    /\ after' \in {"running", "uncertain"} \cup (IF target = "gone" THEN {} ELSE {"stopped"})
    /\ at' = "done"
    /\ UNCHANGED <<plan, block, pos, cur, outcome, report, ended, unverified, inCleanup,
                   bound, worker>>

-----------------------------------------------------------------------------
(* Around the executor. *)

\* interrupt_running: raised for this job unless it is sealed or already broken.
Break ==
    /\ at # "done" /\ ~sealed /\ ~broke
    /\ broke' = TRUE
    /\ landed' = IF at = "next" THEN <<>> ELSE <<block, pos>>
    /\ UNCHANGED <<plan, clock, block, pos, at, cur, outcome, report, ended, unverified,
                   inCleanup, bound, after, target, abandon, sealed>>

Teardown ==
    /\ at # "done" /\ ~abandon
    /\ abandon' = TRUE
    /\ UNCHANGED <<plan, clock, block, pos, at, cur, outcome, report, ended, unverified,
                   inCleanup, bound, after, target, broke, sealed, landed>>

Done == at = "done" /\ UNCHANGED vars

Executor ==
    \/ SkipStopped \/ StopBefore \/ SkipCleanup \/ SkipUnbound \/ StartStep
    \/ ActionReturns \/ AskHeld
    \/ CheckRefused \/ CheckText \/ CheckEval \/ QueryExpires \/ QueryReturns
    \/ AssertionsHold \/ FinishStep \/ BeginCleanup \/ BeginProbe \/ ProbeReturns

Next == Executor \/ Break \/ Teardown \/ Done

Spec == Init /\ [][Next]_vars

-----------------------------------------------------------------------------
(* What the report says of the rollback. *)

CompleteByStepList == \A n \in 1..Len(report["always"]) : report["always"][n].result = "Ok"

\* rollback_complete: every cleanup step succeeded, on a target that stayed identifiable.
RollbackComplete ==
    /\ \A n \in 1..Len(report["always"]) : report["always"][n].result = "Ok"
    /\ ~(unverified # "none" /\ inCleanup)

-----------------------------------------------------------------------------
(* No action, assertion or probe is ever sent to a target other than the   *)
(* one the batch began with, once the call that replaced it has returned:  *)
(* not the failing step's own assertions, not a later step and not the     *)
(* cleanup, whose restore would write into something that never had the    *)
(* mutation.                                                               *)
AimedAtTheTarget == at \in {"acting", "querying", "probing"} => target # "other"

(* A batch reported committed is one whose every step and assertion held   *)
(* and which no break reached, the moment between its last step and the    *)
(* seal included; the reply to an interrupted job says it was cut short.   *)
CommittedIsWhole ==
    at = "done" /\ outcome = "Committed" =>
        /\ ~broke
        /\ \A n \in 1..Len(plan.steps) :
             report["steps"][n].result = "Ok" /\ ~report["steps"][n].cut

(* However the steps end, the cleanup begins inside the budget, but for    *)
(* what the debugger's watchdog takes to unwind: the last step can eat     *)
(* into the reserve and cannot exhaust it.                                 *)
ReserveSurvives ==
    block = "always" /\ pos = 1 /\ at = "next" => clock < Budget + Slack

(* The bound a teardown is told and kills the worker at, the budget and    *)
(* OVERRUN_ALLOWANCE, holds however many assertions the last steps carry.  *)
OverrunBounded == clock <= Budget + 4 * MinStep

(* What the report says is true.  A rollback reported complete landed      *)
(* where it was aimed: the debugger does not hold another target           *)
(* afterwards, although a cleanup step that swaps the target under itself  *)
(* returns success.  Where it says the session is left is where it is.     *)
(* And at most one step carries target_gone, the one that caused the       *)
(* ending, although every step after it finds no target either.            *)
ReportIsTrue ==
    /\ at = "done" /\ plan.always # <<>> /\ RollbackComplete => target # "other"
    /\ at = "done" /\ after = "stopped" => target = "original"
    /\ at = "done" /\ after = "ended" => target = "gone"
    /\ Cardinality({e \in Blocks \X (1..pos) :
           e[2] <= Len(report[e[1]]) /\ report[e[1]][e[2]].gone}) <= 1

(* The typed report's cut_short says that "a break landed while this step  *)
(* was running": for every step so marked, one did.                        *)
CutShortIsTrue ==
    \A b \in Blocks : \A n \in 1..Len(report[b]) : report[b][n].cut => landed = <<b, n>>

=============================================================================
