----------------------------- MODULE BatchProofs -----------------------------
(***************************************************************************)
(* Batch, for every plan, budget and watchdog: the time a batch may take,  *)
(* the reserve its cleanup keeps, what its commands are aimed at, and the  *)
(* truth of its report.                                                    *)
(***************************************************************************)
EXTENDS Batch, FiniteSetTheorems, WellFoundedInduction, TLAPS

-----------------------------------------------------------------------------
(* Deadlines. *)

\* Half a budget is at least one watchdog floor.
LEMMA Halves ==
    /\ Budget \div 2 \in Nat
    /\ MinStep <= Budget \div 2
    /\ Budget \div 2 < Budget
  <1>1. \A n, m \in Nat : m \in Nat \ {0} /\ n >= 2 * m =>
            n \div 2 \in Nat /\ m <= n \div 2 /\ n \div 2 < n
    BY SMT
  <1> QED  BY <1>1, BatchConstants

(* The steps' deadline lies inside the budget and leaves the cleanup at    *)
(* least one watchdog floor.                                               *)
LEMMA DeadlineLeavesRoom ==
    /\ StepsDeadline \in Nat
    /\ StepsDeadline >= 1
    /\ StepsDeadline <= Budget - MinStep
  BY Halves, BatchConstants DEF StepsDeadline, Least

\* The overrun of one engine call started before a deadline.
Overrun == MinStep + Slack - 1

(* An engine call started before a deadline ends less than one floor and   *)
(* the watchdog's unwinding after it.                                      *)
LEMMA CallOverruns ==
    ASSUME NEW d \in Nat, clock \in Nat, clock < d, Elapses(d)
    PROVE  clock' \in Nat /\ clock' <= d + Overrun
  BY BatchConstants DEF Elapses, Armed, Most, Overrun

-----------------------------------------------------------------------------
(* Time. *)

\* An engine call is only started before its block's deadline, so only one can overrun it;
\* the probe alone is started whatever the time.
TimeInv ==
    /\ block \in Blocks
    /\ clock \in Nat
    /\ at = "acting" => clock < Deadline
    /\ at # "done" => clock <= Deadline + Overrun
    /\ block = "steps" => at \notin {"probing", "done"}
    /\ clock <= Budget + 2 * (MinStep + Slack) - 1

(* No time has passed before the first step.                                *)
LEMMA TimeInit == Init => TimeInv
  BY DeadlineLeavesRoom, BatchConstants DEF Init, TimeInv, Deadline, Blocks, Overrun

(* Every step of the executor, and every call it waits for, keeps the time. *)
LEMMA TimeStep == TimeInv /\ [Next]_vars => TimeInv'
  <1> SUFFICES ASSUME TimeInv, [Next]_vars PROVE TimeInv'
    OBVIOUS
  <1> DEFINE D == Deadline
  <1>d. D \in Nat /\ D <= Budget /\ StepsDeadline \in Nat /\ StepsDeadline <= Budget
    BY DeadlineLeavesRoom, BatchConstants DEF Deadline, TimeInv, Blocks
  <1>c. MinStep \in Nat \ {0} /\ Slack \in Nat /\ Slack <= MinStep /\ Budget \in Nat
        /\ Overrun \in Nat
    BY BatchConstants DEF Overrun
  \* Steps that take no time and stay in their block.
  <1>1. ASSUME clock' = clock, block' = block, at # "done", at' \notin {"acting", "done"},
               at' = "probing" => block = "always"
        PROVE  TimeInv'
    BY <1>1, <1>c, <1>d DEF TimeInv, Deadline
  \* Engine calls started in time.
  <1>2. ASSUME Elapses(Deadline), clock < Deadline, block' = block,
               at' \notin {"acting", "probing", "done"}
        PROVE  TimeInv'
    <2>1. clock' \in Nat /\ clock' <= D + Overrun
      BY <1>2, <1>d, CallOverruns DEF TimeInv
    <2> QED  BY <2>1, <1>2, <1>c, <1>d DEF TimeInv, Deadline, Overrun
  <1>3. CASE StartStep
    <2>1. clock < Deadline
      BY <1>3, DeadlineLeavesRoom, <1>d DEF StartStep, MayStart, Stops, Deadline, TimeInv, Blocks
    <2> QED  BY <2>1, <1>3, <1>c, <1>d DEF StartStep, TimeInv, Deadline
  <1>4. CASE ActionReturns
    BY <1>4, <1>2 DEF ActionReturns, TimeInv
  <1>5. CASE QueryReturns
    BY <1>5, <1>2 DEF QueryReturns, InTime, TimeInv
  <1>6. CASE ProbeReturns
    <2>1. clock \in Nat /\ clock <= Budget + Overrun /\ block = "always"
      BY <1>6, <1>d, <1>c DEF ProbeReturns, TimeInv, Deadline, Blocks
    <2>2. clock' \in Nat /\ clock' <= Budget + Overrun + MinStep + Slack
      BY <1>6, <2>1, <1>c DEF ProbeReturns, Elapses, Armed, Most, Overrun
    <2> QED  BY <1>6, <2>1, <2>2, <1>c, <1>d DEF ProbeReturns, TimeInv, Overrun
  <1>7. CASE BeginCleanup
    BY <1>7, <1>c, <1>d DEF BeginCleanup, TimeInv, Deadline, Blocks
  <1>8. CASE BeginProbe
    BY <1>8, <1>c, <1>d DEF BeginProbe, TimeInv, Deadline, Overrun
  <1>9. CASE SkipStopped \/ StopBefore \/ SkipCleanup \/ FinishStep
    BY <1>9, <1>1 DEF SkipStopped, StopBefore, SkipCleanup, FinishStep, Records
  <1>10. CASE SkipUnbound \/ AskHeld
    BY <1>10, <1>1 DEF SkipUnbound, AskHeld
  <1>11. CASE CheckRefused \/ CheckText \/ CheckEval \/ QueryExpires \/ AssertionsHold
    BY <1>11, <1>1 DEF CheckRefused, CheckText, CheckEval, QueryExpires, AssertionsHold, Concludes
  <1>12. CASE Break \/ Teardown \/ UNCHANGED vars
    BY <1>12 DEF Break, Teardown, vars, TimeInv, Deadline
  <1> QED
    BY <1>3, <1>4, <1>5, <1>6, <1>7, <1>8, <1>9, <1>10, <1>11, <1>12 DEF Next, Executor, Done

(* A batch is over by the time a teardown is told, its budget and the      *)
(* overrun allowance, whatever its steps do and however many assertions    *)
(* they carry: run reads the clock before every call but the last.         *)
THEOREM OverrunHolds == Spec => []OverrunBounded
  <1>1. TimeInv => OverrunBounded
    BY BatchConstants DEF TimeInv, OverrunBounded
  <1> QED  BY <1>1, TimeInit, TimeStep, PTL DEF Spec

(* The steps never exhaust the cleanup's reserve, for any budget the       *)
(* worker grants: run holds the reserve back before the first step.        *)
THEOREM ReserveHolds == Spec => []ReserveSurvives
  <1> DEFINE Entry == block = "always" /\ pos = 1 /\ at = "next" => clock < Budget + Slack
             Inv == TimeInv /\ pos \in Nat \ {0} /\ Entry
  <1>1. Init => Inv
    BY TimeInit DEF Init
  <1>2. Inv /\ [Next]_vars => Inv'
    <2> SUFFICES ASSUME Inv, [Next]_vars PROVE Inv'
      OBVIOUS
    <2>1. TimeInv'
      BY TimeStep
    <2>2. CASE BeginCleanup
      BY <2>1, <2>2, DeadlineLeavesRoom, BatchConstants
         DEF BeginCleanup, TimeInv, Deadline, Overrun
    <2>3. CASE SkipStopped \/ StopBefore \/ SkipCleanup \/ FinishStep
      BY <2>1, <2>3 DEF SkipStopped, StopBefore, SkipCleanup, FinishStep, Records
    <2>4. CASE SkipUnbound \/ StartStep \/ ActionReturns \/ AskHeld
      BY <2>1, <2>4 DEF SkipUnbound, StartStep, ActionReturns, AskHeld
    <2>5. CASE CheckRefused \/ CheckText \/ CheckEval \/ QueryExpires \/ QueryReturns \/ AssertionsHold
      BY <2>1, <2>5 DEF CheckRefused, CheckText, CheckEval, QueryExpires, QueryReturns,
                        AssertionsHold, Concludes
    <2>6. CASE BeginProbe \/ ProbeReturns
      BY <2>1, <2>6 DEF BeginProbe, ProbeReturns
    <2>7. CASE Break \/ Teardown \/ UNCHANGED vars
      BY <2>1, <2>7 DEF Break, Teardown, vars
    <2> QED  BY <2>2, <2>3, <2>4, <2>5, <2>6, <2>7 DEF Next, Executor, Done
  <1>3. Inv => ReserveSurvives
    BY DEF ReserveSurvives
  <1> QED  BY <1>1, <1>2, <1>3, PTL DEF Spec

-----------------------------------------------------------------------------
(* Aim. *)

\* Once the engine holds another target, the step that found it says so, and from the end of
\* that step the batch has it on record: the steps stop, the cleanup is withheld.
AimInv ==
    /\ at \in {"acting", "querying", "probing"} => target # "other"
    /\ at = "next" /\ target = "other" => unverified # "none"
    /\ at = "next" /\ block = "steps" /\ unverified # "none" => outcome # "Committed"
    /\ at \in {"acting", "asking", "checking", "querying", "finished"} => unverified = "none"
    /\ at \in {"checking", "finished"} /\ target = "other" => cur.held # "Same"
    /\ "held" \in DOMAIN cur /\ cur.held \in {"Same", "Replaced", "Uncertain"}

(* Every step of the executor keeps its record of the target.               *)
LEMMA AimStep == AimInv /\ [Next]_vars => AimInv'
  <1> SUFFICES ASSUME AimInv, [Next]_vars PROVE AimInv'
    OBVIOUS
  <1>0. NoStep.held = "Same" /\ "held" \in DOMAIN NoStep
    BY DEF NoStep
  <1>1. CASE SkipStopped \/ StopBefore \/ SkipCleanup
    BY <1>1, <1>0 DEF SkipStopped, StopBefore, SkipCleanup, Records, AimInv, worker
  <1>2. CASE SkipUnbound
    BY <1>2, <1>0 DEF SkipUnbound, MayStart, Withheld, AimInv, worker
  <1>3. CASE StartStep
    BY <1>3, <1>0 DEF StartStep, MayStart, Withheld, AimInv, worker
  <1>4. CASE ActionReturns
    BY <1>4 DEF ActionReturns, AimInv
  <1>5. CASE AskHeld
    BY <1>5 DEF AskHeld, Readings, AimInv
  <1>6. CASE CheckRefused \/ CheckText
    BY <1>6 DEF CheckRefused, CheckText, Concludes, AimInv, worker
  <1>7. CASE CheckEval \/ QueryExpires
    BY <1>7 DEF CheckEval, QueryExpires, Askable, Concludes, AimInv, worker
  <1>8. CASE QueryReturns
    BY <1>8 DEF QueryReturns, AimInv, worker
  <1>9. CASE AssertionsHold
    BY <1>9 DEF AssertionsHold, Concludes, AimInv, worker
  <1>10. CASE FinishStep
    <2>1. cur.held # "Same" => Verdict # "Committed"
      <3>1. CASE cur.held = "Replaced"
        BY <3>1 DEF Verdict
      <3>2. CASE cur.held = "Uncertain"
        BY <3>2 DEF Verdict
      <3> QED  BY <3>1, <3>2 DEF AimInv
    <2> QED  BY <1>10, <2>1, <1>0 DEF FinishStep, Records, AimInv, worker
  <1>11. CASE BeginCleanup \/ BeginProbe
    BY <1>11 DEF BeginCleanup, BeginProbe, Probes, AimInv, worker
  <1>12. CASE ProbeReturns
    BY <1>12 DEF ProbeReturns, AimInv, worker
  <1>13. CASE Break \/ Teardown \/ UNCHANGED vars
    BY <1>13 DEF Break, Teardown, vars, AimInv, worker
  <1> QED
    BY <1>1, <1>2, <1>3, <1>4, <1>5, <1>6, <1>7, <1>8, <1>9, <1>10, <1>11, <1>12, <1>13
       DEF Next, Executor, Done

(* A batch never sends a command, an assertion or its probe to a target    *)
(* that took the place of its own, for every plan: held_now is asked after *)
(* every action, before anything else is sent.                             *)
THEOREM AimHolds == Spec => []AimedAtTheTarget
  <1>1. Init => AimInv
    BY DEF Init, AimInv, NoStep
  <1>2. AimInv => AimedAtTheTarget
    BY DEF AimInv, AimedAtTheTarget
  <1> QED  BY <1>1, <1>2, AimStep, PTL DEF Spec


-----------------------------------------------------------------------------
(* The report. *)

Results == {"Ok", "Failed", "Unmet", "Skipped"}
Entry == [result : Results, cut : BOOLEAN, gone : BOOLEAN, kind : Kinds]

\* The step under way, if there is one.
Stepping == {"acting", "asking", "checking", "querying", "finished"}

\* The block being run is reported up to the step before this one; the steps are reported in
\* full before the cleanup begins.
Counted ==
    /\ block \in Blocks /\ pos \in Nat \ {0}
    /\ plan["steps"] \in Seq(Step) /\ plan["always"] \in Seq(Step)
    /\ report \in [Blocks -> Seq(Entry)]
    /\ Len(report[block]) = pos - 1 /\ pos <= Len(plan[block]) + 1
    /\ at \in Stepping => pos <= Len(plan[block])
    /\ block = "steps" => report["always"] = <<>> /\ at \in Stepping \cup {"next"}
    /\ block = "always" => Len(report["steps"]) = Len(plan["steps"])
    /\ at \in {"probing", "done"} => pos > Len(plan["always"])

\* run_step's locals, as far as the report takes them up.
Local ==
    /\ {"ran", "result", "cut", "gone", "held"} \subseteq DOMAIN cur
    /\ cur.result \in Results /\ cur.cut \in BOOLEAN /\ cur.gone \in BOOLEAN

\* Nothing but whole steps lies behind a batch that is still to be committed, and from the
\* seal on no break can change that.
WholeInv ==
    /\ outcome = "Committed" => \A n \in DOMAIN report["steps"] :
                                  report["steps"][n].result = "Ok" /\ ~report["steps"][n].cut
    /\ block = "steps" /\ at \in Stepping => outcome = "Committed"
    /\ block = "always" /\ outcome = "Committed" => sealed /\ ~broke

\* Only one step can have ended the target, because the batch remembers it.
GoneInv ==
    /\ target \in {"original", "other", "gone"} /\ ended \in BOOLEAN
    /\ ended => target = "gone"
    /\ cur.gone => ~ended /\ target = "gone"
    /\ \A b \in Blocks : \A n \in DOMAIN report[b] : report[b][n].gone => ended
    /\ \A b, c \in Blocks : \A n \in DOMAIN report[b], m \in DOMAIN report[c] :
         report[b][n].gone /\ report[c][m].gone => b = c /\ n = m

\* A target lost before the cleanup leaves every step of the cleanup skipped.
CleanInv ==
    /\ inCleanup \in BOOLEAN /\ unverified \in {"none", "Replaced", "Uncertain"}
    /\ unverified = "none" => ~inCleanup
    /\ unverified # "none" /\ ~inCleanup =>
         \A n \in DOMAIN report["always"] : report["always"][n].result = "Skipped"
    /\ at = "done" /\ target = "other" => unverified # "none"

\* What is said of the session is said once, at the end.
AfterInv ==
    /\ at # "done" => after = "none"
    /\ after = "stopped" => target = "original"
    /\ after = "ended" => target = "gone"

ReportInv == Counted /\ Local /\ WholeInv /\ GoneInv /\ CleanInv /\ AfterInv

(* Recording a step adds its entry to the block it belongs to, and leaves  *)
(* the rest of the report as it was.                                       *)
LEMMA Recorded ==
    ASSUME Counted, NEW e \in Entry, report' = [report EXCEPT ![block] = Append(@, e)]
    PROVE  /\ report' \in [Blocks -> Seq(Entry)]
           /\ Len(report'[block]) = pos
           /\ \A b \in Blocks \ {block} : report'[b] = report[b]
           /\ \A n \in DOMAIN report'[block] :
                \/ n \in DOMAIN report[block] /\ report'[block][n] = report[block][n]
                \/ n = pos /\ report'[block][n] = e
           /\ \A n \in DOMAIN report[block] : n < pos
  <1>1. block \in Blocks /\ report[block] \in Seq(Entry) /\ report \in [Blocks -> Seq(Entry)]
        /\ pos \in Nat \ {0} /\ Len(report[block]) = pos - 1
    BY DEF Counted
  <1>2. report'[block] = Append(report[block], e) /\ report' \in [Blocks -> Seq(Entry)]
    BY <1>1
  <1>3. \A b \in Blocks \ {block} : report'[b] = report[b]
    BY <1>1
  <1> QED  BY <1>1, <1>2, <1>3

(* The step a block is at is a step.                                       *)
LEMMA ThisIsAStep ==
    ASSUME Counted, pos <= Len(plan[block])
    PROVE  This \in Step /\ This.kind \in Kinds
  <1>1. plan[block] \in Seq(Step) /\ pos \in 1..Len(plan[block])
    BY DEF Counted, Blocks
  <1>2. This \in Step
    BY <1>1 DEF This
  <1> QED  BY <1>2 DEF Step

(* What recording a step does, whichever of the four steps of run it is:   *)
(* an entry for a step that was skipped, or what run_step found.           *)
RecordsSkipped == SkipStopped \/ StopBefore \/ SkipCleanup

(* It is one entry of the block under way, which moves on to the next step. *)
LEMMA Records1 ==
    ASSUME Counted, Local, RecordsSkipped \/ FinishStep
    PROVE  \E e \in Entry :
             /\ report' = [report EXCEPT ![block] = Append(@, e)]
             /\ RecordsSkipped => e.result = "Skipped" /\ e.cut = FALSE /\ e.gone = FALSE
             /\ FinishStep => e.result = cur.result /\ e.cut = cur.cut /\ e.gone = cur.gone
             /\ pos' = pos + 1 /\ cur' = NoStep /\ at' = "next"
             /\ plan' = plan /\ block' = block /\ bound' = bound /\ after' = after
             /\ pos <= Len(plan[block])
  <1>1. pos <= Len(plan[block])
    BY DEF RecordsSkipped, SkipStopped, StopBefore, SkipCleanup, FinishStep, More, Counted, Stepping
  <1>2. CASE RecordsSkipped
    <2> DEFINE e == [result |-> "Skipped", cut |-> FALSE, gone |-> FALSE, kind |-> This.kind]
    <2>1. e \in Entry
      BY <1>1, ThisIsAStep DEF Entry, Results
    <2>2. /\ report' = [report EXCEPT ![block] = Append(@, e)]
          /\ pos' = pos + 1 /\ cur' = NoStep /\ at' = "next"
          /\ plan' = plan /\ block' = block /\ bound' = bound /\ after' = after /\ ~FinishStep
      BY <1>2 DEF RecordsSkipped, SkipStopped, StopBefore, SkipCleanup, Records, FinishStep
    <2> QED  BY <1>1, <2>1, <2>2
  <1>3. CASE FinishStep
    <2> DEFINE e == [result |-> cur.result, cut |-> cur.cut, gone |-> cur.gone, kind |-> This.kind]
    <2>1. e \in Entry
      BY <1>1, ThisIsAStep DEF Entry, Local
    <2>2. /\ report' = [report EXCEPT ![block] = Append(@, e)]
          /\ pos' = pos + 1 /\ cur' = NoStep /\ at' = "next"
          /\ plan' = plan /\ block' = block /\ bound' = bound /\ after' = after /\ ~RecordsSkipped
      BY <1>3 DEF RecordsSkipped, SkipStopped, StopBefore, SkipCleanup, Records, FinishStep
    <2> QED  BY <1>1, <2>1, <2>2
  <1> QED  BY <1>2, <1>3

(* The steps that record nothing. *)
Within == SkipUnbound \/ StartStep \/ ActionReturns \/ AskHeld \/ CheckRefused \/ CheckText
            \/ CheckEval \/ QueryExpires \/ QueryReturns \/ AssertionsHold

(* A step that records nothing stays within run_step, and leaves what the   *)
(* block is reported to have done alone.                                    *)
LEMMA WithinAStep ==
    ASSUME Within
    PROVE  /\ report' = report /\ plan' = plan /\ block' = block /\ pos' = pos /\ after' = after
           /\ outcome' = outcome /\ ended' = ended /\ unverified' = unverified
           /\ inCleanup' = inCleanup /\ broke' = broke /\ abandon' = abandon /\ (sealed => sealed')
           /\ at' \in Stepping
           /\ at \in Stepping \/ (at = "next" /\ More /\ MayStart)
  <1>1. CASE SkipUnbound \/ StartStep
    BY <1>1 DEF SkipUnbound, StartStep, worker, Stepping
  <1>2. CASE ActionReturns
    BY <1>2 DEF ActionReturns, Stepping
  <1>5. CASE AskHeld
    <2>1. sealed => sealed'
      BY <1>5 DEF AskHeld
    <2> QED  BY <1>5, <2>1 DEF AskHeld, Stepping
  <1>3. CASE CheckRefused \/ CheckText \/ CheckEval
    BY <1>3 DEF CheckRefused, CheckText, CheckEval, Concludes, worker, Stepping
  <1>4. CASE QueryExpires \/ QueryReturns \/ AssertionsHold
    BY <1>4 DEF QueryExpires, QueryReturns, AssertionsHold, Concludes, worker, Stepping
  <1> QED  BY <1>1, <1>2, <1>3, <1>4, <1>5 DEF Within

(* Every step of a block is reported once, in order.                        *)
LEMMA CountedStep == Counted /\ Local /\ [Next]_vars => Counted'
  <1> SUFFICES ASSUME Counted, Local, [Next]_vars PROVE Counted'
    OBVIOUS
  <1>0. Len(plan["steps"]) \in Nat /\ Len(plan["always"]) \in Nat /\ Len(plan[block]) \in Nat
    BY DEF Counted, Blocks
  <1>1. CASE RecordsSkipped \/ FinishStep
    <2>1. PICK e \in Entry :
             /\ report' = [report EXCEPT ![block] = Append(@, e)]
             /\ pos' = pos + 1 /\ at' = "next" /\ plan' = plan /\ block' = block
             /\ pos <= Len(plan[block])
      BY <1>1, Records1
    <2>2. /\ report' \in [Blocks -> Seq(Entry)] /\ Len(report'[block]) = pos
          /\ \A b \in Blocks \ {block} : report'[b] = report[b]
      BY <2>1, Recorded
    <2> QED  BY <1>0, <2>1, <2>2 DEF Counted, Blocks, Stepping
  <1>2. CASE Within
    BY <1>0, <1>2, WithinAStep DEF Counted, More, Stepping
  <1>3. CASE BeginCleanup
    <2>1. /\ block = "steps" /\ at = "next" /\ ~(pos <= Len(plan["steps"]))
          /\ block' = "always" /\ pos' = 1 /\ at' = at /\ plan' = plan /\ report' = report
      BY <1>3 DEF BeginCleanup, More
    <2>2. Len(report["steps"]) = Len(plan["steps"]) /\ Len(report["always"]) = 0
      BY <1>0, <2>1 DEF Counted
    <2> QED  BY <1>0, <2>1, <2>2 DEF Counted, Blocks, Stepping
  <1>4. CASE BeginProbe
    BY <1>0, <1>4 DEF BeginProbe, More, Counted, Stepping
  <1>5. CASE ProbeReturns
    BY <1>0, <1>5 DEF ProbeReturns, Counted, Stepping
  <1>6. CASE Break \/ Teardown \/ UNCHANGED vars
    BY <1>6 DEF Break, Teardown, vars, Counted
  <1> QED
    BY <1>1, <1>2, <1>3, <1>4, <1>5, <1>6 DEF Next, Executor, Done, RecordsSkipped, Within

(* run_step's locals are always there and of the right kind.                *)
LEMMA LocalStep == Local /\ [Next]_vars => Local'
  <1> SUFFICES ASSUME Local, [Next]_vars PROVE Local'
    OBVIOUS
  <1> USE DEF Local, Results
  <1>1. CASE SkipStopped \/ StopBefore \/ SkipCleanup \/ FinishStep
    <2>1. cur' = NoStep
      BY <1>1 DEF SkipStopped, StopBefore, SkipCleanup, FinishStep, Records
    <2> QED  BY <2>1 DEF NoStep
  <1>2. CASE SkipUnbound \/ StartStep
    BY <1>2 DEF SkipUnbound, StartStep, NoStep
  <1>3. CASE ActionReturns
    <2>1. PICK ran \in {"ok", "err"}, told \in BOOLEAN :
            cur' = [cur EXCEPT !.ran = ran, !.cut = ran = "ok" /\ broke,
                               !.gone = Ends(ended) /\ (ran = "ok" \/ told)]
      BY <1>3 DEF ActionReturns
    <2>2. Ends(ended) \in BOOLEAN
      BY DEF Ends
    <2>3. cur'.cut \in BOOLEAN
      BY <2>1
    <2> QED  BY <2>1, <2>2, <2>3
  <1>4. CASE AskHeld
    BY <1>4 DEF AskHeld
  <1>5. CASE CheckRefused \/ CheckText \/ CheckEval
    BY <1>5 DEF CheckRefused, CheckText, CheckEval, Concludes
  <1>6. CASE QueryExpires \/ AssertionsHold
    BY <1>6 DEF QueryExpires, AssertionsHold, Concludes
  <1>7. CASE QueryReturns
    BY <1>7 DEF QueryReturns
  <1>8. CASE BeginCleanup \/ BeginProbe \/ ProbeReturns
    BY <1>8 DEF BeginCleanup, BeginProbe, ProbeReturns
  <1>9. CASE Break \/ Teardown \/ UNCHANGED vars
    BY <1>9 DEF Break, Teardown, vars
  <1> QED
    BY <1>1, <1>2, <1>3, <1>4, <1>5, <1>6, <1>7, <1>8, <1>9 DEF Next, Executor, Done

(* A batch that has not been stopped has only whole steps behind it.        *)
LEMMA WholeStep ==
    ASSUME Counted, Local, AimInv, WholeInv, [Next]_vars
    PROVE  WholeInv'
  <1>1. CASE RecordsSkipped
    <2>1. PICK e \in Entry : report' = [report EXCEPT ![block] = Append(@, e)]
      BY <1>1, Records1
    <2>2. \A b \in Blocks \ {block} : report'[b] = report[b]
      BY <2>1, Recorded
    <2>3. /\ block' = block /\ at' = "next" /\ sealed' = sealed /\ broke' = broke
          /\ block = "steps" => outcome' # "Committed"
          /\ block = "always" => outcome' = outcome
      BY <1>1 DEF RecordsSkipped, SkipStopped, StopBefore, SkipCleanup, Records, worker
    <2> QED  BY <2>2, <2>3 DEF WholeInv, Counted, Blocks, Stepping
  <1>2. CASE FinishStep
    <2>1. PICK e \in Entry :
            /\ report' = [report EXCEPT ![block] = Append(@, e)]
            /\ e.result = cur.result /\ e.cut = cur.cut
      BY <1>2, Records1
    <2>2. /\ \A b \in Blocks \ {block} : report'[b] = report[b]
          /\ \A n \in DOMAIN report'[block] :
               \/ n \in DOMAIN report[block] /\ report'[block][n] = report[block][n]
               \/ n = pos /\ report'[block][n] = e
      BY <2>1, Recorded
    <2>3. /\ block' = block /\ at' = "next" /\ sealed' = sealed /\ broke' = broke /\ at = "finished"
          /\ outcome' = IF block = "steps" THEN Verdict ELSE outcome
      BY <1>2 DEF FinishStep, Records, worker
    <2>4. Verdict = "Committed" => cur.result = "Ok" /\ ~cur.cut
      BY DEF Verdict, AimInv
    <2>5. CASE block = "steps"
      <3>1. outcome = "Committed"
        BY <2>3, <2>5 DEF WholeInv, Stepping
      <3> QED  BY <2>1, <2>2, <2>3, <2>4, <2>5, <3>1 DEF WholeInv, Stepping
    <2>6. CASE block = "always"
      BY <2>2, <2>3, <2>6 DEF WholeInv, Blocks
    <2> QED  BY <2>5, <2>6 DEF Counted, Blocks
  <1>3. CASE Within
    <2>1. at \notin Stepping /\ block = "steps" => outcome = "Committed"
      BY <1>3, WithinAStep DEF MayStart
    <2> QED  BY <1>3, <2>1, WithinAStep DEF WholeInv
  <1>4. CASE BeginCleanup
    <2>1. /\ at = "next" /\ block = "steps" /\ at' = "next" /\ block' = "always"
          /\ report' = report /\ broke' = broke
          /\ IF unverified = "none" THEN sealed' = TRUE /\ outcome' = SealedVerdict
                                    ELSE outcome' = outcome
      BY <1>4 DEF BeginCleanup
    <2>2. outcome' = "Committed" => outcome = "Committed" /\ sealed' /\ ~broke
      BY <2>1 DEF SealedVerdict, AimInv
    <2> QED  BY <2>1, <2>2 DEF WholeInv, Stepping
  <1>5. CASE BeginProbe \/ ProbeReturns
    BY <1>5 DEF BeginProbe, ProbeReturns, worker, WholeInv, Stepping
  <1>6. CASE Break
    BY <1>6 DEF Break, WholeInv
  <1>7. CASE Teardown \/ UNCHANGED vars
    BY <1>7 DEF Teardown, vars, worker, WholeInv
  <1> QED
    BY <1>1, <1>2, <1>3, <1>4, <1>5, <1>6, <1>7 DEF Next, Executor, Done, RecordsSkipped, Within

(* A step is reported to have ended the target if it did, and only one is.  *)
LEMMA GoneStep ==
    ASSUME Counted, Local, GoneInv, [Next]_vars
    PROVE  GoneInv'
  <1>0. ~NoStep.gone
    BY DEF NoStep
  <1>1. CASE RecordsSkipped \/ FinishStep
    <2>1. PICK e \in Entry :
            /\ report' = [report EXCEPT ![block] = Append(@, e)]
            /\ RecordsSkipped => e.gone = FALSE
            /\ FinishStep => e.gone = cur.gone
            /\ cur' = NoStep /\ block' = block
      BY <1>1, Records1
    <2>2. /\ report' \in [Blocks -> Seq(Entry)]
          /\ \A b \in Blocks \ {block} : report'[b] = report[b]
          /\ \A n \in DOMAIN report'[block] :
               \/ n \in DOMAIN report[block] /\ report'[block][n] = report[block][n]
               \/ n = pos /\ report'[block][n] = e
      BY <2>1, Recorded
    <2>3. target' = target /\ (RecordsSkipped => ended' = ended)
          /\ (FinishStep => ended' = (ended \/ cur.gone))
      BY <1>1 DEF RecordsSkipped, SkipStopped, StopBefore, SkipCleanup, FinishStep, worker
    <2>4. /\ ended' \in BOOLEAN /\ (ended => ended') /\ (ended' => target' = "gone")
          /\ e.gone => ended' /\ ~ended
      BY <1>1, <2>1, <2>3 DEF GoneInv, Local
    <2>5. \A b \in Blocks : \A n \in DOMAIN report'[b] :
            \/ n \in DOMAIN report[b] /\ report'[b][n] = report[b][n]
            \/ b = block /\ n = pos /\ report'[b][n] = e
      BY <2>2
    <2>6. \A b \in Blocks : \A n \in DOMAIN report'[b] : report'[b][n].gone => ended'
      BY <2>4, <2>5 DEF GoneInv
    <2>7. \A b, c \in Blocks : \A n \in DOMAIN report'[b], m \in DOMAIN report'[c] :
            report'[b][n].gone /\ report'[c][m].gone => b = c /\ n = m
      BY <2>4, <2>5 DEF GoneInv
    <2> QED  BY <1>0, <2>1, <2>3, <2>4, <2>6, <2>7 DEF GoneInv
  <1>2. CASE SkipUnbound \/ StartStep
    <2>1. /\ report' = report /\ target' = target /\ ended' = ended
      BY <1>2 DEF SkipUnbound, StartStep, worker
    <2>2. ~cur'.gone
      BY <1>2 DEF SkipUnbound, StartStep, NoStep
    <2> QED  BY <2>1, <2>2 DEF GoneInv
  <1>3. CASE ActionReturns
    <2>1. report' = report /\ ended' = ended /\ target' \in Leaves(This.kind)
      BY <1>3 DEF ActionReturns
    <2>2. /\ target' \in {"original", "other", "gone"}
          /\ target = "gone" => target' = "gone"
      BY <2>1 DEF Leaves, GoneInv
    <2>3. PICK ran \in {"ok", "err"}, told \in BOOLEAN :
            cur' = [cur EXCEPT !.ran = ran, !.cut = ran = "ok" /\ broke,
                               !.gone = Ends(ended) /\ (ran = "ok" \/ told)]
      BY <1>3 DEF ActionReturns
    <2>4. cur'.gone => ~ended /\ target' = "gone"
      BY <2>3 DEF Ends, Local
    <2> QED  BY <2>1, <2>2, <2>4 DEF GoneInv
  <1>4. CASE \/ AskHeld \/ CheckRefused \/ CheckText \/ CheckEval \/ QueryExpires \/ QueryReturns
             \/ AssertionsHold
    <2>1. report' = report /\ target' = target /\ ended' = ended
      BY <1>4 DEF AskHeld, CheckRefused, CheckText, CheckEval, QueryExpires, QueryReturns,
                  AssertionsHold, worker
    <2>2. cur'.gone = cur.gone
      <3>1. CASE AskHeld \/ CheckRefused \/ CheckText \/ CheckEval
        BY <3>1 DEF AskHeld, CheckRefused, CheckText, CheckEval, Concludes, Local
      <3>2. CASE QueryExpires \/ QueryReturns \/ AssertionsHold
        BY <3>2 DEF QueryExpires, QueryReturns, AssertionsHold, Concludes, Local
      <3> QED  BY <1>4, <3>1, <3>2
    <2> QED  BY <2>1, <2>2 DEF GoneInv
  <1>5. CASE BeginCleanup \/ BeginProbe \/ ProbeReturns
    BY <1>5 DEF BeginCleanup, BeginProbe, ProbeReturns, worker, GoneInv
  <1>6. CASE Break \/ Teardown \/ UNCHANGED vars
    BY <1>6 DEF Break, Teardown, vars, worker, GoneInv
  <1> QED
    BY <1>1, <1>2, <1>3, <1>4, <1>5, <1>6 DEF Next, Executor, Done, RecordsSkipped

(* The cleanup is withheld from a target that replaced the own one.         *)
LEMMA CleanStep ==
    ASSUME Counted, Local, AimInv, CleanInv, [Next]_vars
    PROVE  CleanInv'
  <1>1. CASE RecordsSkipped
    <2>1. PICK e \in Entry : /\ report' = [report EXCEPT ![block] = Append(@, e)]
                             /\ e.result = "Skipped" /\ at' = "next"
      BY <1>1, Records1
    <2>2. /\ \A b \in Blocks \ {block} : report'[b] = report[b]
          /\ \A n \in DOMAIN report'[block] :
               \/ n \in DOMAIN report[block] /\ report'[block][n] = report[block][n]
               \/ n = pos /\ report'[block][n] = e
      BY <2>1, Recorded
    <2>3. UNCHANGED <<unverified, inCleanup>>
      BY <1>1 DEF RecordsSkipped, SkipStopped, StopBefore, SkipCleanup
    <2> QED  BY <2>1, <2>2, <2>3 DEF CleanInv, Counted, Blocks
  <1>2. CASE FinishStep
    <2>1. unverified = "none" /\ at' = "next"
      BY <1>2 DEF FinishStep, Records, AimInv
    <2>2. CASE cur.held = "Same"
      BY <1>2, <2>1, <2>2 DEF FinishStep, CleanInv
    <2>3. CASE cur.held # "Same"
      <3>1. unverified' = cur.held /\ inCleanup' = (block = "always")
        BY <1>2, <2>3 DEF FinishStep
      <3>2. unverified' \in {"Replaced", "Uncertain"} /\ inCleanup' \in BOOLEAN
        BY <2>3, <3>1 DEF AimInv
      <3>3. PICK e \in Entry : report' = [report EXCEPT ![block] = Append(@, e)]
        BY <1>2, Records1
      <3>4. block = "steps" => DOMAIN report'["always"] = {}
        <4>1. block = "steps" => report'["always"] = <<>>
          BY <3>3, Recorded DEF Counted, Blocks
        <4> QED  BY <4>1
      <3>5. ~inCleanup' => \A n \in DOMAIN report'["always"] : report'["always"][n].result = "Skipped"
        BY <3>1, <3>4 DEF Counted, Blocks
      <3> QED  BY <2>1, <3>2, <3>5 DEF CleanInv
    <2> QED  BY <2>2, <2>3
  <1>3. CASE Within
    BY <1>3, WithinAStep DEF CleanInv, Stepping
  <1>4. CASE BeginCleanup
    BY <1>4 DEF BeginCleanup, CleanInv
  <1>5. CASE BeginProbe
    BY <1>5 DEF BeginProbe, worker, CleanInv, AimInv
  <1>6. CASE ProbeReturns
    BY <1>6 DEF ProbeReturns, worker, CleanInv, AimInv
  <1>7. CASE Break \/ Teardown \/ UNCHANGED vars
    BY <1>7 DEF Break, Teardown, vars, worker, CleanInv
  <1> QED
    BY <1>1, <1>2, <1>3, <1>4, <1>5, <1>6, <1>7 DEF Next, Executor, Done, RecordsSkipped, Within

(* The step that took the target first is one of those that may have.      *)
LEMMA FirstOfThem ==
    ASSUME Counted, Took # {}
    PROVE  \E n \in Took : TookFirst = Ran[n]
  <1>1. Took \subseteq Nat
    <2>1. Ran \in Seq(Entry)
      BY DEF Counted, Ran, Blocks
    <2> QED  BY <2>1 DEF Took
  <1> DEFINE Below == {p \in Nat \X Nat : p[1] < p[2]}
  <1>2. IsWellFoundedOn(Below, Nat)
    BY NatLessThanWellFounded DEF OpToRel
  <1>3. PICK n \in Took : \A m \in Took : ~(<<m, n>> \in Below)
    <2> HIDE DEF Below
    <2> QED  BY <1>1, <1>2, WFMin
  <1>4. \A m \in Took : n <= m
    <2>1. \A i, j \in Nat : i < j => <<i, j>> \in Below
      OBVIOUS
    <2> HIDE DEF Below
    <2>2. \A m \in Took : ~(m < n)
      BY <1>1, <1>3, <2>1, Zenon
    <2> QED  BY <1>1, <2>2
  <1> QED  BY <1>4 DEF TookFirst

(* Where an element of a sequence made of two comes from.                  *)
LEMMA FromEither ==
    ASSUME NEW S, NEW s \in Seq(S), NEW t \in Seq(S), NEW n \in DOMAIN (s \o t)
    PROVE  \/ n \in DOMAIN s /\ (s \o t)[n] = s[n]
           \/ n - Len(s) \in DOMAIN t /\ (s \o t)[n] = t[n - Len(s)]
  <1>1. n \in 1..(Len(s) + Len(t)) /\ Len(s) \in Nat /\ Len(t) \in Nat
    OBVIOUS
  <1>2. CASE n <= Len(s)
    BY <1>1, <1>2
  <1>3. CASE n > Len(s)
    BY <1>1, <1>3
  <1> QED  BY <1>1, <1>2, <1>3

(* A step reported as having ended the target left none behind.            *)
LEMMA EndedIsGone ==
    ASSUME Counted, GoneInv, NEW n \in DOMAIN Ran, Ran[n].gone
    PROVE  target = "gone"
  <1>1. report["steps"] \in Seq(Entry) /\ report["always"] \in Seq(Entry)
    BY DEF Counted, Blocks
  <1>2. \/ n \in DOMAIN report["steps"] /\ Ran[n] = report["steps"][n]
        \/ n - Len(report["steps"]) \in DOMAIN report["always"]
             /\ Ran[n] = report["always"][n - Len(report["steps"])]
    BY <1>1, FromEither DEF Ran
  <1> QED  BY <1>2 DEF GoneInv, Blocks

(* The probe speaks for the target the engine holds, and is the last call.  *)
LEMMA AfterStep ==
    ASSUME Counted, Local, AimInv, GoneInv, CleanInv, AfterInv, [Next]_vars
    PROVE  AfterInv'
  <1>1. CASE RecordsSkipped \/ FinishStep
    <2>1. after' = after /\ at' = "next" /\ at # "done"
      BY <1>1, Records1 DEF RecordsSkipped, SkipStopped, StopBefore, SkipCleanup, FinishStep
    <2> QED  BY <2>1 DEF AfterInv
  <1>2. CASE Within
    BY <1>2, WithinAStep DEF AfterInv, Stepping
  <1>3. CASE BeginProbe
    <2>1. at = "next" /\ target' = target /\ after = "none"
      BY <1>3 DEF BeginProbe, worker, AfterInv
    <2>2. CASE Probes
      BY <1>3, <2>1, <2>2 DEF BeginProbe, AfterInv
    <2>3. CASE ~Probes
      <3>1. /\ at' = "done"
            /\ after' = CASE unverified = "Replaced" -> "detached"
                          [] unverified = "Uncertain" -> "uncertain"
                          [] OTHER -> IF TookFirst.kind = "release" THEN "detached" ELSE "ended"
        BY <1>3, <2>3 DEF BeginProbe
      <3>2. after' \in {"detached", "uncertain", "ended"}
        BY <3>1
      <3>3. after' = "ended" => unverified = "none" /\ TookFirst.kind # "release"
        BY <3>1 DEF CleanInv
      <3>4. after' = "ended" => target = "gone"
        <4> SUFFICES ASSUME after' = "ended"
                     PROVE  target = "gone"
          OBVIOUS
        <4>1. PICK n \in Took : TookFirst = Ran[n]
          BY <2>3, <3>3, FirstOfThem DEF Probes
        <4> QED  BY <3>3, <4>1, EndedIsGone DEF Took, TookTarget
      <3> QED  BY <2>1, <3>1, <3>2, <3>4 DEF AfterInv
    <2> QED  BY <2>2, <2>3
  <1>4. CASE ProbeReturns
    <2>1. /\ at' = "done" /\ target' = target /\ target # "other"
          /\ after' \in {"running", "uncertain"} \cup (IF target = "gone" THEN {} ELSE {"stopped"})
      BY <1>4 DEF ProbeReturns, worker, AimInv
    <2> QED  BY <2>1 DEF AfterInv, GoneInv
  <1>5. CASE BeginCleanup \/ Break \/ Teardown \/ UNCHANGED vars
    BY <1>5 DEF BeginCleanup, Break, Teardown, vars, worker, AfterInv
  <1> QED
    BY <1>1, <1>2, <1>3, <1>4, <1>5 DEF Next, Executor, Done, RecordsSkipped, Within

(* Before the first step nothing is reported.                               *)
LEMMA ReportStart == Init => ReportInv
  <1> SUFFICES ASSUME Init PROVE ReportInv
    OBVIOUS
  <1>1. Counted
    <2>1. plan["steps"] \in Seq(Step) /\ plan["always"] \in Seq(Step)
      BY BatchConstants DEF Init
    <2>2. report \in [Blocks -> Seq(Entry)] /\ report["steps"] = <<>> /\ report["always"] = <<>>
      BY DEF Init, Blocks
    <2> QED  BY <2>1, <2>2 DEF Init, Counted, Blocks, Stepping
  <1>2. Local
    BY DEF Init, Local, NoStep, Results
  <1>3. WholeInv /\ GoneInv /\ CleanInv /\ AfterInv
    <2>1. DOMAIN report["steps"] = {} /\ DOMAIN report["always"] = {}
      BY DEF Init, Blocks
    <2>2. \A b \in Blocks : DOMAIN report[b] = {}
      BY <2>1 DEF Blocks
    <2>3. ~NoStep.gone
      BY DEF NoStep
    <2> QED  BY <2>1, <2>2, <2>3 DEF Init, WholeInv, GoneInv, CleanInv, AfterInv, Stepping
  <1> QED  BY <1>1, <1>2, <1>3 DEF ReportInv

(* The aim and the report are right in every state.                         *)
LEMMA ReportAlways == Spec => [](AimInv /\ ReportInv)
  <1>1. Init => AimInv /\ ReportInv
    BY ReportStart DEF Init, AimInv, NoStep
  <1>2. AimInv /\ ReportInv /\ [Next]_vars => AimInv' /\ ReportInv'
    BY AimStep, CountedStep, LocalStep, WholeStep, GoneStep, CleanStep, AfterStep DEF ReportInv
  <1> QED  BY <1>1, <1>2, PTL DEF Spec

(* A batch reported committed ran every one of its steps, every assertion  *)
(* of them held and no break reached it, for every plan and wherever the   *)
(* break falls: the seal and the verdict are one step (run, batch.rs).     *)
THEOREM CommitHolds == Spec => []CommittedIsWhole
  <1>1. AimInv /\ ReportInv => CommittedIsWhole
    <2> SUFFICES ASSUME ReportInv, at = "done", outcome = "Committed"
                 PROVE  /\ ~broke
                        /\ \A n \in 1..Len(plan["steps"]) :
                             report["steps"][n].result = "Ok" /\ ~report["steps"][n].cut
      BY DEF CommittedIsWhole
    <2>1. block = "always"
      BY DEF ReportInv, Counted, Stepping, Blocks
    <2>2. report["steps"] \in Seq(Entry) /\ Len(report["steps"]) = Len(plan["steps"])
      BY <2>1 DEF ReportInv, Counted, Blocks
    <2>3. DOMAIN report["steps"] = 1..Len(plan["steps"])
      BY <2>2
    <2> QED  BY <2>1, <2>3 DEF ReportInv, WholeInv
  <1> QED  BY <1>1, ReportAlways, PTL

(* What the report says of the rollback, of the target that is left and of *)
(* the step that ended it is true, for every plan and whatever the engine  *)
(* calls do to the target (run, run_step and probe_state, batch.rs).       *)
THEOREM ReportHolds == Spec => []ReportIsTrue
  <1>1. AimInv /\ ReportInv => ReportIsTrue
    <2> SUFFICES ASSUME AimInv, ReportInv PROVE ReportIsTrue
      OBVIOUS
    <2>1. ASSUME at = "done", plan.always # <<>>, RollbackComplete, target = "other"
          PROVE  FALSE
      <3>1. block = "always" /\ pos > Len(plan["always"]) /\ Len(report["always"]) = pos - 1
            /\ plan["always"] \in Seq(Step) /\ report["always"] \in Seq(Entry) /\ pos \in Nat
        BY <2>1 DEF ReportInv, Counted, Stepping, Blocks
      <3>2. Len(report["always"]) >= 1
        BY <2>1, <3>1
      <3>3. unverified # "none" /\ ~inCleanup
        BY <2>1 DEF RollbackComplete, ReportInv, CleanInv
      <3>4. report["always"][1].result = "Skipped"
        BY <3>1, <3>2, <3>3 DEF ReportInv, CleanInv
      <3> QED  BY <2>1, <3>1, <3>2, <3>4 DEF RollbackComplete
    <2>2. (after = "stopped" => target = "original") /\ (after = "ended" => target = "gone")
      BY DEF ReportInv, AfterInv
    <2> DEFINE S == {e \in Blocks \X (1..pos) :
                       e[2] <= Len(report[e[1]]) /\ report[e[1]][e[2]].gone}
    <2>3. \A e, f \in S : e = f
      <3> SUFFICES ASSUME NEW e \in S, NEW f \in S PROVE e = f
        OBVIOUS
      <3>1. /\ e = <<e[1], e[2]>> /\ e[1] \in Blocks /\ e[2] \in DOMAIN report[e[1]]
            /\ report[e[1]][e[2]].gone
        BY DEF ReportInv, Counted
      <3>2. /\ f = <<f[1], f[2]>> /\ f[1] \in Blocks /\ f[2] \in DOMAIN report[f[1]]
            /\ report[f[1]][f[2]].gone
        BY DEF ReportInv, Counted
      <3> QED  BY <3>1, <3>2 DEF ReportInv, GoneInv
    <2>4. Cardinality(S) <= 1
      <3>1. CASE S = {}
        BY <3>1, FS_EmptySet
      <3>2. CASE S # {}
        <4>1. PICK e \in S : S = {e}
          BY <2>3, <3>2
        <4> HIDE DEF S
        <4>2. Cardinality({e}) = 1
          BY FS_Singleton
        <4> QED  BY <4>1, <4>2
      <3> QED  BY <3>1, <3>2
    <2> QED  BY <2>1, <2>2, <2>4 DEF ReportIsTrue
  <1> QED  BY <1>1, ReportAlways, PTL
=============================================================================
