----------------------------- MODULE EngineWorker -----------------------------
(***************************************************************************)
(* One engine worker process (worker.rs) once its target is open: the      *)
(* request reader thread, the engine thread, and what they share - the     *)
(* Running tracker (which job is on the engine, who may be interrupted),   *)
(* the BatchSignal (is a transaction running, who waits for it) and the    *)
(* latch that says the target was replaced.  Every lock acquisition is one *)
(* step; what a thread does between two acquisitions is another.           *)
(*                                                                         *)
(* DbgEng is external: ctrlBreak is the Ctrl+Break SetInterrupt leaves     *)
(* pending on the engine, tagged with the job it was raised for.           *)
(***************************************************************************)
EXTENDS Naturals, Sequences

CONSTANTS
    Jobs,          \* request ids the supervisor may send
    NoJob,         \* no request id
    Eof,           \* the supervisor's going away: request id 0, and Job::Release
    Op,            \* the operation of each job
    HandleBound,   \* the jobs whose caller named the session
    MaxBreaks,     \* bound: Interrupt requests read
    Steps          \* steps of a batch

Ops == {"query", "resume", "batch", "end"}

ASSUME WorkerAssumption ==
    /\ NoJob \notin Jobs /\ Eof \notin Jobs /\ NoJob # Eof
    /\ Op \in [Jobs -> Ops]
    /\ HandleBound \subseteq Jobs
    /\ MaxBreaks \in Nat
    /\ Steps \in Nat \ {0}

VARIABLES
    unread,        \* requests still in the pipe
    breaks,        \* Interrupt requests read so far
    rpc,           \* where the reader thread is
    rjob,          \* the request the reader is handling
    rpump,         \* the run a teardown found pumping
    queue,         \* jobs handed to the engine thread
    epc,           \* where the engine thread is
    cur,           \* the job the engine thread dequeued
    left,          \* batch steps not yet run
    job, interrupted, pumping, barred, tearing_down, uninterruptible, \* Running
    abandon, finish_by, told_by,                                      \* BatchSignal
    ctrlBreak,     \* the pending Ctrl+Break, as the job it was raised for
    swapped,       \* the engine holds another target than the one opened
    replaced,      \* REPLACED: the worker has noticed
    reply,         \* how each job was answered
    raised,        \* history: jobs a break was raised for
    missed,        \* history: jobs barred before the engine thread had them
    promised,      \* history: what the newest teardown was told of a running batch
    failures       \* history: external calls that did not work

reader    == <<unread, breaks, rpc, rjob, rpump>>
engine    == <<epc, cur, left>>
running   == <<job, interrupted, pumping, barred, tearing_down, uninterruptible>>
signal    == <<abandon, finish_by, told_by>>
target    == <<swapped, replaced>>
history   == <<raised, missed, promised, failures>>
vars      == <<reader, queue, engine, running, signal, ctrlBreak, target, reply, history>>

AJob == Jobs \cup {NoJob}

TypeOK ==
    /\ unread \subseteq Jobs
    /\ breaks \in 0..MaxBreaks
    /\ rpc \in {"read", "break", "abandon", "tell", "stop", "stopbreak",
                "queue", "eofstop", "eofbreak", "eofabandon", "eoftell", "eofqueue",
                "wait", "exited"}
    /\ rjob \in AJob \cup {Eof} /\ rpump \in AJob
    /\ queue \in Seq(Jobs \cup {Eof})
    /\ epc \in {"recv", "start", "work", "pump", "unpump", "steps", "always",
                "unbatch", "ending", "release", "drain", "watch"}
    /\ cur \in AJob \cup {Eof}
    /\ left \in 0..Steps
    /\ job \in AJob /\ interrupted \in AJob /\ pumping \in AJob
    /\ barred \subseteq Jobs
    /\ tearing_down \in BOOLEAN
    /\ uninterruptible \in AJob
    /\ abandon \in BOOLEAN /\ finish_by \in BOOLEAN
    /\ told_by \in AJob \cup {Eof}
    /\ ctrlBreak \in AJob
    /\ swapped \in BOOLEAN /\ replaced \in BOOLEAN
    /\ reply \in [Jobs -> {"none", "ok", "cut", "stale", "refused"}]
    /\ raised \subseteq Jobs /\ missed \subseteq Jobs
    /\ promised \in {"unasked", "nothing", "time", "retracted"}
    /\ failures \subseteq {"interrupt", "reading"}

Init ==
    /\ unread = Jobs /\ breaks = 0 /\ rpc = "read" /\ rjob = NoJob /\ rpump = NoJob
    /\ queue = <<>>
    /\ epc = "recv" /\ cur = NoJob /\ left = 0
    /\ job = NoJob /\ interrupted = NoJob /\ pumping = NoJob
    /\ barred = {} /\ tearing_down = FALSE /\ uninterruptible = NoJob
    /\ abandon = FALSE /\ finish_by = FALSE /\ told_by = NoJob
    /\ ctrlBreak = NoJob
    /\ swapped = FALSE /\ replaced = FALSE
    /\ reply = [j \in Jobs |-> "none"]
    /\ raised = {} /\ missed = {} /\ promised = "unasked" /\ failures = {}

-----------------------------------------------------------------------------
(* The request reader.  It is never blocked by the engine and goes on       *)
(* reading behind an EndSession: a shutdown's EndSession leaves a kernel    *)
(* session open to calls, so jobs, breaks and a second EndSession follow.   *)

(* A request for the engine thread is handed over in arrival order.         *)
ReadJob(j) ==
    /\ rpc = "read"
    /\ j \in unread /\ Op[j] # "end"
    /\ unread' = unread \ {j}
    /\ queue' = Append(queue, j)
    /\ UNCHANGED <<breaks, rpc, rjob, rpump, engine, running, signal, ctrlBreak,
                   target, reply, history>>

(* An Interrupt is answered on this thread.  A handle-bound one first reads *)
(* the REPLACED latch, before the tracker's lock is taken.                  *)
ReadInterrupt(named, handleBound) ==
    /\ rpc = "read"
    /\ breaks < MaxBreaks
    /\ breaks' = breaks + 1
    /\ IF handleBound /\ replaced
       THEN UNCHANGED <<rpc, rjob>>
       ELSE rpc' = "break" /\ rjob' = named
    /\ UNCHANGED <<unread, rpump, queue, engine, running, signal, ctrlBreak, target,
                   reply, history>>

(* break_for_other: bars accumulate, since a late break for a finished run  *)
(* must not displace the bar of a queued one.                               *)
BarForgotten(named) == barred
Bar(named) == barred \cup {named}

(* Running::sealed: the job on the engine is in a phase no break may reach, *)
(* be it a batch's rollback or a teardown from its claim on.                *)
SealedIfBatch == job # NoJob /\ uninterruptible = job /\ Op[job] = "batch"
Sealed == uninterruptible = job

(* interrupt_running, under the tracker's lock: a break naming a job that   *)
(* is not on the engine bars it; nothing running, a sealed job or a break   *)
(* already pending sends nothing; otherwise Ctrl+Break is raised, and only  *)
(* a raise that worked is recorded.                                         *)
InterruptRunning(named) ==
    \/ /\ named # NoJob /\ named # job
       /\ barred' = Bar(named)
       /\ missed' = IF named \in unread \/ \E i \in DOMAIN queue : queue[i] = named
                    THEN missed \cup {named} ELSE missed
       /\ UNCHANGED <<interrupted, ctrlBreak, raised, failures>>
    \/ /\ named = NoJob \/ named = job
       /\ job = NoJob \/ Sealed \/ interrupted = job
       /\ UNCHANGED <<barred, interrupted, ctrlBreak, raised, missed, failures>>
    \/ /\ named = NoJob \/ named = job
       /\ job # NoJob /\ ~Sealed /\ interrupted # job
       /\ UNCHANGED <<barred, missed>>
       /\ \/ /\ interrupted' = job /\ ctrlBreak' = job
             /\ raised' = raised \cup {job}
             /\ UNCHANGED failures
          \/ /\ failures' = failures \cup {"interrupt"}
             /\ UNCHANGED <<interrupted, ctrlBreak, raised>>

Interrupt ==
    /\ rpc = "break"
    /\ InterruptRunning(rjob)
    /\ rpc' = "read" /\ rjob' = NoJob
    /\ UNCHANGED <<unread, breaks, rpump, queue, engine, job, pumping, tearing_down,
                   uninterruptible, signal, target, reply, promised>>

(* EndSession: announce_teardown, stop_resuming, and only then the queue.   *)
ReadEndSession(j) ==
    /\ rpc = "read"
    /\ j \in unread /\ Op[j] = "end"
    /\ unread' = unread \ {j}
    /\ rjob' = j /\ rpc' = "abandon"
    /\ UNCHANGED <<breaks, rpump, queue, engine, running, signal, ctrlBreak, target,
                   reply, history>>

(* The supervisor went away: the same signals, in the other order.          *)
ReadEof ==
    /\ rpc = "read"
    /\ rpc' = "eofstop" /\ rjob' = Eof
    /\ UNCHANGED <<unread, breaks, rpump, queue, engine, running, signal, ctrlBreak,
                   target, reply, history>>

(* BatchSignal::abandon stores the flag before it takes the lock ...        *)
Abandon ==
    /\ rpc \in {"abandon", "eofabandon"}
    /\ abandon' = TRUE
    /\ rpc' = IF rpc = "abandon" THEN "tell" ELSE "eoftell"
    /\ UNCHANGED <<unread, breaks, rjob, rpump, queue, engine, running, finish_by,
                   told_by, ctrlBreak, target, reply, history>>

(* ... under which it leaves its id for the retraction and learns whether a *)
(* batch still needs time.                                                  *)
Tell ==
    /\ rpc \in {"tell", "eoftell"}
    /\ told_by' = rjob
    /\ promised' = IF finish_by THEN "time" ELSE "nothing"
    /\ rpc' = IF rpc = "tell" THEN "stop" ELSE "eofqueue"
    /\ UNCHANGED <<unread, breaks, rjob, rpump, queue, engine, running, abandon,
                   finish_by, ctrlBreak, target, reply, raised, missed, failures>>

BeginTeardownBlindly ==
    /\ rpc \in {"stop", "eofstop"}
    /\ tearing_down' = TRUE
    /\ rpc' = IF rpc = "stop" THEN "queue" ELSE "eofabandon"
    /\ UNCHANGED <<unread, breaks, rjob, rpump, queue, engine, job, interrupted, pumping,
                   barred, uninterruptible, signal, ctrlBreak, target, reply, history>>

(* stop_resuming: no run may start any more; one already pumping is to be   *)
(* broken in, once the lock has been given up.                              *)
BeginTeardown ==
    /\ rpc \in {"stop", "eofstop"}
    /\ tearing_down' = TRUE
    /\ rpump' = pumping
    /\ rpc' = IF pumping # NoJob THEN IF rpc = "stop" THEN "stopbreak" ELSE "eofbreak"
                                 ELSE IF rpc = "stop" THEN "queue" ELSE "eofabandon"
    /\ UNCHANGED <<unread, breaks, rjob, queue, engine, job, interrupted, pumping,
                   barred, uninterruptible, signal, ctrlBreak, target, reply, history>>

BreakThePump ==
    /\ rpc \in {"stopbreak", "eofbreak"}
    /\ InterruptRunning(rpump)
    /\ rpc' = IF rpc = "stopbreak" THEN "queue" ELSE "eofabandon"
    /\ UNCHANGED <<unread, breaks, rjob, rpump, queue, engine, job, pumping,
                   tearing_down, uninterruptible, signal, target, reply, promised>>

(* The teardown itself: EndSession's job, or the Release of an EOF, whose   *)
(* acknowledgement the reader waits for.                                    *)
QueueTeardown ==
    /\ rpc \in {"queue", "eofqueue"}
    /\ queue' = Append(queue, rjob)
    /\ rpc' = IF rpc = "queue" THEN "read" ELSE "wait"
    /\ UNCHANGED <<unread, breaks, rjob, rpump, engine, running, signal, ctrlBreak,
                   target, reply, history>>

(* The grace after an EOF is the fixed release allowance plus what a batch  *)
(* said it still needs, so it does not run out on a batch that keeps the    *)
(* bound it named.  Exiting ends the engine thread with the process.        *)
ReleaseTimeout ==
    /\ rpc = "wait"
    /\ ~(promised = "time" /\ finish_by)
    /\ rpc' = "exited"
    /\ UNCHANGED <<unread, breaks, rjob, rpump, queue, engine, running, signal,
                   ctrlBreak, target, reply, history>>

-----------------------------------------------------------------------------
(* The engine thread.                                                       *)

Alive == rpc # "exited"

(* claim: a teardown is sealed under the same lock that claims it, which    *)
(* also drains the engine.                                                  *)
Claim ==
    /\ Alive /\ epc = "recv" /\ queue # <<>> /\ Head(queue) # Eof
    /\ queue' = Tail(queue)
    /\ cur' = Head(queue) /\ job' = Head(queue)
    /\ epc' = "start"
    /\ IF Op[Head(queue)] = "end"
       THEN uninterruptible' = Head(queue) /\ ctrlBreak' = NoJob
       ELSE UNCHANGED <<uninterruptible, ctrlBreak>>
    /\ UNCHANGED <<reader, left, interrupted, pumping, barred, tearing_down, signal,
                   target, reply, history>>

Answer(a) == reply' = [reply EXCEPT ![cur] = a]

(* refuse_when_the_target_was_replaced: a call its caller bound to a        *)
(* session, overtaken in the queue by a replacement.                        *)
RefuseReplaced ==
    /\ Alive /\ epc = "start" /\ Op[cur] # "end"
    /\ cur \in HandleBound /\ replaced
    /\ Answer("stale") /\ epc' = "release"
    /\ UNCHANGED <<reader, queue, cur, left, running, signal, ctrlBreak, target, history>>

Admitted == Alive /\ epc = "start" /\ ~(cur \in HandleBound /\ replaced)

StartQuery ==
    /\ Admitted /\ Op[cur] = "query"
    /\ epc' = "work"
    /\ UNCHANGED <<reader, queue, cur, left, running, signal, ctrlBreak, target, reply,
                   history>>

(* claim_pump: refused by a teardown already read, or by a break that named *)
(* this run while it was queued.                                            *)
RunMayStartUnlessBarred == cur \notin barred
RunMayStart == ~tearing_down /\ cur \notin barred

RefusePump ==
    /\ Admitted /\ Op[cur] = "resume" /\ ~RunMayStart
    /\ barred' = IF tearing_down THEN barred ELSE barred \ {cur}
    /\ Answer("refused") /\ epc' = "release"
    /\ UNCHANGED <<reader, queue, cur, left, job, interrupted, pumping, tearing_down,
                   uninterruptible, signal, ctrlBreak, target, history>>

ClaimPump ==
    /\ Admitted /\ Op[cur] = "resume" /\ RunMayStart
    /\ pumping' = cur /\ epc' = "pump"
    /\ UNCHANGED <<reader, queue, cur, left, job, interrupted, barred, tearing_down,
                   uninterruptible, signal, ctrlBreak, target, reply, history>>

(* BatchSignal::enter: the flag is read under the lock that publishes the   *)
(* batch's bound.                                                           *)
BatchAlwaysEnters == TRUE
BatchMayEnter == ~abandon

RefuseBatch ==
    /\ Admitted /\ Op[cur] = "batch" /\ ~BatchMayEnter
    /\ Answer("refused") /\ epc' = "release"
    /\ UNCHANGED <<reader, queue, cur, left, running, signal, ctrlBreak, target, history>>

EnterBatch ==
    /\ Admitted /\ Op[cur] = "batch" /\ BatchMayEnter
    /\ finish_by' = TRUE
    /\ epc' = "steps" /\ left' = Steps
    /\ UNCHANGED <<reader, queue, cur, running, abandon, told_by, ctrlBreak, target,
                   reply, history>>

StartEnd ==
    /\ Alive /\ epc = "start" /\ Op[cur] = "end"
    /\ epc' = "ending"
    /\ UNCHANGED <<reader, queue, cur, left, running, signal, ctrlBreak, target, reply,
                   history>>

(* A command polls and meets the Ctrl+Break pending on the engine.          *)
Poll ==
    /\ Alive /\ epc \in {"work", "pump", "steps", "always", "ending"}
    /\ ctrlBreak # NoJob
    /\ ctrlBreak' = NoJob
    /\ epc' = CASE epc = "work" -> "release" [] epc = "pump" -> "unpump" [] OTHER -> epc
    /\ UNCHANGED <<reader, queue, cur, left, running, signal, target, reply, history>>

(* ... or ends by itself, having perhaps put the engine on another target.  *)
Finish ==
    /\ Alive /\ epc \in {"work", "pump"}
    /\ epc' = IF epc = "work" THEN "release" ELSE "unpump"
    /\ swapped' \in {swapped, TRUE}
    /\ UNCHANGED <<reader, queue, cur, left, running, signal, ctrlBreak, replaced,
                   reply, history>>

Unpump ==
    /\ Alive /\ epc = "unpump"
    /\ pumping' = NoJob /\ epc' = "release"
    /\ UNCHANGED <<reader, queue, cur, left, job, interrupted, barred, tearing_down,
                   uninterruptible, signal, ctrlBreak, target, reply, history>>

StepsLeftOrEqual == left >= 0
StepsLeft == left > 0

(* A batch starts its next step only if no teardown and no break has been   *)
(* seen; any step may fail, which ends the steps as well.  One that puts    *)
(* the engine on another target is the last.                                *)
BatchStep ==
    /\ Alive /\ epc = "steps" /\ StepsLeft
    /\ ~abandon /\ interrupted # cur
    /\ \/ left' \in {0, left - 1} /\ UNCHANGED swapped
       \/ left' = 0 /\ swapped' = TRUE
    /\ UNCHANGED <<reader, queue, epc, cur, running, signal, ctrlBreak, replaced, reply,
                   history>>

(* The steps are over: the rollback is sealed and the engine drained under  *)
(* one lock.                                                                *)
SealRollback ==
    /\ Alive /\ epc = "steps"
    /\ left = 0 \/ abandon \/ interrupted = cur
    /\ uninterruptible' = cur /\ ctrlBreak' = NoJob
    /\ epc' = "always"
    /\ UNCHANGED <<reader, queue, cur, left, job, interrupted, pumping, barred,
                   tearing_down, signal, target, reply, history>>

Rollback ==
    /\ Alive /\ epc = "always"
    /\ epc' = "unbatch"
    /\ swapped' \in {swapped, TRUE}
    /\ UNCHANGED <<reader, queue, cur, left, running, signal, ctrlBreak, replaced, reply,
                   history>>

FinishBatchSilently ==
    /\ Alive /\ epc = "unbatch"
    /\ finish_by' = FALSE /\ epc' = "release"
    /\ UNCHANGED <<reader, queue, cur, left, running, abandon, told_by, ctrlBreak,
                   target, reply, history>>

(* BatchGuard::drop: the claim ends, and the teardown that was told to wait *)
(* is told it need not.                                                     *)
FinishBatch ==
    /\ Alive /\ epc = "unbatch"
    /\ finish_by' = FALSE /\ told_by' = NoJob
    /\ promised' = IF told_by # NoJob THEN "retracted" ELSE promised
    /\ epc' = "release"
    /\ UNCHANGED <<reader, queue, cur, left, running, abandon, ctrlBreak, target, reply,
                   raised, missed, failures>>

FinishEnd ==
    /\ Alive /\ epc = "ending"
    /\ epc' = "release"
    /\ UNCHANGED <<reader, queue, cur, left, running, signal, ctrlBreak, target, reply,
                   history>>

(* The id of a break is compared with the job that ends.                    *)
CutShortIfPending == ctrlBreak # NoJob
CutShort == interrupted = cur

(* Running::release.  An interrupt recorded for this job is the cue to      *)
(* drain the engine and to say the result was cut short.                    *)
Release ==
    /\ Alive /\ epc = "release"
    /\ job' = NoJob /\ pumping' = NoJob /\ uninterruptible' = NoJob /\ interrupted' = NoJob
    /\ IF CutShort
       THEN epc' = "drain" /\ Answer("cut")
       ELSE epc' = "watch" /\ Answer(IF reply[cur] = "none" THEN "ok" ELSE reply[cur])
    /\ UNCHANGED <<reader, queue, cur, left, barred, tearing_down, signal, ctrlBreak,
                   target, history>>

DrainForgotten ==
    /\ Alive /\ epc = "drain" /\ epc' = "watch"
    /\ UNCHANGED <<reader, queue, cur, left, running, signal, ctrlBreak, target, reply,
                   history>>

Drain ==
    /\ Alive /\ epc = "drain"
    /\ ctrlBreak' = NoJob /\ epc' = "watch"
    /\ UNCHANGED <<reader, queue, cur, left, running, signal, target, reply, history>>

(* watch_for: which jobs are compared when they end.                        *)
WatchedOnlyIfQuery(j) == Op[j] = "query"
Watched(j) == Op[j] # "end"

(* watch_the_target: the fingerprint is compared after every ordinary job,  *)
(* unless the engine will not say what it holds.                            *)
WatchTheTarget ==
    /\ Alive /\ epc = "watch"
    /\ \/ replaced' = (replaced \/ (swapped /\ Watched(cur))) /\ UNCHANGED failures
       \/ swapped /\ ~replaced /\ UNCHANGED replaced
          /\ failures' = failures \cup {"reading"}
    /\ epc' = "recv" /\ cur' = NoJob
    /\ UNCHANGED <<reader, queue, left, running, signal, ctrlBreak, swapped, reply,
                   raised, missed, promised>>

(* Job::Release: the target is released and the reader told, which exits.   *)
ReleaseOnEof ==
    /\ Alive /\ epc = "recv" /\ queue # <<>> /\ Head(queue) = Eof
    /\ queue' = Tail(queue)
    /\ rpc' = "exited"
    /\ UNCHANGED <<unread, breaks, rjob, rpump, engine, running, signal, ctrlBreak,
                   target, reply, history>>

Terminated == ~Alive /\ UNCHANGED vars

-----------------------------------------------------------------------------
ReaderNext ==
    \/ \E j \in Jobs : ReadJob(j) \/ ReadEndSession(j)
    \/ \E named \in AJob, handleBound \in BOOLEAN : ReadInterrupt(named, handleBound)
    \/ Interrupt \/ ReadEof
    \/ Abandon \/ Tell \/ BeginTeardown \/ BreakThePump \/ QueueTeardown
    \/ ReleaseTimeout

(* What the engine thread does on its own account: everything but ending a  *)
(* run the target does not end.                                             *)
EngineStep ==
    \/ Claim \/ RefuseReplaced \/ StartQuery \/ RefusePump \/ ClaimPump
    \/ RefuseBatch \/ EnterBatch \/ StartEnd \/ Poll \/ (epc = "work" /\ Finish)
    \/ Unpump \/ BatchStep \/ SealRollback \/ Rollback \/ FinishBatch \/ FinishEnd
    \/ Release \/ Drain \/ WatchTheTarget \/ ReleaseOnEof

RunEnds == epc = "pump" /\ Finish

Next == ReaderNext \/ EngineStep \/ RunEnds \/ Terminated

(* Once it has read a teardown or a break the reader carries it through.    *)
ReaderWork ==
    \/ Interrupt \/ Abandon \/ Tell \/ BeginTeardown \/ BreakThePump \/ QueueTeardown

Fairness == WF_vars(EngineStep) /\ WF_vars(ReaderWork)

Spec == Init /\ [][Next]_vars /\ Fairness

-----------------------------------------------------------------------------
(* A Ctrl+Break pending on the engine belongs to the job that is running:   *)
(* raised a moment late it never aborts whatever started next, because the  *)
(* raise and the end of a job take the tracker's one lock (worker.rs, the   *)
(* comment on Running).                                                     *)
BreakStaysWithItsJob == job # NoJob /\ ctrlBreak # NoJob => ctrlBreak = job

(* No break reaches a sealed phase - a batch's rollback, an EndSession -    *)
(* neither one raised before the seal and not yet consumed nor one read     *)
(* after it, which for an EndSession is one sent behind it.                 *)
CleanupUninterrupted == uninterruptible # NoJob => ctrlBreak = NoJob

(* When a teardown has been read and its signals sent, a run still on the   *)
(* engine has a break pending: it was broken in or never started, so the    *)
(* teardown never waits out a run.                                          *)
NoRunOutlivesTeardown ==
    tearing_down /\ rpc \notin {"stopbreak", "eofbreak"} /\ epc = "pump"
        => ctrlBreak = cur \/ "interrupt" \in failures

(* A run that a break named while it was still queued, or still in the      *)
(* pipe, never sets the target going, whatever other breaks arrive.         *)
MissedRunNeverStarts == pumping \notin missed

(* The one interleaving that must not happen: a batch at work while a       *)
(* teardown has been told there is nothing to wait for.                     *)
NoSilentBatch == promised = "nothing" => epc \notin {"steps", "always"}

(* A promise of time made to a teardown does not outlive the batch it was   *)
(* made for: the batch's end retracts it.                                   *)
PromiseRetracted == promised = "time" => finish_by

(* A break reported as raised is reported by the job it hit: its reply says *)
(* the result was cut short, also when the engine never polled.             *)
RaisedIsReported == \A j \in raised : j = job \/ reply[j] = "cut"

(* A call bound to a session is started only against the target that        *)
(* session was opened for, even when the job ahead of it in the queue       *)
(* replaced it, unless the engine would not say what it holds; a batch that *)
(* replaces it starts no further step.                                      *)
BoundCallKeepsItsTarget ==
    cur \in HandleBound /\ swapped /\ (epc \in {"work", "pump"} \/ (epc = "steps" /\ left > 0))
        => "reading" \in failures

(* A teardown is reached: an EndSession that was read is answered, and an   *)
(* EOF ends the process, although a run by itself need never end.           *)
TeardownReached ==
    /\ \A j \in {k \in Jobs : Op[k] = "end"} : (rpc = "abandon" /\ rjob = j)
            ~> (reply[j] # "none" \/ ~Alive \/ "interrupt" \in failures)
    /\ (rpc = "eofstop") ~> (~Alive \/ "interrupt" \in failures)
=============================================================================
