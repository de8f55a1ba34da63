# windbg-mcp, modelled and checked

A TLA+ development of the concurrent core of `windbg-mcp`: the MCP server that
puts WinDbg's engine behind tools. It is written from the Rust source (paths are
relative to the repository; `src/worker.rs` is the worker, `src/engine.rs` the
supervisor, `src/batch.rs` the transaction executor). `PROJECT.json` maps every
definition to the lines it stands for.

## The system

A **supervisor** process serves clients and keeps a **registry** of sessions.
Every session is one **engine worker** process, because DbgEng is one engine per
process and may hang or crash; the two talk over the worker's standard input and
output, one JSON line per message. A worker has two threads that matter, the
**request reader** and the **engine thread**; the supervisor has, per session, a
**pump** thread that gates and forwards jobs and a **reader** thread that handles
what the worker says, and one task per call with a deadline of its own.

| Part | State | Operations | What is hard |
|---|---|---|---|
| engine worker (`worker.rs`) | `Running` (job, interrupted, pumping, barred, tearing_down, uninterruptible), `BatchSignal`, the `REPLACED` latch, DbgEng's pending Ctrl+Break | read a request, interrupt, end a session, lose the supervisor; claim, run, pump, seal, release, drain, watch | a break addresses the engine and not a job; a teardown that meets a run or a batch at any point of its life; a target replaced under queued calls |
| remote-kernel session (`engine.rs`, `worker.rs`) | `SessionState`, `OpenPhase`, `released`, `Claims`, the process handle; `KernelSafety` in the worker | attach, target-changing command, end_session, deadlines, replies, handoff | a machine halted in its debugger: deadlines, refusals, late replies and deaths in any order must neither drop it nor offer it twice |
| session registry (`engine.rs`, `listen.rs`) | `all`, the slots in flight, `closing`, `revoked`, per-session waiters | open, call, reclaim, idle sweep, lease sweep, shutdown, trim | decisions taken under a lock and used several awaits later |
| `debug_batch` (`batch.rs`) | the block and step, outcome, report, deadline, the target it began with | step, assertion, seal, cleanup, probe | every engine call may take its whole watchdog, replace or end the target, fail or be cut short, and the report must stay true |
| execution slot (`engine.rs`) | `Session::execution`, the submit gate, a milestone channel per start, the filing task | start, wait_for_stop, break_in, an ordinary call | the slot is claimed before its job is queued, read without a lock that covers the channel, and replaced by the next run while callers still hold the old handle |
| live-kernel break (`worker.rs`, `skdispatch.rs`) | `Running::live_break` and `live_wait_job`, the `WaitActivity` of the wait, DbgEng's break flag | stage, wake, record, drain, settle | bound under one lock and raised under another, while the wait begins, ends by itself or is torn down |
| composite Secure Kernel session (`engine.rs`) | a hidden controller and its public peer, `parents`/`companions`/`hidden`, the service task | open with its undo, service failure, release tree, handoff, sweep | two opens and two releases in sequence, each of which may fail, under one handle |
| listener (`listen.rs`) | a `Presence` per client, the accepted credentials, the registry's gate, MCP sessions | admit, settle, release, sweep, reload | a request, an expiry and a revocation at one moment |
| KD link and target (`kdwire.rs`, `kdtarget.rs`, `skdispatch.rs`) | packet ids and the outstanding packet; the service's phase, `WaitWakeState`, `StoppedBreakIn`, the reader's queue | receive, send; serve, resume, wait, raise, tear down | damage, repetition and resets on the line; a Ctrl+Break at the edges of a wait |
| log bridge, progress, recording | bounded queues | push, drain | overflow; not modelled |
| analyses, typed results, drivers, client plugins | - | - | data transformations; not modelled |

What makes each part correct is said by the properties below; `PROJECT.json`
lists the hazards they answer, each at its line.

## The modules

| Module | Models | Used by |
|---|---|---|
| `EngineWorker` | a worker once its target is open: both threads, `Running`, `BatchSignal`, the replaced latch | `MCEngineWorker`, `EngineWorkerProofs` |
| `KernelWorker` | a worker of a remote-kernel session: `KernelSafety`, the attach and its milestones, how the process may end. It has no specification of its own | `KernelSession` |
| `KernelSession` | that worker composed with the supervisor: callers, pump, reader, settlement, handoff | `MCKernelSession`, `KernelSessionProofs` |
| `Registry` | all sessions of all clients at the grain of one acquisition of the registry lock | `MCRegistry`, `RegistryProofs` |
| `Batch` | `run`, `run_step`, `evaluate`, `probe_state` over the worker's `Debuggee` | `MCBatch`, `MCServer`, `BatchProofs` |
| `Execution` | the one run of a session as the supervisor sees it: callers, gate, slot, reader, filing task, and the worker behind them | `MCServer`, `ExecutionProofs` |
| `Lease` | the listener's gate, leases, sweeper and reload | `MCServer`, `LeaseProofs` |
| `Composite` | a hidden controller and its public peer: the open, the service, every teardown | `MCServer`, `SecureKernelProofs` |
| `WaitActivity` | the phases of one interruptible wait (operators, no state) | `LiveBreak`, `KdTarget` |
| `LiveBreak` | `sk_live_break` against `sk_live_wait`: the reader and the engine thread | `MCServer`, `SecureKernelProofs` |
| `KdChannel` | abstract: what the KD link promises its two ends | `KdLink` |
| `KdLink` | `TargetLink` and the debugger's end of the wire; shown to implement `KdChannel` | `KdTarget` |
| `KdTarget` | the service, reader and interrupt tasks of the managed KD target, on top of `KdLink` | `MCKdTarget`, `KdTargetProofs` |
| `MCServer` | the parts that share no state, one per behaviour (`Parts` are those of a run) | `server`, `lease_sweep` |

Conventions: one action is what happens under one lock acquisition, or what one
thread does between two; a history variable is commented as one; an operator
placed directly before a definition and named for what it gets wrong is the
plausible mistake against which the property is tested (`PROJECT.json`,
`mutants`), and nothing else uses it.

**EngineWorker.** `reader`, `engine`, `running`, `signal`, `target` group the
variables as the code does. The reader's multi-part handlers (`EndSession`:
`announce_teardown`, `stop_resuming`, queue; end of input: the same in another
order) are one action per lock. The reader goes on reading behind an `EndSession`:
`release_all` leaves a kernel session admitting calls while it runs, and a session
may be released twice, so interrupts, jobs and a second `EndSession` come after the
first. `ctrlBreak` stands for DbgEng's one pending
interrupt and carries, as history, the job it was raised for; `Poll` is a command
meeting it. A run (`pump`) need never end. External calls may fail; `failures`
remembers which kind did, and the two properties that cannot hold past such a
failure say so.

**KernelSession.** Reduced to one session, its opener, target-changing commands
(`Changes`) and `end_session` calls (`Ends`). `Named` are the calls carrying the
handle, which are gated by `accepts_handle`; the others are default-routed.
`Expire` and `ExpirePreserves` are the two halves of a deadline, which the code
takes in two steps. A call that was made behind the opener with the same budget
expires only after the opener's deadline was settled: the runtime's timers fire
in order and the model relies on it. `Early` are calls routed to the session
between its registration and its opener's submission; it is empty in the passing
runs and is what `kernel_early_command` is about. `ClaimedNothing` is the attach
returning an error before it committed. `RefusalEndsTheSession`, what the code says
of every such refusal, fails when a teardown preserved the session first and the
opener still waits; `LateRefusalEndsTheSession` is what holds: every refusal nobody
waits for, and every other one no teardown came before.

**Registry.** `open` is where the task of an open is between its lock
acquisitions. `release[i][r]` is the teardown of session `i` asked for by `r`
(a reclamation, `end_session`, the lease sweep, `shutdown`). `Opening` stands for
`Attaching` too, since nothing in the registry tells them apart; `Busy` leaves
out the execution slot. `TakeSlot` has the guards of `take_slot` only (`closing`, the
cap, the endpoint): the open of a client revoked meanwhile takes its slot all the
same and is refused by `admit`. A kernel session's own settlement is abstracted to what
`KernelSession` shows in detail. `all` is the set of registered sessions; the
order of the vector, which only eviction and the choice of a victim read, is
`elders`: for each session those registered before it.

**Batch.** Time is a counter that moves only inside engine calls. `Armed` is the
watchdog a call gets (what is left, never less than the floor) and `Slack` what
the debugger takes beyond it to interrupt and unwind: the fourth floor in
`OVERRUN_ALLOWANCE`. A step is its kind (a query, something that resumes the
target, something that names the target), its assertions (over the output, or two
engine queries) and the captures it binds and needs. Validation, recognition of
mutations in command text, clipping and rendering are left out. `TookFirst` is the
step that `probe_state`'s one ordered scan finds.

**Execution.** A run stands for its handle and its job. `StartClaim` to
`StartSubmit` is the gate; `StartPoll` and `StartRead` are the two reads of the
caller's loop, with whatever the other tasks do in between; `ReaderMilestone` is
the reader's three effects of a `Resumed` message in their order (phase, channel,
wake). `Woken` is the watch channel: a receiver is told of changes since it last
looked, which is what `NobodySleepsOnTheAnswer` depends on. The worker is what its
messages show of it; `EngineWorker` has the rest.

**Lease.** A client is an incarnation of a name, so a name that is given back is
another client. Time is ticks: a deadline is what is left of it, and `left` of a
request is what is left of `Longest`, until the request has outlasted it (`Never`).
`Lease::new` compares the grace with that figure and nothing holds a request to it,
so `Tick` does not either. `Expire`, `ReleaseLeased`, `ReleaseDone` and
`CloseAndForget` are the sweep's steps between its awaits; `Swap`, `ShutGate` and
`RevokeLease` the reload's. A request future that the connection drops before its
answer is not modelled.

**Composite.** `opening` is where `open_secure_kernel_debugger` is, `tasks` are
the teardowns in `release_tree`. Each of the two sessions is the record of what
the composite reads of it; its states are `open`, `unresolved` (`KernelUnresolved`),
`control` (`LiveControlUnresolved`), `failed` and `closed`, and the operators before
the actions are the transitions `engine.rs` has for them. A teardown is refused
outright while the attach or an earlier release is unresolved (`Refusable`), the
pump leaves the peer unresolved until its `EndSession` is answered (`ClosingKernel`)
and `settle_uncommitted` leaves a recovery state as it is, with its worker. Answers
nobody waits for are actions of their own: the attach's (`LateRefusal`,
`LateAttach`), and a release's (`LatePeer`, `LateController`). `KernelSession` has
the settlement of such a session in full. `holds`, `attached` and `up` are the truth
behind the records. `severed` is history (a teardown took the controller's service
away while the peer was still on its pipe) and so is `alone` (the reader settled the
peer with nobody waiting, and so without a look at its companion). With
`LeaseRunsOut` a sweep may come without shutting the registry's gate, which is
what a lease that runs out under the open does.

**LiveBreak.** A critical section of the `RUNNING` lock is one step; the wait's
scope gate is a variable, because the engine holds it while it takes `RUNNING`
(`Enters`, `Begins`) and the reader takes it to raise the interrupt (`WakeWait`).
`binder` is where the reader is in `request_live_break` or `stop_resuming`.

**KdLink, KdTarget.** A packet is its number; ids are the two that alternate and
one that is neither. The debugger is DbgEng's own transport, external: it repeats,
resets, closes and connects as its budget (`Allowed`) permits. `KdTarget` adds the
service on top: the reader hands the first `queued` frames of `toTarget` on, wakes
a running wait before it hands a frame over, and `Raise` is the task spawned to
raise the interrupt. Registers, memory, contexts and the byte format are left out;
a request that only reads is one `"read"`. A full queue drops the frame the reader
was about to hand over and ends the reader (`"full"`), so that frame is never
received; `ReadSoFar` counts the frames decoded and not received. A read that fails
(`ReaderFails`), an interrupt that returns an error (`RaiseFails`), a wait that ends
by its own deadline (`WaitFails`) and a delivered packet that is no manipulate
request and gets no answer are modelled. `KdLink!ChannelSpec` is the refinement:
`KdChannel` under the mapping of `Down` (what the debugger holds or has written and
the target has not taken), `Up` (what the target holds and the debugger has not
heard) and `InStep` (no reset is under way). `taken` and `heard` are the latest
numbers delivered, `takes` and `hears` count the deliveries: a number that came
twice would be counted and would not move the first.

## The runs

Every run finishes in less than four minutes on two workers.

| Run | Instance | Checks | Result |
|---|---|---|---|
| `worker` | two of a query, a run and a batch of one step with an `EndSession`, or a run or a batch with two; one interrupt, end of input at any time | `BreakStaysWithItsJob`, `MissedRunNeverStarts`, `RaisedIsReported`, `BoundCallKeepsItsTarget`, `CleanupUninterrupted`, `NoRunOutlivesTeardown`, `NoSilentBatch`, `PromiseRetracted`, `TeardownReached`, `TypeOK` | hold |
| `kernel` | an attach and two more of: a command named or default-routed, an `end_session`; or one of them under worker crash, loss of the supervisor and handoff | `KillLeavesNothing`, `ReleasedIsTrue`, `EndpointFreeIsSafe`, `OrphanKeepsKernel`, `LateReleaseSettles`, `UnresolvedUntilProven`, `LateRefusalEndsTheSession` | hold |
| `kernel_refusal_teardown` | an attach and an `end_session` | `RefusalEndsTheSession` | violated, see findings |
| `kernel_early_command` | an attach and two commands, one routed early | `KillLeavesNothing` | violated, see findings |
| `registry` | one client and one slot: three opens with calls, or two with calls and deadlines; two attaches to one endpoint with idle sweep, end, refusal, death and handoff; a kernel and a plain session with a shutdown or a revocation, and one with both; deadlines in these three | `ReclaimSparesUse`, `NeverForgotten`, `EndpointExclusive`, `ExitLeavesNothing`, `ReclaimedIsReleased`, `RevokedLetsGo` | hold |
| `kd` | two commands, and per profile two connections, two resets, two Ctrl+Breaks around two runs, a line that damages and a debugger that repeats, or a Ctrl+Break around a run with a read, an interrupt or a packet that fails | `ChannelSpec`, `BreaksAreBacked`, `BreakEndsTheRun` | hold |
| `server`, batch part | a patch and its restore with assertions and a capture, a releasing batch, and one without cleanup | `AimedAtTheTarget`, `CommittedIsWhole`, `ReserveSurvives`, `OverrunBounded`, `ReportIsTrue` | hold |
| `server`, execution part | three of: two starts, a wait, a break, an ordinary call, the worker's death | `AnswersAreTrue`, `NoCallBehindARun`, `NobodySleepsOnTheAnswer` | hold |
| `server`, composite part | one composite session and two teardowns of every kind, no lease that runs out under the open | `PeerGoesFirst`, `ControllerKept` | hold |
| `server`, live part | every script of four requests (wait, break, sealed operation, teardown) | `BoundBreakWakes`, `BreakAnswersForItsWait` | hold |
| `server`, lease part | two clients, three requests of every kind that may take any time, sweeps and one reload, a grace of two ticks | `SweepSparesQuietCalls`, `RevokedIsReleased` | hold |
| `lease_sweep` | the lease part of `server` | `SweepFindsNoCall` | violated, see findings |
| `batch_cut_short` | the batches of the `server` run | `CutShortIsTrue` | violated, see findings |
| `execution_start` | the execution part of `server` | `NeverMovedIsTrue` | violated, see findings |
| `composite_ended` | one composite session, two teardowns | `EndedIsClosed` | violated, see findings |
| `composite_unreachable` | the same | `ControllerReachable` | violated, see findings |

`server` is over five components that share no state (no action of one reads a
variable of another). Their product would only multiply the states, so a behaviour
belongs to one of them and the others rest in an initial state; every property is
then checked over all behaviours of its own part.

In `worker`, `kernel` and `registry` a behaviour follows one of the `Scripts` of the
MC module: the requests that are sent and the outside events that may happen in it.
A script leaves out what the environment need not do and nothing that the fairness
below obliges the system to do. What one run combines is what interacts; everything
at once is out of TLC's reach, and the safety properties of these runs are proved
below with no such bound.

**Bounds and why they are enough.** The worker's hazards are between two threads and
one or two jobs: every two of a query, a run and a batch with a teardown, and a run
or a batch with two teardowns, so that a job and an interrupt are read behind an
`EndSession`. The request pipe delivers them in every order, and one interrupt may
name any of them or none. Two interrupts over fewer jobs were explored while the
model was built. Two target-changing commands are needed for an earlier one to be
forgotten; a teardown against a command and an attach is the shortest race for a
settlement, and each of the two meets a crash, a loss and a handoff. Three sessions
are needed for one to be reclaimed for a second while a third is decided; the limit
is one and the history none, so that each eviction and each reclamation happens.
In the batch the budget is twice the watchdog floor, the smallest the
worker grants, where every margin is at its edge; the reserve is then half the
budget, as in the code. Two runs of a slot are the fewest in which a handle names a
run that has been replaced. Two requests of one client and one of another let the
first open a session, the other hold an MCP session id that is not its own, and a
third request race the sweep or the reload; the grace is two ticks against calls of one, the
smallest `Lease::new` accepts. Two teardowns of a composite session are the fewest
that meet in `release_tree`, and enough for the finding. Four requests are a wait,
its break, a second wait and whatever follows. For the KD target `QueueDepth` is 3
and `DecodeFailures` 2 (the code has 3: one damaged frame less, the same control).
Its seven profiles bound the external debugger: a run that allowed two of everything
at once is out of reach, so what is combined is what interacts (Ctrl+Breaks with
runs, resets with connections and runs, damage with repetition). A failed read and a
failed interrupt are charged to the same chance as a damaged packet, and one
Ctrl+Break around one run is allowed together with one of the three.

**Symmetry.** No `SYMMETRY` set is declared, since the runs check liveness. The two
kernel sessions of `registry` differ in nothing but their name, and so do the two
plain ones: the second of each is opened only after the first (`InOrder`).

**Fairness.** `EngineWorker`: the engine thread, and a reader in the middle of a
teardown, keep running. Nothing makes a run end by itself, which is why
`TeardownReached` is worth stating. `KernelSession`: the threads and tasks of
both processes are scheduled and DbgEng returns from what it runs; no deadline,
no handoff and no failure is obliged to happen. `Registry`: runnable tasks and
threads run, and every wait has a timer (`ReleaseTimesOut`), since the code puts
a timeout on each; no client is obliged to ask and no worker to answer.
`Execution`: the runtime polls every task that can go on (starter, waiter, filing
task, reader); nothing makes the target stop, the engine thread take its next job
or a budget run out. `KdTarget`: the reader, the interrupt task and the service's
thread keep going; nothing makes the kernel stop by itself, a timeout elapse or
the debugger do anything. `ExecFairness` is a conjunct of `ServerSpec` and
constrains the execution part only: no other part changes its variables. Deadlock
is checked where a final action says that the system may rest (`Terminated`,
`Rests`, `Rest`, `Done`); `kd` turns it off, since a service that has ended and a
debugger that has spent its budget do nothing more.

## What is proved

TLAPS checks these for every value of the constants that satisfies the modules'
`ASSUME`s.

**`EngineWorkerProofs`**, from `WorkerAssumption` (the ids are distinct, `Op` gives
each job an operation). The inductive invariant `IInv` is the type, a part that ties
each shared fact to where the two threads are (`ThreadInv`), and a part about the
jobs (`JobInv`). None of the properties is inductive alone. That a break stays with
its job needs `BreakOwned`: a recorded interrupt is the running job's, and the
engine's pending break is too except in the window between release and drain, where
no job is claimed. That a seal holds needs the phases a seal can be in: an
`EndSession` is sealed from its claim on, so an interrupt read behind it is refused
by `sealed` and not by a reader that has stopped reading. That no run outlives a
teardown needs the converse of `pumping`: a run on the engine is recorded, so a
teardown that finds none can only meet one that has not claimed its pump.
`MissedBarred` and `RaisedKept` need `InOnePlace`: a request is in the pipe, with
the reader, in the queue or on the engine, and answered in no other place. From it
follow `TypeCorrect`, `BreakNeverStrays`, `SealHolds`, `NoThirdOutcome`, `BarHolds`,
`BatchTold`, `PromiseKept`, `RaiseReported` and `BoundCallSafe`: every safety
property of the `worker` run, for any number of jobs, `EndSession`s and interrupts
in any order.

**`KernelSessionProofs`**, from `KernelCalls` (the jobs and the two supervisor
messages are distinct, and `None` is no answer) and under the hypothesis
`Early = {}`: the opener is the first request a session is given. The hypothesis
is needed: without it `KillLeavesNothing` is false, which is what
`kernel_early_command` shows. There may be any number of commands and
`end_session` calls, named or default-routed, and any of the outside events. The
properties are about what the supervisor may conclude from answers that passed two
pipes and two queues, so `KInv` first says where things are. `OnePlace`: a request
is in the supervisor's queue, with the pump, in the pipe, with the reader, in the
worker's queue, on the engine or in the answer pipe, and in one of these only.
`OpenerInv`: nothing overtakes the opener, and a worker that has not read it has done
nothing. `MilestoneInv`: the commit is told before the opener is answered, so an
error that arrives in phase `Started` is a refusal before the kernel was claimed
(`AnswerInv`). `SafetyInv`: the flags of `KernelSafety` cover the kernel for as
long as the engine holds it or may still claim it, which gives
`OrphansKeepKernels`. `EndInv`: an `end_session` is behind every other request, so
its success leaves a worker with nothing to run. `SettledInv` combines these: a
session is over when it was let go or handed over, and a killed worker held
nothing; `KillsLeaveNothing`, `ReleaseIsTrue` and `EndpointIsSafe` follow.
`ConfirmInv` says that a release the supervisor has not recorded is still on its way
to somebody who will settle it (`LateReleasesSettle`). `TakeoverInv` is the
argument of the comment at `engine.rs:788` made precise: until the kernel is
claimed the takeover on record is the latest change submitted, so when that one
was refused no other change ran or will run. `UnresolvedIsKept` is an action
property: each step out of `KernelUnresolved` is taken in a state where `KInv` says
that the kernel was let go, or is the completed handoff.

**`RegistryProofs`**, from `RegistryConstants`, with two inductive invariants, the
second relative to the first. `ReclaimSafe`: a reclaimed session's open was
delivered and nothing of it is, or comes to be, in the worker's hands.
`ReclaimInv` adds to the property that a claimed session is delivered, is not in a
state the pump forwards for, and has no opener queued; it is what keeps a call
resolved before the claim and submitted behind it from ever being forwarded.
`KeepInv` carries the other three. `WorkerInv` and `LetGoInv` relate the truth (a
worker that is up, a target that is held) to what the supervisor believes (the
process handle, the verified release): a held target has an owned worker, and a
registered kernel without a process handle was verifiably let go. `AdmissionInv`
says what may be outside the registry: what was never admitted, what was refused
and what has been let go; `KeptSessions` is its contrapositive. `ExclusiveInv` is
the reservation check as a state invariant: of the registered sessions at one
endpoint at most one is live or owns a process, and with the two before it that
gives `OneController`. `ExitInv` says that from `closing` on every session with a
process is owed a release by shutdown, and what a paid one leaves behind;
`NothingLeft` follows once all are paid.

**`BatchProofs`**, from `BatchConstants` (the unwinding takes no more than a
floor, the reserve is at least one and the budget at least two: `MIN_BATCH_MS`
and `batch_budget`). `OverrunHolds` and `ReserveHolds` rest on `TimeInv`: a call
is only started before its block's deadline, so a block ends less than one floor
and one unwinding after it, and only the probe comes on top. `AimHolds` rests on
`AimInv`: another target is noticed in the step that brought it, by the reading
between its action and its assertions, and is on record from the end of that
step, which stops the steps and withholds the cleanup. `CommitHolds` and
`ReportHolds` rest on `ReportInv` beside it, for plans of any length. `Counted`:
every step of a block is reported once and in order. `WholeInv`: an outcome that
is still `Committed` has only whole steps behind it, and no break once the seal
is taken. `GoneInv`: at most one entry says that its step ended the target, and the
batch remembers it. `CleanInv`: a target lost before the cleanup leaves every
cleanup step skipped. `AfterInv`: what is said of the session is said once. That
`TookFirst` is one of the steps that may have taken the target needs a least
element of a set of positions, taken from the well-foundedness of the naturals.

**`ExecutionProofs`**, from `ExecutionConstants` (`None` is no run, call or
answer), for any number of starts, waits, breaks and calls. `TheAnswersAreTrue`
is about handles that outlive their run, and `ExecInv` follows the truth of a
run's end from the worker to the caller: a `Done` message carries how its run
ended (`EndInv`), the filing task files that or the loss of the worker
(`SlotInv`), and what a wait or a break answered is true of the run it was made
for although the slot has moved on (`AnswerInv`); `MovedInv` is the same for the
milestone. `CallsGoAheadOfRuns` needs `StartInv` and `QueueInv`: a run that was
claimed and not yet submitted has the gate and is known to nobody else, and a run
in the worker's queue is its last job and has the slot, so a call that finds the
slot free is never behind one.

**`LeaseProofs`**, from `LeaseConstants` (a grace is longer than the longest quiet
call, as `Lease::new` insists). `QuietWhenSwept`: no request of a configured client
that has taken no longer than `Longest` is being served while its sessions are
released; of a longer one it says nothing, and `lease_sweep` shows why. The property
says nothing of the time before the sweep; `QuietInv` does: the deadline of a served
request's client, if it runs, is further away than what is left of the request's
`Longest`, which every renewal restores and every tick keeps. `RevokedHandled`: a
revoked client's sessions always have somebody who will release them. It needs
`GateInv`: the gate is shut before the lease is revoked, so what the sweeper finds of
a revoked client is all there will ever be. Both hold for any number of clients,
requests and reloads.

**`SecureKernelProofs`** on `Composite`, for any number of teardowns.
`PeerFirst`, under the hypothesis `~LeaseRunsOut`: no teardown takes the controller's
service from under its attached peer. With a lease that runs out under the open it is
false (see the observations). `CInv` says what each stage of the open implies
(`OpenInv`), that a peer on the pipe is linked and has its worker and that an attach
still pending under a returned handle is unresolved (`PeerInv`), and that a teardown
of the public session found it linked (`TaskInv`). `SInv` adds the argument: a
teardown comes to the controller, or leaves an `EndSession` behind there, only when
its pipe is `Cut`, with nobody on it and nobody to come. That takes a worker known to
be gone, a gate that was shut before anybody was linked, a controller already
revealed or a service already over, and no step takes any of these back.
`Kept`, with or without such a lease: a controller that holds its target, with its
service over and nobody at work on it, has a handle that `end_session` accepts, unless
the reader settled the peer with nobody waiting (`alone`). The exception is the
counterexample of `composite_unreachable` and nothing smaller would be true: both ways
to it, a late refusal of the attach and a late confirmation of a release, strand the
controller. Its invariant `ReachInv` says what states a holding controller and its
peer can be in (`HeldInv`, `PublicInv`), and that either is closed or failed over a
held target only while the open or a teardown is still to deal with it (`ClosedInv`);
the hard part is that the teardown which is the witness changes as teardowns overtake
each other.

**`SecureKernelProofs`** on `LiveBreak`, from `LiveBreakConstants`, for every script
of requests.
`BreakWakesItsWait`: while a wait that a break is bound to is in DbgEng, the
interrupt is filed, about to be filed or about to be taken back.
`BreakSpeaksForItsWait`: a break answers for the wait it was bound to. Both follow
from `LiveInv`. `OrderInv` orders the requests: on the engine, in its queue, with
the reader, unread, each before the next, so a break is bound to a wait it
follows. `EngineInv` ties the published wait to where the engine thread is,
`StagedInv` the staged break to where the reader is between its two locks, and
`WakeInv` says who will still raise the interrupt at each of these points.

**`KdTargetProofs`**, from `KdLinkConstants` and `KdTargetConstants`, for any number
of commands, connections, resets, repetitions, damaged frames and breaks, and any
depth of the reader's queue. `LinkRefinesChannel` says that `KdLink` alone
implements `KdChannel`, and `TargetRefinesChannel` that it still does inside the
service, whose reader decodes, wakes and gives up on its own. What makes it hard is
that both ends start again with the same two ids after a reset, with old packets
still on the way. `LinkInv` (`WireIsSound`) has three parts for it. `FlowInv` holds
in step or not: in each direction the numbers on the way are in order, one is
repeated only under its own id and with no reset between the copies, and a number
that was delivered is behind the id the receiver awaits; so nothing is delivered
twice and nothing old after something new. `ResetInv` is about the debugger while it
resynchronises: it writes nothing but breaks behind its last reset, and once the
target has answered that one both ends are new and nothing old follows the answer.
`StepInv` is the alternating-bit argument for the time between: each direction is
idle, has sent and not delivered, or has delivered and not acknowledged, and no
acknowledgement of the wrong one of these is on the way. Each action is shown to
keep the three parts and to be a step of `KdChannel` or none.

`TargetBreaksAreBacked` counts: the breaks that are pending, the one that woke the
wait and the one the stop has served, against the break bytes the reader has decoded
on this connection and the service has not received, the one a full queue dropped
included. It says nothing of an interrupt already filed in DbgEng, which a stop of
the kernel's own may leave behind. The count is not inductive. A frame that is read
must take its own record with it, and which record is first depends on the order in
which the reader recorded them. `BackInv` (`TargetIsSound`) therefore keeps a
witness: a map from the pending wakes into the decoded frames, of the same kind and
in the same order, with the served break before the one that woke the wait and both
before what is pending. `WakeInv` beside it says what the reader and the waker are
in the middle of: a wait that nothing has woken leaves nothing pending unless it
defers, and only the end of the reader (a full queue or a failed read) records a
wake without a frame, behind all the others. The witness is an injection, which
gives the count.

**Only model-checked.** Liveness under fairness is out of the prover's reach:
`TeardownReached`, `LateRefusalEndsTheSession`, `ReclaimedIsReleased`, `RevokedLetsGo`,
`NobodySleepsOnTheAnswer` and `BreakEndsTheRun` stay with TLC. Every invariant,
action property and refinement that a passing run checks is also proved (`PeerGoesFirst`
without a lease that runs out, as in the `server` run).

## Findings

1. `kernel_early_command` (`engine.rs:6310`). A session is routable from its
   registration, before its opener is queued. A target-changing command routed to
   it in that window runs before the attach holds requests back; a later one is
   refused by the hold, which clears the takeover although the earlier one ran,
   and the attach's refusal then kills the worker with the target that command
   had opened. The comment at `engine.rs:788` argues that refused requests are a
   prefix.
2. `batch_cut_short` (`worker.rs:8069`). The break recorded for a batch outlives
   the step it reached, so every cleanup step after an interruption that succeeds
   is reported `cut_short`, which `structured.rs:4918` defines as a break having
   landed in that step.
3. `execution_start` (`engine.rs:3516`). The caller of a resume polls its
   milestone and then reads the slot. The reader may forward the milestone and the
   stop be filed between the two, on another thread of the runtime; the caller is
   then told that the target never moved, which the comment above the poll calls
   "the one sentence here that is simply false".
4. `composite_ended` (`engine.rs:1435`). After an attach deadline, a handoff whose
   controller release goes unconfirmed and a retried `end_session`, the session is
   answered as closed and stays `KernelUnresolved`: `finish_end` closes it only
   from `LiveControlUnresolved`, which `preserve_composite_controller` did not
   enter. Its slot and endpoint stay reserved, and the handoff that would free them
   has no process left to kill.
5. `kernel_refusal_teardown` (`engine.rs:4896`). A teardown of a session whose attach
   is pending preserves it; a refusal of the attach that reaches its waiting caller is
   then settled by `settle_uncommitted`, which leaves a recovery state as it is. The
   worker holds nothing, and only an operator's handoff frees the endpoint. The
   comment at `engine.rs:4965` says that such a refusal "claimed nothing, deadline or
   not" and that keeping it reserved "would send an operator to recover a target that
   nothing attached to"; the same refusal after the caller's deadline does end the
   session (`LateRefusalEndsTheSession`).
6. `lease_sweep` (`listen.rs:166`). The grace is compared with the worker's start and
   one call, and a request may take longer: `open_secure_kernel_debugger` makes two
   opens, a wait for the pipe and possibly a release in turn. If an earlier request
   started the clock, the sweep releases the client's sessions under it, against
   `listen.rs:371` ("no request of that credential's can still be in flight when its
   lease expires").
7. `composite_unreachable` (`engine.rs:1426`). An attach refused after its deadline
   makes the public session `Failed` without a look at its companion. If the service
   then fails too, the parent is linked, so the controller is not revealed, and
   `Failed`, so it is not preserved: the controller holds the target behind no handle,
   against `engine.rs:1415` and `3196`. A release confirmed with nobody waiting leads
   there as well, through `Closed`.

Further observations, from reading and from runs while the models were built:

- What the sweep of 6 then meets in a composite session: with `LeaseRunsOut` TLC
  refutes `PeerGoesFirst`. The sweep finds the hidden controller with no peer linked
  and releases it by itself, while the peer is admitted and attaches, since a lease
  that runs out shuts no gate. The comment at `engine.rs:4188` relies on the listener
  to refuse the client's requests; this one was admitted before. The `server` run and
  the theorem `PeerFirst` are without such a lease.
- `docs/sessions.md:294` says that a refused attach with a target-changing
  command behind it stays unresolved; the code releases it once the worker has
  refused that command too (`engine.rs:6311`).
- Being over the session limit can compound: opens counted against one another
  at `take_slot` may all find their victims busy later (`engine.rs:4465`, against
  "It does not compound" at 4533).
- A handoff whose kill fails after the release was confirmed puts the handle back
  on a closed session, which keeps its endpoint reserved.
- A session whose worker dies by itself keeps its process handle, so `trim` never
  evicts it (`engine.rs:2329`), although the history is described as bounded
  (`engine.rs:63`, `4771`).
- At exactly `MIN_BATCH_MS` the reserve survives only up to the watchdog's
  unwinding, which the comment at `batch.rs:116` does not count.
- A DELETE renews the deadline of a revoked client (`listen.rs:541`), while
  `settle` says that a revoked lease is never renewed (`listen.rs:519`); a `settle`
  that lands after `forget` makes a blank entry which is swept a grace later. The
  sessions are released all the same (`RevokedIsReleased`), a grace late.
- A service-error task that is delayed past an `end_session` puts the closed peer
  back to `LiveControlUnresolved` until the next `end_session`.
- `request_live_break` raises the interrupt before it records that it did
  (`worker.rs:1405-1431`); a wait that ends by itself in between drains nothing, and
  a second queued `sk_live_wait` starts with the stray break pending. A sealed
  operation drains at its claim, and `stop_resuming` records first.
- A wake of the reader's end (`Transport`) that is queued behind a break a wait defers
  is not seen by that wait, which then runs to its idle timeout (`kdtarget.rs`,
  `WaitWakeState::begin`); no property is stated about it.
- `consume_frame` can take the pending wake of a later Ctrl+Break when the frame of
  one already served is read; a write to a pipe the debugger has closed ends the
  service, as a disconnection during a wait does, instead of reconnecting.

## Not modelled

The components that `PROJECT.json` lists as `not_modelled`, with their reasons.
They are most of the repository's lines: `ioctl.rs`, `structured.rs`, most of
`server.rs`, `skdispatch.rs` and `sklive.rs` and the other analyses decode binary
layouts, instruction streams and debugger text, or format results. They keep no
state between calls that could be reached in a wrong order, and what could be wrong
in them is the meaning of bytes, which a small instance does not enumerate and an
abstraction would remove. More than half of the lines of the modelled files are
their unit tests and documentation.

Of the modelled ones: the JSON of the pipe; panics other than the attach's; clock
drift and timer resolution; the text of every message; a request future that its
connection drops; the KD API's memory, register and breakpoint commands; the
Secure Kernel controller's own operations between its waits; the validation of a
submitted batch.

## Plan

What is left, in order.

1. An abstract kernel session (held, released, unresolved, handed over) which
   `KernelSession` implements under a refinement mapping, and `Composite` over two
   of it.
2. The service trace of the Secure Kernel controller (arming and draining), which
   shares `WaitActivity` with `LiveBreak`, and the KD breakpoint ledger.
3. The log bridge's bounded queues.
