----------------------------- MODULE Composite -----------------------------
(***************************************************************************)
(* A composite Secure Kernel session (engine.rs): a hidden controller,     *)
(* which holds the VTL1 target and serves its KD pipe, and the public      *)
(* kernel session whose DbgEng is the peer on that pipe.  Opening is a     *)
(* sequence of two opens, ending a sequence of two releases, and the       *)
(* service fails when it likes; sweeps, idle releases, end_session and the *)
(* recovery handoff all meet in release_tree.                              *)
(*                                                                         *)
(* KernelSession has the settlement of one kernel session in full; here    *)
(* the peer is what the composite reads of it.                             *)
(***************************************************************************)
EXTENDS Naturals, FiniteSets

CONSTANTS
    Tasks,         \* teardowns: end_session, a handoff, a sweep, an idle release
    LeaseRunsOut   \* the owner's lease may run out under the open (Lease)

ASSUME CompositeConstants == LeaseRunsOut \in BOOLEAN

VARIABLES
    opening,   \* where open_secure_kernel_debugger is
    ctl,       \* the controller's Session
    peer,      \* the public Session
    hidden,    \* the controller is in Registry::hidden
    linked,    \* the two are in Registry::parents and ::companions
    shut,      \* Registry::closing, or the owner in Registry::revoked
    service,   \* the background task of serve_secure_kernel_kd
    tasks,     \* each teardown: its kind, where it is, what it answered
    holds,     \* truth: the controller's worker holds the VTL1 target
    attached,  \* truth: the peer's DbgEng is on the pipe
    up,        \* truth: the peer's worker has not died by itself
    late,      \* the sessions whose worker has an EndSession nobody waits for
    alone,     \* history: the reader settled the peer with nobody waiting
    severed    \* history: a teardown took the service from under the peer

aside == <<up, late, alone, severed>>
compositeVars == <<opening, ctl, peer, hidden, linked, shut, service, tasks, holds, attached, aside>>

IsLive(s) == s.state \notin {"none", "failed", "closed"}
AcceptsTeardown(s) == IsLive(s)
Verified(s) == s.released \/ s.handoff
\* attach: AttachKernel is pending, has opened the target, or was answered otherwise.
Unopened ==
    [state |-> "none", released |-> FALSE, handoff |-> FALSE, attach |-> "pending", child |-> FALSE]
Started == [Unopened EXCEPT !.state = "open", !.child = TRUE]
NoTask == [kind |-> "none", pc |-> "idle", of |-> "peer", answer |-> "none"]

CompositeInit ==
    /\ opening = "idle" /\ ctl = Unopened /\ peer = Unopened
    /\ hidden = FALSE /\ linked = FALSE /\ shut = FALSE
    /\ service = "none" /\ tasks = [t \in Tasks |-> NoTask]
    /\ holds = FALSE /\ attached = FALSE /\ up = FALSE
    /\ late = {} /\ alone = FALSE /\ severed = FALSE

-----------------------------------------------------------------------------
(***************************************************************************)
(* Transitions of one Session.                                             *)
(***************************************************************************)
\* preserve_kernel
PreserveKernel(s) ==
    IF Verified(s) THEN s ELSE [s EXCEPT !.state = "unresolved"]

\* preserve_live_control, and what the reader does at the controller's end of file
PreserveLiveControl(s) ==
    IF s.released THEN s ELSE [s EXCEPT !.state = "control"]

\* set_state(Closed): ordinary_move refuses it to an unreleased recovery state
MarkClosed(s) ==
    IF IsLive(s) /\ (s.released \/ s.state \notin {"unresolved", "control"})
    THEN [s EXCEPT !.state = "closed"] ELSE s

\* Mutant: a settled state never moves.
OnlyFromALiveState(s) == IF s.state \in {"open", "control"} THEN [s EXCEPT !.state = "control"] ELSE s

\* preserve_composite_controller
PreserveComposite(s) ==
    IF \/ s.state = "open"
       \/ s.state = "control"
       \/ s.state = "closed" /\ Verified(s)
    THEN [s EXCEPT !.state = "control"] ELSE s

\* finish_end
FinishEnd(s) ==
    IF s.state = "control" /\ Verified(s) THEN [s EXCEPT !.state = "closed"] ELSE s

\* fail_unclaimed, and the kill if it moved: the attach was refused before it committed
FailUnclaimed(s) ==
    IF IsLive(s) THEN [s EXCEPT !.released = TRUE, !.child = FALSE, !.state = "failed"]
    ELSE [s EXCEPT !.released = TRUE]

\* settle_uncommitted: a recovery state is left as it is, with its worker
SettleUncommitted(s) == IF s.state \in {"unresolved", "control"} THEN s ELSE FailUnclaimed(s)

\* The pump, at the front of the queue: an end_session closes what it sends
ClosingKernel(s) == IF IsLive(s) THEN [s EXCEPT !.state = "unresolved"] ELSE s

\* release, once the worker has confirmed
Confirmed(s) == [MarkClosed([s EXCEPT !.released = TRUE]) EXCEPT !.child = FALSE]

\* release, when it failed and another teardown had the confirmation
Gone(s) == [s EXCEPT !.child = FALSE]

-----------------------------------------------------------------------------
(***************************************************************************)
(* open_secure_kernel_debugger.                                            *)
(***************************************************************************)
\* The controller is opened hidden and its service is spawned; or it fails
\* and leaves nothing; or it fails with a handle, and is revealed.
OpenController ==
    /\ opening = "idle" /\ ~shut
    /\ \/ /\ ctl' = Started
          /\ hidden' = TRUE /\ holds' = TRUE
          /\ service' = "serving" /\ opening' = "pipe"
       \/ /\ ctl' = [Unopened EXCEPT !.state = "failed"]
          /\ opening' = "returned"
          /\ UNCHANGED <<hidden, holds, service>>
       \/ /\ ctl' = Started
          /\ holds' = TRUE /\ hidden' = FALSE
          /\ opening' = "returned"
          /\ UNCHANGED service
    /\ UNCHANGED <<peer, linked, shut, tasks, attached, aside>>

\* The facade answers on its pipe, whatever the supervisor thinks of it.
Serving == holds /\ service = "serving"

\* wait_for_secure_kernel_kd_pipe: the service is waiting for its peer; or
\* the deadline passed, or the state says that it never will.
PipeReady ==
    /\ opening = "pipe"
    /\ \/ Serving /\ ctl.state = "open" /\ opening' = "admit"
       \/ opening' = "undo"
    /\ UNCHANGED <<ctl, peer, hidden, linked, shut, service, tasks, holds, attached, aside>>

\* Mutant: the gate is only read when the open begins.
AdmitsBehindTheSweep == hidden

\* admit_with_companion: the registry is still open to this owner, and
\* link_companion still finds the controller hidden.
MayAdmit == ~shut /\ hidden

AdmitPeer ==
    /\ opening = "admit"
    /\ IF MayAdmit
       THEN peer' = Started /\ up' = TRUE /\ linked' = TRUE /\ opening' = "attach"
       ELSE opening' = "undo" /\ UNCHANGED <<peer, up, linked>>
    /\ UNCHANGED <<ctl, hidden, shut, service, tasks, holds, attached, late, alone, severed>>

Alive == up /\ peer.child

\* AttachKernel is answered, or its deadline passes.  A refusal before the
\* attach committed, and a worker lost before it, return no handle; what
\* committed and did not stop, and a deadline, preserve the session.
AttachAnswered ==
    /\ opening = "attach"
    /\ \/ /\ Serving /\ Alive
          /\ peer' = [peer EXCEPT !.attach = "opened"]
          /\ attached' = TRUE /\ opening' = "returned"
       \/ /\ \/ peer' = [SettleUncommitted(peer) EXCEPT !.attach = "over"]
             \/ ~IsLive(peer) /\ peer' = [peer EXCEPT !.attach = "over"]
          /\ opening' = "undo" /\ UNCHANGED attached
       \/ /\ IsLive(peer)
          /\ peer' = [PreserveKernel(peer) EXCEPT !.attach = "over"]
          /\ attached' \in {FALSE, Serving /\ Alive} /\ opening' = "returned"
       \/ /\ peer' = PreserveKernel(peer)
          /\ opening' = "returned" /\ UNCHANGED attached
    /\ UNCHANGED <<ctl, hidden, linked, shut, service, tasks, holds, aside>>

\* settle_open: the answer to an attach whose caller has gone.
Unsettled == opening = "returned" /\ peer.attach = "pending" /\ Alive

LateRefusal ==
    /\ Unsettled
    /\ peer' = [FailUnclaimed(peer) EXCEPT !.attach = "over"]
    /\ alone' = TRUE
    /\ UNCHANGED <<opening, ctl, hidden, linked, shut, service, tasks, holds, attached, up, late,
                   severed>>

LateAttach ==
    /\ Unsettled /\ Serving
    /\ attached' = TRUE
    /\ \E answer \in {"opened", "over"} : peer' = [peer EXCEPT !.attach = answer]
    /\ UNCHANGED <<opening, ctl, hidden, linked, shut, service, tasks, holds, aside>>

\* release of the controller: the worker confirms, and its service is over;
\* or another teardown had the confirmation; or there is none, and it may
\* still come.
ControllerConfirms ==
    /\ ctl.child
    /\ ctl' = Confirmed(ctl)
    /\ holds' = FALSE /\ severed' = (severed \/ attached)
    /\ service' = IF service = "serving" THEN "over" ELSE service
    /\ UNCHANGED late

ControllerGone ==
    /\ ctl.released
    /\ ctl' = Gone(ctl) /\ UNCHANGED <<holds, severed, service, late>>

ControllerUnconfirmed ==
    /\ ~ctl.released
    /\ ctl' = PreserveLiveControl(ctl) /\ late' \in {late, late \cup {"ctl"}}
    /\ UNCHANGED <<holds, severed, service>>

\* The open gives up: the controller is released, or revealed.
Undo ==
    /\ opening = "undo" /\ opening' = "returned"
    /\ \/ (ControllerConfirms \/ ControllerGone) /\ UNCHANGED hidden
       \/ ControllerUnconfirmed /\ hidden' = FALSE
    /\ UNCHANGED <<peer, linked, shut, tasks, attached, up, alone>>

-----------------------------------------------------------------------------
(***************************************************************************)
(* The service and the workers.                                            *)
(***************************************************************************)
\* The service ends on a bound of its own and its worker restores the target.
ServiceReleases ==
    /\ service = "serving" /\ holds
    /\ service' = "over" /\ holds' = FALSE /\ attached' = FALSE
    /\ ctl' = [ctl EXCEPT !.released = TRUE,
                          !.state = IF ctl.state = "control" THEN "open" ELSE ctl.state]
    /\ UNCHANGED <<opening, peer, hidden, linked, shut, tasks, aside>>

\* The call of the service fails: the cleanup did, or the worker died.
ServiceFails ==
    /\ service = "serving" /\ holds
    /\ service' = "failing" /\ attached' = FALSE
    /\ UNCHANGED <<opening, ctl, peer, hidden, linked, shut, tasks, holds, aside>>

\* The background task: preserve_live_control ...
ServicePreserves ==
    /\ service = "failing"
    /\ ctl' = PreserveLiveControl(ctl) /\ service' = "orphaned"
    /\ UNCHANGED <<opening, peer, hidden, linked, shut, tasks, holds, attached, aside>>

\* ... then preserve_failed_companion: the parent is read, and told, or the
\* controller is revealed.
TellParent ==
    IF linked THEN peer' = PreserveComposite(peer) /\ UNCHANGED hidden
              ELSE hidden' = FALSE /\ UNCHANGED peer

ServiceReports ==
    /\ service = "orphaned"
    /\ service' = "over" /\ TellParent
    /\ UNCHANGED <<opening, ctl, linked, shut, tasks, holds, attached, aside>>

\* The peer's worker dies: the reader's end of file.
PeerDies ==
    /\ Alive
    /\ up' = FALSE /\ attached' = FALSE
    /\ peer' = IF ~IsLive(peer) THEN peer
               ELSE IF peer.released THEN MarkClosed(peer) ELSE PreserveKernel(peer)
    /\ UNCHANGED <<opening, ctl, hidden, linked, shut, service, tasks, holds, late, alone, severed>>

\* The reader: a release that is confirmed with nobody waiting any more.
LatePeer ==
    /\ "peer" \in late /\ Alive /\ ~peer.released
    /\ peer' = Confirmed(peer) /\ attached' = FALSE
    /\ late' = late \ {"peer"} /\ alone' = TRUE
    /\ UNCHANGED <<opening, ctl, hidden, linked, shut, service, tasks, holds, up, severed>>

LateController ==
    /\ "ctl" \in late /\ ~ctl.released /\ ctl.child
    /\ ctl' = Confirmed(ctl)
    /\ holds' = FALSE /\ severed' = (severed \/ attached)
    /\ service' = IF service = "serving" THEN "over" ELSE service
    /\ late' = late \ {"ctl"}
    /\ UNCHANGED <<opening, peer, hidden, linked, shut, tasks, attached, up, alone>>

-----------------------------------------------------------------------------
(***************************************************************************)
(* Teardowns.                                                              *)
(***************************************************************************)
At(t, pc) == [tasks EXCEPT ![t].pc = pc]
Answer(t, a) == [tasks EXCEPT ![t].pc = "done", ![t].answer = a]

\* end_session and the idle release of the public session: release_tree
\* finds the companion, and skips a peer that is known to be gone.
PeerGone == linked /\ Verified(peer) /\ ~peer.child
First == IF PeerGone THEN "companion" ELSE "peer"

EndPeer(t) ==
    /\ tasks[t].pc = "idle" /\ AcceptsTeardown(peer)
    /\ tasks' = [tasks EXCEPT ![t] = [NoTask EXCEPT !.kind = "end", !.pc = First]]
    /\ UNCHANGED <<opening, ctl, peer, hidden, linked, shut, service, holds, attached, aside>>

IdlePeer(t) ==
    /\ tasks[t].pc = "idle" /\ IsLive(peer) /\ opening = "returned"
    /\ peer' = MarkClosed(peer)
    /\ tasks' = [tasks EXCEPT ![t] = [NoTask EXCEPT !.kind = "idle", !.pc = First]]
    /\ UNCHANGED <<opening, ctl, hidden, linked, shut, service, holds, attached, aside>>

\* end_session of a controller that was revealed, and the idle release of
\* one that has no parent and serves nobody.
EndController(t) ==
    /\ tasks[t].pc = "idle" /\ ~hidden /\ AcceptsTeardown(ctl)
    /\ tasks' = [tasks EXCEPT ![t] = [NoTask EXCEPT !.kind = "end", !.pc = "companion", !.of = "ctl"]]
    /\ UNCHANGED <<opening, ctl, peer, hidden, linked, shut, service, holds, attached, aside>>

IdleController(t) ==
    /\ tasks[t].pc = "idle" /\ IsLive(ctl) /\ ~linked /\ service # "serving"
    /\ ctl' = MarkClosed(ctl)
    /\ tasks' = [tasks EXCEPT ![t] = [NoTask EXCEPT !.kind = "idle", !.pc = "companion", !.of = "ctl"]]
    /\ UNCHANGED <<opening, peer, hidden, linked, shut, service, holds, attached, aside>>

\* release_workers_of: the owning workers are read, in one step with the
\* shutting of the gate by a shutdown, and behind it after a revocation; a
\* lease that runs out shuts nothing.  A linked controller goes with its
\* parent, and a kernel session is not marked.
Gating == IF LeaseRunsOut THEN {shut, TRUE} ELSE {TRUE}

SweepWorkers(t) ==
    /\ tasks[t].pc = "idle" /\ (ctl.child \/ peer.child)
    /\ shut' \in Gating
    /\ IF linked
       THEN /\ tasks' = [tasks EXCEPT ![t] = [NoTask EXCEPT !.kind = "sweep", !.pc = First]]
            /\ UNCHANGED ctl
       ELSE /\ tasks' = [tasks EXCEPT ![t] =
                            [NoTask EXCEPT !.kind = "sweep", !.pc = "companion", !.of = "ctl"]]
            /\ ctl' = MarkClosed(ctl)
    /\ UNCHANGED <<opening, peer, hidden, linked, service, holds, attached, aside>>

\* kernel_handoff: the worker is killed, or will not be.
Handoff(t) ==
    /\ tasks[t].pc = "idle" /\ peer.state = "unresolved" /\ peer.child
    /\ \/ /\ peer' = [peer EXCEPT !.handoff = TRUE, !.child = FALSE]
          /\ attached' = FALSE
          /\ tasks' = [tasks EXCEPT ![t] = [NoTask EXCEPT !.kind = "handoff", !.pc = "companion"]]
       \/ /\ tasks' = [tasks EXCEPT ![t] =
                          [NoTask EXCEPT !.kind = "handoff", !.pc = "done", !.answer = "recovery"]]
          /\ UNCHANGED <<peer, attached>>
    /\ UNCHANGED <<opening, ctl, hidden, linked, shut, service, holds, aside>>

\* release of the peer: refused outright while its attach or an earlier
\* release is unresolved; the tree stops there, as it does at a release that
\* was not confirmed.
Refusable == ~peer.released /\ (peer.state = "unresolved" \/ peer.attach # "opened")

SendPeer(t) ==
    /\ tasks[t].pc = "peer"
    /\ IF Refusable
       THEN peer' = PreserveKernel(peer) /\ tasks' = Answer(t, "recovery")
       ELSE UNCHANGED peer /\ tasks' = At(t, "queued")
    /\ UNCHANGED <<opening, ctl, hidden, linked, shut, service, holds, attached, aside>>

\* What follows the release of the peer.
AfterPeer(t) == IF linked THEN At(t, "companion") ELSE At(t, "finish")
TreeStops(t) == Answer(t, "recovery")
PeerWasReleased(t) == peer.released /\ peer' = Gone(peer) /\ tasks' = AfterPeer(t)
PeerPreserved(t) == ~peer.released /\ peer' = PreserveKernel(peer) /\ tasks' = TreeStops(t)

\* The pump: a session that became unresolved meanwhile is sent nothing, an
\* end_session of one that was ended is stale, and any other end_session
\* leaves the peer unresolved until it is answered.
PumpPeer(t) ==
    /\ tasks[t].pc = "queued"
    /\ \/ peer.state = "unresolved" /\ (PeerWasReleased(t) \/ PeerPreserved(t))
       \/ /\ peer.state # "unresolved"
          /\ IF tasks[t].kind = "end" /\ ~AcceptsTeardown(peer)
             THEN UNCHANGED peer /\ tasks' = Answer(t, "stale")
             ELSE /\ peer' = IF tasks[t].kind = "end" THEN ClosingKernel(peer) ELSE peer
                  /\ tasks' = At(t, "released")
    /\ UNCHANGED <<opening, ctl, hidden, linked, shut, service, holds, attached, aside>>

PeerReleased(t) ==
    /\ tasks[t].pc = "released"
    /\ \/ /\ Alive
          /\ peer' = Confirmed(peer) /\ attached' = FALSE
          /\ tasks' = AfterPeer(t) /\ UNCHANGED late
       \/ PeerPreserved(t) /\ late' \in {late, late \cup {"peer"}} /\ UNCHANGED attached
       \/ PeerWasReleased(t) /\ UNCHANGED <<attached, late>>
    /\ UNCHANGED <<opening, ctl, hidden, linked, shut, service, holds, up, alone, severed>>

\* The companion, or a controller of its own; an end_session of one that was
\* ended meanwhile is stale.
ControllerReleased(t) ==
    /\ tasks[t].pc = "companion"
    /\ \/ (ControllerConfirms \/ ControllerGone) /\ tasks' = At(t, "finish")
       \/ ControllerUnconfirmed /\ tasks' = At(t, "preserve")
    /\ UNCHANGED <<opening, peer, hidden, linked, shut, attached, up, alone>>

ControllerStale(t) ==
    /\ tasks[t].pc = "companion" /\ tasks[t].of = "ctl" /\ tasks[t].kind = "end"
    /\ ~AcceptsTeardown(ctl)
    /\ tasks' = Answer(t, "stale")
    /\ UNCHANGED <<opening, ctl, peer, hidden, linked, shut, service, holds, attached, aside>>

\* The companion was preserved: the public session is told.
Preserve(t) ==
    /\ tasks[t].pc = "preserve"
    /\ peer' = IF tasks[t].of = "peer" THEN PreserveComposite(peer) ELSE peer
    /\ tasks' = Answer(t, "recovery")
    /\ UNCHANGED <<opening, ctl, hidden, linked, shut, service, holds, attached, aside>>

\* Nothing was preserved: end_session and the handoff close the session.
Conclude(t) ==
    /\ tasks[t].pc = "finish"
    /\ tasks' = Answer(t, "closed")
    /\ peer' = CASE tasks[t].of = "ctl" -> peer
                 [] tasks[t].kind = "end" -> FinishEnd(peer)
                 [] tasks[t].kind = "handoff" /\ IsLive(peer) -> [peer EXCEPT !.state = "closed"]
                 [] OTHER -> peer
    /\ UNCHANGED <<opening, ctl, hidden, linked, shut, service, holds, attached, aside>>

TeardownStep(t) ==
    \/ EndPeer(t) \/ IdlePeer(t) \/ EndController(t) \/ IdleController(t)
    \/ SweepWorkers(t) \/ Handoff(t)
    \/ SendPeer(t) \/ PumpPeer(t) \/ PeerReleased(t)
    \/ ControllerReleased(t) \/ ControllerStale(t) \/ Preserve(t) \/ Conclude(t)

CompositeNext ==
    \/ OpenController \/ PipeReady \/ AdmitPeer \/ AttachAnswered \/ LateRefusal \/ LateAttach
    \/ Undo \/ ServiceReleases \/ ServiceFails \/ ServicePreserves \/ ServiceReports
    \/ PeerDies \/ LatePeer \/ LateController
    \/ \E t \in Tasks : TeardownStep(t)

CompositeSpec == CompositeInit /\ [][CompositeNext]_compositeVars

-----------------------------------------------------------------------------
(***************************************************************************)
(* Properties.                                                             *)
(***************************************************************************)
\* No teardown takes the service from under an attached peer: the public
\* worker has let go, or is known to be gone, before the controller is asked
\* (release_tree), whichever of the open and the sweeps came first.  It does
\* not hold when the owner's lease runs out under the open (LeaseRunsOut).
PeerGoesFirst == ~severed

AtRest == \A t \in Tasks : tasks[t].pc \in {"idle", "done"}

\* Somebody is still going to deal with the controller.
InHand ==
    \/ opening # "returned"
    \/ service \in {"serving", "failing", "orphaned"}
    \/ ~AtRest

\* Its own handle, once it is revealed, or its parent's.
HasAHandle == (~hidden /\ AcceptsTeardown(ctl)) \/ (linked /\ AcceptsTeardown(peer))

\* A controller that holds its target, with its service over and nobody at
\* work on it, has a handle that end_session accepts.
ControllerReachable == holds /\ ~InHand => HasAHandle

\* It has one whatever the open, the service's failure, the sweeps and the
\* teardowns did, unless the reader settled the peer with nobody waiting: the
\* late refusal of its attach, or the late confirmation of its release.
ControllerKept == holds /\ ~InHand /\ ~alone => HasAHandle

\* A caller who is told that the session is closed, with no other teardown
\* under way, finds it closed, its slot and its endpoint given back, and not
\* waiting for a handoff that can no longer be made.
EndedIsClosed ==
    AtRest => \A t \in Tasks :
        (tasks[t].kind = "end" /\ tasks[t].of = "peer" /\ tasks[t].answer = "closed")
            => peer.state # "unresolved"
=============================================================================
