------------------------- MODULE SecureKernelProofs -------------------------
(***************************************************************************)
(* What is proved of a Secure Kernel session.  Of a composite session, for *)
(* any number of teardowns: while no lease runs out under the open, none   *)
(* takes its service from under its attached peer; and none leaves a       *)
(* controller that holds its target out of reach, unless the reader        *)
(* settled the peer with nobody waiting.                                   *)
(* Of sk_live_break against sk_live_wait, for every sequence of requests,  *)
(* however long: a break wakes the wait it was bound to and answers for no *)
(* other.                                                                  *)
(***************************************************************************)
EXTENDS Composite, LiveBreak, TLAPS

-----------------------------------------------------------------------------
(* The composite session.  The inductive invariant.                         *)

States == {"none", "open", "unresolved", "control", "failed", "closed"}
SessionType ==
    [state : States, released : BOOLEAN, handoff : BOOLEAN,
     attach : {"pending", "opened", "over"}, child : BOOLEAN]
TaskType ==
    [kind : {"none", "end", "idle", "sweep", "handoff"},
     pc : {"idle", "peer", "queued", "released", "companion", "preserve", "finish", "done"},
     of : {"peer", "ctl"},
     answer : {"none", "recovery", "stale", "closed"}]

CompositeTypeOK ==
    /\ opening \in {"idle", "pipe", "admit", "attach", "undo", "returned"}
    /\ ctl \in SessionType /\ peer \in SessionType
    /\ hidden \in BOOLEAN /\ linked \in BOOLEAN /\ shut \in BOOLEAN
    /\ service \in {"none", "serving", "failing", "orphaned", "over"}
    /\ tasks \in [Tasks -> TaskType]
    /\ holds \in BOOLEAN /\ attached \in BOOLEAN /\ severed \in BOOLEAN
    /\ up \in BOOLEAN /\ late \in SUBSET {"peer", "ctl"} /\ alone \in BOOLEAN

\* How far the open has come says what there is.
OpenInv ==
    /\ opening = "idle" =>
         /\ ctl = Unopened /\ ~hidden /\ service = "none" /\ late = {}
         /\ \A t \in Tasks : tasks[t].pc = "idle"
    /\ opening \in {"idle", "pipe", "admit"} => ~linked
    /\ opening = "attach" => linked /\ peer.attach = "pending"
    /\ opening = "undo" /\ linked => peer.attach # "pending"
    /\ ~linked => peer = Unopened

\* A peer on the pipe is one whose worker nobody has let go of; one whose
\* attach is not settled is live until then, and its controller is hidden.
PeerInv ==
    /\ attached => linked /\ peer.child /\ peer.attach # "pending" /\ opening = "returned"
    /\ Verified(peer) => ~peer.child
    /\ linked /\ ~hidden => peer.attach # "pending"
    /\ linked /\ peer.attach = "pending" /\ peer.child =>
         \/ peer.state = "unresolved"
         \/ opening = "attach" /\ peer.state \in {"open", "control"}

\* A teardown of the public session has found it linked, and a handoff went
\* on once it had the worker killed.
TaskInv ==
    \A t \in Tasks :
        /\ tasks[t].pc \in {"peer", "queued", "released"} => linked /\ tasks[t].of = "peer"
        /\ tasks[t].kind = "handoff" => tasks[t].pc = "done" \/ peer.handoff

CInv == CompositeTypeOK /\ OpenInv /\ PeerInv /\ TaskInv

\* Where each settlement of a session leaves it.
Fields(u, state, released, handoff, attach, child) ==
    /\ u \in SessionType
    /\ u.state = state /\ u.released = released /\ u.handoff = handoff
    /\ u.attach = attach /\ u.child = child

\* A settlement that only moves the session's state.
OnlyState(u, s, state) == Fields(u, state, s.released, s.handoff, s.attach, s.child)

\* What preserving, closing and ending a session do to its state, and that
\* they leave the rest of it alone.
LEMMA Moves ==
    ASSUME NEW s \in SessionType
    PROVE  /\ OnlyState(PreserveKernel(s), s, IF Verified(s) THEN s.state ELSE "unresolved")
           /\ OnlyState(PreserveLiveControl(s), s, IF s.released THEN s.state ELSE "control")
           /\ OnlyState(MarkClosed(s), s,
                        IF IsLive(s) /\ (s.released \/ s.state \notin {"unresolved", "control"})
                        THEN "closed" ELSE s.state)
           /\ OnlyState(PreserveComposite(s), s,
                        IF s.state \in {"open", "control"} \/ (s.state = "closed" /\ Verified(s))
                        THEN "control" ELSE s.state)
           /\ OnlyState(FinishEnd(s), s,
                        IF s.state = "control" /\ Verified(s) THEN "closed" ELSE s.state)
           /\ OnlyState(ClosingKernel(s), s, IF IsLive(s) THEN "unresolved" ELSE s.state)
           /\ OnlyState([s EXCEPT !.state = "closed"], s, "closed")
  <1> USE DEF OnlyState, Fields, SessionType, States
  <1>1. OnlyState(PreserveKernel(s), s, IF Verified(s) THEN s.state ELSE "unresolved")
    BY DEF PreserveKernel
  <1>2. OnlyState(PreserveLiveControl(s), s, IF s.released THEN s.state ELSE "control")
    BY DEF PreserveLiveControl
  <1>3. OnlyState(MarkClosed(s), s,
                  IF IsLive(s) /\ (s.released \/ s.state \notin {"unresolved", "control"})
                  THEN "closed" ELSE s.state)
    BY DEF MarkClosed
  <1>4. OnlyState(PreserveComposite(s), s,
                  IF s.state \in {"open", "control"} \/ (s.state = "closed" /\ Verified(s))
                  THEN "control" ELSE s.state)
    BY DEF PreserveComposite
  <1>5. OnlyState(FinishEnd(s), s, IF s.state = "control" /\ Verified(s) THEN "closed" ELSE s.state)
    BY DEF FinishEnd
  <1>6. OnlyState(ClosingKernel(s), s, IF IsLive(s) THEN "unresolved" ELSE s.state)
    BY DEF ClosingKernel
  <1>7. OnlyState([s EXCEPT !.state = "closed"], s, "closed")
    OBVIOUS
  <1>8. QED
    BY <1>1, <1>2, <1>3, <1>4, <1>5, <1>6, <1>7

\* What a refused attach, a confirmed release and a handoff do to a session.
LEMMA Ends ==
    ASSUME NEW s \in SessionType
    PROVE  /\ Fields(FailUnclaimed(s), IF IsLive(s) THEN "failed" ELSE s.state, TRUE, s.handoff,
                     s.attach, IF IsLive(s) THEN FALSE ELSE s.child)
           /\ Fields(Confirmed(s), IF IsLive(s) THEN "closed" ELSE s.state, TRUE, s.handoff,
                     s.attach, FALSE)
           /\ Fields(Gone(s), s.state, s.released, s.handoff, s.attach, FALSE)
           /\ Fields([s EXCEPT !.handoff = TRUE, !.child = FALSE], s.state, s.released, TRUE,
                     s.attach, FALSE)
           /\ \A a \in {"opened", "over"} :
                Fields([s EXCEPT !.attach = a], s.state, s.released, s.handoff, a, s.child)
  <1>1. Fields(FailUnclaimed(s), IF IsLive(s) THEN "failed" ELSE s.state, TRUE, s.handoff,
               s.attach, IF IsLive(s) THEN FALSE ELSE s.child)
    BY DEF Fields, FailUnclaimed, SessionType, States
  <1>2. Fields(Confirmed(s), IF IsLive(s) THEN "closed" ELSE s.state, TRUE, s.handoff, s.attach, FALSE)
    <2> DEFINE r == [s EXCEPT !.released = TRUE]
    <2>1. Fields(r, s.state, TRUE, s.handoff, s.attach, s.child)
      BY DEF Fields, SessionType
    <2>2. Fields(MarkClosed(r), IF IsLive(s) THEN "closed" ELSE s.state, TRUE, s.handoff,
                 s.attach, s.child)
      BY <2>1 DEF Fields, MarkClosed, IsLive, SessionType, States
    <2>3. Confirmed(s) = [MarkClosed(r) EXCEPT !.child = FALSE]
      BY DEF Confirmed
    <2> HIDE DEF r
    <2>4. QED
      BY <2>2, <2>3 DEF Fields, SessionType
  <1>3. Fields(Gone(s), s.state, s.released, s.handoff, s.attach, FALSE)
    BY DEF Fields, Gone, SessionType
  <1>4. /\ Fields([s EXCEPT !.handoff = TRUE, !.child = FALSE], s.state, s.released, TRUE,
                  s.attach, FALSE)
        /\ \A a \in {"opened", "over"} :
             Fields([s EXCEPT !.attach = a], s.state, s.released, s.handoff, a, s.child)
    BY DEF Fields, SessionType
  <1>5. QED
    BY <1>1, <1>2, <1>3, <1>4

\* All of these are sessions.
LEMMA Sessions ==
    ASSUME NEW s \in SessionType
    PROVE  /\ PreserveKernel(s) \in SessionType /\ PreserveLiveControl(s) \in SessionType
           /\ MarkClosed(s) \in SessionType /\ PreserveComposite(s) \in SessionType
           /\ FinishEnd(s) \in SessionType /\ ClosingKernel(s) \in SessionType
           /\ FailUnclaimed(s) \in SessionType /\ Confirmed(s) \in SessionType
           /\ Gone(s) \in SessionType
  <1>1. /\ PreserveKernel(s) \in SessionType /\ PreserveLiveControl(s) \in SessionType
        /\ MarkClosed(s) \in SessionType /\ PreserveComposite(s) \in SessionType
        /\ FinishEnd(s) \in SessionType /\ ClosingKernel(s) \in SessionType
    BY Moves DEF OnlyState, Fields
  <1>2. FailUnclaimed(s) \in SessionType /\ Confirmed(s) \in SessionType /\ Gone(s) \in SessionType
    BY Ends DEF Fields
  <1>3. QED
    BY <1>1, <1>2

\* Which of them let go of the worker.
LEMMA Workers ==
    ASSUME NEW s \in SessionType
    PROVE  /\ PreserveKernel(s).child = s.child /\ MarkClosed(s).child = s.child
           /\ PreserveComposite(s).child = s.child /\ FinishEnd(s).child = s.child
           /\ ClosingKernel(s).child = s.child /\ [s EXCEPT !.state = "closed"].child = s.child
           /\ FailUnclaimed(s).child => s.child
           /\ ~Confirmed(s).child /\ ~Gone(s).child
           /\ ~[s EXCEPT !.handoff = TRUE, !.child = FALSE].child
           /\ \A a \in {"opened", "over"} : [s EXCEPT !.attach = a].child = s.child
  <1>1. /\ PreserveKernel(s).child = s.child /\ MarkClosed(s).child = s.child
        /\ PreserveComposite(s).child = s.child /\ FinishEnd(s).child = s.child
        /\ ClosingKernel(s).child = s.child /\ [s EXCEPT !.state = "closed"].child = s.child
    BY Moves DEF OnlyState, Fields
  <1>2. FailUnclaimed(s).child => s.child
    BY DEF FailUnclaimed, SessionType
  <1>3. ~Confirmed(s).child /\ ~Gone(s).child
    BY Ends DEF Fields
  <1>4. /\ ~[s EXCEPT !.handoff = TRUE, !.child = FALSE].child
        /\ \A a \in {"opened", "over"} : [s EXCEPT !.attach = a].child = s.child
    BY DEF SessionType
  <1>5. QED
    BY <1>1, <1>2, <1>3, <1>4

\* A session that was never opened is neither preserved nor ended.
LEMMA NoneStays ==
    PreserveComposite(Unopened) = Unopened /\ FinishEnd(Unopened) = Unopened
  BY DEF PreserveComposite, FinishEnd, Unopened

\* The records the open writes are sessions.
LEMMA Shapes ==
    /\ Fields(Unopened, "none", FALSE, FALSE, "pending", FALSE)
    /\ Fields(Started, "open", FALSE, FALSE, "pending", TRUE)
    /\ Fields([Unopened EXCEPT !.state = "failed"], "failed", FALSE, FALSE, "pending", FALSE)
  BY DEF Fields, Unopened, Started, SessionType, States

\* The records a teardown starts with are teardowns.
LEMMA TaskShapes ==
    /\ \A k \in {"end", "idle", "sweep", "handoff"}, p \in {"peer", "companion"} :
         /\ [NoTask EXCEPT !.kind = k, !.pc = p] \in TaskType
         /\ [NoTask EXCEPT !.kind = k, !.pc = p, !.of = "ctl"] \in TaskType
    /\ [NoTask EXCEPT !.kind = "handoff", !.pc = "done", !.answer = "recovery"] \in TaskType
  BY DEF NoTask, TaskType

\* A teardown that starts is the only one that moves.
LEMMA Starts ==
    ASSUME tasks \in [Tasks -> TaskType], NEW t \in Tasks, NEW r \in TaskType,
           tasks' = [tasks EXCEPT ![t] = r]
    PROVE  /\ tasks' \in [Tasks -> TaskType] /\ tasks'[t] = r
           /\ \A i \in Tasks \ {t} : tasks'[i] = tasks[i]
  OBVIOUS

\* One that goes on stays what it is.
LEMMA TaskMoves ==
    ASSUME tasks \in [Tasks -> TaskType], NEW t \in Tasks,
           NEW p \in {"queued", "released", "companion", "preserve", "finish"}, tasks' = At(t, p)
    PROVE  /\ tasks' \in [Tasks -> TaskType] /\ tasks'[t].pc = p
           /\ tasks'[t].of = tasks[t].of /\ tasks'[t].kind = tasks[t].kind
           /\ \A i \in Tasks \ {t} : tasks'[i] = tasks[i]
  <1>1. tasks[t] \in TaskType
    OBVIOUS
  <1>2. [tasks[t] EXCEPT !.pc = p] \in TaskType
    BY <1>1 DEF TaskType
  <1>3. tasks' = [tasks EXCEPT ![t] = [tasks[t] EXCEPT !.pc = p]]
    BY DEF At
  <1>4. /\ tasks' \in [Tasks -> TaskType] /\ tasks'[t] = [tasks[t] EXCEPT !.pc = p]
        /\ \A i \in Tasks \ {t} : tasks'[i] = tasks[i]
    BY <1>2, <1>3
  <1>5. QED
    BY <1>1, <1>4 DEF TaskType

\* So does one that answers.
LEMMA TaskEnds ==
    ASSUME tasks \in [Tasks -> TaskType], NEW t \in Tasks,
           NEW a \in {"recovery", "stale", "closed"}, tasks' = Answer(t, a)
    PROVE  /\ tasks' \in [Tasks -> TaskType] /\ tasks'[t].pc = "done"
           /\ tasks'[t].of = tasks[t].of /\ tasks'[t].kind = tasks[t].kind
           /\ \A i \in Tasks \ {t} : tasks'[i] = tasks[i]
  <1>1. tasks[t] \in TaskType
    OBVIOUS
  <1>2. [tasks[t] EXCEPT !.pc = "done", !.answer = a] \in TaskType
    BY <1>1 DEF TaskType
  <1>3. tasks' = [tasks EXCEPT ![t] = [tasks[t] EXCEPT !.pc = "done", !.answer = a]]
    BY DEF Answer
  <1>4. /\ tasks' \in [Tasks -> TaskType]
        /\ tasks'[t] = [tasks[t] EXCEPT !.pc = "done", !.answer = a]
        /\ \A i \in Tasks \ {t} : tasks'[i] = tasks[i]
    BY <1>2, <1>3
  <1>5. QED
    BY <1>1, <1>4 DEF TaskType

\* The invariant holds before the open.
LEMMA CInit == CompositeInit => CInv
  <1> SUFFICES ASSUME CompositeInit PROVE CInv
    OBVIOUS
  <1>1. CompositeTypeOK
    BY Shapes DEF CompositeInit, CompositeTypeOK, Fields, TaskType, NoTask
  <1>2. OpenInv /\ PeerInv /\ TaskInv
    BY DEF CompositeInit, OpenInv, PeerInv, TaskInv, Verified, Unopened, NoTask
  <1>3. QED
    BY <1>1, <1>2 DEF CInv

\* A step of a teardown t, which gives its record one of the project's shapes,
\* on a peer that is as before but for its state.
LEMMA PeerMoved ==
    ASSUME CInv, NEW state \in States, OnlyState(peer', peer, state), linked,
           peer.attach = "pending" /\ peer.child /\ ~Verified(peer) =>
             \/ state = "unresolved"
             \/ state = peer.state
             \/ opening = "attach" /\ state \in {"open", "control"},
           UNCHANGED <<opening, linked>>, attached' => attached,
           hidden' = hidden, opening # "idle"
    PROVE  OpenInv' /\ PeerInv'
  BY DEF CInv, CompositeTypeOK, OpenInv, PeerInv, OnlyState, Fields, Verified

\* A step that lets go of the peer's worker, and of the pipe.
LEMMA PeerLost ==
    ASSUME CInv, peer' \in SessionType, ~peer'.child, peer'.attach = peer.attach, linked,
           ~attached', UNCHANGED <<opening, linked, hidden>>
    PROVE  OpenInv' /\ PeerInv'
  BY DEF CInv, CompositeTypeOK, OpenInv, PeerInv

\* A step that leaves the peer alone.
LEMMA PeerAside ==
    ASSUME CInv, UNCHANGED <<opening, linked, hidden, peer>>, attached' => attached, opening # "idle"
    PROVE  OpenInv' /\ PeerInv'
  BY DEF CInv, CompositeTypeOK, OpenInv, PeerInv, Verified

\* A step of one teardown, or of none.
LEMMA TasksMoved ==
    ASSUME CInv, NEW t \in Tasks, \A i \in Tasks \ {t} : tasks'[i] = tasks[i],
           linked' = linked, peer.handoff => peer'.handoff,
           tasks'[t].pc \in {"peer", "queued", "released"} => linked /\ tasks'[t].of = "peer",
           tasks'[t].kind = "handoff" => tasks'[t].pc = "done" \/ peer'.handoff
    PROVE  TaskInv'
  BY DEF CInv, TaskInv

LEMMA TasksStay ==
    ASSUME CInv, tasks' = tasks, linked => linked', peer.handoff => peer'.handoff
    PROVE  TaskInv'
  BY DEF CInv, TaskInv

\* The release of the controller, however it goes, leaves a session.
LEMMA ControllerTypes ==
    ASSUME CompositeTypeOK, ControllerConfirms \/ ControllerGone \/ ControllerUnconfirmed
    PROVE  /\ ctl' \in SessionType /\ holds' \in BOOLEAN /\ severed' \in BOOLEAN
           /\ service' \in {"none", "serving", "failing", "orphaned", "over"}
           /\ late' \in SUBSET {"peer", "ctl"}
  <1>1. ctl' \in {Confirmed(ctl), Gone(ctl), PreserveLiveControl(ctl)}
    BY DEF ControllerConfirms, ControllerGone, ControllerUnconfirmed
  <1>2. ctl' \in SessionType
    BY <1>1, Sessions DEF CompositeTypeOK
  <1>3. QED
    BY <1>2 DEF CompositeTypeOK, ControllerConfirms, ControllerGone, ControllerUnconfirmed

\* Every step of the open, of the service, of a worker and of a teardown
\* keeps it.
LEMMA CStep == CInv /\ [CompositeNext]_compositeVars => CInv'
  <1> SUFFICES ASSUME CInv, [CompositeNext]_compositeVars PROVE CInv'
    OBVIOUS
  <1>0. /\ CompositeTypeOK /\ peer \in SessionType /\ ctl \in SessionType
        /\ tasks \in [Tasks -> TaskType]
    BY DEF CInv, CompositeTypeOK
  <1>1. CASE OpenController
    <2>1. /\ opening = "idle" /\ opening' \in {"pipe", "returned"}
          /\ UNCHANGED <<peer, linked, shut, tasks, attached, aside>>
          /\ ctl' \in {Started, [Unopened EXCEPT !.state = "failed"]}
          /\ hidden' \in BOOLEAN /\ holds' \in BOOLEAN
          /\ service' \in {"none", "serving", "failing", "orphaned", "over"}
      BY <1>0, <1>1 DEF OpenController, CompositeTypeOK
    <2>2. CompositeTypeOK'
      BY <1>0, <2>1, Shapes DEF CompositeTypeOK, Fields, aside
    <2>3. OpenInv' /\ PeerInv'
      BY <2>1 DEF CInv, OpenInv, PeerInv, Verified
    <2>4. TaskInv'
      BY <2>1, TasksStay
    <2>5. QED
      BY <2>2, <2>3, <2>4 DEF CInv
  <1>2. CASE PipeReady
    <2>1. /\ opening = "pipe" /\ opening' \in {"admit", "undo"}
          /\ UNCHANGED <<ctl, peer, hidden, linked, shut, service, tasks, holds, attached, aside>>
      BY <1>2 DEF PipeReady
    <2>2. CompositeTypeOK'
      BY <1>0, <2>1 DEF CompositeTypeOK, aside
    <2>3. OpenInv' /\ PeerInv'
      BY <2>1 DEF CInv, OpenInv, PeerInv, Verified
    <2>4. TaskInv'
      BY <2>1, TasksStay
    <2>5. QED
      BY <2>2, <2>3, <2>4 DEF CInv
  <1>3. CASE AdmitPeer
    <2>1. /\ opening = "admit" /\ ~linked /\ peer = Unopened /\ ~attached
          /\ UNCHANGED <<ctl, hidden, shut, service, tasks, holds, attached, late, alone, severed>>
          /\ \/ opening' = "undo" /\ UNCHANGED <<peer, up, linked>>
             \/ opening' = "attach" /\ peer' = Started /\ up' = TRUE /\ linked' = TRUE /\ hidden
      BY <1>3 DEF AdmitPeer, MayAdmit, CInv, OpenInv, PeerInv
    <2>2. CompositeTypeOK'
      BY <1>0, <2>1, Shapes DEF CompositeTypeOK, Fields
    <2>3. OpenInv' /\ PeerInv'
      BY <2>1, Shapes DEF CInv, OpenInv, PeerInv, Verified, Fields
    <2>4. TaskInv'
      BY <2>1, Shapes, TasksStay DEF Fields
    <2>5. QED
      BY <2>2, <2>3, <2>4 DEF CInv
  <1>4. CASE AttachAnswered
    <2>1. /\ opening = "attach" /\ linked /\ hidden /\ ~attached /\ peer.attach = "pending"
          /\ UNCHANGED <<ctl, hidden, linked, shut, service, tasks, holds, aside>>
      BY <1>4 DEF AttachAnswered, CInv, CompositeTypeOK, OpenInv, PeerInv
    <2>2. /\ peer' \in SessionType /\ peer'.handoff = peer.handoff
          /\ Verified(peer') => ~peer'.child
          /\ \/ opening' = "returned" /\ peer'.attach \in {"opened", "over"}
                /\ attached' \in BOOLEAN /\ (attached' => peer'.child)
             \/ opening' = "undo" /\ peer'.attach \in {"opened", "over"} /\ attached' = attached
             \/ /\ opening' = "returned" /\ attached' = attached
                /\ peer'.child => peer'.state = "unresolved"
      <3>1. CASE /\ peer' = [peer EXCEPT !.attach = "opened"] /\ Alive
                 /\ attached' = TRUE /\ opening' = "returned"
        <4>1. Fields(peer', peer.state, peer.released, peer.handoff, "opened", peer.child)
          BY <1>0, <3>1, Ends
        <4>2. peer.child /\ ~Verified(peer)
          BY <3>1 DEF Alive, CInv, PeerInv
        <4>3. QED
          BY <3>1, <4>1, <4>2 DEF Fields, Verified
      <3>2. CASE /\ peer' = [SettleUncommitted(peer) EXCEPT !.attach = "over"]
                 /\ opening' = "undo" /\ attached' = attached
        <4>1. /\ SettleUncommitted(peer) \in SessionType
              /\ SettleUncommitted(peer).handoff = peer.handoff
              /\ Verified(SettleUncommitted(peer)) => ~SettleUncommitted(peer).child
          <5>1. CASE SettleUncommitted(peer) = peer
            BY <1>0, <5>1 DEF CInv, PeerInv
          <5>2. CASE SettleUncommitted(peer) = FailUnclaimed(peer)
            <6>1. Fields(FailUnclaimed(peer), IF IsLive(peer) THEN "failed" ELSE peer.state, TRUE,
                         peer.handoff, peer.attach, IF IsLive(peer) THEN FALSE ELSE peer.child)
              BY <1>0, Ends
            <6>2. ~IsLive(peer) => ~peer.child
              BY <2>1 DEF CInv, PeerInv, IsLive
            <6>3. QED
              BY <5>2, <6>1, <6>2 DEF Fields
          <5>3. QED
            BY <5>1, <5>2 DEF SettleUncommitted
        <4>2. Fields(peer', SettleUncommitted(peer).state, SettleUncommitted(peer).released,
                     peer.handoff, "over", SettleUncommitted(peer).child)
          BY <3>2, <4>1, Ends
        <4>3. QED
          BY <3>2, <4>1, <4>2 DEF Fields, Verified
      <3>3. CASE peer' = [peer EXCEPT !.attach = "over"] /\ opening' = "undo" /\ attached' = attached
        BY <1>0, <2>1, <3>3, Ends, ZenonT(30) DEF Fields, Verified, CInv, PeerInv
      <3>4. CASE /\ IsLive(peer) /\ peer' = [PreserveKernel(peer) EXCEPT !.attach = "over"]
                 /\ attached' \in {FALSE, Serving /\ Alive} /\ opening' = "returned"
        <4>1. OnlyState(PreserveKernel(peer), peer, IF Verified(peer) THEN peer.state ELSE "unresolved")
          BY <1>0, Moves
        <4>2. Fields(peer', PreserveKernel(peer).state, peer.released, peer.handoff, "over", peer.child)
          BY <3>4, <4>1, Ends DEF OnlyState, Fields
        <4>3. attached' \in BOOLEAN /\ (attached' => peer.child)
          BY <1>0, <3>4 DEF Alive
        <4>4. QED
          BY <3>4, <4>2, <4>3 DEF Fields, Verified, CInv, PeerInv
      <3>5. CASE peer' = PreserveKernel(peer) /\ opening' = "returned" /\ attached' = attached
        <4>1. OnlyState(peer', peer, IF Verified(peer) THEN peer.state ELSE "unresolved")
          BY <1>0, <3>5, Moves
        <4>2. QED
          BY <3>5, <4>1 DEF OnlyState, Fields, Verified, CInv, PeerInv
      <3>6. QED
        BY <1>4, <3>1, <3>2, <3>3, <3>4, <3>5 DEF AttachAnswered
    <2>3. CompositeTypeOK'
      BY <1>0, <2>1, <2>2 DEF CompositeTypeOK, aside
    <2>4. OpenInv' /\ PeerInv'
      BY <2>1, <2>2 DEF CInv, OpenInv, PeerInv
    <2>5. TaskInv'
      BY <2>1, <2>2, TasksStay
    <2>6. QED
      BY <2>3, <2>4, <2>5 DEF CInv
  <1>5. CASE LateRefusal
    <2>1. /\ opening = "returned" /\ peer.attach = "pending" /\ peer.child /\ linked /\ ~Verified(peer)
          /\ peer.state = "unresolved"
          /\ peer' = [FailUnclaimed(peer) EXCEPT !.attach = "over"] /\ alone' = TRUE
          /\ UNCHANGED <<opening, ctl, hidden, linked, shut, service, tasks, holds, attached, up, late,
                         severed>>
      <3>1. /\ opening = "returned" /\ peer.attach = "pending" /\ peer.child
            /\ peer' = [FailUnclaimed(peer) EXCEPT !.attach = "over"] /\ alone' = TRUE
            /\ UNCHANGED <<opening, ctl, hidden, linked, shut, service, tasks, holds, attached, up, late,
                           severed>>
        BY <1>5 DEF LateRefusal, Unsettled, Alive
      <3>2. linked
        BY <3>1, Shapes DEF CInv, OpenInv, Fields
      <3>3. QED
        BY <3>1, <3>2 DEF CInv, PeerInv
    <2>2. Fields(FailUnclaimed(peer), "failed", TRUE, peer.handoff, peer.attach, FALSE)
      BY <1>0, <2>1, Ends DEF IsLive, Fields
    <2>3. Fields(peer', "failed", TRUE, peer.handoff, "over", FALSE)
      BY <2>1, <2>2, Ends DEF Fields
    <2>4. ~attached
      BY <2>1 DEF CInv, PeerInv
    <2>5. CompositeTypeOK'
      BY <1>0, <2>1, <2>3 DEF CompositeTypeOK, Fields
    <2>6. OpenInv' /\ PeerInv'
      BY <2>1, <2>3, <2>4 DEF CInv, OpenInv, PeerInv, Fields
    <2>7. TaskInv'
      BY <2>1, <2>3, TasksStay DEF Fields
    <2>8. QED
      BY <2>5, <2>6, <2>7 DEF CInv
  <1>6. CASE LateAttach
    <2>1. /\ opening = "returned" /\ peer.child /\ attached' = TRUE
          /\ UNCHANGED <<opening, ctl, hidden, linked, shut, service, tasks, holds, aside>>
      BY <1>6 DEF LateAttach, Unsettled, Alive
    <2>2. PICK a \in {"opened", "over"} : peer' = [peer EXCEPT !.attach = a]
      BY <1>6 DEF LateAttach
    <2>3. Fields(peer', peer.state, peer.released, peer.handoff, a, peer.child)
      BY <1>0, <2>2, Ends
    <2>4. linked
      BY <2>1, Shapes DEF CInv, OpenInv, Fields
    <2>5. CompositeTypeOK'
      BY <1>0, <2>1, <2>3 DEF CompositeTypeOK, Fields, aside
    <2>6. OpenInv' /\ PeerInv'
      BY <2>1, <2>3, <2>4 DEF CInv, OpenInv, PeerInv, Fields, Verified
    <2>7. TaskInv'
      BY <2>1, <2>3, TasksStay DEF Fields
    <2>8. QED
      BY <2>5, <2>6, <2>7 DEF CInv
  <1>7. CASE Undo
    <2>1. /\ opening = "undo" /\ opening' = "returned" /\ ~attached
          /\ hidden' = hidden \/ hidden' = FALSE
          /\ UNCHANGED <<peer, linked, shut, tasks, attached, up, alone>>
      BY <1>7 DEF Undo, CInv, PeerInv
    <2>2. ControllerConfirms \/ ControllerGone \/ ControllerUnconfirmed
      BY <1>7 DEF Undo
    <2>3. CompositeTypeOK'
      BY <1>0, <2>1, <2>2, ControllerTypes DEF CompositeTypeOK
    <2>4. OpenInv' /\ PeerInv'
      BY <2>1, Shapes DEF CInv, OpenInv, PeerInv, Verified, Fields
    <2>5. TaskInv'
      BY <2>1, TasksStay
    <2>6. QED
      BY <2>3, <2>4, <2>5 DEF CInv
  <1>8. CASE ServiceReleases \/ ServiceFails \/ ServicePreserves \/ LateController
    <2>1. /\ service # "none" \/ late # {}
          /\ attached' => attached
          /\ UNCHANGED <<opening, peer, hidden, linked, shut, tasks, up, alone>>
      BY <1>0, <1>8 DEF ServiceReleases, ServiceFails, ServicePreserves, LateController, aside
    <2>2. ctl' \in SessionType
      <3>1. CASE ctl' = [ctl EXCEPT !.released = TRUE,
                                    !.state = IF ctl.state = "control" THEN "open" ELSE ctl.state]
        BY <1>0, <3>1 DEF SessionType, States
      <3>2. CASE ctl' \in {ctl, PreserveLiveControl(ctl), Confirmed(ctl)}
        BY <1>0, <3>2, Sessions
      <3>3. QED
        BY <1>8, <3>1, <3>2 DEF ServiceReleases, ServiceFails, ServicePreserves, LateController
    <2>3. /\ service' \in {"none", "serving", "failing", "orphaned", "over"}
          /\ holds' \in BOOLEAN /\ attached' \in BOOLEAN /\ severed' \in BOOLEAN
          /\ late' \in SUBSET {"peer", "ctl"}
      BY <1>0, <1>8
         DEF ServiceReleases, ServiceFails, ServicePreserves, LateController, aside, CompositeTypeOK
    <2>4. CompositeTypeOK'
      BY <1>0, <2>1, <2>2, <2>3 DEF CompositeTypeOK
    <2>5. OpenInv' /\ PeerInv'
      BY <2>1, PeerAside DEF CInv, OpenInv
    <2>6. TaskInv'
      BY <2>1, TasksStay
    <2>7. QED
      BY <2>4, <2>5, <2>6 DEF CInv
  <1>9. CASE ServiceReports
    <2>1. /\ service = "orphaned" /\ service' = "over"
          /\ UNCHANGED <<opening, ctl, linked, shut, tasks, holds, attached, aside>>
          /\ \/ linked /\ peer' = PreserveComposite(peer) /\ hidden' = hidden
             \/ ~linked /\ hidden' = FALSE /\ peer' = peer
      BY <1>9 DEF ServiceReports, TellParent
    <2>2. opening # "idle"
      BY <2>1 DEF CInv, OpenInv
    <2>3. OnlyState(PreserveComposite(peer), peer,
                    IF peer.state \in {"open", "control"} \/ (peer.state = "closed" /\ Verified(peer))
                    THEN "control" ELSE peer.state)
      BY <1>0, Moves
    <2>4. CompositeTypeOK'
      BY <1>0, <2>1, <2>3 DEF CompositeTypeOK, OnlyState, Fields, aside
    <2>5. OpenInv' /\ PeerInv'
      BY <2>1, <2>2, <2>3 DEF CInv, OpenInv, PeerInv, Verified, OnlyState, Fields
    <2>6. TaskInv'
      BY <2>1, <2>3, TasksStay DEF OnlyState, Fields
    <2>7. QED
      BY <2>4, <2>5, <2>6 DEF CInv
  <1>10. CASE PeerDies
    <2>1. /\ peer.child /\ up' = FALSE /\ attached' = FALSE
          /\ UNCHANGED <<opening, ctl, hidden, linked, shut, service, tasks, holds, late, alone>>
          /\ severed' = severed
          /\ peer' \in {peer, MarkClosed(peer), PreserveKernel(peer)}
          /\ peer' = MarkClosed(peer) => peer.released \/ peer' = peer \/ peer' = PreserveKernel(peer)
      BY <1>10 DEF PeerDies, Alive
    <2>2. ~peer.released /\ ~Verified(peer) /\ linked /\ opening # "idle"
      BY <2>1, Shapes DEF CInv, PeerInv, OpenInv, Fields, Verified
    <2>3. OnlyState(peer', peer, peer.state) \/ OnlyState(peer', peer, "unresolved")
      <3>1. /\ OnlyState(PreserveKernel(peer), peer, "unresolved")
            /\ OnlyState(peer, peer, peer.state)
        BY <1>0, <2>2, Moves, ZenonT(30) DEF OnlyState, Fields
      <3>2. QED
        BY <2>1, <2>2, <3>1
    <2>4. CompositeTypeOK'
      BY <1>0, <2>1, <2>3, ZenonT(30) DEF CompositeTypeOK, OnlyState, Fields
    <2>5. OpenInv' /\ PeerInv'
      BY <2>1, <2>2, <2>3 DEF CInv, OpenInv, PeerInv, Verified, OnlyState, Fields
    <2>6. TaskInv'
      BY <2>1, <2>3, TasksStay DEF OnlyState, Fields
    <2>7. QED
      BY <2>4, <2>5, <2>6 DEF CInv
  <1>11. CASE LatePeer
    <2>1. /\ peer.child /\ peer' = Confirmed(peer) /\ attached' = FALSE /\ alone' = TRUE
          /\ late' = late \ {"peer"}
          /\ UNCHANGED <<opening, ctl, hidden, linked, shut, service, tasks, holds, up, severed>>
      BY <1>11 DEF LatePeer, Alive
    <2>2. peer' \in SessionType /\ ~peer'.child /\ peer'.attach = peer.attach /\ peer'.handoff = peer.handoff
      BY <1>0, <2>1, Ends DEF Fields
    <2>3. linked
      BY <2>1, Shapes DEF CInv, OpenInv, Fields
    <2>4. CompositeTypeOK'
      BY <1>0, <2>1, <2>2, ZenonT(30) DEF CompositeTypeOK
    <2>5. OpenInv' /\ PeerInv'
      BY <2>1, <2>2, <2>3, PeerLost
    <2>6. TaskInv'
      BY <2>1, <2>2, TasksStay
    <2>7. QED
      BY <2>4, <2>5, <2>6 DEF CInv
  <1>12. ASSUME NEW t \in Tasks, EndPeer(t) \/ IdlePeer(t) PROVE CInv'
    <2>1. /\ UNCHANGED <<opening, ctl, hidden, linked, shut, service, holds, attached, aside>>
          /\ IsLive(peer) /\ peer' \in {peer, MarkClosed(peer)}
          /\ peer' = peer \/ opening = "returned"
          /\ \E k \in {"end", "idle"} :
               tasks' = [tasks EXCEPT ![t] = [NoTask EXCEPT !.kind = k, !.pc = First]]
      BY <1>12 DEF EndPeer, IdlePeer, AcceptsTeardown
    <2>2. /\ tasks' \in [Tasks -> TaskType] /\ \A i \in Tasks \ {t} : tasks'[i] = tasks[i]
          /\ tasks'[t].of = "peer" /\ tasks'[t].kind # "handoff"
      <3>1. PICK k \in {"end", "idle"} :
              tasks' = [tasks EXCEPT ![t] = [NoTask EXCEPT !.kind = k, !.pc = First]]
        BY <2>1
      <3>2. [NoTask EXCEPT !.kind = k, !.pc = First] \in TaskType
        BY TaskShapes DEF First
      <3>3. QED
        BY <1>0, <3>1, <3>2, Starts DEF NoTask
    <2>3. linked /\ opening # "idle"
      BY <2>1, Shapes DEF CInv, OpenInv, Fields, IsLive
    <2>4. \/ OnlyState(peer', peer, peer.state)
          \/ OnlyState(peer', peer, "closed") /\ peer.state # "unresolved" /\ opening = "returned"
          \/ OnlyState(peer', peer, "closed") /\ Verified(peer)
      <3>1. OnlyState(peer, peer, peer.state)
        BY <1>0 DEF OnlyState, Fields
      <3>2. OnlyState(MarkClosed(peer), peer,
                      IF IsLive(peer) /\ (peer.released \/ peer.state \notin {"unresolved", "control"})
                      THEN "closed" ELSE peer.state)
        BY <1>0, Moves
      <3>3. QED
        BY <2>1, <3>1, <3>2 DEF Verified
    <2>5. CompositeTypeOK'
      BY <1>0, <2>1, <2>2, <2>4 DEF CompositeTypeOK, OnlyState, Fields, aside
    <2>6. OpenInv' /\ PeerInv'
      <3>1. peer.state \in States
        BY <1>0 DEF SessionType
      <3>2. CASE OnlyState(peer', peer, peer.state)
        BY <2>1, <2>3, <3>1, <3>2, PeerMoved
      <3>3. CASE OnlyState(peer', peer, "closed") /\ peer.state # "unresolved" /\ opening = "returned"
        <4>1. ~(peer.attach = "pending" /\ peer.child)
          BY <2>3, <3>3 DEF CInv, PeerInv
        <4>2. QED
          BY <2>1, <2>3, <3>3, <4>1, PeerMoved DEF States
      <3>4. CASE OnlyState(peer', peer, "closed") /\ Verified(peer)
        BY <2>1, <2>3, <3>4, PeerMoved DEF States
      <3>5. QED
        BY <2>4, <3>2, <3>3, <3>4
    <2>7. TaskInv'
      BY <2>1, <2>2, <2>3, <2>4, TasksMoved DEF OnlyState, Fields
    <2>8. QED
      BY <2>5, <2>6, <2>7 DEF CInv
  <1>13. ASSUME NEW t \in Tasks, EndController(t) \/ IdleController(t) \/ SweepWorkers(t) PROVE CInv'
    <2>1. /\ UNCHANGED <<opening, peer, hidden, linked, service, holds, attached, aside>>
          /\ ctl' \in {ctl, MarkClosed(ctl)} /\ shut' \in BOOLEAN
      BY <1>0, <1>13 DEF EndController, IdleController, SweepWorkers, Gating, CompositeTypeOK
    <2>2. PICK k \in {"end", "idle", "sweep"} :
             \/ tasks' = [tasks EXCEPT ![t] = [NoTask EXCEPT !.kind = k, !.pc = First]] /\ linked
             \/ tasks' = [tasks EXCEPT ![t] = [NoTask EXCEPT !.kind = k, !.pc = "companion", !.of = "ctl"]]
      BY <1>13 DEF EndController, IdleController, SweepWorkers
    <2>3. /\ tasks' \in [Tasks -> TaskType] /\ \A i \in Tasks \ {t} : tasks'[i] = tasks[i]
          /\ tasks'[t].kind # "handoff"
          /\ tasks'[t].pc = "companion" \/ (linked /\ tasks'[t].of = "peer")
      <3>1. CASE tasks' = [tasks EXCEPT ![t] = [NoTask EXCEPT !.kind = k, !.pc = First]] /\ linked
        <4>1. [NoTask EXCEPT !.kind = k, !.pc = First] \in TaskType
          BY TaskShapes DEF First
        <4>2. QED
          BY <1>0, <3>1, <4>1, Starts DEF NoTask
      <3>2. CASE tasks' = [tasks EXCEPT ![t] = [NoTask EXCEPT !.kind = k, !.pc = "companion", !.of = "ctl"]]
        <4>1. [NoTask EXCEPT !.kind = k, !.pc = "companion", !.of = "ctl"] \in TaskType
          BY TaskShapes
        <4>2. QED
          BY <1>0, <3>2, <4>1, Starts DEF NoTask
      <3>3. QED
        BY <2>2, <3>1, <3>2
    <2>4. opening # "idle"
      BY <1>13, Shapes DEF EndController, IdleController, SweepWorkers, AcceptsTeardown, IsLive,
         CInv, OpenInv, Fields
    <2>5. CompositeTypeOK'
      <3>1. ctl' \in SessionType
        BY <1>0, <2>1, Sessions
      <3>2. QED
        BY <1>0, <2>1, <2>3, <3>1 DEF CompositeTypeOK, aside
    <2>6. OpenInv' /\ PeerInv'
      BY <2>1, <2>4, PeerAside
    <2>7. TaskInv'
      BY <2>1, <2>3, TasksMoved
    <2>8. QED
      BY <2>5, <2>6, <2>7 DEF CInv
  <1>14. ASSUME NEW t \in Tasks, Handoff(t) PROVE CInv'
    <2>1. /\ UNCHANGED <<opening, ctl, hidden, linked, shut, service, holds, aside>>
          /\ peer.state = "unresolved"
      BY <1>14 DEF Handoff
    <2>2. linked /\ opening # "idle"
      BY <2>1, Shapes DEF CInv, OpenInv, Fields
    <2>3. CASE /\ peer' = [peer EXCEPT !.handoff = TRUE, !.child = FALSE]
               /\ attached' = FALSE
               /\ tasks' = [tasks EXCEPT ![t] = [NoTask EXCEPT !.kind = "handoff", !.pc = "companion"]]
      <3>1. Fields(peer', peer.state, peer.released, TRUE, peer.attach, FALSE)
        BY <1>0, <2>3, Ends
      <3>2. /\ tasks' \in [Tasks -> TaskType] /\ \A i \in Tasks \ {t} : tasks'[i] = tasks[i]
            /\ tasks'[t].pc = "companion"
        BY <1>0, <2>3, TaskShapes, Starts DEF NoTask
      <3>3. CompositeTypeOK'
        BY <1>0, <2>1, <2>3, <3>1, <3>2, ZenonT(30) DEF CompositeTypeOK, Fields, aside
      <3>4. OpenInv' /\ PeerInv'
        BY <2>1, <2>2, <2>3, <3>1, PeerLost DEF Fields
      <3>5. TaskInv'
        BY <2>1, <3>1, <3>2, TasksMoved DEF Fields
      <3>6. QED
        BY <3>3, <3>4, <3>5 DEF CInv
    <2>4. CASE /\ UNCHANGED <<peer, attached>>
               /\ tasks' = [tasks EXCEPT ![t] =
                              [NoTask EXCEPT !.kind = "handoff", !.pc = "done", !.answer = "recovery"]]
      <3>1. /\ tasks' \in [Tasks -> TaskType] /\ \A i \in Tasks \ {t} : tasks'[i] = tasks[i]
            /\ tasks'[t].pc = "done"
        BY <1>0, <2>4, TaskShapes, Starts DEF NoTask
      <3>2. CompositeTypeOK'
        BY <1>0, <2>1, <2>4, <3>1 DEF CompositeTypeOK, aside
      <3>3. OpenInv' /\ PeerInv'
        BY <2>1, <2>2, <2>4, PeerAside
      <3>4. TaskInv'
        BY <2>1, <2>4, <3>1, TasksMoved
      <3>5. QED
        BY <3>2, <3>3, <3>4 DEF CInv
    <2>5. QED
      BY <1>14, <2>3, <2>4 DEF Handoff
  <1>15. ASSUME NEW t \in Tasks, SendPeer(t) \/ PumpPeer(t) \/ PeerReleased(t) PROVE CInv'
    <2>1. /\ UNCHANGED <<opening, ctl, hidden, linked, shut, service, holds, up, alone, severed>>
          /\ tasks[t].pc \in {"peer", "queued", "released"} /\ late' \in SUBSET {"peer", "ctl"}
          /\ linked /\ tasks[t].of = "peer" /\ opening # "idle"
          /\ tasks[t].kind # "handoff" \/ peer.handoff
      <3>1. /\ UNCHANGED <<opening, ctl, hidden, linked, shut, service, holds, up, alone, severed>>
            /\ tasks[t].pc \in {"peer", "queued", "released"} /\ late' \in SUBSET {"peer", "ctl"}
        BY <1>0, <1>15 DEF SendPeer, PumpPeer, PeerReleased, aside, CompositeTypeOK
      <3>2. QED
        BY <3>1 DEF CInv, OpenInv, TaskInv
    <2>2. \/ \E p \in {"queued", "released", "companion", "preserve", "finish"} : tasks' = At(t, p)
          \/ \E a \in {"recovery", "stale", "closed"} : tasks' = Answer(t, a)
      BY <1>15 DEF SendPeer, PumpPeer, PeerReleased, PeerPreserved, PeerWasReleased, AfterPeer, TreeStops
    <2>3. /\ tasks' \in [Tasks -> TaskType] /\ \A i \in Tasks \ {t} : tasks'[i] = tasks[i]
          /\ tasks'[t].of = tasks[t].of /\ tasks'[t].kind = tasks[t].kind
      BY <1>0, <2>2, TaskMoves, TaskEnds
    <2>4. \/ peer' \in {peer, PreserveKernel(peer), ClosingKernel(peer)} /\ attached' = attached
          \/ peer' = Gone(peer) /\ attached' = attached /\ peer.released
          \/ peer' = Confirmed(peer) /\ attached' = FALSE
      BY <1>15 DEF SendPeer, PumpPeer, PeerReleased, PeerPreserved, PeerWasReleased, aside
    <2>5. peer' \in SessionType /\ peer'.handoff = peer.handoff
      <3>1. /\ OnlyState(PreserveKernel(peer), peer, IF Verified(peer) THEN peer.state ELSE "unresolved")
            /\ OnlyState(ClosingKernel(peer), peer, IF IsLive(peer) THEN "unresolved" ELSE peer.state)
        BY <1>0, Moves
      <3>2. /\ Gone(peer).handoff = peer.handoff /\ Gone(peer) \in SessionType
            /\ Confirmed(peer).handoff = peer.handoff /\ Confirmed(peer) \in SessionType
        BY <1>0, Ends DEF Fields
      <3>3. QED
        BY <1>0, <2>4, <3>1, <3>2 DEF OnlyState, Fields
    <2>6. CompositeTypeOK'
      BY <1>0, <2>1, <2>3, <2>4, <2>5, ZenonT(30) DEF CompositeTypeOK
    <2>7. OpenInv' /\ PeerInv'
      <3>1. CASE peer' \in {peer, PreserveKernel(peer), ClosingKernel(peer)} /\ attached' = attached
        <4>1. peer.state \in States
          BY <1>0 DEF SessionType
        <4>2. OnlyState(peer', peer, peer.state) \/ OnlyState(peer', peer, "unresolved")
          <5>1. /\ OnlyState(PreserveKernel(peer), peer,
                             IF Verified(peer) THEN peer.state ELSE "unresolved")
                /\ OnlyState(ClosingKernel(peer), peer, IF IsLive(peer) THEN "unresolved" ELSE peer.state)
            BY <1>0, Moves
          <5>2. OnlyState(peer, peer, peer.state)
            BY <1>0 DEF OnlyState, Fields
          <5>3. QED
            BY <3>1, <5>1, <5>2
        <4>3. QED
          BY <2>1, <3>1, <4>1, <4>2, PeerMoved DEF States
      <3>2. CASE peer' = Gone(peer) /\ attached' = attached /\ peer.released
        <4>1. ~attached /\ ~peer'.child /\ peer'.attach = peer.attach
          BY <1>0, <3>2, Ends DEF CInv, PeerInv, Verified, Fields
        <4>2. QED
          BY <2>1, <2>5, <3>2, <4>1, PeerLost
      <3>3. CASE peer' = Confirmed(peer) /\ attached' = FALSE
        <4>1. ~peer'.child /\ peer'.attach = peer.attach
          BY <1>0, <3>3, Ends DEF Fields
        <4>2. QED
          BY <2>1, <2>5, <3>3, <4>1, PeerLost
      <3>4. QED
        BY <2>4, <3>1, <3>2, <3>3
    <2>8. TaskInv'
      BY <2>1, <2>3, <2>5, TasksMoved
    <2>9. QED
      BY <2>6, <2>7, <2>8 DEF CInv
  <1>16. ASSUME NEW t \in Tasks, ControllerReleased(t) \/ ControllerStale(t) PROVE CInv'
    <2>1. /\ UNCHANGED <<opening, peer, hidden, linked, shut, attached, up, alone>>
          /\ tasks[t].pc = "companion"
      BY <1>16 DEF ControllerReleased, ControllerStale, aside
    <2>2. \/ \E p \in {"preserve", "finish"} : tasks' = At(t, p)
          \/ tasks' = Answer(t, "stale")
      BY <1>16 DEF ControllerReleased, ControllerStale
    <2>3. /\ tasks' \in [Tasks -> TaskType] /\ \A i \in Tasks \ {t} : tasks'[i] = tasks[i]
          /\ tasks'[t].kind = tasks[t].kind /\ tasks'[t].pc \notin {"peer", "queued", "released"}
      BY <1>0, <2>2, TaskMoves, TaskEnds
    <2>4. \/ ControllerConfirms \/ ControllerGone \/ ControllerUnconfirmed
          \/ UNCHANGED <<ctl, service, holds, late, severed>>
      BY <1>16 DEF ControllerReleased, ControllerStale, aside
    <2>5. CompositeTypeOK'
      <3>1. /\ ctl' \in SessionType /\ holds' \in BOOLEAN /\ severed' \in BOOLEAN
            /\ service' \in {"none", "serving", "failing", "orphaned", "over"}
            /\ late' \in SUBSET {"peer", "ctl"}
        <4>1. CASE UNCHANGED <<ctl, service, holds, late, severed>>
          BY <1>0, <4>1 DEF CompositeTypeOK
        <4>2. QED
          BY <1>0, <2>4, <4>1, ControllerTypes
      <3>2. QED
        BY <1>0, <2>1, <2>3, <3>1 DEF CompositeTypeOK
    <2>6. OpenInv' /\ PeerInv'
      BY <2>1, PeerAside DEF CInv, OpenInv
    <2>7. TaskInv'
      <3>1. tasks'[t].kind = "handoff" => peer'.handoff
        BY <2>1, <2>3 DEF CInv, TaskInv
      <3>2. QED
        BY <2>1, <2>3, <3>1, TasksMoved
    <2>8. QED
      BY <2>5, <2>6, <2>7 DEF CInv
  <1>17. ASSUME NEW t \in Tasks, Preserve(t) \/ Conclude(t) PROVE CInv'
    <2>1. /\ UNCHANGED <<opening, ctl, hidden, linked, shut, service, holds, attached, aside>>
          /\ tasks[t].pc \in {"preserve", "finish"}
          /\ tasks' = Answer(t, "recovery") \/ tasks' = Answer(t, "closed")
      BY <1>17 DEF Preserve, Conclude
    <2>2. /\ tasks' \in [Tasks -> TaskType] /\ \A i \in Tasks \ {t} : tasks'[i] = tasks[i]
          /\ tasks'[t].pc = "done"
      BY <1>0, <2>1, TaskEnds
    <2>3. opening # "idle"
      BY <2>1 DEF CInv, OpenInv
    <2>4. \/ peer' = peer
          \/ peer' \in {PreserveComposite(peer), FinishEnd(peer)}
          \/ peer' = [peer EXCEPT !.state = "closed"] /\ IsLive(peer) /\ peer.handoff
      <3>1. tasks[t].kind = "handoff" => peer.handoff
        BY <2>1 DEF CInv, TaskInv
      <3>2. QED
        BY <1>17, <3>1 DEF Preserve, Conclude
    <2>5. ~linked => peer' = peer
      BY <2>4, NoneStays, Shapes DEF CInv, OpenInv, Fields, IsLive
    <2>6. \/ OnlyState(peer', peer, peer.state)
          \/ OnlyState(peer', peer, "control") /\ peer.state \in {"open", "control"}
          \/ \E s \in {"control", "closed"} : OnlyState(peer', peer, s) /\ Verified(peer)
      <3>1. OnlyState(peer, peer, peer.state)
        BY <1>0 DEF OnlyState, Fields
      <3>2. \/ OnlyState(PreserveComposite(peer), peer, peer.state)
            \/ OnlyState(PreserveComposite(peer), peer, "control") /\ peer.state \in {"open", "control"}
            \/ OnlyState(PreserveComposite(peer), peer, "control") /\ Verified(peer)
        BY <1>0, Moves
      <3>3. \/ OnlyState(FinishEnd(peer), peer, peer.state)
            \/ OnlyState(FinishEnd(peer), peer, "closed") /\ Verified(peer)
        BY <1>0, Moves
      <3>4. OnlyState([peer EXCEPT !.state = "closed"], peer, "closed")
        BY <1>0, Moves
      <3>5. QED
        BY <2>4, <3>1, <3>2, <3>3, <3>4 DEF Verified
    <2>7. CompositeTypeOK'
      BY <1>0, <2>1, <2>2, <2>6 DEF CompositeTypeOK, OnlyState, Fields, aside
    <2>8. OpenInv' /\ PeerInv'
      <3>1. CASE ~linked
        BY <2>1, <2>3, <2>5, <3>1, PeerAside
      <3>2. CASE linked
        <4>1. peer.state \in States
          BY <1>0 DEF SessionType
        <4>2. CASE OnlyState(peer', peer, peer.state)
          BY <2>1, <2>3, <3>2, <4>1, <4>2, PeerMoved
        <4>3. CASE OnlyState(peer', peer, "control") /\ peer.state \in {"open", "control"}
          <5>1. peer.attach = "pending" /\ peer.child => opening = "attach"
            BY <3>2, <4>3 DEF CInv, PeerInv
          <5>2. QED
            BY <2>1, <2>3, <3>2, <4>3, <5>1, PeerMoved DEF States
        <4>4. CASE \E s \in {"control", "closed"} : OnlyState(peer', peer, s) /\ Verified(peer)
          <5>1. PICK s \in {"control", "closed"} : OnlyState(peer', peer, s) /\ Verified(peer)
            BY <4>4
          <5>2. s \in States
            BY DEF States
          <5>3. QED
            BY <2>1, <2>3, <3>2, <5>1, <5>2, PeerMoved
        <4>5. QED
          BY <2>6, <4>2, <4>3, <4>4
      <3>3. QED
        BY <3>1, <3>2
    <2>9. TaskInv'
      BY <2>1, <2>2, <2>6, TasksMoved DEF OnlyState, Fields
    <2>10. QED
      BY <2>7, <2>8, <2>9 DEF CInv
  <1>18. CASE UNCHANGED compositeVars
    BY <1>18 DEF compositeVars, aside, CInv, CompositeTypeOK, OpenInv, PeerInv, TaskInv, Verified
  <1>19. QED
    BY <1>1, <1>2, <1>3, <1>4, <1>5, <1>6, <1>7, <1>8, <1>9, <1>10, <1>11, <1>12, <1>13, <1>14,
       <1>15, <1>16, <1>17, <1>18 DEF CompositeNext, TeardownStep

-----------------------------------------------------------------------------
(***************************************************************************)
(* No teardown takes the service from under the peer.                      *)
(***************************************************************************)
\* Nobody is on the controller's pipe, and nobody will be.
Cut ==
    \/ shut /\ ~linked
    \/ linked /\ ~peer.child
    \/ ~hidden
    \/ service # "serving"

SInv ==
    /\ attached => hidden /\ service = "serving"
    /\ \A t \in Tasks : tasks[t].pc = "companion" => Cut
    /\ "ctl" \in late => Cut
    /\ PeerGoesFirst

\* A pipe that is cut has no peer on it.
LEMMA CutIsEmpty == CInv /\ SInv /\ Cut => ~attached
  BY DEF CInv, PeerInv, SInv, Cut

\* What no step after the open's first one takes back.
LEMMA OneWay ==
    ASSUME CInv, [CompositeNext]_compositeVars, ~OpenController
    PROVE  /\ shut => shut'
           /\ hidden' => hidden
           /\ service' = "serving" => service = "serving"
           /\ linked => linked'
           /\ shut /\ ~linked => ~linked'
           /\ linked /\ ~peer.child => ~peer'.child
  <1>0. /\ peer \in SessionType
        /\ shut \in BOOLEAN /\ hidden \in BOOLEAN /\ linked \in BOOLEAN
    BY DEF CInv, CompositeTypeOK
  <1>1. CASE \/ PipeReady \/ AdmitPeer \/ AttachAnswered \/ LateRefusal \/ LateAttach \/ Undo
             \/ ServiceReleases \/ ServiceFails \/ ServicePreserves \/ ServiceReports
             \/ PeerDies \/ LatePeer \/ LateController
    <2>1. /\ shut' = shut
          /\ hidden' = hidden \/ hidden' = FALSE
          /\ service' = "serving" => service = "serving"
          /\ linked' = linked \/ (linked' = TRUE /\ ~shut)
      BY <1>1 DEF PipeReady, AdmitPeer, MayAdmit, AttachAnswered, LateRefusal, LateAttach, Undo,
         ControllerConfirms, ControllerGone, ControllerUnconfirmed, ServiceReleases, ServiceFails,
         ServicePreserves, ServiceReports, TellParent, PeerDies, LatePeer, LateController
    <2>2. linked /\ ~peer.child => ~peer'.child
      <3>1. SUFFICES ASSUME linked, ~peer.child PROVE ~peer'.child
        OBVIOUS
      <3>2. CASE peer' \in {peer, PreserveComposite(peer)}
        BY <1>0, <3>1, <3>2, Workers
      <3>3. CASE AttachAnswered
        <4>1. /\ PreserveKernel(peer) \in SessionType /\ FailUnclaimed(peer) \in SessionType
              /\ ~PreserveKernel(peer).child /\ ~FailUnclaimed(peer).child
          BY <1>0, <3>1, Workers, Sessions
        <4>2. \E s \in {peer, PreserveKernel(peer), FailUnclaimed(peer)} :
                peer' = s \/ \E a \in {"opened", "over"} : peer' = [s EXCEPT !.attach = a]
          BY <3>3 DEF AttachAnswered, SettleUncommitted
        <4>3. PICK s \in SessionType :
                ~s.child /\ (peer' = s \/ \E a \in {"opened", "over"} : peer' = [s EXCEPT !.attach = a])
          BY <1>0, <3>1, <4>1, <4>2
        <4>4. \A a \in {"opened", "over"} : ~[s EXCEPT !.attach = a].child
          BY <4>3, Workers
        <4>5. QED
          BY <4>3, <4>4
      <3>4. ~(LateRefusal \/ LateAttach \/ PeerDies \/ LatePeer)
        BY <3>1 DEF LateRefusal, LateAttach, PeerDies, LatePeer, Unsettled, Alive
      <3>5. ~AdmitPeer
        BY <3>1 DEF AdmitPeer, CInv, OpenInv
      <3>6. QED
        BY <1>1, <3>2, <3>3, <3>4, <3>5 DEF PipeReady, Undo, ServiceReleases, ServiceFails,
           ServicePreserves, ServiceReports, TellParent, LateController
    <2>3. QED
      BY <1>0, <2>1, <2>2
  <1>2. ASSUME NEW t \in Tasks, TeardownStep(t)
        PROVE  /\ shut => shut'
               /\ hidden' => hidden
               /\ service' = "serving" => service = "serving"
               /\ linked => linked'
               /\ shut /\ ~linked => ~linked'
               /\ linked /\ ~peer.child => ~peer'.child
    <2>1. /\ shut' = shut \/ shut' = TRUE
          /\ hidden' = hidden /\ linked' = linked
          /\ service' = "serving" => service = "serving"
      BY <1>2 DEF TeardownStep, EndPeer, IdlePeer, EndController, IdleController, SweepWorkers, Gating,
         Handoff, SendPeer, PumpPeer, PeerReleased, ControllerReleased, ControllerStale, Preserve,
         Conclude, ControllerConfirms, ControllerGone, ControllerUnconfirmed
    <2>2. \/ peer' \in {peer, MarkClosed(peer), PreserveKernel(peer), ClosingKernel(peer)}
          \/ peer' \in {PreserveComposite(peer), FinishEnd(peer), [peer EXCEPT !.state = "closed"]}
          \/ peer' \in {Confirmed(peer), Gone(peer), [peer EXCEPT !.handoff = TRUE, !.child = FALSE]}
      BY <1>2 DEF TeardownStep, EndPeer, IdlePeer, EndController, IdleController, SweepWorkers,
         Handoff, SendPeer, PumpPeer, PeerReleased, PeerPreserved, PeerWasReleased, ControllerReleased,
         ControllerStale, Preserve, Conclude
    <2>3. ~peer.child => ~peer'.child
      <3>1. CASE peer' \in {peer, MarkClosed(peer), PreserveKernel(peer), ClosingKernel(peer)}
        BY <1>0, <3>1, Workers
      <3>2. CASE peer' \in {PreserveComposite(peer), FinishEnd(peer), [peer EXCEPT !.state = "closed"]}
        BY <1>0, <3>2, Workers, ZenonT(30)
      <3>3. CASE peer' \in {Confirmed(peer), Gone(peer), [peer EXCEPT !.handoff = TRUE, !.child = FALSE]}
        <4>1. /\ ~Confirmed(peer).child /\ ~Gone(peer).child
              /\ ~[peer EXCEPT !.handoff = TRUE, !.child = FALSE].child
          BY <1>0, Workers
        <4>2. QED
          BY <3>3, <4>1
      <3>4. QED
        BY <2>2, <3>1, <3>2, <3>3
    <2>4. QED
      BY <1>0, <2>1, <2>3
  <1>3. CASE UNCHANGED compositeVars
    BY <1>3 DEF compositeVars
  <1>4. QED
    BY <1>1, <1>2, <1>3 DEF CompositeNext

\* A pipe that is cut stays cut.
LEMMA CutStays ==
    ASSUME CInv, CInv', [CompositeNext]_compositeVars, ~OpenController, Cut
    PROVE  Cut'
  BY OneWay DEF Cut, CInv, CompositeTypeOK

\* A teardown comes to the controller once the pipe is cut.
LEMMA Arrives ==
    ASSUME CInv, SInv, ~LeaseRunsOut, NEW t \in Tasks, TeardownStep(t)
    PROVE  \A i \in Tasks : tasks'[i].pc = "companion" => tasks[i].pc = "companion" \/ Cut'
  <1>0. peer \in SessionType /\ tasks \in [Tasks -> TaskType]
    BY DEF CInv, CompositeTypeOK
  <1>1. ASSUME EndPeer(t) \/ IdlePeer(t)
        PROVE  (\A i \in Tasks \ {t} : tasks'[i] = tasks[i]) /\ (tasks'[t].pc = "companion" => Cut')
    <2>1. PICK k \in {"end", "idle"} :
            tasks' = [tasks EXCEPT ![t] = [NoTask EXCEPT !.kind = k, !.pc = First]]
      BY <1>1 DEF EndPeer, IdlePeer
    <2>2. [NoTask EXCEPT !.kind = k, !.pc = First] \in TaskType
      BY TaskShapes DEF First
    <2>3. (\A i \in Tasks \ {t} : tasks'[i] = tasks[i]) /\ tasks'[t].pc = First
      BY <1>0, <2>1, <2>2, Starts DEF NoTask
    <2>4. linked' = linked /\ peer' \in {peer, MarkClosed(peer)}
      BY <1>1 DEF EndPeer, IdlePeer
    <2>5. peer'.child = peer.child
      BY <1>0, <2>4, Workers
    <2>6. QED
      BY <2>3, <2>4, <2>5 DEF First, PeerGone, Cut
  <1>2. ASSUME EndController(t) \/ IdleController(t)
        PROVE  (\A i \in Tasks \ {t} : tasks'[i] = tasks[i]) /\ Cut'
    BY <1>0, <1>2 DEF EndController, IdleController, Cut
  <1>3. ASSUME SweepWorkers(t)
        PROVE  (\A i \in Tasks \ {t} : tasks'[i] = tasks[i]) /\ (tasks'[t].pc = "companion" => Cut')
    <2>1. shut' /\ UNCHANGED <<linked, peer>>
      BY <1>3 DEF SweepWorkers, Gating
    <2>2. CASE linked
      <3>1. tasks' = [tasks EXCEPT ![t] = [NoTask EXCEPT !.kind = "sweep", !.pc = First]]
        BY <1>3, <2>2 DEF SweepWorkers
      <3>2. [NoTask EXCEPT !.kind = "sweep", !.pc = First] \in TaskType
        BY TaskShapes DEF First
      <3>3. (\A i \in Tasks \ {t} : tasks'[i] = tasks[i]) /\ tasks'[t].pc = First
        BY <1>0, <3>1, <3>2, Starts DEF NoTask
      <3>4. QED
        BY <2>1, <3>3 DEF First, PeerGone, Cut
    <2>3. CASE ~linked
      BY <1>0, <1>3, <2>1, <2>3 DEF SweepWorkers, Cut
    <2>4. QED
      BY <2>2, <2>3
  <1>4. ASSUME Handoff(t)
        PROVE  (\A i \in Tasks \ {t} : tasks'[i] = tasks[i]) /\ (tasks'[t].pc = "companion" => Cut')
    <2>1. linked /\ linked'
      BY <1>4, Shapes DEF Handoff, CInv, OpenInv, Fields
    <2>2. CASE peer' = [peer EXCEPT !.handoff = TRUE, !.child = FALSE]
      <3>1. ~peer'.child
        BY <1>0, <2>2, Ends DEF Fields
      <3>2. QED
        BY <1>0, <1>4, <2>1, <3>1 DEF Handoff, Cut
    <2>3. CASE tasks' = [tasks EXCEPT ![t] =
                          [NoTask EXCEPT !.kind = "handoff", !.pc = "done", !.answer = "recovery"]]
      <3>1. (\A i \in Tasks \ {t} : tasks'[i] = tasks[i]) /\ tasks'[t].pc = "done"
        BY <1>0, <2>3, TaskShapes, Starts DEF NoTask
      <3>2. QED
        BY <3>1
    <2>4. QED
      BY <1>4, <2>2, <2>3 DEF Handoff
  <1>5. ASSUME SendPeer(t) \/ PumpPeer(t) \/ PeerReleased(t)
        PROVE  (\A i \in Tasks \ {t} : tasks'[i] = tasks[i]) /\ (tasks'[t].pc = "companion" => Cut')
    <2>1. linked /\ linked'
      BY <1>5 DEF SendPeer, PumpPeer, PeerReleased, CInv, TaskInv
    <2>2. \/ tasks' = At(t, "queued") \/ tasks' = At(t, "released")
          \/ tasks' = Answer(t, "recovery") \/ tasks' = Answer(t, "stale")
          \/ tasks' = At(t, "companion") /\ peer' \in {Gone(peer), Confirmed(peer)}
      BY <1>5, <2>1 DEF SendPeer, PumpPeer, PeerReleased, PeerPreserved, PeerWasReleased, AfterPeer,
         TreeStops
    <2>3. peer' \in {Gone(peer), Confirmed(peer)} => ~peer'.child
      BY <1>0, Workers
    <2>4. (\A i \in Tasks \ {t} : tasks'[i] = tasks[i])
          /\ (tasks'[t].pc = "companion" => tasks' = At(t, "companion"))
      BY <1>0, <2>2, TaskMoves, TaskEnds
    <2>5. CASE tasks' = At(t, "companion") /\ peer' \in {Gone(peer), Confirmed(peer)}
      BY <2>1, <2>3, <2>4, <2>5 DEF Cut
    <2>6. CASE \/ tasks' = At(t, "queued") \/ tasks' = At(t, "released")
               \/ tasks' = Answer(t, "recovery") \/ tasks' = Answer(t, "stale")
      <3>1. tasks'[t].pc # "companion"
        BY <1>0, <2>6, TaskMoves, TaskEnds
      <3>2. QED
        BY <2>4, <3>1
    <2>7. QED
      BY <2>2, <2>5, <2>6
  <1>6. ASSUME ControllerReleased(t) \/ ControllerStale(t) \/ Preserve(t) \/ Conclude(t)
        PROVE  (\A i \in Tasks \ {t} : tasks'[i] = tasks[i]) /\ tasks'[t].pc # "companion"
    <2>1. \/ tasks' = At(t, "finish") \/ tasks' = At(t, "preserve")
          \/ \E a \in {"recovery", "stale", "closed"} : tasks' = Answer(t, a)
      BY <1>6 DEF ControllerReleased, ControllerStale, Preserve, Conclude
    <2>2. QED
      BY <1>0, <2>1, TaskMoves, TaskEnds
  <1>7. (\A i \in Tasks \ {t} : tasks'[i] = tasks[i]) /\ (tasks'[t].pc = "companion" => Cut')
    BY <1>1, <1>2, <1>3, <1>4, <1>5, <1>6 DEF TeardownStep
  <1>8. QED
    BY <1>7

\* With every lease renewed, the open, the service, the workers and the
\* teardowns keep the service under its peer.
LEMMA SStep ==
    ASSUME ~LeaseRunsOut
    PROVE  CInv /\ SInv /\ [CompositeNext]_compositeVars => SInv'
  <1> SUFFICES ASSUME CInv, SInv, [CompositeNext]_compositeVars PROVE SInv'
    OBVIOUS
  <1>0. CInv' /\ hidden \in BOOLEAN /\ linked \in BOOLEAN /\ attached \in BOOLEAN /\ severed \in BOOLEAN
    BY CStep DEF CInv, CompositeTypeOK
  <1>1. CASE OpenController
    <2>1. /\ opening = "idle" /\ ~attached /\ late = {} /\ \A t \in Tasks : tasks[t].pc = "idle"
      BY <1>1 DEF OpenController, CInv, OpenInv, PeerInv
    <2>2. UNCHANGED <<tasks, attached, late, severed>>
      BY <1>1 DEF OpenController, aside
    <2>3. QED
      BY <2>1, <2>2 DEF SInv, PeerGoesFirst
  <1>2. CASE UNCHANGED compositeVars
    BY <1>2 DEF compositeVars, aside, SInv, Cut, PeerGoesFirst
  <1>3. ASSUME CompositeNext, ~OpenController PROVE SInv'
    <2>1. Cut => Cut'
      BY <1>0, <1>3, CutStays
    <2>2. Cut => ~attached
      BY CutIsEmpty
    <2>3. \A t \in Tasks : tasks'[t].pc = "companion" => Cut'
      <3>1. CASE tasks' = tasks
        BY <2>1, <3>1 DEF SInv
      <3>2. CASE \E t \in Tasks : TeardownStep(t)
        BY <2>1, <3>2, Arrives DEF SInv
      <3>3. QED
        BY <1>3, <3>1, <3>2 DEF CompositeNext, OpenController, PipeReady, AdmitPeer, AttachAnswered,
           LateRefusal, LateAttach, Undo, ServiceReleases, ServiceFails, ServicePreserves,
           ServiceReports, PeerDies, LatePeer, LateController
    <2>4. CASE Undo
      <3>1. /\ opening = "undo" /\ attached' = attached
            /\ ControllerConfirms \/ ControllerGone \/ (ControllerUnconfirmed /\ hidden' = FALSE)
        BY <2>4 DEF Undo
      <3>2. ~attached
        BY <3>1 DEF CInv, PeerInv
      <3>3. severed' = severed /\ ("ctl" \in late' => "ctl" \in late \/ ~hidden')
        BY <1>0, <3>1, <3>2 DEF ControllerConfirms, ControllerGone, ControllerUnconfirmed
      <3>4. QED
        BY <2>1, <2>3, <3>1, <3>2, <3>3 DEF SInv, PeerGoesFirst, Cut
    <2>5. CASE LateController \/ \E t \in Tasks : ControllerReleased(t)
      <3>1. Cut /\ attached' = attached
        BY <2>5 DEF LateController, ControllerReleased, SInv
      <3>2. severed' = severed
        BY <1>0, <2>2, <2>5, <3>1 DEF LateController, ControllerReleased, ControllerConfirms,
           ControllerGone, ControllerUnconfirmed
      <3>3. QED
        BY <2>1, <2>2, <2>3, <3>1, <3>2 DEF SInv, PeerGoesFirst
    <2>6. CASE AttachAnswered \/ LateAttach
      <3>1. UNCHANGED <<hidden, service, late, severed>> /\ (attached' => Serving \/ attached)
        <4>1. UNCHANGED <<hidden, service, late, severed>>
          BY <2>6 DEF AttachAnswered, LateAttach, aside
        <4>2. Serving \/ attached' = attached \/ attached' \in {FALSE, Serving /\ Alive}
          BY <2>6 DEF AttachAnswered, LateAttach
        <4>3. attached' => Serving \/ attached
          BY <4>2
        <4>4. QED
          BY <4>1, <4>3
      <3>2. hidden
        <4>1. peer.attach = "pending" /\ linked
          BY <2>6, Shapes DEF AttachAnswered, LateAttach, Unsettled, Alive, CInv, OpenInv, Fields
        <4>2. QED
          BY <4>1 DEF CInv, PeerInv
      <3>3. QED
        BY <2>1, <2>3, <3>1, <3>2 DEF SInv, PeerGoesFirst, Serving
    <2>7. CASE \/ PipeReady \/ AdmitPeer \/ LateRefusal \/ ServiceReleases \/ ServiceFails
               \/ ServicePreserves \/ ServiceReports \/ PeerDies \/ LatePeer
      <3>1. severed' = severed /\ ("ctl" \in late' => "ctl" \in late)
        BY <2>7 DEF PipeReady, AdmitPeer, LateRefusal, ServiceReleases, ServiceFails,
           ServicePreserves, ServiceReports, PeerDies, LatePeer, aside
      <3>2. attached' => attached /\ hidden' = hidden /\ service' = service
        BY <2>7 DEF PipeReady, AdmitPeer, LateRefusal, ServiceReleases, ServiceFails,
           ServicePreserves, ServiceReports, TellParent, PeerDies, LatePeer, CInv, PeerInv, SInv
      <3>3. QED
        BY <2>1, <2>3, <3>1, <3>2 DEF SInv, PeerGoesFirst
    <2>8. ASSUME NEW t \in Tasks, TeardownStep(t), ~ControllerReleased(t) PROVE SInv'
      <3>1. /\ UNCHANGED <<hidden, service, severed>> /\ (attached' => attached)
            /\ "ctl" \in late' => "ctl" \in late
        BY <2>8 DEF TeardownStep, EndPeer, IdlePeer, EndController, IdleController, SweepWorkers,
           Handoff, SendPeer, PumpPeer, PeerReleased, ControllerStale, Preserve, Conclude, aside
      <3>2. QED
        BY <2>1, <2>3, <3>1 DEF SInv, PeerGoesFirst
    <2>9. QED
      BY <1>3, <2>4, <2>5, <2>6, <2>7, <2>8 DEF CompositeNext
  <1>4. QED
    BY <1>1, <1>2, <1>3

(***************************************************************************)
(* However many teardowns (end_session, idle releases, sweeps, shutdown,   *)
(* handoff) meet a composite session, at any stage of its open or of its   *)
(* service, none takes the controller's service away while the public      *)
(* peer is still attached through it (engine.rs, release_tree), provided   *)
(* that the owner's lease does not run out under the open: a sweep of a    *)
(* lease shuts no gate, and may come between the two opens.                *)
(***************************************************************************)
THEOREM PeerFirst ==
    ASSUME ~LeaseRunsOut
    PROVE  CompositeSpec => []PeerGoesFirst
  <1>1. CompositeInit => SInv
    BY DEF CompositeInit, SInv, PeerGoesFirst, NoTask
  <1>2. SInv => PeerGoesFirst
    BY DEF SInv
  <1>3. CInv /\ SInv /\ [CompositeNext]_compositeVars => SInv'
    BY SStep
  <1>4. QED
    BY CInit, CStep, <1>1, <1>2, <1>3, PTL DEF CompositeSpec

-----------------------------------------------------------------------------
(***************************************************************************)
(* A controller that holds its target stays within somebody's reach.       *)
(***************************************************************************)
\* A teardown that has closed the peer and has yet to deal with the controller.
Closing(t) ==
    /\ tasks[t].of = "peer"
    /\ \/ tasks[t].pc \in {"companion", "preserve"}
       \/ tasks[t].pc \in {"peer", "queued", "released"} /\ tasks[t].kind # "end"

ClosingController(t) ==
    tasks[t].of = "ctl" /\ tasks[t].pc = "companion" /\ tasks[t].kind # "end"

\* What is known of the controller while it holds the target.
HeldInv ==
    /\ holds => ~ctl.released /\ opening # "idle" /\ ctl.state \in {"open", "control", "closed"}
    /\ holds /\ ~linked /\ service \in {"none", "over"} => ~hidden
    /\ \A t \in Tasks : tasks[t].pc = "finish" => ~holds

\* What is known of the peer.
PublicInv ==
    /\ linked => peer.state # "none"
    /\ \A t \in Tasks :
         tasks[t].pc \in {"companion", "preserve"} /\ tasks[t].of = "peer" => Verified(peer)
    /\ holds /\ peer.handoff /\ ~peer.released => peer.state = "unresolved"

\* Neither is closed over a held target but by a teardown that is still at
\* work, and a peer that failed leaves the controller to the open, which
\* releases or reveals it; or the reader settled the peer with nobody waiting.
ClosedInv ==
    /\ holds /\ peer.state = "closed" => alone \/ \E t \in Tasks : Closing(t)
    /\ holds /\ peer.state = "failed" => alone \/ opening = "undo" \/ ~hidden
    /\ holds /\ ctl.state = "closed" => \E t \in Tasks : ClosingController(t)

ReachInv == HeldInv /\ PublicInv /\ ClosedInv

\* A step that leaves the teardowns alone, and closes nothing.
LEMMA TasksAside ==
    ASSUME ClosedInv, tasks' = tasks, holds' => holds, alone => alone',
           hidden' => hidden, opening' = opening \/ opening # "undo",
           holds' => peer'.state \notin {"closed", "failed"} \/ peer'.state = peer.state,
           holds' => ctl'.state # "closed" \/ ctl'.state = ctl.state
    PROVE  ClosedInv'
  BY DEF ClosedInv, Closing, ClosingController

\* The controller's release ends its hold of the target, or is preserved.
LEMMA Settled ==
    ASSUME CInv, HeldInv, ControllerConfirms \/ ControllerGone \/ ControllerUnconfirmed
    PROVE  \/ ~holds'
           \/ /\ holds' = holds /\ service' = service /\ ctl'.state = "control" /\ ~ctl'.released
              /\ ControllerUnconfirmed
  <1>1. CASE ControllerConfirms
    BY <1>1 DEF ControllerConfirms
  <1>2. CASE ControllerGone
    BY <1>2 DEF ControllerGone, HeldInv
  <1>3. CASE ControllerUnconfirmed
    <2>1. /\ ctl \in SessionType /\ ~ctl.released /\ ctl' = PreserveLiveControl(ctl)
          /\ UNCHANGED <<holds, service>>
      BY <1>3 DEF ControllerUnconfirmed, CInv, CompositeTypeOK
    <2>2. ctl'.state = "control" /\ ~ctl'.released
      <3>1. OnlyState(ctl', ctl, IF ctl.released THEN ctl.state ELSE "control")
        BY <2>1, Moves
      <3>2. QED
        BY <2>1, <3>1 DEF OnlyState, Fields
    <2>3. QED
      BY <1>3, <2>1, <2>2
  <1>4. QED
    BY <1>1, <1>2, <1>3

\* A teardown that did not get the peer's release leaves it unresolved.
LEMMA Preserved ==
    ASSUME CInv, PublicInv, ~peer.released, peer' = PreserveKernel(peer)
    PROVE  /\ peer'.released = peer.released /\ peer'.handoff = peer.handoff
           /\ peer'.state = peer.state \/ peer'.state = "unresolved"
           /\ holds => peer'.state = "unresolved"
  <1>1. OnlyState(peer', peer, IF Verified(peer) THEN peer.state ELSE "unresolved")
    BY Moves DEF CInv, CompositeTypeOK
  <1>2. QED
    BY <1>1 DEF OnlyState, Fields, PublicInv, Verified

(* Every step of the open, of the service, of a worker and of a teardown    *)
(* keeps the controller within reach.                                       *)
LEMMA RStep == CInv /\ ReachInv /\ [CompositeNext]_compositeVars => ReachInv'
  <1> SUFFICES ASSUME CInv, ReachInv, [CompositeNext]_compositeVars PROVE ReachInv'
    OBVIOUS
  <1> USE DEF ReachInv
  <1>0. /\ peer \in SessionType /\ ctl \in SessionType /\ tasks \in [Tasks -> TaskType]
        /\ linked \in BOOLEAN /\ hidden \in BOOLEAN /\ holds \in BOOLEAN /\ alone \in BOOLEAN
    BY DEF CInv, CompositeTypeOK
  <1>1. CASE OpenController
    <2>1. /\ opening = "idle" /\ opening' # "idle" /\ peer' = peer /\ linked' = linked
          /\ tasks' = tasks /\ ~linked /\ peer = Unopened /\ service = "none"
          /\ \A t \in Tasks : tasks[t].pc = "idle"
      BY <1>1 DEF OpenController, CInv, OpenInv
    <2>2. \/ ctl' = Started /\ holds' /\ (service' = "serving" \/ ~hidden')
          \/ holds' = holds /\ ~holds
      BY <1>1, <2>1 DEF OpenController, HeldInv
    <2>3. /\ Started.state = "open" /\ ~Started.released /\ Unopened.state = "none"
          /\ ~Unopened.handoff
      BY DEF Started, Unopened
    <2>4. HeldInv'
      BY <2>1, <2>2, <2>3 DEF HeldInv
    <2>5. PublicInv'
      BY <2>1, <2>2, <2>3 DEF PublicInv
    <2>6. ClosedInv'
      BY <2>1, <2>2, <2>3 DEF ClosedInv
    <2>7. QED
      BY <2>4, <2>5, <2>6
  <1>2. CASE PipeReady
    <2>1. /\ opening = "pipe" /\ opening' # "idle"
          /\ UNCHANGED <<ctl, peer, hidden, linked, service, tasks, holds, alone>>
      BY <1>2 DEF PipeReady, aside
    <2>2. HeldInv' /\ PublicInv'
      BY <2>1 DEF HeldInv, PublicInv, Verified
    <2>3. ClosedInv'
      BY <2>1, TasksAside
    <2>4. QED
      BY <2>2, <2>3
  <1>3. CASE AdmitPeer
    <2>1. /\ opening = "admit" /\ opening' # "idle" /\ UNCHANGED <<ctl, hidden, service, tasks, holds, alone>>
          /\ \/ UNCHANGED <<peer, linked>>
             \/ peer' = Started /\ linked' /\ ~linked
      BY <1>3 DEF AdmitPeer, CInv, OpenInv
    <2>2. Started.state = "open" /\ ~Started.released /\ ~Started.handoff
      BY DEF Started, Unopened
    <2>3. HeldInv'
      BY <2>1 DEF HeldInv
    <2>4. PublicInv'
      BY <2>1, <2>2 DEF PublicInv, Verified, CInv, TaskInv, OpenInv, Unopened
    <2>5. ClosedInv'
      BY <2>1, <2>2, TasksAside
    <2>6. QED
      BY <2>3, <2>4, <2>5
  <1>4. CASE AttachAnswered
    <2>1. /\ opening = "attach" /\ opening' \in {"undo", "returned"}
          /\ UNCHANGED <<ctl, hidden, linked, service, tasks, holds, alone>>
      BY <1>4 DEF AttachAnswered, aside
    <2>2. /\ peer'.state # "none"
          /\ peer'.handoff = peer.handoff /\ (peer.released => peer'.released)
          /\ \/ peer'.state = peer.state
             \/ peer'.state = "unresolved"
             \/ peer'.state = "failed" /\ opening' = "undo" /\ peer'.released
      <3>1. peer.state # "none"
        BY <1>4 DEF AttachAnswered, CInv, OpenInv, PublicInv
      <3>2. /\ OnlyState(PreserveKernel(peer), peer, IF Verified(peer) THEN peer.state ELSE "unresolved")
            /\ Fields(FailUnclaimed(peer), IF IsLive(peer) THEN "failed" ELSE peer.state, TRUE, peer.handoff,
                      peer.attach, IF IsLive(peer) THEN FALSE ELSE peer.child)
        BY <1>0, Moves, Ends
      <3>3. CASE peer' = [SettleUncommitted(peer) EXCEPT !.attach = "over"] /\ opening' = "undo"
        <4>1. SettleUncommitted(peer) \in {peer, FailUnclaimed(peer)}
          BY DEF SettleUncommitted
        <4>2. CASE SettleUncommitted(peer) = peer
          BY <1>0, <3>1, <3>3, <4>2 DEF SessionType
        <4>3. CASE SettleUncommitted(peer) = FailUnclaimed(peer)
          <5>1. /\ peer'.state = FailUnclaimed(peer).state /\ peer'.handoff = FailUnclaimed(peer).handoff
                /\ peer'.released = FailUnclaimed(peer).released
            BY <3>2, <3>3, <4>3 DEF Fields, SessionType
          <5>2. QED
            BY <3>1, <3>2, <3>3, <5>1 DEF Fields
        <4>4. QED
          BY <4>1, <4>2, <4>3
      <3>4. CASE \E a \in {"opened", "over"} : peer' = [peer EXCEPT !.attach = a]
        BY <1>0, <3>1, <3>4 DEF SessionType
      <3>5. CASE \/ peer' = PreserveKernel(peer)
                 \/ peer' = [PreserveKernel(peer) EXCEPT !.attach = "over"]
        <4>1. /\ peer'.state = PreserveKernel(peer).state /\ peer'.handoff = PreserveKernel(peer).handoff
              /\ peer'.released = PreserveKernel(peer).released
          BY <3>2, <3>5 DEF OnlyState, Fields, SessionType
        <4>2. QED
          BY <3>1, <3>2, <4>1 DEF OnlyState, Fields
      <3>6. QED
        BY <1>4, <3>3, <3>4, <3>5 DEF AttachAnswered
    <2>3. HeldInv'
      BY <2>1 DEF HeldInv
    <2>4. PublicInv'
      BY <2>1, <2>2 DEF PublicInv, Verified
    <2>5. ClosedInv'
      BY <2>1, <2>2 DEF ClosedInv, Closing, ClosingController
    <2>6. QED
      BY <2>3, <2>4, <2>5
  <1>5. CASE LateRefusal \/ LateAttach \/ LatePeer
    <2>1. /\ opening' = opening /\ UNCHANGED <<ctl, hidden, linked, service, tasks, holds>>
          /\ peer.child
      BY <1>5 DEF LateRefusal, LateAttach, LatePeer, Unsettled, Alive
    <2>2. /\ peer'.state # "none" \/ peer'.state = peer.state
          /\ peer'.handoff = peer.handoff /\ (peer.released => peer'.released)
          /\ (alone' = TRUE /\ peer'.released) \/ (peer'.state = peer.state /\ alone' = alone)
      <3>1. CASE LateRefusal
        <4>1. /\ FailUnclaimed(peer) \in SessionType /\ FailUnclaimed(peer).released
              /\ FailUnclaimed(peer).handoff = peer.handoff
              /\ FailUnclaimed(peer).state \in {"failed", peer.state}
          BY <1>0, Ends DEF Fields
        <4>2. peer' = [FailUnclaimed(peer) EXCEPT !.attach = "over"] /\ alone' = TRUE
          BY <3>1 DEF LateRefusal
        <4>3. QED
          BY <4>1, <4>2 DEF SessionType
      <3>2. CASE LateAttach
        BY <1>0, <3>2 DEF LateAttach, SessionType, aside
      <3>3. CASE LatePeer
        <4>1. Confirmed(peer).released /\ Confirmed(peer).handoff = peer.handoff
              /\ Confirmed(peer).state \in {"closed", peer.state}
          BY <1>0, Ends DEF Fields
        <4>2. QED
          BY <3>3, <4>1 DEF LatePeer
      <3>4. QED
        BY <1>5, <3>1, <3>2, <3>3
    <2>3. HeldInv'
      BY <2>1 DEF HeldInv
    <2>4. PublicInv'
      BY <2>1, <2>2 DEF PublicInv, Verified
    <2>5. ClosedInv'
      BY <2>1, <2>2 DEF ClosedInv, Closing, ClosingController
    <2>6. QED
      BY <2>3, <2>4, <2>5
  <1>6. CASE Undo
    <2>1. opening' = "returned" /\ UNCHANGED <<peer, linked, tasks, alone>> /\ (hidden' => hidden)
      BY <1>6 DEF Undo
    <2>2. \/ ~holds'
          \/ /\ holds' = holds /\ service' = service /\ ctl'.state = "control" /\ ~ctl'.released
             /\ hidden' = FALSE
      BY <1>6, Settled DEF Undo, ControllerConfirms, ControllerGone, HeldInv
    <2>3. HeldInv'
      BY <2>1, <2>2 DEF HeldInv
    <2>4. PublicInv'
      BY <2>1, <2>2 DEF PublicInv, Verified
    <2>5. ClosedInv'
      BY <2>1, <2>2 DEF ClosedInv, Closing, ClosingController
    <2>6. QED
      BY <2>3, <2>4, <2>5
  <1>7. CASE ServiceReleases \/ LateController
    <2>1. ~holds' /\ UNCHANGED <<peer, linked, tasks>>
      BY <1>7 DEF ServiceReleases, LateController
    <2>2. QED
      BY <2>1 DEF HeldInv, PublicInv, ClosedInv, Verified
  <1>8. CASE ServiceFails \/ ServicePreserves
    <2>1. /\ UNCHANGED <<opening, peer, hidden, linked, tasks, holds, alone>>
          /\ service' \in {"failing", "orphaned"}
          /\ ctl' \in {ctl, PreserveLiveControl(ctl)}
      BY <1>8 DEF ServiceFails, ServicePreserves, aside
    <2>2. holds => ctl' = ctl \/ (ctl'.state = "control" /\ ~ctl'.released)
      <3>1. OnlyState(PreserveLiveControl(ctl), ctl, IF ctl.released THEN ctl.state ELSE "control")
        BY <1>0, Moves
      <3>2. QED
        BY <2>1, <3>1 DEF HeldInv, OnlyState, Fields
    <2>3. HeldInv'
      BY <2>1, <2>2 DEF HeldInv
    <2>4. PublicInv'
      BY <2>1 DEF PublicInv, Verified
    <2>5. ClosedInv'
      BY <2>1, <2>2, TasksAside
    <2>6. QED
      BY <2>3, <2>4, <2>5
  <1>9. CASE ServiceReports
    <2>1. UNCHANGED <<opening, ctl, linked, tasks, holds, alone>> /\ service' = "over"
      BY <1>9 DEF ServiceReports, aside
    <2>2. \/ linked /\ peer' = PreserveComposite(peer) /\ hidden' = hidden
          \/ ~linked /\ ~hidden' /\ peer' = peer
      BY <1>9 DEF ServiceReports, TellParent
    <2>3. /\ peer'.released = peer.released /\ peer'.handoff = peer.handoff
          /\ peer'.state = peer.state \/ (peer'.state = "control" /\ peer.state # "unresolved")
      <3>1. OnlyState(PreserveComposite(peer), peer,
                      IF peer.state \in {"open", "control"} \/ (peer.state = "closed" /\ Verified(peer))
                      THEN "control" ELSE peer.state)
        BY <1>0, Moves
      <3>2. QED
        BY <2>2, <3>1 DEF OnlyState, Fields
    <2>4. HeldInv'
      BY <2>1, <2>2 DEF HeldInv
    <2>5. PublicInv'
      BY <2>1, <2>3 DEF PublicInv, Verified
    <2>6. ClosedInv'
      BY <2>1, <2>2, <2>3, TasksAside
    <2>7. QED
      BY <2>4, <2>5, <2>6
  <1>10. CASE PeerDies
    <2>1. /\ UNCHANGED <<opening, ctl, hidden, linked, service, tasks, holds, alone>>
          /\ ~peer.released /\ (peer' = peer \/ peer' = PreserveKernel(peer))
      BY <1>10 DEF PeerDies, Alive, CInv, PeerInv, Verified
    <2>2. /\ peer'.released = peer.released /\ peer'.handoff = peer.handoff
          /\ peer'.state = peer.state \/ peer'.state = "unresolved"
      BY <2>1, Preserved
    <2>3. HeldInv'
      BY <2>1 DEF HeldInv
    <2>4. PublicInv'
      BY <2>1, <2>2 DEF PublicInv, Verified
    <2>5. ClosedInv'
      BY <2>1, <2>2, TasksAside
    <2>6. QED
      BY <2>3, <2>4, <2>5
  <1>11. ASSUME NEW t \in Tasks, EndPeer(t) PROVE ReachInv'
    <2>1. /\ UNCHANGED <<opening, ctl, peer, hidden, linked, service, holds, alone>>
          /\ tasks[t].pc = "idle" /\ peer.state \notin {"closed", "failed"}
          /\ tasks' = [tasks EXCEPT ![t] = [NoTask EXCEPT !.kind = "end", !.pc = First]]
      BY <1>11 DEF EndPeer, AcceptsTeardown, IsLive, aside
    <2>2. /\ \A i \in Tasks \ {t} : tasks'[i] = tasks[i]
          /\ tasks'[t].pc = "peer" \/ (tasks'[t].pc = "companion" /\ Verified(peer))
      BY <1>0, <2>1 DEF NoTask, First, PeerGone
    <2>3. HeldInv'
      BY <2>1, <2>2 DEF HeldInv
    <2>4. PublicInv'
      BY <2>1, <2>2 DEF PublicInv, Verified
    <2>5. ClosedInv'
      BY <2>1, <2>2 DEF ClosedInv, ClosingController
    <2>6. QED
      BY <2>3, <2>4, <2>5
  <1>12. ASSUME NEW t \in Tasks, IdlePeer(t) PROVE ReachInv'
    <2>1. /\ UNCHANGED <<opening, ctl, hidden, linked, service, holds, alone>>
          /\ tasks[t].pc = "idle" /\ peer' = MarkClosed(peer) /\ IsLive(peer)
          /\ tasks' = [tasks EXCEPT ![t] = [NoTask EXCEPT !.kind = "idle", !.pc = First]]
      BY <1>12 DEF IdlePeer, aside
    <2>2. /\ \A i \in Tasks \ {t} : tasks'[i] = tasks[i]
          /\ tasks'[t].of = "peer" /\ tasks'[t].kind = "idle"
          /\ tasks'[t].pc = "peer" \/ (tasks'[t].pc = "companion" /\ Verified(peer))
      BY <1>0, <2>1 DEF NoTask, First, PeerGone
    <2>3. /\ peer'.released = peer.released /\ peer'.handoff = peer.handoff
          /\ peer'.state = peer.state
               \/ (peer'.state = "closed" /\ (peer.released \/ peer.state # "unresolved"))
          /\ peer'.state # "failed"
      <3>1. OnlyState(peer', peer,
                      IF IsLive(peer) /\ (peer.released \/ peer.state \notin {"unresolved", "control"})
                      THEN "closed" ELSE peer.state)
        BY <1>0, <2>1, Moves
      <3>2. QED
        BY <2>1, <3>1 DEF OnlyState, Fields, IsLive
    <2>4. HeldInv'
      BY <2>1, <2>2 DEF HeldInv
    <2>5. PublicInv'
      BY <2>1, <2>2, <2>3 DEF PublicInv, Verified
    <2>6. Closing(t)'
      BY <2>2 DEF Closing
    <2>7. ClosedInv'
      BY <2>1, <2>2, <2>3, <2>6 DEF ClosedInv, ClosingController
    <2>8. QED
      BY <2>4, <2>5, <2>7
  <1>13. ASSUME NEW t \in Tasks, EndController(t) PROVE ReachInv'
    <2>1. /\ UNCHANGED <<opening, ctl, peer, hidden, linked, service, holds, alone>>
          /\ tasks[t].pc = "idle"
          /\ \A i \in Tasks \ {t} : tasks'[i] = tasks[i]
          /\ tasks'[t].pc = "companion" /\ tasks'[t].of = "ctl"
      BY <1>0, <1>13 DEF EndController, NoTask, aside
    <2>2. HeldInv'
      BY <2>1 DEF HeldInv
    <2>3. PublicInv'
      BY <2>1 DEF PublicInv, Verified
    <2>4. ClosedInv'
      BY <2>1 DEF ClosedInv, Closing, ClosingController
    <2>5. QED
      BY <2>2, <2>3, <2>4
  <1>14. ASSUME NEW t \in Tasks, SweepWorkers(t) \/ IdleController(t) PROVE ReachInv'
    <2>1. /\ UNCHANGED <<opening, peer, hidden, linked, service, holds, alone>>
          /\ tasks[t].pc = "idle" /\ \A i \in Tasks \ {t} : tasks'[i] = tasks[i]
      BY <1>0, <1>14 DEF SweepWorkers, IdleController, aside
    <2>2. CASE SweepWorkers(t) /\ linked
      <3>1. /\ ctl' = ctl
            /\ tasks' = [tasks EXCEPT ![t] = [NoTask EXCEPT !.kind = "sweep", !.pc = First]]
        BY <2>2 DEF SweepWorkers
      <3>2. tasks'[t].pc = "peer" \/ (tasks'[t].pc = "companion" /\ Verified(peer))
        BY <1>0, <3>1 DEF NoTask, First, PeerGone
      <3>3. HeldInv' /\ PublicInv'
        BY <2>1, <3>1, <3>2 DEF HeldInv, PublicInv, Verified
      <3>4. ClosedInv'
        BY <2>1, <3>1, <3>2 DEF ClosedInv, Closing, ClosingController
      <3>5. QED
        BY <3>3, <3>4
    <2>3. CASE IdleController(t) \/ ~linked
      <3>1. /\ ctl' = MarkClosed(ctl)
            /\ \E k \in {"sweep", "idle"} :
                 tasks' = [tasks EXCEPT ![t] = [NoTask EXCEPT !.kind = k, !.pc = "companion", !.of = "ctl"]]
        BY <1>14, <2>3 DEF SweepWorkers, IdleController
      <3>2. tasks'[t].pc = "companion" /\ tasks'[t].of = "ctl" /\ tasks'[t].kind # "end"
        BY <1>0, <3>1 DEF NoTask
      <3>3. ctl'.released = ctl.released /\ (ctl'.state = ctl.state \/ ctl'.state = "closed")
        <4>1. OnlyState(ctl', ctl,
                        IF IsLive(ctl) /\ (ctl.released \/ ctl.state \notin {"unresolved", "control"})
                        THEN "closed" ELSE ctl.state)
          BY <1>0, <3>1, Moves
        <4>2. QED
          BY <4>1 DEF OnlyState, Fields
      <3>4. HeldInv' /\ PublicInv'
        BY <2>1, <3>2, <3>3 DEF HeldInv, PublicInv, Verified
      <3>5. ClosedInv'
        BY <2>1, <3>2 DEF ClosedInv, Closing, ClosingController
      <3>6. QED
        BY <3>4, <3>5
    <2>4. QED
      BY <1>14, <2>2, <2>3
  <1>15. ASSUME NEW t \in Tasks, Handoff(t) PROVE ReachInv'
    <2>1. /\ UNCHANGED <<opening, ctl, hidden, linked, service, holds, alone>>
          /\ tasks[t].pc = "idle" /\ peer.state = "unresolved"
          /\ \A i \in Tasks \ {t} : tasks'[i] = tasks[i]
      BY <1>0, <1>15 DEF Handoff, aside
    <2>2. /\ peer'.state = "unresolved" /\ (Verified(peer) => Verified(peer'))
          /\ tasks'[t].pc = "done" \/ (tasks'[t].pc = "companion" /\ Verified(peer'))
      <3>1. CASE /\ peer' = [peer EXCEPT !.handoff = TRUE, !.child = FALSE]
                 /\ tasks' = [tasks EXCEPT ![t] = [NoTask EXCEPT !.kind = "handoff", !.pc = "companion"]]
        <4>1. peer'.state = "unresolved" /\ peer'.handoff
          BY <1>0, <2>1, <3>1 DEF SessionType
        <4>2. tasks'[t].pc = "companion"
          BY <1>0, <3>1 DEF NoTask
        <4>3. QED
          BY <4>1, <4>2 DEF Verified
      <3>2. CASE /\ UNCHANGED peer
                 /\ tasks' = [tasks EXCEPT ![t] =
                                [NoTask EXCEPT !.kind = "handoff", !.pc = "done", !.answer = "recovery"]]
        BY <1>0, <2>1, <3>2 DEF NoTask, Verified
      <3>3. QED
        BY <1>15, <3>1, <3>2 DEF Handoff
    <2>3. HeldInv'
      BY <2>1, <2>2 DEF HeldInv
    <2>4. PublicInv'
      BY <2>1, <2>2 DEF PublicInv
    <2>5. ClosedInv'
      BY <2>1, <2>2 DEF ClosedInv, ClosingController
    <2>6. QED
      BY <2>3, <2>4, <2>5
  <1>16. ASSUME NEW t \in Tasks, SendPeer(t) \/ PumpPeer(t) \/ PeerReleased(t) PROVE ReachInv'
    <2>1. /\ UNCHANGED <<opening, ctl, hidden, linked, service, holds, alone>>
          /\ tasks[t].pc \in {"peer", "queued", "released"}
      BY <1>16 DEF SendPeer, PumpPeer, PeerReleased, aside
    <2>2. linked /\ tasks[t].of = "peer"
      BY <2>1 DEF CInv, TaskInv
    <2>3. CASE ~peer.released /\ peer' = PreserveKernel(peer) /\ tasks' = Answer(t, "recovery")
      <3>1. tasks'[t].pc = "done" /\ \A i \in Tasks \ {t} : tasks'[i] = tasks[i]
        BY <1>0, <2>3, TaskEnds
      <3>2. /\ peer'.released = peer.released /\ peer'.handoff = peer.handoff
            /\ peer'.state = peer.state \/ peer'.state = "unresolved"
            /\ holds => peer'.state = "unresolved"
        BY <2>3, Preserved
      <3>3. HeldInv'
        BY <2>1, <3>1 DEF HeldInv
      <3>4. PublicInv'
        BY <2>1, <3>1, <3>2 DEF PublicInv, Verified
      <3>5. ClosedInv'
        BY <2>1, <2>2, <3>1, <3>2 DEF ClosedInv, ClosingController
      <3>6. QED
        BY <3>3, <3>4, <3>5
    <2>4. CASE /\ peer' = peer /\ tasks' = Answer(t, "stale")
               /\ tasks[t].kind = "end" /\ tasks[t].pc = "queued"
      <3>1. tasks'[t].pc = "done" /\ \A i \in Tasks \ {t} : tasks'[i] = tasks[i]
        BY <1>0, <2>4, TaskEnds
      <3>2. HeldInv' /\ PublicInv'
        BY <2>1, <2>4, <3>1 DEF HeldInv, PublicInv, Verified
      <3>3. ~Closing(t) /\ ~ClosingController(t)
        BY <2>2, <2>4 DEF Closing, ClosingController
      <3>4. ClosedInv'
        BY <2>1, <2>4, <3>1, <3>3 DEF ClosedInv, Closing, ClosingController
      <3>5. QED
        BY <3>2, <3>4
    <2>5. CASE /\ \/ peer' = peer
                  \/ peer' = ClosingKernel(peer) /\ tasks[t].kind = "end"
               /\ tasks' = At(t, "queued") \/ tasks' = At(t, "released")
      <3>1. /\ tasks'[t].pc \in {"queued", "released"} /\ tasks'[t].of = "peer"
            /\ tasks'[t].kind = tasks[t].kind
            /\ \A i \in Tasks \ {t} : tasks'[i] = tasks[i]
        BY <1>0, <2>2, <2>5, TaskMoves
      <3>2. /\ peer'.released = peer.released /\ peer'.handoff = peer.handoff
            /\ peer'.state = peer.state \/ peer'.state = "unresolved"
        <4>1. OnlyState(ClosingKernel(peer), peer, IF IsLive(peer) THEN "unresolved" ELSE peer.state)
          BY <1>0, Moves
        <4>2. QED
          BY <2>5, <4>1 DEF OnlyState, Fields
      <3>3. HeldInv'
        BY <2>1, <3>1 DEF HeldInv
      <3>4. PublicInv'
        BY <2>1, <3>1, <3>2 DEF PublicInv, Verified
      <3>5. \A i \in Tasks : (Closing(i) => Closing(i)') /\ (ClosingController(i) => ClosingController(i)')
        BY <2>1, <2>2, <3>1 DEF Closing, ClosingController
      <3>6. ClosedInv'
        BY <2>1, <3>2, <3>5 DEF ClosedInv
      <3>7. QED
        BY <3>3, <3>4, <3>6
    <2>6. CASE /\ (peer' = Confirmed(peer) /\ peer.child) \/ (peer.released /\ peer' = Gone(peer))
               /\ tasks' = At(t, "companion")
      <3>1. /\ tasks'[t].pc = "companion" /\ tasks'[t].of = "peer"
            /\ \A i \in Tasks \ {t} : tasks'[i] = tasks[i]
        BY <1>0, <2>2, <2>6, TaskMoves
      <3>2. peer'.released /\ (peer'.state = "closed" \/ peer'.state = peer.state)
        <4>1. CASE peer' = Confirmed(peer)
          BY <1>0, <4>1, Ends DEF Fields
        <4>2. CASE peer.released /\ peer' = Gone(peer)
          BY <1>0, <4>2, Ends DEF Fields
        <4>3. QED
          BY <2>6, <4>1, <4>2
      <3>3. HeldInv'
        BY <2>1, <3>1 DEF HeldInv
      <3>4. PublicInv'
        BY <2>1, <3>1, <3>2 DEF PublicInv, Verified
      <3>5. Closing(t)'
        BY <3>1 DEF Closing
      <3>6. ClosedInv'
        BY <2>1, <2>2, <3>1, <3>2, <3>5 DEF ClosedInv, ClosingController
      <3>7. QED
        BY <3>3, <3>4, <3>6
    <2>7. CASE SendPeer(t)
      BY <2>3, <2>5, <2>7 DEF SendPeer, Refusable
    <2>8. CASE PumpPeer(t)
      BY <2>2, <2>3, <2>4, <2>5, <2>6, <2>8
         DEF PumpPeer, PeerPreserved, PeerWasReleased, AfterPeer, TreeStops
    <2>9. CASE PeerReleased(t)
      BY <2>2, <2>3, <2>6, <2>9
         DEF PeerReleased, PeerPreserved, PeerWasReleased, AfterPeer, TreeStops, Alive
    <2>10. QED
      BY <1>16, <2>7, <2>8, <2>9
  <1>17. ASSUME NEW t \in Tasks, ControllerReleased(t) \/ ControllerStale(t) PROVE ReachInv'
    <2>1. UNCHANGED <<opening, peer, hidden, linked, alone>> /\ tasks[t].pc = "companion"
      BY <1>17 DEF ControllerReleased, ControllerStale, aside
    <2>2. CASE (ControllerConfirms \/ ControllerGone) /\ tasks' = At(t, "finish")
      <3>1. ~holds'
        BY <2>2 DEF ControllerConfirms, ControllerGone, HeldInv
      <3>2. tasks'[t].pc = "finish" /\ \A i \in Tasks \ {t} : tasks'[i] = tasks[i]
        BY <1>0, <2>2, TaskMoves
      <3>3. QED
        BY <2>1, <3>1, <3>2 DEF HeldInv, PublicInv, ClosedInv, Verified
    <2>3. CASE ControllerUnconfirmed /\ tasks' = At(t, "preserve")
      <3>1. /\ tasks'[t].pc = "preserve" /\ tasks'[t].of = tasks[t].of
            /\ \A i \in Tasks \ {t} : tasks'[i] = tasks[i]
        BY <1>0, <2>3, TaskMoves
      <3>2. \/ ~holds'
            \/ holds' = holds /\ service' = service /\ ctl'.state = "control" /\ ~ctl'.released
        BY <2>3, Settled
      <3>3. HeldInv'
        BY <2>1, <3>1, <3>2 DEF HeldInv
      <3>4. PublicInv'
        BY <2>1, <3>1, <3>2 DEF PublicInv, Verified
      <3>5. \A i \in Tasks : Closing(i) => Closing(i)'
        BY <2>1, <3>1 DEF Closing
      <3>6. ClosedInv'
        BY <2>1, <3>2, <3>5 DEF ClosedInv
      <3>7. QED
        BY <3>3, <3>4, <3>6
    <2>4. CASE ControllerStale(t)
      <3>1. /\ UNCHANGED <<ctl, service, holds>> /\ tasks' = Answer(t, "stale")
            /\ tasks[t].of = "ctl" /\ tasks[t].kind = "end"
        BY <2>4 DEF ControllerStale
      <3>2. tasks'[t].pc = "done" /\ \A i \in Tasks \ {t} : tasks'[i] = tasks[i]
        BY <1>0, <3>1, TaskEnds
      <3>3. HeldInv' /\ PublicInv'
        BY <2>1, <3>1, <3>2 DEF HeldInv, PublicInv, Verified
      <3>4. ~Closing(t) /\ ~ClosingController(t)
        BY <3>1 DEF Closing, ClosingController
      <3>5. ClosedInv'
        BY <2>1, <3>1, <3>2, <3>4 DEF ClosedInv, Closing, ClosingController
      <3>6. QED
        BY <3>3, <3>5
    <2>5. QED
      BY <1>17, <2>2, <2>3, <2>4 DEF ControllerReleased
  <1>18. ASSUME NEW t \in Tasks, Preserve(t) PROVE ReachInv'
    <2>1. /\ UNCHANGED <<opening, ctl, hidden, linked, service, holds, alone>> /\ tasks[t].pc = "preserve"
          /\ tasks' = Answer(t, "recovery")
          /\ peer' = IF tasks[t].of = "peer" THEN PreserveComposite(peer) ELSE peer
      BY <1>18 DEF Preserve, aside
    <2>2. tasks'[t].pc = "done" /\ \A i \in Tasks \ {t} : tasks'[i] = tasks[i]
      BY <1>0, <2>1, TaskEnds
    <2>3. tasks[t].of = "peer" => Verified(peer)
      BY <2>1 DEF PublicInv
    <2>4. /\ peer'.released = peer.released /\ peer'.handoff = peer.handoff
          /\ peer'.state = peer.state \/ (peer'.state = "control" /\ peer.state # "unresolved")
          /\ tasks[t].of = "peer" => peer'.state # "closed"
      <3>1. OnlyState(PreserveComposite(peer), peer,
                      IF peer.state \in {"open", "control"} \/ (peer.state = "closed" /\ Verified(peer))
                      THEN "control" ELSE peer.state)
        BY <1>0, Moves
      <3>2. QED
        BY <2>1, <2>3, <3>1 DEF OnlyState, Fields
    <2>5. HeldInv'
      BY <2>1, <2>2 DEF HeldInv
    <2>6. PublicInv'
      BY <2>1, <2>2, <2>4 DEF PublicInv, Verified
    <2>7. ClosedInv'
      BY <2>1, <2>2, <2>4 DEF ClosedInv, Closing, ClosingController
    <2>8. QED
      BY <2>5, <2>6, <2>7
  <1>19. ASSUME NEW t \in Tasks, Conclude(t) PROVE ReachInv'
    <2>1. /\ UNCHANGED <<opening, ctl, hidden, linked, service, holds>> /\ tasks[t].pc = "finish"
          /\ tasks' = Answer(t, "closed")
      BY <1>19 DEF Conclude
    <2>2. tasks'[t].pc = "done" /\ \A i \in Tasks \ {t} : tasks'[i] = tasks[i]
      BY <1>0, <2>1, TaskEnds
    <2>3. ~holds /\ ~holds'
      BY <2>1 DEF HeldInv
    <2>4. \/ peer' = peer \/ peer' = FinishEnd(peer)
          \/ peer' = [peer EXCEPT !.state = "closed"]
      BY <1>19 DEF Conclude
    <2>5. /\ peer'.released = peer.released /\ peer'.handoff = peer.handoff
          /\ peer'.state = peer.state \/ peer'.state = "closed"
      <3>1. peer' = peer \/ peer' = [peer EXCEPT !.state = "closed"]
        BY <2>4 DEF FinishEnd
      <3>2. QED
        BY <1>0, <3>1 DEF SessionType
    <2>6. HeldInv' /\ ClosedInv'
      BY <2>1, <2>2, <2>3 DEF HeldInv, ClosedInv
    <2>7. PublicInv'
      BY <2>1, <2>2, <2>3, <2>5 DEF PublicInv, Verified
    <2>8. QED
      BY <2>6, <2>7
  <1>20. CASE UNCHANGED compositeVars
    <2>1. HeldInv' /\ PublicInv'
      BY <1>20 DEF compositeVars, HeldInv, PublicInv, Verified
    <2>2. ClosedInv'
      BY <1>20, TasksAside DEF compositeVars, aside
    <2>3. QED
      BY <2>1, <2>2
  <1>21. QED
    BY <1>1, <1>2, <1>3, <1>4, <1>5, <1>6, <1>7, <1>8, <1>9, <1>10, <1>11, <1>12, <1>13, <1>14,
       <1>15, <1>16, <1>17, <1>18, <1>19, <1>20 DEF CompositeNext, TeardownStep

(***************************************************************************)
(* However an open, a failing service and any number of teardowns meet, a  *)
(* controller that still holds its VTL1 target keeps a handle that reaches *)
(* it: a teardown that closed the session over it is still at work, and    *)
(* leaves it preserved (engine.rs, preserve_failed_companion,              *)
(* release_tree).  The one exception is the one ControllerKept names: the  *)
(* reader settled the peer alone, and the service failed afterwards.       *)
(***************************************************************************)
THEOREM Kept == CompositeSpec => []ControllerKept
  <1>1. CompositeInit => ReachInv
    BY DEF CompositeInit, ReachInv, HeldInv, PublicInv, ClosedInv, Unopened, NoTask
  <1>2. CInv /\ ReachInv => ControllerKept
    <2>1. SUFFICES ASSUME CInv, ReachInv, holds, ~InHand, ~alone PROVE HasAHandle
      BY DEF ControllerKept
    <2>2. /\ service \in {"none", "over"} /\ opening = "returned"
          /\ \A t \in Tasks : tasks[t].pc \in {"idle", "done"}
      BY <2>1 DEF InHand, AtRest, CInv, CompositeTypeOK
    <2>3. peer.state # "closed" /\ ctl.state # "closed" /\ (peer.state = "failed" => ~hidden)
      BY <2>1, <2>2 DEF ReachInv, ClosedInv, Closing, ClosingController
    <2>4. CASE linked /\ peer.state # "failed"
      BY <2>1, <2>3, <2>4 DEF ReachInv, PublicInv, HasAHandle, AcceptsTeardown, IsLive
    <2>5. CASE ~hidden
      BY <2>1, <2>3, <2>5 DEF ReachInv, HeldInv, HasAHandle, AcceptsTeardown, IsLive
    <2>6. QED
      BY <2>1, <2>2, <2>3, <2>4, <2>5 DEF ReachInv, HeldInv
  <1>3. QED
    BY CInit, CStep, RStep, <1>1, <1>2, PTL DEF CompositeSpec

-----------------------------------------------------------------------------
(* The live-kernel wait and break-in.  The inductive invariant.            *)

JobOrNone == 0 .. MaxJobs
Results == {"pending", "stopped", "failed", "woken", "refused", "done", "stale"}

BinderType == [pc : {"idle", "wake", "record", "undo", "stop"}, job : JobOrNone, wait : JobOrNone]

OpType ==
    [pc : {"idle", "enter", "begin", "waiting", "leave", "unpublish", "rendezvous", "drain", "settle",
           "work", "release"},
     job : JobOrNone, result : Results]

ClaimType ==
    [job : JobOrNone, waits : JobOrNone, published : JobOrNone, outcome : Results,
     interrupted : BOOLEAN, ending : BOOLEAN]

BreakType == [wait : JobOrNone, by : JobOrNone, filed : BOOLEAN, outcome : Results]
ActivityType == [phase : {"Armed", "Active", "Finished"}, broken : BOOLEAN]

LiveTypes ==
    /\ script \in [Jobs -> {"wait", "break", "sealed", "end"}]
    /\ read \in JobOrNone
    /\ binder \in BinderType
    /\ lane \in Seq(Jobs)
    /\ op \in OpType
    /\ claimed \in ClaimType
    /\ staged \in BreakType
    /\ activity \in ActivityType
    /\ scope \in {"free", "engine"}
    /\ held \in JobOrNone
    /\ filed \in JobOrNone
    /\ results \in [Jobs -> Results]
    /\ boundTo \in [Jobs -> JobOrNone]

(* Requests reach the engine in the order they were read: the one it is on, *)
(* those queued, the one the reader is still dealing with, and the unread.  *)
OrderInv ==
    /\ op.job <= read
    /\ op.job # NoJob => results[op.job] = "pending"
    /\ \A m \in DOMAIN lane : op.job < lane[m] /\ lane[m] <= read /\ results[lane[m]] = "pending"
    /\ \A m, n \in DOMAIN lane : m < n => lane[m] < lane[n]
    /\ binder.pc # "idle" =>
         /\ binder.job = read /\ op.job < read /\ results[read] = "pending"
         /\ binder.wait # NoJob
         /\ \A m \in DOMAIN lane : lane[m] < read
    /\ \A j \in Jobs : read < j => results[j] = "pending" /\ boundTo[j] = NoJob

(* What Running shows of the engine thread's job, step by step.             *)
EngineInv ==
    /\ op.job = NoJob <=> op.pc = "idle"
    /\ claimed.job = op.job
    /\ claimed.waits = IF op.job # NoJob /\ Kind(op.job) = "wait" THEN op.job ELSE NoJob
    /\ claimed.published = IF op.pc \in {"waiting", "leave", "unpublish"} THEN op.job ELSE NoJob
    /\ claimed.outcome = IF op.pc = "release" /\ Kind(op.job) = "wait" THEN op.result ELSE "pending"
    /\ op.pc \in {"enter", "begin", "waiting", "leave", "unpublish", "drain", "settle"}
         => Kind(op.job) = "wait"
    /\ op.pc = "work" => Kind(op.job) # "wait"
    /\ op.pc \in {"leave", "unpublish", "drain", "settle", "release"} => op.result # "pending"
    /\ op.pc \in {"enter", "begin"} => activity = ArmedWait
    /\ op.pc \in {"waiting", "leave"} => Interruptible(activity)

(* The break on record: the reader may still be dealing with it, and its    *)
(* outcome is what has become of its wait.                                  *)
StagedInv ==
    /\ binder.pc \in {"wake", "record", "undo"} => staged.by = binder.job /\ staged.wait = binder.wait
    /\ \/ staged = NoBreak
       \/ /\ staged.by \in Jobs /\ staged.wait \in Jobs
          /\ boundTo[staged.by] = staged.wait /\ Kind(staged.wait) = "wait"
          /\ staged.outcome =
               IF staged.wait # op.job THEN results[staged.wait]
               ELSE IF op.pc = "release" THEN op.result ELSE "pending"
          /\ staged.wait # op.job => results[staged.wait] # "pending"

(* A bound break is the one on record, on its way to the engine, or its     *)
(* answer is its wait's.                                                    *)
BoundInv ==
    \A j \in Jobs : boundTo[j] # NoJob =>
        /\ Kind(j) = "break"
        /\ boundTo[j] \in Jobs
        /\ \/ /\ results[j] = "pending" /\ staged.by = j /\ staged.wait = boundTo[j]
              /\ boundTo[j] < j
              /\ op.job = j => op.pc = "work"
           \/ /\ results[j] = "pending" /\ op.job = j /\ op.pc = "release"
              /\ op.result \in {"stale", results[boundTo[j]]}
              /\ results[boundTo[j]] # "pending"
           \/ results[j] # "pending" /\ results[j] \in {"refused", "stale", results[boundTo[j]]}

(* A wait in DbgEng that has its break is about to be interrupted, or has   *)
(* its interrupt, or is about to lose the break that could not be raised.   *)
WakeInv ==
    op.pc = "waiting" /\ staged.wait = op.job => filed # NoJob \/ binder.pc \in {"wake", "undo"}

LiveInv == LiveTypes /\ OrderInv /\ EngineInv /\ StagedInv /\ BoundInv /\ WakeInv

(* Before the first request nothing is bound, staged or queued.             *)
LEMMA LiveStart == LiveInit => LiveInv
<1> SUFFICES ASSUME LiveInit PROVE LiveInv
  OBVIOUS
<1> USE LiveBreakConstants DEF LiveInit, JobOrNone, Jobs, Results, NoJob, NoBreak, NoClaim
<1>1. LiveTypes
  <2>1. script \in [Jobs -> {"wait", "break", "sealed", "end"}]
    BY DEF Scripts
  <2>2. binder \in BinderType /\ op \in OpType
    BY DEF BinderType, OpType
  <2>3. claimed \in ClaimType
    BY DEF ClaimType
  <2>4. staged \in BreakType
    BY DEF BreakType
  <2>5. activity \in ActivityType
    BY DEF ActivityType, FinishWait, ArmedWait
  <2>6. results \in [Jobs -> Results] /\ boundTo \in [Jobs -> JobOrNone] /\ lane \in Seq(Jobs)
    OBVIOUS
  <2> QED
    BY <2>1, <2>2, <2>3, <2>4, <2>5, <2>6 DEF LiveTypes
<1>2. OrderInv
  BY DEF OrderInv
<1>3. EngineInv
  BY DEF EngineInv
<1>4. StagedInv /\ BoundInv /\ WakeInv
  BY DEF StagedInv, BoundInv, WakeInv
<1> QED
  BY <1>1, <1>2, <1>3, <1>4 DEF LiveInv

(* The fields of the records, one by one.                                   *)
LEMMA FieldTypes ==
    ASSUME LiveTypes
    PROVE  /\ binder.job \in JobOrNone /\ binder.wait \in JobOrNone
           /\ op.job \in JobOrNone /\ op.result \in Results
           /\ claimed.job \in JobOrNone /\ claimed.waits \in JobOrNone
           /\ claimed.published \in JobOrNone /\ claimed.outcome \in Results
           /\ staged.wait \in JobOrNone /\ staged.by \in JobOrNone /\ staged.outcome \in Results
BY DEF LiveTypes, BinderType, OpType, ClaimType, BreakType

(* What is in the engine's queue, on the engine and with the reader is a    *)
(* number, so that the order of the requests can be compared.               *)
LEMMA LaneTypes ==
    ASSUME LiveTypes
    PROVE  /\ \A m \in DOMAIN lane : m \in Nat /\ lane[m] \in Jobs
           /\ lane \in Seq(Jobs) /\ results \in [Jobs -> Results] /\ boundTo \in [Jobs -> JobOrNone]
           /\ read \in Nat
BY LiveBreakConstants DEF LiveTypes, JobOrNone

(* The engine thread gives its job back.                                    *)
LEMMA Vacated ==
    ASSUME LiveTypes, op' = [op EXCEPT !.pc = "idle", !.job = NoJob]
    PROVE  op' \in OpType /\ op'.pc = "idle" /\ op'.job = NoJob
<1>1. op \in OpType /\ NoJob \in JobOrNone
  BY LiveBreakConstants DEF LiveTypes, NoJob, JobOrNone
<1> QED
  BY <1>1 DEF OpType

(* What a request adds to the queue to the engine thread, and what the      *)
(* engine takes from it.                                                    *)
LEMMA Appended ==
    ASSUME NEW q \in Seq(Jobs), NEW j \in Jobs
    PROVE  /\ Append(q, j) \in Seq(Jobs)
           /\ \A m \in DOMAIN Append(q, j) :
                \/ m \in DOMAIN q /\ Append(q, j)[m] = q[m]
                \/ (\A n \in DOMAIN q : n < m) /\ Append(q, j)[m] = j /\ m \notin DOMAIN q
<1>1. /\ Append(q, j) \in Seq(Jobs) /\ Len(Append(q, j)) = Len(q) + 1
      /\ \A m \in 1 .. Len(q) : Append(q, j)[m] = q[m]
      /\ Append(q, j)[Len(q) + 1] = j
  OBVIOUS
<1>2. DOMAIN q = 1 .. Len(q) /\ DOMAIN Append(q, j) = 1 .. Len(q) + 1 /\ Len(q) \in Nat
  BY <1>1
<1> QED
  BY <1>1, <1>2

(* The engine takes the first request of its queue.                         *)
LEMMA Shortened ==
    ASSUME NEW q \in Seq(Jobs), q # <<>>
    PROVE  /\ Tail(q) \in Seq(Jobs) /\ Head(q) \in Jobs /\ 1 \in DOMAIN q /\ Head(q) = q[1]
           /\ \A m \in DOMAIN Tail(q) :
                m \in Nat \ {0} /\ m + 1 \in DOMAIN q /\ Tail(q)[m] = q[m + 1]
OBVIOUS

(* The reader is done with the last request it read, which goes to the end  *)
(* of the queue.                                                            *)
LEMMA Enqueued ==
    ASSUME LiveTypes, OrderInv, NEW j \in Jobs, lane' = Append(lane, j),
           binder'.pc = "idle", read' = j, UNCHANGED results, op'.job = op.job,
           op.job < j, results[j] = "pending", \A m \in DOMAIN lane : lane[m] < j,
           \A k \in Jobs : j < k => read < k /\ boundTo'[k] = boundTo[k]
    PROVE  OrderInv'
<1> USE LiveBreakConstants, FieldTypes DEF Jobs, JobOrNone
<1>1. lane \in Seq(Jobs)
  BY DEF LiveTypes
<1>2. \A m \in DOMAIN lane : lane[m] \in Jobs
  BY <1>1, SMTT(30)
<1>3. \A m \in DOMAIN lane' :
        \/ m \in DOMAIN lane /\ lane'[m] = lane[m]
        \/ (\A n \in DOMAIN lane : n < m) /\ lane'[m] = j /\ m \notin DOMAIN lane
  BY <1>1, Appended, SMTT(30)
<1>4. op'.job <= read' /\ (op'.job # NoJob => results'[op'.job] = "pending")
  BY DEF OrderInv
<1>5. \A m \in DOMAIN lane' : op'.job < lane'[m] /\ lane'[m] <= read' /\ results'[lane'[m]] = "pending"
  BY <1>2, <1>3, SMTT(30) DEF OrderInv
<1>6. \A m, n \in DOMAIN lane' : m < n => lane'[m] < lane'[n]
  <2>1. lane' \in Seq(Jobs)
    BY <1>1, Appended
  <2>2. \A m \in DOMAIN lane' : m \in Nat
    BY <2>1
  <2> QED
    BY <1>2, <1>3, <2>2, SMTT(30) DEF OrderInv
<1>7. \A k \in Jobs : read' < k => results'[k] = "pending" /\ boundTo'[k] = NoJob
  BY DEF OrderInv
<1> QED
  BY <1>4, <1>5, <1>6, <1>7 DEF OrderInv

(* The reader has answered the last request it read itself.                 *)
LEMMA Answered ==
    ASSUME LiveTypes, OrderInv, NEW j \in Jobs, read' = j, read <= j,
           binder'.pc = "idle", UNCHANGED <<op, lane, boundTo>>,
           op.job < j, \A m \in DOMAIN lane : lane[m] < j,
           \A k \in Jobs : k # j => results'[k] = results[k]
    PROVE  OrderInv'
<1> USE LiveBreakConstants, FieldTypes, LaneTypes DEF Jobs, JobOrNone
<1>1. op'.job <= read' /\ (op'.job # NoJob => results'[op'.job] = "pending")
  BY SMTT(30) DEF OrderInv, NoJob
<1>2. ASSUME NEW m \in DOMAIN lane'
      PROVE  op'.job < lane'[m] /\ lane'[m] <= read' /\ results'[lane'[m]] = "pending"
  <2>1. lane[m] \in Jobs /\ lane[m] < j /\ op.job < lane[m] /\ results[lane[m]] = "pending"
    BY <1>2 DEF OrderInv
  <2>2. lane'[m] = lane[m] /\ op'.job = op.job /\ lane[m] # j
    BY <2>1
  <2>3. results'[lane[m]] = results[lane[m]]
    BY <2>1, <2>2, Zenon
  <2> QED
    BY <2>1, <2>2, <2>3
<1>3. \A k \in Jobs : read' < k => results'[k] = "pending" /\ boundTo'[k] = NoJob
  BY SMTT(30) DEF OrderInv
<1> QED
  BY <1>1, <1>2, <1>3 DEF OrderInv

(* Every step of the reader and of the engine thread preserves it.          *)
LEMMA LiveStep == LiveInv /\ [LiveNext]_liveVars => LiveInv'
<1> SUFFICES ASSUME LiveInv, [LiveNext]_liveVars
             PROVE  LiveInv'
  OBVIOUS
<1> USE LiveBreakConstants, FieldTypes DEF LiveInv, NoJob, Jobs, JobOrNone
<1>1. ASSUME Read
      PROVE  LiveInv'
  <2> DEFINE j == read + 1
  <2>1. /\ j \in Jobs /\ read' = j /\ binder.pc = "idle"
        /\ UNCHANGED <<script, op, scope, filed, held>> /\ read \in Nat
    BY <1>1, SMTT(30) DEF Read, LiveTypes
  <2>2. op.job < j /\ results[j] = "pending" /\ boundTo[j] = NoJob /\ \A m \in DOMAIN lane : lane[m] < j
    BY <2>1, SMTT(30) DEF OrderInv, LiveTypes
  <2>3. CASE Queued(j) /\ UNCHANGED <<staged, activity, binder, claimed, results, boundTo>>
    <3>1. LiveTypes'
      BY <2>1, <2>3, Appended, SMTT(30) DEF LiveTypes, Queued
    <3>2. OrderInv'
      BY <2>1, <2>2, <2>3, Enqueued DEF Queued
    <3> QED
      BY <2>1, <2>3, <3>1, <3>2 DEF EngineInv, StagedInv, BoundInv, WakeInv, Kind, Interruptible
  <2>4. CASE Refuse(j) /\ UNCHANGED <<staged, activity, binder, claimed, lane, boundTo>>
    <3>1. LiveTypes'
      BY <2>1, <2>4, SMTT(30) DEF LiveTypes, Refuse, Results
    <3>2. results'[j] = "refused" /\ \A k \in Jobs : k # j => results'[k] = results[k]
      BY <2>1, <2>4 DEF Refuse, LiveTypes
    <3>3. OrderInv'
      BY <2>1, <2>2, <2>4, <3>2, Answered
    <3>4. StagedInv'
      BY <2>1, <2>2, <2>4, <3>2 DEF StagedInv, Kind
    <3>5. BoundInv'
      BY <2>1, <2>2, <2>4, <3>2 DEF BoundInv, Kind
    <3> QED
      BY <2>1, <2>4, <3>1, <3>3, <3>4, <3>5 DEF EngineInv, WakeInv, Kind, Interruptible
  <2>5. CASE Kind(j) = "break" /\ Bindable /\ Stage(j) /\ ~claimed.ending /\ UNCHANGED claimed
    <3>1. /\ staged = NoBreak /\ claimed.job = op.job /\ op.job \in Jobs /\ Kind(op.job) = "wait"
      BY <2>5 DEF Bindable, EngineInv
    <3>2. /\ staged' = [wait |-> op.job, by |-> j, filed |-> FALSE, outcome |-> claimed.outcome]
          /\ boundTo' = [boundTo EXCEPT ![j] = op.job] /\ UNCHANGED results
      BY <2>5, <3>1 DEF Stage, NoBreak
    <3>3. /\ boundTo \in [Jobs -> JobOrNone] /\ boundTo'[j] = op.job
          /\ \A k \in Jobs : k # j => boundTo'[k] = boundTo[k]
      BY <2>1, <3>2 DEF LiveTypes
    <3>4. staged' \in BreakType /\ boundTo' \in [Jobs -> JobOrNone]
      BY <2>1, <3>1, <3>2, <3>3 DEF BreakType, LiveTypes
    <3>5. StagedInv' /\ BoundInv'
      <4>1. claimed.outcome = IF op.pc = "release" THEN op.result ELSE "pending"
        BY <3>1 DEF EngineInv
      <4>2. staged'.wait = op.job /\ staged'.by = j /\ staged'.outcome = claimed.outcome
        BY <3>2
      <4>3. binder'.pc \in {"wake", "record", "undo"} => binder'.job = j /\ binder'.wait = op.job
        BY <2>1, <2>5, <3>1 DEF Stage
      <4>4. StagedInv'
        BY <2>1, <3>1, <3>3, <4>1, <4>2, <4>3 DEF StagedInv, Kind
      <4>5. BoundInv'
        BY <2>1, <2>2, <2>5, <3>1, <3>2, <3>3, <4>2 DEF BoundInv, Kind, NoBreak
      <4> QED
        BY <4>4, <4>5
    <3>6. CASE Wakeable
      <4>1. /\ activity' = RequestBreak(activity) /\ UNCHANGED lane
            /\ binder' = [pc |-> "wake", job |-> j, wait |-> op.job]
        BY <2>5, <3>1, <3>6 DEF Stage
      <4>2. LiveTypes'
        <5>1. activity' \in ActivityType
          BY <4>1 DEF LiveTypes, ActivityType, RequestBreak
        <5>2. binder' \in BinderType
          BY <2>1, <4>1 DEF BinderType
        <5> QED
          BY <2>1, <2>5, <3>2, <3>4, <4>1, <5>1, <5>2, SMTT(30) DEF LiveTypes
      <4>3. OrderInv'
        BY <2>1, <2>2, <3>1, <3>2, <3>3, <4>1 DEF OrderInv, LiveTypes
      <4>4. EngineInv'
        <5>1. claimed.published = op.job
          BY <3>1, <3>6 DEF Wakeable, EngineInv
        <5>2. op.pc \in {"waiting", "leave", "unpublish"} /\ activity'.phase = activity.phase
          BY <3>1, <4>1, <5>1 DEF EngineInv, RequestBreak, LiveTypes, ActivityType
        <5> QED
          BY <2>1, <2>5, <5>2 DEF EngineInv, Kind, Interruptible
      <4>5. WakeInv'
        BY <4>1 DEF WakeInv
      <4> QED
        BY <3>5, <4>2, <4>3, <4>4, <4>5
    <3>7. CASE ~Wakeable
      <4>1. Queued(j) /\ UNCHANGED <<activity, binder>>
        BY <2>5, <3>7 DEF Stage
      <4>2. LiveTypes'
        BY <2>1, <2>5, <3>2, <3>4, <4>1, Appended DEF LiveTypes, Queued
      <4>3. OrderInv'
        BY <2>1, <2>2, <3>2, <3>3, <4>1, Enqueued DEF Queued
      <4>4. WakeInv'
        BY <2>1, <3>1, <3>7 DEF WakeInv, Wakeable, EngineInv
      <4> QED
        BY <2>1, <2>5, <3>5, <4>1, <4>2, <4>3, <4>4 DEF EngineInv, Kind, Interruptible
    <3> QED
      BY <3>6, <3>7
  <2>6. CASE Kind(j) = "end"
    <3>1. /\ UNCHANGED <<staged, activity, results, boundTo>>
          /\ claimed' = [claimed EXCEPT !.ending = TRUE,
                                        !.interrupted = @ \/ (claimed.published # NoJob)]
      BY <1>1, <2>6 DEF Read
    <3>2. /\ claimed' \in ClaimType
          /\ claimed'.job = claimed.job /\ claimed'.waits = claimed.waits
          /\ claimed'.published = claimed.published /\ claimed'.outcome = claimed.outcome
      BY <3>1 DEF LiveTypes, ClaimType
    <3>3. EngineInv' /\ BoundInv' /\ WakeInv'
      BY <1>1, <2>1, <2>6, <3>1, <3>2 DEF EngineInv, BoundInv, WakeInv, Kind, Interruptible
    <3>4. CASE claimed.published # NoJob
      <4>1. binder' = [pc |-> "stop", job |-> j, wait |-> claimed.published] /\ UNCHANGED lane
        BY <1>1, <2>6, <3>4 DEF Read
      <4>2. LiveTypes'
        BY <2>1, <3>1, <3>2, <4>1, SMTT(30) DEF LiveTypes, BinderType
      <4>3. OrderInv'
        BY <2>1, <2>2, <3>1, <3>4, <4>1, SMTT(30) DEF OrderInv, LiveTypes
      <4>4. StagedInv'
        BY <2>1, <3>1, <4>1 DEF StagedInv, Kind
      <4> QED
        BY <3>3, <4>2, <4>3, <4>4
    <3>5. CASE claimed.published = NoJob
      <4>1. Queued(j) /\ UNCHANGED binder
        BY <1>1, <2>6, <3>5 DEF Read
      <4>2. LiveTypes'
        BY <2>1, <3>1, <3>2, <4>1, Appended, SMTT(30) DEF LiveTypes, Queued
      <4>3. OrderInv'
        BY <2>1, <2>2, <3>1, <4>1, Enqueued DEF Queued
      <4>4. StagedInv'
        BY <2>1, <3>1, <4>1 DEF StagedInv, Kind
      <4> QED
        BY <3>3, <4>2, <4>3, <4>4
    <3> QED
      BY <3>4, <3>5
  <2> QED
    BY <1>1, <2>3, <2>4, <2>5, <2>6 DEF Read, Stage
<1>2. ASSUME WakeWait
      PROVE  LiveInv'
  <2>1. /\ binder.pc = "wake" /\ binder.job \in Jobs /\ binder.wait \in Jobs /\ binder.job = read
        /\ UNCHANGED <<script, read, op, claimed, staged, scope, held, results, boundTo>>
    BY <1>2 DEF WakeWait, OrderInv
  <2>2. CASE Active /\ filed' = binder.wait /\ binder' = [binder EXCEPT !.pc = "record"]
             /\ UNCHANGED <<lane, activity>>
    <3>1. binder' \in BinderType /\ binder'.pc = "record" /\ binder'.job = binder.job
          /\ binder'.wait = binder.wait
      BY <2>2 DEF LiveTypes, BinderType
    <3>2. LiveTypes'
      BY <2>1, <2>2, <3>1 DEF LiveTypes
    <3> QED
      BY <2>1, <2>2, <3>1, <3>2
         DEF OrderInv, EngineInv, StagedInv, BoundInv, WakeInv, Kind, Interruptible
  <2>3. CASE ~Active /\ binder' = [binder EXCEPT !.pc = "idle"] /\ Queued(binder.job)
             /\ UNCHANGED <<filed, activity>>
    <3>1. binder' \in BinderType /\ binder'.pc = "idle"
      BY <2>3 DEF LiveTypes, BinderType
    <3>2. LiveTypes'
      BY <2>1, <2>3, <3>1, Appended DEF LiveTypes, Queued
    <3>3. /\ op.job < binder.job /\ results[binder.job] = "pending"
          /\ \A m \in DOMAIN lane : lane[m] < binder.job
      BY <2>1 DEF OrderInv
    <3>4. OrderInv'
      BY <2>1, <2>3, <3>1, <3>3, Enqueued, LaneTypes DEF Queued
    <3>5. WakeInv'
      BY <2>1, <2>3 DEF WakeInv, StagedInv, EngineInv, Active
    <3> QED
      BY <2>1, <2>3, <3>1, <3>2, <3>4, <3>5 DEF EngineInv, StagedInv, BoundInv, Kind, Interruptible
  <2>4. CASE Active /\ activity' = CancelBreak(activity) /\ binder' = [binder EXCEPT !.pc = "undo"]
             /\ UNCHANGED <<filed, lane>>
    <3>1. binder' \in BinderType /\ binder'.pc = "undo" /\ binder'.job = binder.job
          /\ binder'.wait = binder.wait
      BY <2>4 DEF LiveTypes, BinderType
    <3>2. activity' \in ActivityType /\ activity'.phase = "Active"
      BY <2>4 DEF LiveTypes, ActivityType, CancelBreak, Active, Interruptible
    <3>3. LiveTypes'
      BY <2>1, <2>4, <3>1, <3>2 DEF LiveTypes
    <3>4. EngineInv'
      BY <2>1, <2>4, <3>2 DEF EngineInv, Kind, Interruptible, Active, ArmedWait
    <3> QED
      BY <2>1, <2>4, <3>1, <3>3, <3>4 DEF OrderInv, StagedInv, BoundInv, WakeInv, Kind
  <2> QED
    BY <1>2, <2>2, <2>3, <2>4 DEF WakeWait
<1>3. ASSUME Record
      PROVE  LiveInv'
  <2>1. /\ staged' \in BreakType
        /\ staged'.wait = staged.wait /\ staged'.by = staged.by /\ staged'.outcome = staged.outcome
    BY <1>3 DEF Record, LiveTypes, BreakType
  <2>2. binder.pc = "record" /\ binder.job = read /\ binder.job \in Jobs
    BY <1>3 DEF Record, OrderInv
  <2>3. staged # NoBreak
    BY <2>2 DEF StagedInv, NoBreak
  <2>4. /\ binder' \in BinderType /\ binder'.pc = "idle" /\ lane' = Append(lane, binder.job)
        /\ UNCHANGED <<script, read, op, claimed, activity, scope, filed, held, results, boundTo>>
    BY <1>3 DEF Record, LiveTypes, BinderType, Queued
  <2>5. LiveTypes'
    BY <2>1, <2>2, <2>4, Appended DEF LiveTypes
  <2>6. /\ op.job < binder.job /\ results[binder.job] = "pending"
        /\ \A m \in DOMAIN lane : lane[m] < binder.job
    BY <2>2 DEF OrderInv
  <2>7. OrderInv'
    BY <2>2, <2>4, <2>6, Enqueued, LaneTypes
  <2>8. StagedInv' /\ BoundInv'
    BY <2>1, <2>3, <2>4 DEF StagedInv, BoundInv, Kind
  <2>9. EngineInv' /\ WakeInv'
    BY <2>1, <2>2, <2>4 DEF EngineInv, WakeInv, Kind, Interruptible
  <2> QED
    BY <2>5, <2>7, <2>8, <2>9
<1>4. ASSUME Undone
      PROVE  LiveInv'
  <2>1. /\ binder.pc = "undo" /\ binder.job = read /\ binder.job \in Jobs /\ staged' = NoBreak
        /\ UNCHANGED <<script, read, lane, op, claimed, activity, scope, filed, boundTo, held>>
    BY <1>4 DEF Undone, OrderInv
  <2>2. binder' \in BinderType /\ binder'.pc = "idle"
    BY <1>4 DEF Undone, LiveTypes, BinderType
  <2>3. /\ results' \in [Jobs -> Results] /\ results'[binder.job] = "refused"
        /\ \A k \in Jobs : k # binder.job => results'[k] = results[k]
    BY <1>4, <2>1 DEF Undone, Refuse, LiveTypes, Results
  <2>4. staged.by = binder.job
    BY <2>1 DEF StagedInv
  <2>5. LiveTypes'
    <3>1. NoBreak \in BreakType
      BY DEF NoBreak, BreakType, Results
    <3> QED
      BY <2>1, <2>2, <2>3, <3>1 DEF LiveTypes
  <2>6. OrderInv'
    <3>1. op.job < binder.job /\ \A m \in DOMAIN lane : lane[m] < binder.job
      BY <2>1 DEF OrderInv
    <3>2. read' = binder.job /\ read <= binder.job /\ UNCHANGED <<op, lane, boundTo>>
      BY <2>1, LaneTypes
    <3> QED
      BY <2>1, <2>2, <2>3, <3>1, <3>2, Answered
  <2>7. BoundInv'
    BY <2>1, <2>3, <2>4 DEF BoundInv, Kind, OrderInv
  <2>8. StagedInv' /\ WakeInv' /\ EngineInv'
    BY <2>1, <2>2 DEF StagedInv, WakeInv, EngineInv, Kind, NoBreak, Interruptible
  <2> QED
    BY <2>5, <2>6, <2>7, <2>8
<1>5. ASSUME StopWait
      PROVE  LiveInv'
  <2>1. /\ binder.pc = "stop" /\ binder.job = read /\ binder.job \in Jobs /\ binder.wait \in Jobs
        /\ lane' = Append(lane, binder.job) /\ filed' \in {filed, binder.wait}
        /\ UNCHANGED <<script, read, op, claimed, staged, activity, scope, held, results, boundTo>>
    BY <1>5 DEF StopWait, OrderInv, Queued
  <2>2. binder' \in BinderType /\ binder'.pc = "idle"
    BY <1>5 DEF StopWait, LiveTypes, BinderType
  <2>3. LiveTypes'
    BY <2>1, <2>2, Appended DEF LiveTypes
  <2>4. /\ op.job < binder.job /\ results[binder.job] = "pending"
        /\ \A m \in DOMAIN lane : lane[m] < binder.job
    BY <2>1 DEF OrderInv
  <2>5. OrderInv'
    BY <2>1, <2>2, <2>4, Enqueued, LaneTypes
  <2> QED
    BY <2>1, <2>2, <2>3, <2>5 DEF EngineInv, StagedInv, BoundInv, WakeInv, Kind, Interruptible
<1>6. ASSUME Claim
      PROVE  LiveInv'
  <2> DEFINE j == Head(lane)
             kind == Kind(j)
  <2>1. /\ op.pc = "idle" /\ op.job = NoJob /\ j \in Jobs /\ 1 \in DOMAIN lane /\ j = lane[1]
        /\ lane' = Tail(lane) /\ Tail(lane) \in Seq(Jobs)
        /\ \A m \in DOMAIN lane' : m \in Nat \ {0} /\ m + 1 \in DOMAIN lane /\ lane'[m] = lane[m + 1]
        /\ UNCHANGED <<script, read, binder, staged, scope, held, results, boundTo>>
    BY <1>6, Shortened, LaneTypes DEF Claim, EngineInv
  <2>2. op' = [pc |-> IF kind = "wait" THEN "enter" ELSE "work", job |-> j, result |-> "pending"]
    BY <1>6 DEF Claim
  <2>3. claimed' = [claimed EXCEPT !.job = j, !.waits = IF kind = "wait" THEN j ELSE NoJob]
    BY <1>6 DEF Claim
  <2>4. /\ claimed' \in ClaimType /\ claimed'.job = j
        /\ claimed'.waits = IF kind = "wait" THEN j ELSE NoJob
        /\ claimed'.published = claimed.published /\ claimed'.outcome = claimed.outcome
    <3> DEFINE waits == IF kind = "wait" THEN j ELSE NoJob
    <3>1. waits \in JobOrNone /\ j \in JobOrNone
      BY <2>1
    <3>2. claimed \in ClaimType
      BY DEF LiveTypes
    <3> HIDE DEF waits, j, kind
    <3>3. claimed' = [claimed EXCEPT !.job = j, !.waits = waits]
      BY <2>3 DEF waits
    <3>4. /\ claimed' \in ClaimType /\ claimed'.job = j /\ claimed'.waits = waits
          /\ claimed'.published = claimed.published /\ claimed'.outcome = claimed.outcome
      BY <3>1, <3>2, <3>3 DEF ClaimType
    <3> QED
      BY <3>4 DEF waits
  <2>5. activity' = (IF kind = "wait" THEN ArmedWait ELSE activity) /\ filed' \in {filed, NoJob}
    BY <1>6 DEF Claim
  <2>6. LiveTypes'
    <3>1. op' \in OpType
      BY <2>1, <2>2 DEF OpType, Results
    <3>2. activity' \in ActivityType
      BY <2>5 DEF ArmedWait, ActivityType, LiveTypes
    <3> QED
      BY <2>1, <2>4, <2>5, <3>1, <3>2 DEF LiveTypes
  <2>7. results[j] = "pending" /\ j <= read /\ \A m \in DOMAIN lane' : j < lane'[m]
    BY <2>1 DEF OrderInv
  <2>8. OrderInv'
    <3>1. op'.job = j
      BY <2>2
    <3>2. binder.pc # "idle" => j < read /\ \A m \in DOMAIN lane' : lane'[m] < read
      BY <2>1 DEF OrderInv
    <3>3. \A m \in DOMAIN lane' : lane'[m] <= read /\ results[lane'[m]] = "pending"
      BY <2>1, SMTT(30) DEF OrderInv
    <3>4. \A m, n \in DOMAIN lane' : m < n => lane'[m] < lane'[n]
      BY <2>1 DEF OrderInv
    <3> QED
      BY <2>1, <2>7, <3>1, <3>2, <3>3, <3>4 DEF OrderInv
  <2>9. EngineInv'
    BY <2>1, <2>2, <2>4, <2>5 DEF EngineInv, Kind, Interruptible
  <2>10. StagedInv'
    BY <2>1, <2>2, <2>7 DEF StagedInv, Kind
  <2>11. BoundInv'
    BY <2>1, <2>2, <2>7 DEF BoundInv, Kind
  <2>12. WakeInv'
    BY <2>2 DEF WakeInv
  <2> QED
    BY <2>6, <2>8, <2>9, <2>10, <2>11, <2>12
<1>7. ASSUME Enters
      PROVE  LiveInv'
  <2>1. /\ op.pc = "enter" /\ op'.job = op.job /\ op' \in OpType /\ op'.pc \in {"drain", "begin"}
        /\ op'.pc = "drain" => op'.result = "failed"
    BY <1>7 DEF Enters, LiveTypes, OpType, Results
  <2>2. /\ UNCHANGED <<script, read, binder, lane, claimed, staged, activity, held, filed, results>>
        /\ UNCHANGED boundTo /\ scope' \in {"free", "engine"}
    BY <1>7 DEF Enters, LiveTypes
  <2>3. LiveTypes' /\ OrderInv'
    BY <2>1, <2>2 DEF LiveTypes, OrderInv
  <2>4. EngineInv'
    BY <2>1, <2>2 DEF EngineInv, Kind, Interruptible
  <2>5. StagedInv' /\ BoundInv' /\ WakeInv'
    BY <2>1, <2>2 DEF StagedInv, BoundInv, WakeInv, Kind
  <2> QED
    BY <2>3, <2>4, <2>5
<1>8. ASSUME Begins
      PROVE  LiveInv'
  <2>1. /\ op.pc = "begin" /\ op'.job = op.job /\ op' \in OpType
        /\ op'.pc \in {"drain", "rendezvous", "waiting"}
        /\ op'.pc = "drain" => op'.result = "failed"
        /\ op'.pc = "waiting" => staged.wait # op.job
    BY <1>8 DEF Begins, LiveTypes, OpType, Results, AlreadyBound
  <2>2. /\ UNCHANGED <<script, read, binder, lane, staged, held, filed, results, boundTo>>
        /\ scope' \in {"free", "engine"}
    BY <1>8 DEF Begins
  <2>3. /\ op'.pc = "waiting" => claimed' = [claimed EXCEPT !.published = op.job]
        /\ op'.pc # "waiting" => UNCHANGED claimed
    BY <1>8 DEF Begins, LiveTypes, OpType
  <2>4. /\ claimed' \in ClaimType
        /\ claimed'.job = claimed.job /\ claimed'.waits = claimed.waits
        /\ claimed'.outcome = claimed.outcome
        /\ claimed'.published = IF op'.pc = "waiting" THEN op.job ELSE claimed.published
    BY <2>3 DEF LiveTypes, ClaimType
  <2>5. activity' \in ActivityType /\ (op'.pc = "waiting" => activity'.phase = "Active")
    <3>1. activity = ArmedWait
      BY <2>1 DEF EngineInv
    <3> QED
      BY <1>8, <3>1 DEF Begins, FinishWait, Enter, ArmedWait, ActivityType, LiveTypes, OpType
  <2>6. LiveTypes' /\ OrderInv'
    BY <2>1, <2>2, <2>4, <2>5 DEF LiveTypes, OrderInv
  <2>7. EngineInv'
    BY <2>1, <2>2, <2>4, <2>5 DEF EngineInv, Kind, Interruptible
  <2>8. StagedInv' /\ BoundInv' /\ WakeInv'
    BY <2>1, <2>2 DEF StagedInv, BoundInv, WakeInv, Kind
  <2> QED
    BY <2>6, <2>7, <2>8
<1>9. ASSUME Returns
      PROVE  LiveInv'
  <2>1. /\ op.pc = "waiting" /\ op'.job = op.job /\ op' \in OpType /\ op'.pc = "leave"
        /\ op'.result # "pending"
    BY <1>9 DEF Returns, LiveTypes, OpType, Results
  <2>2. /\ UNCHANGED <<script, read, binder, lane, claimed, staged, activity, scope, results, boundTo>>
        /\ held' \in {held, op.job} /\ filed' \in {filed, NoJob}
    BY <1>9 DEF Returns
  <2>3. LiveTypes'
    BY <2>1, <2>2, SMTT(30) DEF LiveTypes
  <2>4. OrderInv'
    BY <2>1, <2>2 DEF OrderInv
  <2>5. EngineInv'
    BY <2>1, <2>2 DEF EngineInv, Kind, Interruptible
  <2>6. StagedInv' /\ BoundInv' /\ WakeInv'
    BY <2>1, <2>2 DEF StagedInv, BoundInv, WakeInv, Kind
  <2> QED
    BY <2>3, <2>4, <2>5, <2>6
<1>10. ASSUME LeavesWait
       PROVE  LiveInv'
  <2>1. /\ op.pc = "leave" /\ op'.job = op.job /\ op' \in OpType /\ op'.pc = "unpublish"
        /\ op'.result = op.result
    BY <1>10 DEF LeavesWait, LiveTypes, OpType
  <2>2. UNCHANGED <<script, read, binder, lane, claimed, staged, scope, held, filed, results, boundTo>>
    BY <1>10 DEF LeavesWait
  <2>3. activity' \in ActivityType
    BY <1>10 DEF LeavesWait, FinishWait, LiveTypes, ActivityType
  <2>4. LiveTypes' /\ OrderInv'
    BY <2>1, <2>2, <2>3 DEF LiveTypes, OrderInv
  <2>5. EngineInv'
    BY <2>1, <2>2 DEF EngineInv, Kind
  <2>6. StagedInv' /\ BoundInv' /\ WakeInv'
    BY <2>1, <2>2 DEF StagedInv, BoundInv, WakeInv, Kind
  <2> QED
    BY <2>4, <2>5, <2>6
<1>11. ASSUME Unpublishes
       PROVE  LiveInv'
  <2>1. /\ op.pc = "unpublish" /\ op'.job = op.job /\ op' \in OpType
        /\ op'.pc \in {"rendezvous", "drain"} /\ op'.result = op.result
    BY <1>11 DEF Unpublishes, LiveTypes, OpType
  <2>2. UNCHANGED <<script, read, binder, lane, staged, activity, scope, held, filed, results, boundTo>>
    BY <1>11 DEF Unpublishes
  <2>3. /\ claimed' \in ClaimType /\ claimed'.published = NoJob
        /\ claimed'.job = claimed.job /\ claimed'.waits = claimed.waits
        /\ claimed'.outcome = claimed.outcome
    <3>1. claimed' = [claimed EXCEPT !.published = NoJob] /\ claimed \in ClaimType
      BY <1>11 DEF Unpublishes, LiveTypes
    <3> QED
      BY <3>1 DEF ClaimType
  <2>4. LiveTypes' /\ OrderInv'
    BY <2>1, <2>2, <2>3 DEF LiveTypes, OrderInv
  <2>5. EngineInv'
    BY <2>1, <2>2, <2>3 DEF EngineInv, Kind, Interruptible
  <2>6. StagedInv' /\ BoundInv' /\ WakeInv'
    BY <2>1, <2>2 DEF StagedInv, BoundInv, WakeInv, Kind
  <2> QED
    BY <2>4, <2>5, <2>6
<1>12. ASSUME Rendezvous
       PROVE  LiveInv'
  <2>1. /\ op.pc = "rendezvous" /\ op'.job = op.job /\ op' \in OpType
        /\ op'.pc = (IF Kind(op.job) = "wait" THEN "drain" ELSE "release")
        /\ op'.result \in {"stopped", "failed"} /\ held' \in {held, op.job}
    BY <1>12 DEF Rendezvous, LiveTypes, OpType, Results
  <2>2. UNCHANGED <<script, read, binder, lane, claimed, staged, activity, scope, filed, results, boundTo>>
    BY <1>12 DEF Rendezvous
  <2>3. LiveTypes'
    BY <2>1, <2>2 DEF LiveTypes
  <2>4. OrderInv'
    BY <2>1, <2>2 DEF OrderInv
  <2>5. EngineInv'
    BY <2>1, <2>2 DEF EngineInv, Kind, Interruptible
  <2>6. StagedInv'
    BY <2>1, <2>2 DEF StagedInv, Kind
  <2>7. BoundInv' /\ WakeInv'
    BY <2>1, <2>2 DEF BoundInv, WakeInv, Kind
  <2> QED
    BY <2>3, <2>4, <2>5, <2>6, <2>7
<1>13. ASSUME Drains
       PROVE  LiveInv'
  <2>1. /\ op.pc = "drain" /\ op'.job = op.job /\ op' \in OpType /\ op'.pc = "settle"
        /\ op'.result = op.result
    BY <1>13 DEF Drains, LiveTypes, OpType
  <2>2. /\ UNCHANGED <<script, read, binder, lane, claimed, activity, scope, held, results, boundTo>>
        /\ filed' \in {filed, NoJob}
    BY <1>13 DEF Drains
  <2>3. /\ staged' \in BreakType
        /\ staged'.wait = staged.wait /\ staged'.by = staged.by /\ staged'.outcome = staged.outcome
        /\ staged = NoBreak => staged' = NoBreak
    <3>1. (staged' = [staged EXCEPT !.filed = FALSE] /\ staged # NoBreak) \/ UNCHANGED staged
      BY <1>13, <2>1 DEF Drains, NoBreak
    <3>2. staged \in BreakType
      BY DEF LiveTypes
    <3>3. [staged EXCEPT !.filed = FALSE] \in BreakType
      BY <3>2 DEF BreakType
    <3> QED
      BY <3>1, <3>2, <3>3 DEF BreakType
  <2>4. LiveTypes'
    BY <2>1, <2>2, <2>3 DEF LiveTypes
  <2>5. OrderInv'
    BY <2>1, <2>2 DEF OrderInv
  <2>6. EngineInv'
    BY <2>1, <2>2 DEF EngineInv, Kind, Interruptible
  <2>7. StagedInv'
    BY <2>1, <2>2, <2>3 DEF StagedInv, Kind
  <2>8. BoundInv' /\ WakeInv'
    BY <2>1, <2>2, <2>3 DEF BoundInv, WakeInv, Kind
  <2> QED
    BY <2>4, <2>5, <2>6, <2>7, <2>8
<1>14. ASSUME Settles
       PROVE  LiveInv'
  <2>1. /\ op.pc = "settle" /\ op'.job = op.job /\ op' \in OpType /\ op'.pc = "release"
        /\ op'.result = op.result
    BY <1>14 DEF Settles, LiveTypes, OpType
  <2>2. UNCHANGED <<script, read, binder, lane, activity, scope, filed, held, results, boundTo>>
    BY <1>14 DEF Settles
  <2>3. /\ claimed' \in ClaimType /\ claimed'.outcome = op.result
        /\ claimed'.job = claimed.job /\ claimed'.waits = claimed.waits
        /\ claimed'.published = claimed.published
    <3>1. claimed' = [claimed EXCEPT !.outcome = op.result] /\ claimed \in ClaimType
      BY <1>14 DEF Settles, LiveTypes
    <3> QED
      BY <3>1 DEF ClaimType
  <2>4. /\ staged' \in BreakType
        /\ staged'.wait = staged.wait /\ staged'.by = staged.by
        /\ staged'.outcome = IF staged.wait = op.job THEN op.result ELSE staged.outcome
        /\ staged.wait # op.job => staged' = staged
    <3>1. staged' = IF staged.wait = op.job THEN [staged EXCEPT !.outcome = op.result] ELSE staged
      BY <1>14 DEF Settles
    <3>2. staged \in BreakType
      BY DEF LiveTypes
    <3> QED
      BY <3>1, <3>2 DEF BreakType
  <2>5. LiveTypes'
    BY <2>1, <2>2, <2>3, <2>4 DEF LiveTypes
  <2>6. OrderInv'
    BY <2>1, <2>2 DEF OrderInv
  <2>7. EngineInv'
    BY <2>1, <2>2, <2>3 DEF EngineInv, Kind
  <2>8. StagedInv'
    <3>1. CASE staged = NoBreak
      BY <2>1, <2>2, <2>4, <3>1 DEF StagedInv, NoBreak, EngineInv
    <3>2. CASE staged # NoBreak
      BY <2>1, <2>2, <2>4, <3>2 DEF StagedInv, Kind
    <3> QED
      BY <3>1, <3>2
  <2>9. BoundInv' /\ WakeInv'
    BY <2>1, <2>2, <2>4 DEF BoundInv, WakeInv, Kind, EngineInv
  <2> QED
    BY <2>5, <2>6, <2>7, <2>8, <2>9
<1>15. ASSUME Works
       PROVE  LiveInv'
  <2>1. /\ op.pc = "work" /\ Kind(op.job) # "break"
        /\ op'.job = op.job /\ op' \in OpType /\ op'.pc = "release" /\ op'.result = "done"
    BY <1>15 DEF Works, LiveTypes, OpType, Results
  <2>2. /\ UNCHANGED <<script, read, binder, lane, claimed, staged, activity, scope, filed, results>>
        /\ UNCHANGED boundTo /\ held' \in {held, NoJob}
    BY <1>15 DEF Works
  <2>3. LiveTypes'
    BY <2>1, <2>2, SMTT(30) DEF LiveTypes
  <2>4. OrderInv'
    BY <2>1, <2>2 DEF OrderInv
  <2>5. EngineInv'
    BY <2>1, <2>2 DEF EngineInv, Kind
  <2>6. StagedInv'
    BY <2>1, <2>2 DEF StagedInv, EngineInv, Kind
  <2>7. BoundInv' /\ WakeInv'
    BY <2>1, <2>2 DEF BoundInv, WakeInv, Kind
  <2> QED
    BY <2>3, <2>4, <2>5, <2>6, <2>7
<1>16. ASSUME BreakTakes
       PROVE  LiveInv'
  <2>1. op.pc = "work" /\ Kind(op.job) = "break" /\ op.job \in Jobs
    BY <1>16 DEF BreakTakes, EngineInv
  <2>2. UNCHANGED <<script, read, binder, lane, claimed, activity, scope, held, filed, results, boundTo>>
    BY <1>16 DEF BreakTakes
  <2>3. CASE staged.by = op.job
    <3>1. /\ staged.wait \in Jobs /\ boundTo[op.job] = staged.wait /\ staged.wait < op.job
          /\ staged.outcome = results[staged.wait] /\ results[staged.wait] # "pending"
      BY <2>1, <2>3 DEF StagedInv, BoundInv, NoBreak, OrderInv
    <3>2. /\ staged' = NoBreak /\ op'.job = op.job /\ op' \in OpType /\ op'.pc = "release"
          /\ op'.result \in {"stale", results[staged.wait]}
      <4>1. staged' = NoBreak
        BY <1>16, <2>3 DEF BreakTakes
      <4>2. PICK x \in {"stale", staged.outcome} : op' = [op EXCEPT !.pc = "release", !.result = x]
        BY <1>16, <2>3, <3>1 DEF BreakTakes
      <4>3. op \in OpType /\ x \in Results
        BY DEF LiveTypes, Results
      <4> QED
        BY <3>1, <4>1, <4>2, <4>3 DEF OpType
    <3>3. LiveTypes'
      <4>1. NoBreak \in BreakType
        BY DEF NoBreak, BreakType, Results
      <4> QED
        BY <2>2, <3>2, <4>1 DEF LiveTypes
    <3>4. OrderInv'
      BY <2>2, <3>2 DEF OrderInv
    <3>5. EngineInv'
      <4>1. op'.result # "pending"
        BY <3>1, <3>2
      <4> QED
        BY <2>1, <2>2, <3>2, <4>1 DEF EngineInv, Kind
    <3>6. StagedInv'
      BY <2>1, <2>2, <2>3, <3>2 DEF StagedInv, OrderInv
    <3>7. BoundInv'
      BY <2>1, <2>2, <2>3, <3>1, <3>2 DEF BoundInv, Kind
    <3>8. WakeInv'
      BY <3>2 DEF WakeInv
    <3> QED
      BY <3>3, <3>4, <3>5, <3>6, <3>7, <3>8
  <2>4. CASE staged.by # op.job
    <3>1. /\ UNCHANGED staged /\ op'.job = op.job /\ op' \in OpType /\ op'.pc = "rendezvous"
          /\ op'.result = op.result
      BY <1>16, <2>4 DEF BreakTakes, LiveTypes, OpType
    <3>2. LiveTypes' /\ OrderInv'
      BY <2>2, <3>1 DEF LiveTypes, OrderInv
    <3>3. EngineInv'
      BY <2>1, <2>2, <3>1 DEF EngineInv, Kind
    <3>4. StagedInv'
      BY <2>1, <2>2, <3>1 DEF StagedInv, Kind
    <3>5. BoundInv' /\ WakeInv'
      BY <2>1, <2>2, <2>4, <3>1 DEF BoundInv, WakeInv, Kind
    <3> QED
      BY <3>2, <3>3, <3>4, <3>5
  <2> QED
    BY <2>3, <2>4
<1>17. ASSUME Releases
       PROVE  LiveInv'
  <2>1. /\ op.pc = "release" /\ op.job \in Jobs /\ op.result # "pending"
        /\ UNCHANGED <<script, read, binder, lane, staged, activity, scope, boundTo, held>>
        /\ filed' \in {filed, NoJob}
    BY <1>17 DEF Releases, EngineInv
  <2>2. op' \in OpType /\ op'.pc = "idle" /\ op'.job = NoJob
    <3>1. op' = [op EXCEPT !.pc = "idle", !.job = NoJob]
      BY <1>17 DEF Releases
    <3> QED
      BY <3>1, Vacated
  <2>3. /\ results' \in [Jobs -> Results] /\ results'[op.job] = op.result
        /\ \A k \in Jobs : k # op.job => results'[k] = results[k]
    BY <1>17, <2>1, LaneTypes DEF Releases
  <2>4. /\ claimed' \in ClaimType /\ claimed'.job = NoJob /\ claimed'.waits = NoJob
        /\ claimed'.published = NoJob /\ claimed'.outcome = "pending"
    <3>1. claimed' = [job |-> NoJob, waits |-> NoJob, published |-> NoJob, outcome |-> "pending",
                      interrupted |-> FALSE, ending |-> claimed.ending]
      BY <1>17 DEF Releases, NoClaim
    <3>2. claimed.ending \in BOOLEAN
      BY DEF LiveTypes, ClaimType
    <3> QED
      BY <3>1, <3>2 DEF ClaimType, Results
  <2>5. LiveTypes'
    <3>1. filed' \in JobOrNone
      BY <2>1 DEF LiveTypes
    <3> QED
      BY <2>1, <2>2, <2>3, <2>4, <3>1 DEF LiveTypes
  <2>6. OrderInv'
    <3>1. ASSUME NEW m \in DOMAIN lane'
          PROVE  op'.job < lane'[m] /\ lane'[m] <= read' /\ results'[lane'[m]] = "pending"
      <4>1. lane[m] \in Jobs /\ lane[m] # op.job
        BY <2>1, <3>1, LaneTypes DEF OrderInv
      <4> QED
        BY <2>1, <2>2, <2>3, <3>1, <4>1 DEF OrderInv
    <3>2. op.job <= read /\ (binder.pc # "idle" => read \in Jobs /\ op.job # read)
      BY <2>1, LaneTypes DEF OrderInv
    <3> QED
      BY <2>1, <2>2, <2>3, <3>1, <3>2, LaneTypes DEF OrderInv
  <2>7. EngineInv'
    BY <2>1, <2>2, <2>4 DEF EngineInv, Kind
  <2>8. StagedInv'
    BY <2>1, <2>2, <2>3 DEF StagedInv, Kind, NoBreak
  <2>9. BoundInv'
    BY <2>1, <2>2, <2>3, SMTT(30) DEF BoundInv, Kind, OrderInv
  <2>10. WakeInv'
    BY <2>2 DEF WakeInv
  <2> QED
    BY <2>5, <2>6, <2>7, <2>8, <2>9, <2>10
<1>18. CASE UNCHANGED liveVars
  <2>1. LiveTypes' /\ OrderInv' /\ EngineInv'
    BY <1>18 DEF liveVars, LiveTypes, OrderInv, EngineInv, Kind
  <2>2. StagedInv' /\ BoundInv' /\ WakeInv'
    BY <1>18 DEF liveVars, StagedInv, BoundInv, WakeInv, Kind
  <2> QED
    BY <2>1, <2>2
<1> QED
  BY <1>1, <1>2, <1>3, <1>4, <1>5, <1>6, <1>7, <1>8, <1>9, <1>10, <1>11, <1>12, <1>13, <1>14, <1>15,
     <1>16, <1>17, <1>18 DEF LiveNext, ReaderStep, EngineStep

(* A wait that a break is bound to is woken, however many requests come     *)
(* before and after and whichever of the two threads is faster: while the   *)
(* wait is in DbgEng its interrupt is filed, about to be filed, or about to *)
(* be taken back (stage_live_break, request_live_break and begin_live_wait, *)
(* worker.rs).                                                              *)
THEOREM BreakWakesItsWait == LiveSpec => []BoundBreakWakes
<1>1. LiveInv => BoundBreakWakes
  BY DEF LiveInv, WakeInv, BoundBreakWakes
<1> QED
  BY <1>1, LiveStart, LiveStep, PTL DEF LiveSpec

(* What a break answers is the outcome of the wait it was bound to and of   *)
(* no other, or that it came to nothing: the outcome on record is set by    *)
(* the end of that wait alone (finish_live_break, worker.rs).               *)
THEOREM BreakSpeaksForItsWait == LiveSpec => []BreakAnswersForItsWait
<1>1. LiveInv => BreakAnswersForItsWait
  BY DEF LiveInv, BoundInv, BreakAnswersForItsWait
<1> QED
  BY <1>1, LiveStart, LiveStep, PTL DEF LiveSpec
=============================================================================

