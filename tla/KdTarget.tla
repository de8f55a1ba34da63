------------------------------ MODULE KdTarget ------------------------------
(***************************************************************************)
(* The managed Secure Kernel KD target (kdtarget.rs): one service that     *)
(* holds a stopped kernel, answers the debugger on a pipe and lets the     *)
(* kernel run when it is told to; one task that reads the pipe and wakes a *)
(* running wait; and the interrupts that task spawns.                      *)
(*                                                                         *)
(* The wire is KdLink.  The first `queued` frames of toTarget are in the   *)
(* bounded queue between the reader and the service.  Registers, memory    *)
(* and contexts are left out: a request that only reads is one "read".     *)
(***************************************************************************)
EXTENDS KdLink, WaitActivity, FiniteSets

CONSTANTS
    QueueDepth,     \* TRANSPORT_QUEUE_DEPTH
    DecodeFailures  \* consecutive failures that are fatal, 3

ASSUME KdTargetConstants ==
    QueueDepth \in Nat \ {0} /\ DecodeFailures \in Nat \ {0}

VARIABLES
    queued,     \* how many frames the reader has handed to the service
    reader,     \* the task of read_transport: see ReaderWake, ReaderFails and ReaderQueue
    failures,   \* consecutive_decode_failures
    phase,      \* where the service is
    tracing,    \* the continue being served is a trace
    displaced,  \* displaced_breakpoint
    disarm,     \* pending_special_disarm
    stopped,    \* StoppedBreakIn
    wait,       \* WaitWakeState::active: its policy and reason
    pending,    \* WaitWakeState::pending
    activity,   \* the WaitActivity of the run
    raiser,     \* the task spawned by spawn_interrupt: at work on it, or it failed
    filed,      \* a break is pending in DbgEng
    waited,     \* what the running wait returned
    teardown    \* kd_teardown_requested

readerVars == <<queued, reader, failures>>
stopVars == <<tracing, displaced, disarm, stopped>>
wakeVars == <<wait, pending, activity, raiser, filed, waited>>
targetVars == <<linkVars, readerVars, phase, stopVars, wakeVars, teardown>>

NoBreak == [deferred |-> FALSE, served |-> FALSE]
NoWait == [active |-> FALSE, policy |-> "Cancel", reason |-> "none"]
Over == {"ended", "TeardownPending", "Released", "Failed"}

(***************************************************************************)
(* run_async up to the first stop has succeeded: the kernel is held and    *)
(* the service is about to create its pipe.                                *)
(***************************************************************************)
TargetInit ==
    /\ Init
    /\ queued = 0 /\ reader = "ended" /\ failures = 0
    /\ phase = "connecting"
    /\ tracing = FALSE /\ displaced = FALSE /\ disarm = FALSE /\ stopped = NoBreak
    /\ wait = NoWait /\ pending = <<>>
    /\ activity = FinishWait(ArmedWait) /\ raiser = "none" /\ filed = FALSE /\ waited = "none"
    /\ teardown = FALSE

-----------------------------------------------------------------------------
(***************************************************************************)
(* The waker.  A reason asked for while no wait is active waits for the    *)
(* next one; a second reason for the same wait is dropped; a break in a    *)
(* wait that defers breaks is kept for later.                              *)
(***************************************************************************)
Wake(reason) ==
    \/ /\ ~wait.active
       /\ pending' = Append(pending, reason)
       /\ UNCHANGED <<wait, activity, raiser>>
    \/ /\ wait.active /\ wait.reason # "none"
       /\ UNCHANGED <<wait, pending, activity, raiser>>
    \/ /\ wait.active /\ wait.reason = "none"
       /\ wait.policy = "Defer" /\ reason = "BreakIn"
       /\ pending' = Append(pending, reason)
       /\ UNCHANGED <<wait, activity, raiser>>
    \/ /\ wait.active /\ wait.reason = "none"
       /\ ~(wait.policy = "Defer" /\ reason = "BreakIn")
       /\ wait' = [wait EXCEPT !.reason = reason]
       /\ activity' = IF wait.policy = "Rendezvous" /\ reason = "BreakIn"
                      THEN RequestBreak(activity) ELSE activity
       /\ raiser' = "raising"
       /\ UNCHANGED pending

(***************************************************************************)
(* WaitWakeState::begin.                                                   *)
(***************************************************************************)
Policy ==
    IF displaced /\ ~tracing THEN "Defer" ELSE IF tracing THEN "Cancel" ELSE "Rendezvous"

BeginWait ==
    LET kept == Policy = "Defer" /\ pending # <<>> /\ Head(pending) = "BreakIn"
        reason == IF pending = <<>> \/ kept THEN "none" ELSE Head(pending)
    IN  /\ wait' = [active |-> TRUE, policy |-> Policy, reason |-> reason]
        /\ pending' = IF reason = "none" THEN pending ELSE Tail(pending)
        /\ activity' = IF Policy = "Rendezvous" /\ reason = "BreakIn"
                       THEN RequestBreak(ArmedWait) ELSE ArmedWait
        /\ raiser' = IF reason = "none" THEN "none" ELSE "raising"

(***************************************************************************)
(* consume_frame: the service reads the frame a pending wake stands for.   *)
(***************************************************************************)
WakeOf(f) ==
    CASE f.type = "break" -> "BreakIn"
      [] f.type = "reset" -> "Reset"
      [] f.type = "fatal" -> "Transport"
      [] f.type = "eof" -> "Disconnected"
      [] OTHER -> "none"

Consume(f) ==
    pending' = IF pending # <<>> /\ Head(pending) = WakeOf(f) /\ f.type # "eof"
               THEN Tail(pending) ELSE pending

-----------------------------------------------------------------------------
(***************************************************************************)
(* read_transport: the reader decodes the next frame and asks for the wake *)
(* it stands for ("woke"), and only then hands it over.  A full queue      *)
(* drops that frame and ends the reader ("full"): neither the frame at     *)
(* queued + 1 nor any behind it is ever read.  A read that fails is handed *)
(* over as a message of its own ("failing", "failed"), if there is room.   *)
(***************************************************************************)
Decoded ==
    LET f == toTarget[queued + 1]
    IN  IF f.type = "malformed" /\ failures + 1 >= DecodeFailures THEN Malformed(TRUE) ELSE f

ReaderWake ==
    /\ phase \notin Over
    /\ reader = "reading" /\ queued < Len(toTarget)
    /\ toTarget' = [toTarget EXCEPT ![queued + 1] = Decoded]
    /\ failures' = IF Decoded.type \in {"malformed", "fatal"} THEN failures + 1 ELSE 0
    /\ reader' = "woke"
    /\ IF WakeOf(Decoded) # "none" THEN Wake(WakeOf(Decoded))
       ELSE UNCHANGED <<wait, pending, activity, raiser>>
    /\ UNCHANGED <<link, host, toHost, asked, taken, takes, said, heard, hears, spent>>
    /\ UNCHANGED <<queued, phase, stopVars, filed, waited, teardown>>

ReaderFails ==
    /\ phase \notin Over
    /\ reader = "reading"
    /\ reader' = "failing"
    /\ Spend("damage")
    /\ Wake("Transport")
    /\ UNCHANGED <<link, host, toTarget, toHost, asked, taken, takes, said, heard, hears>>
    /\ UNCHANGED <<queued, failures, phase, stopVars, filed, waited, teardown>>

ReaderQueue ==
    /\ phase \notin Over
    /\ \/ /\ reader = "woke" /\ queued < QueueDepth
          /\ queued' = queued + 1
          /\ reader' = IF toTarget[queued'].type \in {"fatal", "eof"} THEN "ended" ELSE "reading"
          /\ UNCHANGED <<wait, pending, activity, raiser>>
       \/ /\ reader = "failing" /\ queued < QueueDepth
          /\ reader' = "failed"
          /\ UNCHANGED <<queued, wait, pending, activity, raiser>>
       \/ /\ reader \in {"woke", "failing"} /\ queued >= QueueDepth
          /\ reader' = IF reader = "woke" THEN "full" ELSE "ended"
          /\ Wake("Transport")
          /\ UNCHANGED queued
    /\ UNCHANGED <<linkVars, failures, phase, stopVars, filed, waited, teardown>>

(***************************************************************************)
(* The task of spawn_interrupt raises a break only inside the interval the *)
(* wait publishes, and gives up once that is over or the interrupt itself  *)
(* returns an error.                                                       *)
(***************************************************************************)
RaiseOnlyOnce ==
    /\ phase \notin Over
    /\ raiser = "raising"
    /\ raiser' = "none"
    /\ filed' = (filed \/ Interruptible(activity))
    /\ UNCHANGED <<linkVars, readerVars, phase, stopVars, wait, pending, activity, waited, teardown>>

Raise ==
    /\ phase \notin Over
    /\ raiser = "raising" /\ activity.phase # "Armed"
    /\ raiser' = "none"
    /\ filed' = (filed \/ Interruptible(activity))
    /\ UNCHANGED <<linkVars, readerVars, phase, stopVars, wait, pending, activity, waited, teardown>>

RaiseFails ==
    /\ phase \notin Over
    /\ raiser = "raising" /\ Interruptible(activity)
    /\ Spend("damage")
    /\ raiser' = "failed"
    /\ UNCHANGED <<link, host, toTarget, toHost, asked, taken, takes, said, heard, hears>>
    /\ UNCHANGED <<readerVars, phase, stopVars>>
    /\ UNCHANGED <<wait, pending, activity, filed, waited, teardown>>

(***************************************************************************)
(* start_idle_watchdog: no traffic for the idle timeout of the run.        *)
(***************************************************************************)
IdleWakes ==
    /\ wait.active /\ wait.reason = "none"
    /\ phase \in {"entering", "waiting"}
    /\ Wake("Idle")
    /\ UNCHANGED <<linkVars, readerVars, phase, stopVars, filed, waited, teardown>>

-----------------------------------------------------------------------------
(***************************************************************************)
(* The service between connections: a new pipe, a new reader, a new link   *)
(* and a new waker.                                                        *)
(***************************************************************************)
Connect ==
    /\ phase = "connecting" /\ HostConnect
    /\ queued' = 0 /\ reader' = "reading" /\ failures' = 0
    /\ phase' = "syncing"
    /\ wait' = NoWait /\ pending' = <<>>
    /\ stopped' = NoBreak /\ displaced' = FALSE /\ disarm' = FALSE
    /\ UNCHANGED <<tracing, activity, raiser, filed, waited, teardown>>

(***************************************************************************)
(* The debugger hung up, or the reader is gone: the managed service takes  *)
(* another connection.                                                     *)
(***************************************************************************)
ServeHangUp ==
    /\ phase \in {"syncing", "serving"}
    /\ \/ queued > 0 /\ Head(toTarget).type = "eof"
       \/ queued = 0 /\ reader \in {"ended", "full"}
    /\ phase' = "connecting"
    /\ UNCHANGED <<linkVars, readerVars, stopVars, wakeVars, teardown>>

\* A failed read is not a hang-up: its error ends the service.
ServeFailedRead ==
    /\ phase \in {"syncing", "serving"}
    /\ queued = 0 /\ reader = "failed"
    /\ phase' = "ended"
    /\ UNCHANGED <<linkVars, readerVars, stopVars, wakeVars, teardown>>

(***************************************************************************)
(* What the service does with a command: "restore" removes the hit         *)
(* breakpoint, "disarm" and "rearm" write the special registers, and a     *)
(* deferred break or a staged disarm turns a continue into another report  *)
(* of the same stop.                                                       *)
(***************************************************************************)
Commands == {"read", "restore", "disarm", "rearm", "go", "trace"}

Serve(command) ==
    /\ tracing' = (command = "trace")
    /\ displaced' = (displaced \/ command = "restore")
    /\ disarm' = ((disarm \/ command = "disarm") /\ command # "rearm")
    /\ LET continues == command \in {"go", "trace"}
           refused == stopped.deferred \/ (disarm /\ command = "go")
       IN  /\ stopped' = [stopped EXCEPT !.deferred = @ /\ ~continues]
           /\ phase' = IF continues /\ ~refused THEN "resuming" ELSE "replying"

ServedBreakKept ==
    IF stopped.served
    THEN UNCHANGED <<stopped, phase>>
    ELSE IF link.outstanding # 0
    THEN /\ stopped' = [stopped EXCEPT !.deferred = TRUE]
         /\ UNCHANGED phase
    ELSE /\ phase' = "replying"
         /\ UNCHANGED stopped

ServeBreak ==
    IF stopped.served
    THEN /\ stopped' = [stopped EXCEPT !.served = FALSE]
         /\ UNCHANGED phase
    ELSE IF link.outstanding # 0
    THEN /\ stopped' = [stopped EXCEPT !.deferred = TRUE]
         /\ UNCHANGED phase
    ELSE /\ phase' = "replying"
         /\ UNCHANGED stopped

ServeFrame ==
    /\ phase \in {"syncing", "serving"} /\ queued > 0
    /\ LET f == Head(toTarget)
       IN  /\ f.type # "eof"
           /\ host.phase # "off" \/ Answer(link, f) = <<>>
           /\ LinkReceive
           /\ queued' = queued - 1
           /\ Consume(f)
           /\ \/ /\ f.type = "fatal"
                 /\ phase' = "ended" /\ UNCHANGED stopVars
              \/ /\ f.type = "reset"
                 /\ phase' = "replying"
                 /\ displaced' = FALSE /\ disarm' = FALSE /\ stopped' = NoBreak
                 /\ UNCHANGED tracing
              \/ /\ phase = "syncing" /\ f.type \notin {"fatal", "reset"}
                 /\ UNCHANGED <<phase, stopVars>>
              \/ /\ phase = "serving" /\ f.type = "break"
                 /\ ServeBreak /\ UNCHANGED <<tracing, displaced, disarm>>
              \/ /\ phase = "serving" /\ Delivered(link, f) # 0
                 /\ \E command \in Commands : Serve(command)
              \/ /\ phase = "serving" /\ Delivered(link, f) # 0   \* not a manipulate request
                 /\ UNCHANGED <<phase, stopVars>>
              \/ /\ phase = "serving" /\ f.type \notin {"fatal", "reset", "break"}
                 /\ Delivered(link, f) = 0
                 /\ UNCHANGED <<phase, stopVars>>
    /\ UNCHANGED <<reader, failures, wait, activity, raiser, filed, waited, teardown>>

(***************************************************************************)
(* send_stop and the responses: one packet, if the last is acknowledged.   *)
(***************************************************************************)
Reply ==
    /\ phase = "replying" /\ host.phase # "off"
    /\ \/ LinkSend /\ phase' = "serving"
       \/ link.outstanding # 0 /\ phase' = "ended" /\ UNCHANGED linkVars
    /\ UNCHANGED <<readerVars, stopVars, wakeVars, teardown>>

(***************************************************************************)
(* A write to a pipe the debugger has closed fails, and the error is not   *)
(* the one the service reconnects after.                                   *)
(***************************************************************************)
WriteFails ==
    /\ host.phase = "off"
    /\ \/ phase = "replying"
       \/ /\ phase \in {"syncing", "serving"} /\ queued > 0
          /\ Head(toTarget).type # "eof" /\ Answer(link, Head(toTarget)) # <<>>
    /\ phase' = "ended"
    /\ UNCHANGED <<linkVars, readerVars, stopVars, wakeVars, teardown>>

-----------------------------------------------------------------------------
(***************************************************************************)
(* A continue: the waker is told before the controller's transition, whose *)
(* refusal keeps the stop and whose failure ends the service.              *)
(***************************************************************************)
Begin ==
    /\ phase = "resuming"
    /\ BeginWait
    /\ phase' = "begun"
    /\ UNCHANGED <<linkVars, readerVars, stopVars, filed, waited, teardown>>

ResumeFails ==
    /\ phase = "begun"
    /\ activity' = FinishWait(activity) /\ wait' = NoWait
    /\ \/ phase' = "ended" /\ UNCHANGED disarm
       \/ phase' = "replying" /\ disarm' = (disarm /\ ~tracing)
    /\ UNCHANGED <<linkVars, readerVars, tracing, displaced, stopped>>
    /\ UNCHANGED <<pending, raiser, filed, waited, teardown>>

Resume ==
    /\ phase = "begun"
    /\ Spend("run")
    /\ phase' = "entering"
    /\ disarm' = FALSE /\ displaced' = FALSE
    /\ UNCHANGED <<link, host, toTarget, toHost, asked, taken, takes, said, heard, hears>>
    /\ UNCHANGED <<readerVars, tracing, stopped, wakeVars, teardown>>

\* What the debugger has not consumed by now stands in its way.
FlushFails ==
    /\ phase = "entering"
    /\ activity' = FinishWait(activity) /\ wait' = NoWait
    /\ phase' = "ended"
    /\ UNCHANGED <<linkVars, readerVars, stopVars, pending, raiser, filed, waited, teardown>>

EnterWait ==
    /\ phase = "entering"
    /\ activity' = Enter(activity, ~teardown)
    /\ \/ /\ Interruptible(activity') /\ phase' = "waiting" /\ UNCHANGED waited
       \/ /\ ~Interruptible(activity') /\ phase' = "waited"
          /\ waited' = IF activity.broken THEN "break" ELSE "error"
    /\ UNCHANGED <<linkVars, readerVars, stopVars, wait, pending, raiser, filed, teardown>>

(***************************************************************************)
(* The owned wait ends.  A stop of the kernel's own wins over a break that *)
(* has been filed, and may leave it behind.                                *)
(***************************************************************************)
StopOccurs ==
    /\ phase = "waiting"
    /\ waited' = "stop" /\ phase' = "waited"
    /\ activity' = FinishWait(activity)
    /\ filed' \in {filed, FALSE}
    /\ UNCHANGED <<linkVars, readerVars, stopVars, wait, pending, raiser, teardown>>

WaitCut ==
    /\ phase = "waiting" /\ filed
    /\ waited' = IF activity.broken THEN "break" ELSE "error"
    /\ phase' = "waited"
    /\ activity' = FinishWait(activity)
    /\ filed' = FALSE
    /\ UNCHANGED <<linkVars, readerVars, stopVars, wait, pending, raiser, teardown>>

\* Its deadline, or any other error of the wait.
WaitFails ==
    /\ phase = "waiting"
    /\ waited' = "error" /\ phase' = "waited"
    /\ activity' = FinishWait(activity)
    /\ UNCHANGED <<linkVars, readerVars, stopVars, wait, pending, raiser, filed, teardown>>

AfterWait ==
    /\ phase = "waited"
    /\ wait' = NoWait
    /\ phase' = CASE teardown -> "ended"
                  [] ~teardown /\ waited = "stop" -> "replying"
                  [] ~teardown /\ waited = "break" /\ wait.reason = "BreakIn" -> "breaking"
                  [] OTHER -> "ended"
    /\ disarm' = FALSE
    /\ UNCHANGED <<linkVars, readerVars, tracing, displaced, stopped, pending, activity, raiser,
                   filed, waited, teardown>>

(***************************************************************************)
(* break_on_demand, on the service's own thread: the kernel is paused and  *)
(* stopped, and the byte that asked for it is still to be read.            *)
(***************************************************************************)
BreakOnDemand ==
    /\ phase = "breaking"
    /\ \/ phase' = "ended" /\ UNCHANGED stopped
       \/ /\ stopped' = [stopped EXCEPT !.served = TRUE]
          /\ phase' = IF teardown THEN "ended" ELSE "replying"
    /\ UNCHANGED <<linkVars, readerVars, tracing, displaced, disarm, wakeVars, teardown>>

-----------------------------------------------------------------------------
(***************************************************************************)
(* The bounded waits of the stopped service run out, or it sees that the   *)
(* worker is tearing down; the worker interrupts a running wait it finds.  *)
(***************************************************************************)
ServiceTimeout ==
    /\ phase \in {"connecting", "syncing", "serving", "replying"}
    /\ phase' = "ended"
    /\ UNCHANGED <<linkVars, readerVars, stopVars, wakeVars, teardown>>

Teardown ==
    /\ ~teardown /\ phase \notin Over
    /\ teardown' = TRUE
    /\ filed' = (filed \/ Interruptible(activity))
    /\ UNCHANGED <<linkVars, readerVars, phase, stopVars, wait, pending, activity, raiser, waited>>

(***************************************************************************)
(* finish_managed: a teardown leaves the controller to the worker.         *)
(***************************************************************************)
Finished ==
    /\ phase = "ended"
    /\ phase' \in IF teardown THEN {"TeardownPending"} ELSE {"Released", "Failed"}
    /\ UNCHANGED <<linkVars, readerVars, stopVars, wakeVars, teardown>>

-----------------------------------------------------------------------------
(***************************************************************************)
(* The debugger presses Ctrl+Break at any time.                            *)
(***************************************************************************)
PressBreak ==
    /\ host.phase \in {"resetting", "up"}
    /\ Spend("break")
    /\ toTarget' = Append(toTarget, Break)
    /\ UNCHANGED <<link, host, toHost, asked, taken, takes, said, heard, hears>>

\* The frames the reader has decoded and the service not received.
ReadSoFar == queued + IF reader \in {"woke", "full"} THEN 1 ELSE 0

Debugger ==
    /\ phase \notin Over
    /\ HostReset \/ HostAsk \/ HostRepeat \/ HostHear \/ HostClose \/ PressBreak
       \/ Damage(ReadSoFar)
    /\ UNCHANGED <<readerVars, phase, stopVars, wakeVars, teardown>>

Service ==
    \/ ServeHangUp \/ ServeFailedRead \/ ServeFrame \/ Reply \/ WriteFails
    \/ Begin \/ Resume \/ ResumeFails \/ EnterWait \/ WaitCut \/ AfterWait \/ BreakOnDemand \/ Finished

TargetNext ==
    \/ ReaderWake \/ ReaderFails \/ ReaderQueue \/ Raise \/ RaiseFails \/ IdleWakes
    \/ Connect \/ Service \/ StopOccurs \/ WaitFails
    \/ ServiceTimeout \/ FlushFails \/ Teardown
    \/ Debugger

(***************************************************************************)
(* Fairness: the runtime keeps polling its tasks, and the service's thread *)
(* keeps going.  Nothing makes the kernel stop of its own, a timeout       *)
(* elapse, or the debugger do anything.                                    *)
(***************************************************************************)
TargetSpec ==
    /\ TargetInit /\ [][TargetNext]_targetVars
    /\ WF_targetVars(ReaderWake) /\ WF_targetVars(ReaderQueue) /\ WF_targetVars(Raise)
    /\ WF_targetVars(Service)

-----------------------------------------------------------------------------
(***************************************************************************)
(* Every break the target has recorded and not yet acted on - what is      *)
(* pending, what woke the wait, and what the current stop has served -     *)
(* stands for a byte of its own that the reader has decoded on this        *)
(* connection and the service has not received: one in the queue, the one  *)
(* being handed over, or the one a full queue has dropped.  A record       *)
(* without its byte would be a press nobody made, and while the reader     *)
(* goes on it would swallow the next Ctrl+Break as one already served.     *)
(***************************************************************************)
BreaksAreBacked ==
    phase \notin Over \cup {"connecting"} =>
        LET count(b) == IF b THEN 1 ELSE 0
        IN  Cardinality({i \in DOMAIN pending : pending[i] = "BreakIn"})
              + count(wait.active /\ wait.reason = "BreakIn")
              + count(phase = "breaking" \/ stopped.served)
            <= Cardinality({i \in 1 .. ReadSoFar : toTarget[i].type = "break"})

(***************************************************************************)
(* A Ctrl+Break that has woken a run ends it: the run stops, or the        *)
(* service ends and releases the kernel, however the interrupt races the   *)
(* beginning and the end of the wait; only an interrupt that itself        *)
(* returned an error leaves the run to its idle timeout.                   *)
(***************************************************************************)
Running == phase \in {"begun", "entering", "waiting"}
BreakEndsTheRun ==
    (Running /\ wait.reason = "BreakIn") ~> (~Running \/ raiser = "failed")
=============================================================================
