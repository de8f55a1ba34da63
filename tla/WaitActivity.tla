---------------------------- MODULE WaitActivity ----------------------------
(***************************************************************************)
(* One interruptible DbgEng wait, as the threads that may end it see it    *)
(* (skdispatch.rs, WaitActivity): the interval in which an interrupt may   *)
(* be raised, and whether a break has been bound to the wait.  The scope   *)
(* gate makes each of these operations one step.                           *)
(***************************************************************************)

ArmedWait == [phase |-> "Armed", broken |-> FALSE]

FinishWait(activity) == [activity EXCEPT !.phase = "Finished"]

(***************************************************************************)
(* request_break and cancel_break.                                        *)
(***************************************************************************)
RequestBreak(activity) == [activity EXCEPT !.broken = TRUE]
CancelBreak(activity) == [activity EXCEPT !.broken = FALSE]

(***************************************************************************)
(* enter: a break bound to the wait before it began ends it without an     *)
(* interrupt; the worker refuses it when the session is ending; otherwise  *)
(* the interruptible interval begins.                                      *)
(***************************************************************************)
Enter(activity, admitted) ==
    [activity EXCEPT !.phase = IF ~activity.broken /\ admitted THEN "Active" ELSE "Finished"]

Interruptible(activity) == activity.phase = "Active"
=============================================================================
