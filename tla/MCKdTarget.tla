----------------------------- MODULE MCKdTarget -----------------------------
(***************************************************************************)
(* The KD target and its debugger, who may reconnect, press Ctrl+Break     *)
(* twice around two runs, or meet a poor line or a read or an interrupt    *)
(* that fails: what has happened stays within one of the Profiles.         *)
(***************************************************************************)
EXTENDS KdTarget

Profile(connect, reset, break, run, repeat, damage) ==
    [connect |-> connect, reset |-> reset, break |-> break, run |-> run,
     repeat |-> repeat, damage |-> damage]

Profiles ==
    {Profile(2, 2, 0, 0, 0, 0), Profile(1, 1, 2, 2, 0, 0), Profile(1, 2, 0, 1, 0, 0),
     Profile(1, 1, 0, 0, 0, 2), Profile(1, 1, 0, 1, 1, 0), Profile(1, 1, 0, 0, 1, 1),
     Profile(1, 1, 1, 1, 0, 1)}

MCAllowed ==
    {s \in [Chances -> 0 .. 2] : \E p \in Profiles : \A c \in Chances : s[c] <= p[c]}
=============================================================================
