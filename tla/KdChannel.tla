----------------------------- MODULE KdChannel -----------------------------
(***************************************************************************)
(* What the KD link promises its two ends: one place for a command on its  *)
(* way down and one for a packet on its way up.  A command is taken at     *)
(* most once and in the order it was asked, a packet is heard at most once *)
(* and in the order it was said, and while the ends are in step nothing is *)
(* lost.  KdLink is the protocol that implements it.                       *)
(***************************************************************************)
EXTENDS Naturals

VARIABLES
    asked,      \* the number of the last command the debugger asked
    taken,      \* the last one the target's service was given
    takes,      \* how many it was given
    down,       \* the one on its way, 0 if none
    said,       \* the number of the last packet the service sent
    heard,      \* the last one the debugger was given
    hears,      \* how many it was given
    up,         \* the one on its way, 0 if none
    inStep      \* no resynchronisation is under way

channelVars == <<asked, taken, takes, down, said, heard, hears, up, inStep>>

Init ==
    /\ asked = 0 /\ taken = 0 /\ takes = 0 /\ down = 0
    /\ said = 0 /\ heard = 0 /\ hears = 0 /\ up = 0
    /\ inStep = FALSE

Ask ==
    /\ down = 0
    /\ asked' = asked + 1 /\ down' = asked'
    /\ UNCHANGED <<taken, takes, said, heard, hears, up, inStep>>

Take ==
    /\ down # 0
    /\ taken' = down /\ takes' = takes + 1 /\ down' = 0
    /\ UNCHANGED <<asked, said, heard, hears, up, inStep>>

Say ==
    /\ up = 0
    /\ said' = said + 1 /\ up' = said'
    /\ UNCHANGED <<asked, taken, takes, down, heard, hears, inStep>>

Hear ==
    /\ up # 0
    /\ heard' = up /\ hears' = hears + 1 /\ up' = 0
    /\ UNCHANGED <<asked, taken, takes, down, said, inStep>>

(***************************************************************************)
(* Only a resynchronisation may give up what is on its way, and ask or say *)
(* anew.  What was given up may still arrive meanwhile, but never twice    *)
(* and never after what was asked or said later.                           *)
(***************************************************************************)
Resynchronise ==
    /\ ~inStep \/ ~inStep'
    /\ inStep' \in BOOLEAN
    /\ asked' \in asked .. asked + 1 /\ taken' \in taken .. asked'
    /\ said' \in said .. said + 1 /\ heard' \in heard .. said'
    /\ takes' = takes + (IF taken' = taken THEN 0 ELSE 1)
    /\ hears' = hears + (IF heard' = heard THEN 0 ELSE 1)
    /\ down' \in {0} \cup taken' + 1 .. asked'
    /\ up' \in {0} \cup heard' + 1 .. said'

Next == Ask \/ Take \/ Say \/ Hear \/ Resynchronise

Spec == Init /\ [][Next]_channelVars
=============================================================================
