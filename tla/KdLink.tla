------------------------------- MODULE KdLink -------------------------------
(***************************************************************************)
(* The KD wire protocol of the private Secure Kernel target (kdwire.rs):   *)
(* one outstanding data packet in each direction, a packet id that         *)
(* alternates, acknowledgements, requests to resend and resets.            *)
(*                                                                         *)
(* TargetLink is translated from the source.  The debugger at the other    *)
(* end of the pipe is DbgEng's own KD transport, which is external: it     *)
(* keeps the same alternating ids, repeats what is not acknowledged, and   *)
(* while it resynchronises drops everything up to the answering reset.     *)
(* The pipe keeps the order; a frame may reach the target damaged, which   *)
(* is what the decoder's errors stand for.                                 *)
(***************************************************************************)
EXTENDS Naturals, Sequences

CONSTANTS
    MaxCommands,    \* commands the debugger asks
    Allowed         \* how often the Chances may happen, in every combination allowed

(***************************************************************************)
(* The debugger resynchronises of its own accord, runs out of patience and *)
(* repeats itself, or connects; a frame is damaged on its way.  KdTarget   *)
(* adds Ctrl+Break and runs of the kernel, and counts a read or an         *)
(* interrupt that fails as damage.                                         *)
(***************************************************************************)
Chances == {"reset", "repeat", "connect", "damage", "break", "run"}

ASSUME KdLinkConstants == MaxCommands \in Nat /\ Allowed \subseteq [Chances -> Nat]

VARIABLES
    link,       \* TargetLink: its ids and its unacknowledged packet
    host,       \* the debugger's end
    toTarget,   \* the frames written by the debugger and not yet received
    toHost,     \* the frames written by the target and not yet heard
    asked, taken, takes, said, heard, hears,    \* what KdChannel counts
    spent       \* how often each of the Chances has happened

linkVars == <<link, host, toTarget, toHost, asked, taken, takes, said, heard, hears, spent>>

(***************************************************************************)
(* A packet is known by its number; 0 is no packet.  Ids are 0 and 1; 2 is *)
(* any id that is neither of the two a link expects.                       *)
(***************************************************************************)
Data(id, n) == [type |-> "data", id |-> id, n |-> n]
Control(type, id) == [type |-> type, id |-> id, n |-> 0]
Ack(id) == Control("ack", id)
Reset == Control("reset", 0)
Resend == Control("resend", 0)
Break == Control("break", 0)
Malformed(fatal) == Control(IF fatal THEN "fatal" ELSE "malformed", 0)
Eof == Control("eof", 0)

Host(phase) ==
    [phase |-> phase, sendId |-> 0, receiveId |-> 0, outstanding |-> 0, turn |-> FALSE]

NewLink == [sendId |-> 0, receiveId |-> 0, outstanding |-> 0]
Flip(id) == 1 - id

(***************************************************************************)
(* TargetLink::receive: the link after a frame, and what it answers.       *)
(***************************************************************************)
AckOfAnyId(l, f) ==
    CASE f.type = "reset" -> NewLink
      [] f.type = "ack" -> [l EXCEPT !.sendId = Flip(@), !.outstanding = 0]
      [] f.type = "data" /\ f.id = l.receiveId -> [l EXCEPT !.receiveId = Flip(@)]
      [] OTHER -> l

Received(l, f) ==
    CASE f.type = "reset" -> NewLink
      [] f.type = "ack" /\ f.id = l.sendId ->
            [l EXCEPT !.sendId = Flip(@), !.outstanding = 0]
      [] f.type = "data" /\ f.id = l.receiveId -> [l EXCEPT !.receiveId = Flip(@)]
      [] OTHER -> l

Answer(l, f) ==
    CASE f.type = "reset" -> <<Reset>>
      [] f.type = "resend" ->
            IF l.outstanding # 0 THEN <<Data(l.sendId, l.outstanding)>> ELSE <<Reset>>
      [] f.type = "data" -> <<IF f.id \in 0 .. 1 THEN Ack(f.id) ELSE Resend>>
      [] f.type \in {"malformed", "fatal"} -> <<Resend>>
      [] OTHER -> <<>>

Delivered(l, f) == IF f.type = "data" /\ f.id = l.receiveId THEN f.n ELSE 0

Init ==
    /\ link = NewLink
    /\ host = Host("off")
    /\ toTarget = <<>> /\ toHost = <<>>
    /\ asked = 0 /\ taken = 0 /\ takes = 0 /\ said = 0 /\ heard = 0 /\ hears = 0
    /\ spent = [c \in Chances |-> 0]

(***************************************************************************)
(* The target reads one frame; the service that calls receive acts on what *)
(* it returns.                                                             *)
(***************************************************************************)
LinkReceive ==
    /\ toTarget # <<>>
    /\ LET f == Head(toTarget) IN
        /\ link' = Received(link, f)
        /\ taken' = IF Delivered(link, f) # 0 THEN f.n ELSE taken
        /\ takes' = IF Delivered(link, f) # 0 THEN takes + 1 ELSE takes
        /\ toHost' = toHost \o Answer(link, f)
    /\ toTarget' = Tail(toTarget)
    /\ UNCHANGED <<host, asked, said, heard, hears, spent>>

(***************************************************************************)
(* TargetLink::send, which refuses a second packet before the first is     *)
(* acknowledged.                                                           *)
(***************************************************************************)
LinkSend ==
    /\ link.outstanding = 0
    /\ said' = said + 1
    /\ link' = [link EXCEPT !.outstanding = said']
    /\ toHost' = Append(toHost, Data(link.sendId, said'))
    /\ UNCHANGED <<host, toTarget, asked, taken, takes, heard, hears, spent>>

(***************************************************************************)
(* The debugger's end.                                                     *)
(***************************************************************************)
Spend(chance) ==
    /\ spent' = [spent EXCEPT ![chance] = @ + 1]
    /\ spent' \in Allowed

HostConnect ==
    /\ host.phase = "off"
    /\ Spend("connect")
    /\ host' = Host("idle") /\ link' = NewLink
    /\ toTarget' = <<>> /\ toHost' = <<>>
    /\ UNCHANGED <<asked, taken, takes, said, heard, hears>>

HostClose ==
    /\ host.phase # "off"
    /\ host' = Host("off")
    /\ toTarget' = Append(toTarget, Eof) /\ toHost' = <<>>
    /\ UNCHANGED <<link, asked, taken, takes, said, heard, hears, spent>>

HostReset ==
    /\ host.phase # "off"
    /\ Spend("reset")
    /\ host' = Host("resetting")
    /\ toTarget' = Append(toTarget, Reset)
    /\ UNCHANGED <<link, toHost, asked, taken, takes, said, heard, hears>>

HostAsk ==
    /\ host.phase = "up" /\ host.outstanding = 0 /\ host.turn
    /\ asked < MaxCommands
    /\ asked' = asked + 1
    /\ host' = [host EXCEPT !.outstanding = asked', !.turn = FALSE]
    /\ toTarget' = Append(toTarget, Data(host.sendId, asked'))
    /\ UNCHANGED <<link, toHost, taken, takes, said, heard, hears, spent>>

HostRepeat ==
    /\ Spend("repeat")
    /\ \/ /\ host.phase = "resetting"
          /\ toTarget' = Append(toTarget, Reset)
       \/ /\ host.phase = "up" /\ host.outstanding # 0
          /\ toTarget' = Append(toTarget, Data(host.sendId, host.outstanding))
    /\ UNCHANGED <<link, host, toHost, asked, taken, takes, said, heard, hears>>

HostHear ==
    /\ toHost # <<>>
    /\ toHost' = Tail(toHost)
    /\ LET f == Head(toHost) IN
        \/ /\ f.type = "reset" /\ host.phase = "resetting"
           /\ host' = [host EXCEPT !.phase = "up"]
           /\ UNCHANGED <<toTarget, heard, hears>>
        \/ /\ f.type = "reset" /\ host.phase = "up"     \* the target asks for one
           /\ host' = Host("resetting")
           /\ toTarget' = Append(toTarget, Reset)
           /\ UNCHANGED <<heard, hears>>
        \/ /\ f.type # "reset" /\ host.phase # "up"
           /\ UNCHANGED <<host, toTarget, heard, hears>>
        \/ /\ f.type = "ack" /\ host.phase = "up"
           /\ host' = IF f.id = host.sendId
                      THEN [host EXCEPT !.sendId = Flip(@), !.outstanding = 0]
                      ELSE host
           /\ UNCHANGED <<toTarget, heard, hears>>
        \/ /\ f.type = "resend" /\ host.phase = "up"
           /\ toTarget' = IF host.outstanding = 0 THEN toTarget
                          ELSE Append(toTarget, Data(host.sendId, host.outstanding))
           /\ UNCHANGED <<host, heard, hears>>
        \/ /\ f.type = "data" /\ host.phase = "up"
           /\ toTarget' = Append(toTarget, Ack(f.id))
           /\ host' = IF f.id = host.receiveId THEN [host EXCEPT !.receiveId = Flip(@), !.turn = TRUE]
                      ELSE host
           /\ heard' = IF f.id = host.receiveId THEN f.n ELSE heard
           /\ hears' = IF f.id = host.receiveId THEN hears + 1 ELSE hears
        \/ /\ f.type = "malformed" /\ host.phase = "up"
           /\ \/ toTarget' = Append(toTarget, Resend)
              \/ host.outstanding # 0 /\ UNCHANGED toTarget    \* it repeats itself instead
           /\ UNCHANGED <<host, heard, hears>>
    /\ UNCHANGED <<link, asked, taken, takes, said, spent>>

(***************************************************************************)
(* A frame the target has not decoded yet is damaged, so that it does not  *)
(* decode or carries another id, or one on its way to the debugger is.     *)
(***************************************************************************)
Damage(decoded) ==
    /\ Spend("damage")
    /\ \/ \E i \in decoded + 1 .. Len(toTarget), f \in {Malformed(FALSE), Data(2, 0)} :
            /\ toTarget[i].type \in {"data", "ack"}
            /\ toTarget' = [toTarget EXCEPT ![i] = f]
            /\ UNCHANGED toHost
       \/ \E i \in DOMAIN toHost :
            /\ toHost[i].type \in {"data", "ack"}
            /\ toHost' = [toHost EXCEPT ![i] = Malformed(FALSE)]
            /\ UNCHANGED toTarget
    /\ UNCHANGED <<link, host, asked, taken, takes, said, heard, hears>>

Next ==
    \/ LinkReceive \/ LinkSend
    \/ HostConnect \/ HostClose \/ HostReset \/ HostAsk \/ HostRepeat \/ HostHear
    \/ Damage(0)

Spec == Init /\ [][Next]_linkVars

(***************************************************************************)
(* What is on its way: the command the debugger holds or has written and   *)
(* the target has not taken, and the packet the target holds and the       *)
(* debugger has not heard.                                                 *)
(***************************************************************************)
Down ==
    IF host.outstanding > taken THEN host.outstanding
    ELSE IF \E i \in DOMAIN toTarget : toTarget[i].type = "data" /\ toTarget[i].n > taken
    THEN asked
    ELSE 0

Up == IF link.outstanding > heard THEN link.outstanding ELSE 0

InStep ==
    /\ host.phase = "up"
    /\ \A i \in DOMAIN toTarget : toTarget[i].type # "reset"
    /\ \A i \in DOMAIN toHost : toHost[i].type # "reset"

Channel == INSTANCE KdChannel WITH down <- Down, up <- Up, inStep <- InStep

ChannelSpec == Channel!Spec
=============================================================================
