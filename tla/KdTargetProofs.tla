--------------------------- MODULE KdTargetProofs ---------------------------
(* What is proved of the KD link and of the managed target behind it, for   *)
(* any number of commands, connections, resets, repetitions, damaged frames *)
(* and breaks.                                                              *)
EXTENDS KdTarget, Integers, FiniteSetTheorems, TLAPS

-----------------------------------------------------------------------------
(* The inductive invariant of the wire.                                     *)

Types == {"data", "ack", "reset", "resend", "break", "malformed", "fatal", "eof"}
Frames ==
    {f \in [type : Types, id : 0 .. 2, n : Nat] : f.type = "data" => (f.id = 2 <=> f.n = 0)}
LinkTypes ==
    /\ link \in [sendId : 0 .. 1, receiveId : 0 .. 1, outstanding : Nat]
    /\ host \in [phase : {"off", "idle", "resetting", "up"}, sendId : 0 .. 1,
                 receiveId : 0 .. 1, outstanding : Nat, turn : BOOLEAN]
    /\ toTarget \in Seq(Frames) /\ toHost \in Seq(Frames)
    /\ asked \in Nat /\ taken \in Nat /\ takes \in Nat
    /\ said \in Nat /\ heard \in Nat /\ hears \in Nat

IsData(f) == f.type = "data" /\ f.n # 0
NoReset(q) == \A k \in DOMAIN q : q[k].type # "reset"

(* One direction, in step or not.  `last' is the latest number sent and     *)
(* `got' the latest delivered, id and out what the sending end will repeat; *)
(* q is what is on the way and rid the id that will be delivered.  The      *)
(* numbers on the way are in order, and a number is repeated with its own   *)
(* id and with no reset in between, so that nothing is delivered twice.     *)
InOrder(q) ==
    \A i, j \in DOMAIN q : i < j /\ IsData(q[i]) /\ IsData(q[j]) =>
        \/ q[i].n < q[j].n
        \/ /\ q[i].n = q[j].n /\ q[i].id = q[j].id
           /\ \A k \in i .. j : q[k].type # "reset"
Ahead(last, got, q, rid) ==
    \A j \in DOMAIN q : IsData(q[j]) =>
        /\ got <= q[j].n /\ q[j].n <= last
        /\ q[j].n = got => q[j].id # rid /\ \A k \in 1 .. j : q[k].type # "reset"
Repeats(n, id, q) ==
    \A j \in DOMAIN q : IsData(q[j]) /\ q[j].n = n =>
        q[j].id = id /\ \A k \in j .. Len(q) : q[k].type # "reset"
Flow(last, got, id, out, q, rid) ==
    /\ got <= last /\ out \in {0, last}
    /\ InOrder(q) /\ Ahead(last, got, q, rid)
    /\ out # 0 => Repeats(out, id, q)
    /\ out # 0 /\ out = got => NoReset(q) /\ id # rid

(* The debugger only takes packets while it is up.                          *)
Awaited == IF host.phase = "up" THEN host.receiveId ELSE 2
FlowInv ==
    /\ Flow(asked, taken, host.sendId, host.outstanding, toTarget, link.receiveId)
    /\ Flow(said, heard, link.sendId, link.outstanding, toHost, Awaited)

(* One direction while the ends are in step: the alternating ids.  `back'   *)
(* is what goes the other way and carries the acknowledgements.             *)
Without(q, type, id) == \A j \in DOMAIN q : q[j].type = type => q[j].id # id
OldFirst(q, type, id) ==
    \A i, j \in DOMAIN q :
        i < j /\ q[i].type = type /\ q[j].type = type /\ q[i].id = id => q[j].id # Flip(id)
Half(got, id, out, q, back, rid) ==
    \/ /\ out = 0 /\ rid = id
       /\ Without(q, "data", id) /\ Without(back, "ack", id)
       /\ \A j \in DOMAIN q : IsData(q[j]) => q[j].n <= got
    \/ /\ out # 0 /\ rid = id /\ got < out
       /\ OldFirst(q, "data", id) /\ Without(back, "ack", id)
       /\ \A j \in DOMAIN q : q[j].type = "data" /\ q[j].id = id => q[j].n = out
    \/ /\ out # 0 /\ rid = Flip(id) /\ got = out
       /\ Without(q, "data", Flip(id)) /\ OldFirst(back, "ack", id)
StepInv ==
    InStep =>
        /\ Half(taken, host.sendId, host.outstanding, toTarget, toHost, link.receiveId)
        /\ Half(heard, link.sendId, link.outstanding, toHost, toTarget, host.receiveId)

(* While the debugger resynchronises nothing but breaks follows its last    *)
(* reset, and once the target has answered that one both ends are new.      *)
InLast(q, j) == \A k \in j .. Len(q) : q[k].type # "reset"
Quiet(q) == \A j \in DOMAIN q : InLast(q, j) => q[j].type = "break"
Renewed(q, out) ==
    \A j \in DOMAIN q : InLast(q, j) =>
        /\ q[j].type # "ack"
        /\ q[j].type = "data" => q[j].id = 0 /\ q[j].n = out /\ out # 0
ResetInv ==
    host.phase = "resetting" =>
        /\ host.sendId = 0 /\ host.receiveId = 0 /\ host.outstanding = 0
        /\ Quiet(toTarget)
        /\ NoReset(toTarget) =>
             /\ ~NoReset(toHost) /\ Renewed(toHost, link.outstanding)
             /\ link.sendId = 0 /\ link.receiveId = 0
             /\ link.outstanding # 0 => heard < link.outstanding

LinkInv == LinkTypes /\ FlowInv /\ StepInv /\ ResetInv
-----------------------------------------------------------------------------
(* How the parts of the invariant change with what is on the way.  A frame  *)
(* that is added goes to the end.                                           *)
LEMMA Appended ==
    ASSUME NEW q \in Seq(Frames), NEW f \in Frames
    PROVE  /\ Append(q, f) \in Seq(Frames) /\ Len(Append(q, f)) = Len(q) + 1
           /\ \A i \in DOMAIN q : Append(q, f)[i] = q[i]
           /\ Append(q, f)[Len(q) + 1] = f
           /\ DOMAIN Append(q, f) = 1 .. Len(q) + 1 /\ DOMAIN q = 1 .. Len(q)
  OBVIOUS

(* The frame that is read comes off the front.                              *)
LEMMA Shortened ==
    ASSUME NEW q \in Seq(Frames), q # <<>>
    PROVE  /\ Tail(q) \in Seq(Frames) /\ Len(Tail(q)) = Len(q) - 1 /\ Len(q) \in Nat \ {0}
           /\ Head(q) = q[1] /\ Head(q) \in Frames
           /\ \A i \in 1 .. Len(q) - 1 : Tail(q)[i] = q[i + 1]
           /\ DOMAIN Tail(q) = 1 .. Len(q) - 1 /\ DOMAIN q = 1 .. Len(q)
  OBVIOUS

(* A frame that is damaged is replaced where it stands.                     *)
LEMMA Exchanged ==
    ASSUME NEW q \in Seq(Frames), NEW i \in DOMAIN q, NEW f \in Frames
    PROVE  LET p == [q EXCEPT ![i] = f]
           IN  /\ p \in Seq(Frames) /\ Len(p) = Len(q) /\ p[i] = f
               /\ \A j \in DOMAIN q : j # i => p[j] = q[j]
               /\ DOMAIN p = 1 .. Len(q) /\ DOMAIN q = 1 .. Len(q)
  OBVIOUS

-----------------------------------------------------------------------------
(* A direction after each thing that can happen to it.                      *)
Direction(last, got, id, out, q, rid) ==
    /\ last \in Nat /\ got \in Nat /\ id \in 0 .. 1 /\ out \in Nat /\ rid \in 0 .. 2
    /\ q \in Seq(Frames)
    /\ Flow(last, got, id, out, q, rid)

(* A new connection has nothing on the way.                                 *)
LEMMA FlowEmpty ==
    ASSUME NEW last \in Nat, NEW got \in Nat, got <= last, NEW id, NEW rid
    PROVE  Flow(last, got, id, 0, <<>>, rid)
  BY DEF Flow, InOrder, Ahead

(* The sender gives up what it would repeat, the receiver stops listening.  *)
LEMMA FlowGivenUp ==
    ASSUME NEW last, NEW got, NEW id, NEW out, NEW q, NEW rid, NEW id2,
           Direction(last, got, id, out, q, rid)
    PROVE  /\ Flow(last, got, id2, 0, q, rid) /\ Flow(last, got, id, out, q, 2)
           /\ Flow(last, got, id2, 0, q, 2)
<1> USE DEF Direction
<1>1. \A j \in DOMAIN q : IsData(q[j]) => q[j].id # 2
  BY DEF IsData, Frames
<1> QED
  BY <1>1 DEF Flow, Ahead

(* A frame with no number changes nothing.                                  *)
LEMMA FlowOther ==
    ASSUME NEW last, NEW got, NEW id, NEW out, NEW q, NEW rid, NEW f \in Frames,
           Direction(last, got, id, out, q, rid), ~IsData(f), f.type # "reset"
    PROVE  Flow(last, got, id, out, Append(q, f), rid)
<1> DEFINE p == Append(q, f)
<1> USE DEF Direction
<1>1. /\ DOMAIN p = 1 .. Len(q) + 1 /\ Len(p) = Len(q) + 1 /\ Len(q) \in Nat
      /\ DOMAIN q = 1 .. Len(q)
      /\ p[Len(q) + 1] = f /\ \A i \in 1 .. Len(q) : p[i] = q[i]
  BY Appended
<1> HIDE DEF p
<1>2. InOrder(p)
  BY <1>1 DEF Flow, InOrder
<1>3. Ahead(last, got, p, rid)
  BY <1>1 DEF Flow, Ahead
<1>4. out # 0 => Repeats(out, id, p)
  BY <1>1 DEF Flow, Repeats
<1> QED
  BY <1>1, <1>2, <1>3, <1>4 DEF Flow, NoReset, p

(* A reset is sent by an end that gives up what it would repeat.            *)
LEMMA FlowReset ==
    ASSUME NEW last, NEW got, NEW id, NEW out, NEW q, NEW rid, NEW id2,
           Direction(last, got, id, out, q, rid)
    PROVE  Flow(last, got, id2, 0, Append(q, Reset), rid)
<1> DEFINE p == Append(q, Reset)
<1> USE DEF Direction
<1>0. Reset \in Frames /\ ~IsData(Reset)
  BY DEF Reset, Control, Frames, Types, IsData
<1>1. /\ DOMAIN p = 1 .. Len(q) + 1 /\ Len(q) \in Nat /\ DOMAIN q = 1 .. Len(q)
      /\ p[Len(q) + 1] = Reset /\ \A i \in 1 .. Len(q) : p[i] = q[i]
  BY <1>0, Appended
<1> HIDE DEF p
<1>2. InOrder(p)
  BY <1>0, <1>1 DEF Flow, InOrder
<1>3. Ahead(last, got, p, rid)
  BY <1>0, <1>1 DEF Flow, Ahead
<1> QED
  BY <1>2, <1>3 DEF Flow, p

(* A new number is sent.                                                    *)
LEMMA FlowSend ==
    ASSUME NEW last, NEW got, NEW id, NEW out, NEW q, NEW rid,
           Direction(last, got, id, out, q, rid)
    PROVE  /\ Data(id, last + 1) \in Frames
           /\ Flow(last + 1, got, id, last + 1, Append(q, Data(id, last + 1)), rid)
<1> DEFINE f == Data(id, last + 1)
           p == Append(q, f)
<1> USE DEF Direction
<1>0. f \in Frames /\ IsData(f) /\ f.n = last + 1 /\ f.id = id /\ f.type = "data"
  BY DEF Data, Frames, Types, IsData
<1>1. /\ DOMAIN p = 1 .. Len(q) + 1 /\ Len(p) = Len(q) + 1 /\ Len(q) \in Nat
      /\ DOMAIN q = 1 .. Len(q)
      /\ p[Len(q) + 1] = f /\ \A i \in 1 .. Len(q) : p[i] = q[i] /\ q[i] \in Frames
  BY <1>0, Appended
<1>2. \A i \in 1 .. Len(q) : IsData(q[i]) => q[i].n \in Nat /\ q[i].n <= last
  BY <1>1 DEF Flow, Ahead, Frames
<1> HIDE DEF p, f
<1>3. InOrder(p)
  BY <1>0, <1>1, <1>2, SMTT(30) DEF Flow, InOrder
<1>4. Ahead(last + 1, got, p, rid)
  BY <1>0, <1>1, <1>2 DEF Flow, Ahead
<1>5. Repeats(last + 1, id, p)
  BY <1>0, <1>1, <1>2 DEF Repeats
<1> QED
  BY <1>0, <1>3, <1>4, <1>5 DEF Flow, p, f

(* The number that was sent last is sent again.                             *)
LEMMA FlowRepeat ==
    ASSUME NEW last, NEW got, NEW id, NEW out, NEW q, NEW rid,
           Direction(last, got, id, out, q, rid), out # 0
    PROVE  /\ Data(id, out) \in Frames
           /\ Flow(last, got, id, out, Append(q, Data(id, out)), rid)
<1> DEFINE f == Data(id, out)
           p == Append(q, f)
<1> USE DEF Direction
<1>0. f \in Frames /\ IsData(f) /\ f.n = out /\ f.id = id /\ f.type = "data" /\ out = last
  BY DEF Data, Frames, Types, IsData, Flow
<1>1. /\ DOMAIN p = 1 .. Len(q) + 1 /\ Len(p) = Len(q) + 1 /\ Len(q) \in Nat
      /\ DOMAIN q = 1 .. Len(q)
      /\ p[Len(q) + 1] = f /\ \A i \in 1 .. Len(q) : p[i] = q[i] /\ q[i] \in Frames
  BY <1>0, Appended
<1>2. \A i \in 1 .. Len(q) : IsData(q[i]) => q[i].n \in Nat /\ q[i].n <= last
  BY <1>1 DEF Flow, Ahead, Frames
<1>3. \A i \in 1 .. Len(q) : IsData(q[i]) /\ q[i].n = out =>
        q[i].id = id /\ \A k \in i .. Len(q) : q[k].type # "reset"
  BY <1>1 DEF Flow, Repeats
<1> HIDE DEF p, f
<1>4. InOrder(p)
  BY <1>0, <1>1, <1>2, <1>3, SMTT(30) DEF Flow, InOrder
<1>5. Ahead(last, got, p, rid)
  BY <1>0, <1>1, <1>2 DEF Flow, Ahead, NoReset
<1>6. Repeats(out, id, p)
  BY <1>0, <1>1, <1>3 DEF Repeats
<1>7. out = got => NoReset(p) /\ id # rid
  BY <1>0, <1>1 DEF Flow, NoReset
<1> QED
  BY <1>0, <1>4, <1>5, <1>6, <1>7 DEF Flow, p, f

(* The receiver reads a frame that is not delivered.                        *)
LEMMA FlowPassed ==
    ASSUME NEW last, NEW got, NEW id, NEW out, NEW q, NEW rid,
           Direction(last, got, id, out, q, rid), q # <<>>
    PROVE  /\ Flow(last, got, id, out, Tail(q), rid)
           /\ Head(q).type = "reset" => \A r \in 0 .. 2 : Flow(last, got, id, out, Tail(q), r)
<1> DEFINE p == Tail(q)
<1> USE DEF Direction
<1>1. /\ DOMAIN p = 1 .. Len(q) - 1 /\ Len(p) = Len(q) - 1 /\ Len(q) \in Nat \ {0}
      /\ DOMAIN q = 1 .. Len(q) /\ Head(q) = q[1] /\ \A i \in 1 .. Len(q) - 1 : p[i] = q[i + 1]
  BY Shortened
<1> HIDE DEF p
<1>2. InOrder(p)
  <2> SUFFICES ASSUME NEW i \in DOMAIN p, NEW j \in DOMAIN p, i < j, IsData(p[i]), IsData(p[j]),
                      ~(p[i].n < p[j].n)
               PROVE  /\ p[i].n = p[j].n /\ p[i].id = p[j].id
                      /\ \A k \in i .. j : p[k].type # "reset"
    BY DEF InOrder
  <2>1. i + 1 \in DOMAIN q /\ j + 1 \in DOMAIN q /\ i + 1 < j + 1 /\ p[i] = q[i + 1]
        /\ p[j] = q[j + 1]
    BY <1>1
  <2>2. /\ p[i].n = p[j].n /\ p[i].id = p[j].id
        /\ \A k \in i + 1 .. j + 1 : q[k].type # "reset"
    BY <2>1 DEF Flow, InOrder
  <2>3. \A k \in i .. j : k + 1 \in i + 1 .. j + 1 /\ p[k] = q[k + 1]
    BY <1>1, <2>1, SMTT(30)
  <2> QED
    BY <2>2, <2>3
<1>3. ASSUME NEW r \in 0 .. 2, r = rid \/ Head(q).type = "reset"
      PROVE  Ahead(last, got, p, r)
  <2> SUFFICES ASSUME NEW j \in DOMAIN p, IsData(p[j])
               PROVE  /\ got <= p[j].n /\ p[j].n <= last
                      /\ p[j].n = got => p[j].id # r /\ \A k \in 1 .. j : p[k].type # "reset"
    BY DEF Ahead
  <2>1. j + 1 \in DOMAIN q /\ p[j] = q[j + 1] /\ 1 \in 1 .. j + 1
    BY <1>1
  <2>2. /\ got <= p[j].n /\ p[j].n <= last
        /\ p[j].n = got => p[j].id # rid /\ \A k \in 1 .. j + 1 : q[k].type # "reset"
    BY <2>1 DEF Flow, Ahead
  <2>3. p[j].n = got => r = rid
    BY <1>1, <1>3, <2>1, <2>2
  <2>4. p[j].n = got => \A k \in 1 .. j : p[k].type # "reset"
    BY <1>1, <2>2
  <2> QED
    BY <2>2, <2>3, <2>4
<1>4. out # 0 => Repeats(out, id, p)
  <2> SUFFICES ASSUME out # 0, NEW j \in DOMAIN p, IsData(p[j]), p[j].n = out
               PROVE  p[j].id = id /\ \A k \in j .. Len(p) : p[k].type # "reset"
    BY DEF Repeats
  <2>1. j + 1 \in DOMAIN q /\ p[j] = q[j + 1]
    BY <1>1
  <2>2. p[j].id = id /\ \A k \in j + 1 .. Len(q) : q[k].type # "reset"
    BY <2>1 DEF Flow, Repeats
  <2> QED
    BY <1>1, <2>2, SMTT(30)
<1>5. out # 0 /\ out = got => NoReset(p) /\ id # rid /\ Head(q).type # "reset"
  BY <1>1 DEF Flow, NoReset
<1> QED
  BY <1>2, <1>3, <1>4, <1>5 DEF Flow, p

(* The receiver delivers what it reads: something later than before.        *)
LEMMA FlowDelivers ==
    ASSUME NEW last, NEW got, NEW id, NEW out, NEW q, NEW rid,
           Direction(last, got, id, out, q, rid), q # <<>>, IsData(Head(q)), Head(q).id = rid
    PROVE  /\ rid \in 0 .. 1 /\ Head(q).n \in got + 1 .. last /\ Head(q).n \in Nat
           /\ Flow(last, Head(q).n, id, out, Tail(q), Flip(rid))
<1> DEFINE p == Tail(q)
           n == Head(q).n
<1> USE DEF Direction
<1>1. /\ DOMAIN p = 1 .. Len(q) - 1 /\ Len(p) = Len(q) - 1 /\ Len(q) \in Nat \ {0}
      /\ DOMAIN q = 1 .. Len(q) /\ Head(q) = q[1] /\ \A i \in 1 .. Len(q) - 1 : p[i] = q[i + 1]
      /\ Head(q) \in Frames
  BY Shortened
<1>2. rid \in 0 .. 1 /\ n \in Nat /\ 1 \in DOMAIN q /\ rid # Flip(rid)
  BY <1>1 DEF Frames, IsData, Flip
<1>3. n \in got + 1 .. last
  BY <1>1, <1>2 DEF Flow, Ahead
<1>4. /\ InOrder(p) /\ out \in {0, last} /\ got <= last
      /\ out # 0 => Repeats(out, id, p)
  <2>1. Flow(last, got, id, out, p, rid)
    BY FlowPassed
  <2> QED
    BY <2>1 DEF Flow
<1> HIDE DEF p
<1>5. Ahead(last, n, p, Flip(rid))
  <2> SUFFICES ASSUME NEW j \in DOMAIN p, IsData(p[j])
               PROVE  /\ n <= p[j].n /\ p[j].n <= last
                      /\ p[j].n = n => p[j].id # Flip(rid) /\ \A k \in 1 .. j : p[k].type # "reset"
    BY DEF Ahead
  <2>1. j + 1 \in DOMAIN q /\ p[j] = q[j + 1] /\ 1 < j + 1 /\ q[j + 1] \in Frames
    BY <1>1
  <2>2. p[j].n <= last /\ p[j].n \in Nat
    BY <2>1 DEF Flow, Ahead, Frames
  <2>3. \/ n < p[j].n
        \/ n = p[j].n /\ rid = p[j].id /\ \A k \in 1 .. j + 1 : q[k].type # "reset"
    BY <1>1, <1>2, <2>1, SMTT(30), SMTT(30) DEF Flow, InOrder
  <2>4. ASSUME \A k \in 1 .. j + 1 : q[k].type # "reset", NEW k \in 1 .. j
        PROVE  p[k].type # "reset"
    <3>1. k + 1 \in 1 .. j + 1 /\ k \in 1 .. Len(q) - 1 /\ p[k] = q[k + 1]
      BY <1>1
    <3> QED
      BY <2>4, <3>1
  <2> HIDE DEF n
  <2> QED
    BY <1>2, <2>2, <2>3, <2>4
<1>6. out # 0 /\ out = n => NoReset(p) /\ id # Flip(rid)
  <2> SUFFICES ASSUME out # 0, out = n PROVE NoReset(p) /\ id # Flip(rid)
    OBVIOUS
  <2>1. rid = id /\ \A k \in 1 .. Len(q) : q[k].type # "reset"
    BY <1>1, <1>2 DEF Flow, Repeats
  <2> QED
    BY <1>1, <1>2, <2>1 DEF NoReset
<1> QED
  BY <1>2, <1>3, <1>4, <1>5, <1>6 DEF Flow, p

(* A frame is damaged on its way.                                           *)
LEMMA FlowDamaged ==
    ASSUME NEW last, NEW got, NEW id, NEW out, NEW q, NEW rid, NEW i \in DOMAIN q, NEW f \in Frames,
           Direction(last, got, id, out, q, rid), ~IsData(f), f.type # "reset", q[i].type # "reset"
    PROVE  Flow(last, got, id, out, [q EXCEPT ![i] = f], rid)
<1> DEFINE p == [q EXCEPT ![i] = f]
<1> USE DEF Direction
<1>1. /\ DOMAIN p = DOMAIN q /\ Len(p) = Len(q) /\ Len(q) \in Nat /\ DOMAIN q = 1 .. Len(q)
      /\ i \in 1 .. Len(q)
      /\ p[i] = f /\ \A j \in 1 .. Len(q) : j # i => p[j] = q[j]
  BY Exchanged
<1> HIDE DEF p
<1>2. \A j \in 1 .. Len(q) : (p[j].type # "reset" <=> q[j].type # "reset")
        /\ (IsData(p[j]) => p[j] = q[j])
  BY <1>1
<1>3. InOrder(p)
  BY <1>1, <1>2 DEF Flow, InOrder
<1>4. Ahead(last, got, p, rid)
  BY <1>1, <1>2 DEF Flow, Ahead
<1>5. out # 0 => Repeats(out, id, p)
  BY <1>1, <1>2 DEF Flow, Repeats
<1>6. NoReset(q) => NoReset(p)
  BY <1>1, <1>2 DEF NoReset
<1> QED
  BY <1>3, <1>4, <1>5, <1>6 DEF Flow, p

-----------------------------------------------------------------------------
(* The alternating ids of one direction, the ends being in step.            *)
InTurn(got, id, out, q, back, rid) ==
    /\ got \in Nat /\ id \in 0 .. 1 /\ out \in Nat /\ rid \in 0 .. 1
    /\ q \in Seq(Frames) /\ back \in Seq(Frames)
    /\ Half(got, id, out, q, back, rid)

(* The ids alternate.                                                       *)
LEMMA Flips == \A id \in 0 .. 1 : Flip(id) \in 0 .. 1 /\ Flip(id) # id /\ Flip(Flip(id)) = id
  BY DEF Flip

(* What a sequence keeps when a frame is added, read or damaged.            *)
LEMMA KeptAppended ==
    ASSUME NEW q \in Seq(Frames), NEW f \in Frames, NEW type, NEW id
    PROVE  /\ f.type # type \/ f.id # id =>
                (Without(q, type, id) => Without(Append(q, f), type, id))
           /\ f.type # type \/ f.id # Flip(id) \/ Without(q, type, id) =>
                (OldFirst(q, type, id) => OldFirst(Append(q, f), type, id))
           /\ Without(q, type, id) => OldFirst(q, type, id)
<1> DEFINE p == Append(q, f)
<1>1. /\ DOMAIN p = 1 .. Len(q) + 1 /\ Len(q) \in Nat /\ DOMAIN q = 1 .. Len(q)
      /\ p[Len(q) + 1] = f /\ \A i \in 1 .. Len(q) : p[i] = q[i]
  BY Appended
<1> HIDE DEF p
<1>2. f.type # type \/ f.id # id => (Without(q, type, id) => Without(p, type, id))
  BY <1>1 DEF Without
<1>3. f.type # type \/ f.id # Flip(id) \/ Without(q, type, id) =>
        (OldFirst(q, type, id) => OldFirst(p, type, id))
  BY <1>1 DEF Without, OldFirst
<1>4. Without(q, type, id) => OldFirst(q, type, id)
  BY DEF Without, OldFirst
<1> QED
  BY <1>2, <1>3, <1>4 DEF p

(* Reading keeps them, and the first frame of the new id ends the old.      *)
LEMMA KeptShortened ==
    ASSUME NEW q \in Seq(Frames), q # <<>>, NEW type, NEW id
    PROVE  /\ Without(q, type, id) => Without(Tail(q), type, id)
           /\ OldFirst(q, type, id) => OldFirst(Tail(q), type, id)
           /\ OldFirst(q, type, id) /\ Head(q).type = type /\ Head(q).id = id =>
                Without(Tail(q), type, Flip(id))
           /\ Without(q, type, id) => Head(q).type # type \/ Head(q).id # id
<1> DEFINE p == Tail(q)
<1>1. /\ DOMAIN p = 1 .. Len(q) - 1 /\ Len(q) \in Nat \ {0} /\ DOMAIN q = 1 .. Len(q)
      /\ Head(q) = q[1] /\ \A i \in 1 .. Len(q) - 1 : p[i] = q[i + 1] /\ i + 1 \in 1 .. Len(q)
  BY Shortened
<1> HIDE DEF p
<1>2. Without(q, type, id) => Without(p, type, id)
  BY <1>1 DEF Without
<1>3. OldFirst(q, type, id) => OldFirst(p, type, id)
  <2>1. \A i, j \in DOMAIN p : i < j => i + 1 \in DOMAIN q /\ j + 1 \in DOMAIN q /\ i + 1 < j + 1
                                        /\ p[i] = q[i + 1] /\ p[j] = q[j + 1]
    BY <1>1
  <2> QED
    BY <2>1 DEF OldFirst
<1>4. OldFirst(q, type, id) /\ Head(q).type = type /\ Head(q).id = id => Without(p, type, Flip(id))
  BY <1>1 DEF OldFirst, Without
<1>5. Without(q, type, id) => Head(q).type # type \/ Head(q).id # id
  BY <1>1 DEF Without
<1> QED
  BY <1>2, <1>3, <1>4, <1>5 DEF p

(* A damaged frame has no id of its own any more.                           *)
LEMMA KeptDamaged ==
    ASSUME NEW q \in Seq(Frames), NEW i \in DOMAIN q, NEW f \in Frames, NEW type, NEW id \in 0 .. 1,
           f.type # type \/ f.id = 2
    PROVE  /\ Without(q, type, id) => Without([q EXCEPT ![i] = f], type, id)
           /\ OldFirst(q, type, id) => OldFirst([q EXCEPT ![i] = f], type, id)
<1> DEFINE p == [q EXCEPT ![i] = f]
<1>1. /\ DOMAIN p = DOMAIN q /\ p[i] = f /\ \A j \in DOMAIN q : j # i => p[j] = q[j]
  BY Exchanged
<1> HIDE DEF p
<1>2. Without(q, type, id) => Without(p, type, id)
  BY <1>1 DEF Without
<1>3. OldFirst(q, type, id) => OldFirst(p, type, id)
  BY <1>1, Flips DEF OldFirst
<1> QED
  BY <1>2, <1>3 DEF p

(* A frame of another kind is added in either direction.                    *)
LEMMA HalfOther ==
    ASSUME NEW got, NEW id, NEW out, NEW q, NEW back, NEW rid, NEW f \in Frames,
           InTurn(got, id, out, q, back, rid)
    PROVE  /\ f.type # "data" => Half(got, id, out, Append(q, f), back, rid)
           /\ f.type # "ack" => Half(got, id, out, q, Append(back, f), rid)
<1> USE DEF InTurn
<1>1. ASSUME f.type # "data" PROVE Half(got, id, out, Append(q, f), back, rid)
  <2> DEFINE p == Append(q, f)
  <2>1. \A j \in DOMAIN p : p[j] = f \/ (j \in DOMAIN q /\ p[j] = q[j])
    BY Appended
  <2>2. \A d \in 0 .. 1 : /\ Without(q, "data", d) => Without(p, "data", d)
                          /\ OldFirst(q, "data", d) => OldFirst(p, "data", d)
    BY <1>1, KeptAppended
  <2> HIDE DEF p
  <2> QED
    BY <1>1, <2>1, <2>2, Flips DEF Half, IsData, p
<1>2. ASSUME f.type # "ack" PROVE Half(got, id, out, q, Append(back, f), rid)
  <2> DEFINE p == Append(back, f)
  <2>1. /\ Without(back, "ack", id) => Without(p, "ack", id)
        /\ OldFirst(back, "ack", id) => OldFirst(p, "ack", id)
    BY <1>2, KeptAppended
  <2> HIDE DEF p
  <2> QED
    BY <2>1 DEF Half, p
<1> QED
  BY <1>1, <1>2

(* A new number is sent, or the last one again.                             *)
LEMMA HalfSend ==
    ASSUME NEW got, NEW id, NEW out, NEW q, NEW back, NEW rid, NEW n \in Nat,
           InTurn(got, id, out, q, back, rid), Data(id, n) \in Frames,
           (out = 0 /\ got < n) \/ (out # 0 /\ n = out)
    PROVE  Half(got, id, n, Append(q, Data(id, n)), back, rid)
<1> DEFINE f == Data(id, n)
           p == Append(q, f)
<1> USE DEF InTurn
<1>1. f.type = "data" /\ f.id = id /\ f.n = n
  BY DEF Data
<1>2. \A j \in DOMAIN p : p[j] = f \/ (j \in DOMAIN q /\ p[j] = q[j])
  BY Appended
<1>3. /\ Without(q, "data", Flip(id)) => Without(p, "data", Flip(id))
      /\ OldFirst(q, "data", id) => OldFirst(p, "data", id)
      /\ Without(q, "data", id) => OldFirst(q, "data", id)
  BY <1>1, Flips, KeptAppended
<1> HIDE DEF p, f
<1> QED
  BY <1>1, <1>2, <1>3 DEF Half, Without, p, f

(* The receiver reads what it does not deliver, and acknowledges data.      *)
LEMMA HalfPassed ==
    ASSUME NEW got, NEW id, NEW out, NEW q, NEW back, NEW rid,
           InTurn(got, id, out, q, back, rid), q # <<>>, ~(Head(q).type = "data" /\ Head(q).id = rid)
    PROVE  /\ Half(got, id, out, Tail(q), back, rid)
           /\ Head(q).type = "data" =>
                Half(got, id, out, Tail(q), Append(back, Ack(Head(q).id)), rid)
<1> DEFINE p == Tail(q)
           a == Ack(Head(q).id)
           b == Append(back, a)
<1> USE DEF InTurn
<1>1. /\ \A j \in DOMAIN p : j + 1 \in DOMAIN q /\ p[j] = q[j + 1]
      /\ Head(q) \in Frames
  BY Shortened
<1>2. \A d \in 0 .. 1 : /\ Without(q, "data", d) => Without(p, "data", d)
                        /\ OldFirst(q, "data", d) => OldFirst(p, "data", d)
                        /\ Without(q, "data", d) => Head(q).type # "data" \/ Head(q).id # d
  BY KeptShortened
<1>3. a \in Frames /\ a.type = "ack" /\ a.id = Head(q).id
  BY <1>1 DEF Ack, Control, Frames, Types
<1>4. /\ Head(q).id # id /\ Without(back, "ack", id) => Without(b, "ack", id)
      /\ Head(q).id # Flip(id) /\ OldFirst(back, "ack", id) => OldFirst(b, "ack", id)
  BY <1>3, KeptAppended
<1> HIDE DEF p, b, a
<1>5. Half(got, id, out, p, back, rid)
  BY <1>1, <1>2, Flips DEF Half
<1>6. Head(q).type = "data" => Half(got, id, out, p, b, rid)
  BY <1>1, <1>2, <1>4, Flips DEF Half
<1> QED
  BY <1>5, <1>6 DEF p, b, a

(* The receiver delivers what it reads: what was sent last.                 *)
LEMMA HalfDelivers ==
    ASSUME NEW got, NEW id, NEW out, NEW q, NEW back, NEW rid,
           InTurn(got, id, out, q, back, rid), q # <<>>, Head(q).type = "data", Head(q).id = rid
    PROVE  /\ Head(q).n = out /\ got < out /\ out # 0
           /\ Half(out, id, out, Tail(q), Append(back, Ack(rid)), Flip(rid))
<1> DEFINE p == Tail(q)
           b == Append(back, Ack(rid))
<1> USE DEF InTurn
<1>1. Head(q) = q[1] /\ 1 \in DOMAIN q
  BY Shortened
<1>2. \A d \in 0 .. 1 : Without(q, "data", d) => Head(q).id # d
  BY KeptShortened
<1>3. /\ out # 0 /\ rid = id /\ got < out /\ Head(q).n = out
      /\ OldFirst(q, "data", id) /\ Without(back, "ack", id)
  BY <1>1, <1>2, Flips DEF Half
<1>4. Without(p, "data", Flip(id))
  BY <1>3, KeptShortened
<1>5. Ack(rid) \in Frames
  BY DEF Ack, Control, Frames, Types
<1>6. OldFirst(b, "ack", id)
  BY <1>3, <1>5, KeptAppended
<1> HIDE DEF p, b
<1> QED
  BY <1>3, <1>4, <1>6 DEF Half, p, b

(* The sender reads an acknowledgement of what it sent, or something else.  *)
LEMMA HalfAcknowledged ==
    ASSUME NEW got, NEW id, NEW out, NEW q, NEW back, NEW rid,
           InTurn(got, id, out, q, back, rid), back # <<>>,
           \A j \in DOMAIN q : IsData(q[j]) /\ out # 0 => q[j].n <= out
    PROVE  /\ Head(back).type # "ack" \/ Head(back).id # id =>
                Half(got, id, out, q, Tail(back), rid)
           /\ Head(back).type = "ack" /\ Head(back).id = id =>
                got = out /\ out # 0 /\ Half(got, Flip(id), 0, q, Tail(back), rid)
<1> DEFINE b == Tail(back)
<1> USE DEF InTurn
<1>1. /\ Without(back, "ack", id) => Without(b, "ack", id)
      /\ OldFirst(back, "ack", id) => OldFirst(b, "ack", id)
      /\ OldFirst(back, "ack", id) /\ Head(back).type = "ack" /\ Head(back).id = id =>
           Without(b, "ack", Flip(id))
      /\ Without(back, "ack", id) => Head(back).type # "ack" \/ Head(back).id # id
  BY KeptShortened
<1> HIDE DEF b
<1>2. Half(got, id, out, q, b, rid)
  BY <1>1 DEF Half
<1>3. ASSUME Head(back).type = "ack", Head(back).id = id
      PROVE  got = out /\ out # 0 /\ Half(got, Flip(id), 0, q, b, rid)
  BY <1>1, <1>3, Flips DEF Half
<1> QED
  BY <1>2, <1>3 DEF b

(* A frame is damaged in either direction.                                  *)
LEMMA HalfDamaged ==
    ASSUME NEW got, NEW id, NEW out, NEW q, NEW back, NEW rid, NEW f \in Frames,
           InTurn(got, id, out, q, back, rid), ~IsData(f), f.type # "ack"
    PROVE  /\ \A i \in DOMAIN q : Half(got, id, out, [q EXCEPT ![i] = f], back, rid)
           /\ \A i \in DOMAIN back : Half(got, id, out, q, [back EXCEPT ![i] = f], rid)
<1> USE DEF InTurn
<1>0. f.type # "data" \/ f.id = 2
  BY DEF IsData, Frames
<1>1. ASSUME NEW i \in DOMAIN q PROVE Half(got, id, out, [q EXCEPT ![i] = f], back, rid)
  <2> DEFINE p == [q EXCEPT ![i] = f]
  <2>1. DOMAIN p = DOMAIN q /\ \A j \in DOMAIN q : p[j] = f \/ p[j] = q[j]
    BY <1>1, Exchanged
  <2>2. \A d \in 0 .. 1 : /\ Without(q, "data", d) => Without(p, "data", d)
                          /\ OldFirst(q, "data", d) => OldFirst(p, "data", d)
    BY <1>0, <1>1, KeptDamaged
  <2> HIDE DEF p
  <2> QED
    BY <1>0, <2>1, <2>2, Flips DEF Half, p
<1>2. ASSUME NEW i \in DOMAIN back PROVE Half(got, id, out, q, [back EXCEPT ![i] = f], rid)
  <2> DEFINE p == [back EXCEPT ![i] = f]
  <2>1. /\ Without(back, "ack", id) => Without(p, "ack", id)
        /\ OldFirst(back, "ack", id) => OldFirst(p, "ack", id)
    BY <1>2, KeptDamaged
  <2> HIDE DEF p
  <2> QED
    BY <2>1 DEF Half, p
<1> QED
  BY <1>1, <1>2

-----------------------------------------------------------------------------
(* What follows the last reset.                                             *)
LEMMA LastAppended ==
    ASSUME NEW q \in Seq(Frames), NEW f \in Frames
    PROVE  /\ f.type # "reset" => (NoReset(Append(q, f)) <=> NoReset(q))
           /\ f.type = "reset" => /\ ~NoReset(Append(q, f)) /\ Quiet(Append(q, f))
                                  /\ \A out : Renewed(Append(q, f), out)
           /\ Quiet(q) /\ f.type = "break" => Quiet(Append(q, f))
           /\ \A out : Renewed(q, out) /\ f.type # "ack"
                         /\ (f.type = "data" => f = Data(0, out) /\ out # 0)
                         => Renewed(Append(q, f), out)
<1> DEFINE p == Append(q, f)
<1>1. /\ DOMAIN p = 1 .. Len(q) + 1 /\ Len(p) = Len(q) + 1 /\ Len(q) \in Nat
      /\ DOMAIN q = 1 .. Len(q)
      /\ p[Len(q) + 1] = f /\ \A i \in 1 .. Len(q) : p[i] = q[i]
  BY Appended
<1> HIDE DEF p
<1>2. NoReset(p) <=> NoReset(q) /\ f.type # "reset"
  BY <1>1 DEF NoReset
<1>3. \A j \in DOMAIN p : InLast(p, j) =>
        f.type # "reset" /\ (p[j] = f \/ (j \in DOMAIN q /\ InLast(q, j) /\ p[j] = q[j]))
  BY <1>1 DEF InLast
<1>4. (Quiet(q) /\ f.type = "break") \/ f.type = "reset" => Quiet(p)
  BY <1>3 DEF Quiet
<1>5. ASSUME NEW out, \/ f.type = "reset"
                      \/ /\ Renewed(q, out) /\ f.type # "ack"
                         /\ f.type = "data" => f = Data(0, out) /\ out # 0
      PROVE  Renewed(p, out)
  BY <1>3, <1>5 DEF Renewed, Data
<1> QED
  BY <1>2, <1>4, <1>5 DEF p

(* What follows the last reset, when a frame is read.                       *)
LEMMA LastShortened ==
    ASSUME NEW q \in Seq(Frames), q # <<>>
    PROVE  /\ Head(q).type # "reset" => (NoReset(Tail(q)) <=> NoReset(q))
           /\ NoReset(q) => Head(q).type # "reset" /\ NoReset(Tail(q))
           /\ Quiet(q) => Quiet(Tail(q))
           /\ Quiet(q) /\ NoReset(q) => Head(q).type = "break"
           /\ \A out : Renewed(q, out) => Renewed(Tail(q), out)
<1> DEFINE p == Tail(q)
<1>1. /\ DOMAIN p = 1 .. Len(q) - 1 /\ Len(p) = Len(q) - 1 /\ Len(q) \in Nat \ {0}
      /\ DOMAIN q = 1 .. Len(q) /\ Head(q) = q[1]
      /\ \A i \in 1 .. Len(q) - 1 : p[i] = q[i + 1] /\ i + 1 \in 1 .. Len(q)
  BY Shortened
<1> HIDE DEF p
<1>2. NoReset(q) <=> NoReset(p) /\ Head(q).type # "reset"
  <2>1. \A k \in DOMAIN q : k = 1 \/ (k - 1 \in DOMAIN p /\ q[k] = p[k - 1])
    BY <1>1
  <2> QED
    BY <1>1, <2>1 DEF NoReset
<1>3. \A j \in DOMAIN p : InLast(p, j) => j + 1 \in DOMAIN q /\ InLast(q, j + 1) /\ p[j] = q[j + 1]
  <2> SUFFICES ASSUME NEW j \in DOMAIN p, InLast(p, j) PROVE InLast(q, j + 1)
    BY <1>1
  <2>1. \A k \in j + 1 .. Len(q) : k - 1 \in j .. Len(p) /\ q[k] = p[k - 1]
    BY <1>1
  <2> QED
    BY <2>1 DEF InLast
<1>4. Quiet(q) => Quiet(p)
  BY <1>3 DEF Quiet
<1>5. Quiet(q) /\ NoReset(q) => Head(q).type = "break"
  BY <1>1 DEF Quiet, NoReset, InLast
<1>6. \A out : Renewed(q, out) => Renewed(p, out)
  BY <1>3 DEF Renewed
<1> QED
  BY <1>2, <1>4, <1>5, <1>6 DEF p

(* What follows the last reset, when a frame is damaged.                    *)
LEMMA LastDamaged ==
    ASSUME NEW q \in Seq(Frames), NEW i \in DOMAIN q, NEW f \in Frames,
           q[i].type # "reset", f.type \notin {"reset", "ack"}, ~IsData(f), q[i].type # "break"
    PROVE  /\ NoReset([q EXCEPT ![i] = f]) <=> NoReset(q)
           /\ Quiet(q) => Quiet([q EXCEPT ![i] = f])
           /\ f.type # "data" => \A out : Renewed(q, out) => Renewed([q EXCEPT ![i] = f], out)
<1> DEFINE p == [q EXCEPT ![i] = f]
<1>1. /\ DOMAIN p = DOMAIN q /\ Len(p) = Len(q) /\ DOMAIN q = 1 .. Len(q) /\ p[i] = f
      /\ Len(q) \in Nat
      /\ \A j \in DOMAIN q : j # i => p[j] = q[j]
  BY Exchanged
<1> HIDE DEF p
<1>2. NoReset(p) <=> NoReset(q)
  BY <1>1 DEF NoReset
<1>3. \A j \in DOMAIN q : InLast(p, j) <=> InLast(q, j)
  BY <1>1 DEF InLast
<1>4. Quiet(q) => Quiet(p)
  BY <1>1, <1>3 DEF Quiet
<1>5. f.type # "data" => \A out : Renewed(q, out) => Renewed(p, out)
  BY <1>1, <1>3 DEF Renewed
<1> QED
  BY <1>2, <1>4, <1>5 DEF p

-----------------------------------------------------------------------------
(* What KdChannel sees of a state.                                          *)
ChannelStep == [Channel!Next]_(Channel!channelVars)
Mapping ==
    /\ Down \in {0} \cup taken + 1 .. asked /\ Up \in {0} \cup heard + 1 .. said
    /\ InStep => Down = IF host.outstanding > taken THEN host.outstanding ELSE 0
    /\ InStep <=> host.phase = "up" /\ NoReset(toTarget) /\ NoReset(toHost)

(* What KdChannel sees is in its range.                                     *)
LEMMA Mapped == LinkTypes /\ FlowInv /\ StepInv => Mapping
<1> SUFFICES ASSUME LinkTypes, FlowInv, StepInv PROVE Mapping
  OBVIOUS
<1> USE DEF LinkTypes
<1>1. /\ host.outstanding \in {0, asked} /\ link.outstanding \in {0, said}
      /\ \A j \in DOMAIN toTarget : toTarget[j].type = "data" /\ toTarget[j].n # 0 =>
           toTarget[j].n <= asked
      /\ \A j \in DOMAIN toTarget : toTarget[j].n \in Nat
  BY DEF FlowInv, Flow, Ahead, IsData, Frames
<1>2. Up \in {0} \cup heard + 1 .. said
  BY <1>1 DEF Up
<1>3. Down \in {0} \cup taken + 1 .. asked
  BY <1>1, SMTT(30) DEF Down
<1>4. InStep <=> host.phase = "up" /\ NoReset(toTarget) /\ NoReset(toHost)
  BY DEF InStep, NoReset
<1>5. ASSUME InStep PROVE Down = IF host.outstanding > taken THEN host.outstanding ELSE 0
  <2>1. Half(taken, host.sendId, host.outstanding, toTarget, toHost, link.receiveId)
    BY <1>5 DEF StepInv
  <2>2. host.outstanding > taken \/ \A j \in DOMAIN toTarget : IsData(toTarget[j]) =>
          toTarget[j].n <= taken
    BY <1>1, <2>1 DEF Half, IsData
  <2> QED
    BY <1>1, <2>2 DEF Down, IsData
<1> QED
  BY <1>2, <1>3, <1>4, <1>5 DEF Mapping

(* The same after the step.                                                 *)
LEMMA MappedNext == (LinkTypes /\ FlowInv /\ StepInv)' => Mapping'
  BY Mapped, PTL

(* Out of step, the numbers only have to grow.                              *)
Grows ==
    /\ asked' \in asked .. asked + 1 /\ taken' \in taken .. asked'
    /\ said' \in said .. said + 1 /\ heard' \in heard .. said'
    /\ takes' = takes + (IF taken' = taken THEN 0 ELSE 1)
    /\ hears' = hears + (IF heard' = heard THEN 0 ELSE 1)

(* Such a step is KdChannel's Resynchronise.                                *)
LEMMA Resynchronises ==
    ASSUME Mapping, Mapping', ~InStep \/ ~InStep', Grows
    PROVE  ChannelStep
<1>1. InStep \in BOOLEAN /\ InStep' \in BOOLEAN
  BY DEF InStep
<1> QED
  BY <1>1 DEF Mapping, Grows, ChannelStep, Channel!Next, Channel!Resynchronise

(* A step that KdChannel does not see.                                      *)
LEMMA Stays ==
    ASSUME UNCHANGED <<asked, taken, takes, said, heard, hears>>,
           Down' = Down, Up' = Up, InStep' = InStep
    PROVE  ChannelStep
  BY DEF ChannelStep, Channel!channelVars

-----------------------------------------------------------------------------
(* The invariant in the terms of the lemmas above.                          *)
Downward == Direction(asked, taken, host.sendId, host.outstanding, toTarget, link.receiveId)
Upward == Direction(said, heard, link.sendId, link.outstanding, toHost, Awaited)
DownTurn == InTurn(taken, host.sendId, host.outstanding, toTarget, toHost, link.receiveId)
UpTurn == InTurn(heard, link.sendId, link.outstanding, toHost, toTarget, host.receiveId)
Settled == host.phase = "up" /\ NoReset(toTarget) /\ NoReset(toHost)

(* What the invariant says of each direction.                               *)
LEMMA Known ==
    LinkInv => /\ Downward /\ Upward /\ (Settled => DownTurn /\ UpTurn)
               /\ Mapping /\ (InStep <=> Settled) /\ Awaited \in 0 .. 2
<1> SUFFICES ASSUME LinkInv
             PROVE  /\ Downward /\ Upward /\ (Settled => DownTurn /\ UpTurn)
                    /\ Mapping /\ (InStep <=> Settled) /\ Awaited \in 0 .. 2
  OBVIOUS
<1>1. Mapping
  BY Mapped DEF LinkInv
<1>2. InStep <=> Settled
  BY <1>1 DEF Mapping, Settled
<1>3. Awaited \in 0 .. 2
  BY DEF Awaited, LinkInv, LinkTypes
<1>4. Downward /\ Upward
  BY <1>3 DEF Downward, Upward, Direction, LinkInv, LinkTypes, FlowInv
<1>5. Settled => DownTurn /\ UpTurn
  BY <1>2 DEF DownTurn, UpTurn, InTurn, LinkInv, LinkTypes, StepInv
<1> QED
  BY <1>1, <1>2, <1>3, <1>4, <1>5

(* What has to be shown of a step.                                          *)
LEMMA Shown ==
    ASSUME LinkInv, LinkTypes', FlowInv', ResetInv', Grows,
           Settled' => /\ Half(taken, host.sendId, host.outstanding, toTarget, toHost, link.receiveId)'
                       /\ Half(heard, link.sendId, link.outstanding, toHost, toTarget, host.receiveId)',
           Settled /\ Settled' => ChannelStep
    PROVE  LinkInv' /\ ChannelStep
<1>1. InStep' <=> Settled'
  BY DEF InStep, Settled, NoReset
<1>2. LinkInv'
  BY <1>1 DEF LinkInv, StepInv
<1>3. Mapping /\ Mapping' /\ (InStep <=> Settled)
  BY <1>2, Known, MappedNext DEF LinkInv
<1> QED
  BY <1>1, <1>2, <1>3, Resynchronises

(* The kinds of frame.                                                      *)
LEMMA Forms ==
    /\ \A id \in 0 .. 1 : Ack(id) \in Frames /\ Ack(id).type = "ack" /\ Ack(id).id = id
    /\ Reset \in Frames /\ Reset.type = "reset" /\ Resend \in Frames /\ Resend.type = "resend"
    /\ Break \in Frames /\ Break.type = "break" /\ Eof \in Frames /\ Eof.type = "eof"
    /\ Malformed(FALSE) \in Frames /\ Malformed(FALSE).type = "malformed"
    /\ Malformed(TRUE) \in Frames /\ Malformed(TRUE).type = "fatal"
    /\ Data(2, 0) \in Frames /\ Data(2, 0).type = "data" /\ ~IsData(Data(2, 0))
  BY DEF Ack, Control, Reset, Resend, Break, Eof, Malformed, Data, Frames, Types, IsData

(* TargetLink::send.                                                        *)
LEMMA Sends == ASSUME LinkInv, LinkSend PROVE LinkInv' /\ ChannelStep
<1> DEFINE f == Data(link.sendId, said + 1)
<1>1. /\ Downward /\ Upward /\ (Settled => DownTurn /\ UpTurn) /\ Mapping /\ (InStep <=> Settled)
      /\ LinkTypes /\ ResetInv
  BY Known DEF LinkInv
<1>2. /\ link.outstanding = 0 /\ said' = said + 1 /\ link' = [link EXCEPT !.outstanding = said + 1]
      /\ toHost' = Append(toHost, f)
      /\ UNCHANGED <<host, toTarget, asked, taken, takes, heard, hears, spent>>
  BY DEF LinkSend
<1>3. f \in Frames /\ Flow(said + 1, heard, link.sendId, said + 1, toHost', Awaited)
      /\ f.type = "data"
  BY <1>1, <1>2, FlowSend DEF Upward, Data
<1>4. LinkTypes' /\ link'.outstanding = said + 1 /\ link'.sendId = link.sendId
        /\ link'.receiveId = link.receiveId /\ Awaited' = Awaited
  <2>1. toHost' \in Seq(Frames)
    BY <1>1, <1>2, <1>3, Appended DEF LinkTypes
  <2> HIDE DEF f
  <2> QED
    BY <1>1, <1>2, <2>1, SMTT(30) DEF LinkTypes, Awaited
<1>5. FlowInv'
  BY <1>1, <1>2, <1>3, <1>4 DEF FlowInv, Downward, Direction
<1>6. ResetInv' /\ heard <= said
  <2>1. heard <= said
    BY <1>1 DEF Upward, Direction, Flow
  <2>2. ASSUME host.phase = "resetting", NoReset(toTarget)
        PROVE  /\ ~NoReset(toHost') /\ Renewed(toHost', said + 1)
               /\ link.sendId = 0 /\ link.receiveId = 0
    <3>1. ~NoReset(toHost) /\ Renewed(toHost, 0) /\ link.sendId = 0 /\ link.receiveId = 0
      BY <1>1, <1>2, <2>2 DEF ResetInv
    <3>2. Renewed(toHost, said + 1)
      BY <3>1 DEF Renewed
    <3> QED
      BY <1>1, <1>2, <1>3, <3>1, <3>2, LastAppended DEF LinkTypes
  <2> QED
    BY <1>1, <1>2, <1>4, <2>1, <2>2 DEF ResetInv, LinkTypes
<1>7. Settled' => Settled
  BY <1>1, <1>2, <1>3, LastAppended DEF Settled, LinkTypes
<1>8. Settled' => /\ Half(taken, host.sendId, host.outstanding, toTarget, toHost, link.receiveId)'
                  /\ Half(heard, link.sendId, link.outstanding, toHost, toTarget, host.receiveId)'
  <2> SUFFICES ASSUME Settled'
               PROVE  /\ Half(taken, host.sendId, host.outstanding, toTarget, toHost', link.receiveId)
                      /\ Half(heard, link.sendId, said + 1, toHost', toTarget, host.receiveId)
    BY <1>2, <1>4
  <2>1. DownTurn /\ UpTurn
    BY <1>1, <1>7
  <2>2. Half(taken, host.sendId, host.outstanding, toTarget, toHost', link.receiveId)
    BY <1>2, <1>3, <2>1, HalfOther DEF DownTurn
  <2>3. Half(heard, link.sendId, said + 1, toHost', toTarget, host.receiveId)
    <3> DEFINE n == said + 1
    <3>1. n \in Nat /\ heard < n /\ Data(link.sendId, n) \in Frames /\ link.outstanding = 0
      BY <1>1, <1>2, <1>3, <1>6 DEF LinkTypes
    <3>2. toHost' = Append(toHost, Data(link.sendId, n))
      BY <1>2
    <3> HIDE DEF n
    <3>3. Half(heard, link.sendId, n, toHost', toTarget, host.receiveId)
      BY <2>1, <3>1, <3>2, HalfSend DEF UpTurn
    <3> QED
      BY <3>3 DEF n
  <2> QED
    BY <2>2, <2>3
<1>9. Settled /\ Settled' => ChannelStep
  <2> SUFFICES ASSUME Settled, Settled' PROVE Channel!Say
    BY DEF ChannelStep, Channel!Next
  <2>1. Up = 0 /\ Up' = said + 1
    BY <1>1, <1>2, <1>4, <1>6 DEF Up, LinkTypes
  <2>2. Down' = Down
    BY <1>2 DEF Down
  <2>3. InStep' = InStep
    BY <1>1, <1>2 DEF InStep, Settled, NoReset
  <2> QED
    BY <1>2, <2>1, <2>2, <2>3 DEF Channel!Say
<1>10. Grows
  BY <1>1, <1>2, <1>6 DEF Grows, LinkTypes, Downward, Direction, Flow
<1> QED
  BY <1>4, <1>5, <1>6, <1>8, <1>9, <1>10, Shown

(* A connection is made or closed, and the debugger resynchronises.         *)
LEMMA Renews ==
    ASSUME LinkInv, HostConnect \/ HostClose \/ HostReset
    PROVE  LinkInv' /\ ChannelStep
<1>1. Downward /\ Upward /\ LinkTypes
  BY Known DEF LinkInv
<1>2. /\ taken <= asked /\ heard <= said
      /\ UNCHANGED <<asked, taken, takes, said, heard, hears>>
      /\ Grows
  BY <1>1, SMTT(30) DEF Downward, Upward, Direction, Flow, HostConnect, HostClose, HostReset,
     Grows, LinkTypes
<1>3. CASE HostConnect
  <2>1. /\ host' = Host("idle") /\ link' = NewLink /\ toTarget' = <<>> /\ toHost' = <<>>
    BY <1>3 DEF HostConnect
  <2>2. LinkTypes' /\ ~Settled' /\ ResetInv'
    BY <1>1, <1>2, <2>1 DEF LinkTypes, Host, NewLink, Settled, ResetInv
  <2>3. FlowInv'
    BY <1>1, <1>2, <2>1, FlowEmpty DEF FlowInv, LinkTypes, Host, NewLink
  <2> QED
    BY <1>2, <2>2, <2>3, Shown
<1>4. CASE HostClose
  <2>1. /\ host' = Host("off") /\ toTarget' = Append(toTarget, Eof) /\ toHost' = <<>>
        /\ UNCHANGED link
    BY <1>4 DEF HostClose
  <2>2. LinkTypes' /\ ~Settled' /\ ResetInv'
    BY <1>1, <1>2, <2>1, Forms, Appended DEF LinkTypes, Host, Settled, ResetInv
  <2>3. Flow(asked, taken, 0, 0, Append(toTarget, Eof), link.receiveId)
    <3>1. Direction(asked, taken, 0, 0, toTarget, link.receiveId)
      BY <1>1, FlowGivenUp DEF Downward, Direction
    <3> QED
      BY <3>1, Forms, FlowOther DEF IsData
  <2>4. Flow(said, heard, link.sendId, link.outstanding, <<>>, 2)
    BY <1>1 DEF Upward, Direction, Flow, InOrder, Ahead, Repeats, NoReset, LinkTypes
  <2>5. FlowInv'
    BY <1>2, <2>1, <2>3, <2>4 DEF FlowInv, Host, Awaited
  <2> QED
    BY <1>2, <2>2, <2>5, Shown
<1>5. CASE HostReset
  <2>1. /\ host' = Host("resetting") /\ toTarget' = Append(toTarget, Reset)
        /\ UNCHANGED <<link, toHost>>
    BY <1>5 DEF HostReset
  <2>2. LinkTypes' /\ ~Settled' /\ ResetInv'
    BY <1>1, <1>2, <2>1, Forms, Appended, LastAppended DEF LinkTypes, Host, Settled, ResetInv
  <2>3. Flow(asked, taken, 0, 0, toTarget', link.receiveId)
    BY <1>1, <2>1, FlowReset DEF Downward
  <2>4. Flow(said, heard, link.sendId, link.outstanding, toHost, 2)
    BY <1>1, FlowGivenUp DEF Upward
  <2>5. FlowInv'
    BY <1>2, <2>1, <2>3, <2>4 DEF FlowInv, Host, Awaited
  <2> QED
    BY <1>2, <2>2, <2>5, Shown
<1> QED
  BY <1>3, <1>4, <1>5

(* The debugger asks a command.                                             *)
LEMMA Asks == ASSUME LinkInv, HostAsk PROVE LinkInv' /\ ChannelStep
<1> DEFINE n == asked + 1
           f == Data(host.sendId, n)
<1>1. /\ Downward /\ Upward /\ (Settled => DownTurn /\ UpTurn) /\ Mapping /\ (InStep <=> Settled)
      /\ LinkTypes
  BY Known DEF LinkInv
<1>2. /\ host.outstanding = 0 /\ host.phase = "up" /\ asked' = n
      /\ host' = [host EXCEPT !.outstanding = n, !.turn = FALSE]
      /\ toTarget' = Append(toTarget, f)
      /\ UNCHANGED <<link, toHost, taken, takes, said, heard, hears, spent>>
  BY DEF HostAsk
<1>3. /\ f \in Frames /\ Flow(n, taken, host.sendId, n, toTarget', link.receiveId)
      /\ f.type = "data" /\ n \in Nat /\ taken < n
  <2>1. n \in Nat /\ taken < n /\ f.type = "data"
    BY <1>1 DEF Downward, Direction, Flow, Data
  <2> QED
    BY <1>1, <1>2, <2>1, FlowSend DEF Downward
<1>4. /\ LinkTypes' /\ host'.outstanding = n /\ host'.sendId = host.sendId
      /\ host'.receiveId = host.receiveId /\ host'.phase = "up" /\ Awaited' = Awaited
  <2>1. toTarget' \in Seq(Frames)
    BY <1>1, <1>2, <1>3, Appended DEF LinkTypes
  <2> HIDE DEF f, n
  <2> QED
    BY <1>1, <1>2, <1>3, <2>1 DEF LinkTypes, Awaited
<1>5. FlowInv' /\ ResetInv'
  BY <1>1, <1>2, <1>3, <1>4 DEF FlowInv, Upward, Direction, ResetInv
<1>6. Settled' => Settled
  BY <1>1, <1>2, <1>3, LastAppended DEF Settled, LinkTypes
<1>7. Settled' => /\ Half(taken, host.sendId, host.outstanding, toTarget, toHost, link.receiveId)'
                  /\ Half(heard, link.sendId, link.outstanding, toHost, toTarget, host.receiveId)'
  <2> SUFFICES ASSUME Settled'
               PROVE  /\ Half(taken, host.sendId, n, toTarget', toHost, link.receiveId)
                      /\ Half(heard, link.sendId, link.outstanding, toHost, toTarget', host.receiveId)
    BY <1>2, <1>4
  <2>1. DownTurn /\ UpTurn
    BY <1>1, <1>6
  <2>2. Half(heard, link.sendId, link.outstanding, toHost, toTarget', host.receiveId)
    BY <1>2, <1>3, <2>1, HalfOther DEF UpTurn
  <2>3. Half(taken, host.sendId, n, toTarget', toHost, link.receiveId)
    <3> HIDE DEF n
    <3> QED
      BY <1>2, <1>3, <2>1, HalfSend DEF DownTurn
  <2> QED
    BY <2>2, <2>3
<1>8. Settled /\ Settled' => ChannelStep
  <2> SUFFICES ASSUME Settled, Settled' PROVE Channel!Ask
    BY DEF ChannelStep, Channel!Next
  <2>1. Down = 0
    BY <1>1, <1>2 DEF Mapping, LinkTypes
  <2>2. Down' = asked'
    BY <1>2, <1>3, <1>4 DEF Down, LinkTypes
  <2>3. Up' = Up
    BY <1>2 DEF Up
  <2>4. InStep' = InStep
    BY <1>1 DEF InStep, Settled, NoReset
  <2> QED
    BY <1>2, <2>1, <2>2, <2>3, <2>4 DEF Channel!Ask
<1>9. Grows
  BY <1>1, <1>2, <1>3 DEF Grows, LinkTypes, Upward, Direction, Flow
<1> QED
  BY <1>4, <1>5, <1>7, <1>8, <1>9, Shown

(* A frame is written to the target: the last command again, a reset, a     *)
(* break, or a request to resend.                                           *)
LEMMA Writes ==
    ASSUME LinkInv, NEW f \in Frames, toTarget' = Append(toTarget, f),
           UNCHANGED <<link, host, toHost, asked, taken, takes, said, heard, hears>>,
           \/ host.phase = "resetting" /\ f = Reset
           \/ host.phase \in {"resetting", "up"} /\ f = Break
           \/ host.phase = "up" /\ host.outstanding # 0 /\ f = Data(host.sendId, host.outstanding)
    PROVE  LinkInv' /\ ChannelStep
<1>1. /\ Downward /\ Upward /\ (Settled => DownTurn /\ UpTurn) /\ Mapping /\ (InStep <=> Settled)
      /\ LinkTypes /\ ResetInv
  BY Known DEF LinkInv
<1>2. LinkTypes'
  BY <1>1, Appended DEF LinkTypes
<1>3. Flow(asked, taken, host.sendId, host.outstanding, toTarget', link.receiveId)
  <2>1. CASE host.phase = "resetting" /\ f = Reset
    BY <1>1, <2>1, FlowReset DEF Downward, ResetInv
  <2>2. CASE f = Break
    BY <1>1, <2>2, Forms, FlowOther DEF Downward, IsData
  <2>3. CASE host.outstanding # 0 /\ f = Data(host.sendId, host.outstanding)
    BY <1>1, <2>3, FlowRepeat DEF Downward
  <2> QED
    BY <2>1, <2>2, <2>3
<1>4. FlowInv'
  BY <1>1, <1>3 DEF FlowInv, Upward, Direction, Awaited
<1>5. ResetInv'
  <2> SUFFICES ASSUME host.phase = "resetting"
               PROVE  /\ Quiet(toTarget')
                      /\ NoReset(toTarget') => NoReset(toTarget)
    BY <1>1 DEF ResetInv
  <2>1. f.type \in {"reset", "break"} /\ Quiet(toTarget)
    BY <1>1, Forms DEF ResetInv
  <2> QED
    BY <1>1, <2>1, LastAppended DEF LinkTypes
<1>6. /\ f.type # "ack" /\ (Settled' => Settled)
      /\ (f.type = "reset" => ~Settled')
           /\ (f.type = "data" => f = Data(host.sendId, host.outstanding) /\ host.outstanding # 0)
  BY <1>1, Forms, LastAppended DEF Settled, LinkTypes, Data
<1>7. Settled' => /\ Half(taken, host.sendId, host.outstanding, toTarget, toHost, link.receiveId)'
                  /\ Half(heard, link.sendId, link.outstanding, toHost, toTarget, host.receiveId)'
  <2> SUFFICES ASSUME Settled'
               PROVE  /\ Half(taken, host.sendId, host.outstanding, toTarget', toHost, link.receiveId)
                      /\ Half(heard, link.sendId, link.outstanding, toHost, toTarget', host.receiveId)
    OBVIOUS
  <2>1. DownTurn /\ UpTurn
    BY <1>1, <1>6
  <2>2. Half(heard, link.sendId, link.outstanding, toHost, toTarget', host.receiveId)
    BY <1>6, <2>1, HalfOther DEF UpTurn
  <2>3. CASE f.type # "data"
    BY <2>1, <2>2, <2>3, HalfOther DEF DownTurn
  <2>4. CASE f.type = "data"
    <3>1. host.outstanding \in Nat
      BY <1>1 DEF LinkTypes
    <3> QED
      BY <1>6, <2>1, <2>2, <2>4, <3>1, HalfSend DEF DownTurn
  <2> QED
    BY <2>3, <2>4
<1>8. Settled /\ Settled' => ChannelStep
  <2> SUFFICES ASSUME Settled, Settled' PROVE ChannelStep
    OBVIOUS
  <2>1. InStep /\ InStep' /\ InStep' = InStep
    BY <1>1 DEF InStep, Settled, NoReset
  <2>2. StepInv'
    BY <1>7 DEF StepInv
  <2>3. Mapping'
    BY <1>2, <1>4, <2>2, MappedNext
  <2>4. Down' = Down /\ Up' = Up
    BY <1>1, <2>1, <2>3 DEF Mapping, Up
  <2> QED
    BY <2>1, <2>4, Stays
<1>9. Grows
  BY <1>1 DEF Grows, LinkTypes, Downward, Upward, Direction, Flow
<1> QED
  BY <1>2, <1>4, <1>5, <1>7, <1>8, <1>9, Shown

(* A frame is damaged, or found to be the last the reader bears with.       *)
LEMMA Damages ==
    ASSUME LinkInv, NEW f \in Frames, ~IsData(f), f.type \notin {"reset", "ack"},
           UNCHANGED <<link, host, asked, taken, takes, said, heard, hears>>,
           \/ \E i \in DOMAIN toTarget : /\ toTarget[i].type \notin {"reset", "break"}
                                         /\ toTarget' = [toTarget EXCEPT ![i] = f]
                                         /\ UNCHANGED toHost
           \/ \E i \in DOMAIN toHost : /\ toHost[i].type \notin {"reset", "break"} /\ f.type # "data"
                                       /\ toHost' = [toHost EXCEPT ![i] = f]
                                       /\ UNCHANGED toTarget
    PROVE  LinkInv' /\ ChannelStep
<1>1. /\ Downward /\ Upward /\ (Settled => DownTurn /\ UpTurn) /\ Mapping /\ (InStep <=> Settled)
      /\ LinkTypes /\ ResetInv
  BY Known DEF LinkInv
<1>2. LinkTypes'
  <2>1. toTarget \in Seq(Frames) /\ toHost \in Seq(Frames)
    BY <1>1 DEF LinkTypes
  <2>2. toTarget' \in Seq(Frames) /\ toHost' \in Seq(Frames)
    BY <2>1, Exchanged
  <2> QED
    BY <1>1, <2>2 DEF LinkTypes
<1>3. FlowInv'
  <2>1. Flow(asked, taken, host.sendId, host.outstanding, toTarget', link.receiveId)
    BY <1>1, FlowDamaged DEF Downward, Direction
  <2>2. Flow(said, heard, link.sendId, link.outstanding, toHost', Awaited)
    BY <1>1, FlowDamaged DEF Upward, Direction
  <2> QED
    BY <2>1, <2>2 DEF FlowInv, Awaited
<1>4. /\ NoReset(toTarget') <=> NoReset(toTarget)
      /\ NoReset(toHost') <=> NoReset(toHost)
      /\ Quiet(toTarget) => Quiet(toTarget')
      /\ \A out : Renewed(toHost, out) => Renewed(toHost', out)
  BY <1>1, LastDamaged DEF LinkTypes
<1>5. ResetInv'
  BY <1>1, <1>4 DEF ResetInv
<1>6. Settled' => Settled
  BY <1>4 DEF Settled
<1>7. Settled' => /\ Half(taken, host.sendId, host.outstanding, toTarget, toHost, link.receiveId)'
                  /\ Half(heard, link.sendId, link.outstanding, toHost, toTarget, host.receiveId)'
  BY <1>1, <1>6, HalfDamaged DEF DownTurn, UpTurn, InTurn
<1>8. Settled /\ Settled' => ChannelStep
  <2> SUFFICES ASSUME Settled, Settled' PROVE ChannelStep
    OBVIOUS
  <2>1. InStep /\ InStep' /\ InStep' = InStep
    BY <1>1 DEF InStep, Settled, NoReset
  <2>2. StepInv'
    BY <1>7 DEF StepInv
  <2>3. Mapping'
    BY <1>2, <1>3, <2>2, MappedNext
  <2>4. Down' = Down /\ Up' = Up
    BY <1>1, <2>1, <2>3 DEF Mapping, Up
  <2> QED
    BY <2>1, <2>4, Stays
<1>9. Grows
  BY <1>1 DEF Grows, LinkTypes, Downward, Upward, Direction, Flow
<1> QED
  BY <1>2, <1>3, <1>5, <1>7, <1>8, <1>9, Shown

(* TargetLink::receive.                                                     *)
LEMMA Receives == ASSUME LinkInv, LinkReceive PROVE LinkInv' /\ ChannelStep
<1> DEFINE f == Head(toTarget)
<1>1. /\ Downward /\ Upward /\ (Settled => DownTurn /\ UpTurn) /\ Mapping /\ (InStep <=> Settled)
      /\ LinkTypes /\ ResetInv /\ Awaited \in 0 .. 2
  BY Known DEF LinkInv
<1>2. /\ toTarget # <<>> /\ link' = Received(link, f)
      /\ taken' = IF Delivered(link, f) # 0 THEN f.n ELSE taken
      /\ takes' = IF Delivered(link, f) # 0 THEN takes + 1 ELSE takes
      /\ toHost' = toHost \o Answer(link, f)
      /\ toTarget' = Tail(toTarget)
      /\ UNCHANGED <<host, asked, said, heard, hears, spent>>
  BY DEF LinkReceive
<1>3. /\ f \in Frames /\ f.type \in Types /\ f.id \in 0 .. 2 /\ f.n \in Nat
      /\ f.type = "data" => (f.id = 2 <=> f.n = 0)
      /\ toTarget' \in Seq(Frames) /\ Awaited' = Awaited
      /\ toHost \o <<>> = toHost /\ \A a \in Frames : toHost \o <<a>> = Append(toHost, a)
      /\ taken <= asked /\ heard <= said
  BY <1>1, <1>2, Shortened, SMTT(30) DEF LinkTypes, Frames, Awaited, Downward, Upward, Direction, Flow
<1>4. /\ link.sendId \in 0 .. 1 /\ link.receiveId \in 0 .. 1 /\ link.outstanding \in Nat
      /\ \A j \in DOMAIN toHost : IsData(toHost[j]) /\ link.outstanding # 0 =>
           toHost[j].n <= link.outstanding
      /\ \A j \in DOMAIN toTarget : IsData(toTarget[j]) /\ host.outstanding # 0 =>
           toTarget[j].n <= host.outstanding
  BY <1>1 DEF LinkTypes, Downward, Upward, Direction, Flow, Ahead
<1> HIDE DEF f
\* What holds of the sequences and of the direction downward in any case.
<1>5. /\ Flow(asked, taken, host.sendId, host.outstanding, toTarget', link.receiveId)
      /\ f.type = "reset" => Flow(asked, taken, host.sendId, host.outstanding, toTarget', 0)
  BY <1>1, <1>2, FlowPassed DEF Downward, f
<1>6. /\ f.type # "reset" => (NoReset(toTarget') <=> NoReset(toTarget))
      /\ Quiet(toTarget) => Quiet(toTarget')
      /\ Quiet(toTarget) /\ NoReset(toTarget) => f.type = "break"
  BY <1>1, <1>2, LastShortened DEF LinkTypes, f
\* Everything but what a delivery changes follows from these.
<1>7. ASSUME UNCHANGED <<taken, takes>>, LinkTypes',
             Flow(asked, taken, host.sendId, host.outstanding, toTarget', link'.receiveId),
             Flow(said, heard, link'.sendId, link'.outstanding, toHost', Awaited),
             ResetInv',
             Settled' => /\ Settled
                         /\ Half(taken, host.sendId, host.outstanding, toTarget', toHost', link'.receiveId)
                         /\ Half(heard, link'.sendId, link'.outstanding, toHost', toTarget', host.receiveId)
                         /\ \/ link'.outstanding = link.outstanding
                            \/ heard >= link.outstanding /\ link'.outstanding = 0
      PROVE  LinkInv' /\ ChannelStep
  <2>1. FlowInv'
    BY <1>2, <1>3, <1>7 DEF FlowInv
  <2>2. Grows
    BY <1>1, <1>2, <1>3, <1>7 DEF Grows, LinkTypes
  <2>3. Settled /\ Settled' => ChannelStep
    <3> SUFFICES ASSUME Settled, Settled' PROVE ChannelStep
      OBVIOUS
    <3>1. InStep /\ InStep' /\ InStep' = InStep
      BY DEF InStep, Settled, NoReset
    <3>2. StepInv'
      BY <1>2, <1>7 DEF StepInv
    <3>3. Mapping'
      BY <1>7, <2>1, <3>2, MappedNext
    <3>4. Down' = Down
      BY <1>1, <1>2, <1>7, <3>1, <3>3 DEF Mapping
    <3>5. Up' = Up
      BY <1>1, <1>2, <1>4, <1>7 DEF Up, LinkTypes
    <3> QED
      BY <1>2, <1>7, <3>1, <3>4, <3>5, Stays
  <2>4. Settled' => /\ Half(taken, host.sendId, host.outstanding, toTarget, toHost, link.receiveId)'
                    /\ Half(heard, link.sendId, link.outstanding, toHost, toTarget, host.receiveId)'
    BY <1>2, <1>7
  <2> QED
    BY <1>7, <2>1, <2>2, <2>3, <2>4, Shown
<1>8. CASE f.type = "reset"
  <2>1. link' = NewLink /\ toHost' = Append(toHost, Reset) /\ UNCHANGED <<taken, takes>>
    BY <1>2, <1>3, <1>8, Forms DEF Received, Answer, Delivered
  <2>2. LinkTypes' /\ link'.receiveId = 0 /\ link'.sendId = 0 /\ link'.outstanding = 0
    BY <1>1, <1>2, <1>3, <2>1, Forms, Appended DEF LinkTypes, NewLink
  <2>3. Flow(said, heard, 0, 0, toHost', Awaited)
    BY <1>1, <2>1, FlowReset DEF Upward
  <2>4. ~NoReset(toHost') /\ \A out : Renewed(toHost', out)
    BY <1>1, <2>1, Forms, LastAppended DEF LinkTypes
  <2>5. ResetInv' /\ ~Settled'
    BY <1>1, <1>2, <1>6, <2>2, <2>4 DEF ResetInv, Settled
  <2> QED
    BY <1>5, <1>7, <1>8, <2>1, <2>2, <2>3, <2>5
\* From here on a debugger that resynchronises has only sent a break.
<1>9. ASSUME f.type # "reset", (link' = link /\ toHost' = toHost) \/ f.type # "break"
      PROVE  ResetInv'
  BY <1>1, <1>2, <1>6, <1>9 DEF ResetInv
<1>10. CASE f.type = "ack" /\ f.id = link.sendId
  <2>1. link' = [link EXCEPT !.sendId = Flip(@), !.outstanding = 0] /\ toHost' = toHost
        /\ UNCHANGED <<taken, takes>>
    BY <1>2, <1>3, <1>10 DEF Received, Answer, Delivered
  <2>2. LinkTypes' /\ link'.receiveId = link.receiveId /\ link'.sendId = Flip(link.sendId)
          /\ link'.outstanding = 0
    <3> DEFINE d == Flip(link.sendId)
    <3>1. d \in 0 .. 1 /\ link' = [link EXCEPT !.sendId = d, !.outstanding = 0]
      BY <1>4, <2>1, Flips
    <3> HIDE DEF d
    <3>2. /\ link' \in [sendId : 0 .. 1, receiveId : 0 .. 1, outstanding : Nat]
          /\ link'.receiveId = link.receiveId /\ link'.sendId = d /\ link'.outstanding = 0
      BY <1>1, <3>1 DEF LinkTypes
    <3> QED
      BY <1>1, <1>2, <1>3, <2>1, <3>2 DEF LinkTypes, d
  <2>3. Flow(said, heard, link'.sendId, 0, toHost, Awaited)
    BY <1>1, FlowGivenUp DEF Upward
  <2>4. ASSUME Settled'
        PROVE  /\ Settled
               /\ Half(taken, host.sendId, host.outstanding, toTarget', toHost, link.receiveId)
               /\ Half(heard, Flip(link.sendId), 0, toHost, toTarget', host.receiveId)
               /\ heard >= link.outstanding
    <3>1. Settled /\ DownTurn /\ UpTurn
      BY <1>1, <1>2, <1>6, <1>10, <2>1, <2>4 DEF Settled
    <3>2. Half(taken, host.sendId, host.outstanding, toTarget', toHost, link.receiveId)
      BY <1>2, <1>10, <3>1, HalfPassed DEF DownTurn, f
    <3>3. heard = link.outstanding
          /\ Half(heard, Flip(link.sendId), 0, toHost, toTarget', host.receiveId)
      BY <1>2, <1>4, <1>10, <3>1, HalfAcknowledged DEF UpTurn, f
    <3> QED
      BY <1>4, <3>1, <3>2, <3>3
  <2> QED
    BY <1>5, <1>7, <1>9, <1>10, <2>1, <2>2, <2>3, <2>4
\* Otherwise the target answers with one frame or none.
<1>11. ASSUME f.type # "reset", ~(f.type = "ack" /\ f.id = link.sendId)
       PROVE  \/ Answer(link, f) = <<>> /\ f.type # "data"
              \/ /\ f.type = "resend" /\ link.outstanding # 0
                 /\ Answer(link, f) = <<Data(link.sendId, link.outstanding)>>
              \/ f.type = "resend" /\ link.outstanding = 0 /\ Answer(link, f) = <<Reset>>
              \/ f.type = "data" /\ f.id \in 0 .. 1 /\ Answer(link, f) = <<Ack(f.id)>>
              \/ /\ f.type \in {"malformed", "fatal"} \/ (f.type = "data" /\ f.id = 2)
                 /\ Answer(link, f) = <<Resend>>
  BY <1>3, <1>11 DEF Answer, Types
<1>12. ASSUME f.type # "reset", ~(f.type = "ack" /\ f.id = link.sendId),
              ~(f.type = "data" /\ f.id = link.receiveId)
       PROVE  /\ UNCHANGED <<link, taken, takes>>
              /\ Settled => /\ InTurn(taken, host.sendId, host.outstanding, toTarget', toHost, link.receiveId)
                            /\ InTurn(heard, link.sendId, link.outstanding, toHost, toTarget', host.receiveId)
  <2>1. UNCHANGED <<link, taken, takes>>
    BY <1>2, <1>12 DEF Received, Delivered
  <2>2. ASSUME Settled
        PROVE  /\ InTurn(taken, host.sendId, host.outstanding, toTarget', toHost, link.receiveId)
               /\ InTurn(heard, link.sendId, link.outstanding, toHost, toTarget', host.receiveId)
    <3>1. DownTurn /\ UpTurn
      BY <1>1, <2>2
    <3>2. Half(taken, host.sendId, host.outstanding, toTarget', toHost, link.receiveId)
      BY <1>2, <1>12, <3>1, HalfPassed DEF DownTurn, f
    <3>3. Half(heard, link.sendId, link.outstanding, toHost, toTarget', host.receiveId)
      BY <1>2, <1>4, <1>12, <3>1, HalfAcknowledged DEF UpTurn, f
    <3> QED
      BY <1>3, <3>1, <3>2, <3>3 DEF DownTurn, UpTurn, InTurn
  <2> QED
    BY <2>1, <2>2
<1>13. ASSUME f.type # "reset", ~(f.type = "ack" /\ f.id = link.sendId),
              ~(f.type = "data" /\ f.id = link.receiveId), f.type # "data", Answer(link, f) = <<>>
       PROVE  LinkInv' /\ ChannelStep
  <2>1. UNCHANGED <<link, taken, takes, toHost>>
    BY <1>2, <1>3, <1>12, <1>13
  <2>2. LinkTypes'
    BY <1>1, <1>2, <1>3, <2>1 DEF LinkTypes
  <2>3. Settled' => Settled
    BY <1>2, <1>6, <1>13, <2>1 DEF Settled
  <2> QED
    BY <1>1, <1>5, <1>7, <1>9, <1>12, <1>13, <2>1, <2>2, <2>3 DEF Upward, Direction, InTurn
\* One frame that is not an acknowledgement.
<1>14. ASSUME f.type \notin {"reset", "ack", "break"}, f.type # "data" \/ f.id = 2,
              NEW a \in Frames, Answer(link, f) = <<a>>,
              \/ a = Resend
              \/ a = Reset /\ link.outstanding = 0
              \/ a = Data(link.sendId, link.outstanding) /\ link.outstanding # 0
       PROVE  LinkInv' /\ ChannelStep
  <2>1. UNCHANGED <<link, taken, takes>> /\ toHost' = Append(toHost, a) /\ a.type # "ack"
    BY <1>2, <1>3, <1>4, <1>12, <1>14, Forms DEF Data
  <2>2. LinkTypes'
    BY <1>1, <1>2, <1>3, <1>14, <2>1, Appended DEF LinkTypes
  <2>3. Flow(said, heard, link.sendId, link.outstanding, toHost', Awaited)
    <3>1. CASE a = Resend
      BY <1>1, <2>1, <3>1, Forms, FlowOther DEF Upward, IsData
    <3>2. CASE a = Reset /\ link.outstanding = 0
      BY <1>1, <2>1, <3>2, FlowReset DEF Upward
    <3>3. CASE a = Data(link.sendId, link.outstanding) /\ link.outstanding # 0
      BY <1>1, <2>1, <3>3, FlowRepeat DEF Upward
    <3> QED
      BY <1>14, <3>1, <3>2, <3>3
  <2>4. ASSUME Settled'
        PROVE  /\ Settled
               /\ Half(taken, host.sendId, host.outstanding, toTarget', toHost', link.receiveId)
               /\ Half(heard, link.sendId, link.outstanding, toHost', toTarget', host.receiveId)
    <3>1. Settled /\ a.type # "reset"
      BY <1>1, <1>2, <1>6, <1>14, <2>1, <2>4, LastAppended DEF Settled, LinkTypes
    <3>2. /\ InTurn(taken, host.sendId, host.outstanding, toTarget', toHost, link.receiveId)
          /\ InTurn(heard, link.sendId, link.outstanding, toHost, toTarget', host.receiveId)
      BY <1>4, <1>12, <1>14, <3>1
    <3>3. Half(taken, host.sendId, host.outstanding, toTarget', toHost', link.receiveId)
      BY <1>14, <2>1, <3>2, HalfOther
    <3>4. CASE a = Resend
      BY <1>14, <2>1, <3>1, <3>2, <3>3, <3>4, Forms, HalfOther
    <3>5. CASE a = Data(link.sendId, link.outstanding) /\ link.outstanding # 0
      BY <1>4, <1>14, <2>1, <3>1, <3>2, <3>3, <3>5, HalfSend
    <3> QED
      BY <1>14, <3>1, <3>4, <3>5, Forms
  <2> QED
    BY <1>5, <1>7, <1>9, <1>14, <2>1, <2>2, <2>3, <2>4
\* Data that is only acknowledged.
<1>15. CASE f.type = "data" /\ f.id \in 0 .. 1 /\ f.id # link.receiveId
  <2> DEFINE a == Ack(f.id)
  <2>1. UNCHANGED <<link, taken, takes>> /\ toHost' = Append(toHost, a) /\ a \in Frames
        /\ a.type = "ack"
    BY <1>2, <1>3, <1>12, <1>15, Forms DEF Answer
  <2>2. LinkTypes'
    <3>1. toHost' \in Seq(Frames)
      BY <1>1, <2>1, Appended DEF LinkTypes
    <3> QED
      BY <1>1, <1>2, <1>3, <2>1, <3>1 DEF LinkTypes
  <2>3. Flow(said, heard, link.sendId, link.outstanding, toHost', Awaited)
    BY <1>1, <2>1, FlowOther DEF Upward, IsData
  <2>4. ASSUME Settled'
        PROVE  /\ Settled
               /\ Half(taken, host.sendId, host.outstanding, toTarget', toHost', link.receiveId)
               /\ Half(heard, link.sendId, link.outstanding, toHost', toTarget', host.receiveId)
    <3>1. Settled
      BY <1>1, <1>2, <1>6, <1>15, <2>1, <2>4, LastAppended DEF Settled, LinkTypes
    <3>2. InTurn(heard, link.sendId, link.outstanding, toHost, toTarget', host.receiveId)
      BY <1>12, <1>15, <3>1
    <3>3. Half(taken, host.sendId, host.outstanding, toTarget', toHost', link.receiveId)
      BY <1>1, <1>2, <1>15, <2>1, <3>1, HalfPassed DEF DownTurn, f
    <3>4. Half(heard, link.sendId, link.outstanding, toHost', toTarget', host.receiveId)
      BY <2>1, <3>2, HalfOther
    <3> QED
      BY <3>1, <3>3, <3>4
  <2> QED
    BY <1>5, <1>7, <1>9, <1>15, <2>1, <2>2, <2>3, <2>4
\* Data that is delivered.
<1>16. CASE f.type = "data" /\ f.id = link.receiveId
  <2> DEFINE a == Ack(link.receiveId)
             d == Flip(link.receiveId)
  <2>0. f.id \in 0 .. 1 /\ f.n # 0 /\ IsData(f) /\ Delivered(link, f) # 0 /\ d \in 0 .. 1
    BY <1>3, <1>4, <1>16, Flips DEF IsData, Delivered
  <2>1. /\ taken' = f.n /\ takes' = takes + 1
        /\ link' = [link EXCEPT !.receiveId = d]
        /\ toHost' = Append(toHost, a) /\ a \in Frames /\ a.type = "ack"
    BY <1>2, <1>3, <1>16, <2>0, Forms DEF Answer, Received
  <2>2. /\ f.n \in taken + 1 .. asked
        /\ Flow(asked, f.n, host.sendId, host.outstanding, toTarget', d)
    BY <1>1, <1>2, <1>16, <2>0, FlowDelivers DEF Downward, f
  <2> HIDE DEF a, d
  <2>3. LinkTypes' /\ link'.receiveId = d /\ link'.sendId = link.sendId
          /\ link'.outstanding = link.outstanding
    <3>1. toHost' \in Seq(Frames)
      BY <1>1, <2>1, Appended DEF LinkTypes
    <3>2. /\ link' \in [sendId : 0 .. 1, receiveId : 0 .. 1, outstanding : Nat]
          /\ link'.receiveId = d /\ link'.sendId = link.sendId
          /\ link'.outstanding = link.outstanding
      BY <1>1, <2>0, <2>1 DEF LinkTypes
    <3> QED
      BY <1>1, <1>2, <1>3, <2>1, <3>1, <3>2 DEF LinkTypes
  <2>4. Flow(said, heard, link.sendId, link.outstanding, toHost', Awaited)
    BY <1>1, <2>1, FlowOther DEF Upward, IsData
  <2>5. FlowInv'
    BY <1>2, <1>3, <2>1, <2>2, <2>3, <2>4 DEF FlowInv
  <2>6. Settled' => Settled
    BY <1>1, <1>2, <1>6, <1>16, <2>1, LastAppended DEF Settled, LinkTypes
  <2>7. ASSUME Settled
        PROVE  /\ host.outstanding = f.n
               /\ Half(f.n, host.sendId, host.outstanding, toTarget', toHost', d)
               /\ Half(heard, link.sendId, link.outstanding, toHost', toTarget', host.receiveId)
    <3>1. DownTurn /\ UpTurn
      BY <1>1, <2>7
    <3>2. host.outstanding = f.n /\ Half(f.n, host.sendId, host.outstanding, toTarget', toHost', d)
      <4>1. /\ InTurn(taken, host.sendId, host.outstanding, toTarget, toHost, link.receiveId)
            /\ toTarget # <<>> /\ Head(toTarget).type = "data" /\ Head(toTarget).id = link.receiveId
        BY <1>2, <1>16, <3>1 DEF DownTurn, f
      <4>2. /\ Head(toTarget).n = host.outstanding
            /\ Half(host.outstanding, host.sendId, host.outstanding, Tail(toTarget),
                     Append(toHost, Ack(link.receiveId)), Flip(link.receiveId))
        BY <4>1, HalfDelivers
      <4>3. toTarget' = Tail(toTarget) /\ toHost' = Append(toHost, Ack(link.receiveId))
        BY <1>2, <2>1 DEF a
      <4> QED
        BY <4>2, <4>3 DEF f, d
    <3>3. Half(heard, link.sendId, link.outstanding, toHost, toTarget', host.receiveId)
      BY <1>2, <1>4, <1>16, <3>1, HalfAcknowledged DEF UpTurn, f
    <3>4. InTurn(heard, link.sendId, link.outstanding, toHost, toTarget', host.receiveId)
      BY <1>3, <3>1, <3>3 DEF UpTurn, InTurn
    <3>5. Half(heard, link.sendId, link.outstanding, toHost', toTarget', host.receiveId)
      BY <2>1, <3>4, HalfOther
    <3> QED
      BY <3>2, <3>5
  <2>8. Settled' => /\ Half(taken, host.sendId, host.outstanding, toTarget, toHost, link.receiveId)'
                    /\ Half(heard, link.sendId, link.outstanding, toHost, toTarget, host.receiveId)'
    BY <1>2, <2>1, <2>3, <2>6, <2>7
  <2>9. Settled /\ Settled' => ChannelStep
    <3> SUFFICES ASSUME Settled, Settled' PROVE Channel!Take
      BY DEF ChannelStep, Channel!Next
    <3>1. InStep /\ InStep' /\ InStep' = InStep
      BY DEF InStep, Settled, NoReset
    <3>2. StepInv'
      BY <2>8 DEF StepInv
    <3>3. Mapping'
      BY <2>3, <2>5, <3>2, MappedNext
    <3>4. host.outstanding = f.n /\ f.n > taken /\ f.n # 0
      BY <1>1, <2>0, <2>2, <2>7 DEF LinkTypes
    <3>5. Down = f.n
      BY <1>1, <3>1, <3>4 DEF Mapping
    <3>6. Down' = 0
      BY <1>2, <1>3, <2>1, <3>1, <3>3, <3>4 DEF Mapping
    <3>7. Up' = Up
      BY <1>2, <2>3 DEF Up
    <3> QED
      BY <1>2, <2>1, <3>1, <3>4, <3>5, <3>6, <3>7 DEF Channel!Take
  <2>10. Grows
    <3>1. /\ f.n \in Nat /\ taken < f.n /\ f.n <= asked /\ taken \in Nat /\ asked \in Nat
          /\ said \in Nat /\ heard \in Nat /\ hears \in Nat /\ takes \in Nat
      BY <1>1, <1>3, <2>2 DEF LinkTypes
    <3> QED
      BY <1>2, <1>3, <2>1, <3>1, SMTT(30) DEF Grows
  <2>11. ResetInv'
    BY <1>9, <1>16
  <2> QED
    BY <2>3, <2>5, <2>8, <2>9, <2>10, <2>11, Shown
<1> QED
  <2>1. CASE f.type # "reset" /\ ~(f.type = "ack" /\ f.id = link.sendId)
             /\ ~(f.type = "data" /\ f.id \in 0 .. 1)
    <3>1. ~(f.type = "data" /\ f.id = link.receiveId)
      BY <1>4, <2>1
    <3>2. CASE Answer(link, f) = <<>> /\ f.type # "data"
      BY <1>13, <2>1, <3>1, <3>2
    <3>3. CASE f.type = "resend" /\ link.outstanding # 0
               /\ Answer(link, f) = <<Data(link.sendId, link.outstanding)>>
      <4>1. Data(link.sendId, link.outstanding) \in Frames
        BY <1>1, <3>3, FlowRepeat DEF Upward
      <4> QED
        BY <1>14, <3>3, <4>1
    <3>4. CASE f.type = "resend" /\ link.outstanding = 0 /\ Answer(link, f) = <<Reset>>
      BY <1>14, <3>4, Forms
    <3>5. CASE /\ f.type \in {"malformed", "fatal"} \/ (f.type = "data" /\ f.id = 2)
               /\ Answer(link, f) = <<Resend>>
      BY <1>14, <3>5, Forms
    <3> QED
      BY <1>11, <2>1, <3>2, <3>3, <3>4, <3>5
  <2> QED
    BY <1>8, <1>10, <1>15, <1>16, <2>1
(* The debugger reads a frame.                                              *)
LEMMA Hears == ASSUME LinkInv, HostHear PROVE LinkInv' /\ ChannelStep
<1> DEFINE f == Head(toHost)
<1>1. /\ Downward /\ Upward /\ (Settled => DownTurn /\ UpTurn) /\ Mapping /\ (InStep <=> Settled)
      /\ LinkTypes /\ ResetInv /\ Awaited \in 0 .. 2
  BY Known DEF LinkInv
<1>2. /\ toHost # <<>> /\ toHost' = Tail(toHost)
      /\ UNCHANGED <<link, asked, taken, takes, said, spent>>
  BY DEF HostHear
<1>3. /\ f \in Frames /\ f.type \in Types /\ f.id \in 0 .. 2 /\ f.n \in Nat
      /\ f.type = "data" => (f.id = 2 <=> f.n = 0)
      /\ toHost' \in Seq(Frames) /\ taken <= asked /\ heard <= said
  BY <1>1, <1>2, Shortened DEF LinkTypes, Frames, Downward, Upward, Direction, Flow
<1>4. /\ host.sendId \in 0 .. 1 /\ host.receiveId \in 0 .. 1 /\ host.outstanding \in Nat
      /\ taken \in Nat /\ heard \in Nat
      /\ \A j \in DOMAIN toTarget : IsData(toTarget[j]) /\ host.outstanding # 0 =>
           toTarget[j].n <= host.outstanding
  BY <1>1 DEF LinkTypes, Downward, Direction, Flow, Ahead
<1> HIDE DEF f
\* What holds of the sequences and of the direction upward in any case.
<1>5. /\ Flow(said, heard, link.sendId, link.outstanding, toHost', Awaited)
      /\ f.type = "reset" => \A r \in 0 .. 2 :
           Flow(said, heard, link.sendId, link.outstanding, toHost', r)
  BY <1>1, <1>2, FlowPassed DEF Upward, f
<1>6. /\ f.type # "reset" => (NoReset(toHost') <=> NoReset(toHost))
      /\ Renewed(toHost, link.outstanding) => Renewed(toHost', link.outstanding)
  BY <1>1, <1>2, LastShortened DEF LinkTypes, f
\* The answer to a reset.
<1>7. CASE f.type = "reset" /\ host.phase = "resetting"
  <2>1. host' = [host EXCEPT !.phase = "up"] /\ UNCHANGED <<toTarget, heard, hears>>
    BY <1>7 DEF HostHear, f
  <2>2. /\ LinkTypes' /\ host'.phase = "up" /\ host'.sendId = 0 /\ host'.receiveId = 0
        /\ host'.outstanding = 0 /\ Awaited' = 0 /\ host.sendId = 0 /\ host.outstanding = 0
    BY <1>1, <1>2, <1>3, <1>7, <2>1 DEF LinkTypes, ResetInv, Awaited
  <2>3. FlowInv' /\ ResetInv'
    BY <1>1, <1>2, <1>5, <1>7, <2>1, <2>2 DEF FlowInv, ResetInv, Downward, Direction
  <2>4. ASSUME Settled'
        PROVE  /\ Half(taken, 0, 0, toTarget, toHost', link.receiveId)
               /\ Half(heard, link.sendId, link.outstanding, toHost', toTarget, 0)
    <3>1. NoReset(toTarget) /\ NoReset(toHost')
      BY <2>1, <2>4 DEF Settled
    <3>2. /\ \A j \in DOMAIN toTarget : toTarget[j].type = "break"
          /\ \A j \in DOMAIN toHost' :
               /\ toHost'[j].type # "ack"
               /\ toHost'[j].type = "data" => /\ toHost'[j].id = 0 /\ toHost'[j].n = link.outstanding
                                              /\ link.outstanding # 0
          /\ link.sendId = 0 /\ link.receiveId = 0
          /\ (link.outstanding # 0 => heard < link.outstanding)
      <4>1. /\ \A j \in DOMAIN toTarget : InLast(toTarget, j)
            /\ \A j \in DOMAIN toHost' : InLast(toHost', j)
        BY <1>1, <1>3, <3>1 DEF NoReset, InLast, LinkTypes
      <4> QED
        BY <1>1, <1>6, <1>7, <3>1, <4>1 DEF ResetInv, Quiet, Renewed
    <3>3. Half(taken, 0, 0, toTarget, toHost', 0)
      BY <3>2 DEF Half, Without, IsData
    <3>4. Half(heard, 0, link.outstanding, toHost', toTarget, 0)
      BY <3>2 DEF Half, Without, OldFirst, IsData, Flip
    <3> QED
      BY <3>2, <3>3, <3>4
  <2>5. Settled' => /\ Half(taken, host.sendId, host.outstanding, toTarget, toHost, link.receiveId)'
                    /\ Half(heard, link.sendId, link.outstanding, toHost, toTarget, host.receiveId)'
    BY <1>2, <2>1, <2>2, <2>4
  <2>6. ~Settled
    BY <1>7 DEF Settled
  <2>7. Grows
    BY <1>1, <1>2, <1>3, <2>1, SMTT(30) DEF Grows, LinkTypes
  <2> QED
    BY <2>2, <2>3, <2>5, <2>6, <2>7, Shown
\* The target asks for a reset.
<1>8. CASE f.type = "reset" /\ host.phase = "up"
  <2>1. host' = Host("resetting") /\ toTarget' = Append(toTarget, Reset)
        /\ UNCHANGED <<heard, hears>>
    BY <1>8 DEF HostHear, f
  <2>2. LinkTypes' /\ ~Settled' /\ ResetInv' /\ Awaited' = 2 /\ host'.sendId = 0
        /\ host'.outstanding = 0
    <3>1. toTarget' \in Seq(Frames) /\ ~NoReset(toTarget') /\ Quiet(toTarget')
      BY <1>1, <2>1, Forms, Appended, LastAppended DEF LinkTypes
    <3> QED
      BY <1>1, <1>2, <1>3, <2>1, <3>1 DEF LinkTypes, Host, Settled, ResetInv, Awaited
  <2>3. Flow(asked, taken, 0, 0, toTarget', link.receiveId)
    BY <1>1, <2>1, FlowReset DEF Downward
  <2>4. FlowInv'
    BY <1>2, <1>5, <1>8, <2>1, <2>2, <2>3 DEF FlowInv
  <2>5. Grows
    BY <1>1, <1>2, <1>3, <2>1 DEF Grows, LinkTypes
  <2> QED
    BY <2>2, <2>4, <2>5, Shown
\* Nothing else is heard before the debugger is up.
<1>9. CASE f.type # "reset" /\ host.phase # "up"
  <2>1. UNCHANGED <<host, toTarget, heard, hears>>
    BY <1>9 DEF HostHear, f
  <2>2. LinkTypes' /\ ~Settled' /\ Awaited' = Awaited
    BY <1>1, <1>2, <1>3, <1>9, <2>1 DEF LinkTypes, Settled, Awaited
  <2>3. FlowInv' /\ ResetInv'
    BY <1>1, <1>2, <1>5, <1>6, <1>9, <2>1, <2>2 DEF FlowInv, Downward, Direction, ResetInv
  <2>4. Grows
    BY <1>1, <1>2, <1>3, <2>1 DEF Grows, LinkTypes
  <2> QED
    BY <2>2, <2>3, <2>4, Shown
\* Everything but what a delivery changes follows from these.
<1>10. ASSUME UNCHANGED <<heard, hears>>, f.type # "reset", host.phase = "up", host'.phase = "up", LinkTypes',
              host'.receiveId = host.receiveId,
              Flow(asked, taken, host'.sendId, host'.outstanding, toTarget', link.receiveId),
              Settled' => /\ Settled
                          /\ Half(taken, host'.sendId, host'.outstanding, toTarget', toHost', link.receiveId)
                          /\ Half(heard, link.sendId, link.outstanding, toHost', toTarget', host.receiveId)
                          /\ \/ host'.outstanding = host.outstanding
                             \/ taken >= host.outstanding /\ host'.outstanding = 0
       PROVE  LinkInv' /\ ChannelStep
  <2>1. FlowInv' /\ ResetInv'
    BY <1>2, <1>5, <1>10 DEF FlowInv, ResetInv, Awaited
  <2>2. Grows
    BY <1>1, <1>2, <1>3, <1>10 DEF Grows, LinkTypes
  <2>3. Settled' => /\ Half(taken, host.sendId, host.outstanding, toTarget, toHost, link.receiveId)'
                    /\ Half(heard, link.sendId, link.outstanding, toHost, toTarget, host.receiveId)'
    BY <1>2, <1>10
  <2>4. Settled /\ Settled' => ChannelStep
    <3> SUFFICES ASSUME Settled, Settled' PROVE ChannelStep
      OBVIOUS
    <3>1. InStep /\ InStep' /\ InStep' = InStep
      BY DEF InStep, Settled, NoReset
    <3>2. StepInv'
      BY <2>3 DEF StepInv
    <3>3. Mapping'
      BY <1>10, <2>1, <3>2, MappedNext
    <3>4. Down' = Down
      BY <1>1, <1>2, <1>4, <1>10, <3>1, <3>3 DEF Mapping
    <3>5. Up' = Up
      BY <1>2, <1>10 DEF Up
    <3> QED
      BY <1>2, <1>10, <3>1, <3>4, <3>5, Stays
  <2> QED
    BY <1>10, <2>1, <2>2, <2>3, <2>4, Shown
\* The command is acknowledged.
<1>11. CASE f.type = "ack" /\ host.phase = "up" /\ f.id = host.sendId
  <2> DEFINE d == Flip(host.sendId)
  <2>0. d \in 0 .. 1
    BY <1>4, Flips
  <2>1. /\ host' = [host EXCEPT !.sendId = d, !.outstanding = 0]
        /\ UNCHANGED <<toTarget, heard, hears>>
    BY <1>11 DEF HostHear, f
  <2> HIDE DEF d
  <2>2. /\ LinkTypes' /\ host'.sendId = d /\ host'.outstanding = 0
        /\ host'.receiveId = host.receiveId /\ host'.phase = "up"
    BY <1>1, <1>2, <1>3, <1>11, <2>0, <2>1 DEF LinkTypes
  <2>3. Flow(asked, taken, d, 0, toTarget, link.receiveId)
    BY <1>1, FlowGivenUp DEF Downward
  <2>4. ASSUME Settled'
        PROVE  /\ Settled /\ taken >= host.outstanding
               /\ Half(taken, d, 0, toTarget, toHost', link.receiveId)
               /\ Half(heard, link.sendId, link.outstanding, toHost', toTarget, host.receiveId)
    <3>1. Settled /\ DownTurn /\ UpTurn
      BY <1>1, <1>6, <1>11, <2>1, <2>4 DEF Settled
    <3>2. Half(heard, link.sendId, link.outstanding, toHost', toTarget, host.receiveId)
      BY <1>2, <1>11, <3>1, HalfPassed DEF UpTurn, f
    <3>3. taken = host.outstanding /\ Half(taken, d, 0, toTarget, toHost', link.receiveId)
      BY <1>2, <1>4, <1>11, <3>1, HalfAcknowledged DEF DownTurn, f, d
    <3> QED
      BY <1>4, <3>1, <3>2, <3>3
  <2> QED
    BY <1>10, <1>11, <2>1, <2>2, <2>3, <2>4
\* Nothing is acknowledged and nothing delivered.
<1>12. ASSUME f.type # "reset", host.phase = "up", ~(f.type = "ack" /\ f.id = host.sendId),
              ~(f.type = "data" /\ f.id = host.receiveId), Settled
       PROVE  /\ InTurn(taken, host.sendId, host.outstanding, toTarget, toHost', link.receiveId)
              /\ InTurn(heard, link.sendId, link.outstanding, toHost', toTarget, host.receiveId)
  <2>1. DownTurn /\ UpTurn
    BY <1>1, <1>12
  <2>2. Half(heard, link.sendId, link.outstanding, toHost', toTarget, host.receiveId)
    BY <1>2, <1>12, <2>1, HalfPassed DEF UpTurn, f
  <2>3. Half(taken, host.sendId, host.outstanding, toTarget, toHost', link.receiveId)
    BY <1>2, <1>4, <1>12, <2>1, HalfAcknowledged DEF DownTurn, f
  <2> QED
    BY <1>3, <2>1, <2>2, <2>3 DEF DownTurn, UpTurn, InTurn
<1>13. ASSUME f.type # "reset", host.phase = "up", ~(f.type = "ack" /\ f.id = host.sendId), f.type # "data",
              UNCHANGED <<host, toTarget, heard, hears>>
       PROVE  LinkInv' /\ ChannelStep
  <2>1. LinkTypes' /\ (Settled' => Settled)
    BY <1>1, <1>2, <1>3, <1>6, <1>13 DEF LinkTypes, Settled
  <2> QED
    BY <1>1, <1>10, <1>12, <1>13, <2>1 DEF Downward, Direction, InTurn
\* The command is repeated, or a frame asked for again.
<1>14. ASSUME f.type \notin {"reset", "ack", "data"}, host.phase = "up",
              UNCHANGED <<host, heard, hears>>, NEW a, toTarget' = Append(toTarget, a),
              \/ a = Resend
              \/ a = Data(host.sendId, host.outstanding) /\ host.outstanding # 0
       PROVE  LinkInv' /\ ChannelStep
  <2>1. a \in Frames /\ a.type \notin {"ack", "reset"}
    BY <1>1, <1>14, Forms, FlowRepeat DEF Downward, Data
  <2>2. LinkTypes'
    <3>1. toTarget' \in Seq(Frames)
      BY <1>1, <1>14, <2>1, Appended DEF LinkTypes
    <3> QED
      BY <1>1, <1>2, <1>3, <1>14, <3>1 DEF LinkTypes
  <2>3. Flow(asked, taken, host.sendId, host.outstanding, toTarget', link.receiveId)
    <3>1. CASE a = Resend
      BY <1>1, <1>14, <3>1, Forms, FlowOther DEF Downward, IsData
    <3>2. CASE a = Data(host.sendId, host.outstanding) /\ host.outstanding # 0
      BY <1>1, <1>14, <3>2, FlowRepeat DEF Downward
    <3> QED
      BY <1>14, <3>1, <3>2
  <2>4. ASSUME Settled'
        PROVE  /\ Settled
               /\ Half(taken, host.sendId, host.outstanding, toTarget', toHost', link.receiveId)
               /\ Half(heard, link.sendId, link.outstanding, toHost', toTarget', host.receiveId)
    <3>1. Settled
      BY <1>1, <1>6, <1>14, <2>1, <2>4, LastAppended DEF Settled, LinkTypes
    <3>2. /\ InTurn(taken, host.sendId, host.outstanding, toTarget, toHost', link.receiveId)
          /\ InTurn(heard, link.sendId, link.outstanding, toHost', toTarget, host.receiveId)
      BY <1>12, <1>14, <3>1
    <3>3. Half(heard, link.sendId, link.outstanding, toHost', toTarget', host.receiveId)
      BY <1>14, <2>1, <3>2, HalfOther
    <3>4. CASE a = Resend
      BY <1>14, <2>1, <3>1, <3>2, <3>3, <3>4, Forms, HalfOther
    <3>5. CASE a = Data(host.sendId, host.outstanding) /\ host.outstanding # 0
      BY <1>4, <1>14, <2>1, <3>1, <3>2, <3>3, <3>5, HalfSend
    <3> QED
      BY <1>14, <3>4, <3>5
  <2> QED
    BY <1>10, <1>14, <2>2, <2>3, <2>4
\* A packet that is only acknowledged.
<1>15. CASE f.type = "data" /\ host.phase = "up" /\ f.id # host.receiveId
  <2> DEFINE a == Ack(f.id)
  <2>1. /\ UNCHANGED <<host, heard, hears>> /\ toTarget' = Append(toTarget, a)
        /\ a \in Frames /\ a.type = "ack"
    BY <1>3, <1>15 DEF HostHear, f, Ack, Control, Frames, Types
  <2> HIDE DEF a
  <2>2. LinkTypes'
    <3>1. toTarget' \in Seq(Frames)
      BY <1>1, <2>1, Appended DEF LinkTypes
    <3> QED
      BY <1>1, <1>2, <1>3, <2>1, <3>1 DEF LinkTypes
  <2>3. Flow(asked, taken, host.sendId, host.outstanding, toTarget', link.receiveId)
    BY <1>1, <2>1, FlowOther DEF Downward, IsData
  <2>4. ASSUME Settled'
        PROVE  /\ Settled
               /\ Half(taken, host.sendId, host.outstanding, toTarget', toHost', link.receiveId)
               /\ Half(heard, link.sendId, link.outstanding, toHost', toTarget', host.receiveId)
    <3>1. Settled
      BY <1>1, <1>6, <1>15, <2>1, <2>4, LastAppended DEF Settled, LinkTypes
    <3>2. InTurn(taken, host.sendId, host.outstanding, toTarget, toHost', link.receiveId)
      BY <1>12, <1>15, <3>1
    <3>3. Half(heard, link.sendId, link.outstanding, toHost', toTarget', host.receiveId)
      BY <1>1, <1>2, <1>15, <2>1, <3>1, HalfPassed DEF UpTurn, f, a
    <3>4. Half(taken, host.sendId, host.outstanding, toTarget', toHost', link.receiveId)
      BY <2>1, <3>2, HalfOther
    <3> QED
      BY <3>1, <3>3, <3>4
  <2> QED
    BY <1>10, <1>15, <2>1, <2>2, <2>3, <2>4
\* A packet that is heard.
<1>16. CASE f.type = "data" /\ host.phase = "up" /\ f.id = host.receiveId
  <2> DEFINE a == Ack(host.receiveId)
             d == Flip(host.receiveId)
  <2>0. f.id \in 0 .. 1 /\ f.n # 0 /\ IsData(f) /\ d \in 0 .. 1 /\ Awaited = host.receiveId
    BY <1>3, <1>4, <1>16, Flips DEF IsData, Awaited
  <2>1. /\ heard' = f.n /\ hears' = hears + 1
        /\ host' = [host EXCEPT !.receiveId = d, !.turn = TRUE]
        /\ toTarget' = Append(toTarget, a) /\ a \in Frames /\ a.type = "ack"
    BY <1>4, <1>16, Forms DEF HostHear, f
  <2>2. /\ f.n \in heard + 1 .. said
        /\ Flow(said, f.n, link.sendId, link.outstanding, toHost', d)
    BY <1>1, <1>2, <1>16, <2>0, FlowDelivers DEF Upward, f
  <2> HIDE DEF a, d
  <2>3. /\ LinkTypes' /\ host'.receiveId = d /\ host'.sendId = host.sendId
        /\ host'.outstanding = host.outstanding /\ host'.phase = "up" /\ Awaited' = d
    <3>1. toTarget' \in Seq(Frames)
      BY <1>1, <2>1, Appended DEF LinkTypes
    <3>2. /\ host' \in [phase : {"off", "idle", "resetting", "up"}, sendId : 0 .. 1,
                        receiveId : 0 .. 1, outstanding : Nat, turn : BOOLEAN]
          /\ host'.receiveId = d /\ host'.sendId = host.sendId
          /\ host'.outstanding = host.outstanding /\ host'.phase = "up"
      BY <1>1, <1>16, <2>0, <2>1 DEF LinkTypes
    <3> QED
      BY <1>1, <1>2, <1>3, <2>1, <3>1, <3>2, SMTT(30) DEF LinkTypes, Awaited
  <2>4. Flow(asked, taken, host.sendId, host.outstanding, toTarget', link.receiveId)
    BY <1>1, <2>1, FlowOther DEF Downward, IsData
  <2>5. FlowInv' /\ ResetInv'
    BY <1>2, <1>3, <2>1, <2>2, <2>3, <2>4 DEF FlowInv, ResetInv
  <2>6. Settled' => Settled
    BY <1>1, <1>2, <1>6, <1>16, <2>1, LastAppended DEF Settled, LinkTypes
  <2>7. ASSUME Settled
        PROVE  /\ link.outstanding = f.n
               /\ Half(f.n, link.sendId, link.outstanding, toHost', toTarget', d)
               /\ Half(taken, host.sendId, host.outstanding, toTarget', toHost', link.receiveId)
    <3>1. DownTurn /\ UpTurn
      BY <1>1, <2>7
    <3>2. link.outstanding = f.n /\ Half(f.n, link.sendId, link.outstanding, toHost', toTarget', d)
      <4>1. /\ InTurn(heard, link.sendId, link.outstanding, toHost, toTarget, host.receiveId)
            /\ toHost # <<>> /\ Head(toHost).type = "data" /\ Head(toHost).id = host.receiveId
        BY <1>2, <1>16, <3>1 DEF UpTurn, f
      <4>2. /\ Head(toHost).n = link.outstanding
            /\ Half(link.outstanding, link.sendId, link.outstanding, Tail(toHost),
                     Append(toTarget, Ack(host.receiveId)), Flip(host.receiveId))
        BY <4>1, HalfDelivers
      <4>3. toHost' = Tail(toHost) /\ toTarget' = Append(toTarget, Ack(host.receiveId))
        BY <1>2, <2>1 DEF a
      <4> QED
        BY <4>2, <4>3 DEF f, d
    <3>3. Half(taken, host.sendId, host.outstanding, toTarget, toHost', link.receiveId)
      BY <1>2, <1>4, <1>16, <3>1, HalfAcknowledged DEF DownTurn, f
    <3>4. InTurn(taken, host.sendId, host.outstanding, toTarget, toHost', link.receiveId)
      BY <1>3, <3>1, <3>3 DEF DownTurn, InTurn
    <3>5. Half(taken, host.sendId, host.outstanding, toTarget', toHost', link.receiveId)
      BY <2>1, <3>4, HalfOther
    <3> QED
      BY <3>2, <3>5
  <2>8. Settled' => /\ Half(taken, host.sendId, host.outstanding, toTarget, toHost, link.receiveId)'
                    /\ Half(heard, link.sendId, link.outstanding, toHost, toTarget, host.receiveId)'
    BY <1>2, <2>1, <2>3, <2>6, <2>7
  <2>9. Settled /\ Settled' => ChannelStep
    <3> SUFFICES ASSUME Settled, Settled' PROVE Channel!Hear
      BY DEF ChannelStep, Channel!Next
    <3>1. InStep /\ InStep' /\ InStep' = InStep
      BY DEF InStep, Settled, NoReset
    <3>2. StepInv'
      BY <2>8 DEF StepInv
    <3>3. Mapping'
      BY <2>3, <2>5, <3>2, MappedNext
    <3>4. link.outstanding = f.n /\ f.n > heard /\ f.n # 0
      BY <1>1, <2>0, <2>2, <2>7 DEF LinkTypes
    <3>5. Down' = Down
      BY <1>1, <1>2, <2>3, <3>1, <3>3 DEF Mapping
    <3>6. Up = f.n
      BY <3>4 DEF Up
    <3>7. Up' = 0
      BY <1>2, <1>3, <2>1, <3>4 DEF Up
    <3> QED
      BY <1>2, <2>1, <3>1, <3>4, <3>5, <3>6, <3>7 DEF Channel!Hear
  <2>10. Grows
    <3>1. /\ f.n \in Nat /\ heard < f.n /\ f.n <= said /\ taken \in Nat /\ asked \in Nat
          /\ said \in Nat /\ heard \in Nat /\ hears \in Nat /\ takes \in Nat
      BY <1>1, <1>3, <2>2 DEF LinkTypes
    <3> QED
      BY <1>2, <1>3, <2>1, <3>1 DEF Grows
  <2> QED
    BY <2>3, <2>5, <2>8, <2>9, <2>10, Shown
<1>17. CASE f.type = "ack" /\ host.phase = "up" /\ f.id # host.sendId
  <2>1. UNCHANGED <<host, toTarget, heard, hears>>
    BY <1>17 DEF HostHear, f
  <2> QED
    BY <1>13, <1>17, <2>1
<1>18. CASE f.type \in {"resend", "malformed"} /\ host.phase = "up"
  <2>1. /\ UNCHANGED <<host, heard, hears>>
        /\ \/ toTarget' = toTarget
           \/ toTarget' = Append(toTarget, Resend)
           \/ host.outstanding # 0 /\ toTarget' = Append(toTarget, Data(host.sendId, host.outstanding))
    BY <1>18 DEF HostHear, f
  <2> QED
    BY <1>13, <1>14, <1>18, <2>1
<1>19. \/ f.type = "reset" /\ host.phase = "resetting"
       \/ f.type = "reset" /\ host.phase = "up"
       \/ f.type # "reset" /\ host.phase # "up"
       \/ f.type \in {"ack", "resend", "data", "malformed"} /\ host.phase = "up"
  BY DEF HostHear, f
<1> QED
  BY <1>7, <1>8, <1>9, <1>11, <1>15, <1>16, <1>17, <1>18, <1>19
-----------------------------------------------------------------------------
(* The other steps of the debugger and of the pipe.                         *)
LEMMA Repeated == ASSUME LinkInv, HostRepeat PROVE LinkInv' /\ ChannelStep
<1>1. UNCHANGED <<link, host, toHost, asked, taken, takes, said, heard, hears>>
  BY DEF HostRepeat
<1>2. CASE host.phase = "resetting" /\ toTarget' = Append(toTarget, Reset)
  BY <1>1, <1>2, Forms, Writes
<1>3. CASE /\ host.phase = "up" /\ host.outstanding # 0
           /\ toTarget' = Append(toTarget, Data(host.sendId, host.outstanding))
  <2>1. Data(host.sendId, host.outstanding) \in Frames
    BY <1>3, Known, FlowRepeat DEF Downward
  <2> QED
    BY <1>1, <1>3, <2>1, Writes
<1> QED
  BY <1>2, <1>3 DEF HostRepeat

(* The wire damages a frame.                                                *)
LEMMA Damaged == ASSUME LinkInv, NEW k \in Nat, Damage(k) PROVE LinkInv' /\ ChannelStep
<1>1. UNCHANGED <<link, host, asked, taken, takes, said, heard, hears>>
  BY DEF Damage
<1>2. CASE \E i \in k + 1 .. Len(toTarget), f \in {Malformed(FALSE), Data(2, 0)} :
             /\ toTarget[i].type \in {"data", "ack"}
             /\ toTarget' = [toTarget EXCEPT ![i] = f]
             /\ UNCHANGED toHost
  <2>1. PICK i \in k + 1 .. Len(toTarget), f \in {Malformed(FALSE), Data(2, 0)} :
             /\ toTarget[i].type \in {"data", "ack"}
             /\ toTarget' = [toTarget EXCEPT ![i] = f]
             /\ UNCHANGED toHost
    BY <1>2
  <2>2. f \in Frames /\ ~IsData(f) /\ f.type \notin {"reset", "ack"}
    BY <2>1, Forms DEF IsData
  <2>3. i \in DOMAIN toTarget
    BY DEF LinkInv, LinkTypes
  <2> QED
    BY <1>1, <2>1, <2>2, <2>3, Damages
<1>3. CASE \E i \in DOMAIN toHost : /\ toHost[i].type \in {"data", "ack"}
                                    /\ toHost' = [toHost EXCEPT ![i] = Malformed(FALSE)]
                                    /\ UNCHANGED toTarget
  <2>1. PICK i \in DOMAIN toHost : /\ toHost[i].type \in {"data", "ack"}
                                   /\ toHost' = [toHost EXCEPT ![i] = Malformed(FALSE)]
                                   /\ UNCHANGED toTarget
    BY <1>3
  <2>2. /\ Malformed(FALSE) \in Frames /\ ~IsData(Malformed(FALSE))
        /\ Malformed(FALSE).type \notin {"reset", "ack", "data"}
    BY Forms DEF IsData
  <2> QED
    BY <1>1, <2>1, <2>2, Damages
<1> QED
  BY <1>2, <1>3 DEF Damage

(* A step that leaves the wire alone.                                       *)
LEMMA Rests ==
    ASSUME LinkInv, UNCHANGED <<link, host, toTarget, toHost, asked, taken, takes, said, heard, hears>>
    PROVE  LinkInv' /\ ChannelStep
<1>1. LinkInv'
  BY DEF LinkInv, LinkTypes, FlowInv, StepInv, ResetInv, InStep, Awaited
<1>2. Down' = Down /\ Up' = Up /\ InStep' = InStep
  BY DEF Down, Up, InStep
<1> QED
  BY <1>1, <1>2, Stays

(* The initial states.                                                      *)
LEMMA Begins == Init => LinkInv /\ Channel!Init
<1> SUFFICES ASSUME Init PROVE LinkInv /\ Channel!Init
  OBVIOUS
<1>1. LinkTypes
  BY DEF Init, LinkTypes, NewLink, Host
<1>2. FlowInv
  BY <1>1, FlowEmpty DEF Init, FlowInv, NewLink, Host
<1>3. ~InStep /\ StepInv /\ ResetInv
  BY DEF Init, InStep, StepInv, ResetInv, Host
<1>4. Channel!Init
  BY <1>3 DEF Init, Channel!Init, Down, Up, InStep, NewLink, Host
<1> QED
  BY <1>1, <1>2, <1>3, <1>4 DEF LinkInv

(* The wire alone: whatever resets, repetitions, damage and reconnections   *)
(* happen, TargetLink and the debugger's end keep the numbers in order and  *)
(* their alternating ids in agreement.                                      *)
THEOREM WireIsSound == Spec => []LinkInv
<1>1. ASSUME LinkInv, Next PROVE LinkInv'
  <2>1. 0 \in Nat
    OBVIOUS
  <2> QED
    BY <1>1, <2>1, Receives, Sends, Renews, Asks, Repeated, Hears, Damaged DEF Next
<1>2. ASSUME LinkInv, UNCHANGED linkVars PROVE LinkInv'
  BY <1>2, Rests DEF linkVars
<1> QED
  BY <1>1, <1>2, Begins, PTL DEF Spec

(* TargetLink implements KdChannel: a command reaches the service, and a    *)
(* packet the debugger, at most once and in order, and only a reset may     *)
(* give one up.                                                             *)
THEOREM LinkRefinesChannel == Spec => ChannelSpec
<1>1. ASSUME LinkInv, Next PROVE ChannelStep
  <2>1. 0 \in Nat
    OBVIOUS
  <2> QED
    BY <1>1, <2>1, Receives, Sends, Renews, Asks, Repeated, Hears, Damaged DEF Next
<1>2. ASSUME LinkInv, UNCHANGED linkVars PROVE ChannelStep
  BY <1>2, Rests DEF linkVars
<1>3. LinkInv /\ [Next]_linkVars => ChannelStep
  BY <1>1, <1>2
<1> QED
  BY <1>3, Begins, WireIsSound, PTL DEF Spec, ChannelSpec, Channel!Spec, ChannelStep

-----------------------------------------------------------------------------
(* The managed target takes the steps of the wire at its own pace.          *)
LEMMA Woken == ASSUME LinkInv, queued \in Nat, ReaderWake PROVE LinkInv' /\ ChannelStep
<1>1. /\ UNCHANGED <<link, host, toHost, asked, taken, takes, said, heard, hears>>
      /\ toTarget' = [toTarget EXCEPT ![queued + 1] = Decoded]
      /\ queued + 1 \in DOMAIN toTarget /\ toTarget \in Seq(Frames)
  BY DEF ReaderWake, LinkInv, LinkTypes
<1>2. CASE Decoded = toTarget[queued + 1]
  <2>1. toTarget' = toTarget
    BY <1>1, <1>2
  <2> QED
    BY <1>1, <2>1, Rests
<1>3. CASE Decoded = Malformed(TRUE) /\ toTarget[queued + 1].type = "malformed"
  <2>1. Malformed(TRUE) \in Frames /\ ~IsData(Malformed(TRUE)) /\ Malformed(TRUE).type = "fatal"
    BY Forms DEF IsData
  <2> QED
    BY <1>1, <1>3, <2>1, Damages
<1> QED
  BY <1>2, <1>3 DEF Decoded

(* The debugger sends a break byte.                                         *)
LEMMA Pressed == ASSUME LinkInv, PressBreak PROVE LinkInv' /\ ChannelStep
  BY Forms, Writes DEF PressBreak

LinkStep ==
    \/ LinkReceive \/ LinkSend
    \/ HostConnect \/ HostClose \/ HostReset \/ HostAsk \/ HostRepeat \/ HostHear
LinkRest == UNCHANGED <<link, host, toTarget, toHost, asked, taken, takes, said, heard, hears>>

(* A step of the service does one thing to the wire at most.                *)
LEMMA Embedded ==
    ASSUME queued \in Nat, TargetNext
    PROVE  /\ queued' \in Nat
           /\ \/ LinkStep \/ LinkRest \/ ReaderWake \/ PressBreak
              \/ \E k \in Nat : Damage(k)
<1> USE DEF LinkStep, LinkRest
<1>1. CASE ReaderWake
  BY <1>1 DEF ReaderWake
<1>2. CASE ReaderQueue \/ ReaderFails
  BY <1>2 DEF ReaderQueue, ReaderFails, linkVars
<1>3. CASE Raise \/ RaiseFails \/ IdleWakes \/ StopOccurs \/ WaitFails \/ ServiceTimeout
             \/ FlushFails \/ Teardown
  BY <1>3 DEF Raise, RaiseFails, IdleWakes, StopOccurs, WaitFails, ServiceTimeout, FlushFails,
              Teardown, linkVars, readerVars
<1>4. CASE Connect
  BY <1>4 DEF Connect
<1>5. CASE ServeHangUp \/ ServeFailedRead \/ WriteFails \/ Begin \/ Resume \/ ResumeFails
             \/ EnterWait \/ WaitCut
             \/ AfterWait \/ BreakOnDemand \/ Finished
  BY <1>5 DEF ServeHangUp, ServeFailedRead, WriteFails, Begin, Resume, ResumeFails, EnterWait, WaitCut,
              AfterWait, BreakOnDemand, Finished, linkVars, readerVars
<1>6. CASE ServeFrame
  BY <1>6 DEF ServeFrame
<1>7. CASE Reply
  BY <1>7 DEF Reply, linkVars, readerVars
<1>8. CASE Debugger
  <2>1. ReadSoFar \in Nat
    BY DEF ReadSoFar
  <2> QED
    BY <1>8, <2>1 DEF Debugger, readerVars
<1> QED
  BY <1>1, <1>2, <1>3, <1>4, <1>5, <1>6, <1>7, <1>8 DEF TargetNext, Service

(* So every step of the service keeps the wire sound and is KdChannel's.    *)
LEMMA Advances ==
    ASSUME LinkInv, queued \in Nat, [TargetNext]_targetVars
    PROVE  LinkInv' /\ queued' \in Nat /\ ChannelStep
<1>1. CASE TargetNext
  BY <1>1, Embedded, Receives, Sends, Renews, Asks, Repeated, Hears, Damaged, Woken, Pressed, Rests
     DEF LinkStep, LinkRest
<1>2. CASE UNCHANGED targetVars
  <2>1. LinkRest /\ queued' = queued
    BY <1>2 DEF LinkRest, targetVars, linkVars, readerVars
  <2> QED
    BY <2>1, Rests DEF LinkRest
<1> QED
  BY <1>1, <1>2

(* The same of the whole service, whose reader runs ahead of it, wakes and  *)
(* gives up at any time.                                                    *)
LEMMA TargetWireIsSound == TargetSpec => [](LinkInv /\ queued \in Nat)
<1>1. TargetInit => LinkInv /\ queued \in Nat
  BY Begins DEF TargetInit
<1>2. (LinkInv /\ queued \in Nat) /\ [TargetNext]_targetVars => (LinkInv /\ queued \in Nat)'
  BY Advances
<1> QED
  BY <1>1, <1>2, PTL DEF TargetSpec

(* The managed target implements KdChannel with the reader running ahead of *)
(* it: waking a run on a frame, queueing it, giving up and hanging up at    *)
(* any time deliver nothing twice, out of order or unasked.                 *)
THEOREM TargetRefinesChannel == TargetSpec => ChannelSpec
<1>1. TargetInit => Channel!Init
  BY Begins DEF TargetInit
<1>2. (LinkInv /\ queued \in Nat) /\ [TargetNext]_targetVars => ChannelStep
  BY Advances
<1> QED
  BY <1>1, <1>2, TargetWireIsSound, PTL DEF TargetSpec, ChannelSpec, Channel!Spec, ChannelStep
-----------------------------------------------------------------------------
(* The breaks.  A wake the reader has asked for and the service has not     *)
(* acted on stands for a frame the reader has decoded and the service has   *)
(* not received, and they are kept in the order of their frames.            *)
Reasons == {"BreakIn", "Reset", "Transport", "Disconnected"}
Framed(reason) == reason \in {"BreakIn", "Reset"}
Readers == {"reading", "woke", "full", "failing", "failed", "ended"}
Waits == {"begun", "entering", "waiting", "waited"}
Live == phase \notin Over \cup {"connecting"}
Served == phase = "breaking" \/ stopped.served
Woke == wait.active /\ wait.reason = "BreakIn"

TargetTypes ==
    /\ queued \in Nat /\ reader \in Readers
    /\ pending \in Seq(Reasons)
    /\ stopped \in [deferred : BOOLEAN, served : BOOLEAN]
    /\ wait \in [active : BOOLEAN, policy : {"Cancel", "Defer", "Rendezvous"},
                 reason : Reasons \cup {"none", "Idle"}]

(* What the reader and the waker are in the middle of.                      *)
WakeInv ==
    /\ ReadSoFar <= Len(toTarget) /\ queued <= ReadSoFar
    /\ wait.active <=> phase \in Waits
    /\ wait.active /\ wait.policy = "Defer" => wait.reason # "BreakIn"
    /\ wait.active /\ wait.policy # "Defer" /\ wait.reason = "none" => pending = <<>>
    /\ phase = "syncing" => ~stopped.served
    /\ \A i, j \in DOMAIN pending : i < j /\ Framed(pending[j]) => Framed(pending[i])
    /\ reader = "reading" \/ (reader = "woke" /\ toTarget[queued + 1].type \notin {"fatal", "eof"}) =>
         \A i \in DOMAIN pending : Framed(pending[i])

(* m gives the frame of each pending wake, s that of the break the current  *)
(* stop has served, and w that of the break which woke the wait.            *)
Backing(m, s, w) ==
    /\ \A i \in DOMAIN pending : Framed(pending[i]) =>
         m[i] \in 1 .. ReadSoFar /\ WakeOf(toTarget[m[i]]) = pending[i]
    /\ \A i, j \in DOMAIN pending : i < j /\ Framed(pending[i]) /\ Framed(pending[j]) => m[i] < m[j]
    /\ Served => /\ s \in 1 .. ReadSoFar /\ toTarget[s].type = "break"
                 /\ \A i \in DOMAIN pending : Framed(pending[i]) => s < m[i]
    /\ Woke => /\ w \in 1 .. ReadSoFar /\ toTarget[w].type = "break"
               /\ \A i \in DOMAIN pending : Framed(pending[i]) => w < m[i]
    /\ Served /\ Woke => s < w
Backed == \E m \in [DOMAIN pending -> Int], s, w \in Int : Backing(m, s, w)

BackInv == Live => WakeInv /\ Backed

TargetInv == LinkInv /\ TargetTypes /\ BackInv

(* A frame or a wake at the end leaves the others where they are.           *)
LEMMA Written ==
    ASSUME NEW q \in Seq(Frames), NEW x
    PROVE  /\ Len(Append(q, x)) = Len(q) + 1
           /\ \A k \in 1 .. Len(q) : Append(q, x)[k] = q[k]
<1> DEFINE S == Frames \cup {x}
<1>1. q \in Seq(S) /\ x \in S
  OBVIOUS
<1> HIDE DEF S
<1> QED
  BY <1>1

(* Which frames wake a run and with which reason.                           *)
LEMMA WakesOf ==
    ASSUME NEW f
    PROVE  /\ WakeOf(f) = "BreakIn" <=> f.type = "break"
           /\ WakeOf(f) = "Reset" <=> f.type = "reset"
           /\ WakeOf(f) \in Reasons \cup {"none"}
           /\ Framed(WakeOf(f)) <=> f.type \in {"break", "reset"}
           /\ WakeOf(f) # "none" /\ ~Framed(WakeOf(f)) => f.type \in {"fatal", "eof"}
  BY DEF WakeOf, Framed, Reasons

(* What is recorded stays backed as long as its frame is there.             *)
Preserved ==
    \A k \in 1 .. ReadSoFar : toTarget[k].type \in {"break", "reset"} =>
      toTarget'[k].type = toTarget[k].type

(* It does while the frames up to the limit keep their kind.                *)
LEMMA Kept ==
    ASSUME Backed, ReadSoFar \in Int, ReadSoFar' \in Int, ReadSoFar <= ReadSoFar', Preserved,
           pending' = pending,
           Served' => Served, Woke' => Woke
    PROVE  Backed'
<1>1. PICK m \in [DOMAIN pending -> Int], s \in Int, w \in Int : Backing(m, s, w)
  BY DEF Backed
<1>2. \A i \in DOMAIN pending : Framed(pending[i]) =>
        m[i] \in 1 .. ReadSoFar' /\ WakeOf(toTarget'[m[i]]) = pending[i]
  <2> SUFFICES ASSUME NEW i \in DOMAIN pending, Framed(pending[i])
               PROVE  m[i] \in 1 .. ReadSoFar' /\ WakeOf(toTarget'[m[i]]) = pending[i]
    OBVIOUS
  <2>1. m[i] \in 1 .. ReadSoFar /\ WakeOf(toTarget[m[i]]) = pending[i]
    BY <1>1 DEF Backing
  <2>2. toTarget[m[i]].type \in {"break", "reset"}
    BY <2>1, WakesOf
  <2>3. toTarget'[m[i]].type = toTarget[m[i]].type
    BY <2>1, <2>2 DEF Preserved
  <2> QED
    BY <2>1, <2>3 DEF WakeOf
<1>3. Served' => /\ s \in 1 .. ReadSoFar' /\ toTarget'[s].type = "break"
                 /\ \A i \in DOMAIN pending : Framed(pending[i]) => s < m[i]
  BY <1>1 DEF Backing, Preserved
<1>4. Woke' => /\ w \in 1 .. ReadSoFar' /\ toTarget'[w].type = "break"
               /\ \A i \in DOMAIN pending : Framed(pending[i]) => w < m[i]
  BY <1>1 DEF Backing, Preserved
<1>5. Backing(m, s, w)'
  BY <1>1, <1>2, <1>3, <1>4 DEF Backing
<1> QED
  BY <1>5 DEF Backed

(* The reader records a wake: a break or a reset goes with the frame it has *)
(* just decoded.                                                            *)
LEMMA Recorded ==
    ASSUME Backed, ReadSoFar \in Nat, ReadSoFar' \in Nat, ReadSoFar <= ReadSoFar', Preserved,
           pending \in Seq(Reasons), NEW r \in Reasons, pending' = Append(pending, r),
           Framed(r) => ReadSoFar' = ReadSoFar + 1 /\ WakeOf(toTarget'[ReadSoFar + 1]) = r,
           Served' => Served, ~Woke'
    PROVE  Backed'
<1>1. PICK m \in [DOMAIN pending -> Int], s \in Int, w \in Int : Backing(m, s, w)
  BY DEF Backed
<1> DEFINE n == Len(pending)
<1>2. /\ n \in Nat /\ DOMAIN pending = 1 .. n /\ DOMAIN pending' = 1 .. n + 1
      /\ pending'[n + 1] = r /\ \A i \in 1 .. n : pending'[i] = pending[i]
  OBVIOUS
<1>3. PICK m2 \in [DOMAIN pending' -> Int] : m2[n + 1] = ReadSoFar + 1 /\ \A i \in 1 .. n : m2[i] = m[i]
  <2> DEFINE m3 == [i \in 1 .. n + 1 |-> IF i = n + 1 THEN ReadSoFar + 1 ELSE m[i]]
  <2>1. m3 \in [DOMAIN pending' -> Int] /\ m3[n + 1] = ReadSoFar + 1 /\ \A i \in 1 .. n : m3[i] = m[i]
    BY <1>1, <1>2
  <2> QED
    BY <2>1
<1> HIDE DEF n
<1>4. \A i \in 1 .. n : Framed(pending[i]) =>
        m[i] \in 1 .. ReadSoFar /\ m[i] \in 1 .. ReadSoFar' /\ WakeOf(toTarget'[m[i]]) = pending[i]
  <2> SUFFICES ASSUME NEW i \in 1 .. n, Framed(pending[i])
               PROVE  m[i] \in 1 .. ReadSoFar /\ m[i] \in 1 .. ReadSoFar'
                      /\ WakeOf(toTarget'[m[i]]) = pending[i]
    OBVIOUS
  <2>1. m[i] \in 1 .. ReadSoFar /\ WakeOf(toTarget[m[i]]) = pending[i]
    BY <1>1, <1>2 DEF Backing
  <2>2. toTarget[m[i]].type \in {"break", "reset"}
    BY <2>1, WakesOf
  <2>3. toTarget'[m[i]].type = toTarget[m[i]].type
    BY <2>1, <2>2 DEF Preserved
  <2> QED
    BY <2>1, <2>3 DEF WakeOf
<1>5. \A i \in DOMAIN pending' : Framed(pending'[i]) =>
        m2[i] \in 1 .. ReadSoFar' /\ WakeOf(toTarget'[m2[i]]) = pending'[i]
  <2> SUFFICES ASSUME NEW i \in 1 .. n + 1, Framed(pending'[i])
               PROVE  m2[i] \in 1 .. ReadSoFar' /\ WakeOf(toTarget'[m2[i]]) = pending'[i]
    BY <1>2
  <2>1. CASE i = n + 1
    BY <1>2, <1>3, <2>1
  <2>2. CASE i \in 1 .. n
    BY <1>2, <1>3, <1>4, <2>2
  <2> QED
    BY <1>2, <2>1, <2>2
<1>6. \A i, j \in DOMAIN pending' : i < j /\ Framed(pending'[i]) /\ Framed(pending'[j]) =>
        m2[i] < m2[j]
  <2> SUFFICES ASSUME NEW i \in 1 .. n + 1, NEW j \in 1 .. n + 1, i < j,
                      Framed(pending'[i]), Framed(pending'[j])
               PROVE  m2[i] < m2[j]
    BY <1>2
  <2>1. i \in 1 .. n /\ (j = n + 1 \/ j \in 1 .. n)
    BY <1>2
  <2>2. CASE j = n + 1
    BY <1>2, <1>3, <1>4, <2>1, <2>2
  <2>3. CASE j \in 1 .. n
    BY <1>1, <1>2, <1>3, <2>1, <2>3 DEF Backing
  <2> QED
    BY <2>1, <2>2, <2>3
<1>7. Served' => /\ s \in 1 .. ReadSoFar' /\ toTarget'[s].type = "break"
                 /\ \A i \in DOMAIN pending' : Framed(pending'[i]) => s < m2[i]
  <2> SUFFICES ASSUME Served' PROVE /\ s \in 1 .. ReadSoFar' /\ toTarget'[s].type = "break"
                                    /\ \A i \in 1 .. n + 1 : Framed(pending'[i]) => s < m2[i]
    BY <1>2
  <2>1. s \in 1 .. ReadSoFar /\ toTarget[s].type = "break" /\ \A i \in 1 .. n : Framed(pending[i]) =>
          s < m[i]
    BY <1>1, <1>2 DEF Backing
  <2>2. \A i \in 1 .. n + 1 : i = n + 1 \/ i \in 1 .. n
    BY <1>2
  <2> QED
    BY <1>2, <1>3, <2>1, <2>2 DEF Preserved
<1>8. Backing(m2, s, w)'
  BY <1>5, <1>6, <1>7 DEF Backing
<1> QED
  BY <1>3, <1>8 DEF Backed

(* A break wakes the wait: nothing is pending, and its frame is the last.   *)
LEMMA Awoken ==
    ASSUME Backed, ReadSoFar \in Nat, ReadSoFar' = ReadSoFar + 1, Preserved,
           pending = <<>>, pending' = <<>>, Served' => Served,
           Woke' => toTarget'[ReadSoFar + 1].type = "break"
    PROVE  Backed'
<1>1. PICK m \in [DOMAIN pending -> Int], s \in Int, w \in Int : Backing(m, s, w)
  BY DEF Backed
<1>2. PICK v \in Int : v = ReadSoFar + 1
  OBVIOUS
<1>3. DOMAIN pending' = {} /\ DOMAIN pending = {}
  OBVIOUS
<1>4. Served' => s \in 1 .. ReadSoFar /\ toTarget'[s].type = "break"
  BY <1>1 DEF Backing, Preserved
<1>5. Backing(m, s, v)'
  BY <1>2, <1>3, <1>4 DEF Backing
<1> QED
  BY <1>3, <1>5 DEF Backed

(* The wait begins with the first of the pending wakes.                     *)
LEMMA Started ==
    ASSUME Backed, pending \in Seq(Reasons), pending # <<>>, pending' = Tail(pending),
           ReadSoFar' = ReadSoFar, toTarget' = toTarget, Served' => Served,
           Woke' => Head(pending) = "BreakIn"
    PROVE  Backed'
<1>1. PICK m \in [DOMAIN pending -> Int], s \in Int, w \in Int : Backing(m, s, w)
  BY DEF Backed
<1> DEFINE n == Len(pending)
<1>2. /\ n \in Nat \ {0} /\ DOMAIN pending = 1 .. n /\ DOMAIN pending' = 1 .. n - 1
      /\ Head(pending) = pending[1]
      /\ \A i \in 1 .. n - 1 : pending'[i] = pending[i + 1] /\ i + 1 \in 1 .. n
  OBVIOUS
<1>3. PICK m2 \in [DOMAIN pending' -> Int] : \A i \in 1 .. n - 1 : m2[i] = m[i + 1]
  <2> DEFINE m3 == [i \in 1 .. n - 1 |-> m[i + 1]]
  <2>1. m3 \in [DOMAIN pending' -> Int] /\ \A i \in 1 .. n - 1 : m3[i] = m[i + 1]
    BY <1>1, <1>2
  <2> QED
    BY <2>1
<1>4. PICK v \in Int : v = m[1]
  BY <1>1, <1>2
<1> HIDE DEF n
<1>5. \A i \in 1 .. n : Framed(pending[i]) =>
        m[i] \in 1 .. ReadSoFar /\ WakeOf(toTarget[m[i]]) = pending[i]
  BY <1>1, <1>2 DEF Backing
<1>6. \A i, j \in 1 .. n : i < j /\ Framed(pending[i]) /\ Framed(pending[j]) => m[i] < m[j]
  BY <1>1, <1>2 DEF Backing
<1>7. \A i \in DOMAIN pending' : Framed(pending'[i]) =>
        m2[i] \in 1 .. ReadSoFar' /\ WakeOf(toTarget'[m2[i]]) = pending'[i]
  BY <1>2, <1>3, <1>5
<1>8. \A i, j \in DOMAIN pending' : i < j /\ Framed(pending'[i]) /\ Framed(pending'[j]) =>
        m2[i] < m2[j]
  <2> SUFFICES ASSUME NEW i \in 1 .. n - 1, NEW j \in 1 .. n - 1, i < j,
                      Framed(pending'[i]), Framed(pending'[j])
               PROVE  m2[i] < m2[j]
    BY <1>2
  <2>1. i + 1 \in 1 .. n /\ j + 1 \in 1 .. n /\ i + 1 < j + 1
    BY <1>2
  <2> QED
    BY <1>2, <1>3, <1>6, <2>1
<1>9. Served' => /\ s \in 1 .. ReadSoFar /\ toTarget[s].type = "break"
                 /\ \A i \in 1 .. n : Framed(pending[i]) => s < m[i]
  BY <1>1, <1>2 DEF Backing
<1>10. Served' => \A i \in DOMAIN pending' : Framed(pending'[i]) => s < m2[i]
  BY <1>2, <1>3, <1>9
<1>11. Woke' => Framed(pending[1]) /\ v \in 1 .. ReadSoFar /\ toTarget[v].type = "break"
  <2> SUFFICES ASSUME Woke' PROVE Framed(pending[1]) /\ v \in 1 .. ReadSoFar
                      /\ toTarget[v].type = "break"
    OBVIOUS
  <2>1. pending[1] = "BreakIn" /\ Framed(pending[1]) /\ 1 \in 1 .. n
    BY <1>2 DEF Framed
  <2> QED
    BY <1>4, <1>5, <2>1, WakesOf
<1>12. Woke' => \A i \in DOMAIN pending' : Framed(pending'[i]) => v < m2[i]
  <2> SUFFICES ASSUME Woke', NEW i \in 1 .. n - 1, Framed(pending'[i]) PROVE v < m2[i]
    BY <1>2
  <2>1. 1 \in 1 .. n /\ i + 1 \in 1 .. n /\ 1 < i + 1 /\ Framed(pending[i + 1])
    BY <1>2
  <2> QED
    BY <1>3, <1>4, <1>6, <1>11, <2>1
<1>13. Served' /\ Woke' => s < v
  BY <1>2, <1>4, <1>9, <1>11
<1>14. Backing(m2, s, v)'
  BY <1>7, <1>8, <1>9, <1>10, <1>11, <1>12, <1>13 DEF Backing
<1> QED
  BY <1>3, <1>14 DEF Backed

(* The break that woke the wait has become the one the stop serves.         *)
LEMMA Stopped ==
    ASSUME Backed, Woke, ~Woke', ReadSoFar' = ReadSoFar, UNCHANGED <<pending, toTarget>>
    PROVE  Backed'
<1>1. PICK m \in [DOMAIN pending -> Int], s \in Int, w \in Int : Backing(m, s, w)
  BY DEF Backed
<1>2. Backing(m, w, w)'
  BY <1>1 DEF Backing
<1> QED
  BY <1>2 DEF Backed

(* The service reads a frame, and with it the wake it stands for.           *)
LEMMA Read ==
    ASSUME Backed, pending \in Seq(Reasons), toTarget \in Seq(Frames), toTarget # <<>>,
           toTarget' = Tail(toTarget), ReadSoFar \in Nat, ReadSoFar' = ReadSoFar - 1,
           ReadSoFar <= Len(toTarget),
           \A i, j \in DOMAIN pending : i < j /\ Framed(pending[j]) => Framed(pending[i]),
           Head(toTarget).type \notin {"fatal", "eof"},
           pending' = IF pending # <<>> /\ Head(pending) = WakeOf(Head(toTarget))
                      THEN Tail(pending) ELSE pending,
           Served' => Served /\ Head(toTarget).type # "break", ~Woke'
    PROVE  Backed'
<1>1. PICK m \in [DOMAIN pending -> Int], s \in Int, w \in Int : Backing(m, s, w)
  BY DEF Backed
<1> DEFINE n == Len(pending)
<1>2. /\ n \in Nat /\ DOMAIN pending = 1 .. n /\ (pending # <<>> <=> n > 0)
      /\ pending # <<>> => Head(pending) = pending[1] /\ pending[1] \in Reasons
  OBVIOUS
<1>3. /\ Head(toTarget) = toTarget[1] /\ \A k \in 2 .. ReadSoFar : toTarget'[k - 1] = toTarget[k]
  BY Shortened
<1>4. PICK d \in 0 .. 1 : /\ DOMAIN pending' = 1 .. n - d
                          /\ \A i \in 1 .. n - d : pending'[i] = pending[i + d] /\ i + d \in 1 .. n
                          /\ d = 1 <=> n > 0 /\ pending[1] = WakeOf(toTarget[1])
  <2>1. CASE n > 0 /\ pending[1] = WakeOf(toTarget[1])
    <3>1. pending' = Tail(pending) /\ pending # <<>>
      BY <1>2, <1>3, <2>1
    <3>2. /\ DOMAIN pending' = 1 .. n - 1
          /\ \A i \in 1 .. n - 1 : pending'[i] = pending[i + 1] /\ i + 1 \in 1 .. n
      BY <3>1
    <3> QED
      BY <2>1, <3>2
  <2>2. CASE ~(n > 0 /\ pending[1] = WakeOf(toTarget[1]))
    <3>1. pending' = pending
      BY <1>2, <1>3, <2>2
    <3> HIDE DEF n
    <3> QED
      BY <1>2, <2>2, <3>1
  <2> QED
    BY <2>1, <2>2
<1> HIDE DEF n
<1>5. \A i \in 1 .. n : Framed(pending[i]) =>
        m[i] \in 1 .. ReadSoFar /\ WakeOf(toTarget[m[i]]) = pending[i]
  BY <1>1, <1>2 DEF Backing
<1>6. \A i, j \in 1 .. n : i < j /\ Framed(pending[i]) /\ Framed(pending[j]) => m[i] < m[j]
  BY <1>1, <1>2 DEF Backing
\* What is still pending stands for a later frame.
<1>7. \A a \in 1 .. n : Framed(pending[a]) /\ (d = 1 => a > 1) => m[a] \in 2 .. ReadSoFar
  <2> SUFFICES ASSUME NEW a \in 1 .. n, Framed(pending[a]), d = 1 => a > 1 PROVE m[a] \in 2 .. ReadSoFar
    OBVIOUS
  <2>1. 1 \in 1 .. n /\ (a = 1 \/ 1 < a) /\ m[a] \in 1 .. ReadSoFar
    BY <1>2, <1>5
  <2>2. Framed(pending[1]) /\ m[1] \in 1 .. ReadSoFar /\ WakeOf(toTarget[m[1]]) = pending[1]
    BY <1>2, <1>5, <2>1
  <2>3. a = 1 \/ m[1] < m[a]
    BY <1>6, <2>1, <2>2
  <2>4. a = 1 => m[1] # 1
    BY <1>2, <1>4, <2>1, <2>2
  <2> QED
    BY <2>1, <2>2, <2>3, <2>4
<1>8. PICK m2 \in [DOMAIN pending' -> Int] : \A i \in 1 .. n - d : m2[i] = m[i + d] - 1
  <2> DEFINE m3 == [i \in 1 .. n - d |-> m[i + d] - 1]
  <2>1. \A i \in 1 .. n - d : m[i + d] - 1 \in Int
    <3> SUFFICES ASSUME NEW i \in 1 .. n - d PROVE m[i + d] \in Int
      OBVIOUS
    <3>1. i + d \in DOMAIN pending
      BY <1>2, <1>4
    <3> QED
      BY <1>1, <3>1
  <2>2. m3 \in [DOMAIN pending' -> Int]
    BY <1>4, <2>1
  <2> QED
    BY <2>2
\* The frame of a wake that stays, before and after.
<1>9. ASSUME NEW i \in DOMAIN pending', Framed(pending'[i])
      PROVE  \E a \in 1 .. n : /\ a = i + d /\ pending'[i] = pending[a] /\ Framed(pending[a])
                               /\ m[a] \in 2 .. ReadSoFar /\ m2[i] = m[a] - 1
                               /\ WakeOf(toTarget'[m2[i]]) = pending'[i]
  <2>1. PICK a \in 1 .. n : a = i + d
    BY <1>4, <1>9
  <2>2. pending'[i] = pending[a] /\ m2[i] = m[a] - 1 /\ Framed(pending[a]) /\ (d = 1 => a > 1)
    <3>0. i \in 1 .. n - d
      BY <1>4, <1>9
    <3>1. i \in 1 .. n - d /\ i \in Int /\ i > 0
      BY <3>0, <1>2
    <3>2. pending'[i] = pending[a] /\ m2[i] = m[a] - 1
      BY <1>4, <1>8, <2>1, <3>1
    <3> QED
      BY <1>9, <2>1, <3>1, <3>2
  <2>3. m[a] \in 2 .. ReadSoFar /\ WakeOf(toTarget[m[a]]) = pending[a]
    BY <1>5, <1>7, <2>2
  <2>4. toTarget'[m[a] - 1] = toTarget[m[a]]
    BY <1>3, <2>3
  <2>5. WakeOf(toTarget'[m2[i]]) = pending'[i]
    <3>1. toTarget'[m2[i]] = toTarget[m[a]]
      BY <2>2, <2>4
    <3> QED
      BY <2>2, <2>3, <3>1
  <2> QED
    BY <2>1, <2>2, <2>3, <2>5
<1>10. /\ \A i \in DOMAIN pending' : Framed(pending'[i]) =>
            m2[i] \in 1 .. ReadSoFar' /\ WakeOf(toTarget'[m2[i]]) = pending'[i]
       /\ \A i, j \in DOMAIN pending' : i < j /\ Framed(pending'[i]) /\ Framed(pending'[j]) =>
            m2[i] < m2[j]
  <2>1. ASSUME NEW i \in DOMAIN pending', Framed(pending'[i])
        PROVE  m2[i] \in 1 .. ReadSoFar' /\ WakeOf(toTarget'[m2[i]]) = pending'[i]
    <3>1. PICK a \in 1 .. n : m[a] \in 2 .. ReadSoFar /\ m2[i] = m[a] - 1
               /\ WakeOf(toTarget'[m2[i]]) = pending'[i]
      BY <1>9, <2>1
    <3>2. \A k \in 2 .. ReadSoFar : k - 1 \in 1 .. ReadSoFar - 1
      OBVIOUS
    <3>3. m2[i] \in 1 .. ReadSoFar - 1
      BY <3>1, <3>2
    <3> QED
      BY <3>1, <3>3
  <2>2. ASSUME NEW i \in DOMAIN pending', NEW j \in DOMAIN pending', i < j,
               Framed(pending'[i]), Framed(pending'[j])
        PROVE  m2[i] < m2[j]
    <3>1. PICK a \in 1 .. n : a = i + d /\ Framed(pending[a]) /\ m[a] \in 2 .. ReadSoFar
               /\ m2[i] = m[a] - 1
      BY <1>9, <2>2
    <3>2. PICK b \in 1 .. n : b = j + d /\ Framed(pending[b]) /\ m[b] \in 2 .. ReadSoFar
               /\ m2[j] = m[b] - 1
      BY <1>9, <2>2
    <3>3. a < b
      <4>1. i \in Int /\ j \in Int /\ d \in Int
        BY <1>2, <1>4
      <4> QED
        BY <2>2, <3>1, <3>2, <4>1
    <3>4. m[a] < m[b]
      BY <1>6, <3>1, <3>2, <3>3
    <3> QED
      BY <3>1, <3>2, <3>4
  <2> QED
    BY <2>1, <2>2
<1>11. PICK t \in Int : t = s - 1
  OBVIOUS
<1>12. Served' => /\ t \in 1 .. ReadSoFar' /\ toTarget'[t].type = "break"
                  /\ \A i \in DOMAIN pending' : Framed(pending'[i]) => t < m2[i]
  <2> SUFFICES ASSUME Served' PROVE /\ t \in 1 .. ReadSoFar' /\ toTarget'[t].type = "break"
                                    /\ \A i \in DOMAIN pending' : Framed(pending'[i]) => t < m2[i]
    OBVIOUS
  <2>1. s \in 1 .. ReadSoFar /\ toTarget[s].type = "break" /\ \A i \in 1 .. n : Framed(pending[i]) =>
          s < m[i]
    BY <1>1, <1>2 DEF Backing
  <2>2. s \in 2 .. ReadSoFar
    BY <1>3, <2>1
  <2>3. toTarget'[s - 1] = toTarget[s] /\ s - 1 \in 1 .. ReadSoFar - 1
    BY <1>3, <2>2
  <2>4. ASSUME NEW i \in DOMAIN pending', Framed(pending'[i]) PROVE t < m2[i]
    <3>1. PICK a \in 1 .. n : Framed(pending[a]) /\ m[a] \in 2 .. ReadSoFar /\ m2[i] = m[a] - 1
      BY <1>9, <2>4
    <3>2. s < m[a]
      BY <2>1, <3>1
    <3> QED
      BY <1>11, <3>1, <3>2
  <2>5. t \in 1 .. ReadSoFar' /\ toTarget'[t].type = "break"
    BY <1>11, <2>1, <2>3
  <2> QED
    BY <2>4, <2>5
<1>13. Backing(m2, t, w)'
  BY <1>10, <1>12 DEF Backing
<1> QED
  BY <1>8, <1>13 DEF Backed

(* Every record has a frame of its own, so there are no more of them.       *)
LEMMA Counted == LinkInv /\ TargetTypes /\ BackInv => BreaksAreBacked
<1> SUFFICES ASSUME LinkInv, TargetTypes, WakeInv, Backed, Live PROVE BreaksAreBacked
  BY DEF BackInv, BreaksAreBacked, Live
<1>1. PICK m \in [DOMAIN pending -> Int], s \in Int, w \in Int : Backing(m, s, w)
  BY DEF Backed
<1> DEFINE P == {i \in DOMAIN pending : pending[i] = "BreakIn"}
           B == {k \in 1 .. ReadSoFar : toTarget[k].type = "break"}
           C == IF Woke THEN B \ {w} ELSE B
           D == IF Served THEN C \ {s} ELSE C
<1>2. /\ toTarget \in Seq(Frames) /\ pending \in Seq(Reasons) /\ Len(toTarget) \in Nat
      /\ DOMAIN toTarget = 1 .. Len(toTarget) /\ ReadSoFar <= Len(toTarget) /\ ReadSoFar \in Int
  BY DEF LinkInv, LinkTypes, TargetTypes, WakeInv, ReadSoFar
<1>3. IsFiniteSet(B)
  <2>1. IsFiniteSet(1 .. ReadSoFar)
    BY <1>2, FS_Interval
  <2>2. B \in SUBSET (1 .. ReadSoFar)
    OBVIOUS
  <2> QED
    BY <2>1, <2>2, FS_Subset
<1>4. (Woke => w \in B) /\ (Served => s \in B) /\ (Served /\ Woke => s # w)
  BY <1>1, <1>2 DEF Backing
<1>5. \A i \in P : /\ m[i] \in B /\ (Woke => m[i] # w) /\ (Served => m[i] # s)
                   /\ \A j \in P : m[i] = m[j] => i = j
  <2>1. \A i \in P : Framed(pending[i]) /\ i \in DOMAIN pending /\ i \in Int
    BY <1>2 DEF Framed
  <2>2. \A i \in P : m[i] \in B
    <3> SUFFICES ASSUME NEW i \in P PROVE m[i] \in B
      OBVIOUS
    <3>1. m[i] \in 1 .. ReadSoFar /\ WakeOf(toTarget[m[i]]) = "BreakIn"
      BY <1>1, <2>1 DEF Backing
    <3> QED
      BY <1>2, <3>1, WakesOf
  <2>3. \A i \in P : (Woke => m[i] # w) /\ (Served => m[i] # s)
    BY <1>1, <2>1 DEF Backing
  <2>4. \A i, j \in P : m[i] = m[j] => i = j
    <3> SUFFICES ASSUME NEW i \in P, NEW j \in P, i # j PROVE m[i] # m[j]
      OBVIOUS
    <3>1. i < j \/ j < i
      BY <2>1
    <3>2. m[i] < m[j] \/ m[j] < m[i]
      BY <1>1, <2>1, <3>1 DEF Backing
    <3> QED
      BY <1>1, <2>1, <3>2
  <2> QED
    BY <2>2, <2>3, <2>4
<1>6. /\ IsFiniteSet(C) /\ Cardinality(C) = Cardinality(B) - (IF Woke THEN 1 ELSE 0)
      /\ Served => s \in C
  <2>1. Cardinality(B) \in Nat
    BY <1>3, FS_CardinalityType
  <2>2. CASE ~Woke
    <3>1. C = B
      BY <2>2
    <3> QED
      BY <1>3, <1>4, <2>1, <2>2, <3>1
  <2>3. CASE Woke
    <3>1. C = B \ {w} /\ w \in B /\ (Served => s \in C)
      BY <1>4, <2>3
    <3> HIDE DEF B, C
    <3>2. IsFiniteSet(B \ {w}) /\ Cardinality(B \ {w}) = Cardinality(B) - 1
      BY <1>3, <3>1, FS_RemoveElement
    <3> QED
      BY <2>1, <2>3, <3>1, <3>2
  <2> QED
    BY <2>2, <2>3
<1>7. IsFiniteSet(D) /\ Cardinality(D) = Cardinality(C) - (IF Served THEN 1 ELSE 0)
  <2> HIDE DEF C
  <2> QED
    BY <1>6, FS_RemoveElement, FS_CardinalityType
<1>8. Cardinality(P) <= Cardinality(D) /\ IsFiniteSet(P)
  <2> DEFINE g == [i \in P |-> m[i]]
  <2>1. \A i \in P : m[i] \in D
    BY <1>5
  <2>2. g \in [P -> D]
    BY <2>1
  <2>3. g \in Injection(P, D)
    BY <1>5, <2>2 DEF Injection, IsInjective
  <2> HIDE DEF g, P, D
  <2> QED
    BY <1>7, <2>3, FS_Injection
<1>9. Cardinality(P) \in Nat /\ Cardinality(B) \in Nat
  BY <1>3, <1>8, FS_CardinalityType
<1> HIDE DEF C, D, P, B
<1>10. Cardinality(P) + (IF Woke THEN 1 ELSE 0) + (IF Served THEN 1 ELSE 0) <= Cardinality(B)
  BY <1>6, <1>7, <1>8, <1>9, FS_CardinalityType
<1> QED
  BY <1>10 DEF BreaksAreBacked, Woke, Served, P, B

(* Steps that neither read nor wake.                                        *)
Extends ==
    /\ toTarget' \in Seq(Frames) /\ Len(toTarget') >= Len(toTarget)
    /\ \A k \in 1 .. Len(toTarget) :
         toTarget[k].type \in {"break", "reset"} => toTarget'[k].type = toTarget[k].type
    /\ reader = "woke" /\ queued + 1 <= Len(toTarget) =>
         toTarget'[queued + 1] = toTarget[queued + 1]

(* How far the reader has read is a number.                                 *)
LEMMA ReadSoFarType == LinkInv /\ TargetTypes => ReadSoFar \in Nat
  BY DEF LinkInv, LinkTypes, TargetTypes, ReadSoFar

(* A step that reads nothing and records nothing keeps everything backed.   *)
LEMMA Calm ==
    ASSUME LinkInv, TargetTypes, BackInv, Live, Extends, UNCHANGED <<queued, reader, pending>>,
           \/ wait' = wait /\ (phase' \in Waits <=> phase \in Waits)
           \/ wait' = NoWait /\ phase' \notin Waits,
           Served' => Served, phase' = "syncing" => phase = "syncing" /\ stopped' = stopped
    PROVE  WakeInv' /\ Backed'
<1>1. WakeInv /\ Backed /\ ReadSoFar \in Nat /\ toTarget \in Seq(Frames) /\ queued \in Nat
      /\ reader \in Readers
  BY ReadSoFarType DEF BackInv, LinkInv, LinkTypes, TargetTypes
<1>2. ReadSoFar' \in Nat /\ ReadSoFar <= ReadSoFar' /\ ReadSoFar' <= Len(toTarget')
      /\ queued' <= ReadSoFar'
  BY <1>1 DEF WakeInv, ReadSoFar, Extends
<1>3. Preserved /\ (Woke' => Woke)
  BY <1>1 DEF Preserved, Extends, WakeInv, Woke, NoWait
<1>4. Backed'
  BY <1>1, <1>2, <1>3, Kept
<1>5. reader = "woke" => toTarget'[queued + 1] = toTarget[queued + 1]
  BY <1>1 DEF WakeInv, ReadSoFar, Extends
<1>6. WakeInv'
  <2>1. /\ wait'.active <=> phase' \in Waits
        /\ wait'.active /\ wait'.policy = "Defer" => wait'.reason # "BreakIn"
        /\ wait'.active /\ wait'.policy # "Defer" /\ wait'.reason = "none" => pending' = <<>>
    BY <1>1 DEF WakeInv, NoWait
  <2>2. phase' = "syncing" => ~stopped'.served
    BY <1>1 DEF WakeInv
  <2>3. /\ \A i, j \in DOMAIN pending' : i < j /\ Framed(pending'[j]) => Framed(pending'[i])
        /\ reader' = "reading" \/ (reader' = "woke" /\ toTarget'[queued' + 1].type \notin {"fatal", "eof"}) =>
             \A i \in DOMAIN pending' : Framed(pending'[i])
    BY <1>1, <1>5 DEF WakeInv
  <2> QED
    BY <1>2, <2>1, <2>2, <2>3 DEF WakeInv
<1> QED
  BY <1>4, <1>6

(* A step that does not touch the wire is one such.                         *)
LEMMA Unmoved ==
    ASSUME LinkInv, toTarget' = toTarget PROVE Extends
  BY DEF Extends, LinkInv, LinkTypes

(* The debugger adds at the end; what damage changes is neither a break     *)
(* nor a reset.                                                             *)
LEMMA DebuggerExtends ==
    ASSUME LinkInv, LinkInv', TargetTypes, Debugger PROVE Extends
<1>1. toTarget \in Seq(Frames) /\ toTarget' \in Seq(Frames) /\ queued \in Nat
  BY DEF LinkInv, LinkTypes, TargetTypes
<1>2. ASSUME NEW x, toTarget' = Append(toTarget, x) PROVE Extends
  <2>1. Len(toTarget') = Len(toTarget) + 1 /\ \A k \in 1 .. Len(toTarget) :
          toTarget'[k] = toTarget[k]
    BY <1>1, <1>2, Written
  <2> QED
    BY <1>1, <2>1 DEF Extends
<1>3. CASE HostReset \/ HostAsk \/ HostClose \/ PressBreak
  BY <1>2, <1>3 DEF HostReset, HostAsk, HostClose, PressBreak
<1>4. CASE HostRepeat
  BY <1>2, <1>4 DEF HostRepeat
<1>5. CASE HostHear
  <2>1. toTarget' = toTarget \/ \E x : toTarget' = Append(toTarget, x)
    BY <1>5 DEF HostHear
  <2> QED
    BY <1>2, <2>1, Unmoved
<1>6. CASE Damage(ReadSoFar)
  <2> DEFINE k == ReadSoFar
  <2>1. k \in Nat /\ (reader = "woke" => k = queued + 1)
    BY <1>1 DEF ReadSoFar
  <2> HIDE DEF k
  <2>2. CASE UNCHANGED toTarget
    BY <2>2, Unmoved
  <2>3. CASE \E i \in k + 1 .. Len(toTarget), f \in {Malformed(FALSE), Data(2, 0)} :
               toTarget[i].type \in {"data", "ack"} /\ toTarget' = [toTarget EXCEPT ![i] = f]
    <3>1. PICK i \in k + 1 .. Len(toTarget), f \in {Malformed(FALSE), Data(2, 0)} :
               toTarget[i].type \in {"data", "ack"} /\ toTarget' = [toTarget EXCEPT ![i] = f]
      BY <2>3
    <3>2. i \in DOMAIN toTarget /\ f \in Frames
      BY <1>1, <2>1, <3>1, Forms
    <3>3. Len(toTarget') = Len(toTarget) /\ \A j \in 1 .. Len(toTarget) : j # i =>
            toTarget'[j] = toTarget[j]
      BY <1>1, <3>1, <3>2, Exchanged
    <3> QED
      BY <1>1, <2>1, <3>1, <3>3 DEF Extends
  <2> QED
    BY <1>6, <2>2, <2>3 DEF Damage, k
<1> QED
  BY <1>3, <1>4, <1>5, <1>6 DEF Debugger

(* The debugger's steps.                                                    *)
LEMMA Debugs ==
    ASSUME TargetInv, LinkInv', Debugger PROVE TargetTypes' /\ BackInv'
<1>1. UNCHANGED <<queued, reader, phase, stopped, wait, pending>> /\ phase \notin Over
  BY DEF Debugger, readerVars, stopVars, wakeVars
<1>2. TargetTypes'
  BY <1>1 DEF TargetInv, TargetTypes
<1>3. Extends
  BY DebuggerExtends DEF TargetInv
<1>4. (Live' => Live) /\ (Served' => Served)
  BY <1>1 DEF Live, Served
<1> QED
  BY <1>1, <1>2, <1>3, <1>4, Calm DEF TargetInv, BackInv

(* The steps of the service and of the run that read nothing.               *)
LEMMA Proceeds ==
    ASSUME TargetInv, LinkInv',
           Raise \/ RaiseFails \/ Reply \/ Resume \/ ResumeFails \/ EnterWait \/ WaitCut \/ StopOccurs
           \/ WaitFails \/ BreakOnDemand \/ Teardown
    PROVE  TargetTypes' /\ BackInv'
<1> USE DEF readerVars, stopVars, wakeVars, linkVars, Waits
<1>1. UNCHANGED <<queued, reader, pending>> /\ toTarget' = toTarget
  BY DEF Raise, RaiseFails, Reply, LinkSend, Resume, ResumeFails, EnterWait, WaitCut, StopOccurs,
     WaitFails,
     BreakOnDemand, Teardown
<1>2. TargetTypes'
  <2>1. CASE BreakOnDemand
    BY <1>1, <2>1 DEF TargetInv, TargetTypes, BreakOnDemand
  <2>2. CASE ResumeFails
    BY <1>1, <2>2 DEF TargetInv, TargetTypes, ResumeFails, NoWait, Reasons
  <2>3. CASE Raise \/ RaiseFails \/ Reply \/ Resume \/ EnterWait \/ WaitCut \/ StopOccurs
             \/ WaitFails \/ Teardown
    BY <1>1, <2>3 DEF TargetInv, TargetTypes, Raise, RaiseFails, Reply, Resume, EnterWait, WaitCut,
       StopOccurs, WaitFails, Teardown
  <2> QED
    BY <2>1, <2>2, <2>3
<1>3. Extends
  BY <1>1, Unmoved DEF TargetInv
<1>4. Live' => Live
  BY DEF Live, Over, Raise, RaiseFails, Reply, Resume, ResumeFails, EnterWait, WaitCut,
     StopOccurs, WaitFails,
     BreakOnDemand, Teardown
<1>5. \/ wait' = wait /\ (phase' \in Waits <=> phase \in Waits)
      \/ wait' = NoWait /\ phase' \notin Waits
  BY DEF Raise, RaiseFails, Reply, Resume, ResumeFails, EnterWait, WaitCut, StopOccurs,
     WaitFails, BreakOnDemand, Teardown
<1>6. /\ Served' => Served
      /\ phase' = "syncing" => phase = "syncing" /\ stopped' = stopped
  BY DEF Served, Raise, RaiseFails, Reply, Resume, ResumeFails, EnterWait, WaitCut, StopOccurs,
     WaitFails, BreakOnDemand,
     Teardown
<1> QED
  BY <1>1, <1>2, <1>3, <1>4, <1>5, <1>6, Calm DEF TargetInv, BackInv

(* The steps that end the connection.                                       *)
LEMMA Ends ==
    ASSUME TargetInv, ServeHangUp \/ ServeFailedRead \/ WriteFails \/ ServiceTimeout
                      \/ FlushFails \/ Finished
    PROVE  TargetTypes' /\ BackInv'
<1> USE DEF readerVars, stopVars, wakeVars
<1>1. ~Live'
  BY DEF Live, Over, ServeHangUp, ServeFailedRead, WriteFails, ServiceTimeout, FlushFails, Finished
<1>2. TargetTypes'
  <2>1. CASE FlushFails
    BY <2>1 DEF TargetInv, TargetTypes, FlushFails, NoWait, Reasons
  <2>2. CASE ServeHangUp \/ ServeFailedRead \/ WriteFails \/ ServiceTimeout \/ Finished
    BY <2>2 DEF TargetInv, TargetTypes, ServeHangUp, ServeFailedRead, WriteFails, ServiceTimeout,
       Finished
  <2> QED
    BY <2>1, <2>2
<1> QED
  BY <1>1, <1>2 DEF BackInv

(* A new connection has nothing recorded.                                   *)
LEMMA Connects == ASSUME TargetInv, Connect PROVE TargetTypes' /\ BackInv'
<1>1. /\ queued' = 0 /\ reader' = "reading" /\ phase' = "syncing" /\ wait' = NoWait
      /\ pending' = <<>>
      /\ stopped' = NoBreak /\ toTarget' = <<>>
  BY DEF Connect, HostConnect
<1>2. TargetTypes'
  BY <1>1 DEF TargetTypes, Readers, NoWait, NoBreak, Reasons
<1>3. WakeInv'
  BY <1>1 DEF WakeInv, ReadSoFar, NoWait, NoBreak, Waits
<1>4. PICK m \in [DOMAIN pending' -> Int], s \in Int, w \in Int : TRUE
  <2>1. [i \in DOMAIN pending' |-> 0] \in [DOMAIN pending' -> Int] /\ 0 \in Int
    OBVIOUS
  <2> QED
    BY <2>1
<1>5. Backing(m, s, w)'
  BY <1>1 DEF Backing, Served, Woke, NoWait, NoBreak
<1>6. Backed'
  BY <1>4, <1>5 DEF Backed
<1> QED
  BY <1>2, <1>3, <1>6 DEF BackInv

(* The service takes the outcome of a wait, and with it what woke it.       *)
LEMMA WaitEnds == ASSUME TargetInv, AfterWait PROVE TargetTypes' /\ BackInv'
<1>1. /\ phase = "waited" /\ wait' = NoWait /\ toTarget' = toTarget
      /\ UNCHANGED <<queued, reader, pending, stopped>>
      /\ phase' \in {"ended", "replying", "breaking"}
      /\ phase' = "breaking" => wait.reason = "BreakIn"
  BY DEF AfterWait, linkVars, readerVars
<1>2. TargetTypes'
  BY <1>1 DEF TargetInv, TargetTypes, NoWait, Reasons
<1>3. Extends /\ Live /\ phase' \notin Waits
  BY <1>1, Unmoved DEF TargetInv, Live, Over, Waits
<1>4. CASE phase' # "breaking"
  <2>1. (Served' => Served) /\ phase' # "syncing"
    BY <1>1, <1>4 DEF Served
  <2> QED
    BY <1>1, <1>2, <1>3, <2>1, Calm DEF TargetInv, BackInv
<1>5. CASE phase' = "breaking"
  <2>1. WakeInv /\ Backed /\ Woke /\ ~Woke' /\ ReadSoFar' = ReadSoFar
    BY <1>1, <1>3, <1>5 DEF TargetInv, BackInv, WakeInv, Woke, Waits, NoWait, ReadSoFar
  <2>2. Backed'
    BY <1>1, <2>1, Stopped
  <2>3. WakeInv'
    BY <1>1, <1>3, <1>5, <2>1 DEF WakeInv, NoWait
  <2> QED
    BY <1>2, <2>2, <2>3 DEF BackInv
<1> QED
  BY <1>4, <1>5

(* A wait begins with the first wake already recorded for it.               *)
LEMMA Starts == ASSUME TargetInv, Begin PROVE TargetTypes' /\ BackInv'
<1> DEFINE kept == Policy = "Defer" /\ pending # <<>> /\ Head(pending) = "BreakIn"
           reason == IF pending = <<>> \/ kept THEN "none" ELSE Head(pending)
<1>1. /\ phase = "resuming" /\ phase' = "begun" /\ toTarget' = toTarget
      /\ UNCHANGED <<queued, reader, stopped>>
      /\ wait' = [active |-> TRUE, policy |-> Policy, reason |-> reason]
      /\ pending' = IF reason = "none" THEN pending ELSE Tail(pending)
  BY DEF Begin, BeginWait, linkVars, readerVars, stopVars
<1>2. /\ pending \in Seq(Reasons) /\ Live /\ WakeInv /\ Backed /\ ~wait.active
      /\ Policy \in {"Cancel", "Defer", "Rendezvous"}
  BY <1>1 DEF TargetInv, TargetTypes, BackInv, Live, Over, WakeInv, Waits, Policy
<1>3. /\ reason \in Reasons \cup {"none"} /\ (Policy = "Defer" => reason # "BreakIn")
      /\ reason # "none" => pending # <<>> /\ reason = Head(pending) /\ pending' = Tail(pending)
      /\ reason = "none" => pending' = pending /\ (pending = <<>> \/ Policy = "Defer")
  BY <1>1, <1>2 DEF Reasons
<1> HIDE DEF reason
<1>4. TargetTypes'
  <2>1. pending' \in Seq(Reasons)
    BY <1>2, <1>3
  <2> QED
    BY <1>1, <1>2, <1>3, <2>1 DEF TargetInv, TargetTypes
<1>5. /\ ReadSoFar' = ReadSoFar /\ (Served' => Served) /\ (Woke' => reason = "BreakIn") /\ ~Woke
      /\ ReadSoFar \in Nat /\ Preserved
  BY <1>1, <1>2, ReadSoFarType DEF ReadSoFar, Served, Woke, Preserved, TargetInv
<1>6. Backed'
  <2>1. CASE reason = "none"
    BY <1>2, <1>3, <1>5, <2>1, Kept
  <2>2. CASE reason # "none"
    BY <1>1, <1>2, <1>3, <1>5, <2>2, Started
  <2> QED
    BY <2>1, <2>2
<1>7. WakeInv'
  <2>1. /\ \A i, j \in DOMAIN pending' : i < j /\ Framed(pending'[j]) => Framed(pending'[i])
        /\ (\A i \in DOMAIN pending : Framed(pending[i])) =>
             \A i \in DOMAIN pending' : Framed(pending'[i])
    <3>1. CASE reason = "none"
      BY <1>2, <1>3, <3>1 DEF WakeInv
    <3>2. CASE reason # "none"
      <4>1. /\ \A i \in DOMAIN pending' : i + 1 \in DOMAIN pending /\ pending'[i] = pending[i + 1]
            /\ \A i, j \in DOMAIN pending' : i < j => i + 1 < j + 1
        BY <1>2, <1>3, <3>2
      <4> QED
        BY <1>2, <4>1 DEF WakeInv
    <3> QED
      BY <3>1, <3>2
  <2>2. ReadSoFar' <= Len(toTarget') /\ queued' <= ReadSoFar'
    BY <1>1, <1>2, <1>5 DEF WakeInv
  <2>3. reader' = "reading" \/ (reader' = "woke" /\ toTarget'[queued' + 1].type \notin {"fatal", "eof"}) =>
          \A i \in DOMAIN pending' : Framed(pending'[i])
    BY <1>1, <1>2, <2>1 DEF WakeInv
  <2>4. /\ wait'.active /\ phase' \in Waits /\ phase' # "syncing"
        /\ wait'.policy = "Defer" => wait'.reason # "BreakIn"
        /\ wait'.policy # "Defer" /\ wait'.reason = "none" => pending' = <<>>
    BY <1>1, <1>3 DEF Waits
  <2> QED
    BY <2>1, <2>2, <2>3, <2>4 DEF WakeInv
<1> QED
  BY <1>4, <1>6, <1>7 DEF BackInv

(* A wake is recorded or wakes the wait at once.                            *)
LEMMA WakeTypes ==
    ASSUME TargetTypes, NEW r \in Reasons, Wake(r)
    PROVE  /\ pending' \in Seq(Reasons)
           /\ wait' \in [active : BOOLEAN, policy : {"Cancel", "Defer", "Rendezvous"},
                         reason : Reasons \cup {"none", "Idle"}]
<1> USE DEF TargetTypes
<1>1. CASE pending' = Append(pending, r) /\ wait' = wait
  BY <1>1
<1>2. CASE UNCHANGED <<wait, pending>>
  BY <1>2
<1>3. CASE wait' = [wait EXCEPT !.reason = r] /\ pending' = pending
  BY <1>3
<1> QED
  BY <1>1, <1>2, <1>3 DEF Wake

(* WaitWaker: what becomes of a wake.                                       *)
LEMMA Wakes ==
    ASSUME TargetTypes, WakeInv, Backed, NEW r \in Reasons \cup {"Idle"}, Wake(r),
           ReadSoFar \in Nat, ReadSoFar' \in Nat, ReadSoFar <= ReadSoFar', Preserved,
           UNCHANGED <<phase, stopped>>,
           Framed(r) => ReadSoFar' = ReadSoFar + 1 /\ WakeOf(toTarget'[ReadSoFar + 1]) = r,
           r = "Idle" => wait.active /\ wait.reason = "none"
    PROVE  /\ Backed'
           /\ \/ pending' = pending
              \/ r \in Reasons /\ pending' = Append(pending, r)
           /\ wait' \in [active : BOOLEAN, policy : {"Cancel", "Defer", "Rendezvous"},
                         reason : Reasons \cup {"none", "Idle"}]
           /\ wait'.active = wait.active
           /\ wait'.active /\ wait'.policy = "Defer" => wait'.reason # "BreakIn"
           /\ wait'.active /\ wait'.policy # "Defer" /\ wait'.reason = "none" => pending' = <<>>
<1> USE DEF TargetTypes
<1>0. "none" \notin Reasons \cup {"Idle"} /\ (Served' => Served)
  BY DEF Reasons, Served
<1>1. CASE /\ ~wait.active \/ (wait.reason = "none" /\ wait.policy = "Defer" /\ r = "BreakIn")
           /\ pending' = Append(pending, r) /\ wait' = wait
  <2>1. r \in Reasons /\ ~Woke'
    BY <1>1 DEF Woke, Reasons
  <2>2. Backed'
    BY <1>0, <1>1, <2>1, Recorded
  <2> QED
    BY <1>1, <2>1, <2>2 DEF WakeInv
<1>2. CASE UNCHANGED <<wait, pending>>
  <2>1. Woke' => Woke
    BY <1>2 DEF Woke
  <2>2. Backed'
    BY <1>0, <1>2, <2>1, Kept
  <2> QED
    BY <1>2, <2>2 DEF WakeInv
<1>3. CASE /\ wait.active /\ wait.reason = "none" /\ ~(wait.policy = "Defer" /\ r = "BreakIn")
           /\ wait' = [wait EXCEPT !.reason = r] /\ pending' = pending
  <2>1. /\ wait' \in [active : BOOLEAN, policy : {"Cancel", "Defer", "Rendezvous"},
                      reason : Reasons \cup {"none", "Idle"}]
        /\ wait'.active = wait.active /\ wait'.policy = wait.policy /\ wait'.reason = r
        /\ r # "none"
    BY <1>0, <1>3
  <2>2. Backed'
    <3>1. CASE r = "BreakIn"
      <4>1. pending = <<>> /\ pending' = <<>> /\ Framed(r)
        BY <1>3, <3>1 DEF WakeInv, Framed
      <4>2. ReadSoFar' = ReadSoFar + 1 /\ toTarget'[ReadSoFar + 1].type = "break"
        BY <3>1, <4>1, WakesOf
      <4> QED
        BY <1>0, <4>1, <4>2, Awoken
    <3>2. CASE r # "BreakIn"
      <4>1. ~Woke'
        BY <2>1, <3>2 DEF Woke
      <4> QED
        BY <1>0, <1>3, <4>1, Kept
    <3> QED
      BY <3>1, <3>2
  <2> QED
    BY <1>3, <2>1, <2>2
<1> QED
  BY <1>1, <1>2, <1>3 DEF Wake

(* What is recorded before a hang-up has a frame.                           *)
LEMMA Grown ==
    ASSUME pending \in Seq(Reasons), NEW r \in Reasons, pending' = Append(pending, r),
           \A i \in DOMAIN pending : Framed(pending[i])
    PROVE  /\ pending' \in Seq(Reasons)
           /\ \A i, j \in DOMAIN pending' : i < j => Framed(pending'[i])
           /\ Framed(r) => \A i \in DOMAIN pending' : Framed(pending'[i])
<1>1. /\ pending' \in Seq(Reasons) /\ DOMAIN pending' = 1 .. Len(pending) + 1
      /\ Len(pending) \in Nat
      /\ DOMAIN pending = 1 .. Len(pending)
      /\ pending'[Len(pending) + 1] = r /\ \A i \in 1 .. Len(pending) : pending'[i] = pending[i]
  OBVIOUS
<1>2. \A i \in DOMAIN pending' : i = Len(pending) + 1 \/ i \in 1 .. Len(pending)
  BY <1>1
<1>3. \A i, j \in DOMAIN pending' : i < j => i \in 1 .. Len(pending)
  BY <1>1
<1> QED
  BY <1>1, <1>2, <1>3

(* The reader wakes the run before it queues the frame.                     *)
LEMMA ReaderWakes == ASSUME TargetInv, LinkInv', ReaderWake PROVE TargetTypes' /\ BackInv'
<1> DEFINE f == Decoded
<1>1. /\ reader = "reading" /\ queued < Len(toTarget) /\ phase \notin Over
      /\ toTarget' = [toTarget EXCEPT ![queued + 1] = f] /\ reader' = "woke"
      /\ UNCHANGED <<queued, phase, stopped>>
      /\ IF WakeOf(f) # "none" THEN Wake(WakeOf(f)) ELSE UNCHANGED <<wait, pending>>
  BY DEF ReaderWake, stopVars
<1>2. /\ TargetTypes /\ ReadSoFar \in Nat /\ toTarget \in Seq(Frames) /\ queued \in Nat
      /\ toTarget' \in Seq(Frames)
      /\ WakeOf(f) \in Reasons \cup {"none"}
  BY ReadSoFarType, WakesOf DEF TargetInv, TargetTypes, LinkInv, LinkTypes
<1> HIDE DEF f
<1>3. /\ Len(toTarget') = Len(toTarget) /\ toTarget'[queued + 1] = f /\ ReadSoFar = queued
      /\ ReadSoFar' = queued + 1
      /\ Preserved
  BY <1>1, <1>2 DEF ReadSoFar, Preserved
<1>4. CASE ~Live
  <2>1. ~Live'
    BY <1>1, <1>4 DEF Live
  <2>2. TargetTypes'
    <3>1. WakeOf(f) \in Reasons => pending' \in Seq(Reasons)
            /\ wait' \in [active : BOOLEAN, policy : {"Cancel", "Defer", "Rendezvous"},
                          reason : Reasons \cup {"none", "Idle"}]
      <4>1. "none" \notin Reasons
        BY DEF Reasons
      <4> QED
        BY <1>1, <1>2, <4>1, WakeTypes
    <3> QED
      BY <1>1, <1>2, <3>1 DEF TargetTypes, Readers, Reasons
  <2> QED
    BY <2>1, <2>2 DEF BackInv
<1>5. CASE Live
  <2>1. WakeInv /\ Backed /\ \A i \in DOMAIN pending : Framed(pending[i])
    BY <1>1, <1>5 DEF TargetInv, BackInv, WakeInv
  <2>2. /\ Backed'
        /\ pending' = pending \/ (WakeOf(f) \in Reasons /\ pending' = Append(pending, WakeOf(f)))
        /\ wait' \in [active : BOOLEAN, policy : {"Cancel", "Defer", "Rendezvous"},
                      reason : Reasons \cup {"none", "Idle"}]
        /\ wait'.active = wait.active
        /\ wait'.active /\ wait'.policy = "Defer" => wait'.reason # "BreakIn"
        /\ wait'.active /\ wait'.policy # "Defer" /\ wait'.reason = "none" => pending' = <<>>
    <3>1. CASE WakeOf(f) # "none"
      <4> DEFINE r == WakeOf(f)
      <4>1. r \in Reasons /\ Wake(r) /\ r # "Idle"
        BY <1>1, <1>2, <3>1 DEF Reasons
      <4>2. Framed(r) => ReadSoFar' = ReadSoFar + 1 /\ WakeOf(toTarget'[ReadSoFar + 1]) = r
        BY <1>3
      <4>3. ReadSoFar' \in Nat /\ ReadSoFar <= ReadSoFar'
        BY <1>2, <1>3
      <4> HIDE DEF r
      <4>4. /\ Backed'
            /\ pending' = pending \/ (r \in Reasons /\ pending' = Append(pending, r))
            /\ wait' \in [active : BOOLEAN, policy : {"Cancel", "Defer", "Rendezvous"},
                          reason : Reasons \cup {"none", "Idle"}]
            /\ wait'.active = wait.active
            /\ wait'.active /\ wait'.policy = "Defer" => wait'.reason # "BreakIn"
            /\ wait'.active /\ wait'.policy # "Defer" /\ wait'.reason = "none" => pending' = <<>>
        BY <1>1, <1>2, <1>3, <2>1, <4>1, <4>2, <4>3, Wakes
      <4> QED
        BY <4>4 DEF r
    <3>2. CASE WakeOf(f) = "none"
      <4>1. UNCHANGED <<wait, pending>> /\ (Served' => Served) /\ (Woke' => Woke)
        BY <1>1, <3>2 DEF Served, Woke
      <4>2. Backed'
        BY <1>2, <1>3, <2>1, <4>1, Kept
      <4> QED
        BY <1>2, <2>1, <4>1, <4>2 DEF WakeInv, TargetTypes
    <3> QED
      BY <3>1, <3>2
  <2>3. /\ pending' \in Seq(Reasons)
        /\ \A i, j \in DOMAIN pending' : i < j => Framed(pending'[i])
        /\ f.type \notin {"fatal", "eof"} => \A i \in DOMAIN pending' : Framed(pending'[i])
    <3>1. CASE pending' = pending
      BY <1>2, <2>1, <3>1 DEF TargetTypes
    <3>2. CASE WakeOf(f) \in Reasons /\ pending' = Append(pending, WakeOf(f))
      <4>1. WakeOf(f) # "none" /\ pending \in Seq(Reasons)
        BY <1>2, <3>2 DEF Reasons, TargetTypes
      <4>2. f.type \notin {"fatal", "eof"} => Framed(WakeOf(f))
        BY <4>1, WakesOf
      <4> QED
        BY <2>1, <3>2, <4>1, <4>2, Grown
    <3> QED
      BY <2>2, <3>1, <3>2
  <2>4. TargetTypes'
    BY <1>1, <1>2, <2>2, <2>3 DEF TargetTypes, Readers
  <2>5. WakeInv'
    BY <1>1, <1>2, <1>3, <2>1, <2>2, <2>3 DEF WakeInv
  <2> QED
    BY <2>2, <2>4, <2>5 DEF BackInv
<1> QED
  BY <1>4, <1>5

(* A reader that has gone, or is going, leaves its reason behind.           *)
LEMMA Gone ==
    ASSUME TargetInv, phase \notin Over, UNCHANGED <<toTarget, phase, stopped, queued>>,
           Wake("Transport"), reader' \in Readers \ {"reading", "woke"}, ReadSoFar' = ReadSoFar
    PROVE  TargetTypes' /\ BackInv'
<1>0. TargetTypes /\ ReadSoFar \in Nat /\ toTarget \in Seq(Frames) /\ queued \in Nat
      /\ Len(toTarget) \in Nat
  BY ReadSoFarType DEF TargetInv, TargetTypes, LinkInv, LinkTypes
<1>1. ~Framed("Transport") /\ "Transport" \in Reasons
  BY DEF Framed, Reasons
<1>2. TargetTypes'
  <2>1. /\ pending' \in Seq(Reasons)
        /\ wait' \in [active : BOOLEAN, policy : {"Cancel", "Defer", "Rendezvous"},
                      reason : Reasons \cup {"none", "Idle"}]
    BY <1>0, <1>1, WakeTypes
  <2> QED
    BY <1>0, <2>1 DEF TargetTypes
<1>3. ASSUME Live' PROVE WakeInv' /\ Backed'
  <2>1. WakeInv /\ Backed
    BY <1>3 DEF TargetInv, BackInv, Live
  <2>2. ReadSoFar' \in Nat /\ ReadSoFar <= ReadSoFar' /\ queued' <= ReadSoFar' /\ Preserved
        /\ ReadSoFar' <= Len(toTarget')
    BY <1>0, <2>1 DEF WakeInv, Preserved
  <2>3. /\ Backed'
        /\ pending' = pending \/ pending' = Append(pending, "Transport")
        /\ wait'.active = wait.active
        /\ wait'.active /\ wait'.policy = "Defer" => wait'.reason # "BreakIn"
        /\ wait'.active /\ wait'.policy # "Defer" /\ wait'.reason = "none" => pending' = <<>>
    BY <1>0, <1>1, <2>1, <2>2, Wakes
  <2>4. \A i, j \in DOMAIN pending' : i < j /\ Framed(pending'[j]) => Framed(pending'[i])
    <3>1. CASE pending' = pending
      BY <2>1, <3>1 DEF WakeInv
    <3>2. CASE pending' = Append(pending, "Transport")
      <4>1. /\ DOMAIN pending' = 1 .. Len(pending) + 1 /\ Len(pending) \in Nat
            /\ DOMAIN pending = 1 .. Len(pending)
            /\ pending'[Len(pending) + 1] = "Transport"
            /\ \A i \in 1 .. Len(pending) : pending'[i] = pending[i]
        BY <1>0, <1>1, <3>2 DEF TargetTypes
      <4>2. \A i, j \in DOMAIN pending' : i < j /\ Framed(pending'[j]) =>
              i \in DOMAIN pending /\ j \in DOMAIN pending
        BY <1>1, <4>1
      <4> QED
        BY <2>1, <4>1, <4>2 DEF WakeInv
    <3> QED
      BY <2>3, <3>1, <3>2
  <2>5. WakeInv'
    BY <1>0, <2>1, <2>2, <2>3, <2>4 DEF WakeInv
  <2> QED
    BY <2>3, <2>5
<1> QED
  BY <1>2, <1>3 DEF BackInv

(* A read fails.                                                            *)
LEMMA ReaderFaults == ASSUME TargetInv, ReaderFails PROVE TargetTypes' /\ BackInv'
<1>1. /\ phase \notin Over /\ reader = "reading" /\ reader' = "failing" /\ Wake("Transport")
      /\ UNCHANGED <<toTarget, phase, stopped, queued>>
  BY DEF ReaderFails, stopVars
<1>2. ReadSoFar' = ReadSoFar /\ reader' \in Readers \ {"reading", "woke"}
  BY <1>1 DEF ReadSoFar, Readers
<1> QED
  BY <1>1, <1>2, Gone

(* The reader queues its frame or its failure, or finds the queue full and  *)
(* gives up.                                                                *)
LEMMA ReaderQueues == ASSUME TargetInv, ReaderQueue PROVE TargetTypes' /\ BackInv'
<1>1. /\ phase \notin Over /\ UNCHANGED <<toTarget, phase, stopped>>
  BY DEF ReaderQueue, linkVars, stopVars
<1>2. TargetTypes /\ ReadSoFar \in Nat /\ toTarget \in Seq(Frames) /\ queued \in Nat
      /\ Len(toTarget) \in Nat
  BY <1>1, ReadSoFarType DEF TargetInv, TargetTypes, LinkInv, LinkTypes
<1>3. CASE /\ \/ /\ reader = "woke" /\ queued' = queued + 1
                 /\ reader' = IF toTarget[queued'].type \in {"fatal", "eof"}
                              THEN "ended" ELSE "reading"
              \/ reader = "failing" /\ reader' = "failed" /\ queued' = queued
           /\ UNCHANGED <<wait, pending>>
  <2>0. queued' \in Nat /\ reader' \in Readers /\ ReadSoFar' = ReadSoFar /\ queued' <= ReadSoFar'
    BY <1>2, <1>3 DEF ReadSoFar, Readers
  <2>1. TargetTypes'
    BY <1>1, <1>2, <1>3, <2>0 DEF TargetTypes
  <2>2. ASSUME Live' PROVE WakeInv' /\ Backed'
    <3>1. WakeInv /\ Backed
      BY <1>1, <2>2 DEF TargetInv, BackInv, Live
    <3>2. ReadSoFar' \in Nat /\ ReadSoFar <= ReadSoFar' /\ ReadSoFar' <= Len(toTarget')
      BY <1>1, <1>2, <2>0, <3>1 DEF WakeInv
    <3>3. Preserved /\ (Served' => Served) /\ (Woke' => Woke)
      BY <1>1, <1>3 DEF Preserved, Served, Woke
    <3>4. Backed'
      BY <1>2, <1>3, <3>1, <3>2, <3>3, Kept
    <3>5. reader' = "reading" => \A i \in DOMAIN pending : Framed(pending[i])
      BY <1>1, <1>2, <1>3, <3>1 DEF WakeInv
    <3>6. WakeInv'
      BY <1>1, <1>3, <2>0, <3>1, <3>2, <3>5 DEF WakeInv
    <3> QED
      BY <3>4, <3>6
  <2> QED
    BY <2>1, <2>2 DEF BackInv
<1>4. CASE /\ reader \in {"woke", "failing"} /\ Wake("Transport") /\ UNCHANGED queued
           /\ reader' = IF reader = "woke" THEN "full" ELSE "ended"
  <2>1. ReadSoFar' = ReadSoFar /\ reader' \in Readers \ {"reading", "woke"}
    BY <1>4 DEF ReadSoFar, Readers
  <2> QED
    BY <1>1, <1>4, <2>1, Gone
<1> QED
  BY <1>3, <1>4 DEF ReaderQueue

(* The idle watchdog wakes the run.                                         *)
LEMMA Idles == ASSUME TargetInv, IdleWakes PROVE TargetTypes' /\ BackInv'
<1>1. /\ wait.active /\ wait.reason = "none" /\ phase \in {"entering", "waiting"} /\ Wake("Idle")
      /\ UNCHANGED <<toTarget, queued, reader, phase, stopped>>
  BY DEF IdleWakes, linkVars, readerVars, stopVars
<1>2. /\ TargetTypes /\ ReadSoFar \in Nat /\ ReadSoFar' = ReadSoFar /\ Live /\ WakeInv
      /\ Backed /\ Preserved
      /\ ~Framed("Idle") /\ "Idle" \notin Reasons
  BY <1>1, ReadSoFarType DEF TargetInv, BackInv, ReadSoFar, Live, Over, Preserved, Framed, Reasons
<1>3. /\ Backed' /\ pending' = pending
      /\ wait' \in [active : BOOLEAN, policy : {"Cancel", "Defer", "Rendezvous"},
                    reason : Reasons \cup {"none", "Idle"}]
      /\ wait'.active = wait.active
      /\ wait'.active /\ wait'.policy = "Defer" => wait'.reason # "BreakIn"
      /\ wait'.active /\ wait'.policy # "Defer" /\ wait'.reason = "none" => pending' = <<>>
  <2>1. "Idle" \in Reasons \cup {"Idle"} /\ ReadSoFar <= ReadSoFar' /\ ReadSoFar' \in Nat
    BY <1>2
  <2> QED
    BY <1>1, <1>2, <2>1, Wakes
<1>4. TargetTypes'
  BY <1>1, <1>2, <1>3 DEF TargetTypes
<1>5. WakeInv'
  BY <1>1, <1>2, <1>3 DEF WakeInv
<1> QED
  BY <1>3, <1>4, <1>5 DEF BackInv

(* The service reads a frame: a break is served once, a reset starts over.  *)
LEMMA Serves == ASSUME TargetInv, ServeFrame PROVE TargetTypes' /\ BackInv'
<1> DEFINE f == Head(toTarget)
<1>1. /\ phase \in {"syncing", "serving"} /\ queued > 0 /\ f.type # "eof" /\ queued' = queued - 1
      /\ toTarget # <<>> /\ toTarget' = Tail(toTarget) /\ UNCHANGED <<reader, wait>>
      /\ pending' = IF pending # <<>> /\ Head(pending) = WakeOf(f) THEN Tail(pending) ELSE pending
  BY DEF ServeFrame, LinkReceive, Consume
<1>2. /\ TargetTypes /\ ReadSoFar \in Nat /\ toTarget \in Seq(Frames) /\ queued \in Nat
      /\ pending \in Seq(Reasons) /\ reader \in Readers
      /\ Live /\ WakeInv /\ Backed /\ ~wait.active
      /\ stopped \in [deferred : BOOLEAN, served : BOOLEAN]
  BY <1>1, ReadSoFarType DEF TargetInv, TargetTypes, LinkInv, LinkTypes, BackInv, WakeInv, Live, Over,
     Waits
<1>3. /\ stopped' \in [deferred : BOOLEAN, served : BOOLEAN]
      /\ phase' \in {"syncing", "serving", "replying", "resuming", "ended"}
      /\ f.type = "fatal" => phase' = "ended"
      /\ phase' = "syncing" => phase = "syncing" /\ stopped' = stopped
      /\ stopped'.served => stopped.served /\ (f.type = "break" => phase = "syncing")
  <2>1. CASE f.type = "fatal"
    BY <1>2, <2>1 DEF ServeFrame, stopVars, Delivered
  <2>2. CASE f.type = "reset"
    <3>1. stopped' = NoBreak /\ phase' = "replying"
      BY <2>2 DEF ServeFrame, Delivered
    <3> QED
      BY <2>2, <3>1 DEF NoBreak
  <2>3. CASE f.type \notin {"fatal", "reset"} /\ phase = "syncing"
    <3>1. UNCHANGED <<phase, stopVars>>
      BY <2>3 DEF ServeFrame
    <3> QED
      BY <1>2, <2>3, <3>1 DEF stopVars
  <2>4. CASE f.type = "break" /\ phase = "serving"
    <3>1. ServeBreak
      BY <2>4 DEF ServeFrame, Delivered
    <3> QED
      BY <1>2, <2>4, <3>1 DEF ServeBreak
  <2>5. CASE f.type \notin {"fatal", "reset", "break"} /\ phase = "serving"
    <3>1. (\E command \in Commands : Serve(command)) \/ UNCHANGED <<phase, stopVars>>
      BY <2>5 DEF ServeFrame
    <3>2. CASE UNCHANGED <<phase, stopVars>>
      BY <1>2, <2>5, <3>2 DEF stopVars
    <3>3. ASSUME NEW command \in Commands, Serve(command)
          PROVE  /\ stopped' \in [deferred : BOOLEAN, served : BOOLEAN]
                 /\ phase' \in {"replying", "resuming"} /\ stopped'.served = stopped.served
      <4>1. PICK b \in BOOLEAN : stopped' = [stopped EXCEPT !.deferred = b]
        BY <1>2, <3>3 DEF Serve
      <4>2. phase' \in {"replying", "resuming"}
        BY <3>3 DEF Serve
      <4> QED
        BY <1>2, <4>1, <4>2
    <3> QED
      BY <2>5, <3>1, <3>2, <3>3
  <2> QED
    BY <1>1, <2>1, <2>2, <2>3, <2>4, <2>5
<1>4. /\ pending' \in Seq(Reasons)
      /\ \A i, j \in DOMAIN pending' : i < j /\ Framed(pending'[j]) => Framed(pending'[i])
      /\ (\A i \in DOMAIN pending : Framed(pending[i])) =>
           \A i \in DOMAIN pending' : Framed(pending'[i])
  <2>1. CASE pending' = pending
    BY <1>2, <2>1 DEF WakeInv
  <2>2. CASE pending # <<>> /\ pending' = Tail(pending)
    <3>1. /\ \A i \in DOMAIN pending' : i + 1 \in DOMAIN pending /\ pending'[i] = pending[i + 1]
          /\ \A i, j \in DOMAIN pending' : i < j => i + 1 < j + 1
          /\ pending' \in Seq(Reasons)
      BY <1>2, <2>2
    <3> QED
      BY <1>2, <3>1 DEF WakeInv
  <2> QED
    BY <1>1, <2>1, <2>2
<1>5. TargetTypes'
  BY <1>1, <1>2, <1>3, <1>4 DEF TargetTypes
<1>6. ASSUME Live' PROVE WakeInv' /\ Backed'
  <2>1. f.type \notin {"fatal", "eof"} /\ phase' \notin Waits /\ phase' # "breaking"
    BY <1>1, <1>3, <1>6 DEF Live, Over, Waits
  <2>2. /\ Len(toTarget) \in Nat \ {0} /\ Len(toTarget') = Len(toTarget) - 1
        /\ \A k \in 1 .. Len(toTarget) - 1 : toTarget'[k] = toTarget[k + 1]
    BY <1>1, <1>2, Shortened
  <2>3. ReadSoFar' = ReadSoFar - 1 /\ ReadSoFar <= Len(toTarget) /\ ReadSoFar' <= Len(toTarget')
        /\ queued' <= ReadSoFar'
    BY <1>1, <1>2, <2>2 DEF WakeInv, ReadSoFar
  <2>4. (Served' => Served /\ f.type # "break") /\ ~Woke'
    BY <1>1, <1>2, <1>3, <2>1 DEF Served, Woke, WakeInv
  <2>5. Backed'
    <3>1. \A i, j \in DOMAIN pending : i < j /\ Framed(pending[j]) => Framed(pending[i])
      BY <1>2 DEF WakeInv
    <3> QED
      BY <1>1, <1>2, <2>1, <2>3, <2>4, <3>1, Read
  <2>6. reader = "woke" => toTarget'[queued' + 1] = toTarget[queued + 1]
    <3>1. ASSUME reader = "woke" PROVE queued \in 1 .. Len(toTarget) - 1
      BY <1>1, <1>2, <2>2, <3>1 DEF WakeInv, ReadSoFar
    <3> QED
      BY <1>1, <1>2, <2>2, <3>1
  <2>7. WakeInv'
    BY <1>1, <1>2, <1>3, <1>4, <2>1, <2>3, <2>6 DEF WakeInv
  <2> QED
    BY <2>5, <2>7
<1> QED
  BY <1>5, <1>6 DEF BackInv

(* Every step preserves the invariant.                                      *)
LEMMA TargetSteps == TargetInv /\ [TargetNext]_targetVars => TargetInv'
<1> SUFFICES ASSUME TargetInv, [TargetNext]_targetVars PROVE TargetInv'
  OBVIOUS
<1>1. LinkInv'
  BY Advances DEF TargetInv, TargetTypes
<1>2. CASE UNCHANGED targetVars
  <2>1. UNCHANGED <<toTarget, queued, reader, phase, stopped, wait, pending>>
    BY <1>2 DEF targetVars, linkVars, readerVars, stopVars, wakeVars
  <2>2. TargetTypes'
    BY <2>1 DEF TargetInv, TargetTypes
  <2>3. BackInv'
    BY <2>1 DEF TargetInv, BackInv, Live, WakeInv, Backed, Backing, ReadSoFar, Served, Woke
  <2> QED
    BY <1>1, <2>2, <2>3 DEF TargetInv
<1>3. CASE TargetNext
  <2>1. TargetTypes' /\ BackInv'
    BY <1>1, <1>3, Debugs, Proceeds, Ends, Connects, WaitEnds, Starts, ReaderWakes, ReaderFaults,
       ReaderQueues, Idles, Serves
       DEF TargetNext, Service
  <2> QED
    BY <1>1, <2>1 DEF TargetInv
<1> QED
  BY <1>2, <1>3

(* Every wake the reader records, every break that wakes a run and every    *)
(* break a stop has served has a frame of its own, which the reader has     *)
(* decoded and the service has not received.                                *)
THEOREM TargetIsSound == TargetSpec => []TargetInv
<1>1. TargetInit => TargetInv
  <2> SUFFICES ASSUME TargetInit PROVE TargetInv
    OBVIOUS
  <2>1. LinkInv
    BY Begins DEF TargetInit
  <2>2. TargetTypes
    BY DEF TargetInit, TargetTypes, NoBreak, NoWait, Reasons, Readers
  <2>3. ~Live
    BY DEF TargetInit, Live, Over
  <2> QED
    BY <2>1, <2>2, <2>3 DEF TargetInv, BackInv
<1> QED
  BY <1>1, TargetSteps, PTL DEF TargetSpec

(* No break is recorded without a byte of its own that the debugger sent    *)
(* and the service has not received, however the reader, the waker, the     *)
(* runs, the resets and a queue that overflows interleave.                  *)
THEOREM TargetBreaksAreBacked == TargetSpec => []BreaksAreBacked
<1>1. TargetInv => BreaksAreBacked
  BY Counted DEF TargetInv
<1> QED
  BY <1>1, TargetIsSound, PTL
=============================================================================
