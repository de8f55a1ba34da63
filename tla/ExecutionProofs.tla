-------------------------- MODULE ExecutionProofs --------------------------
(* What is proved of the execution slot for every number of runs, calls,    *)
(* waits and breaks.                                                        *)
EXTENDS Execution, TLAPS

-----------------------------------------------------------------------------
(* The inductive invariant.                                                 *)

RunOrNone == Runs \cup {None}

SlotType == [run : RunOrNone, moving : BOOLEAN, stopped : Endings \cup {None}]

StartType ==
    [pc : {"idle", "claimed", "failed", "polling", "reading", "asleep", "answered"},
     told : BOOLEAN, fresh : BOOLEAN,
     answer : {"TargetRunning", "refused", "Stale", "moved", "lost", "never moved", "Timeout", None}]

WaitType ==
    [pc : {"idle", "reading", "asleep", "answered"}, run : RunOrNone, fresh : BOOLEAN,
     ranOut : BOOLEAN, answer : Endings \cup {"Stale", "running", None}]

BreakType ==
    [pc : {"idle", "sending", "sent", "answered"}, run : RunOrNone,
     answer : {"stopped", "Stale", "requested", "lost", None}]

MessageType == [type : {"Resumed", "Done"}, id : Runs \cup Calls, result : Endings \cup {None}]
ReaderType == [at : {"idle", "moving", "send", "wake"}, run : RunOrNone, told : BOOLEAN]

ExecTypes ==
    /\ slot \in SlotType
    /\ waiters \subseteq Runs \cup Calls
    /\ replies \subseteq Runs \X Endings
    /\ starts \in [Runs -> StartType]
    /\ milestone \in [Runs -> BOOLEAN]
    /\ waits \in [Waits -> WaitType]
    /\ breaks \in [Breaks -> BreakType]
    /\ reader \in ReaderType
    /\ messages \in Seq(MessageType)
    /\ queue \in Seq(Runs \cup Calls)
    /\ broken \subseteq Runs
    /\ alive \in BOOLEAN
    /\ moved \subseteq Runs
    /\ ending \in [Runs -> Endings \cup {None}]

(* What the slot says of its run's end is how the run ended, unless the     *)
(* worker was lost meanwhile.                                               *)
SlotInv ==
    slot.stopped # None =>
        /\ slot.run \in Runs /\ ending[slot.run] # None
        /\ slot.stopped = "lost" \/ slot.stopped = ending[slot.run]

(* A run that has the gate has the slot; until it is submitted nobody else  *)
(* knows of it.                                                             *)
Unsubmitted == {"idle", "claimed", "failed"}

StartInv ==
    \A r \in Runs :
        /\ starts[r].pc = "claimed" => gate = r /\ slot.run = r /\ slot.stopped = None
        /\ starts[r].pc \in Unsubmitted =>
             /\ ending[r] = None /\ r \notin waiters
             /\ \A p \in replies : p[1] # r
             /\ \A n \in DOMAIN queue : queue[n] # r

(* A run in the worker's queue is the last job of it, and has the slot.     *)
QueueInv ==
    /\ ~alive => queue = <<>>
    /\ \A n \in DOMAIN queue : queue[n] \in Runs =>
         /\ n = Len(queue)
         /\ slot.run = queue[n] /\ slot.stopped = None
         /\ ending[queue[n]] = None

(* The worker reports a run's end once, and the task that files it is told  *)
(* that, or that the worker was lost.                                       *)
EndInv ==
    /\ \A n \in DOMAIN messages : messages[n].type = "Done" /\ messages[n].id \in Runs =>
         messages[n].result \notin {None, "lost"} /\ messages[n].result = ending[messages[n].id]
    /\ \A p \in replies : (p[2] = "lost" /\ ~alive) \/ p[2] = ending[p[1]]

(* Whoever has been told of a movement has been told of a real one.         *)
MovedInv ==
    /\ \A n \in DOMAIN messages : messages[n].type = "Resumed" => messages[n].id \in moved
    /\ reader.at # "idle" => reader.run \in moved
    /\ \A r \in Runs : milestone[r] \/ starts[r].told \/ starts[r].answer = "moved" => r \in moved

(* Whatever a call has been answered is true of its run, and a break is     *)
(* only sent for a run that a break_in named.                               *)
AnswerInv ==
    /\ \A w \in Waits :
         /\ waits[w].pc \in {"reading", "asleep"} => waits[w].run \in Runs
         /\ waits[w].answer \in Endings \ {"lost"} =>
              /\ waits[w].pc = "answered" /\ waits[w].run \in Runs
              /\ ending[waits[w].run] = waits[w].answer
    /\ \A b \in Breaks :
         /\ breaks[b].pc = "idle" <=> breaks[b].run = None
         /\ breaks[b].answer = "stopped" => breaks[b].run \in Runs /\ ending[breaks[b].run] # None
    /\ \A r \in broken : \E b \in Breaks : breaks[b].run = r

ExecInv == ExecTypes /\ SlotInv /\ StartInv /\ QueueInv /\ EndInv /\ MovedInv /\ AnswerInv

(* The fields of the records, one by one.                                   *)
LEMMA FieldTypes ==
    ASSUME ExecTypes
    PROVE  /\ slot.run \in RunOrNone /\ slot.stopped \in Endings \cup {None}
           /\ reader.run \in RunOrNone
           /\ \A w \in Waits : waits[w].run \in RunOrNone
           /\ \A b \in Breaks : breaks[b].run \in RunOrNone
BY DEF ExecTypes, SlotType, ReaderType, WaitType, BreakType

(* A wake of the watch channel leaves everything a receiver has read alone. *)
LEMMA WokenStarts ==
    ASSUME ExecTypes
    PROVE  /\ Woken(starts) \in [Runs -> StartType]
           /\ \A r \in Runs : /\ Woken(starts)[r].pc = starts[r].pc
                              /\ Woken(starts)[r].told = starts[r].told
                              /\ Woken(starts)[r].answer = starts[r].answer
BY ZenonT(30) DEF ExecTypes, StartType, Woken

(* The same for wait_for_stop.                                              *)
LEMMA WokenWaits ==
    ASSUME ExecTypes
    PROVE  /\ Woken(waits) \in [Waits -> WaitType]
           /\ \A w \in Waits : /\ Woken(waits)[w].pc = waits[w].pc
                               /\ Woken(waits)[w].run = waits[w].run
                               /\ Woken(waits)[w].answer = waits[w].answer
BY ZenonT(30) DEF ExecTypes, WaitType, Woken

(* What is added to a queue goes to its end, and what is taken is its first *)
(* element.                                                                 *)
LEMMA Appended ==
    ASSUME NEW S, NEW q \in Seq(S), NEW x \in S
    PROVE  /\ Append(q, x) \in Seq(S) /\ Len(Append(q, x)) = Len(q) + 1 /\ Len(q) \in Nat
           /\ \A n \in DOMAIN q : n \in 1 .. Len(q) /\ q[n] \in S
           /\ \A n \in DOMAIN Append(q, x) :
                \/ n \in DOMAIN q /\ Append(q, x)[n] = q[n]
                \/ n = Len(q) + 1 /\ Append(q, x)[n] = x
<1>1. /\ Append(q, x) \in Seq(S) /\ Len(Append(q, x)) = Len(q) + 1 /\ Len(q) \in Nat
      /\ \A n \in 1 .. Len(q) : Append(q, x)[n] = q[n]
      /\ Append(q, x)[Len(q) + 1] = x
  OBVIOUS
<1>2. DOMAIN q = 1 .. Len(q) /\ DOMAIN Append(q, x) = 1 .. Len(q) + 1
  BY <1>1
<1> QED
  BY <1>1, <1>2

(* The first element of a queue is taken.                                   *)
LEMMA Shortened ==
    ASSUME NEW S, NEW q \in Seq(S), q # <<>>
    PROVE  /\ Tail(q) \in Seq(S) /\ Head(q) \in S /\ 1 \in DOMAIN q /\ Head(q) = q[1]
           /\ Len(Tail(q)) = Len(q) - 1 /\ Len(q) \in Nat
           /\ \A n \in DOMAIN Tail(q) :
                n \in Nat \ {0} /\ n + 1 \in DOMAIN q /\ Tail(q)[n] = q[n + 1]
OBVIOUS

(* None is neither a run nor a word a call is answered with.                *)
LEMMA NoneIsNothing ==
    None \notin Runs /\ None \notin Endings /\ None # "moved" /\ None # "stopped"
BY ExecutionConstants

(* A step of start_execution that only the call itself sees.                *)
LEMMA StartsOnly ==
    ASSUME ExecInv, NEW r \in Runs,
           UNCHANGED <<slot, gate, waiters, replies, milestone, waits, breaks, reader, messages,
                       queue, broken, alive, moved, ending>>,
           starts' \in [Runs -> StartType], \A q \in Runs \ {r} : starts'[q] = starts[q],
           starts'[r].pc \notin Unsubmitted,
           starts'[r].told \/ starts'[r].answer = "moved" => r \in moved
    PROVE  ExecInv'
<1> USE DEF ExecInv
<1>1. ExecTypes'
  BY DEF ExecTypes
<1>2. StartInv'
  BY DEF StartInv, Unsubmitted
<1>3. MovedInv'
  BY DEF MovedInv
<1> QED
  BY <1>1, <1>2, <1>3 DEF SlotInv, QueueInv, EndInv, AnswerInv

(* A step of wait_for_stop.                                                 *)
LEMMA WaitsOnly ==
    ASSUME ExecInv, NEW w \in Waits,
           UNCHANGED <<slot, gate, waiters, replies, starts, milestone, breaks, reader, messages,
                       queue, broken, alive, moved, ending>>,
           waits' \in [Waits -> WaitType], \A v \in Waits \ {w} : waits'[v] = waits[v],
           waits'[w].run \in Runs,
           waits'[w].answer \in Endings \ {"lost"} =>
             waits'[w].pc = "answered" /\ ending[waits'[w].run] = waits'[w].answer
    PROVE  ExecInv'
<1> USE DEF ExecInv
<1>1. ExecTypes'
  BY DEF ExecTypes
<1>2. AnswerInv'
  BY DEF AnswerInv
<1> QED
  BY <1>1, <1>2 DEF SlotInv, StartInv, QueueInv, EndInv, MovedInv

(* A step of break_in, or of the worker's reader for it.                    *)
LEMMA BreaksOnly ==
    ASSUME ExecInv, NEW b \in Breaks,
           UNCHANGED <<slot, gate, waiters, replies, starts, milestone, waits, reader, messages,
                       queue, alive, moved, ending>>,
           breaks' \in [Breaks -> BreakType], \A c \in Breaks \ {b} : breaks'[c] = breaks[c],
           breaks'[b].run \in Runs, breaks'[b].pc # "idle",
           breaks[b].pc # "idle" => breaks'[b].run = breaks[b].run,
           breaks'[b].answer = "stopped" => ending[breaks'[b].run] # None,
           broken' \subseteq broken \cup {breaks'[b].run}
    PROVE  ExecInv'
<1> USE DEF ExecInv
<1>1. ExecTypes'
  BY DEF ExecTypes
<1>2. \A r \in broken' : \E c \in Breaks : breaks'[c].run = r
  <2> SUFFICES ASSUME NEW r \in broken', r # breaks'[b].run
               PROVE  \E c \in Breaks : breaks'[c].run = r
    OBVIOUS
  <2>1. PICK c \in Breaks : breaks[c].run = r
    BY DEF AnswerInv
  <2>2. c # b
    BY <2>1, NoneIsNothing DEF AnswerInv, ExecTypes
  <2> QED
    BY <2>1, <2>2
<1>3. AnswerInv'
  BY <1>2, NoneIsNothing DEF AnswerInv
<1> QED
  BY <1>1, <1>3 DEF SlotInv, StartInv, QueueInv, EndInv, MovedInv

(* Moving one call on, with or without marking what it has seen.            *)
LEMMA StartMoves ==
    ASSUME ExecTypes, NEW r \in Runs, NEW p \in {"polling", "failed", "reading", "asleep"},
           \/ starts' = [starts EXCEPT ![r].pc = p]
           \/ starts' = [starts EXCEPT ![r].pc = p, ![r].fresh = FALSE]
    PROVE  /\ starts' \in [Runs -> StartType] /\ \A q \in Runs \ {r} : starts'[q] = starts[q]
           /\ starts'[r].pc = p /\ starts'[r].told = starts[r].told
           /\ starts'[r].answer = starts[r].answer
<1>1. starts[r] \in StartType /\ starts \in [Runs -> StartType]
  BY DEF ExecTypes
<1>2. CASE starts' = [starts EXCEPT ![r].pc = p]
  <2> DEFINE s == [starts[r] EXCEPT !.pc = p]
  <2>1. starts' = [starts EXCEPT ![r] = s]
    BY <1>2
  <2>2. s \in StartType /\ s.pc = p /\ s.told = starts[r].told /\ s.answer = starts[r].answer
    BY <1>1 DEF StartType
  <2> HIDE DEF s
  <2> QED
    BY <1>1, <2>1, <2>2
<1>3. CASE starts' = [starts EXCEPT ![r].pc = p, ![r].fresh = FALSE]
  <2> DEFINE s == [starts[r] EXCEPT !.pc = p, !.fresh = FALSE]
  <2>1. starts' = [starts EXCEPT ![r] = s]
    BY <1>3
  <2>2. s \in StartType /\ s.pc = p /\ s.told = starts[r].told /\ s.answer = starts[r].answer
    BY <1>1 DEF StartType
  <2> HIDE DEF s
  <2> QED
    BY <1>1, <2>1, <2>2
<1> QED
  BY <1>2, <1>3

(* Every step of the server and of the worker preserves it.                 *)
LEMMA ExecStep == ExecInv /\ [ExecNext]_execVars => ExecInv'
<1> SUFFICES ASSUME ExecInv, [ExecNext]_execVars
             PROVE  ExecInv'
  OBVIOUS
<1> USE FieldTypes, NoneIsNothing DEF ExecInv, callVars, workerVars
<1>1. ASSUME NEW r \in Runs, StartRefused(r)
      PROVE  ExecInv'
  <2>1. /\ starts' \in [Runs -> StartType] /\ \A q \in Runs \ {r} : starts'[q] = starts[q]
        /\ starts'[r].pc = "answered" /\ starts'[r].answer = "TargetRunning" /\ ~starts'[r].told
    BY <1>1 DEF StartRefused, Answered, ExecTypes, StartType
  <2> QED
    BY <1>1, <2>1, StartsOnly DEF StartRefused, Unsubmitted
<1>2. ASSUME NEW r \in Runs, StartClaim(r)
      PROVE  ExecInv'
  <2>1. /\ starts[r].pc = "idle" /\ gate = None /\ gate' = r
        /\ slot.run # None => slot.stopped # None
    BY <1>2 DEF StartClaim, Arrives, Running
  <2>2. slot' = [run |-> r, moving |-> FALSE, stopped |-> None]
    BY <1>2 DEF StartClaim
  <2>3. slot' \in SlotType /\ slot'.run = r /\ slot'.stopped = None
    BY <2>2 DEF SlotType, RunOrNone
  <2>4. /\ starts' \in [Runs -> StartType] /\ starts'[r].pc = "claimed"
        /\ \A q \in Runs \ {r} : starts'[q].pc = starts[q].pc
        /\ \A q \in Runs : starts'[q].told = starts[q].told /\ starts'[q].answer = starts[q].answer
    <3>1. starts' = [Woken(starts) EXCEPT ![r].pc = "claimed"]
      BY <1>2 DEF StartClaim
    <3> QED
      BY <3>1, WokenStarts, ZenonT(30) DEF StartType
  <2>5. /\ waits' \in [Waits -> WaitType]
        /\ \A w \in Waits : /\ waits'[w].pc = waits[w].pc /\ waits'[w].run = waits[w].run
                            /\ waits'[w].answer = waits[w].answer
    BY <1>2, WokenWaits DEF StartClaim
  <2>6. UNCHANGED <<waiters, replies, milestone, breaks, reader, messages, queue, broken, alive, moved,
                    ending>>
    BY <1>2 DEF StartClaim
  <2>7. ExecTypes'
    BY <2>3, <2>4, <2>5, <2>6 DEF ExecTypes
  <2>8. SlotInv' /\ EndInv'
    BY <2>3, <2>6 DEF SlotInv, EndInv
  <2>9. \A n \in DOMAIN queue : queue[n] \notin Runs
    BY <2>1 DEF QueueInv
  <2>10. StartInv'
    BY <2>1, <2>3, <2>4, <2>6 DEF StartInv, Unsubmitted
  <2>11. QueueInv'
    BY <2>6, <2>9 DEF QueueInv
  <2>12. MovedInv' /\ AnswerInv'
    BY <2>4, <2>5, <2>6 DEF MovedInv, AnswerInv
  <2> QED
    BY <2>7, <2>8, <2>10, <2>11, <2>12
<1>3. ASSUME NEW r \in Runs, StartSubmit(r)
      PROVE  ExecInv'
  <2>1. /\ starts[r].pc = "claimed" /\ gate = r /\ slot.run = r /\ slot.stopped = None /\ gate' = None
        /\ ending[r] = None /\ \A n \in DOMAIN queue : queue[n] # r
        /\ \A q \in Runs \ {r} : starts[q].pc # "claimed"
    BY <1>3 DEF StartSubmit, StartInv, Unsubmitted
  <2>2. \A n \in DOMAIN queue : queue[n] \notin Runs
    BY <2>1 DEF QueueInv
  <2>3. UNCHANGED <<slot, replies, milestone, waits, breaks, reader, messages, broken, alive, moved,
                    ending>>
    BY <1>3 DEF StartSubmit
  <2>4. /\ starts' \in [Runs -> StartType] /\ starts'[r].pc \in {"polling", "failed"}
        /\ \A q \in Runs \ {r} : starts'[q] = starts[q]
        /\ starts'[r].told = starts[r].told /\ starts'[r].answer = starts[r].answer
    BY <1>3, StartMoves DEF StartSubmit
  <2>5. SlotInv' /\ EndInv' /\ AnswerInv'
    BY <2>3 DEF SlotInv, EndInv, AnswerInv
  <2>6. MovedInv'
    BY <2>3, <2>4 DEF MovedInv
  <2>7. CASE UNCHANGED <<waiters, queue>>
    <3>1. ExecTypes'
      BY <2>3, <2>4, <2>7 DEF ExecTypes
    <3>2. StartInv'
      BY <2>1, <2>3, <2>4, <2>7 DEF StartInv, Unsubmitted
    <3>3. QueueInv'
      BY <2>3, <2>7 DEF QueueInv
    <3> QED
      BY <2>5, <2>6, <3>1, <3>2, <3>3
  <2>8. CASE /\ waiters' = waiters \cup {r} /\ starts'[r].pc = "polling"
             /\ queue' = IF alive THEN Append(queue, r) ELSE queue
    <3>1. /\ queue' \in Seq(Runs \cup Calls)
          /\ \A n \in DOMAIN queue' :
               \/ n \in DOMAIN queue /\ queue'[n] = queue[n]
               \/ n = Len(queue') /\ queue'[n] = r /\ alive
      BY <2>8, Appended DEF ExecTypes
    <3>2. ExecTypes'
      BY <2>3, <2>4, <2>8, <3>1 DEF ExecTypes
    <3>3. StartInv'
      BY <2>1, <2>3, <2>4, <2>8, <3>1 DEF StartInv, Unsubmitted
    <3>4. QueueInv'
      BY <2>1, <2>2, <2>3, <2>8, <3>1 DEF QueueInv
    <3> QED
      BY <2>5, <2>6, <3>2, <3>3, <3>4
  <2> QED
    BY <1>3, <2>7, <2>8, StartMoves DEF StartSubmit
<1>4. ASSUME NEW r \in Runs, StartFails(r)
      PROVE  ExecInv'
  <2>1. starts[r].pc = "failed" /\ ending[r] = None /\ \A n \in DOMAIN queue : queue[n] # r
    BY <1>4 DEF StartFails, StartInv, Unsubmitted
  <2>2. UNCHANGED <<gate, waiters, replies, milestone, breaks, reader, messages, queue, broken, alive,
                    moved>>
    BY <1>4 DEF StartFails
  <2>3. /\ slot' \in SlotType /\ slot'.run = slot.run
        /\ slot'.stopped = IF slot.run = r THEN "refused" ELSE slot.stopped
    BY <1>4 DEF StartFails, ExecTypes, SlotType, Endings, Failed
  <2>4. /\ starts' \in [Runs -> StartType] /\ starts'[r].pc = "answered" /\ ~starts'[r].told
        /\ starts'[r].answer = "refused"
        /\ \A q \in Runs \ {r} : /\ starts'[q].pc = starts[q].pc /\ starts'[q].told = starts[q].told
                                 /\ starts'[q].answer = starts[q].answer
    <3>1. starts' = [Woken(starts) EXCEPT ![r] = Answered("refused")]
      BY <1>4 DEF StartFails
    <3> QED
      BY <3>1, WokenStarts DEF StartType, Answered
  <2>5. /\ waits' \in [Waits -> WaitType]
        /\ \A w \in Waits : /\ waits'[w].pc = waits[w].pc /\ waits'[w].run = waits[w].run
                            /\ waits'[w].answer = waits[w].answer
    BY <1>4, WokenWaits DEF StartFails
  <2>6. /\ ending' \in [Runs -> Endings \cup {None}] /\ ending'[r] = "refused"
        /\ \A q \in Runs \ {r} : ending'[q] = ending[q]
    BY <1>4 DEF StartFails, ExecTypes, Endings, Failed
  <2>7. ExecTypes'
    BY <2>2, <2>3, <2>4, <2>5, <2>6 DEF ExecTypes
  <2>8. SlotInv'
    BY <2>3, <2>6 DEF SlotInv, Endings, Failed
  <2>9. StartInv'
    BY <2>1, <2>2, <2>3, <2>4, <2>6 DEF StartInv, Unsubmitted
  <2>10. QueueInv'
    BY <2>1, <2>2, <2>3, <2>6 DEF QueueInv
  <2>11. EndInv'
    BY <2>1, <2>2, <2>6 DEF EndInv, StartInv, Unsubmitted, ExecTypes
  <2>12. MovedInv'
    BY <2>2, <2>4 DEF MovedInv
  <2>13. AnswerInv'
    BY <2>1, <2>2, <2>5, <2>6 DEF AnswerInv
  <2> QED
    BY <2>7, <2>8, <2>9, <2>10, <2>11, <2>12, <2>13
<1>5. ASSUME NEW r \in Runs, StartPoll(r)
      PROVE  ExecInv'
  <2>1. starts[r] \in StartType /\ starts \in [Runs -> StartType] /\ milestone[r] \in BOOLEAN
    BY DEF ExecTypes
  <2> DEFINE s == [starts[r] EXCEPT !.pc = "reading", !.told = milestone[r]]
  <2>2. starts' = [starts EXCEPT ![r] = s]
    BY <1>5 DEF StartPoll
  <2>3. /\ s \in StartType /\ s.pc = "reading" /\ s.told = milestone[r]
        /\ s.answer = starts[r].answer
    BY <2>1 DEF StartType
  <2> HIDE DEF s
  <2>4. /\ starts' \in [Runs -> StartType] /\ \A q \in Runs \ {r} : starts'[q] = starts[q]
        /\ starts'[r] = s
    BY <2>1, <2>2, <2>3
  <2>5. starts'[r].told \/ starts'[r].answer = "moved" => r \in moved
    BY <2>3, <2>4 DEF MovedInv
  <2> QED
    BY <1>5, <2>3, <2>4, <2>5, StartsOnly DEF StartPoll, Unsubmitted
<1>6. ASSUME NEW r \in Runs, StartRead(r)
      PROVE  ExecInv'
  <2>1. starts[r] \in StartType /\ starts \in [Runs -> StartType]
    BY DEF ExecTypes
  <2>2. starts'[r].told \/ starts'[r].answer = "moved" => r \in moved
    <3>1. CASE StartAnswer(r) = None
      BY <1>6, <3>1, StartMoves DEF StartRead, MovedInv
    <3>2. CASE StartAnswer(r) # None
      <4>1. starts'[r].told = FALSE /\ starts'[r].answer = StartAnswer(r)
        BY <1>6, <2>1, <3>2 DEF StartRead, Answered
      <4>2. StartAnswer(r) = "moved" => starts[r].told
        BY DEF StartAnswer, Failed
      <4> QED
        BY <4>1, <4>2 DEF MovedInv
    <3> QED
      BY <3>1, <3>2
  <2>3. /\ starts' \in [Runs -> StartType] /\ \A q \in Runs \ {r} : starts'[q] = starts[q]
        /\ starts'[r].pc \in {"asleep", "answered"}
    <3>1. CASE StartAnswer(r) = None
      BY <1>6, <3>1, StartMoves DEF StartRead
    <3>2. CASE StartAnswer(r) # None
      <4>1. StartAnswer(r) \in {"Stale", "moved", "refused", "lost", "never moved"}
        BY <3>2 DEF StartAnswer, Failed
      <4>2. Answered(StartAnswer(r)) \in StartType /\ Answered(StartAnswer(r)).pc = "answered"
        BY <4>1 DEF Answered, StartType
      <4>3. starts' = [starts EXCEPT ![r] = Answered(StartAnswer(r))]
        BY <1>6, <3>2 DEF StartRead
      <4> QED
        BY <2>1, <4>2, <4>3
    <3> QED
      BY <3>1, <3>2
  <2> QED
    BY <1>6, <2>2, <2>3, StartsOnly DEF StartRead, Unsubmitted
<1>7. ASSUME NEW r \in Runs, StartWakes(r)
      PROVE  ExecInv'
  <2>1. /\ starts' \in [Runs -> StartType] /\ \A q \in Runs \ {r} : starts'[q] = starts[q]
        /\ starts'[r].pc = "polling" /\ starts'[r].told = starts[r].told
        /\ starts'[r].answer = starts[r].answer
    BY <1>7, StartMoves DEF StartWakes
  <2>2. starts'[r].told \/ starts'[r].answer = "moved" => r \in moved
    BY <2>1 DEF MovedInv
  <2> QED
    BY <1>7, <2>1, <2>2, StartsOnly DEF StartWakes, Unsubmitted
<1>8. ASSUME NEW r \in Runs, StartTimeout(r)
      PROVE  ExecInv'
  <2>1. /\ starts' \in [Runs -> StartType] /\ \A q \in Runs \ {r} : starts'[q] = starts[q]
        /\ starts'[r].pc = "answered" /\ starts'[r].answer = "Timeout" /\ ~starts'[r].told
    BY <1>8 DEF StartTimeout, Answered, ExecTypes, StartType
  <2> QED
    BY <1>8, <2>1, StartsOnly DEF StartTimeout, Unsubmitted
<1>9. ASSUME NEW w \in Waits, NEW r \in Runs, WaitBegin(w, r)
      PROVE  ExecInv'
  <2>1. waits[w] \in WaitType /\ waits \in [Waits -> WaitType]
    BY DEF ExecTypes
  <2> DEFINE s == [waits[w] EXCEPT !.pc = "reading", !.run = r, !.fresh = FALSE]
  <2>2. waits' = [waits EXCEPT ![w] = s]
    BY <1>9 DEF WaitBegin
  <2>3. s \in WaitType /\ s.pc = "reading" /\ s.run = r /\ s.answer = waits[w].answer
    BY <2>1 DEF WaitType, RunOrNone
  <2> HIDE DEF s
  <2>4. /\ waits' \in [Waits -> WaitType] /\ \A v \in Waits \ {w} : waits'[v] = waits[v]
        /\ waits'[w] = s
    BY <2>1, <2>2, <2>3
  <2>5. waits'[w].answer \notin Endings \ {"lost"}
    BY <1>9, <2>3, <2>4 DEF WaitBegin, AnswerInv
  <2> QED
    BY <1>9, <2>3, <2>4, <2>5, WaitsOnly DEF WaitBegin
<1>10. ASSUME NEW w \in Waits, WaitRead(w)
       PROVE  ExecInv'
  <2>1. waits[w] \in WaitType /\ waits \in [Waits -> WaitType] /\ waits[w].run \in Runs
    BY <1>10 DEF WaitRead, AnswerInv, ExecTypes
  <2>2. CASE WaitAnswer(w) = None
    <3> DEFINE s == [waits[w] EXCEPT !.pc = "asleep"]
    <3>1. waits' = [waits EXCEPT ![w] = s]
      BY <1>10, <2>2 DEF WaitRead
    <3>2. s \in WaitType /\ s.run = waits[w].run /\ s.answer = waits[w].answer
      BY <2>1 DEF WaitType
    <3> HIDE DEF s
    <3>3. /\ waits' \in [Waits -> WaitType] /\ \A v \in Waits \ {w} : waits'[v] = waits[v]
          /\ waits'[w] = s
      BY <2>1, <3>1, <3>2
    <3>4. waits'[w].answer \notin Endings \ {"lost"}
      BY <1>10, <3>2, <3>3 DEF WaitRead, AnswerInv
    <3> QED
      BY <1>10, <2>1, <3>2, <3>3, <3>4, WaitsOnly DEF WaitRead
  <2>3. CASE WaitAnswer(w) # None
    <3> DEFINE s == [waits[w] EXCEPT !.pc = "answered", !.answer = WaitAnswer(w), !.fresh = FALSE,
                                     !.ranOut = FALSE]
    <3>1. waits' = [waits EXCEPT ![w] = s]
      BY <1>10, <2>3 DEF WaitRead
    <3>2. WaitAnswer(w) \in Endings \cup {"Stale", "running"}
      BY <2>3 DEF WaitAnswer
    <3>3. s \in WaitType /\ s.pc = "answered" /\ s.run = waits[w].run /\ s.answer = WaitAnswer(w)
      BY <2>1, <3>2 DEF WaitType
    <3>4. WaitAnswer(w) \in Endings \ {"lost"} => ending[waits[w].run] = WaitAnswer(w)
      BY DEF WaitAnswer, SlotInv, Endings, Failed
    <3> HIDE DEF s
    <3>5. /\ waits' \in [Waits -> WaitType] /\ \A v \in Waits \ {w} : waits'[v] = waits[v]
          /\ waits'[w] = s
      BY <2>1, <3>1, <3>3
    <3> QED
      BY <1>10, <2>1, <3>3, <3>4, <3>5, WaitsOnly, ZenonT(30) DEF WaitRead
  <2> QED
    BY <2>2, <2>3
<1>11. ASSUME NEW w \in Waits, WaitWakes(w) \/ WaitRunsOut(w)
       PROVE  ExecInv'
  <2>1. waits[w] \in WaitType /\ waits \in [Waits -> WaitType] /\ waits[w].run \in Runs
    BY <1>11 DEF WaitWakes, WaitRunsOut, AnswerInv, ExecTypes
  <2>2. PICK s : /\ waits' = [waits EXCEPT ![w] = s]
                 /\ \/ s = [waits[w] EXCEPT !.pc = "reading", !.fresh = FALSE]
                    \/ s = [waits[w] EXCEPT !.pc = "reading", !.ranOut = TRUE]
    BY <1>11 DEF WaitWakes, WaitRunsOut
  <2>3. s \in WaitType /\ s.run = waits[w].run /\ s.answer = waits[w].answer
    BY <2>1, <2>2 DEF WaitType
  <2>4. /\ waits' \in [Waits -> WaitType] /\ \A v \in Waits \ {w} : waits'[v] = waits[v]
        /\ waits'[w] = s
    BY <2>1, <2>2, <2>3
  <2>5. waits'[w].answer \notin Endings \ {"lost"}
    BY <1>11, <2>3, <2>4 DEF WaitWakes, WaitRunsOut, AnswerInv
  <2> QED
    BY <1>11, <2>1, <2>3, <2>4, <2>5, WaitsOnly DEF WaitWakes, WaitRunsOut
<1>12. ASSUME NEW b \in Breaks, NEW r \in Runs, BreakRead(b, r)
       PROVE  ExecInv'
  <2>1. breaks[b] \in BreakType /\ breaks \in [Breaks -> BreakType] /\ breaks[b].pc = "idle"
    BY <1>12 DEF BreakRead, ExecTypes
  <2> DEFINE found == slot.run = r
             sent == found /\ slot.stopped = None
  <2>2. PICK p \in {"sending", "answered"}, x \in {None, "stopped", "Stale"} :
          /\ breaks' = [breaks EXCEPT ![b].pc = p, ![b].run = r, ![b].answer = x]
          /\ x = "stopped" => slot.run = r /\ slot.stopped # None
    <3>1. CASE sent
      BY <1>12, <3>1 DEF BreakRead
    <3>2. CASE ~sent
      BY <1>12, <3>2 DEF BreakRead
    <3> QED
      BY <3>1, <3>2
  <2> DEFINE s == [breaks[b] EXCEPT !.pc = p, !.run = r, !.answer = x]
  <2>3. breaks' = [breaks EXCEPT ![b] = s]
    BY <2>2
  <2>4. s \in BreakType /\ s.pc = p /\ s.run = r /\ s.answer = x
    BY <2>1 DEF BreakType, RunOrNone
  <2>5. x = "stopped" => ending[r] # None
    BY <2>2 DEF SlotInv
  <2> HIDE DEF s
  <2>6. /\ breaks' \in [Breaks -> BreakType] /\ \A c \in Breaks \ {b} : breaks'[c] = breaks[c]
        /\ breaks'[b] = s
    BY <2>1, <2>3, <2>4
  <2> QED
    BY <1>12, <2>1, <2>4, <2>5, <2>6, BreaksOnly DEF BreakRead
<1>13. ASSUME NEW b \in Breaks, BreakSend(b) \/ WorkerInterrupt(b) \/ BreakLost(b)
       PROVE  ExecInv'
  <2>1. /\ breaks[b] \in BreakType /\ breaks \in [Breaks -> BreakType] /\ breaks[b].run \in Runs
        /\ breaks[b].pc # "idle"
    BY <1>13 DEF BreakSend, WorkerInterrupt, BreakLost, ExecTypes, AnswerInv, RunOrNone
  <2>2. PICK s : /\ breaks' = [breaks EXCEPT ![b] = s]
                 /\ \/ s = [breaks[b] EXCEPT !.pc = "sent"]
                    \/ s = [breaks[b] EXCEPT !.pc = "answered", !.answer = "requested"]
                    \/ s = [breaks[b] EXCEPT !.pc = "answered", !.answer = "lost"]
    BY <1>13 DEF BreakSend, WorkerInterrupt, BreakLost
  <2>3. /\ s \in BreakType /\ s.pc # "idle" /\ s.run = breaks[b].run
        /\ s.answer = "stopped" => breaks[b].answer = "stopped"
    BY <2>1, <2>2 DEF BreakType
  <2>4. /\ breaks' \in [Breaks -> BreakType] /\ \A c \in Breaks \ {b} : breaks'[c] = breaks[c]
        /\ breaks'[b] = s
    BY <2>1, <2>2, <2>3
  <2>5. breaks'[b].answer = "stopped" => ending[breaks'[b].run] # None
    BY <2>3, <2>4 DEF AnswerInv
  <2>6. broken' \subseteq broken \cup {breaks'[b].run}
    BY <1>13, <2>3, <2>4 DEF BreakSend, WorkerInterrupt, BreakLost
  <2>7. UNCHANGED <<slot, gate, waiters, replies, starts, milestone, waits, reader, messages, queue,
                    alive, moved, ending>>
    BY <1>13 DEF BreakSend, WorkerInterrupt, BreakLost
  <2> QED
    BY <2>1, <2>3, <2>4, <2>5, <2>6, <2>7, BreaksOnly
<1>14. ASSUME File
       PROVE  ExecInv'
  <2>1. PICK p \in replies :
          /\ Finish(p[1], p[2]) /\ replies' = replies \ {p}
          /\ ending' = IF p[2] = "lost" /\ ending[p[1]] = None
                       THEN [ending EXCEPT ![p[1]] = "lost"] ELSE ending
          /\ UNCHANGED <<gate, waiters, milestone, breaks, reader, messages, queue, broken, alive, moved>>
    BY <1>14 DEF File
  <2>2. /\ p[1] \in Runs /\ p[2] \in Endings /\ p[2] # None
        /\ (p[2] = "lost" /\ ~alive) \/ p[2] = ending[p[1]]
    BY DEF ExecTypes, EndInv
  <2>3. /\ ending' \in [Runs -> Endings \cup {None}]
        /\ \A r \in Runs : ending[r] # None => ending'[r] = ending[r]
        /\ \A r \in Runs \ {p[1]} : ending'[r] = ending[r]
        /\ ending'[p[1]] # None
        /\ p[2] = "lost" \/ p[2] = ending'[p[1]]
    BY <2>1, <2>2 DEF ExecTypes, Endings, Failed
  <2>4. /\ slot' \in SlotType /\ slot'.run = slot.run
        /\ slot'.stopped = IF slot.run = p[1] THEN p[2] ELSE slot.stopped
    BY <2>1, <2>2 DEF Finish, ExecTypes, SlotType
  <2>5. /\ starts' \in [Runs -> StartType]
        /\ \A r \in Runs : /\ starts'[r].pc = starts[r].pc /\ starts'[r].told = starts[r].told
                           /\ starts'[r].answer = starts[r].answer
    <3>1. starts' = Woken(starts) \/ starts' = starts
      BY <2>1 DEF Finish
    <3> QED
      BY <3>1, WokenStarts DEF ExecTypes
  <2>6. /\ waits' \in [Waits -> WaitType]
        /\ \A w \in Waits : /\ waits'[w].pc = waits[w].pc /\ waits'[w].run = waits[w].run
                            /\ waits'[w].answer = waits[w].answer
    <3>1. waits' = Woken(waits) \/ waits' = waits
      BY <2>1 DEF Finish
    <3> QED
      BY <3>1, WokenWaits DEF ExecTypes
  <2>7. replies' \subseteq replies
        /\ UNCHANGED <<gate, waiters, milestone, breaks, reader, messages, queue, broken, alive, moved>>
    BY <2>1
  <2>8. \A n \in DOMAIN queue : queue[n] # p[1]
    BY <2>2 DEF QueueInv
  <2>9. starts[p[1]].pc \notin Unsubmitted
    BY <2>2 DEF StartInv
  <2>10. ExecTypes'
    BY <2>3, <2>4, <2>5, <2>6, <2>7 DEF ExecTypes
  <2>11. SlotInv'
    BY <2>2, <2>3, <2>4 DEF SlotInv
  <2>12. StartInv'
    BY <2>2, <2>3, <2>4, <2>5, <2>7, <2>9 DEF StartInv, Unsubmitted
  <2>13. QueueInv'
    BY <2>2, <2>3, <2>4, <2>7, <2>8 DEF QueueInv
  <2>14. EndInv'
    <3>1. \A q \in replies' : (q[2] = "lost" /\ ~alive) \/ q[2] = ending'[q[1]]
      <4> SUFFICES ASSUME NEW q \in replies', ~(q[2] = "lost" /\ ~alive)
                   PROVE  q[2] = ending'[q[1]]
        OBVIOUS
      <4>1. q[1] \in Runs /\ q[2] = ending[q[1]] /\ q[2] # None
        BY <2>7 DEF EndInv, ExecTypes
      <4> QED
        BY <2>3, <4>1
    <3>2. \A n \in DOMAIN messages : messages[n].type = "Done" /\ messages[n].id \in Runs =>
            messages[n].result \notin {None, "lost"} /\ messages[n].result = ending'[messages[n].id]
      BY <2>3 DEF EndInv
    <3> QED
      BY <2>7, <3>1, <3>2 DEF EndInv
  <2>15. MovedInv'
    BY <2>5, <2>7 DEF MovedInv
  <2>16. AnswerInv'
    BY <2>3, <2>6, <2>7 DEF AnswerInv
  <2> QED
    BY <2>10, <2>11, <2>12, <2>13, <2>14, <2>15, <2>16
<1>15. ASSUME NEW c \in Calls, CallSubmit(c)
       PROVE  ExecInv'
  <2>1. UNCHANGED <<slot, gate, replies, starts, milestone, waits, breaks, reader, messages, broken,
                    alive, moved, ending>>
    BY <1>15 DEF CallSubmit
  <2>2. c \notin Runs
    BY ExecutionConstants
  <2>3. /\ waiters' \subseteq waiters \cup {c}
        /\ \/ queue' = queue
           \/ ~Running /\ alive /\ queue' = Append(queue, c)
    BY <1>15 DEF CallSubmit
  <2>4. /\ queue' \in Seq(Runs \cup Calls)
        /\ \A n \in DOMAIN queue' : queue'[n] \in Runs => n \in DOMAIN queue /\ queue'[n] = queue[n]
    <3>1. CASE queue' = queue
      BY <3>1 DEF ExecTypes
    <3>2. CASE queue' = Append(queue, c)
      <4>1. queue \in Seq(Runs \cup Calls) /\ c \in Runs \cup Calls
        BY DEF ExecTypes
      <4> QED
        BY <2>2, <3>2, <4>1, Appended
    <3> QED
      BY <2>3, <3>1, <3>2
  <2>5. queue' # queue => alive /\ \A n \in DOMAIN queue : queue[n] \notin Runs
    BY <2>3 DEF QueueInv, Running
  <2>6. ExecTypes'
    BY <2>1, <2>3, <2>4 DEF ExecTypes
  <2>7. StartInv'
    BY <2>1, <2>2, <2>3, <2>4 DEF StartInv
  <2>8. QueueInv'
    BY <2>1, <2>4, <2>5 DEF QueueInv
  <2>9. SlotInv' /\ EndInv' /\ MovedInv' /\ AnswerInv'
    BY <2>1 DEF SlotInv, EndInv, MovedInv, AnswerInv
  <2> QED
    BY <2>6, <2>7, <2>8, <2>9
<1>16. ASSUME EngineMoves
       PROVE  ExecInv'
  <2>1. PICK r \in Runs : /\ moved' = moved \cup {r}
                          /\ messages' = Append(messages, Resumed(r))
    BY <1>16 DEF EngineMoves
  <2>2. UNCHANGED <<slot, gate, waiters, replies, starts, milestone, waits, breaks, reader, queue,
                    broken, alive, ending>>
    BY <1>16 DEF EngineMoves
  <2>3. Resumed(r) \in MessageType /\ Resumed(r).type = "Resumed" /\ Resumed(r).id = r
    BY DEF Resumed, MessageType
  <2>4. /\ messages' \in Seq(MessageType)
        /\ \A n \in DOMAIN messages' : \/ n \in DOMAIN messages /\ messages'[n] = messages[n]
                                       \/ messages'[n] = Resumed(r)
    BY <2>1, <2>3, Appended DEF ExecTypes
  <2>5. ExecTypes'
    BY <2>1, <2>2, <2>4 DEF ExecTypes
  <2>6. EndInv'
    BY <2>2, <2>3, <2>4 DEF EndInv
  <2>7. MovedInv'
    BY <2>1, <2>2, <2>3, <2>4 DEF MovedInv
  <2>8. SlotInv' /\ StartInv' /\ QueueInv' /\ AnswerInv'
    BY <2>2 DEF SlotInv, StartInv, QueueInv, AnswerInv
  <2> QED
    BY <2>5, <2>6, <2>7, <2>8
<1>17. ASSUME EngineEnds
       PROVE  ExecInv'
  <2> DEFINE j == Head(queue)
  <2>1. queue # <<>> /\ queue' = Tail(queue)
        /\ UNCHANGED <<slot, gate, waiters, replies, starts, milestone, waits, breaks, reader, broken,
                       alive, moved>>
    BY <1>17 DEF EngineEnds
  <2>2. PICK result \in Endings \ {"lost"} :
          /\ messages' = Append(messages, Finished(j, result))
          /\ ending' = IF j \in Runs THEN [ending EXCEPT ![j] = result] ELSE ending
    BY <1>17 DEF EngineEnds
  <2>3. /\ j \in Runs \cup Calls /\ 1 \in DOMAIN queue /\ j = queue[1]
        /\ queue' \in Seq(Runs \cup Calls) /\ Len(queue') = Len(queue) - 1 /\ Len(queue) \in Nat
        /\ \A n \in DOMAIN queue' :
             n \in Nat \ {0} /\ n + 1 \in DOMAIN queue /\ queue'[n] = queue[n + 1]
    BY <2>1, Shortened DEF ExecTypes
  <2> HIDE DEF j
  <2>4. alive
    BY <2>1 DEF QueueInv, ExecTypes
  <2>5. j \in Runs => /\ ending[j] = None /\ Len(queue) = 1
                      /\ slot.run = j /\ slot.stopped = None
                      /\ starts[j].pc \notin Unsubmitted
    BY <2>3 DEF QueueInv, StartInv
  <2>6. /\ ending' \in [Runs -> Endings \cup {None}]
        /\ \A r \in Runs \ {j} : ending'[r] = ending[r]
        /\ j \in Runs => ending'[j] = result
        /\ \A r \in Runs : ending[r] # None => ending'[r] = ending[r]
    BY <2>2, <2>5 DEF ExecTypes
  <2>7. /\ Finished(j, result) \in MessageType /\ Finished(j, result).type = "Done"
        /\ Finished(j, result).id = j /\ Finished(j, result).result = result
    BY <2>3 DEF Finished, MessageType
  <2>8. /\ messages' \in Seq(MessageType)
        /\ \A n \in DOMAIN messages' : \/ n \in DOMAIN messages /\ messages'[n] = messages[n]
                                       \/ messages'[n] = Finished(j, result)
    BY <2>2, <2>7, Appended DEF ExecTypes
  <2>9. ExecTypes'
    BY <2>1, <2>3, <2>6, <2>8 DEF ExecTypes
  <2>10. SlotInv'
    BY <2>1, <2>6 DEF SlotInv
  <2>11. StartInv'
    BY <2>1, <2>3, <2>5, <2>6 DEF StartInv, Unsubmitted
  <2>12. QueueInv'
    <3>1. ASSUME NEW n \in DOMAIN queue', queue'[n] \in Runs
          PROVE  /\ n = Len(queue') /\ slot.run = queue'[n] /\ slot.stopped = None
                 /\ ending'[queue'[n]] = None
      <4>1. /\ n + 1 = Len(queue) /\ slot.run = queue[n + 1] /\ slot.stopped = None
            /\ ending[queue[n + 1]] = None
        BY <2>3, <3>1 DEF QueueInv
      <4>2. j \notin Runs
        BY <2>3, <2>5, <4>1
      <4> QED
        BY <2>3, <2>6, <3>1, <4>1, <4>2
    <3> QED
      BY <2>1, <2>4, <3>1 DEF QueueInv
  <2>13. EndInv'
    <3>1. ASSUME NEW n \in DOMAIN messages', messages'[n].type = "Done", messages'[n].id \in Runs
          PROVE  /\ messages'[n].result \notin {None, "lost"}
                 /\ messages'[n].result = ending'[messages'[n].id]
      <4>1. CASE n \in DOMAIN messages /\ messages'[n] = messages[n]
        BY <2>6, <3>1, <4>1 DEF EndInv
      <4>2. CASE messages'[n] = Finished(j, result)
        BY <2>6, <2>7, <3>1, <4>2
      <4> QED
        BY <2>8, <4>1, <4>2
    <3>2. ASSUME NEW p \in replies
          PROVE  (p[2] = "lost" /\ ~alive) \/ p[2] = ending'[p[1]]
      <4>1. p[1] \in Runs /\ p[2] \in Endings
        BY DEF ExecTypes
      <4> QED
        BY <2>4, <2>6, <4>1 DEF EndInv
    <3> QED
      BY <2>1, <3>1, <3>2 DEF EndInv
  <2>14. MovedInv'
    BY <2>1, <2>7, <2>8 DEF MovedInv
  <2>15. AnswerInv'
    BY <2>1, <2>6 DEF AnswerInv
  <2> QED
    BY <2>9, <2>10, <2>11, <2>12, <2>13, <2>14, <2>15
<1>18. ASSUME Die
       PROVE  ExecInv'
  <2>1. /\ alive' = FALSE /\ queue' = <<>>
        /\ UNCHANGED <<slot, gate, waiters, replies, starts, milestone, waits, breaks, reader, messages,
                       broken, moved, ending>>
    BY <1>18 DEF Die
  <2>2. ExecTypes'
    <3>1. queue' \in Seq(Runs \cup Calls)
      BY <2>1
    <3>2. alive' \in BOOLEAN
      BY <2>1
    <3> QED
      BY <2>1, <3>1, <3>2 DEF ExecTypes
  <2>3. StartInv' /\ QueueInv'
    BY <2>1 DEF StartInv, QueueInv
  <2>4. SlotInv' /\ EndInv' /\ MovedInv' /\ AnswerInv'
    BY <2>1 DEF SlotInv, EndInv, MovedInv, AnswerInv
  <2> QED
    BY <2>2, <2>3, <2>4
<1>19. ASSUME FailOutstanding
       PROVE  ExecInv'
  <2>1. /\ ~alive /\ waiters' = {}
        /\ UNCHANGED <<slot, gate, starts, milestone, waits, breaks, reader, messages, queue, broken,
                       alive, moved, ending>>
    BY <1>19 DEF FailOutstanding
  <2>2. /\ replies' \subseteq Runs \X Endings
        /\ \A p \in replies' : p \in replies \/ (p[1] \in waiters /\ p[2] = "lost")
    <3>1. replies' = replies \cup {<<r, "lost">> : r \in waiters \cap Runs}
      BY <1>19 DEF FailOutstanding
    <3> QED
      BY <3>1 DEF ExecTypes, Endings, Failed
  <2>3. ExecTypes'
    BY <2>1, <2>2 DEF ExecTypes
  <2>4. StartInv'
    BY <2>1, <2>2 DEF StartInv
  <2>5. EndInv'
    BY <2>1, <2>2 DEF EndInv
  <2>6. SlotInv' /\ QueueInv' /\ MovedInv' /\ AnswerInv'
    BY <2>1 DEF SlotInv, QueueInv, MovedInv, AnswerInv
  <2> QED
    BY <2>3, <2>4, <2>5, <2>6
<1>20. ASSUME ReaderDone
       PROVE  ExecInv'
  <2> DEFINE m == Head(messages)
  <2>1. /\ messages # <<>> /\ m.type = "Done" /\ messages' = Tail(messages)
        /\ UNCHANGED <<slot, gate, starts, milestone, waits, breaks, reader, queue, broken, alive, moved,
                       ending>>
    BY <1>20 DEF ReaderDone
  <2>2. /\ replies' = IF m.id \in waiters \cap Runs THEN replies \cup {<<m.id, m.result>>} ELSE replies
        /\ waiters' \subseteq waiters
    BY <1>20 DEF ReaderDone
  <2>3. /\ messages' \in Seq(MessageType) /\ m \in MessageType /\ 1 \in DOMAIN messages /\ m = messages[1]
        /\ \A n \in DOMAIN messages' : n + 1 \in DOMAIN messages /\ messages'[n] = messages[n + 1]
    BY <2>1, Shortened DEF ExecTypes
  <2> HIDE DEF m
  <2>4. m.id \in Runs => m.result \in Endings /\ m.result = ending[m.id]
    BY <2>1, <2>3 DEF EndInv, MessageType
  <2>5. /\ replies' \subseteq Runs \X Endings
        /\ \A p \in replies' : \/ p \in replies
                               \/ p[1] \in waiters /\ p[2] = ending[p[1]]
    BY <2>2, <2>4 DEF ExecTypes
  <2>6. ExecTypes'
    BY <2>1, <2>2, <2>3, <2>5 DEF ExecTypes
  <2>7. StartInv'
    BY <2>1, <2>2, <2>5 DEF StartInv
  <2>8. EndInv'
    BY <2>1, <2>3, <2>5 DEF EndInv
  <2>9. MovedInv'
    BY <2>1, <2>3 DEF MovedInv
  <2>10. SlotInv' /\ QueueInv' /\ AnswerInv'
    BY <2>1 DEF SlotInv, QueueInv, AnswerInv
  <2> QED
    BY <2>6, <2>7, <2>8, <2>9, <2>10
<1>21. ASSUME ReaderResumed
       PROVE  ExecInv'
  <2> DEFINE m == Head(messages)
  <2>1. /\ messages # <<>> /\ m.type = "Resumed" /\ messages' = Tail(messages)
        /\ UNCHANGED <<slot, gate, waiters, replies, starts, milestone, waits, breaks, queue, broken,
                       alive, moved, ending>>
    BY <1>21 DEF ReaderResumed
  <2>2. reader' = [at |-> "moving", run |-> m.id, told |-> m.id \in waiters]
    BY <1>21 DEF ReaderResumed
  <2>3. /\ messages' \in Seq(MessageType) /\ 1 \in DOMAIN messages /\ m = messages[1]
        /\ \A n \in DOMAIN messages' : n + 1 \in DOMAIN messages /\ messages'[n] = messages[n + 1]
    BY <2>1, Shortened DEF ExecTypes
  <2> HIDE DEF m
  <2>4. m.id \in moved /\ m.id \in Runs
    BY <2>1, <2>3 DEF MovedInv, ExecTypes
  <2>5. reader' \in ReaderType /\ reader'.run = m.id
    BY <2>2, <2>4 DEF ReaderType, RunOrNone
  <2>6. ExecTypes'
    BY <2>1, <2>3, <2>5 DEF ExecTypes
  <2>7. EndInv'
    BY <2>1, <2>3 DEF EndInv
  <2>8. MovedInv'
    BY <2>1, <2>3, <2>4, <2>5 DEF MovedInv
  <2>9. SlotInv' /\ StartInv' /\ QueueInv' /\ AnswerInv'
    BY <2>1 DEF SlotInv, StartInv, QueueInv, AnswerInv
  <2> QED
    BY <2>6, <2>7, <2>8, <2>9
<1>22. ASSUME ReaderMilestone
       PROVE  ExecInv'
  <2>1. UNCHANGED <<gate, waiters, replies, breaks, messages, queue, broken, alive, moved, ending>>
    BY <1>22 DEF ReaderMilestone
  <2>2. reader.run \in moved /\ reader.run \in Runs
    BY <1>22 DEF ReaderMilestone, MovedInv, ExecTypes
  <2>3. /\ reader' \in ReaderType
        /\ reader'.at # "idle" => reader'.run = reader.run
    <3>1. reader \in ReaderType
      BY DEF ExecTypes
    <3>2. \/ reader' = [at |-> "idle", run |-> None, told |-> FALSE]
          \/ reader' = [reader EXCEPT !.at = "send"]
          \/ reader' = [reader EXCEPT !.at = "wake"]
      BY <1>22 DEF ReaderMilestone, Goes, Quiet
    <3>3. CASE reader' = [at |-> "idle", run |-> None, told |-> FALSE]
      BY <3>3 DEF ReaderType, RunOrNone
    <3>4. CASE \/ reader' = [reader EXCEPT !.at = "send"]
               \/ reader' = [reader EXCEPT !.at = "wake"]
      BY <3>1, <3>4 DEF ReaderType
    <3> QED
      BY <3>2, <3>3, <3>4
  <2>4. /\ slot' \in SlotType /\ slot'.run = slot.run /\ slot'.stopped = slot.stopped
    BY <1>22, ZenonT(30) DEF ReaderMilestone, Moving, Send, Wake, ExecTypes, SlotType
  <2>5. /\ milestone' \in [Runs -> BOOLEAN]
        /\ \A r \in Runs \ {reader.run} : milestone'[r] = milestone[r]
    <3>1. \/ milestone' = milestone
          \/ milestone' = [milestone EXCEPT ![reader.run] = @ \/ reader.told]
      BY <1>22 DEF ReaderMilestone, Moving, Send, Wake
    <3> QED
      BY <2>2, <3>1 DEF ExecTypes, ReaderType
  <2>6. /\ starts' \in [Runs -> StartType]
        /\ \A r \in Runs : /\ starts'[r].pc = starts[r].pc /\ starts'[r].told = starts[r].told
                           /\ starts'[r].answer = starts[r].answer
    <3>1. starts' = Woken(starts) \/ starts' = starts
      BY <1>22 DEF ReaderMilestone, Moving, Send, Wake
    <3> QED
      BY <3>1, WokenStarts DEF ExecTypes
  <2>7. /\ waits' \in [Waits -> WaitType]
        /\ \A w \in Waits : /\ waits'[w].pc = waits[w].pc /\ waits'[w].run = waits[w].run
                            /\ waits'[w].answer = waits[w].answer
    <3>1. waits' = Woken(waits) \/ waits' = waits
      BY <1>22 DEF ReaderMilestone, Moving, Send, Wake
    <3> QED
      BY <3>1, WokenWaits DEF ExecTypes
  <2>8. ExecTypes'
    BY <2>1, <2>3, <2>4, <2>5, <2>6, <2>7 DEF ExecTypes
  <2>9. SlotInv' /\ QueueInv' /\ EndInv'
    BY <2>1, <2>4 DEF SlotInv, QueueInv, EndInv
  <2>10. StartInv'
    BY <2>1, <2>4, <2>6 DEF StartInv
  <2>11. MovedInv'
    BY <2>1, <2>2, <2>3, <2>5, <2>6 DEF MovedInv
  <2>12. AnswerInv'
    BY <2>1, <2>7 DEF AnswerInv
  <2> QED
    BY <2>8, <2>9, <2>10, <2>11, <2>12
<1>23. ASSUME UNCHANGED execVars
       PROVE  ExecInv'
  <2>1. ExecTypes'
    BY <1>23 DEF execVars, ExecTypes
  <2>2. SlotInv' /\ StartInv' /\ QueueInv'
    BY <1>23 DEF execVars, SlotInv, StartInv, QueueInv
  <2>3. EndInv' /\ MovedInv' /\ AnswerInv'
    BY <1>23 DEF execVars, EndInv, MovedInv, AnswerInv
  <2> QED
    BY <2>1, <2>2, <2>3
<1> QED
  BY <1>1, <1>2, <1>3, <1>4, <1>5, <1>6, <1>7, <1>8, <1>9, <1>10, <1>11, <1>12, <1>13, <1>14, <1>15,
     <1>16, <1>17, <1>18, <1>19, <1>20, <1>21, <1>22, <1>23 DEF ExecNext, Start, Wait, Server

(* A session starts with no run, an empty queue and nobody told anything.   *)
LEMMA ExecStart == ExecInit => ExecInv
<1> SUFFICES ASSUME ExecInit
             PROVE  ExecInv
  OBVIOUS
<1>1. ExecTypes
  <2>1. slot \in SlotType /\ reader \in ReaderType /\ alive \in BOOLEAN
    BY DEF ExecInit, NoSlot, Quiet, SlotType, ReaderType, RunOrNone
  <2>2. starts \in [Runs -> StartType] /\ waits \in [Waits -> WaitType] /\ breaks \in [Breaks -> BreakType]
    BY DEF ExecInit, StartType, WaitType, BreakType, RunOrNone
  <2>3. /\ waiters \subseteq Runs \cup Calls /\ replies \subseteq Runs \X Endings
        /\ messages \in Seq(MessageType) /\ queue \in Seq(Runs \cup Calls)
        /\ broken \subseteq Runs /\ moved \subseteq Runs
        /\ milestone \in [Runs -> BOOLEAN] /\ ending \in [Runs -> Endings \cup {None}]
    BY DEF ExecInit
  <2> QED
    BY <2>1, <2>2, <2>3 DEF ExecTypes
<1>2. SlotInv /\ StartInv /\ QueueInv /\ EndInv
  BY DEF ExecInit, NoSlot, SlotInv, StartInv, QueueInv, EndInv, Unsubmitted
<1>3. MovedInv /\ AnswerInv
  BY NoneIsNothing DEF ExecInit, Quiet, MovedInv, AnswerInv
<1> QED
  BY <1>1, <1>2, <1>3 DEF ExecInv

(* Whatever start_execution, wait_for_stop and break_in answer is true of   *)
(* the run the caller's handle names, for any number of calls and whatever  *)
(* run has taken the slot since; and no run is broken in that no break_in   *)
(* named.                                                                   *)
THEOREM TheAnswersAreTrue == ExecSpec => []AnswersAreTrue
<1>1. ExecInv => AnswersAreTrue
  <2> SUFFICES ASSUME ExecInv
               PROVE  AnswersAreTrue
    OBVIOUS
  <2>1. \A r \in Runs : starts[r].answer = "moved" => r \in moved
    BY DEF ExecInv, MovedInv
  <2> QED
    BY <2>1 DEF ExecInv, AnswerInv, AnswersAreTrue
<1> QED
  BY <1>1, ExecStart, ExecStep, PTL DEF ExecSpec

(* refuse_while_running and the enqueue are one critical section of the     *)
(* gate, so no ordinary call is ever queued behind a run, where it would    *)
(* wait for a stop that may never come.                                     *)
THEOREM CallsGoAheadOfRuns == ExecSpec => []NoCallBehindARun
<1>1. ExecInv => NoCallBehindARun
  <2> SUFFICES ASSUME ExecInv, NEW i \in DOMAIN queue, NEW j \in DOMAIN queue, i < j,
                      queue[i] \in Runs
               PROVE  FALSE
    BY DEF NoCallBehindARun
  <2>1. i = Len(queue)
    BY DEF ExecInv, QueueInv
  <2>2. DOMAIN queue = 1 .. Len(queue) /\ Len(queue) \in Nat
    BY DEF ExecInv, ExecTypes
  <2> QED
    BY <2>1, <2>2
<1> QED
  BY <1>1, ExecStart, ExecStep, PTL DEF ExecSpec
=============================================================================
