-------------------------- MODULE KernelSessionProofs --------------------------
(* What is proved of a remote-kernel session for every number of commands   *)
(* and end_session calls and whatever happens from outside, when the opener *)
(* is the first job the session is given (Early is empty).                  *)
EXTENDS KernelSession, TLAPS

-----------------------------------------------------------------------------
(* What the queues and pipes hold, and in which order.                      *)

Elems(q) == {q[n] : n \in DOMAIN q}

(* No job is in it twice; the opener is ahead of every other job, an end    *)
(* behind every other job, and the takeover t behind every other change.    *)
Once(q) == \A m, n \in DOMAIN q : q[m] \in Jobs /\ q[m] = q[n] => m = n
OpenerFirst(q) == \A m, n \in DOMAIN q : q[n] = Attach /\ m < n => q[m] \notin Jobs
EndLast(q) == \A m, n \in DOMAIN q : q[m] \in Ends /\ m < n => q[n] \notin Jobs
LatestLast(q, t) == \A m, n \in DOMAIN q : q[m] = t /\ m < n => q[n] \notin Changes

Results == {"ok", "err", "recovery"}
Milestones == {"Committed", "Opened", "TargetReplaced"}
IsDone(m, j) == \E r \in Results : m = Done(j, r)
MessageType ==
    [kind : {"Done"}, job : Jobs, result : Results] \cup [kind : Milestones, job : Jobs]

(* A job is answered once, and the opener only after its commit was told.   *)
AnsweredOnce(q) ==
    \A m, n \in DOMAIN q : \A j \in Jobs : IsDone(q[m], j) /\ IsDone(q[n], j) => m = n
Heralded(q) ==
    \A n \in DOMAIN q : IsDone(q[n], Attach) =>
        \E m \in DOMAIN q : m < n /\ q[m] = Milestone("Committed", Attach)

-----------------------------------------------------------------------------
(* What is added to a queue goes to its end.                                *)
LEMMA Appended ==
    ASSUME NEW S, NEW q \in Seq(S), NEW x \in S
    PROVE  /\ Append(q, x) \in Seq(S) /\ Append(q, x) # <<>>
           /\ Elems(Append(q, x)) = Elems(q) \cup {x}
           /\ Once(q) /\ (x \in Jobs => x \notin Elems(q)) => Once(Append(q, x))
           /\ OpenerFirst(q) /\ (x = Attach => Elems(q) \cap Jobs = {}) => OpenerFirst(Append(q, x))
           /\ EndLast(q) /\ (x \in Jobs => Elems(q) \cap Ends = {}) => EndLast(Append(q, x))
           /\ \A t : LatestLast(q, t) /\ (x \in Changes => t \notin Elems(q))
                        => LatestLast(Append(q, x), t)
<1>1. /\ Append(q, x) \in Seq(S) /\ Len(Append(q, x)) = Len(q) + 1 /\ Len(q) \in Nat
      /\ \A n \in 1 .. Len(q) : Append(q, x)[n] = q[n]
      /\ Append(q, x)[Len(q) + 1] = x
  OBVIOUS
<1>2. DOMAIN q = 1 .. Len(q) /\ DOMAIN Append(q, x) = 1 .. Len(q) + 1
  BY <1>1
<1> DEFINE p == Append(q, x)
<1>3. \A n \in DOMAIN p : \/ n \in DOMAIN q /\ p[n] = q[n] /\ n < Len(q) + 1
                          \/ n = Len(q) + 1 /\ p[n] = x
  BY <1>1, <1>2
<1>4. /\ \A n \in DOMAIN q : n \in DOMAIN p /\ p[n] = q[n] /\ n < Len(q) + 1
      /\ Len(q) + 1 \in DOMAIN p /\ p[Len(q) + 1] = x
      /\ DOMAIN p \subseteq Nat /\ Len(q) + 1 \in Nat
  BY <1>1, <1>2
<1> HIDE DEF p
<1>5. Elems(p) = Elems(q) \cup {x}
  BY <1>3, <1>4 DEF Elems
<1>6. Once(q) /\ (x \in Jobs => x \notin Elems(q)) => Once(p)
  BY <1>3, <1>4 DEF Once, Elems
<1>7. OpenerFirst(q) /\ (x = Attach => Elems(q) \cap Jobs = {}) => OpenerFirst(p)
  BY <1>3, <1>4 DEF OpenerFirst, Elems
<1>8. EndLast(q) /\ (x \in Jobs => Elems(q) \cap Ends = {}) => EndLast(p)
  BY <1>3, <1>4 DEF EndLast, Elems
<1>9. \A t : LatestLast(q, t) /\ (x \in Changes => t \notin Elems(q)) => LatestLast(p, t)
  BY <1>3, <1>4 DEF LatestLast, Elems
<1>10. p # <<>>
  BY <1>4
<1> QED
  BY <1>1, <1>5, <1>6, <1>7, <1>8, <1>9, <1>10 DEF p

(* What is taken from a queue is its first element.                         *)
LEMMA Shortened ==
    ASSUME NEW S, NEW q \in Seq(S), q # <<>>
    PROVE  /\ Tail(q) \in Seq(S) /\ Head(q) \in S
           /\ Elems(q) = Elems(Tail(q)) \cup {Head(q)}
           /\ Once(q) => Once(Tail(q)) /\ (Head(q) \in Jobs => Head(q) \notin Elems(Tail(q)))
           /\ OpenerFirst(q) =>
                OpenerFirst(Tail(q)) /\ (Head(q) \in Jobs => Attach \notin Elems(Tail(q)))
           /\ EndLast(q) =>
                EndLast(Tail(q)) /\ (Head(q) \in Ends => Elems(Tail(q)) \cap Jobs = {})
           /\ \A t : LatestLast(q, t) =>
                LatestLast(Tail(q), t) /\ (Head(q) = t => Elems(Tail(q)) \cap Changes = {})
<1> DEFINE p == Tail(q)
<1>1. /\ p \in Seq(S) /\ Head(q) \in S /\ 1 \in DOMAIN q /\ Head(q) = q[1]
      /\ DOMAIN q \subseteq Nat
      /\ \A n \in DOMAIN p : n \in Nat \ {0} /\ n + 1 \in DOMAIN q /\ p[n] = q[n + 1]
  OBVIOUS
<1>2. \A n \in DOMAIN q : n # 1 => n - 1 \in DOMAIN p /\ n = (n - 1) + 1
  OBVIOUS
<1>3. \A n \in DOMAIN p : 1 < n + 1 /\ 1 # n + 1
  BY <1>1
<1>4. \A m, n \in DOMAIN p : (m < n <=> m + 1 < n + 1) /\ (m = n <=> m + 1 = n + 1)
  BY <1>1
<1> HIDE DEF p
<1>5. Elems(q) = Elems(p) \cup {Head(q)}
  <2>1. \A n \in DOMAIN q : q[n] = Head(q) \/ (n - 1 \in DOMAIN p /\ q[n] = p[n - 1])
    BY <1>1, <1>2
  <2> QED
    BY <1>1, <2>1 DEF Elems
<1>6. Once(q) => Once(p) /\ (Head(q) \in Jobs => Head(q) \notin Elems(p))
  BY <1>1, <1>3, <1>4 DEF Once, Elems
<1>7. OpenerFirst(q) => OpenerFirst(p) /\ (Head(q) \in Jobs => Attach \notin Elems(p))
  <2>1. OpenerFirst(q) => OpenerFirst(p)
    BY <1>1, <1>4 DEF OpenerFirst
  <2>2. OpenerFirst(q) /\ Head(q) \in Jobs => Attach \notin Elems(p)
    BY <1>1, <1>3 DEF OpenerFirst, Elems
  <2> QED
    BY <2>1, <2>2
<1>8. EndLast(q) => EndLast(p) /\ (Head(q) \in Ends => Elems(p) \cap Jobs = {})
  BY <1>1, <1>3, <1>4 DEF EndLast, Elems
<1>9. \A t : LatestLast(q, t) => LatestLast(p, t) /\ (Head(q) = t => Elems(p) \cap Changes = {})
  BY <1>1, <1>3, <1>4 DEF LatestLast, Elems
<1> QED
  BY <1>1, <1>5, <1>6, <1>7, <1>8, <1>9 DEF p

(* An empty queue is in order.                                              *)
LEMMA Empty ==
    /\ Elems(<<>>) = {} /\ Once(<<>>) /\ OpenerFirst(<<>>) /\ EndLast(<<>>)
    /\ \A t : LatestLast(<<>>, t)
    /\ AnsweredOnce(<<>>) /\ Heralded(<<>>)
BY DEF Elems, Once, OpenerFirst, EndLast, LatestLast, AnsweredOnce, Heralded

(* What is not in a queue comes after everything in it.                     *)
LEMMA NotInIt == \A q, t : t \notin Elems(q) => LatestLast(q, t)
BY DEF Elems, LatestLast

(* Messages tell what they are about.                                       *)
LEMMA Forms ==
    /\ \A j \in Jobs, r \in Results :
         /\ Done(j, r) \in MessageType /\ Done(j, r).kind = "Done"
         /\ Done(j, r).job = j /\ Done(j, r).result = r
    /\ \A k \in Milestones, j \in Jobs :
         Milestone(k, j) \in MessageType /\ Milestone(k, j).kind = k /\ Milestone(k, j).job = j
    /\ \A m \in MessageType :
         \/ m.kind = "Done" /\ m.job \in Jobs /\ m.result \in Results /\ m = Done(m.job, m.result)
         \/ m.kind \in Milestones /\ m.job \in Jobs /\ m = Milestone(m.kind, m.job)
BY DEF Done, Milestone, MessageType, Results, Milestones

(* A message goes to the end of those on their way.                         *)
LEMMA Spoken ==
    ASSUME NEW q \in Seq(MessageType), NEW x \in MessageType
    PROVE  /\ AnsweredOnce(q) /\ (\A j \in Jobs : IsDone(x, j) => \A m \in Elems(q) : ~IsDone(m, j))
                => AnsweredOnce(Append(q, x))
           /\ Heralded(q) /\ (IsDone(x, Attach) => Milestone("Committed", Attach) \in Elems(q))
                => Heralded(Append(q, x))
<1>1. /\ Append(q, x) \in Seq(MessageType) /\ Len(Append(q, x)) = Len(q) + 1 /\ Len(q) \in Nat
      /\ \A n \in 1 .. Len(q) : Append(q, x)[n] = q[n]
      /\ Append(q, x)[Len(q) + 1] = x
  OBVIOUS
<1>2. DOMAIN q = 1 .. Len(q) /\ DOMAIN Append(q, x) = 1 .. Len(q) + 1
  BY <1>1
<1> DEFINE p == Append(q, x)
<1>3. \A n \in DOMAIN p : \/ n \in DOMAIN q /\ p[n] = q[n] /\ n < Len(q) + 1
                          \/ n = Len(q) + 1 /\ p[n] = x
  BY <1>1, <1>2
<1>4. /\ \A n \in DOMAIN q : n \in DOMAIN p /\ p[n] = q[n] /\ n < Len(q) + 1
      /\ DOMAIN p \subseteq Nat /\ Len(q) + 1 \in Nat
  BY <1>1, <1>2
<1> HIDE DEF p
<1>5. AnsweredOnce(q) /\ (\A j \in Jobs : IsDone(x, j) => \A m \in Elems(q) : ~IsDone(m, j))
        => AnsweredOnce(p)
  BY <1>3, <1>4 DEF AnsweredOnce, Elems
<1>6. Heralded(q) /\ (IsDone(x, Attach) => Milestone("Committed", Attach) \in Elems(q))
        => Heralded(p)
  BY <1>3, <1>4 DEF Heralded, Elems
<1> QED
  BY <1>5, <1>6 DEF p

(* The first message is heard.                                              *)
LEMMA Heard ==
    ASSUME NEW q \in Seq(MessageType), q # <<>>
    PROVE  /\ AnsweredOnce(q) => /\ AnsweredOnce(Tail(q))
                                 /\ \A j \in Jobs : IsDone(Head(q), j) =>
                                      \A m \in Elems(Tail(q)) : ~IsDone(m, j)
           /\ Heralded(q) => /\ ~IsDone(Head(q), Attach)
                             /\ Head(q) # Milestone("Committed", Attach) => Heralded(Tail(q))
<1> DEFINE p == Tail(q)
<1>1. /\ p \in Seq(MessageType) /\ 1 \in DOMAIN q /\ Head(q) = q[1]
      /\ DOMAIN q \subseteq Nat
      /\ \A n \in DOMAIN p : n \in Nat \ {0} /\ n + 1 \in DOMAIN q /\ p[n] = q[n + 1]
  OBVIOUS
<1>2. \A n \in DOMAIN q : n # 1 => n - 1 \in DOMAIN p /\ q[n] = p[n - 1]
  BY <1>1
<1>3. \A n \in DOMAIN p : 1 < n + 1 /\ 1 # n + 1
  BY <1>1
<1>4. \A m, n \in DOMAIN p : (m < n <=> m + 1 < n + 1) /\ (m = n <=> m + 1 = n + 1)
  BY <1>1
<1>5. \A n \in DOMAIN q : ~(n < 1)
  OBVIOUS
<1>6. \A n \in DOMAIN q, k \in DOMAIN p : n # 1 /\ n < k + 1 => n - 1 < k
  BY <1>1
<1> HIDE DEF p
<1>7. AnsweredOnce(q) => /\ AnsweredOnce(p)
                         /\ \A j \in Jobs : IsDone(Head(q), j) => \A m \in Elems(p) : ~IsDone(m, j)
  BY <1>1, <1>3, <1>4 DEF AnsweredOnce, Elems
<1>8. Heralded(q) => ~IsDone(Head(q), Attach)
  BY <1>1, <1>5 DEF Heralded
<1>9. ASSUME Heralded(q), Head(q) # Milestone("Committed", Attach)
      PROVE  Heralded(p)
  <2>1. SUFFICES ASSUME NEW k \in DOMAIN p, IsDone(p[k], Attach)
                 PROVE  \E m \in DOMAIN p : m < k /\ p[m] = Milestone("Committed", Attach)
    BY DEF Heralded
  <2>2. PICK n \in DOMAIN q : n < k + 1 /\ q[n] = Milestone("Committed", Attach)
    BY <1>1, <1>9, <2>1 DEF Heralded
  <2>3. n # 1
    BY <1>1, <1>9, <2>2
  <2> QED
    BY <1>2, <1>6, <2>2, <2>3
<1> QED
  BY <1>7, <1>8, <1>9 DEF p

-----------------------------------------------------------------------------
(* The inductive invariant.                                                 *)

States == {"Opening", "Attaching", "Open", "Retired", "KernelUnresolved", "Failed", "Closed"}

KernelTypes ==
    /\ input \in {"open", "closed"}
    /\ requests \in Seq(Jobs \cup {Preserve})
    /\ reader \in [at : {"reading", "preserving", "refusing", "retaining", "releasing"},
                   job : Jobs \cup {None}]
    /\ safety \subseteq {"remote", "pending", "committed", "preserved"}
    /\ todo \in Seq(Jobs \cup {Release})
    /\ engine \in [at : {"idle", "running", "committed", "opened", "returned"},
                   job : Jobs \cup {None}, result : Results \cup {None}]
    /\ holds \in {"none", "kernel", "other"}
    /\ ack \in {"none", "yes", "no"}
    /\ process \in {"up", "exited", "killed", "handedOff", "crashed"}
    /\ messages \in Seq(MessageType)
    /\ state \in States
    /\ phase \in {"Started", "Committed", "Opened"}
    /\ released \in BOOLEAN /\ handoff \in BOOLEAN /\ withheld \in BOOLEAN
    /\ takeover \in Changes \cup {None}
    /\ child \in {"held", "taken", "verified", "none"}
    /\ queue \in Seq(Jobs \cup {Preserve})
    /\ pump \in [at : {"taking", "writing", "stopped"}, job : Jobs \cup {Preserve, None}]
    /\ waiters \subseteq Jobs
    /\ call \in [Jobs -> {"idle", "waiting", "expiring", "answered", "settled"}]
    /\ reply \in [Jobs -> Results \cup {"lost", "stale", "timeout", None}]

(* Where a thread is says which job it has, and that its peer is gone.      *)
PlaceInv ==
    /\ pump.at # "writing" <=> pump.job = None
    /\ pump.at = "stopped" => process # "up"
    /\ reader.at = "refusing" <=> reader.job # None
    /\ reader.job # Attach
    /\ engine.at = "idle" => engine = Idle
    /\ engine.at # "idle" => engine.job # None
    /\ engine.at \in {"committed", "opened"} => engine.job = Attach
    /\ engine.at = "returned" => engine.result \in Results
    /\ engine.at = "returned" /\ engine.result = "recovery" => engine.job = Attach
    /\ reader.at \in {"retaining", "releasing"} => input = "closed"
    /\ Release \in Elems(todo) => reader.at \in {"retaining", "releasing"}

(* A job is in one place at a time, and moves from each to the next.        *)
Answered(j) == \E m \in Elems(messages) : IsDone(m, j)
PastTodo(j) == engine.job = j \/ Answered(j)
PastReader(j) == j \in Elems(todo) \/ PastTodo(j)
PastRequests(j) == reader.job = j \/ PastReader(j)
PastPump(j) == j \in Elems(requests) \/ PastRequests(j)
PastQueue(j) == pump.job = j \/ PastPump(j)

OnePlace ==
    /\ Once(queue) /\ Once(requests) /\ Once(todo) /\ AnsweredOnce(messages)
    /\ \A j \in Jobs :
        /\ call[j] = "idle" => j \notin Elems(queue) /\ ~PastQueue(j)
        /\ j \in Elems(queue) => ~PastQueue(j)
        /\ pump.job = j => ~PastPump(j)
        /\ j \in Elems(requests) => ~PastRequests(j)
        /\ reader.job = j => ~PastReader(j)
        /\ j \in Elems(todo) => ~PastTodo(j)
        /\ engine.job = j => ~Answered(j)

(* The opener is ahead of every other job, and until the worker reads it    *)
(* the worker has done nothing.                                             *)
Unread ==
    \/ call[Attach] = "idle" \/ Attach \in Elems(queue) \/ pump.job = Attach
    \/ Attach \in Elems(requests)
OpenerInv ==
    /\ OpenerFirst(queue) /\ OpenerFirst(requests) /\ OpenerFirst(todo)
    /\ call[Attach] = "idle" => \A j \in Jobs : call[j] = "idle" \/ call[j] = "settled"
    /\ call[Attach] = "idle" => Elems(queue) \cap Jobs = {}
    /\ call[Attach] = "idle" \/ Attach \in Elems(queue) => pump.job \notin Jobs
    /\ call[Attach] = "idle" \/ Attach \in Elems(queue) \/ pump.job = Attach
         => Elems(requests) \cap Jobs = {} /\ takeover = None
    /\ Unread => /\ safety = {} /\ holds = "none" /\ messages = <<>> /\ engine = Idle
                 /\ Elems(todo) \cap Jobs = {} /\ reader.at \notin {"refusing", "preserving"}
                 /\ phase = "Started"
    /\ Attach \in Elems(todo) => engine = Idle /\ holds = "none" /\ "committed" \notin safety

(* While the opener may still claim the kernel the worker holds requests    *)
(* back, and it knows of a kernel for as long as it holds one.              *)
Attaching == engine.job = Attach /\ engine.at \in {"running", "committed", "opened"}
MayClaim == Unread \/ Attach \in Elems(todo) \/ Attaching
SafetyInv ==
    /\ Attach \in Elems(todo) \/ Attaching => "remote" \in safety /\ "pending" \in safety
    /\ Attaching /\ engine.at # "running" => "committed" \in safety
    /\ Attaching /\ engine.at = "running" => "committed" \notin safety /\ holds # "kernel"
    /\ holds = "kernel" => "remote" \in safety
    /\ "committed" \notin safety /\ "remote" \in safety
         => "pending" \in safety \/ "preserved" \in safety
    /\ ack = "yes" => "remote" \notin safety /\ reader.at \in {"releasing", "retaining"}
    /\ process = "exited" => holds # "kernel"

(* The kernel is not held and will not be.                                  *)
NoKernel == holds # "kernel" /\ (process = "up" => ~MayClaim)

(* The worker holds nothing and has nothing left to run.                    *)
Quiet ==
    /\ holds = "none" /\ ~MayClaim
    /\ pump.job \notin Jobs /\ Elems(requests) \cap Jobs = {} /\ Elems(todo) \cap Jobs = {}
    /\ engine.at \in {"idle", "returned"}
LetGo == NoKernel /\ (process = "up" => Quiet)

(* The commit is told before the opener is answered.                        *)
MilestoneInv ==
    /\ input = "open" /\ "committed" \in safety /\ phase = "Started" =>
         Heralded(messages) /\ Milestone("Committed", Attach) \in Elems(messages)
    /\ Milestone("Committed", Attach) \in Elems(messages)
         \/ Milestone("Opened", Attach) \in Elems(messages) => "committed" \in safety
    /\ \A j \in Changes \cup Ends : Milestone("Committed", j) \notin Elems(messages)
                                      /\ Milestone("Opened", j) \notin Elems(messages)
    /\ phase # "Started" => "committed" \in safety

(* What a failure of the opener proves.                                     *)
Refused == "committed" \notin safety /\ "remote" \notin safety /\ ~MayClaim
Gone == process # "up" /\ holds # "kernel"
AnswerInv ==
    /\ engine.at = "returned" /\ engine.job = Attach /\ engine.result = "err"
         /\ "committed" \notin safety => Refused
    /\ Done(Attach, "err") \in Elems(messages) /\ "committed" \notin safety => Refused
    /\ reply[Attach] = "err" /\ phase = "Started" => Refused
    /\ reply[Attach] = "stale" => ~Live(state)
    /\ reply[Attach] = "lost" => ~Live(state) \/ state = "KernelUnresolved" \/ Gone
    /\ withheld => ~Live(state) \/ Refused \/ Gone

(* A session is over when it was let go or handed over.                     *)
SettledInv ==
    /\ Live(state) <=> ~(released \/ handoff)
    /\ released /\ ~handoff => LetGo
    /\ handoff \/ child = "verified" => process # "up"
    /\ process = "killed" => holds = "none"

(* An end is the last job there is, and its success lets the kernel go.     *)
EndInv ==
    /\ EndLast(requests) /\ EndLast(todo)
    /\ \A j \in Ends :
        /\ j \in Elems(queue) => phase = "Opened" \/ released
        /\ PastQueue(j) => phase = "Opened" /\ (state = "KernelUnresolved" \/ ~Live(state))
        /\ j \in Elems(requests) => pump.job \notin Jobs
        /\ j \in Elems(todo) => pump.job \notin Jobs /\ Elems(requests) \cap Jobs = {}
        /\ engine.job = j => /\ pump.job \notin Jobs /\ Elems(requests) \cap Jobs = {}
                             /\ Elems(todo) \cap Jobs = {}
        /\ engine.job = j /\ engine.at = "returned" /\ engine.result = "ok" => LetGo
        /\ Done(j, "ok") \in Elems(messages) => LetGo
        /\ reply[j] = "ok" => LetGo /\ (state = "KernelUnresolved" \/ ~Live(state))

(* A release the worker carried out is on its way to whoever settles it.    *)
ConfirmInv ==
    /\ input = "open" /\ "committed" \in safety /\ "remote" \notin safety /\ Live(state) =>
         \/ engine.at = "returned" /\ engine.job \in Ends /\ engine.result = "ok"
         \/ \E j \in Ends \cap waiters : Done(j, "ok") \in Elems(messages)
    /\ input = "open" /\ process = "up" /\ Live(state) =>
         \A j \in Ends : \/ j \in Elems(queue) \/ pump.job = j \/ j \in Elems(requests)
                         \/ j \in Elems(todo) \/ engine.job = j
                         => j \in waiters

(* Until the kernel is claimed: the takeover on record is the latest, so if *)
(* it was refused no other change is left, and no change ran before it.     *)
Loose ==
    \/ engine.job \in Changes \/ holds = "other"
    \/ Elems(todo) \cap Changes # {} /\ "preserved" \notin safety
LatestInv ==
    /\ LatestLast(requests, takeover) /\ LatestLast(todo, takeover)
    /\ takeover = None \/ PastPump(takeover) => pump.job \notin Changes
    /\ takeover = None \/ PastRequests(takeover) => Elems(requests) \cap Changes = {}
    /\ takeover = None \/ PastReader(takeover) => reader.job \notin Changes
    /\ takeover = None \/ PastTodo(takeover) => Elems(todo) \cap Changes = {}
    /\ takeover = None \/ Answered(takeover) => engine.job \notin Changes
    /\ reader.job \in Changes => Elems(todo) \cap Changes = {} /\ engine.job \notin Changes
    /\ Elems(todo) \cap Changes # {} \/ Loose => "remote" \notin safety
    /\ Loose => /\ "preserved" \notin safety /\ reader.at # "preserving"
                /\ takeover # None /\ takeover # reader.job
                /\ Done(takeover, "recovery") \notin Elems(messages)
TakeoverInv ==
    /\ pump.job \in Changes => takeover = pump.job
    /\ "committed" \notin safety => LatestInv

KInv ==
    /\ KernelTypes /\ PlaceInv /\ OnePlace /\ OpenerInv /\ SafetyInv /\ MilestoneInv
    /\ AnswerInv /\ SettledInv /\ EndInv /\ ConfirmInv /\ TakeoverInv

-----------------------------------------------------------------------------
(* What the steps change, in words the proofs share.                        *)

(* p is what is left of the queue q without its head.                       *)
Shorter(q, p) ==
    /\ Elems(q) = Elems(p) \cup {Head(q)}
    /\ Once(p) /\ (Head(q) \in Jobs => Head(q) \notin Elems(p))
    /\ OpenerFirst(p) /\ (Head(q) \in Jobs => Attach \notin Elems(p))
    /\ EndLast(q) => EndLast(p) /\ (Head(q) \in Ends => Elems(p) \cap Jobs = {})
    /\ \A t : LatestLast(q, t) =>
         LatestLast(p, t) /\ (Head(q) = t => Elems(p) \cap Changes = {})

(* The queue to the pump is the same but for PreserveKernel.                *)
SameQueue ==
    /\ queue' \in Seq(Jobs \cup {Preserve}) /\ Once(queue') /\ OpenerFirst(queue')
    /\ \A j \in Jobs : j \in Elems(queue') <=> j \in Elems(queue)
    /\ Elems(queue') \cap Jobs = Elems(queue) \cap Jobs

(* The worker said that job j is done with result r, or the milestone n.    *)
DoneSaid(j, r) ==
    /\ messages' \in Seq(MessageType) /\ AnsweredOnce(messages')
    /\ Heralded(messages) /\ (j = Attach => Milestone("Committed", Attach) \in Elems(messages))
         => Heralded(messages')
    /\ \A k \in Jobs : Answered(k)' => Answered(k) \/ k = j
    /\ \A k \in Jobs : Answered(k) => Answered(k)'
    /\ \A k \in Jobs, s \in Results :
         Done(k, s) \in Elems(messages') => Done(k, s) \in Elems(messages) \/ (k = j /\ s = r)
    /\ \A k \in Jobs, s \in Results :
         Done(k, s) \in Elems(messages) => Done(k, s) \in Elems(messages')
    /\ \A k \in Jobs, n \in Milestones :
         Milestone(n, k) \in Elems(messages') <=> Milestone(n, k) \in Elems(messages)
    /\ input = "open" => Done(j, r) \in Elems(messages')
    /\ input # "open" => messages' = messages
MilestoneSaid(n, j) ==
    /\ messages' \in Seq(MessageType) /\ AnsweredOnce(messages')
    /\ Heralded(messages) => Heralded(messages')
    /\ \A k \in Jobs : Answered(k)' <=> Answered(k)
    /\ \A k \in Jobs, s \in Results :
         Done(k, s) \in Elems(messages') <=> Done(k, s) \in Elems(messages)
    /\ \A k \in Jobs, m \in Milestones : Milestone(m, k) \in Elems(messages')
         => Milestone(m, k) \in Elems(messages) \/ (m = n /\ k = j)
    /\ \A k \in Jobs, m \in Milestones :
         Milestone(m, k) \in Elems(messages) => Milestone(m, k) \in Elems(messages')
    /\ input = "open" => Milestone(n, j) \in Elems(messages')
    /\ input # "open" => messages' = messages

(* The supervisor heard the first message, and it was an answer.            *)
FirstHeard ==
    /\ messages' \in Seq(MessageType) /\ AnsweredOnce(messages')
    /\ Head(messages) \in MessageType
    /\ Elems(messages) = Elems(messages') \cup {Head(messages)}
    /\ \A j \in Jobs : Answered(j)' => Answered(j)
    /\ \A j \in Jobs : IsDone(Head(messages), j) => Answered(j) /\ ~Answered(j)'
    /\ \A j \in Jobs : ~IsDone(Head(messages), j) => (Answered(j)' <=> Answered(j))
    /\ Heralded(messages) =>
         /\ ~IsDone(Head(messages), Attach)
         /\ Head(messages) # Milestone("Committed", Attach) => Heralded(messages')
DoneHeard ==
    /\ Head(messages).job \in Jobs /\ Head(messages).result \in Results
    /\ Head(messages) = Done(Head(messages).job, Head(messages).result) /\ ~Unread
    /\ \A j \in Jobs : IsDone(Head(messages), j) <=> j = Head(messages).job
    /\ \A j \in Jobs, n \in Milestones : Head(messages) # Milestone(n, j)
    /\ \A j \in Jobs, n \in Milestones :
         Milestone(n, j) \in Elems(messages) => Milestone(n, j) \in Elems(messages')
    /\ \A j \in Jobs : j = Head(messages).job => Answered(j) /\ ~Answered(j)'

(* The reply r went to whoever waits for j; every waiting call was failed.  *)
AnswerSent(j, r) ==
    /\ waiters' = waiters \ {j} /\ waiters' \subseteq Jobs
    /\ call' \in [Jobs -> {"idle", "waiting", "expiring", "answered", "settled"}]
    /\ reply' \in [Jobs -> Results \cup {"lost", "stale", "timeout", None}]
    /\ \A k \in Jobs : k # j => call'[k] = call[k] /\ reply'[k] = reply[k]
    /\ call'[j] = call[j] \/ (call[j] = "waiting" /\ call'[j] = "answered")
    /\ reply'[j] = reply[j] \/ reply'[j] = r
    /\ j \notin waiters => call' = call /\ reply' = reply
CallsEnded ==
    /\ waiters' = {}
    /\ call' \in [Jobs -> {"idle", "waiting", "expiring", "answered", "settled"}]
    /\ reply' \in [Jobs -> Results \cup {"lost", "stale", "timeout", None}]
    /\ \A k \in Jobs : call'[k] = call[k] \/ (call[k] = "waiting" /\ call'[k] = "answered")
    /\ \A k \in Jobs : reply'[k] = reply[k] \/ reply'[k] = "lost"

(* What was proved of the kernel stays proved.                              *)
Carried ==
    /\ MayClaim' => MayClaim
    /\ Refused => Refused'
    /\ Gone => Gone'
    /\ LetGo => LetGo'

(* A settlement releases only what was let go, and kills only then.         *)
Settles ==
    /\ withheld' \in BOOLEAN /\ (withheld' => withheld \/ ~Live(state) \/ Refused \/ Gone)
    /\ released' \in BOOLEAN /\ (released => released')
    /\ released' => released \/ ~Live(state) \/ LetGo
    /\ released' /\ ~released => ~Live(state')
    /\ state' \in States /\ (~Live(state') => ~Live(state) \/ released')
    /\ state = "KernelUnresolved" => state' = state \/ ~Live(state')
    /\ ~Live(state) => ~Live(state')
    /\ child' \in {"held", "taken", "verified", "none"}
    /\ child' = "verified" <=> child = "verified"
    /\ process' \in {"up", "exited", "killed", "handedOff", "crashed"}
    /\ process' = process
         \/ (process = "up" /\ process' = "killed" /\ holds = "none" /\ ~Live(state'))

(* What the jobs are.                                                       *)
LEMMA JobKinds ==
    /\ Attach \in Jobs /\ Changes \subseteq Jobs /\ Ends \subseteq Jobs
    /\ \A j \in Jobs : j = Attach \/ j \in Changes \/ j \in Ends
    /\ Attach \notin Changes /\ Attach \notin Ends /\ Changes \cap Ends = {}
    /\ None \notin Jobs /\ Preserve \notin Jobs /\ Release \notin Jobs
    /\ None \notin Changes /\ None \notin Ends /\ None # Attach
    /\ Preserve # Release /\ Preserve # None /\ Release # None
BY KernelJobs DEF Jobs

(* The fields of the records, one by one.                                   *)
LEMMA FieldTypes ==
    ASSUME KernelTypes
    PROVE  /\ reader.at \in {"reading", "preserving", "refusing", "retaining", "releasing"}
           /\ reader.job \in Jobs \cup {None}
           /\ engine.at \in {"idle", "running", "committed", "opened", "returned"}
           /\ engine.job \in Jobs \cup {None} /\ engine.result \in Results \cup {None}
           /\ pump.at \in {"taking", "writing", "stopped"}
           /\ pump.job \in Jobs \cup {Preserve, None}
BY DEF KernelTypes

(* What is further along is past every earlier place.                       *)
LEMMA Further ==
    /\ \A t : Answered(t) => PastTodo(t)
    /\ \A t : PastTodo(t) => PastReader(t)
    /\ \A t : PastReader(t) => PastRequests(t)
    /\ \A t : PastRequests(t) => PastPump(t)
    /\ \A t : PastPump(t) => PastQueue(t)
BY DEF PastQueue, PastPump, PastRequests, PastReader, PastTodo

(* What an answer adds to the messages on their way.                        *)
LEMMA SaysDone ==
    ASSUME KernelTypes, AnsweredOnce(messages), NEW j \in Jobs, NEW r \in Results,
           ~Answered(j), Emit(Done(j, r))
    PROVE  DoneSaid(j, r)
<1>1. Done(j, r) \in MessageType /\ (\A k \in Jobs : IsDone(Done(j, r), k) => k = j)
  BY Forms DEF IsDone
<1>2. messages \in Seq(MessageType) /\ (\A m \in Elems(messages) : ~IsDone(m, j))
  BY DEF KernelTypes, Answered
<1>3. messages' = IF input = "open" THEN Append(messages, Done(j, r)) ELSE messages
  BY DEF Emit
<1>4. /\ messages' \in Seq(MessageType)
      /\ Elems(messages') \subseteq Elems(messages) \cup {Done(j, r)}
      /\ Elems(messages) \subseteq Elems(messages')
      /\ input = "open" => Done(j, r) \in Elems(messages')
  BY <1>1, <1>2, <1>3, Appended
<1>5. AnsweredOnce(messages')
  BY <1>1, <1>2, <1>3, Spoken
<1>6. Heralded(messages) /\ (j = Attach => Milestone("Committed", Attach) \in Elems(messages))
        => Heralded(messages')
  BY <1>1, <1>2, <1>3, Spoken, JobKinds
<1>7. /\ \A k \in Jobs : Answered(k)' => Answered(k) \/ k = j
      /\ \A k \in Jobs : Answered(k) => Answered(k)'
  BY <1>1, <1>4 DEF Answered
<1>8. \A k \in Jobs, s \in Results : Done(k, s) = Done(j, r) => k = j /\ s = r
  BY Forms
<1>9. \A k \in Jobs, n \in Milestones : Milestone(n, k) # Done(j, r)
  BY Forms DEF Milestones
<1> QED
  BY <1>3, <1>4, <1>5, <1>6, <1>7, <1>8, <1>9 DEF DoneSaid

(* What a milestone adds to them.                                           *)
LEMMA SaysMilestone ==
    ASSUME KernelTypes, AnsweredOnce(messages), NEW j \in Jobs, NEW n \in Milestones,
           Emit(Milestone(n, j))
    PROVE  MilestoneSaid(n, j)
<1>1. Milestone(n, j) \in MessageType /\ (\A k \in Jobs : ~IsDone(Milestone(n, j), k))
  BY Forms DEF IsDone, Milestones
<1>2. messages \in Seq(MessageType)
  BY DEF KernelTypes
<1>3. messages' = IF input = "open" THEN Append(messages, Milestone(n, j)) ELSE messages
  BY DEF Emit
<1>4. /\ messages' \in Seq(MessageType)
      /\ Elems(messages') \subseteq Elems(messages) \cup {Milestone(n, j)}
      /\ Elems(messages) \subseteq Elems(messages')
      /\ input = "open" => Milestone(n, j) \in Elems(messages')
  BY <1>1, <1>2, <1>3, Appended
<1>5. AnsweredOnce(messages')
  BY <1>1, <1>2, <1>3, Spoken
<1>6. Heralded(messages) => Heralded(messages')
  BY <1>1, <1>2, <1>3, Spoken, JobKinds
<1>7. \A k \in Jobs : Answered(k)' <=> Answered(k)
  BY <1>1, <1>4 DEF Answered
<1>8. \A k \in Jobs, m \in Milestones : Milestone(m, k) = Milestone(n, j) => m = n /\ k = j
  BY Forms
<1>9. \A k \in Jobs, s \in Results : Done(k, s) # Milestone(n, j)
  BY Forms DEF Milestones
<1> QED
  BY <1>3, <1>4, <1>5, <1>6, <1>7, <1>8, <1>9 DEF MilestoneSaid

(* What sending a reply changes.                                            *)
LEMMA Answers ==
    ASSUME KernelTypes, NEW j \in Jobs, NEW r \in Results \cup {"lost", "stale"}, Answer(j, r)
    PROVE  AnswerSent(j, r)
BY DEF Answer, AnswerSent, KernelTypes

(* What the pump refuses a job with.                                        *)
LEMMA RefusesWith ==
    ASSUME KernelTypes, NEW j \in Jobs
    PROVE  /\ Refuses(j) # None => \/ Refuses(j) = "recovery"
                                   \/ Refuses(j) = "stale" /\ (j = Attach => ~Live(state))
           /\ Refuses(j) = None => Live(state) /\ state # "KernelUnresolved"
<1>1. Admits(j, state) /\ state # "KernelUnresolved" => Live(state)
  BY DEF Admits, Live, AcceptsHandle, AcceptsDefault, AcceptsTeardown
<1>2. Admits(Attach, state) \/ state = "KernelUnresolved" \/ ~Live(state)
  BY JobKinds DEF Admits, Live, AcceptsHandle, AcceptsDefault, AcceptsTeardown, KernelTypes, States
<1> QED
  BY <1>1, <1>2, KernelCalls DEF Refuses

(* What taking the first message changes.                                   *)
LEMMA HearsFirst ==
    ASSUME KernelTypes, AnsweredOnce(messages), messages # <<>>, messages' = Tail(messages)
    PROVE  FirstHeard
<1>1. messages \in Seq(MessageType)
  BY DEF KernelTypes
<1>2. /\ messages' \in Seq(MessageType) /\ Head(messages) \in MessageType
      /\ Elems(messages) = Elems(messages') \cup {Head(messages)}
  BY <1>1, Shortened
<1>3. /\ AnsweredOnce(messages')
      /\ \A j \in Jobs : IsDone(Head(messages), j) => \A m \in Elems(messages') : ~IsDone(m, j)
      /\ Heralded(messages) =>
           /\ ~IsDone(Head(messages), Attach)
           /\ Head(messages) # Milestone("Committed", Attach) => Heralded(messages')
  BY <1>1, Heard
<1>4. /\ \A j \in Jobs : Answered(j)' => Answered(j)
      /\ \A j \in Jobs : IsDone(Head(messages), j) => Answered(j) /\ ~Answered(j)'
      /\ \A j \in Jobs : ~IsDone(Head(messages), j) => (Answered(j)' <=> Answered(j))
  BY <1>2, <1>3 DEF Answered
<1> QED
  BY <1>2, <1>3, <1>4 DEF FirstHeard

(* What an answer tells the supervisor.                                     *)
LEMMA HearsDone ==
    ASSUME OpenerInv, FirstHeard, messages # <<>>, Head(messages).kind = "Done"
    PROVE  DoneHeard
<1>1. /\ Head(messages).job \in Jobs /\ Head(messages).result \in Results
      /\ Head(messages) = Done(Head(messages).job, Head(messages).result)
  BY Forms DEF FirstHeard, Milestones
<1>2. \A j \in Jobs : IsDone(Head(messages), j) <=> j = Head(messages).job
  BY <1>1, Forms DEF IsDone
<1>3. \A j \in Jobs, n \in Milestones : Head(messages) # Milestone(n, j)
  BY Forms DEF Milestones
<1> QED
  BY <1>1, <1>2, <1>3 DEF DoneHeard, FirstHeard, OpenerInv

(* What telling the worker to preserve the kernel adds to the queue.        *)
LEMMA Enqueues ==
    ASSUME KernelTypes, Once(queue), OpenerFirst(queue), Enqueue(Preserve)
    PROVE  SameQueue
<1>1. queue \in Seq(Jobs \cup {Preserve})
      /\ (queue' = queue \/ queue' = Append(queue, Preserve))
  BY DEF KernelTypes, Enqueue
<1>2. CASE queue' = queue
  BY <1>1, <1>2 DEF SameQueue
<1>3. CASE queue' = Append(queue, Preserve)
  BY <1>1, <1>3, Appended, JobKinds DEF SameQueue
<1> QED
  BY <1>1, <1>2, <1>3

(* What Session::kill changes.                                              *)
LEMMA Kills ==
    ASSUME KernelTypes, Kill
    PROVE  /\ child' \in {"held", "taken", "verified", "none"}
           /\ child' = "verified" <=> child = "verified"
           /\ process' \in {"up", "exited", "killed", "handedOff", "crashed"}
           /\ process' = process \/ (process = "up" /\ process' = "killed")
BY DEF Kill, KernelTypes

(* What failing every waiting call changes.                                 *)
LEMMA Outstanding ==
    ASSUME KernelTypes, FailOutstanding(waiters)
    PROVE  CallsEnded
BY DEF FailOutstanding, CallsEnded, KernelTypes

(* A refused attach that nothing took over leaves nothing.                  *)
LEMMA NothingTookOver ==
    ASSUME KInv, Refused, takeover = None \/ Done(takeover, "recovery") \in Elems(messages)
    PROVE  LetGo
<1>1. "committed" \notin safety /\ "remote" \notin safety /\ ~MayClaim /\ LatestInv
  BY DEF KInv, Refused, TakeoverInv
<1>2. takeover = None \/ Answered(takeover)
  BY DEF Answered, IsDone, Results
<1>3. /\ ~Loose /\ pump.job \notin Changes /\ Elems(requests) \cap Changes = {}
      /\ Elems(todo) \cap Changes = {} /\ engine.job \notin Changes
  BY <1>1, <1>2, Further DEF LatestInv
<1>4. \A j \in Ends : ~PastQueue(j)
  BY <1>1 DEF KInv, EndInv, MilestoneInv
<1>5. /\ pump.job \notin Ends /\ Elems(requests) \cap Ends = {}
      /\ Elems(todo) \cap Ends = {} /\ engine.job \notin Ends
  BY <1>4 DEF PastQueue, PastPump, PastRequests, PastReader, PastTodo
<1>6. /\ pump.job # Attach /\ Attach \notin Elems(requests) /\ Attach \notin Elems(todo)
      /\ ~Attaching
  BY <1>1 DEF MayClaim, Unread
<1>7. /\ pump.job \notin Jobs /\ Elems(requests) \cap Jobs = {} /\ Elems(todo) \cap Jobs = {}
  BY <1>3, <1>5, <1>6, JobKinds
<1>8. engine.at \in {"idle", "returned"}
  BY <1>3, <1>5, <1>6, JobKinds, FieldTypes DEF KInv, PlaceInv, Attaching
<1>9. holds = "none"
  BY <1>1, <1>3 DEF KInv, SafetyInv, KernelTypes, Loose
<1> QED
  BY <1>1, <1>7, <1>8, <1>9 DEF LetGo, NoKernel, Quiet

(* What failing a session that was let go, or is over, changes.             *)
LEMMA Fails ==
    ASSUME KInv, FailUnclaimed, ~Live(state) \/ LetGo, withheld' = FALSE \/ withheld' = withheld
    PROVE  Settles /\ released' = TRUE /\ ~Live(state')
<1>1. CASE Live(state)
  <2>1. released' = TRUE /\ state' = "Failed" /\ Kill
    BY <1>1 DEF FailUnclaimed
  <2>2. process = "up" => holds = "none"
    BY <1>1 DEF LetGo, Quiet
  <2>3. state' \in States /\ ~Live(state')
    BY <2>1 DEF States, Live
  <2>4. /\ child' \in {"held", "taken", "verified", "none"}
        /\ child' = "verified" <=> child = "verified"
        /\ process' \in {"up", "exited", "killed", "handedOff", "crashed"}
        /\ process' = process \/ (process = "up" /\ process' = "killed")
    BY <2>1, Kills DEF KInv
  <2>5. withheld' \in BOOLEAN
    BY DEF KInv, KernelTypes
  <2>6. withheld' => withheld
    OBVIOUS
  <2> QED
    BY <1>1, <2>1, <2>2, <2>3, <2>4, <2>5, <2>6 DEF Settles
<1>2. CASE ~Live(state)
  BY <1>2 DEF FailUnclaimed, KInv, KernelTypes, Settles
<1> QED
  BY <1>1, <1>2

(* What preserving the kernel changes.                                      *)
LEMMA Preserves ==
    ASSUME KInv, PreserveKernel
    PROVE  /\ SameQueue /\ state' \in States /\ (Live(state') <=> Live(state))
           /\ state' = state \/ state' = "KernelUnresolved"
<1>1. KernelTypes /\ Once(queue) /\ OpenerFirst(queue) /\ SettledInv
  BY DEF KInv, OnePlace, OpenerInv
<1>2. Enqueue(Preserve) /\ (state' = IF handoff \/ released THEN state ELSE "KernelUnresolved")
  BY DEF PreserveKernel
<1>3. /\ state' \in States /\ (Live(state') <=> Live(state))
      /\ state' = state \/ state' = "KernelUnresolved"
  BY <1>1, <1>2 DEF KernelTypes, SettledInv, States, Live
<1> QED
  BY <1>1, <1>2, <1>3, Enqueues

(* The head of a queue in order is taken.                                   *)
LEMMA HeadTaken ==
    ASSUME NEW S, NEW q \in Seq(S), q # <<>>, Once(q), OpenerFirst(q)
    PROVE  Tail(q) \in Seq(S) /\ Shorter(q, Tail(q))
BY Shortened DEF Shorter

(* The steps of the worker's request reader.                                *)
LEMMA ReaderKeeps ==
    ASSUME KInv, ReaderStep, UNCHANGED <<sessionVars, callVars>>
    PROVE  KInv'
<1> USE DEF KInv
<1>0. /\ queue' = queue /\ pump' = pump /\ waiters' = waiters /\ call' = call /\ reply' = reply
      /\ state' = state /\ phase' = phase /\ released' = released /\ handoff' = handoff
      /\ takeover' = takeover /\ withheld' = withheld /\ child' = child
  BY DEF sessionVars, callVars
<1>1. ASSUME ReadPreserve PROVE KInv'
  <2>1. /\ process = "up" /\ reader.at = "reading" /\ requests # <<>>
        /\ Head(requests) = Preserve
        /\ requests' = Tail(requests)
        /\ UNCHANGED <<input, safety, todo, engine, holds, ack, process, messages>>
    BY <1>1 DEF ReadPreserve, Reads
  <2>2. /\ reader'.job = reader.job /\ reader'.at \in {"reading", "preserving"}
        /\ reader'.at = "preserving" => "remote" \in safety
        /\ reader' \in [at : {"reading", "preserving", "refusing", "retaining", "releasing"},
                         job : Jobs \cup {None}]
    BY <1>1 DEF ReadPreserve, Reads, Reading, PlaceInv, KernelTypes
  <2>3. /\ requests' \in Seq(Jobs \cup {Preserve})
        /\ Shorter(requests, requests')
    BY <2>1, HeadTaken DEF KernelTypes, OnePlace, OpenerInv
  <2>4. /\ \A j \in Jobs : j \in Elems(requests') <=> j \in Elems(requests)
        /\ Elems(requests') \cap Jobs = Elems(requests) \cap Jobs
        /\ Elems(requests') \cap Changes = Elems(requests) \cap Changes
    BY <2>1, <2>3, JobKinds DEF Shorter
  <2>5. /\ Carried
    BY <1>0, <2>1, <2>4, JobKinds
       DEF MayClaim, Unread, Attaching, Refused, Gone, LetGo, NoKernel, Quiet, Carried
  <2>6. KernelTypes' /\ PlaceInv' /\ SafetyInv' /\ MilestoneInv'
    BY <1>0, <2>1, <2>2, <2>3, <2>4, <2>5, JobKinds
       DEF KernelTypes, PlaceInv, SafetyInv, Attaching, MilestoneInv, Shorter, Carried
  <2>7. OnePlace' /\ OpenerInv'
    BY <1>0, <2>1, <2>2, <2>3, <2>4, <2>5, JobKinds DEF OnePlace, PastQueue, PastPump,
           PastRequests, PastReader, PastTodo, Answered, OpenerInv, Unread, Shorter, Carried
  <2>8. AnswerInv' /\ SettledInv'
    BY <1>0, <2>1, <2>2, <2>3, <2>4, <2>5, JobKinds DEF AnswerInv, SettledInv, Shorter, Carried
  <2>9. EndInv' /\ ConfirmInv'
    BY <1>0, <2>1, <2>2, <2>3, <2>4, <2>5, JobKinds DEF EndInv, PastQueue, PastPump, PastRequests,
           PastReader, PastTodo, Answered, ConfirmInv, Shorter, Carried
  <2>10. TakeoverInv'
    BY <1>0, <2>1, <2>2, <2>3, <2>4, <2>5, JobKinds DEF TakeoverInv, LatestInv, Loose, PastPump,
           PastRequests, PastReader, PastTodo, Answered, Shorter, Carried
  <2> QED
    BY <2>6, <2>7, <2>8, <2>9, <2>10
<1>2. ASSUME StorePreserved PROVE KInv'
  <2>1. /\ process = "up" /\ reader.at = "preserving" /\ safety' = safety \cup {"preserved"}
        /\ reader'.at = "reading" /\ reader'.job = None
        /\ reader' \in [at : {"reading", "preserving", "refusing", "retaining", "releasing"},
                         job : Jobs \cup {None}]
        /\ UNCHANGED <<input, requests, todo, engine, holds, ack, process, messages>>
    BY <1>2 DEF StorePreserved, Reading
  <2>2. /\ Carried
    BY <1>0, <2>1 DEF MayClaim, Unread, Attaching, Refused, Gone, LetGo, NoKernel, Quiet, Carried
  <2>3. KernelTypes' /\ PlaceInv' /\ SafetyInv' /\ MilestoneInv'
    BY <1>0, <2>1, <2>2, JobKinds
       DEF KernelTypes, PlaceInv, SafetyInv, Attaching, MilestoneInv, Carried
  <2>4. OnePlace' /\ OpenerInv'
    BY <1>0, <2>1, <2>2, JobKinds DEF OnePlace, PastQueue, PastPump, PastRequests, PastReader,
           PastTodo, Answered, OpenerInv, Unread, Carried
  <2>5. AnswerInv' /\ SettledInv'
    BY <1>0, <2>1, <2>2, JobKinds DEF AnswerInv, SettledInv, Carried
  <2>6. EndInv' /\ ConfirmInv'
    BY <1>0, <2>1, <2>2, JobKinds DEF EndInv, PastQueue, PastPump, PastRequests, PastReader,
           PastTodo, Answered, ConfirmInv, Carried
  <2>7. TakeoverInv'
    BY <1>0, <2>1, <2>2, JobKinds DEF TakeoverInv, LatestInv, Loose, PastPump, PastRequests,
           PastReader, PastTodo, Answered, Carried
  <2> QED
    BY <2>3, <2>4, <2>5, <2>6, <2>7
<1>3. ASSUME ReadAttach PROVE KInv'
  <2>1. /\ process = "up" /\ reader.at = "reading" /\ requests # <<>> /\ Head(requests) = Attach
        /\ requests' = Tail(requests) /\ safety' = safety \cup {"remote", "pending"}
        /\ todo' = Append(todo, Attach)
        /\ UNCHANGED <<input, reader, engine, holds, ack, process, messages>>
    BY <1>3 DEF ReadAttach, Reads
  <2>2. Attach \in Elems(requests) /\ Unread
    BY <2>1, Shortened DEF KernelTypes, Unread
  <2>3. /\ requests' \in Seq(Jobs \cup {Preserve})
        /\ Shorter(requests, requests')
    BY <2>1, HeadTaken DEF KernelTypes, OnePlace, OpenerInv
  <2>4. /\ todo' \in Seq(Jobs \cup {Release}) /\ Elems(todo') = Elems(todo) \cup {Attach}
        /\ Once(todo') /\ OpenerFirst(todo') /\ EndLast(todo')
        /\ \A t : LatestLast(todo, t) => LatestLast(todo', t)
    BY <2>1, <2>2, Appended, JobKinds DEF KernelTypes, OnePlace, OpenerInv, EndInv
  <2>5. /\ Carried
    BY <1>0, <2>1, <2>2, <2>3, <2>4, JobKinds
       DEF MayClaim, Unread, Attaching, Refused, Gone, LetGo, NoKernel, Quiet, Shorter, Carried
  <2>6. KernelTypes' /\ PlaceInv' /\ SafetyInv' /\ MilestoneInv'
    BY <1>0, <2>1, <2>2, <2>3, <2>4, <2>5, JobKinds
       DEF KernelTypes, PlaceInv, SafetyInv, Attaching, MilestoneInv, Shorter, Carried
  <2>7. OnePlace' /\ OpenerInv'
    BY <1>0, <2>1, <2>2, <2>3, <2>4, <2>5, JobKinds DEF OnePlace, PastQueue, PastPump,
           PastRequests, PastReader, PastTodo, Answered, OpenerInv, Unread, Shorter, Carried
  <2>8. AnswerInv' /\ SettledInv'
    BY <1>0, <2>1, <2>2, <2>3, <2>4, <2>5, JobKinds DEF AnswerInv, SettledInv, Shorter, Carried
  <2>9. EndInv' /\ ConfirmInv'
    BY <1>0, <2>1, <2>2, <2>3, <2>4, <2>5, JobKinds DEF EndInv, PastQueue, PastPump, PastRequests,
           PastReader, PastTodo, Answered, ConfirmInv, Shorter, Carried
  <2>10. TakeoverInv'
    <3>1. engine = Idle /\ holds = "none" /\ Elems(todo) \cap Jobs = {} /\ reader.job = None
          /\ messages = <<>>
      BY <2>1, <2>2 DEF OpenerInv, PlaceInv
    <3>2. engine.job = None /\ Elems(todo') \cap Changes = {} /\ ~Loose'
          /\ "committed" \notin safety
      BY <2>1, <2>2, <2>4, <3>1, JobKinds DEF Loose, Idle, OpenerInv
    <3>3. \A t \in Changes : /\ PastRequests(t)' => PastRequests(t)
                             /\ PastPump(t)' => PastPump(t)
      BY <1>0, <2>1, <2>3, <2>4, JobKinds
         DEF PastPump, PastRequests, PastReader, PastTodo, Answered, Shorter
    <3>4. Elems(requests') \cap Changes \subseteq Elems(requests)
      BY <2>3 DEF Shorter
    <3>5. takeover \in Changes \cup {None}
      BY DEF KernelTypes
    <3> QED
      BY <1>0, <2>1, <2>3, <2>4, <3>1, <3>2, <3>3, <3>4, <3>5, JobKinds
         DEF TakeoverInv, LatestInv, Shorter
  <2> QED
    BY <2>6, <2>7, <2>8, <2>9, <2>10
<1>4. ASSUME NEW j \in Jobs, ReadHeld(j) PROVE KInv'
  <2>1. /\ process = "up" /\ reader.at = "reading" /\ requests # <<>> /\ Head(requests) = j
        /\ requests' = Tail(requests) /\ reader'.at = "refusing" /\ reader'.job = j
        /\ j # Attach /\ "remote" \in safety /\ reader.job = None
        /\ reader' \in [at : {"reading", "preserving", "refusing", "retaining", "releasing"},
                         job : Jobs \cup {None}]
        /\ UNCHANGED <<input, safety, todo, engine, holds, ack, process, messages>>
    BY <1>4, JobKinds DEF ReadHeld, Reads, Hold, PlaceInv, KernelTypes
  <2>2. /\ requests' \in Seq(Jobs \cup {Preserve})
        /\ Shorter(requests, requests')
    BY <2>1, HeadTaken DEF KernelTypes, OnePlace, OpenerInv
  <2>3. /\ j \in Elems(requests) /\ j \notin Elems(requests')
        /\ \A k \in Jobs : k # j => (k \in Elems(requests') <=> k \in Elems(requests))
        /\ Attach \notin Elems(requests') /\ Attach \notin Elems(requests)
        /\ ~Unread /\ ~Unread'
    BY <1>0, <2>1, <2>2, JobKinds DEF Unread, OpenerInv, Shorter
  <2>4. /\ Carried
    BY <1>0, <2>1, <2>2, <2>3, JobKinds
       DEF MayClaim, Unread, Attaching, Refused, Gone, LetGo, NoKernel, Quiet, Shorter, Carried
  <2>5. KernelTypes' /\ PlaceInv' /\ SafetyInv' /\ MilestoneInv'
    BY <1>0, <2>1, <2>2, <2>3, <2>4, JobKinds
       DEF KernelTypes, PlaceInv, SafetyInv, Attaching, MilestoneInv, Shorter, Carried
  <2>6. OnePlace' /\ OpenerInv'
    BY <1>0, <2>1, <2>2, <2>3, <2>4, JobKinds DEF OnePlace, PastQueue, PastPump, PastRequests,
           PastReader, PastTodo, Answered, OpenerInv, Unread, Shorter, Carried
  <2>7. AnswerInv' /\ SettledInv'
    BY <1>0, <2>1, <2>2, <2>3, <2>4, JobKinds DEF AnswerInv, SettledInv, Shorter, Carried
  <2>8. EndInv' /\ ConfirmInv'
    BY <1>0, <2>1, <2>2, <2>3, <2>4, JobKinds DEF EndInv, PastQueue, PastPump, PastRequests,
           PastReader, PastTodo, Answered, ConfirmInv, Shorter, Carried
  <2>9. TakeoverInv'
    BY <1>0, <2>1, <2>2, <2>3, <2>4, JobKinds DEF TakeoverInv, LatestInv, Loose, PastPump,
           PastRequests, PastReader, PastTodo, Answered, Shorter, Carried
  <2> QED
    BY <2>5, <2>6, <2>7, <2>8, <2>9
<1>5. ASSUME EmitHeld PROVE KInv'
  <2>1. /\ process = "up" /\ reader.at = "refusing" /\ reader.job \in Jobs
        /\ reader.job # Attach
        /\ reader'.at = "reading" /\ reader'.job = None
        /\ messages' = IF input = "open" THEN Append(messages, Done(reader.job, "recovery"))
                                         ELSE messages
        /\ reader' \in [at : {"reading", "preserving", "refusing", "retaining", "releasing"},
                         job : Jobs \cup {None}]
        /\ UNCHANGED <<input, requests, safety, todo, engine, holds, ack, process>>
    BY <1>5, JobKinds DEF EmitHeld, Emit, Reading, PlaceInv, KernelTypes
  <2>2. /\ messages' \in Seq(MessageType) /\ AnsweredOnce(messages')
        /\ Heralded(messages) => Heralded(messages')
        /\ \A m \in Elems(messages') : m \in Elems(messages) \/ m = Done(reader.job, "recovery")
        /\ \A m \in Elems(messages) : m \in Elems(messages')
    <3>1. Done(reader.job, "recovery") \in MessageType
      BY <2>1, Forms DEF Results
    <3>2. \A j \in Jobs : IsDone(Done(reader.job, "recovery"), j) => j = reader.job
      BY <2>1, Forms DEF IsDone, Results
    <3>3. ~IsDone(Done(reader.job, "recovery"), Attach)
      BY <2>1, <3>2, JobKinds
    <3>4. \A m \in Elems(messages) : ~IsDone(m, reader.job)
      BY <2>1 DEF OnePlace, PastReader, PastTodo, Answered
    <3> QED
      BY <2>1, <3>1, <3>2, <3>3, <3>4, Appended, Spoken DEF KernelTypes, OnePlace
  <2>3. /\ \A j \in Jobs : Answered(j)' => Answered(j) \/ j = reader.job
        /\ \A j \in Jobs : Answered(j) => Answered(j)'
        /\ \A j \in Jobs : (Done(j, "ok") \in Elems(messages') <=> Done(j, "ok") \in Elems(messages))
        /\ \A j \in Jobs : (Done(j, "err") \in Elems(messages') <=> Done(j, "err") \in Elems(messages))
        /\ \A j \in Jobs : j # reader.job /\ Done(j, "recovery") \in Elems(messages')
                            => Done(j, "recovery") \in Elems(messages)
        /\ \A j \in Jobs, k \in Milestones : Milestone(k, j) \in Elems(messages')
                                                <=> Milestone(k, j) \in Elems(messages)
    BY <2>1, <2>2, Forms DEF Answered, IsDone, Results, Milestones
  <2>4. /\ Carried
    BY <1>0, <2>1, JobKinds
       DEF MayClaim, Unread, Attaching, Refused, Gone, LetGo, NoKernel, Quiet, Carried
  <2>5. ~Unread /\ ~Unread'
    BY <1>0, <2>1 DEF OpenerInv, Unread
  <2>6. KernelTypes' /\ PlaceInv' /\ SafetyInv'
    BY <1>0, <2>1, <2>2, <2>3, <2>4, <2>5, JobKinds
       DEF KernelTypes, PlaceInv, SafetyInv, Attaching, Carried
  <2>7. MilestoneInv'
    BY <1>0, <2>1, <2>2, <2>3, JobKinds DEF MilestoneInv, Milestones
  <2>8. OnePlace' /\ OpenerInv'
    BY <1>0, <2>1, <2>2, <2>3, <2>4, <2>5, JobKinds DEF OnePlace, PastQueue, PastPump,
           PastRequests, PastReader, PastTodo, Answered, OpenerInv, Unread, Carried
  <2>9. AnswerInv' /\ SettledInv'
    BY <1>0, <2>1, <2>2, <2>3, <2>4, <2>5, JobKinds DEF AnswerInv, SettledInv, Carried
  <2>10. EndInv'
    BY <1>0, <2>1, <2>2, <2>3, <2>4, <2>5, JobKinds
       DEF EndInv, PastQueue, PastPump, PastRequests, PastReader, PastTodo, Answered, Carried
  <2>11. ConfirmInv'
    <3>1. \A j \in Ends \cap waiters :
                Done(j, "ok") \in Elems(messages)' <=> Done(j, "ok") \in Elems(messages)
      BY <2>3, JobKinds
    <3> QED
      BY <1>0, <2>1, <3>1 DEF ConfirmInv
  <2>12. TakeoverInv'
    <3>1. \A t \in Jobs : /\ PastRequests(t)' => PastRequests(t)
                          /\ PastPump(t)' => PastPump(t)
                          /\ PastReader(t)' => PastReader(t) \/ t = reader.job
                          /\ PastTodo(t)' => PastTodo(t) \/ t = reader.job
      BY <1>0, <2>1, <2>3, JobKinds DEF PastPump, PastRequests, PastReader, PastTodo
    <3>2. takeover \in Changes \cup {None} /\ (takeover # None => takeover \in Jobs)
      BY JobKinds DEF KernelTypes
    <3>3. Loose' => Loose
      BY <1>0, <2>1 DEF Loose
    <3> QED
      BY <1>0, <2>1, <2>3, <3>1, <3>2, <3>3, JobKinds DEF TakeoverInv, LatestInv
  <2> QED
    BY <2>6, <2>7, <2>8, <2>9, <2>10, <2>11, <2>12
<1>6. ASSUME NEW j \in Jobs, ReadJob(j) PROVE KInv'
  <2>1. /\ process = "up" /\ reader.at = "reading" /\ requests # <<>> /\ Head(requests) = j
        /\ requests' = Tail(requests) /\ todo' = Append(todo, j)
        /\ j # Attach /\ reader.job = None /\ ~Hold
        /\ UNCHANGED <<input, reader, safety, engine, holds, ack, process, messages>>
    BY <1>6, JobKinds DEF ReadJob, Reads, PlaceInv, KernelTypes
  <2>2. /\ requests' \in Seq(Jobs \cup {Preserve})
        /\ Shorter(requests, requests')
    BY <2>1, HeadTaken DEF KernelTypes, OnePlace, OpenerInv
  <2>3. /\ j \in Elems(requests) /\ j \notin Elems(requests')
        /\ \A k \in Jobs : k # j => (k \in Elems(requests') <=> k \in Elems(requests))
        /\ Attach \notin Elems(requests') /\ Attach \notin Elems(requests)
        /\ ~Unread /\ ~Unread'
    BY <1>0, <2>1, <2>2, JobKinds DEF Unread, OpenerInv, Shorter
  <2>4. /\ todo' \in Seq(Jobs \cup {Release}) /\ Elems(todo') = Elems(todo) \cup {j}
        /\ Once(todo') /\ OpenerFirst(todo') /\ EndLast(todo')
        /\ "committed" \notin safety /\ j \in Changes => LatestLast(todo', takeover)
        /\ j \notin Changes /\ LatestLast(todo, takeover) => LatestLast(todo', takeover)
    <3>1. j \notin Elems(todo) /\ Elems(todo) \cap Ends = {}
      BY <2>1, <2>3, JobKinds DEF OnePlace, PastRequests, PastReader, EndInv
    <3>2. "committed" \notin safety /\ j \in Changes =>
              takeover \notin Elems(todo) /\ LatestLast(todo, takeover)
      BY <2>1, <2>3 DEF TakeoverInv, LatestInv, PastRequests, PastReader
    <3> QED
      BY <2>1, <3>1, <3>2, Appended, JobKinds DEF KernelTypes, OnePlace, OpenerInv, EndInv
  <2>5. /\ Carried
    BY <1>0, <2>1, <2>2, <2>3, <2>4, JobKinds
       DEF MayClaim, Unread, Attaching, Refused, Gone, LetGo, NoKernel, Quiet, Shorter, Carried
  <2>6. KernelTypes' /\ PlaceInv' /\ SafetyInv' /\ MilestoneInv'
    BY <1>0, <2>1, <2>2, <2>3, <2>4, <2>5, JobKinds
       DEF KernelTypes, PlaceInv, SafetyInv, Attaching, MilestoneInv, Shorter, Carried
  <2>7. OnePlace' /\ OpenerInv'
    BY <1>0, <2>1, <2>2, <2>3, <2>4, <2>5, JobKinds DEF OnePlace, PastQueue, PastPump,
           PastRequests, PastReader, PastTodo, Answered, OpenerInv, Unread, Shorter, Carried
  <2>8. AnswerInv' /\ SettledInv'
    BY <1>0, <2>1, <2>2, <2>3, <2>4, <2>5, JobKinds DEF AnswerInv, SettledInv, Shorter, Carried
  <2>9. EndInv' /\ ConfirmInv'
    BY <1>0, <2>1, <2>2, <2>3, <2>4, <2>5, JobKinds DEF EndInv, PastQueue, PastPump, PastRequests,
           PastReader, PastTodo, Answered, ConfirmInv, Shorter, Carried
  <2>10. TakeoverInv'
    <3>1. \A t \in Jobs : /\ PastRequests(t)' => PastRequests(t) \/ t = j
                          /\ PastPump(t)' => PastPump(t)
                          /\ PastReader(t)' => PastReader(t) \/ t = j
                          /\ PastTodo(t)' <=> PastTodo(t)
      BY <1>0, <2>1, <2>3, <2>4, JobKinds DEF PastPump, PastRequests, PastReader, PastTodo, Answered
    <3>2. takeover \in Changes \cup {None} /\ (takeover # None => takeover \in Jobs)
      BY JobKinds DEF KernelTypes
    <3>3. "committed" \notin safety => "remote" \notin safety
      BY <2>1 DEF SafetyInv, Hold
    <3>4. /\ Loose' => Loose \/ j \in Changes
          /\ Loose' /\ "preserved" \in safety => Loose
          /\ Elems(requests') \cap Changes # {} => Elems(requests) \cap Changes # {}
          /\ j \in Changes => Elems(requests) \cap Changes # {}
          /\ j \notin Changes => Elems(todo') \cap Changes = Elems(todo) \cap Changes
          /\ takeover = j => Elems(requests') \cap Changes = {} \/ "committed" \in safety
      BY <1>0, <2>1, <2>2, <2>3, <2>4 DEF Loose, TakeoverInv, LatestInv, Shorter
    <3>5. "committed" \notin safety /\ j \in Changes => takeover # None /\ ~PastRequests(takeover)
      BY <3>4 DEF TakeoverInv, LatestInv
    <3>6. ~PastRequests(takeover) =>
              takeover # reader.job /\ Done(takeover, "recovery") \notin Elems(messages)
      BY <2>1, Forms DEF PastRequests, PastReader, PastTodo, Answered, IsDone, Results
    <3> QED
      BY <1>0, <2>1, <2>2, <2>4, <3>1, <3>2, <3>3, <3>4, <3>5, <3>6, JobKinds, Further
         DEF TakeoverInv, LatestInv, Answered, Shorter
  <2> QED
    BY <2>6, <2>7, <2>8, <2>9, <2>10
<1>7. ASSUME InputEnds PROVE KInv'
  <2>1. /\ process = "up" /\ reader.at = "reading" /\ input = "closed"
        /\ reader'.job = None /\ reader.job = None /\ reader'.at \in {"retaining", "releasing"}
        /\ todo' = todo \/ todo' = Append(todo, Release)
        /\ reader' \in [at : {"reading", "preserving", "refusing", "retaining", "releasing"},
                         job : Jobs \cup {None}]
        /\ UNCHANGED <<input, requests, safety, engine, holds, ack, process, messages>>
    BY <1>7, JobKinds DEF InputEnds, Reading, PlaceInv, KernelTypes
  <2>2. /\ todo' \in Seq(Jobs \cup {Release}) /\ Once(todo') /\ OpenerFirst(todo')
        /\ EndLast(todo')
        /\ \A t : LatestLast(todo, t) => LatestLast(todo', t)
        /\ \A j \in Jobs : j \in Elems(todo') <=> j \in Elems(todo)
        /\ Elems(todo') \cap Jobs = Elems(todo) \cap Jobs
        /\ Elems(todo') \cap Changes = Elems(todo) \cap Changes
    <3>1. CASE todo' = todo
      BY <3>1 DEF KernelTypes, OnePlace, OpenerInv, EndInv
    <3>2. CASE todo' = Append(todo, Release)
      <4>1. Release \in Jobs \cup {Release} /\ Release \notin Jobs /\ Release \notin Changes
            /\ Release # Attach
        BY JobKinds
      <4>2. Elems(todo') = Elems(todo) \cup {Release}
        BY <3>2, <4>1, Appended DEF KernelTypes
      <4> QED
        BY <3>2, <4>1, <4>2, Appended, JobKinds DEF KernelTypes, OnePlace, OpenerInv, EndInv
    <3> QED
      BY <2>1, <3>1, <3>2
  <2>3. /\ Carried
    BY <1>0, <2>1, <2>2, JobKinds
       DEF MayClaim, Unread, Attaching, Refused, Gone, LetGo, NoKernel, Quiet, Carried
  <2>4. KernelTypes' /\ PlaceInv' /\ SafetyInv' /\ MilestoneInv'
    BY <1>0, <2>1, <2>2, <2>3, JobKinds
       DEF KernelTypes, PlaceInv, SafetyInv, Attaching, MilestoneInv, Carried
  <2>5. OnePlace' /\ OpenerInv'
    BY <1>0, <2>1, <2>2, <2>3, JobKinds DEF OnePlace, PastQueue, PastPump, PastRequests,
           PastReader, PastTodo, Answered, OpenerInv, Unread, Carried
  <2>6. AnswerInv' /\ SettledInv'
    BY <1>0, <2>1, <2>2, <2>3, JobKinds DEF AnswerInv, SettledInv, Carried
  <2>7. EndInv' /\ ConfirmInv'
    BY <1>0, <2>1, <2>2, <2>3, JobKinds DEF EndInv, PastQueue, PastPump, PastRequests, PastReader,
           PastTodo, Answered, ConfirmInv, Carried
  <2>8. TakeoverInv'
    <3>1. \A t \in Jobs : /\ PastRequests(t)' <=> PastRequests(t)
                          /\ PastPump(t)' <=> PastPump(t)
                          /\ PastReader(t)' <=> PastReader(t)
                          /\ PastTodo(t)' <=> PastTodo(t)
      BY <1>0, <2>1, <2>2, JobKinds DEF PastPump, PastRequests, PastReader, PastTodo, Answered
    <3>2. takeover \in Changes \cup {None} /\ (takeover # None => takeover \in Jobs)
      BY JobKinds DEF KernelTypes
    <3>3. Loose' <=> Loose
      BY <1>0, <2>1, <2>2 DEF Loose
    <3> QED
      BY <1>0, <2>1, <2>2, <3>1, <3>2, <3>3, JobKinds DEF TakeoverInv, LatestInv, Answered, PlaceInv
  <2> QED
    BY <2>4, <2>5, <2>6, <2>7, <2>8
<1>8. ASSUME ReleaseWaitEnds PROVE KInv'
  <2>1. /\ process = "up" /\ reader.at = "releasing" /\ reader.job = None /\ reader'.job = None
        /\ \/ reader'.at = "retaining" /\ process' = process
           \/ reader' = reader /\ process' = "exited" /\ (ack = "yes" \/ "remote" \notin safety)
        /\ reader' \in [at : {"reading", "preserving", "refusing", "retaining", "releasing"},
                         job : Jobs \cup {None}]
        /\ UNCHANGED <<input, requests, safety, todo, engine, holds, ack, messages>>
    BY <1>8, JobKinds DEF ReleaseWaitEnds, Reading, PlaceInv, KernelTypes
  <2>2. /\ Carried
    BY <1>0, <2>1, JobKinds
       DEF MayClaim, Unread, Attaching, Refused, Gone, LetGo, NoKernel, Quiet, Carried
  <2>3. KernelTypes' /\ PlaceInv' /\ SafetyInv' /\ MilestoneInv'
    BY <1>0, <2>1, <2>2, JobKinds
       DEF KernelTypes, PlaceInv, SafetyInv, Attaching, MilestoneInv, Carried
  <2>4. OnePlace' /\ OpenerInv'
    BY <1>0, <2>1, <2>2, JobKinds DEF OnePlace, PastQueue, PastPump, PastRequests, PastReader,
           PastTodo, Answered, OpenerInv, Unread, Carried
  <2>5. AnswerInv' /\ SettledInv'
    BY <1>0, <2>1, <2>2, JobKinds DEF AnswerInv, SettledInv, Carried
  <2>6. EndInv' /\ ConfirmInv'
    BY <1>0, <2>1, <2>2, JobKinds DEF EndInv, PastQueue, PastPump, PastRequests, PastReader,
           PastTodo, Answered, ConfirmInv, Carried
  <2>7. TakeoverInv'
    BY <1>0, <2>1, <2>2, JobKinds DEF TakeoverInv, LatestInv, Loose, PastPump, PastRequests,
           PastReader, PastTodo, Answered, Carried
  <2> QED
    BY <2>3, <2>4, <2>5, <2>6, <2>7
<1>9. ASSUME RetainEnds PROVE KInv'
  <2>1. /\ process = "up" /\ "remote" \notin safety /\ process' = "exited" /\ input = "closed"
        /\ UNCHANGED <<input, requests, reader, safety, todo, engine, holds, ack, messages>>
    BY <1>9, JobKinds DEF RetainEnds, PlaceInv, KernelTypes
  <2>2. /\ Carried
    BY <1>0, <2>1, JobKinds
       DEF MayClaim, Unread, Attaching, Refused, Gone, LetGo, NoKernel, Quiet, Carried
  <2>3. KernelTypes' /\ PlaceInv' /\ SafetyInv' /\ MilestoneInv'
    BY <1>0, <2>1, <2>2, JobKinds
       DEF KernelTypes, PlaceInv, SafetyInv, Attaching, MilestoneInv, Carried
  <2>4. OnePlace' /\ OpenerInv'
    BY <1>0, <2>1, <2>2, JobKinds DEF OnePlace, PastQueue, PastPump, PastRequests, PastReader,
           PastTodo, Answered, OpenerInv, Unread, Carried
  <2>5. AnswerInv' /\ SettledInv'
    BY <1>0, <2>1, <2>2, JobKinds DEF AnswerInv, SettledInv, Carried
  <2>6. EndInv' /\ ConfirmInv'
    BY <1>0, <2>1, <2>2, JobKinds DEF EndInv, PastQueue, PastPump, PastRequests, PastReader,
           PastTodo, Answered, ConfirmInv, Carried
  <2>7. TakeoverInv'
    BY <1>0, <2>1, <2>2, JobKinds DEF TakeoverInv, LatestInv, Loose, PastPump, PastRequests,
           PastReader, PastTodo, Answered, Carried
  <2> QED
    BY <2>3, <2>4, <2>5, <2>6, <2>7
<1> QED
  BY <1>1, <1>2, <1>3, <1>4, <1>5, <1>6, <1>7, <1>8, <1>9 DEF ReaderStep

(* The steps of the worker's engine thread.                                 *)
LEMMA EngineKeeps ==
    ASSUME KInv, EngineStep, UNCHANGED <<sessionVars, callVars>>
    PROVE  KInv'
<1> USE DEF KInv
<1>0. /\ queue' = queue /\ pump' = pump /\ waiters' = waiters /\ call' = call /\ reply' = reply
      /\ state' = state /\ phase' = phase /\ released' = released /\ handoff' = handoff
      /\ takeover' = takeover /\ withheld' = withheld /\ child' = child
  BY DEF sessionVars, callVars
<1>1. ASSUME NEW j \in Jobs, EngineRefuses(j) PROVE KInv'
  <2>1. /\ process = "up" /\ engine.at = "idle" /\ engine = Idle /\ todo # <<>>
        /\ Head(todo) = j
        /\ todo' = Tail(todo) /\ "preserved" \in safety /\ Emit(Done(j, "recovery"))
        /\ engine.job = None
        /\ UNCHANGED <<input, requests, reader, safety, engine, holds, ack, process>>
    BY <1>1 DEF EngineRefuses, Takes, PlaceInv, Idle
  <2>2. /\ todo' \in Seq(Jobs \cup {Release})
        /\ Shorter(todo, todo')
    BY <2>1, HeadTaken DEF KernelTypes, OnePlace, OpenerInv
  <2>3. /\ j \in Elems(todo) /\ j \notin Elems(todo') /\ ~Answered(j) /\ ~Unread
        /\ \A k \in Jobs : k # j => (k \in Elems(todo') <=> k \in Elems(todo))
    BY <2>1, <2>2 DEF OpenerInv, OnePlace, PastTodo, Shorter
  <2>4. DoneSaid(j, "recovery")
    BY <2>1, <2>3, SaysDone DEF OnePlace, Results
  <2>5. /\ Carried
        /\ ~Unread'
    BY <1>0, <2>1, <2>2, <2>3, JobKinds
       DEF MayClaim, Unread, Attaching, Refused, Gone, LetGo, NoKernel, Quiet, Shorter, Carried
  <2>6. KernelTypes' /\ PlaceInv' /\ SafetyInv' /\ MilestoneInv'
    BY <1>0, <2>1, <2>2, <2>3, <2>4, <2>5, JobKinds DEF KernelTypes, PlaceInv, SafetyInv,
           Attaching, MilestoneInv, Milestones, OpenerInv, Shorter, DoneSaid, Carried
  <2>7. OnePlace' /\ OpenerInv'
    BY <1>0, <2>1, <2>2, <2>3, <2>4, <2>5, JobKinds DEF OnePlace, PastQueue, PastPump,
           PastRequests, PastReader, PastTodo, Answered, OpenerInv, Unread, Shorter, DoneSaid,
           Carried
  <2>8. AnswerInv' /\ SettledInv'
    BY <1>0, <2>1, <2>2, <2>3, <2>4, <2>5, JobKinds
       DEF AnswerInv, Results, SettledInv, Shorter, DoneSaid, Carried
  <2>9. EndInv' /\ ConfirmInv'
    BY <1>0, <2>1, <2>2, <2>3, <2>4, <2>5, JobKinds DEF EndInv, PastQueue, PastPump, PastRequests,
           PastReader, PastTodo, Answered, Results, ConfirmInv, Shorter, DoneSaid, Carried
  <2>10. TakeoverInv'
    <3>1. \A t \in Jobs : /\ PastRequests(t)' => PastRequests(t)
                          /\ PastPump(t)' => PastPump(t)
                          /\ PastReader(t)' => PastReader(t)
                          /\ PastTodo(t)' => PastTodo(t) \/ t = j
      BY <1>0, <2>1, <2>2, <2>3, <2>4, JobKinds
         DEF PastPump, PastRequests, PastReader, PastTodo, Shorter, DoneSaid
    <3>2. takeover \in Changes \cup {None} /\ (takeover # None => takeover \in Jobs)
      BY JobKinds DEF KernelTypes
    <3>3. Loose' => Loose
      BY <1>0, <2>1 DEF Loose
    <3> QED
      BY <1>0, <2>1, <2>2, <2>3, <2>4, <3>1, <3>2, <3>3, JobKinds, Further
         DEF TakeoverInv, LatestInv, Results, Shorter, DoneSaid
  <2> QED
    BY <2>6, <2>7, <2>8, <2>9, <2>10
<1>2. ASSUME NEW j \in Jobs, EngineStarts(j) PROVE KInv'
  <2>1. /\ process = "up" /\ engine.at = "idle" /\ engine = Idle /\ todo # <<>>
        /\ Head(todo) = j
        /\ todo' = Tail(todo) /\ "preserved" \notin safety /\ engine.job = None
        /\ engine'.at = "running" /\ engine'.job = j
        /\ engine' \in [at : {"idle", "running", "committed", "opened", "returned"},
                         job : Jobs \cup {None}, result : Results \cup {None}]
        /\ UNCHANGED <<input, requests, reader, safety, holds, ack, process, messages>>
    BY <1>2 DEF EngineStarts, Takes, PlaceInv, Idle
  <2>2. /\ todo' \in Seq(Jobs \cup {Release})
        /\ Shorter(todo, todo')
    BY <2>1, HeadTaken DEF KernelTypes, OnePlace, OpenerInv
  <2>3. /\ j \in Elems(todo) /\ j \notin Elems(todo') /\ ~Answered(j) /\ ~Unread
        /\ \A k \in Jobs : k # j => (k \in Elems(todo') <=> k \in Elems(todo))
    BY <2>1, <2>2 DEF OpenerInv, OnePlace, PastTodo, Shorter
  <2>4. /\ Carried
        /\ ~Unread'
    BY <1>0, <2>1, <2>2, <2>3, JobKinds
       DEF MayClaim, Unread, Attaching, Refused, Gone, LetGo, NoKernel, Quiet, Shorter, Carried
  <2>5. KernelTypes' /\ PlaceInv' /\ SafetyInv' /\ MilestoneInv'
    BY <1>0, <2>1, <2>2, <2>3, <2>4, JobKinds
       DEF KernelTypes, PlaceInv, SafetyInv, Attaching, OpenerInv, MilestoneInv, Shorter, Carried
  <2>6. OnePlace' /\ OpenerInv'
    BY <1>0, <2>1, <2>2, <2>3, <2>4, JobKinds DEF OnePlace, PastQueue, PastPump, PastRequests,
           PastReader, PastTodo, Answered, OpenerInv, Unread, Shorter, Carried
  <2>7. AnswerInv' /\ SettledInv'
    BY <1>0, <2>1, <2>2, <2>3, <2>4, JobKinds DEF AnswerInv, SettledInv, Shorter, Carried
  <2>8. EndInv' /\ ConfirmInv'
    BY <1>0, <2>1, <2>2, <2>3, <2>4, JobKinds DEF EndInv, PastQueue, PastPump, PastRequests,
           PastReader, PastTodo, Answered, ConfirmInv, Shorter, Carried
  <2>9. TakeoverInv'
    <3>1. \A t \in Jobs : /\ PastRequests(t)' => PastRequests(t)
                          /\ PastPump(t)' => PastPump(t)
                          /\ PastReader(t)' => PastReader(t)
                          /\ PastTodo(t)' => PastTodo(t) \/ t = j
      BY <1>0, <2>1, <2>2, <2>3, JobKinds
         DEF PastPump, PastRequests, PastReader, PastTodo, Answered, Shorter
    <3>2. takeover \in Changes \cup {None} /\ (takeover # None => takeover \in Jobs)
      BY JobKinds DEF KernelTypes
    <3>3. Loose' => Loose
      BY <1>0, <2>1, <2>2 DEF Loose, Shorter
    <3> QED
      BY <1>0, <2>1, <2>2, <2>3, <3>1, <3>2, <3>3, JobKinds, Further
         DEF TakeoverInv, LatestInv, Answered, Shorter
  <2> QED
    BY <2>5, <2>6, <2>7, <2>8, <2>9
<1>3. ASSUME AttachRefused PROVE KInv'
  <2>1. /\ process = "up" /\ engine.job = Attach /\ engine.at = "running"
        /\ "remote" \in safety /\ "pending" \in safety
        /\ safety' = safety \ {"remote", "pending"} /\ engine'.at = "returned"
        /\ engine'.job = Attach
        /\ engine'.result = "err" /\ "committed" \notin safety
        /\ engine' \in [at : {"idle", "running", "committed", "opened", "returned"},
                         job : Jobs \cup {None}, result : Results \cup {None}]
        /\ UNCHANGED <<input, requests, reader, todo, holds, ack, process, messages>>
    BY <1>3, JobKinds DEF AttachRefused, At, FinishedAttach, Preserved, Returns, Results,
           KernelTypes, SafetyInv, Attaching
  <2>2. /\ ~Unread /\ Attach \notin Elems(todo) /\ ~Answered(Attach)
        /\ "remote" \in safety /\ "pending" \in safety /\ MayClaim /\ ~released /\ ~handoff
    BY <1>0, <2>1, JobKinds DEF OpenerInv, OnePlace, PastTodo, SafetyInv, SettledInv, MayClaim,
           Attaching, Idle, LetGo, NoKernel, Live
  <2>3. /\ ~MayClaim' /\ ~Unread' /\ ~Attaching' /\ Carried
    BY <1>0, <2>1, <2>2, JobKinds
       DEF MayClaim, Unread, Attaching, Refused, Gone, LetGo, NoKernel, Quiet, Carried
  <2>4. KernelTypes' /\ PlaceInv' /\ SafetyInv' /\ MilestoneInv'
    BY <1>0, <2>1, <2>2, <2>3, JobKinds
       DEF KernelTypes, PlaceInv, Results, SafetyInv, Attaching, MilestoneInv, Carried
  <2>5. OnePlace' /\ OpenerInv'
    BY <1>0, <2>1, <2>2, <2>3, JobKinds DEF OnePlace, PastQueue, PastPump, PastRequests,
           PastReader, PastTodo, Answered, OpenerInv, Unread, Carried
  <2>6. AnswerInv' /\ SettledInv'
    BY <1>0, <2>1, <2>2, <2>3, JobKinds
       DEF AnswerInv, Refused, Answered, IsDone, Results, SettledInv, Carried
  <2>7. EndInv' /\ ConfirmInv'
    BY <1>0, <2>1, <2>2, <2>3, JobKinds DEF EndInv, PastQueue, PastPump, PastRequests, PastReader,
           PastTodo, Answered, ConfirmInv, Carried
  <2>8. TakeoverInv'
    <3>1. \A t \in Jobs : /\ PastRequests(t)' <=> PastRequests(t)
                          /\ PastPump(t)' <=> PastPump(t)
                          /\ PastReader(t)' <=> PastReader(t)
                          /\ PastTodo(t)' <=> PastTodo(t)
      BY <1>0, <2>1, <2>2, JobKinds DEF PastPump, PastRequests, PastReader, PastTodo, Answered
    <3>2. takeover \in Changes \cup {None} /\ (takeover # None => takeover \in Jobs)
      BY JobKinds DEF KernelTypes
    <3>3. Loose' => Loose
      BY <1>0, <2>1 DEF Loose
    <3> QED
      BY <1>0, <2>1, <2>2, <3>1, <3>2, <3>3, JobKinds, Further DEF TakeoverInv, LatestInv, Answered
  <2> QED
    BY <2>4, <2>5, <2>6, <2>7, <2>8
<1>4. ASSUME AttachCommits PROVE KInv'
  <2>1. /\ process = "up" /\ engine.job = Attach /\ engine.at = "running" /\ holds' = "kernel"
        /\ safety' = safety \cup {"committed"} /\ Emit(Milestone("Committed", Attach))
        /\ engine'.at = "committed" /\ engine'.job = Attach /\ engine'.result = engine.result
        /\ engine' \in [at : {"idle", "running", "committed", "opened", "returned"},
                         job : Jobs \cup {None}, result : Results \cup {None}]
        /\ UNCHANGED <<input, requests, reader, todo, ack, process>>
    BY <1>4, JobKinds DEF AttachCommits, At, KernelTypes
  <2>2. /\ ~Unread /\ Attach \notin Elems(todo) /\ ~Answered(Attach)
        /\ "remote" \in safety /\ "pending" \in safety /\ MayClaim /\ ~released /\ ~handoff
        /\ "committed" \notin safety /\ phase = "Started"
    BY <1>0, <2>1, JobKinds DEF OpenerInv, OnePlace, PastTodo, SafetyInv, SettledInv, MayClaim,
           Attaching, Idle, LetGo, NoKernel, Live, MilestoneInv, Attaching
  <2>3. MilestoneSaid("Committed", Attach)
    BY <2>1, SaysMilestone, JobKinds DEF OnePlace, Milestones
  <2>4. Heralded(messages)
    BY <2>2 DEF Heralded, Answered, Elems
  <2>5. /\ ~Unread' /\ ~Refused /\ ~Gone /\ ~LetGo /\ (Attaching' <=> Attaching)
    BY <1>0, <2>1, <2>2, JobKinds
       DEF MayClaim, Unread, Attaching, Refused, Gone, LetGo, NoKernel, Quiet
  <2>6. KernelTypes' /\ PlaceInv' /\ SafetyInv' /\ MilestoneInv'
    BY <1>0, <2>1, <2>2, <2>3, <2>4, <2>5, JobKinds
       DEF KernelTypes, PlaceInv, SafetyInv, Attaching, MilestoneInv, Milestones, MilestoneSaid
  <2>7. OpenerInv'
    BY <1>0, <2>1, <2>2, <2>3, <2>4, <2>5, JobKinds DEF OpenerInv, Unread, MilestoneSaid
  <2>8. OnePlace'
    <3>1. PastQueue(Attach) /\ engine.job = Attach
      BY <2>1 DEF PastQueue, PastPump, PastRequests, PastReader, PastTodo, Answered
    <3> QED
      BY <1>0, <2>1, <2>3, <3>1, JobKinds
         DEF OnePlace, PastQueue, PastPump, PastRequests, PastReader, PastTodo, MilestoneSaid
  <2>9. AnswerInv' /\ SettledInv'
    BY <1>0, <2>1, <2>2, <2>3, <2>4, <2>5, JobKinds DEF AnswerInv, SettledInv, MilestoneSaid
  <2>10. EndInv' /\ ConfirmInv'
    BY <1>0, <2>1, <2>2, <2>3, <2>4, <2>5, JobKinds DEF EndInv, PastQueue, PastPump, PastRequests,
           PastReader, PastTodo, Answered, Results, ConfirmInv, MilestoneSaid
  <2>11. TakeoverInv'
    BY <1>0, <2>1 DEF TakeoverInv
  <2> QED
    BY <2>6, <2>7, <2>8, <2>9, <2>10, <2>11
<1>5. ASSUME AttachStops PROVE KInv'
  <2>1. /\ process = "up" /\ engine.job = Attach /\ engine.at = "committed"
        /\ Emit(Milestone("Opened", Attach))
        /\ engine'.at = "opened" /\ engine'.job = Attach /\ engine'.result = engine.result
        /\ engine' \in [at : {"idle", "running", "committed", "opened", "returned"},
                         job : Jobs \cup {None}, result : Results \cup {None}]
        /\ UNCHANGED <<input, requests, reader, safety, todo, holds, ack, process>>
    BY <1>5, JobKinds DEF AttachStops, At, KernelTypes
  <2>2. /\ ~Unread /\ Attach \notin Elems(todo) /\ ~Answered(Attach)
        /\ "remote" \in safety /\ "pending" \in safety /\ MayClaim /\ ~released /\ ~handoff
        /\ "committed" \in safety
    BY <1>0, <2>1, JobKinds DEF OpenerInv, OnePlace, PastTodo, SafetyInv, SettledInv, MayClaim,
           Attaching, Idle, LetGo, NoKernel, Live
  <2>3. MilestoneSaid("Opened", Attach)
    BY <2>1, SaysMilestone, JobKinds DEF OnePlace, Milestones
  <2>4. /\ ~Unread' /\ ~Refused /\ ~Gone /\ ~LetGo /\ (Attaching' <=> Attaching)
    BY <1>0, <2>1, <2>2, JobKinds
       DEF MayClaim, Unread, Attaching, Refused, Gone, LetGo, NoKernel, Quiet
  <2>5. KernelTypes' /\ PlaceInv' /\ SafetyInv' /\ MilestoneInv'
    BY <1>0, <2>1, <2>2, <2>3, <2>4, JobKinds
       DEF KernelTypes, PlaceInv, SafetyInv, Attaching, MilestoneInv, Milestones, MilestoneSaid
  <2>6. OnePlace' /\ OpenerInv'
    BY <1>0, <2>1, <2>2, <2>3, <2>4, JobKinds DEF OnePlace, PastQueue, PastPump, PastRequests,
           PastReader, PastTodo, Answered, OpenerInv, Unread, MilestoneSaid
  <2>7. AnswerInv' /\ SettledInv'
    BY <1>0, <2>1, <2>2, <2>3, <2>4, JobKinds DEF AnswerInv, SettledInv, MilestoneSaid
  <2>8. EndInv' /\ ConfirmInv'
    BY <1>0, <2>1, <2>2, <2>3, <2>4, JobKinds DEF EndInv, PastQueue, PastPump, PastRequests,
           PastReader, PastTodo, Answered, Results, ConfirmInv, MilestoneSaid
  <2>9. TakeoverInv'
    BY <1>0, <2>1, <2>2 DEF TakeoverInv
  <2> QED
    BY <2>5, <2>6, <2>7, <2>8, <2>9
<1>6. ASSUME AttachFailsLate PROVE KInv'
  <2>1. /\ process = "up" /\ engine.job = Attach /\ engine.at \in {"committed", "opened"}
        /\ "remote" \in safety /\ "pending" \in safety
        /\ safety' = (safety \cup {"preserved"}) \ {"pending"} /\ engine'.at = "returned"
        /\ engine'.job = Attach
        /\ engine'.result = "err" /\ "committed" \in safety
        /\ engine' \in [at : {"idle", "running", "committed", "opened", "returned"},
                         job : Jobs \cup {None}, result : Results \cup {None}]
        /\ UNCHANGED <<input, requests, reader, todo, holds, ack, process, messages>>
    BY <1>6, JobKinds DEF AttachFailsLate, At, FinishedAttach, Preserved, Returns, Results,
           KernelTypes, SafetyInv, Attaching
  <2>2. /\ ~Unread /\ Attach \notin Elems(todo) /\ ~Answered(Attach)
        /\ "remote" \in safety /\ "pending" \in safety /\ MayClaim /\ ~released /\ ~handoff
    BY <1>0, <2>1, JobKinds DEF OpenerInv, OnePlace, PastTodo, SafetyInv, SettledInv, MayClaim,
           Attaching, Idle, LetGo, NoKernel, Live
  <2>3. /\ ~MayClaim' /\ ~Unread' /\ ~Attaching' /\ Carried
    BY <1>0, <2>1, <2>2, JobKinds
       DEF MayClaim, Unread, Attaching, Refused, Gone, LetGo, NoKernel, Quiet, Carried
  <2>4. KernelTypes' /\ PlaceInv' /\ SafetyInv' /\ MilestoneInv'
    BY <1>0, <2>1, <2>2, <2>3, JobKinds
       DEF KernelTypes, PlaceInv, Results, SafetyInv, Attaching, MilestoneInv, Carried
  <2>5. OnePlace' /\ OpenerInv'
    BY <1>0, <2>1, <2>2, <2>3, JobKinds DEF OnePlace, PastQueue, PastPump, PastRequests,
           PastReader, PastTodo, Answered, OpenerInv, Unread, Carried
  <2>6. AnswerInv' /\ SettledInv'
    BY <1>0, <2>1, <2>2, <2>3, JobKinds
       DEF AnswerInv, Refused, Answered, IsDone, Results, SettledInv, Carried
  <2>7. EndInv' /\ ConfirmInv'
    BY <1>0, <2>1, <2>2, <2>3, JobKinds DEF EndInv, PastQueue, PastPump, PastRequests, PastReader,
           PastTodo, Answered, ConfirmInv, Carried
  <2>8. TakeoverInv'
    <3>1. \A t \in Jobs : /\ PastRequests(t)' <=> PastRequests(t)
                          /\ PastPump(t)' <=> PastPump(t)
                          /\ PastReader(t)' <=> PastReader(t)
                          /\ PastTodo(t)' <=> PastTodo(t)
      BY <1>0, <2>1, <2>2, JobKinds DEF PastPump, PastRequests, PastReader, PastTodo, Answered
    <3>2. takeover \in Changes \cup {None} /\ (takeover # None => takeover \in Jobs)
      BY JobKinds DEF KernelTypes
    <3>3. Loose' => Loose
      BY <1>0, <2>1 DEF Loose
    <3> QED
      BY <1>0, <2>1, <2>2, <3>1, <3>2, <3>3, JobKinds, Further DEF TakeoverInv, LatestInv, Answered
  <2> QED
    BY <2>4, <2>5, <2>6, <2>7, <2>8
<1>7. ASSUME AttachPanics PROVE KInv'
  <2>1. /\ process = "up" /\ engine.job = Attach
        /\ engine.at \in {"running", "committed", "opened"}
        /\ "remote" \in safety /\ "pending" \in safety
        /\ safety' = (safety \cup {"preserved"}) \ {"pending"} /\ engine'.at = "returned"
        /\ engine'.job = Attach
        /\ engine'.result = "recovery" /\ holds' \in {holds, "kernel"}
        /\ engine' \in [at : {"idle", "running", "committed", "opened", "returned"},
                         job : Jobs \cup {None}, result : Results \cup {None}]
        /\ UNCHANGED <<input, requests, reader, todo, ack, process, messages>>
    BY <1>7, JobKinds DEF AttachPanics, At, FinishedAttach, Preserved, Returns, Results,
           KernelTypes, SafetyInv, Attaching
  <2>2. /\ ~Unread /\ Attach \notin Elems(todo) /\ ~Answered(Attach)
        /\ "remote" \in safety /\ "pending" \in safety /\ MayClaim /\ ~released /\ ~handoff
    BY <1>0, <2>1, JobKinds DEF OpenerInv, OnePlace, PastTodo, SafetyInv, SettledInv, MayClaim,
           Attaching, Idle, LetGo, NoKernel, Live
  <2>3. /\ ~MayClaim' /\ ~Unread' /\ ~Attaching' /\ Carried
    BY <1>0, <2>1, <2>2, JobKinds
       DEF MayClaim, Unread, Attaching, Refused, Gone, LetGo, NoKernel, Quiet, Carried
  <2>4. KernelTypes' /\ PlaceInv' /\ SafetyInv' /\ MilestoneInv'
    BY <1>0, <2>1, <2>2, <2>3, JobKinds
       DEF KernelTypes, PlaceInv, Results, SafetyInv, Attaching, MilestoneInv, Carried
  <2>5. OnePlace' /\ OpenerInv'
    BY <1>0, <2>1, <2>2, <2>3, JobKinds DEF OnePlace, PastQueue, PastPump, PastRequests,
           PastReader, PastTodo, Answered, OpenerInv, Unread, Carried
  <2>6. AnswerInv' /\ SettledInv'
    BY <1>0, <2>1, <2>2, <2>3, JobKinds
       DEF AnswerInv, Refused, Answered, IsDone, Results, SettledInv, Carried
  <2>7. EndInv' /\ ConfirmInv'
    BY <1>0, <2>1, <2>2, <2>3, JobKinds DEF EndInv, PastQueue, PastPump, PastRequests, PastReader,
           PastTodo, Answered, ConfirmInv, Carried
  <2>8. TakeoverInv'
    <3>1. \A t \in Jobs : /\ PastRequests(t)' <=> PastRequests(t)
                          /\ PastPump(t)' <=> PastPump(t)
                          /\ PastReader(t)' <=> PastReader(t)
                          /\ PastTodo(t)' <=> PastTodo(t)
      BY <1>0, <2>1, <2>2, JobKinds DEF PastPump, PastRequests, PastReader, PastTodo, Answered
    <3>2. takeover \in Changes \cup {None} /\ (takeover # None => takeover \in Jobs)
      BY JobKinds DEF KernelTypes
    <3>3. Loose' => Loose
      BY <1>0, <2>1 DEF Loose
    <3> QED
      BY <1>0, <2>1, <2>2, <3>1, <3>2, <3>3, JobKinds, Further DEF TakeoverInv, LatestInv, Answered
  <2> QED
    BY <2>4, <2>5, <2>6, <2>7, <2>8
<1>8. ASSUME AttachReports PROVE KInv'
  <2>1. /\ process = "up" /\ engine.job = Attach /\ engine.at = "opened"
        /\ "remote" \in safety /\ "pending" \in safety
        /\ safety' = safety \ {"pending"} /\ engine'.at = "returned" /\ engine'.job = Attach
        /\ engine'.result = "ok" /\ "committed" \in safety
        /\ engine' \in [at : {"idle", "running", "committed", "opened", "returned"},
                         job : Jobs \cup {None}, result : Results \cup {None}]
        /\ UNCHANGED <<input, requests, reader, todo, holds, ack, process, messages>>
    BY <1>8, JobKinds DEF AttachReports, At, FinishedAttach, Preserved, Returns, Results,
           KernelTypes, SafetyInv, Attaching
  <2>2. /\ ~Unread /\ Attach \notin Elems(todo) /\ ~Answered(Attach)
        /\ "remote" \in safety /\ "pending" \in safety /\ MayClaim /\ ~released /\ ~handoff
    BY <1>0, <2>1, JobKinds DEF OpenerInv, OnePlace, PastTodo, SafetyInv, SettledInv, MayClaim,
           Attaching, Idle, LetGo, NoKernel, Live
  <2>3. /\ ~MayClaim' /\ ~Unread' /\ ~Attaching' /\ Carried
    BY <1>0, <2>1, <2>2, JobKinds
       DEF MayClaim, Unread, Attaching, Refused, Gone, LetGo, NoKernel, Quiet, Carried
  <2>4. KernelTypes' /\ PlaceInv' /\ SafetyInv' /\ MilestoneInv'
    BY <1>0, <2>1, <2>2, <2>3, JobKinds
       DEF KernelTypes, PlaceInv, Results, SafetyInv, Attaching, MilestoneInv, Carried
  <2>5. OnePlace' /\ OpenerInv'
    BY <1>0, <2>1, <2>2, <2>3, JobKinds DEF OnePlace, PastQueue, PastPump, PastRequests,
           PastReader, PastTodo, Answered, OpenerInv, Unread, Carried
  <2>6. AnswerInv' /\ SettledInv'
    BY <1>0, <2>1, <2>2, <2>3, JobKinds
       DEF AnswerInv, Refused, Answered, IsDone, Results, SettledInv, Carried
  <2>7. EndInv' /\ ConfirmInv'
    BY <1>0, <2>1, <2>2, <2>3, JobKinds DEF EndInv, PastQueue, PastPump, PastRequests, PastReader,
           PastTodo, Answered, ConfirmInv, Carried
  <2>8. TakeoverInv'
    <3>1. \A t \in Jobs : /\ PastRequests(t)' <=> PastRequests(t)
                          /\ PastPump(t)' <=> PastPump(t)
                          /\ PastReader(t)' <=> PastReader(t)
                          /\ PastTodo(t)' <=> PastTodo(t)
      BY <1>0, <2>1, <2>2, JobKinds DEF PastPump, PastRequests, PastReader, PastTodo, Answered
    <3>2. takeover \in Changes \cup {None} /\ (takeover # None => takeover \in Jobs)
      BY JobKinds DEF KernelTypes
    <3>3. Loose' => Loose
      BY <1>0, <2>1 DEF Loose
    <3> QED
      BY <1>0, <2>1, <2>2, <3>1, <3>2, <3>3, JobKinds, Further DEF TakeoverInv, LatestInv, Answered
  <2> QED
    BY <2>4, <2>5, <2>6, <2>7, <2>8
<1>9. ASSUME NEW j \in Changes, ChangeRuns(j) PROVE KInv'
  <2>1. /\ process = "up" /\ engine.job = j /\ engine.at = "running"
        /\ holds' \in {holds, "none", "other"}
        /\ messages' = messages \/ Emit(Milestone("TargetReplaced", j))
        /\ engine'.at = "returned" /\ engine'.job = j /\ engine'.result \in {"ok", "err"}
        /\ engine' \in [at : {"idle", "running", "committed", "opened", "returned"},
                         job : Jobs \cup {None}, result : Results \cup {None}]
        /\ UNCHANGED <<input, requests, reader, safety, todo, ack, process>>
    BY <1>9, JobKinds DEF ChangeRuns, At, Returns, KernelTypes, Results
  <2>2. /\ messages' \in Seq(MessageType) /\ AnsweredOnce(messages')
        /\ Heralded(messages) => Heralded(messages')
        /\ \A k \in Jobs : Answered(k)' <=> Answered(k)
        /\ \A k \in Jobs, s \in Results :
             Done(k, s) \in Elems(messages') <=> Done(k, s) \in Elems(messages)
        /\ \A k \in Jobs, m \in {"Committed", "Opened"} :
             Milestone(m, k) \in Elems(messages') <=> Milestone(m, k) \in Elems(messages)
    <3>1. CASE messages' = messages
      BY <3>1 DEF Answered, OnePlace, KernelTypes
    <3>2. CASE Emit(Milestone("TargetReplaced", j))
      BY <3>2, SaysMilestone, JobKinds DEF OnePlace, Milestones, MilestoneSaid
    <3> QED
      BY <2>1, <3>1, <3>2
  <2>3. /\ j \in Jobs /\ j # Attach /\ j # None /\ j \notin Ends /\ ~Unread
    BY <2>1, JobKinds DEF OpenerInv, Idle
  <2>4. /\ ~Unread' /\ (Attaching' <=> Attaching) /\ ~LetGo /\ Carried
    BY <1>0, <2>1, <2>3, JobKinds
       DEF MayClaim, Unread, Attaching, Refused, Gone, LetGo, NoKernel, Quiet, Carried
  <2>5. KernelTypes' /\ PlaceInv' /\ SafetyInv' /\ MilestoneInv'
    BY <1>0, <2>1, <2>2, <2>3, <2>4, JobKinds
       DEF KernelTypes, PlaceInv, Results, SafetyInv, Attaching, MilestoneInv, Carried
  <2>6. OnePlace' /\ OpenerInv'
    BY <1>0, <2>1, <2>2, <2>3, <2>4, JobKinds DEF OnePlace, PastQueue, PastPump, PastRequests,
           PastReader, PastTodo, Answered, OpenerInv, Unread, Idle, Carried
  <2>7. AnswerInv' /\ SettledInv'
    BY <1>0, <2>1, <2>2, <2>3, <2>4, JobKinds DEF AnswerInv, Results, SettledInv, Carried
  <2>8. EndInv' /\ ConfirmInv'
    BY <1>0, <2>1, <2>2, <2>3, <2>4, JobKinds DEF EndInv, PastQueue, PastPump, PastRequests,
           PastReader, PastTodo, Answered, Results, ConfirmInv, Carried
  <2>9. TakeoverInv'
    <3>1. \A t \in Jobs : /\ PastRequests(t)' <=> PastRequests(t)
                          /\ PastPump(t)' <=> PastPump(t)
                          /\ PastReader(t)' <=> PastReader(t)
                          /\ PastTodo(t)' <=> PastTodo(t)
      BY <1>0, <2>1, <2>2, <2>3, JobKinds DEF PastPump, PastRequests, PastReader, PastTodo
    <3>2. takeover \in Changes \cup {None} /\ (takeover # None => takeover \in Jobs)
      BY JobKinds DEF KernelTypes
    <3>3. Loose' => Loose
      BY <1>0, <2>1 DEF Loose
    <3> QED
      BY <1>0, <2>1, <2>2, <2>3, <3>1, <3>2, <3>3, JobKinds, Further
         DEF TakeoverInv, LatestInv, Results
  <2> QED
    BY <2>5, <2>6, <2>7, <2>8, <2>9
<1>10. ASSUME NEW j \in Ends, EndRuns(j) PROVE KInv'
  <2>1. /\ process = "up" /\ engine.job = j /\ engine.at = "running"
        /\ holds' \in {holds, "none"}
        /\ engine'.at = "returned" /\ engine'.job = j
        /\ \/ engine'.result = "ok" /\ holds' = "none" /\ safety' = safety \ {"remote"}
           \/ engine'.result = "err" /\ safety' = safety
           \/ engine'.result = "err" /\ safety' = safety \cup {"preserved"}
        /\ engine' \in [at : {"idle", "running", "committed", "opened", "returned"},
                         job : Jobs \cup {None}, result : Results \cup {None}]
        /\ UNCHANGED <<input, requests, reader, todo, ack, process, messages>>
    <3>1. engine \in [at : {"idle", "running", "committed", "opened", "returned"},
                     job : Jobs \cup {None}, result : Results \cup {None}]
      BY DEF KernelTypes
    <3>2. At("running", j) /\ (Returns("ok") \/ Returns("err"))
      BY <1>10 DEF EndRuns
    <3>3. engine' \in [at : {"idle", "running", "committed", "opened", "returned"},
              job : Jobs \cup {None}, result : Results \cup {None}]
      BY <3>1, <3>2 DEF Returns, Results
    <3>4. /\ engine'.at = "returned" /\ engine'.job = engine.job
          /\ Returns("ok") => engine'.result = "ok"
          /\ Returns("err") => engine'.result = "err"
      BY <3>1, <3>2 DEF Returns
    <3> QED
      BY <1>10, <3>2, <3>3, <3>4 DEF EndRuns, At, Preserved
  <2>2. /\ holds' \in {"none", "kernel", "other"}
        /\ safety' \subseteq {"remote", "pending", "committed", "preserved"}
    BY <2>1 DEF KernelTypes
  <2>3. /\ j \in Jobs /\ j # Attach /\ j # None /\ j \notin Changes /\ ~Unread
        /\ phase = "Opened"
        /\ "committed" \in safety /\ pump.job \notin Jobs /\ Elems(requests) \cap Jobs = {}
        /\ Elems(todo) \cap Jobs = {}
    BY <2>1, JobKinds DEF OpenerInv, EndInv, MilestoneInv, Idle, PastQueue, PastPump,
           PastRequests, PastReader, PastTodo
  <2>4. /\ ~Unread' /\ ~Attaching' /\ ~LetGo /\ ~MayClaim' /\ ~Refused /\ ~Gone
        /\ engine'.result = "ok" => LetGo'
    BY <1>0, <2>1, <2>3, JobKinds
       DEF MayClaim, Unread, Attaching, Refused, Gone, LetGo, NoKernel, Quiet
  <2>5. KernelTypes' /\ PlaceInv' /\ SafetyInv' /\ MilestoneInv'
    BY <1>0, <2>1, <2>2, <2>3, <2>4, JobKinds
       DEF KernelTypes, PlaceInv, Results, SafetyInv, Attaching, MilestoneInv
  <2>6. OnePlace' /\ OpenerInv'
    BY <1>0, <2>1, <2>2, <2>3, <2>4, JobKinds DEF OnePlace, PastQueue, PastPump, PastRequests,
           PastReader, PastTodo, Answered, OpenerInv, Unread
  <2>7. AnswerInv' /\ SettledInv'
    BY <1>0, <2>1, <2>2, <2>3, <2>4, JobKinds DEF AnswerInv, SettledInv
  <2>8. EndInv' /\ ConfirmInv'
    BY <1>0, <2>1, <2>2, <2>3, <2>4, JobKinds
       DEF EndInv, PastQueue, PastPump, PastRequests, PastReader, PastTodo, Answered, ConfirmInv
  <2>9. TakeoverInv'
    BY <1>0, <2>1, <2>3 DEF TakeoverInv
  <2> QED
    BY <2>5, <2>6, <2>7, <2>8, <2>9
<1>11. ASSUME EngineReturns PROVE KInv'
  <2>1. /\ process = "up" /\ engine.at = "returned" /\ engine.job \in Jobs
        /\ engine.result \in Results
        /\ Emit(Done(engine.job, engine.result)) /\ engine' = Idle /\ ~Answered(engine.job)
        /\ engine'.at = "idle" /\ engine'.job = None
        /\ engine' \in [at : {"idle", "running", "committed", "opened", "returned"},
                         job : Jobs \cup {None}, result : Results \cup {None}]
        /\ UNCHANGED <<input, requests, reader, safety, todo, holds, ack, process>>
    BY <1>11, JobKinds DEF EngineReturns, PlaceInv, KernelTypes, Idle, OnePlace
  <2>2. DoneSaid(engine.job, engine.result)
    BY <2>1, SaysDone DEF OnePlace
  <2>3. ~Unread /\ engine.job # None
    BY <2>1, JobKinds DEF OpenerInv, Idle
  <2>4. /\ ~Unread'
        /\ Carried
    BY <1>0, <2>1, <2>3, JobKinds
       DEF MayClaim, Unread, Attaching, Refused, Gone, LetGo, NoKernel, Quiet, Carried
  <2>5. KernelTypes' /\ PlaceInv' /\ SafetyInv' /\ MilestoneInv'
    BY <1>0, <2>1, <2>2, <2>3, <2>4, JobKinds
       DEF KernelTypes, PlaceInv, SafetyInv, Attaching, MilestoneInv, Milestones, DoneSaid, Carried
  <2>6. OnePlace' /\ OpenerInv'
    BY <1>0, <2>1, <2>2, <2>3, <2>4, JobKinds DEF OnePlace, PastQueue, PastPump, PastRequests,
           PastReader, PastTodo, Answered, OpenerInv, Unread, DoneSaid, Carried
  <2>7. AnswerInv' /\ SettledInv'
    BY <1>0, <2>1, <2>2, <2>3, <2>4, JobKinds DEF AnswerInv, Results, SettledInv, DoneSaid, Carried
  <2>8. EndInv'
    BY <1>0, <2>1, <2>2, <2>3, <2>4, JobKinds DEF EndInv, PastQueue, PastPump, PastRequests,
           PastReader, PastTodo, Answered, Results, DoneSaid, Carried
  <2>9. ConfirmInv'
    <3>1. \A k \in Ends : Done(k, "ok") \in Elems(messages) => Done(k, "ok") \in Elems(messages')
      BY <2>2, JobKinds DEF Results, DoneSaid
    <3>2. input = "open" /\ engine.job \in Ends /\ Live(state) => engine.job \in waiters
      BY <2>1 DEF ConfirmInv
    <3>3. input = "open" /\ engine.result = "ok" => Done(engine.job, "ok") \in Elems(messages')
      BY <2>2 DEF DoneSaid
    <3> QED
      BY <1>0, <2>1, <2>3, <3>1, <3>2, <3>3, JobKinds DEF ConfirmInv
  <2>10. TakeoverInv'
    <3>1. \A t \in Jobs : /\ PastRequests(t)' => PastRequests(t)
                          /\ PastPump(t)' => PastPump(t)
                          /\ PastReader(t)' => PastReader(t)
                          /\ PastTodo(t)' => PastTodo(t)
      BY <1>0, <2>1, <2>2, <2>3, JobKinds DEF PastPump, PastRequests, PastReader, PastTodo, DoneSaid
    <3>2. takeover \in Changes \cup {None} /\ (takeover # None => takeover \in Jobs)
      BY JobKinds DEF KernelTypes
    <3>3. Loose' => Loose
      BY <1>0, <2>1, JobKinds DEF Loose
    <3>4. engine.job \in Changes => engine.result # "recovery"
      BY <2>1, JobKinds DEF PlaceInv
    <3> QED
      BY <1>0, <2>1, <2>2, <2>3, <3>1, <3>2, <3>3, JobKinds, Further, <3>4
         DEF TakeoverInv, LatestInv, Results, DoneSaid
  <2> QED
    BY <2>5, <2>6, <2>7, <2>8, <2>9, <2>10
<1>12. ASSUME EngineReleases PROVE KInv'
  <2>1. /\ process = "up" /\ engine.at = "idle" /\ engine = Idle /\ todo # <<>>
        /\ Head(todo) = Release
        /\ todo' = Tail(todo) /\ engine.job = None /\ ack' \in {"yes", "no"}
        /\ \/ ack' = "no" /\ holds' \in {holds, "none"} /\ safety' = safety
           \/ ack' = "yes" /\ holds' = "none" /\ safety' = safety \ {"remote"} /\ ~Hold
        /\ UNCHANGED <<input, requests, reader, engine, process, messages>>
    BY <1>12 DEF EngineReleases, Takes, PlaceInv, Idle
  <2>2. /\ todo' \in Seq(Jobs \cup {Release})
        /\ Shorter(todo, todo')
    BY <2>1, HeadTaken DEF KernelTypes, OnePlace, OpenerInv
  <2>3. /\ \A k \in Jobs : k \in Elems(todo') <=> k \in Elems(todo)
        /\ Elems(todo') \cap Jobs = Elems(todo) \cap Jobs
        /\ Elems(todo') \cap Changes = Elems(todo) \cap Changes
        /\ Release \in Elems(todo) /\ reader.at \in {"retaining", "releasing"}
        /\ input = "closed"
    BY <2>1, <2>2, JobKinds DEF PlaceInv, Shorter
  <2>4. /\ Carried
    BY <1>0, <2>1, <2>2, <2>3, JobKinds
       DEF MayClaim, Unread, Attaching, Refused, Gone, LetGo, NoKernel, Quiet, Shorter, Carried
  <2>5. /\ holds' \in {"none", "kernel", "other"} /\ ack' \in {"none", "yes", "no"}
        /\ safety' \subseteq {"remote", "pending", "committed", "preserved"}
    BY <2>1 DEF KernelTypes
  <2>6. KernelTypes' /\ PlaceInv' /\ SafetyInv' /\ MilestoneInv'
    BY <1>0, <2>1, <2>2, <2>3, <2>4, <2>5, JobKinds DEF KernelTypes, PlaceInv, SafetyInv,
           Attaching, Hold, OpenerInv, MilestoneInv, Shorter, Carried
  <2>7. OnePlace' /\ OpenerInv'
    BY <1>0, <2>1, <2>2, <2>3, <2>4, <2>5, JobKinds DEF OnePlace, PastQueue, PastPump,
           PastRequests, PastReader, PastTodo, Answered, OpenerInv, Unread, Shorter, Carried
  <2>8. AnswerInv' /\ SettledInv'
    BY <1>0, <2>1, <2>2, <2>3, <2>4, <2>5, JobKinds DEF AnswerInv, SettledInv, Shorter, Carried
  <2>9. EndInv' /\ ConfirmInv'
    BY <1>0, <2>1, <2>2, <2>3, <2>4, <2>5, JobKinds DEF EndInv, PastQueue, PastPump, PastRequests,
           PastReader, PastTodo, Answered, ConfirmInv, Shorter, Carried
  <2>10. TakeoverInv'
    <3>1. \A t \in Jobs : /\ PastRequests(t)' <=> PastRequests(t)
                          /\ PastPump(t)' <=> PastPump(t)
                          /\ PastReader(t)' <=> PastReader(t)
                          /\ PastTodo(t)' <=> PastTodo(t)
      BY <1>0, <2>1, <2>2, <2>3, JobKinds
         DEF PastPump, PastRequests, PastReader, PastTodo, Answered, Shorter
    <3>2. takeover \in Changes \cup {None} /\ (takeover # None => takeover \in Jobs)
      BY JobKinds DEF KernelTypes
    <3>3. Loose' => Loose
      BY <1>0, <2>1, <2>3 DEF Loose
    <3> QED
      BY <1>0, <2>1, <2>2, <2>3, <3>1, <3>2, <3>3, JobKinds, Further
         DEF TakeoverInv, LatestInv, Answered, Shorter
  <2> QED
    BY <2>6, <2>7, <2>8, <2>9, <2>10
<1> QED
  BY <1>1, <1>2, <1>3, <1>4, <1>5, <1>6, <1>7, <1>8, <1>9, <1>10, <1>11, <1>12 DEF EngineStep

(* The steps of the pump.                                                   *)
LEMMA PumpKeeps ==
    ASSUME KInv, Pump
    PROVE  KInv'
<1> USE DEF KInv
<1>1. ASSUME PumpRefuses PROVE KInv'
  <2>1. /\ queue # <<>> /\ Head(queue) \in Jobs /\ queue' = Tail(queue)
        /\ Answer(Head(queue), Refuses(Head(queue))) /\ Refuses(Head(queue)) # None
        /\ UNCHANGED <<input, requests, reader, safety, todo, engine, holds, ack, process,
                       messages, state, phase, released, handoff, takeover, withheld, child,
                       pump>>
    <3>1. queue # <<>> /\ queue \in Seq(Jobs \cup {Preserve}) /\ Head(queue) # Preserve
      BY <1>1 DEF PumpRefuses, KernelTypes
    <3>2. Head(queue) \in Jobs
      BY <3>1
    <3> QED
      BY <1>1, <3>1, <3>2 DEF PumpRefuses, workerVars, sessionVars
  <2>2. /\ queue' \in Seq(Jobs \cup {Preserve})
        /\ Shorter(queue, queue')
    BY <2>1, HeadTaken DEF KernelTypes, OnePlace, OpenerInv
  <2>3. /\ Refuses(Head(queue)) \in {"recovery", "stale"}
        /\ Head(queue) = Attach /\ Refuses(Head(queue)) = "stale" => ~Live(state)
    BY <2>1, RefusesWith
  <2>4. AnswerSent(Head(queue), Refuses(Head(queue)))
    BY <2>1, <2>3, Answers DEF Results
  <2>5. /\ \A j \in Jobs : j \in Elems(queue') => j \in Elems(queue)
        /\ Head(queue) \in Elems(queue) /\ ~PastQueue(Head(queue)) /\ call[Attach] # "idle"
        /\ \A j \in Jobs : call'[j] = "idle" <=> call[j] = "idle"
        /\ Unread' => Unread
    BY <2>1, <2>2, <2>4, JobKinds DEF OnePlace, OpenerInv, Unread, Shorter, AnswerSent
  <2>6. Carried
    BY <2>1, <2>2, <2>5
       DEF MayClaim, Attaching, Refused, Gone, LetGo, NoKernel, Quiet, Shorter, Carried
  <2>7. KernelTypes' /\ PlaceInv' /\ SafetyInv' /\ MilestoneInv'
    BY <2>1, <2>2, <2>3, <2>4, <2>5, <2>6, JobKinds
       DEF KernelTypes, PlaceInv, SafetyInv, Attaching, MilestoneInv, Shorter, AnswerSent, Carried
  <2>8. OnePlace' /\ OpenerInv'
    BY <2>1, <2>2, <2>3, <2>4, <2>5, <2>6, JobKinds DEF OnePlace, PastQueue, PastPump,
           PastRequests, PastReader, PastTodo, Answered, OpenerInv, Unread, Shorter, AnswerSent,
           Carried
  <2>9. SettledInv'
    BY <2>1, <2>2, <2>3, <2>4, <2>5, <2>6, JobKinds DEF SettledInv, Shorter, AnswerSent, Carried
  <2>10. AnswerInv'
    BY <2>1, <2>3, <2>4, <2>6, JobKinds DEF AnswerInv, AnswerSent, Carried
  <2>11. EndInv'
    BY <2>1, <2>2, <2>3, <2>4, <2>5, <2>6, JobKinds DEF EndInv, PastQueue, PastPump, PastRequests,
           PastReader, PastTodo, Answered, Shorter, AnswerSent, Carried
  <2>12. ConfirmInv'
    <3>1. \A j \in Ends : \/ j \in Elems(queue') \/ pump.job = j \/ j \in Elems(requests)
                          \/ j \in Elems(todo) \/ engine.job = j
                          => j # Head(queue)
      BY <2>2, <2>5, JobKinds DEF PastQueue, PastPump, PastRequests, PastReader, PastTodo, Shorter
    <3>2. \A j \in Ends : Done(j, "ok") \in Elems(messages) => j # Head(queue)
      BY <2>5, JobKinds, Forms
         DEF PastQueue, PastPump, PastRequests, PastReader, PastTodo, Answered, IsDone, Results
    <3> QED
      BY <2>1, <2>2, <2>4, <3>1, <3>2, JobKinds DEF ConfirmInv, Shorter, AnswerSent
  <2>13. TakeoverInv'
    BY <2>1 DEF TakeoverInv, LatestInv, Loose, PastPump, PastRequests, PastReader, PastTodo,
           Answered
  <2> QED
    BY <2>7, <2>8, <2>9, <2>10, <2>11, <2>12, <2>13
<1>2. ASSUME PumpTakes PROVE KInv'
  <2>1. /\ queue # <<>> /\ queue' = Tail(queue) /\ pump.at = "taking"
        /\ pump'.at = "writing" /\ pump'.job = Head(queue)
        /\ takeover' = (IF Head(queue) \in Changes THEN Head(queue) ELSE takeover)
        /\ state' = (IF Head(queue) \in Changes THEN "Retired"
                     ELSE IF Head(queue) \in Ends THEN "KernelUnresolved" ELSE state)
        /\ UNCHANGED <<input, requests, reader, safety, todo, engine, holds, ack, process,
                       messages, phase, released, handoff, withheld, child, waiters, call,
                       reply>>
    BY <1>2 DEF PumpTakes, Claimed, workerVars
  <2>2. /\ queue' \in Seq(Jobs \cup {Preserve})
        /\ Shorter(queue, queue')
        /\ Head(queue) \in Jobs \cup {Preserve}
        /\ pump' \in [at : {"taking", "writing", "stopped"}, job : Jobs \cup {Preserve, None}]
    <3>1. Head(queue) \in Jobs \cup {Preserve}
      BY <2>1, Shortened DEF KernelTypes
    <3>2. pump' = [at |-> "writing", job |-> Head(queue)]
      BY <1>2 DEF PumpTakes
    <3> QED
      BY <2>1, <3>1, <3>2, HeadTaken DEF KernelTypes, OnePlace, OpenerInv
  <2>3. /\ pump.job = None
        /\ Head(queue) \in Jobs => Live(state) /\ state # "KernelUnresolved" /\ ~released
        /\ state' \in States /\ (Live(state') <=> Live(state))
    <3>1. Head(queue) \in Jobs => Live(state) /\ state # "KernelUnresolved"
      BY <1>2, RefusesWith, JobKinds DEF PumpTakes
    <3> QED
      BY <2>1, <2>2, <3>1, JobKinds DEF PlaceInv, SettledInv, KernelTypes, Live, States, Shorter
  <2>4. /\ \A j \in Jobs : j \in Elems(queue) <=> j \in Elems(queue') \/ j = Head(queue)
        /\ Head(queue) \in Jobs => ~PastQueue(Head(queue)) /\ call[Attach] # "idle"
        /\ \A j \in Jobs : /\ PastPump(j)' <=> PastPump(j)
                           /\ PastRequests(j)' <=> PastRequests(j)
                           /\ PastReader(j)' <=> PastReader(j)
                           /\ PastTodo(j)' <=> PastTodo(j)
                           /\ Answered(j)' <=> Answered(j)
        /\ (Unread' <=> Unread) /\ (Attaching' <=> Attaching)
    BY <2>1, <2>2, <2>3, JobKinds DEF OnePlace, OpenerInv, Unread, Attaching, PastPump,
           PastRequests, PastReader, PastTodo, Answered, Shorter
  <2>5. /\ MayClaim' <=> MayClaim
        /\ Refused => Refused'
        /\ Gone => Gone'
        /\ LetGo /\ Head(queue) \notin Jobs => LetGo'
    BY <2>1, <2>4 DEF MayClaim, Refused, Gone, LetGo, NoKernel, Quiet
  <2>6. KernelTypes' /\ PlaceInv' /\ SafetyInv' /\ MilestoneInv'
    BY <2>1, <2>2, <2>3, <2>4, <2>5, JobKinds
       DEF KernelTypes, PlaceInv, SafetyInv, Attaching, MilestoneInv, Shorter
  <2>7. OnePlace'
    <3>1. \A j \in Jobs : PastQueue(j)' <=> PastPump(j) \/ j = Head(queue)
      BY <2>1, <2>4 DEF PastQueue
    <3> QED
      BY <2>1, <2>2, <2>3, <2>4, <3>1, Further, JobKinds DEF OnePlace, Shorter
  <2>8. OpenerInv'
    <3>1. Head(queue) \in Jobs => Attach \notin Elems(queue')
      BY <2>2 DEF Shorter
    <3> QED
      BY <2>1, <2>2, <2>4, <3>1, JobKinds DEF OpenerInv, Shorter
  <2>9. AnswerInv' /\ SettledInv'
    BY <2>1, <2>2, <2>3, <2>4, <2>5, JobKinds DEF AnswerInv, SettledInv, Shorter
  <2>10. EndInv'
    <3>1. \A j \in Jobs : PastQueue(j)' <=> PastPump(j) \/ j = Head(queue)
      BY <2>1, <2>4 DEF PastQueue
    <3>2. \A j \in Ends : PastPump(j) => Head(queue) \notin Jobs
      BY <2>3, Further DEF EndInv
    <3>3. \A j \in Ends : /\ j \in Elems(requests) => PastPump(j)
                          /\ j \in Elems(todo) => PastPump(j)
                          /\ engine.job = j => PastPump(j)
                          /\ Done(j, "ok") \in Elems(messages) => PastPump(j)
      BY JobKinds, Forms DEF PastPump, PastRequests, PastReader, PastTodo, Answered, IsDone, Results
    <3>4. \A j \in Ends : reply[j] = "ok" => Head(queue) \notin Jobs
      BY <2>3 DEF EndInv
    <3>5. Head(queue) \notin Jobs => state' = state
      BY <2>1, JobKinds
    <3> QED
      BY <2>1, <2>2, <2>3, <2>4, <2>5, <3>1, <3>2, <3>3, <3>4, <3>5, JobKinds, Further
         DEF EndInv, Shorter
  <2>11. ConfirmInv'
    <3>1. pump.job \notin Ends
      BY <2>3, JobKinds
    <3> QED
      BY <2>1, <2>3, <2>4, <3>1, JobKinds DEF ConfirmInv
  <2>12. TakeoverInv'
    <3>1. CASE Head(queue) \in Changes
      <4>1. takeover' = Head(queue) /\ Head(queue) \in Jobs /\ Head(queue) # None
            /\ pump'.job = takeover'
        BY <2>1, <3>1, JobKinds
      <4>2. /\ ~PastPump(takeover') /\ ~PastRequests(takeover') /\ ~PastReader(takeover')
            /\ ~PastTodo(takeover') /\ ~Answered(takeover') /\ takeover' # reader.job
            /\ takeover' \notin Elems(requests) /\ takeover' \notin Elems(todo)
        BY <2>4, <4>1 DEF PastQueue, PastPump, PastRequests, PastReader, PastTodo, Answered
      <4>3. Done(takeover', "recovery") \notin Elems(messages)
        BY <4>2 DEF Answered, IsDone, Results
      <4>4. LatestLast(requests, takeover') /\ LatestLast(todo, takeover')
        BY <4>2, NotInIt
      <4>5. /\ ~PastPump(takeover)' /\ ~PastRequests(takeover)' /\ ~PastReader(takeover)'
            /\ ~PastTodo(takeover)' /\ ~Answered(takeover)'
        BY <2>1, <4>2 DEF PastPump, PastRequests, PastReader, PastTodo, Answered
      <4> QED
        BY <2>1, <4>1, <4>2, <4>3, <4>4, <4>5 DEF TakeoverInv, LatestInv, Loose
    <3>2. CASE Head(queue) \notin Changes
      BY <2>1, <3>2, JobKinds
         DEF TakeoverInv, LatestInv, Loose, PastPump, PastRequests, PastReader, PastTodo, Answered
    <3> QED
      BY <3>1, <3>2
  <2> QED
    BY <2>6, <2>7, <2>8, <2>9, <2>10, <2>11, <2>12
<1>3. ASSUME PumpWrites, process = "up" PROVE KInv'
  <2>1. /\ requests' = Append(requests, pump.job) /\ pump.job # None
        /\ pump'.at = "taking" /\ pump'.job = None /\ process = "up"
        /\ pump' \in [at : {"taking", "writing", "stopped"}, job : Jobs \cup {Preserve, None}]
        /\ UNCHANGED <<input, reader, safety, todo, engine, holds, ack, process, messages,
                       state, phase, released, handoff, takeover, withheld, child, queue,
                       waiters, call, reply>>
    BY <1>3 DEF PumpWrites, sessionVars, PlaceInv
  <2>2. pump.job \in Jobs \cup {Preserve} /\ (pump.job \in Jobs => ~PastPump(pump.job))
    BY <2>1 DEF KernelTypes, OnePlace
  <2>3. /\ requests' \in Seq(Jobs \cup {Preserve})
        /\ Elems(requests') = Elems(requests) \cup {pump.job}
        /\ Once(requests') /\ OpenerFirst(requests') /\ EndLast(requests')
        /\ LatestLast(requests, takeover) => LatestLast(requests', takeover)
    <3>1. pump.job \in Jobs => pump.job \notin Elems(requests)
      BY <2>2 DEF PastPump
    <3>2. pump.job = Attach => Elems(requests) \cap Jobs = {}
      BY DEF OpenerInv
    <3>3. pump.job \in Jobs => Elems(requests) \cap Ends = {}
      BY DEF EndInv
    <3>4. pump.job \in Changes => takeover \notin Elems(requests)
      BY <3>1, JobKinds DEF TakeoverInv
    <3> QED
      BY <2>1, <2>2, <3>1, <3>2, <3>3, <3>4, Appended DEF KernelTypes, OnePlace, OpenerInv, EndInv
  <2>4. /\ \A j \in Jobs : j \in Elems(requests') <=> j \in Elems(requests) \/ j = pump.job
        /\ (Unread' <=> Unread) /\ (Attaching' <=> Attaching)
        /\ \A j \in Jobs : /\ PastQueue(j)' <=> PastQueue(j)
                           /\ PastPump(j)' <=> PastPump(j) \/ j = pump.job
                           /\ PastRequests(j)' <=> PastRequests(j)
                           /\ PastReader(j)' <=> PastReader(j)
                           /\ PastTodo(j)' <=> PastTodo(j)
                           /\ Answered(j)' <=> Answered(j)
    BY <2>1, <2>3, JobKinds
       DEF Unread, Attaching, PastQueue, PastPump, PastRequests, PastReader, PastTodo, Answered
  <2>5. Carried
    BY <2>1, <2>3, <2>4, JobKinds DEF MayClaim, Refused, Gone, LetGo, NoKernel, Quiet, Carried
  <2>6. KernelTypes' /\ PlaceInv' /\ SafetyInv' /\ MilestoneInv'
    BY <2>1, <2>2, <2>3, <2>4, <2>5, JobKinds
       DEF KernelTypes, PlaceInv, SafetyInv, Attaching, MilestoneInv, Carried
  <2>7. OpenerInv'
    BY <2>1, <2>2, <2>3, <2>4, <2>5, JobKinds DEF OpenerInv, Unread, Carried
  <2>8. OnePlace'
    <3>1. pump.job \in Jobs => ~PastRequests(pump.job) /\ pump.job \notin Elems(requests)
      BY <2>2 DEF PastPump
    <3> QED
      BY <2>1, <2>3, <2>4, <3>1, JobKinds, Further DEF OnePlace
  <2>9. AnswerInv' /\ SettledInv'
    BY <2>1, <2>2, <2>3, <2>4, <2>5, JobKinds DEF AnswerInv, SettledInv, Carried
  <2>10. ConfirmInv'
    BY <2>1, <2>2, <2>3, <2>4, <2>5, JobKinds DEF ConfirmInv, Carried
  <2>11. EndInv'
    <3>1. pump.job \in Ends => PastQueue(pump.job)
      BY JobKinds DEF PastQueue
    <3> QED
      BY <2>1, <2>3, <2>4, <2>5, <3>1, JobKinds DEF EndInv, Carried
  <2>12. TakeoverInv'
    <3>1. takeover \in Changes \cup {None} /\ (takeover # None => takeover \in Jobs)
      BY JobKinds DEF KernelTypes
    <3>2. pump.job \in Changes => takeover = pump.job /\ ~PastRequests(takeover)
      BY <2>2, JobKinds, Further DEF TakeoverInv
    <3>3. pump.job \notin Changes => Elems(requests') \cap Changes = Elems(requests) \cap Changes
      BY <2>3
    <3>4. Loose' <=> Loose
      BY <2>1 DEF Loose
    <3> QED
      BY <2>1, <2>3, <2>4, <3>1, <3>2, <3>3, <3>4, JobKinds DEF TakeoverInv, LatestInv
  <2> QED
    BY <2>6, <2>7, <2>8, <2>9, <2>10, <2>11, <2>12
<1>4. ASSUME PumpWrites, process # "up" PROVE KInv'
  <2>1. /\ pump'.at = "stopped" /\ pump'.job = None /\ process # "up" /\ queue' = <<>>
        /\ pump.job # None
        /\ pump' \in [at : {"taking", "writing", "stopped"}, job : Jobs \cup {Preserve, None}]
        /\ UNCHANGED <<input, requests, reader, safety, todo, engine, holds, ack, process,
                       messages, state, phase, released, handoff, takeover, withheld,
                       child>>
    BY <1>4 DEF PumpWrites, sessionVars, PlaceInv
  <2>2. /\ waiters' \subseteq waiters /\ waiters \subseteq waiters' \cup {pump.job}
        /\ call' \in [Jobs -> {"idle", "waiting", "expiring", "answered", "settled"}]
        /\ reply' \in [Jobs -> Results \cup {"lost", "stale", "timeout", None}]
        /\ \A k \in Jobs : k # pump.job => call'[k] = call[k] /\ reply'[k] = reply[k]
        /\ \A k \in Jobs : call'[k] = call[k] \/ (call[k] = "waiting" /\ call'[k] = "answered")
        /\ \A k \in Jobs : reply'[k] = reply[k] \/ reply'[k] = "lost"
    <3>1. CASE pump.job = Preserve
      BY <1>4, <3>1 DEF PumpWrites, KernelTypes
    <3>2. CASE pump.job # Preserve
      <4>1. pump.job \in Jobs /\ Answer(pump.job, "lost")
        BY <1>4, <2>1, <3>2 DEF PumpWrites, KernelTypes
      <4> QED
        BY <4>1, Answers DEF AnswerSent
    <3> QED
      BY <3>1, <3>2
  <2>3. /\ \A j \in Jobs : call'[j] = "idle" <=> call[j] = "idle"
        /\ Elems(queue') = {} /\ Once(queue') /\ OpenerFirst(queue')
        /\ Unread' => Unread
    BY <2>1, <2>2, Empty, JobKinds DEF Unread
  <2>4. Carried
    BY <2>1, <2>3, JobKinds DEF MayClaim, Attaching, Refused, Gone, LetGo, NoKernel, Quiet, Carried
  <2>5. /\ pump.job = Attach => Gone
        /\ \A j \in Jobs : Done(j, "ok") \in Elems(messages) => j # pump.job
    BY <2>1, Forms DEF OpenerInv, Unread, Gone, OnePlace, PastPump, PastRequests, PastReader,
           PastTodo, Answered, IsDone, Results
  <2>6. PlaceInv' /\ SafetyInv' /\ MilestoneInv'
    BY <2>1, <2>2, <2>3, <2>4, <2>5, JobKinds
       DEF PlaceInv, SafetyInv, Attaching, MilestoneInv, Carried
  <2>7. KernelTypes'
    BY <2>1, <2>2, Empty DEF KernelTypes
  <2>8. OnePlace' /\ OpenerInv'
    BY <2>1, <2>2, <2>3, <2>4, <2>5, JobKinds DEF OnePlace, PastQueue, PastPump, PastRequests,
           PastReader, PastTodo, Answered, OpenerInv, Unread, Carried
  <2>9. AnswerInv' /\ SettledInv'
    BY <2>1, <2>2, <2>3, <2>4, <2>5, JobKinds DEF AnswerInv, SettledInv, Carried
  <2>10. EndInv' /\ ConfirmInv'
    BY <2>1, <2>2, <2>3, <2>4, <2>5, JobKinds DEF EndInv, PastQueue, PastPump, PastRequests,
           PastReader, PastTodo, Answered, ConfirmInv, Carried
  <2>11. TakeoverInv'
    BY <2>1, JobKinds
       DEF TakeoverInv, LatestInv, Loose, PastPump, PastRequests, PastReader, PastTodo, Answered
  <2> QED
    BY <2>6, <2>7, <2>8, <2>9, <2>10, <2>11
<1>5. PumpWrites => process = "up" \/ process # "up"
  OBVIOUS
<1> QED
  BY <1>1, <1>2, <1>3, <1>4, <1>5 DEF Pump

(* The steps of the supervisor's reader.                                    *)
LEMMA HearingKeeps ==
    ASSUME KInv, Reader
    PROVE  KInv'
<1> USE DEF KInv
<1>1. ASSUME HearsCommitted PROVE KInv'
  <2>1. /\ input = "open" /\ messages # <<>> /\ messages' = Tail(messages)
        /\ Head(messages).kind = "Committed"
        /\ phase' = (IF phase = "Started" THEN "Committed" ELSE phase)
        /\ UNCHANGED <<input, requests, reader, safety, todo, engine, holds, ack, process,
                       released, handoff, takeover, withheld, child, queue, pump, waiters,
                       call, reply>>
    BY <1>1 DEF HearsCommitted, Hears, callVars
  <2>2. FirstHeard
    BY <2>1, HearsFirst DEF OnePlace
  <2>3. /\ Head(messages) = Milestone("Committed", Attach) /\ "committed" \in safety
        /\ \A j \in Jobs : ~IsDone(Head(messages), j)
        /\ phase' \in {"Committed", "Opened"} /\ (phase = "Opened" => phase' = "Opened")
        /\ ~Unread
    <3>1. /\ Head(messages).job \in Jobs
          /\ Head(messages) = Milestone("Committed", Head(messages).job)
      BY <2>1, <2>2, Forms DEF Milestones, FirstHeard
    <3>2. Head(messages).job = Attach /\ "committed" \in safety
      BY <2>2, <3>1, JobKinds DEF MilestoneInv, FirstHeard
    <3>3. \A j \in Jobs : ~IsDone(Head(messages), j)
      BY <2>1, Forms DEF IsDone
    <3> QED
      BY <2>1, <3>1, <3>2, <3>3 DEF KernelTypes, OpenerInv
  <2>4. /\ state' \in States /\ (Live(state') <=> Live(state))
        /\ state' = "KernelUnresolved" <=> state = "KernelUnresolved"
    BY <1>1 DEF HearsCommitted, PromoteOpened, KernelTypes, States, Live
  <2>5. (Unread' <=> Unread) /\ (MayClaim' <=> MayClaim) /\ Carried
    BY <2>1 DEF Unread, MayClaim, Attaching, Refused, Gone, LetGo, NoKernel, Quiet, Carried
  <2>6. KernelTypes' /\ PlaceInv' /\ SafetyInv' /\ MilestoneInv'
    BY <2>1, <2>2, <2>3, <2>4, <2>5, JobKinds
       DEF KernelTypes, PlaceInv, SafetyInv, Attaching, MilestoneInv, FirstHeard, Carried
  <2>7. OnePlace' /\ OpenerInv'
    BY <2>1, <2>2, <2>3, <2>4, <2>5, JobKinds DEF OnePlace, PastQueue, PastPump, PastRequests,
           PastReader, PastTodo, Answered, OpenerInv, Unread, FirstHeard, Carried
  <2>8. AnswerInv' /\ SettledInv'
    BY <2>1, <2>2, <2>3, <2>4, <2>5, JobKinds DEF AnswerInv, SettledInv, FirstHeard, Carried
  <2>9. EndInv'
    BY <2>1, <2>2, <2>3, <2>4, <2>5, JobKinds DEF EndInv, PastQueue, PastPump, PastRequests,
           PastReader, PastTodo, Answered, FirstHeard, Carried
  <2>10. ConfirmInv'
    <3>1. \A j \in Ends : Done(j, "ok") \in Elems(messages) => Done(j, "ok") \in Elems(messages')
      BY <2>2, <2>3, JobKinds, Forms DEF IsDone, Results, FirstHeard
    <3> QED
      BY <2>1, <2>4, <3>1 DEF ConfirmInv
  <2>11. TakeoverInv'
    BY <2>1, <2>3 DEF TakeoverInv
  <2> QED
    BY <2>6, <2>7, <2>8, <2>9, <2>10, <2>11
<1>2. ASSUME HearsOpened PROVE KInv'
  <2>1. /\ input = "open" /\ messages # <<>> /\ messages' = Tail(messages)
        /\ Head(messages).kind = "Opened"
        /\ phase' = "Opened"
        /\ UNCHANGED <<input, requests, reader, safety, todo, engine, holds, ack, process,
                       released, handoff, takeover, withheld, child, queue, pump, waiters,
                       call, reply>>
    BY <1>2 DEF HearsOpened, Hears, callVars
  <2>2. FirstHeard
    BY <2>1, HearsFirst DEF OnePlace
  <2>3. /\ Head(messages) = Milestone("Opened", Attach) /\ "committed" \in safety
        /\ \A j \in Jobs : ~IsDone(Head(messages), j)
        /\ phase' \in {"Committed", "Opened"} /\ (phase = "Opened" => phase' = "Opened")
        /\ ~Unread
    <3>1. /\ Head(messages).job \in Jobs
          /\ Head(messages) = Milestone("Opened", Head(messages).job)
      BY <2>1, <2>2, Forms DEF Milestones, FirstHeard
    <3>2. Head(messages).job = Attach /\ "committed" \in safety
      BY <2>2, <3>1, JobKinds DEF MilestoneInv, FirstHeard
    <3>3. \A j \in Jobs : ~IsDone(Head(messages), j)
      BY <2>1, Forms DEF IsDone
    <3> QED
      BY <2>1, <3>1, <3>2, <3>3 DEF KernelTypes, OpenerInv
  <2>4. /\ state' \in States /\ (Live(state') <=> Live(state))
        /\ state' = "KernelUnresolved" <=> state = "KernelUnresolved"
    BY <1>2 DEF HearsOpened, PromoteOpened, KernelTypes, States, Live
  <2>5. (Unread' <=> Unread) /\ (MayClaim' <=> MayClaim) /\ Carried
    BY <2>1 DEF Unread, MayClaim, Attaching, Refused, Gone, LetGo, NoKernel, Quiet, Carried
  <2>6. KernelTypes' /\ PlaceInv' /\ SafetyInv' /\ MilestoneInv'
    BY <2>1, <2>2, <2>3, <2>4, <2>5, JobKinds
       DEF KernelTypes, PlaceInv, SafetyInv, Attaching, MilestoneInv, FirstHeard, Carried
  <2>7. OnePlace' /\ OpenerInv'
    BY <2>1, <2>2, <2>3, <2>4, <2>5, JobKinds DEF OnePlace, PastQueue, PastPump, PastRequests,
           PastReader, PastTodo, Answered, OpenerInv, Unread, FirstHeard, Carried
  <2>8. AnswerInv' /\ SettledInv'
    BY <2>1, <2>2, <2>3, <2>4, <2>5, JobKinds DEF AnswerInv, SettledInv, FirstHeard, Carried
  <2>9. EndInv'
    BY <2>1, <2>2, <2>3, <2>4, <2>5, JobKinds DEF EndInv, PastQueue, PastPump, PastRequests,
           PastReader, PastTodo, Answered, FirstHeard, Carried
  <2>10. ConfirmInv'
    <3>1. \A j \in Ends : Done(j, "ok") \in Elems(messages) => Done(j, "ok") \in Elems(messages')
      BY <2>2, <2>3, JobKinds, Forms DEF IsDone, Results, FirstHeard
    <3> QED
      BY <2>1, <2>4, <3>1 DEF ConfirmInv
  <2>11. TakeoverInv'
    BY <2>1, <2>3 DEF TakeoverInv
  <2> QED
    BY <2>6, <2>7, <2>8, <2>9, <2>10, <2>11
<1>3. ASSUME HearsReplaced PROVE KInv'
  <2>1. /\ input = "open" /\ messages # <<>> /\ messages' = Tail(messages)
        /\ Head(messages).kind = "TargetReplaced"
        /\ UNCHANGED <<input, requests, reader, safety, todo, engine, holds, ack, process,
                       phase, released, handoff, takeover, withheld, child, queue, pump,
                       waiters, call, reply>>
    BY <1>3 DEF HearsReplaced, Hears, callVars
  <2>2. FirstHeard
    BY <2>1, HearsFirst DEF OnePlace
  <2>3. /\ \A j \in Jobs : ~IsDone(Head(messages), j)
        /\ \A j \in Jobs, n \in {"Committed", "Opened"} : Head(messages) # Milestone(n, j)
        /\ \A j \in Jobs, r \in Results : Head(messages) # Done(j, r)
        /\ ~Unread
    BY <2>1, Forms DEF IsDone, OpenerInv, Milestones
  <2>4. /\ state' \in States /\ (Live(state') <=> Live(state))
        /\ state' = "KernelUnresolved" <=> state = "KernelUnresolved"
    BY <1>3 DEF HearsReplaced, AcceptsHandle, KernelTypes, States, Live
  <2>5. (Unread' <=> Unread) /\ (MayClaim' <=> MayClaim) /\ Carried
    BY <2>1 DEF Unread, MayClaim, Attaching, Refused, Gone, LetGo, NoKernel, Quiet, Carried
  <2>6. KernelTypes' /\ PlaceInv' /\ SafetyInv' /\ MilestoneInv'
    BY <2>1, <2>2, <2>3, <2>4, <2>5, JobKinds DEF KernelTypes, PlaceInv, SafetyInv, Attaching,
           MilestoneInv, Milestones, FirstHeard, Carried
  <2>7. OnePlace' /\ OpenerInv'
    BY <2>1, <2>2, <2>3, <2>4, <2>5, JobKinds DEF OnePlace, PastQueue, PastPump, PastRequests,
           PastReader, PastTodo, Answered, OpenerInv, Unread, FirstHeard, Carried
  <2>8. AnswerInv' /\ SettledInv'
    BY <2>1, <2>2, <2>3, <2>4, <2>5, JobKinds DEF AnswerInv, SettledInv, FirstHeard, Carried
  <2>9. EndInv'
    BY <2>1, <2>2, <2>3, <2>4, <2>5, JobKinds DEF EndInv, PastQueue, PastPump, PastRequests,
           PastReader, PastTodo, Answered, FirstHeard, Carried
  <2>10. ConfirmInv'
    <3>1. \A j \in Ends : Done(j, "ok") \in Elems(messages) => Done(j, "ok") \in Elems(messages')
      BY <2>2, <2>3, JobKinds DEF Results, FirstHeard
    <3> QED
      BY <2>1, <2>4, <3>1 DEF ConfirmInv
  <2>11. TakeoverInv'
    <3>1. takeover \in Changes \cup {None} /\ (takeover # None => takeover \in Jobs)
      BY JobKinds DEF KernelTypes
    <3>2. Loose' <=> Loose
      BY <2>1 DEF Loose
    <3>3. \A j \in Jobs : /\ PastQueue(j)' => PastQueue(j)
                          /\ PastPump(j)' => PastPump(j)
                          /\ PastRequests(j)' => PastRequests(j)
                          /\ PastReader(j)' => PastReader(j)
                          /\ PastTodo(j)' => PastTodo(j)
      BY <2>1, <2>2 DEF PastQueue, PastPump, PastRequests, PastReader, PastTodo, FirstHeard
    <3> QED
      BY <2>1, <2>2, <3>1, <3>2, <3>3, JobKinds DEF TakeoverInv, LatestInv, FirstHeard
  <2> QED
    BY <2>6, <2>7, <2>8, <2>9, <2>10, <2>11
<1>4. ASSUME HearsVerdict PROVE KInv'
  <2>1. /\ input = "open" /\ messages # <<>> /\ messages' = Tail(messages)
        /\ Head(messages).kind = "Done"
        /\ Head(messages).job = takeover /\ Head(messages).result = "recovery"
        /\ takeover' = None
        /\ UndoTakeover /\ Answer(takeover, "recovery")
        /\ UNCHANGED <<input, requests, reader, safety, todo, engine, holds, ack, phase,
                       handoff, queue, pump>>
    BY <1>4 DEF HearsVerdict, Hears, Verdict
  <2>2. FirstHeard
    BY <2>1, HearsFirst DEF OnePlace
  <2>3. DoneHeard
    BY <2>1, <2>2, HearsDone DEF FirstHeard
  <2>4. takeover \in Changes /\ takeover \in Jobs /\ takeover # Attach /\ takeover # None
        /\ takeover \notin Ends
    BY <2>1, <2>3, JobKinds DEF KernelTypes, DoneHeard
  <2>5. AnswerSent(takeover, "recovery")
        /\ \A j \in Jobs : call'[j] = "idle" <=> call[j] = "idle"
    BY <2>1, <2>4, Answers DEF AnswerSent, Results
  <2>6. Settles
    <3>1. CASE withheld
      <4>1. ~Live(state) \/ LetGo
        <5>1. Refused => LetGo
          BY <2>1, <2>2, <2>3, NothingTookOver DEF FirstHeard, DoneHeard
        <5>2. Gone => LetGo
          BY DEF Gone, LetGo, NoKernel
        <5> QED
          BY <3>1, <5>1, <5>2 DEF AnswerInv
      <4>2. withheld' = FALSE /\ FailUnclaimed
        BY <2>1, <3>1 DEF UndoTakeover
      <4> QED
        BY <4>1, <4>2, Fails
    <3>2. CASE ~withheld
      <4>1. /\ state' = IF state = "Retired" THEN OpenerState ELSE state
            /\ withheld' = withheld /\ released' = released /\ child' = child
            /\ process' = process
        BY <2>1, <3>2 DEF UndoTakeover
      <4>2. OpenerState \in {"Opening", "Attaching", "Open"}
        BY DEF OpenerState, KernelTypes
      <4> QED
        BY <3>2, <4>1, <4>2 DEF Settles, KernelTypes, States, Live
    <3> QED
      BY <3>1, <3>2
  <2>7. (Unread' <=> Unread) /\ (MayClaim' <=> MayClaim) /\ Carried
    BY <2>1, <2>5, <2>6, JobKinds DEF Unread, MayClaim, Attaching, Refused, Gone, LetGo, NoKernel,
           Quiet, AnswerSent, Settles, Carried
  <2>8. /\ pump.job \notin Changes
        /\ "committed" \notin safety =>
             /\ ~Loose /\ Elems(requests) \cap Changes = {} /\ reader.job \notin Changes
             /\ Elems(todo) \cap Changes = {} /\ engine.job \notin Changes
    <3>1. Answered(takeover) /\ Done(takeover, "recovery") \in Elems(messages)
      BY <2>1, <2>2, <2>3 DEF FirstHeard, DoneHeard
    <3>2. pump.job \in Changes => pump.job = takeover /\ ~PastPump(takeover)
      BY <2>4 DEF TakeoverInv, OnePlace
    <3> QED
      BY <3>1, <3>2, Further DEF TakeoverInv, LatestInv
  <2>9. PlaceInv' /\ SafetyInv' /\ MilestoneInv'
    BY <2>1, <2>2, <2>3, <2>4, <2>5, <2>6, <2>7, <2>8, JobKinds DEF PlaceInv, SafetyInv,
           Attaching, MilestoneInv, Milestones, FirstHeard, DoneHeard, AnswerSent, Settles, Carried
  <2>10. KernelTypes'
    BY <2>1, <2>2, <2>5, <2>6 DEF KernelTypes, FirstHeard, AnswerSent, Settles
  <2>11. OnePlace' /\ OpenerInv'
    BY <2>1, <2>2, <2>3, <2>4, <2>5, <2>6, <2>7, <2>8, JobKinds DEF OnePlace, PastQueue, PastPump,
           PastRequests, PastReader, PastTodo, Answered, OpenerInv, Unread, FirstHeard, DoneHeard,
           AnswerSent, Settles, Carried
  <2>12. AnswerInv' /\ SettledInv'
    BY <2>1, <2>2, <2>3, <2>4, <2>5, <2>6, <2>7, <2>8, JobKinds
       DEF AnswerInv, SettledInv, FirstHeard, DoneHeard, AnswerSent, Settles, Carried
  <2>13. EndInv'
    BY <2>1, <2>2, <2>3, <2>4, <2>5, <2>6, <2>7, <2>8, JobKinds DEF EndInv, PastQueue, PastPump,
           PastRequests, PastReader, PastTodo, Answered, FirstHeard, DoneHeard, AnswerSent,
           Settles, Carried
  <2>14. ConfirmInv'
    <3>1. \A j \in Ends : Done(j, "ok") \in Elems(messages) => Done(j, "ok") \in Elems(messages')
      BY <2>1, <2>2, <2>3, <2>4, JobKinds, Forms DEF Results, FirstHeard, DoneHeard
    <3>2. \A j \in Ends : j \in waiters => j \in waiters'
      BY <2>4, <2>5 DEF AnswerSent
    <3> QED
      BY <2>1, <2>6, <3>1, <3>2 DEF ConfirmInv, Settles
  <2>15. TakeoverInv'
    <3>1. takeover' = None /\ None \notin Elems(requests) /\ None \notin Elems(todo)
      BY <2>1, JobKinds DEF KernelTypes, Elems
    <3>2. LatestLast(requests, None) /\ LatestLast(todo, None)
      BY <3>1, NotInIt
    <3>3. Loose' <=> Loose
      BY <2>1 DEF Loose
    <3> QED
      BY <2>1, <2>8, <3>1, <3>2, <3>3 DEF TakeoverInv, LatestInv
  <2> QED
    BY <2>9, <2>10, <2>11, <2>12, <2>13, <2>14, <2>15
<1>5. ASSUME HearsReleased PROVE KInv'
  <2>1. /\ input = "open" /\ messages # <<>> /\ messages' = Tail(messages)
        /\ Head(messages).kind = "Done"
        /\ Head(messages).job \in Ends \cap waiters /\ Head(messages).result = "ok"
        /\ released' = TRUE /\ state' = (IF Live(state) THEN "Closed" ELSE state) /\ Kill
        /\ waiters' = {}
        /\ UNCHANGED <<input, requests, reader, safety, todo, engine, holds, ack, phase,
                       handoff, takeover, withheld, queue, pump>>
    BY <1>5 DEF HearsReleased, Hears, Confirmed
  <2>2. FirstHeard
    BY <2>1, HearsFirst DEF OnePlace
  <2>3. DoneHeard
    BY <2>1, <2>2, HearsDone DEF FirstHeard
  <2>4. /\ call' \in [Jobs -> {"idle", "waiting", "expiring", "answered", "settled"}]
        /\ reply' \in [Jobs -> Results \cup {"lost", "stale", "timeout", None}]
        /\ \A k \in Jobs : call'[k] = call[k] \/ (call[k] = "waiting" /\ call'[k] = "answered")
        /\ \A k \in Jobs : reply'[k] = reply[k] \/ reply'[k] = "lost"
             \/ (k = Head(messages).job /\ reply'[k] = "ok")
    <3> DEFINE j == Head(messages).job
               lost == {k \in waiters \ {j} : call[k] = "waiting"}
    <3>1. /\ call' = [k \in Jobs |->
                   IF k \in lost \/ (k = j /\ call[k] = "waiting") THEN "answered" ELSE call[k]]
          /\ reply' = [k \in Jobs |->
                   IF k \in lost THEN "lost"
                   ELSE IF k = j /\ call[k] = "waiting" THEN "ok" ELSE reply[k]]
      BY <1>5 DEF HearsReleased
    <3> HIDE DEF j
    <3> QED
      BY <3>1 DEF KernelTypes, Results, j
  <2>5. /\ LetGo /\ (process = "up" => holds = "none")
        /\ state' \in States /\ ~Live(state')
    BY <2>1, <2>2, <2>3 DEF EndInv, LetGo, Quiet, KernelTypes, States, Live, FirstHeard, DoneHeard
  <2>6. /\ child' \in {"held", "taken", "verified", "none"}
        /\ (child' = "verified" <=> child = "verified")
        /\ process' \in {"up", "exited", "killed", "handedOff", "crashed"}
        /\ process' = process \/ (process = "up" /\ process' = "killed" /\ holds = "none")
    BY <2>1, <2>5, Kills
  <2>7. (Unread' <=> Unread) /\ (MayClaim' <=> MayClaim) /\ Carried
    BY <2>1, <2>4, <2>6, JobKinds
       DEF Unread, MayClaim, Attaching, Refused, Gone, LetGo, NoKernel, Quiet, Carried
  <2>8. KernelTypes' /\ PlaceInv' /\ SafetyInv' /\ MilestoneInv'
    BY <2>1, <2>2, <2>3, <2>4, <2>5, <2>6, <2>7, JobKinds DEF KernelTypes, PlaceInv, SafetyInv,
           Attaching, MilestoneInv, Milestones, FirstHeard, DoneHeard, Carried
  <2>9. OnePlace' /\ OpenerInv'
    BY <2>1, <2>2, <2>3, <2>4, <2>5, <2>6, <2>7, JobKinds DEF OnePlace, PastQueue, PastPump,
           PastRequests, PastReader, PastTodo, Answered, OpenerInv, Unread, FirstHeard, DoneHeard,
           Carried
  <2>10. AnswerInv' /\ SettledInv'
    BY <2>1, <2>2, <2>3, <2>4, <2>5, <2>6, <2>7, JobKinds
       DEF AnswerInv, SettledInv, FirstHeard, DoneHeard, Carried
  <2>11. EndInv'
    BY <2>1, <2>2, <2>3, <2>4, <2>5, <2>6, <2>7, JobKinds DEF EndInv, PastQueue, PastPump,
           PastRequests, PastReader, PastTodo, Answered, FirstHeard, DoneHeard, Carried
  <2>12. ConfirmInv'
    BY <2>1, <2>5 DEF ConfirmInv
  <2>13. TakeoverInv'
    <3>1. takeover \in Changes \cup {None} /\ (takeover # None => takeover \in Jobs)
      BY JobKinds DEF KernelTypes
    <3>2. Loose' <=> Loose
      BY <2>1 DEF Loose
    <3>3. \A j \in Jobs : /\ PastQueue(j)' => PastQueue(j)
                          /\ PastPump(j)' => PastPump(j)
                          /\ PastRequests(j)' => PastRequests(j)
                          /\ PastReader(j)' => PastReader(j)
                          /\ PastTodo(j)' => PastTodo(j)
      BY <2>1, <2>2 DEF PastQueue, PastPump, PastRequests, PastReader, PastTodo, FirstHeard
    <3> QED
      BY <2>1, <2>2, <3>1, <3>2, <3>3, JobKinds DEF TakeoverInv, LatestInv, FirstHeard
  <2> QED
    BY <2>8, <2>9, <2>10, <2>11, <2>12, <2>13
<1>6. ASSUME HearsReply PROVE KInv'
  <2>1. /\ input = "open" /\ messages # <<>> /\ messages' = Tail(messages)
        /\ Head(messages).kind = "Done"
        /\ Answer(Head(messages).job, Head(messages).result)
        /\ Head(messages).job \in Ends \cap waiters => Head(messages).result # "ok"
        /\ UNCHANGED <<input, requests, reader, safety, todo, engine, holds, ack, process,
                       state, phase, released, handoff, takeover, withheld, child, queue,
                       pump>>
    BY <1>6 DEF HearsReply, Hears, Confirmed, sessionVars
  <2>2. FirstHeard
    BY <2>1, HearsFirst DEF OnePlace
  <2>3. DoneHeard
    BY <2>1, <2>2, HearsDone DEF FirstHeard
  <2>4. AnswerSent(Head(messages).job, Head(messages).result)
        /\ \A j \in Jobs : call'[j] = "idle" <=> call[j] = "idle"
    BY <2>1, <2>3, Answers DEF AnswerSent, DoneHeard
  <2>5. (Unread' <=> Unread) /\ (MayClaim' <=> MayClaim) /\ Carried
    BY <2>1, <2>4, JobKinds
       DEF Unread, MayClaim, Attaching, Refused, Gone, LetGo, NoKernel, Quiet, AnswerSent, Carried
  <2>6. /\ Head(messages).job = Attach /\ Head(messages).result = "err" /\ phase = "Started" => Refused
    BY <2>1, <2>2, <2>3 DEF AnswerInv, MilestoneInv, FirstHeard, DoneHeard
  <2>7. KernelTypes' /\ PlaceInv' /\ SafetyInv' /\ MilestoneInv'
    BY <2>1, <2>2, <2>3, <2>4, <2>5, <2>6, JobKinds DEF KernelTypes, PlaceInv, SafetyInv,
           Attaching, MilestoneInv, Milestones, FirstHeard, DoneHeard, AnswerSent, Carried
  <2>8. OnePlace' /\ OpenerInv'
    BY <2>1, <2>2, <2>3, <2>4, <2>5, <2>6, JobKinds DEF OnePlace, PastQueue, PastPump,
           PastRequests, PastReader, PastTodo, Answered, OpenerInv, Unread, FirstHeard, DoneHeard,
           AnswerSent, Carried
  <2>9. SettledInv'
    BY <2>1, <2>2, <2>3, <2>4, <2>5, <2>6, JobKinds
       DEF SettledInv, FirstHeard, DoneHeard, AnswerSent, Carried
  <2>10. AnswerInv'
    BY <2>1, <2>2, <2>3, <2>4, <2>5, <2>6, JobKinds
       DEF AnswerInv, Results, FirstHeard, DoneHeard, AnswerSent, Carried
  <2>11. EndInv'
    <3>1. \A j \in Ends : reply'[j] = "ok" => reply[j] = "ok"
      BY <2>1, <2>3, <2>4, JobKinds DEF DoneHeard, AnswerSent
    <3> QED
      BY <2>1, <2>2, <2>5, <3>1, JobKinds DEF EndInv, PastQueue, PastPump, PastRequests,
             PastReader, PastTodo, Answered, FirstHeard, Carried
  <2>12. ConfirmInv'
    <3>1. \A j \in Ends \cap waiters : Done(j, "ok") \in Elems(messages)
                                     => Done(j, "ok") \in Elems(messages') /\ j \in waiters'
      <4>1. SUFFICES ASSUME NEW j \in Ends \cap waiters, Done(j, "ok") \in Elems(messages)
                     PROVE  Done(j, "ok") \in Elems(messages') /\ j \in waiters'
        OBVIOUS
      <4>2. j \in Jobs /\ Done(j, "ok").job = j /\ Done(j, "ok").result = "ok"
        BY JobKinds, Forms DEF Results
      <4>3. Head(messages) # Done(j, "ok")
        BY <2>1, <4>2
      <4>4. Done(j, "ok") \in Elems(messages')
        BY <2>2, <4>1, <4>3 DEF FirstHeard
      <4>5. Answered(j)'
        BY <4>4 DEF Answered, IsDone, Results
      <4>6. j # Head(messages).job
        BY <2>3, <4>5 DEF DoneHeard
      <4> QED
        BY <2>4, <4>4, <4>6 DEF AnswerSent
    <3>2. \A j \in Ends : \/ j \in Elems(queue) \/ pump.job = j \/ j \in Elems(requests)
                          \/ j \in Elems(todo) \/ engine.job = j
                          => j # Head(messages).job
      BY <2>3, JobKinds
         DEF OnePlace, PastQueue, PastPump, PastRequests, PastReader, PastTodo, DoneHeard
    <3> QED
      BY <2>1, <2>4, <3>1, <3>2, JobKinds DEF ConfirmInv, AnswerSent
  <2>13. TakeoverInv'
    <3>1. takeover \in Changes \cup {None} /\ (takeover # None => takeover \in Jobs)
      BY JobKinds DEF KernelTypes
    <3>2. Loose' <=> Loose
      BY <2>1 DEF Loose
    <3>3. \A j \in Jobs : /\ PastQueue(j)' => PastQueue(j)
                          /\ PastPump(j)' => PastPump(j)
                          /\ PastRequests(j)' => PastRequests(j)
                          /\ PastReader(j)' => PastReader(j)
                          /\ PastTodo(j)' => PastTodo(j)
      BY <2>1, <2>2 DEF PastQueue, PastPump, PastRequests, PastReader, PastTodo, FirstHeard
    <3> QED
      BY <2>1, <2>2, <3>1, <3>2, <3>3, JobKinds DEF TakeoverInv, LatestInv, FirstHeard
  <2> QED
    BY <2>7, <2>8, <2>9, <2>10, <2>11, <2>12, <2>13
<1>7. ASSUME HearsLateOpen PROVE KInv'
  <2>1. /\ input = "open" /\ messages # <<>> /\ messages' = Tail(messages)
        /\ Head(messages).kind = "Done"
        /\ Head(messages).job = Attach /\ waiters' = waiters \ {Attach}
        /\ UNCHANGED <<input, requests, reader, safety, todo, engine, holds, ack, phase,
                       handoff, takeover, pump, call, reply>>
    BY <1>7 DEF HearsLateOpen, Hears, Unreceived
  <2>2. FirstHeard
    BY <2>1, HearsFirst DEF OnePlace
  <2>3. DoneHeard
    BY <2>1, <2>2, HearsDone DEF FirstHeard
  <2>4. Head(messages).result = "err" /\ phase = "Started" => Refused
    BY <2>1, <2>2, <2>3 DEF AnswerInv, MilestoneInv, FirstHeard, DoneHeard
  <2>5. SameQueue /\ Settles
    <3> DEFINE r == Head(messages).result
               refusal == Refusal(r)
    <3>1. queue' = queue => SameQueue
      BY DEF SameQueue, KernelTypes, OnePlace, OpenerInv
    <3>2. CASE refusal /\ takeover = None /\ FailUnclaimed /\ UNCHANGED <<withheld, queue>>
      <4>1. LetGo
        BY <2>4, <3>2, NothingTookOver DEF Refusal
      <4> QED
        BY <3>1, <3>2, <4>1, Fails
    <3>3. CASE /\ refusal /\ withheld' = TRUE
               /\ UNCHANGED <<state, released, child, process, queue>>
      BY <2>4, <3>1, <3>3 DEF Refusal, KernelTypes, Settles
    <3>4. CASE Keep /\ UNCHANGED queue
      BY <3>1, <3>4 DEF Keep, KernelTypes, Settles
    <3>5. CASE PreserveKernel /\ UNCHANGED <<released, withheld, child, process>>
      BY <3>5, Preserves DEF KernelTypes, Settles
    <3>6. CASE PromoteOpened /\ UNCHANGED <<released, withheld, child, process, queue>>
      BY <3>1, <3>6 DEF PromoteOpened, KernelTypes, States, Live, Settles
    <3> QED
      BY <1>7, <3>2, <3>3, <3>4, <3>5, <3>6 DEF HearsLateOpen
  <2>6. (Unread' <=> Unread) /\ (MayClaim' <=> MayClaim) /\ Carried
    BY <2>1, <2>5, JobKinds DEF Unread, MayClaim, Attaching, Refused, Gone, LetGo, NoKernel,
           Quiet, Settles, SameQueue, Carried
  <2>7. PlaceInv' /\ SafetyInv' /\ MilestoneInv'
    BY <2>1, <2>2, <2>3, <2>4, <2>5, <2>6, JobKinds DEF PlaceInv, SafetyInv, Attaching,
           MilestoneInv, Milestones, FirstHeard, DoneHeard, Settles, SameQueue, Carried
  <2>8. KernelTypes'
    BY <2>1, <2>2, <2>5 DEF KernelTypes, FirstHeard, Settles, SameQueue
  <2>9. OnePlace' /\ OpenerInv'
    BY <2>1, <2>2, <2>3, <2>4, <2>5, <2>6, JobKinds DEF OnePlace, PastQueue, PastPump,
           PastRequests, PastReader, PastTodo, Answered, OpenerInv, Unread, FirstHeard, DoneHeard,
           Settles, SameQueue, Carried
  <2>10. AnswerInv'
    BY <2>1, <2>2, <2>3, <2>4, <2>5, <2>6, JobKinds
       DEF AnswerInv, FirstHeard, DoneHeard, Settles, SameQueue, Carried
  <2>11. SettledInv'
    BY <2>1, <2>5, <2>6 DEF SettledInv, Settles, SameQueue, Carried
  <2>12. EndInv'
    BY <2>1, <2>2, <2>3, <2>4, <2>5, <2>6, JobKinds DEF EndInv, PastQueue, PastPump, PastRequests,
           PastReader, PastTodo, Answered, FirstHeard, DoneHeard, Settles, SameQueue, Carried
  <2>13. ConfirmInv'
    <3>1. \A j \in Ends : Done(j, "ok") \in Elems(messages) => Done(j, "ok") \in Elems(messages')
      BY <2>1, <2>2, <2>3, JobKinds, Forms DEF Results, FirstHeard, DoneHeard
    <3>2. \A j \in Ends : j \in waiters => j \in waiters'
      BY <2>1, JobKinds
    <3> QED
      BY <2>1, <2>5, <3>1, <3>2, JobKinds DEF ConfirmInv, Settles, SameQueue
  <2>14. TakeoverInv'
    <3>1. takeover \in Changes \cup {None} /\ (takeover # None => takeover \in Jobs)
      BY JobKinds DEF KernelTypes
    <3>2. Loose' <=> Loose
      BY <2>1 DEF Loose
    <3>3. \A j \in Jobs : /\ PastQueue(j)' => PastQueue(j)
                          /\ PastPump(j)' => PastPump(j)
                          /\ PastRequests(j)' => PastRequests(j)
                          /\ PastReader(j)' => PastReader(j)
                          /\ PastTodo(j)' => PastTodo(j)
      BY <2>1, <2>2 DEF PastQueue, PastPump, PastRequests, PastReader, PastTodo, FirstHeard
    <3> QED
      BY <2>1, <2>2, <3>1, <3>2, <3>3, JobKinds DEF TakeoverInv, LatestInv, FirstHeard
  <2> QED
    BY <2>7, <2>8, <2>9, <2>10, <2>11, <2>12, <2>13, <2>14
<1>8. ASSUME ReaderEof PROVE KInv'
  <2>1. /\ process # "up" /\ messages = <<>> /\ FailOutstanding(waiters)
        /\ UNCHANGED <<input, requests, reader, safety, todo, engine, holds, ack, process,
                       messages, phase, released, handoff, takeover, withheld, child, pump>>
    BY <1>8 DEF ReaderEof, workerVars
  <2>2. /\ SameQueue /\ state' \in States /\ (Live(state') <=> Live(state))
        /\ state' = state \/ state' = "KernelUnresolved"
        /\ Live(state) => state' = "KernelUnresolved"
    <3>1. CASE Live(state)
      <4>1. state' = "KernelUnresolved" /\ Enqueue(Preserve)
        BY <1>8, <3>1 DEF ReaderEof, EofPreserves, PreserveKernel, SettledInv
      <4> QED
        BY <3>1, <4>1, Enqueues DEF OnePlace, OpenerInv, States, Live
    <3>2. CASE ~Live(state)
      <4>1. state' = state /\ queue' = queue
        BY <1>8, <3>2 DEF ReaderEof, EofPreserves
      <4> QED
        BY <3>2, <4>1 DEF SameQueue, KernelTypes, OnePlace, OpenerInv
    <3> QED
      BY <3>1, <3>2
  <2>3. CallsEnded
    BY <2>1, Outstanding
  <2>4. (Unread' <=> Unread) /\ (MayClaim' <=> MayClaim) /\ Carried
    BY <2>1, <2>2, <2>3, JobKinds DEF Unread, MayClaim, Attaching, Refused, Gone, LetGo, NoKernel,
           Quiet, SameQueue, CallsEnded, Carried
  <2>5. PlaceInv' /\ SafetyInv' /\ MilestoneInv'
    BY <2>1, <2>2, <2>3, <2>4, JobKinds
       DEF PlaceInv, SafetyInv, Attaching, MilestoneInv, SameQueue, CallsEnded, Carried
  <2>6. KernelTypes'
    BY <2>1, <2>2, <2>3 DEF KernelTypes, SameQueue, CallsEnded
  <2>7. OnePlace' /\ OpenerInv'
    BY <2>1, <2>2, <2>3, <2>4, JobKinds DEF OnePlace, PastQueue, PastPump, PastRequests,
           PastReader, PastTodo, Answered, OpenerInv, Unread, SameQueue, CallsEnded, Carried
  <2>8. AnswerInv' /\ SettledInv'
    BY <2>1, <2>2, <2>3, <2>4, JobKinds DEF AnswerInv, SettledInv, SameQueue, CallsEnded, Carried
  <2>9. EndInv'
    BY <2>1, <2>2, <2>3, <2>4, JobKinds DEF EndInv, PastQueue, PastPump, PastRequests, PastReader,
           PastTodo, Answered, SameQueue, CallsEnded, Carried
  <2>10. ConfirmInv'
    BY <2>1, <2>2, Empty DEF ConfirmInv, SameQueue
  <2>11. TakeoverInv'
    BY <2>1 DEF TakeoverInv, LatestInv, Loose, PastPump, PastRequests, PastReader, PastTodo,
           Answered
  <2> QED
    BY <2>5, <2>6, <2>7, <2>8, <2>9, <2>10, <2>11
<1> QED
  BY <1>1, <1>2, <1>3, <1>4, <1>5, <1>6, <1>7, <1>8 DEF Reader

(* The steps of the callers.                                                *)
LEMMA CallerKeeps ==
    ASSUME KInv, Caller, Early = {}
    PROVE  KInv'
<1> USE DEF KInv
<1>1. ASSUME NEW j \in Changes \cup Ends, Submit(j) PROVE KInv'
  <2>1. /\ call[j] = "idle" /\ call[Attach] # "idle"
        /\ (j \in Ends => released \/ phase = "Opened")
        /\ UNCHANGED <<input, requests, reader, safety, todo, engine, holds, ack, process,
                       messages, state, phase, released, handoff, takeover, withheld, child,
                       pump>>
    BY <1>1 DEF Submit, workerVars, sessionVars
  <2>2. j \in Jobs /\ j # Attach /\ j # Preserve /\ j \notin Elems(queue) /\ ~PastQueue(j)
    BY <2>1, JobKinds DEF OnePlace
  <2>3. /\ call' \in [Jobs -> {"idle", "waiting", "expiring", "answered", "settled"}]
        /\ reply' \in [Jobs -> Results \cup {"lost", "stale", "timeout", None}]
        /\ \A k \in Jobs : k # j => call'[k] = call[k] /\ reply'[k] = reply[k]
        /\ call'[j] \in {"waiting", "answered"} /\ reply'[j] \in {reply[j], "lost"}
        /\ waiters' \subseteq Jobs /\ waiters \subseteq waiters' 
    BY <1>1, <2>2, ZenonT(30) DEF Submit, KernelTypes
  <2>4. /\ queue' \in Seq(Jobs \cup {Preserve}) /\ Once(queue') /\ OpenerFirst(queue')
        /\ \A k \in Jobs : k \in Elems(queue) => k \in Elems(queue')
        /\ \A k \in Jobs : k \in Elems(queue') => k \in Elems(queue) \/ (k = j /\ j \in waiters')
    <3>1. CASE pump.at = "stopped"
      <4>1. queue' = queue
        BY <1>1, <2>2, <3>1 DEF Submit, Enqueue
      <4> QED
        BY <4>1 DEF KernelTypes, OnePlace, OpenerInv
    <3>2. CASE pump.at # "stopped"
      <4>1. queue' = Append(queue, j) /\ j \in waiters'
        BY <1>1, <2>2, <3>2 DEF Submit, Enqueue
      <4>2. queue \in Seq(Jobs \cup {Preserve}) /\ j \in Jobs \cup {Preserve} /\ Once(queue)
            /\ OpenerFirst(queue)
        BY <2>2 DEF KernelTypes, OnePlace, OpenerInv
      <4> QED
        BY <2>2, <4>1, <4>2, Appended
    <3> QED
      BY <3>1, <3>2
  <2>5. (Unread' <=> Unread) /\ (MayClaim' <=> MayClaim) /\ Carried
    BY <2>1, <2>2, <2>3, <2>4, JobKinds
       DEF Unread, MayClaim, Attaching, Refused, Gone, LetGo, NoKernel, Quiet, Carried
  <2>6. KernelTypes' /\ PlaceInv' /\ SafetyInv' /\ MilestoneInv'
    BY <2>1, <2>2, <2>3, <2>4, <2>5, JobKinds
       DEF KernelTypes, PlaceInv, SafetyInv, Attaching, MilestoneInv, Carried
  <2>7. OpenerInv'
    BY <2>1, <2>2, <2>3, <2>4, <2>5, JobKinds DEF OpenerInv, Unread, Carried
  <2>8. OnePlace'
    BY <2>1, <2>2, <2>3, <2>4, JobKinds
       DEF OnePlace, PastQueue, PastPump, PastRequests, PastReader, PastTodo, Answered
  <2>9. AnswerInv' /\ SettledInv'
    BY <2>1, <2>2, <2>3, <2>4, <2>5, JobKinds DEF AnswerInv, SettledInv, Carried
  <2>10. ConfirmInv'
    BY <2>1, <2>2, <2>3, <2>4, <2>5, JobKinds DEF ConfirmInv, Carried
  <2>11. EndInv'
    BY <2>1, <2>2, <2>3, <2>4, <2>5, JobKinds, KernelCalls
       DEF EndInv, PastQueue, PastPump, PastRequests, PastReader, PastTodo, Answered, Carried
  <2>12. TakeoverInv'
    BY <2>1 DEF TakeoverInv, LatestInv, Loose, PastPump, PastRequests, PastReader, PastTodo,
           Answered
  <2> QED
    BY <2>6, <2>7, <2>8, <2>9, <2>10, <2>11, <2>12
<1>2. ASSUME SubmitAttach PROVE KInv'
  <2>1. /\ call[Attach] = "idle" /\ Elems(queue) \cap Jobs = {}
        /\ UNCHANGED <<input, requests, reader, safety, todo, engine, holds, ack, process,
                       messages, state, phase, released, handoff, takeover, withheld, child,
                       pump>>
    BY <1>2 DEF SubmitAttach, workerVars, sessionVars, OpenerInv
  <2>2. /\ Attach \in Jobs /\ Attach # Preserve /\ Attach \notin Elems(queue)
        /\ ~PastQueue(Attach) /\ Unread
        /\ holds = "none"
    BY <2>1, JobKinds DEF OnePlace, Unread, OpenerInv
  <2>3. /\ call' \in [Jobs -> {"idle", "waiting", "expiring", "answered", "settled"}]
        /\ reply' \in [Jobs -> Results \cup {"lost", "stale", "timeout", None}]
        /\ \A k \in Jobs : k # Attach => call'[k] = call[k] /\ reply'[k] = reply[k]
        /\ call'[Attach] \in {"waiting", "answered"}
        /\ reply'[Attach] \in {reply[Attach], "lost", "recovery"}
        /\ waiters' \subseteq Jobs /\ waiters \subseteq waiters'
        /\ reply'[Attach] = "lost" => reply[Attach] = "lost" \/ process # "up"
    <3>1. CASE state = "KernelUnresolved"
      BY <1>2, <2>2, <3>1 DEF SubmitAttach, KernelTypes, Results
    <3>2. CASE state # "KernelUnresolved" /\ pump.at = "stopped"
      BY <1>2, <2>2, <3>2, ZenonT(30) DEF SubmitAttach, KernelTypes, PlaceInv
    <3>3. CASE state # "KernelUnresolved" /\ pump.at # "stopped"
      BY <1>2, <2>2, <3>3 DEF SubmitAttach, KernelTypes
    <3> QED
      BY <3>1, <3>2, <3>3
  <2>4. /\ queue' \in Seq(Jobs \cup {Preserve}) /\ Once(queue') /\ OpenerFirst(queue')
        /\ \A k \in Jobs : k \in Elems(queue') => k = Attach
        /\ queue' = queue \/ Attach \in Elems(queue')
    <3>1. queue' = queue \/ queue' = Append(queue, Attach)
      BY <1>2, <2>2 DEF SubmitAttach, Enqueue
    <3>2. CASE queue' = queue
      BY <2>1, <3>2 DEF KernelTypes, OnePlace, OpenerInv
    <3>3. CASE queue' = Append(queue, Attach)
      <4>1. queue \in Seq(Jobs \cup {Preserve}) /\ Attach \in Jobs \cup {Preserve}
            /\ Once(queue) /\ OpenerFirst(queue)
        BY <2>2 DEF KernelTypes, OnePlace, OpenerInv
      <4> QED
        BY <2>1, <2>2, <3>3, <4>1, Appended
    <3> QED
      BY <3>1, <3>2, <3>3
  <2>5. (Unread' => Unread) /\ Carried
    BY <2>1, <2>2, <2>3, <2>4, JobKinds
       DEF Unread, MayClaim, Attaching, Refused, Gone, LetGo, NoKernel, Quiet, Carried
  <2>6. KernelTypes' /\ PlaceInv' /\ SafetyInv' /\ MilestoneInv'
    BY <2>1, <2>2, <2>3, <2>4, <2>5, JobKinds
       DEF KernelTypes, PlaceInv, SafetyInv, Attaching, MilestoneInv, Carried
  <2>7. OnePlace' /\ OpenerInv'
    BY <2>1, <2>2, <2>3, <2>4, <2>5, JobKinds DEF OnePlace, PastQueue, PastPump, PastRequests,
           PastReader, PastTodo, Answered, OpenerInv, Unread, Carried
  <2>8. AnswerInv' /\ SettledInv'
    BY <2>1, <2>2, <2>3, <2>4, <2>5, JobKinds DEF AnswerInv, Gone, SettledInv, Carried
  <2>9. EndInv' /\ ConfirmInv'
    BY <2>1, <2>2, <2>3, <2>4, <2>5, JobKinds DEF EndInv, PastQueue, PastPump, PastRequests,
           PastReader, PastTodo, Answered, ConfirmInv, Carried
  <2>10. TakeoverInv'
    BY <2>1 DEF TakeoverInv, LatestInv, Loose, PastPump, PastRequests, PastReader, PastTodo,
           Answered
  <2> QED
    BY <2>6, <2>7, <2>8, <2>9, <2>10
<1>3. ASSUME NEW j \in Ends, EndRefused(j) PROVE KInv'
  <2>1. /\ call[j] = "idle" /\ call[Attach] # "idle" /\ PreserveKernel /\ Settled(j, "recovery")
        /\ UNCHANGED <<input, requests, reader, safety, todo, engine, holds, ack, process,
                       messages, phase, released, handoff, takeover, withheld, child, pump,
                       waiters>>
    BY <1>3 DEF EndRefused, workerVars
  <2>2. /\ SameQueue
        /\ state' \in States /\ (Live(state') <=> Live(state))
        /\ state' = state \/ state' = "KernelUnresolved"
    BY <2>1, Preserves
  <2>3. /\ j \in Jobs /\ j # Attach
        /\ call' \in [Jobs -> {"idle", "waiting", "expiring", "answered", "settled"}]
        /\ reply' \in [Jobs -> Results \cup {"lost", "stale", "timeout", None}]
        /\ \A k \in Jobs : k # j => call'[k] = call[k] /\ reply'[k] = reply[k]
        /\ call'[j] \in {"settled"} /\ reply'[j] \in {"recovery"}
    BY <2>1, JobKinds DEF Settled, KernelTypes, Results
  <2>4. (Unread' <=> Unread) /\ (MayClaim' <=> MayClaim) /\ Carried
    BY <2>1, <2>2, <2>3, JobKinds
       DEF Unread, MayClaim, Attaching, Refused, Gone, LetGo, NoKernel, Quiet, SameQueue, Carried
  <2>5. KernelTypes' /\ PlaceInv' /\ SafetyInv' /\ MilestoneInv'
    BY <2>1, <2>2, <2>3, <2>4, JobKinds
       DEF KernelTypes, PlaceInv, SafetyInv, Attaching, MilestoneInv, SameQueue, Carried
  <2>6. OnePlace' /\ OpenerInv'
    BY <2>1, <2>2, <2>3, <2>4, JobKinds DEF OnePlace, PastQueue, PastPump, PastRequests,
           PastReader, PastTodo, Answered, OpenerInv, Unread, SameQueue, Carried
  <2>7. AnswerInv' /\ SettledInv'
    BY <2>1, <2>2, <2>3, <2>4, JobKinds DEF AnswerInv, SettledInv, SameQueue, Carried
  <2>8. EndInv' /\ ConfirmInv'
    BY <2>1, <2>2, <2>3, <2>4, JobKinds DEF EndInv, PastQueue, PastPump, PastRequests, PastReader,
           PastTodo, Answered, ConfirmInv, SameQueue, Carried
  <2>9. TakeoverInv'
    BY <2>1 DEF TakeoverInv, LatestInv, Loose, PastPump, PastRequests, PastReader, PastTodo,
           Answered
  <2> QED
    BY <2>5, <2>6, <2>7, <2>8, <2>9
<1>4. ASSUME NEW j \in Jobs, Expire(j) PROVE KInv'
  <2>1. /\ call[j] = "waiting"
        /\ UNCHANGED <<input, requests, reader, safety, todo, engine, holds, ack, process,
                       messages, state, phase, released, handoff, takeover, withheld, child,
                       queue, pump, waiters>>
    BY <1>4 DEF Expire, workerVars, sessionVars
  <2>2. /\ call' \in [Jobs -> {"idle", "waiting", "expiring", "answered", "settled"}]
        /\ reply' \in [Jobs -> Results \cup {"lost", "stale", "timeout", None}]
        /\ \A k \in Jobs : k # j => call'[k] = call[k] /\ reply'[k] = reply[k]
        /\ call'[j] \in {"expiring", "answered"} /\ reply'[j] \in {reply[j], "timeout"}
    BY <1>4, <2>1, ZenonT(30) DEF Expire, KernelTypes
  <2>3. (Unread' <=> Unread) /\ (MayClaim' <=> MayClaim) /\ Carried
    BY <2>1, <2>2, JobKinds
       DEF Unread, MayClaim, Attaching, Refused, Gone, LetGo, NoKernel, Quiet, Carried
  <2>4. KernelTypes' /\ PlaceInv' /\ SafetyInv' /\ MilestoneInv'
    BY <2>1, <2>2, <2>3, JobKinds
       DEF KernelTypes, PlaceInv, SafetyInv, Attaching, MilestoneInv, Carried
  <2>5. OnePlace' /\ OpenerInv'
    BY <2>1, <2>2, <2>3, JobKinds DEF OnePlace, PastQueue, PastPump, PastRequests, PastReader,
           PastTodo, Answered, OpenerInv, Unread, Carried
  <2>6. AnswerInv' /\ SettledInv'
    BY <2>1, <2>2, <2>3, JobKinds DEF AnswerInv, SettledInv, Carried
  <2>7. EndInv' /\ ConfirmInv'
    BY <2>1, <2>2, <2>3, JobKinds DEF EndInv, PastQueue, PastPump, PastRequests, PastReader,
           PastTodo, Answered, ConfirmInv, Carried
  <2>8. TakeoverInv'
    BY <2>1 DEF TakeoverInv, LatestInv, Loose, PastPump, PastRequests, PastReader, PastTodo,
           Answered
  <2> QED
    BY <2>4, <2>5, <2>6, <2>7, <2>8
<1>5. ASSUME NEW j \in Jobs, ExpirePreserves(j) PROVE KInv'
  <2>1. /\ call[j] = "expiring" /\ PreserveKernel
        /\ UNCHANGED <<input, requests, reader, safety, todo, engine, holds, ack, process,
                       messages, phase, released, handoff, takeover, withheld, child, pump,
                       waiters>>
    BY <1>5 DEF ExpirePreserves, workerVars
  <2>2. /\ SameQueue
        /\ state' \in States /\ (Live(state') <=> Live(state))
        /\ state' = state \/ state' = "KernelUnresolved"
    BY <2>1, Preserves
  <2>3. /\ call' \in [Jobs -> {"idle", "waiting", "expiring", "answered", "settled"}]
        /\ reply' \in [Jobs -> Results \cup {"lost", "stale", "timeout", None}]
        /\ \A k \in Jobs : k # j => call'[k] = call[k] /\ reply'[k] = reply[k]
        /\ call'[j] \in {"answered"} /\ reply'[j] \in {"recovery"}
    BY <1>5, <2>1 DEF ExpirePreserves, KernelTypes, Results
  <2>4. (Unread' <=> Unread) /\ (MayClaim' <=> MayClaim) /\ Carried
    BY <2>1, <2>2, <2>3, JobKinds
       DEF Unread, MayClaim, Attaching, Refused, Gone, LetGo, NoKernel, Quiet, SameQueue, Carried
  <2>5. KernelTypes' /\ PlaceInv' /\ SafetyInv' /\ MilestoneInv'
    BY <2>1, <2>2, <2>3, <2>4, JobKinds
       DEF KernelTypes, PlaceInv, SafetyInv, Attaching, MilestoneInv, SameQueue, Carried
  <2>6. OnePlace' /\ OpenerInv'
    BY <2>1, <2>2, <2>3, <2>4, JobKinds DEF OnePlace, PastQueue, PastPump, PastRequests,
           PastReader, PastTodo, Answered, OpenerInv, Unread, SameQueue, Carried
  <2>7. AnswerInv' /\ SettledInv'
    BY <2>1, <2>2, <2>3, <2>4, JobKinds DEF AnswerInv, SettledInv, SameQueue, Carried
  <2>8. EndInv' /\ ConfirmInv'
    BY <2>1, <2>2, <2>3, <2>4, JobKinds DEF EndInv, PastQueue, PastPump, PastRequests, PastReader,
           PastTodo, Answered, ConfirmInv, SameQueue, Carried
  <2>9. TakeoverInv'
    BY <2>1 DEF TakeoverInv, LatestInv, Loose, PastPump, PastRequests, PastReader, PastTodo,
           Answered
  <2> QED
    BY <2>5, <2>6, <2>7, <2>8, <2>9
<1>6. ASSUME SettleOpen PROVE KInv'
  <2>1. /\ call[Attach] = "answered" /\ call' = [call EXCEPT ![Attach] = "settled"]
        /\ UNCHANGED <<input, requests, reader, safety, todo, engine, holds, ack, messages,
                       phase, handoff, takeover, pump, waiters, reply>>
    BY <1>6 DEF SettleOpen
  <2>2. /\ call' \in [Jobs -> {"idle", "waiting", "expiring", "answered", "settled"}]
        /\ call'[Attach] = "settled" /\ (\A k \in Jobs : k # Attach => call'[k] = call[k])
    BY <2>1, JobKinds DEF KernelTypes
  <2>3. SameQueue /\ Settles
    <3>1. queue' = queue => SameQueue
      BY DEF SameQueue, KernelTypes, OnePlace, OpenerInv
    <3>2. CASE /\ reply[Attach] \in {"err", "lost", "stale"} /\ phase = "Started"
               /\ SettleUncommitted /\ UNCHANGED queue
      <4>1. ~Live(state) \/ state = "KernelUnresolved" \/ Refused \/ Gone
        BY <3>2 DEF AnswerInv
      <4>2. CASE state = "KernelUnresolved"
        BY <3>1, <3>2, <4>2 DEF SettleUncommitted, Keep, KernelTypes, Settles
      <4>3. CASE state # "KernelUnresolved" /\ (state = "Retired" \/ takeover # None)
        BY <3>1, <3>2, <4>1, <4>3 DEF SettleUncommitted, KernelTypes, Settles
      <4>4. CASE state # "KernelUnresolved" /\ ~(state = "Retired" \/ takeover # None)
        <5>1. FailUnclaimed /\ withheld' = withheld /\ takeover = None
          BY <3>2, <4>4 DEF SettleUncommitted
        <5>2. Refused => LetGo
          BY <5>1, NothingTookOver
        <5>3. Gone => LetGo
          BY DEF Gone, LetGo, NoKernel
        <5>4. ~Live(state) \/ LetGo
          BY <4>1, <4>4, <5>2, <5>3
        <5> QED
          BY <3>1, <3>2, <5>1, <5>4, Fails
      <4> QED
        BY <4>2, <4>3, <4>4
    <3>3. CASE PreserveKernel /\ UNCHANGED <<released, withheld, child, process>>
      BY <3>3, Preserves DEF KernelTypes, Settles
    <3>4. CASE PromoteOpened /\ UNCHANGED <<released, withheld, child, process, queue>>
      BY <3>1, <3>4 DEF PromoteOpened, KernelTypes, States, Live, Settles
    <3>5. CASE Keep /\ UNCHANGED queue
      BY <3>1, <3>5 DEF Keep, KernelTypes, Settles
    <3> QED
      BY <1>6, <3>2, <3>3, <3>4, <3>5 DEF SettleOpen
  <2>4. (Unread' <=> Unread) /\ (MayClaim' <=> MayClaim) /\ Carried
    BY <2>1, <2>2, <2>3, JobKinds DEF Unread, MayClaim, Attaching, Refused, Gone, LetGo, NoKernel,
           Quiet, Settles, SameQueue, Carried
  <2>5. PlaceInv' /\ SafetyInv' /\ MilestoneInv'
    BY <2>1, <2>2, <2>3, <2>4, JobKinds
       DEF PlaceInv, SafetyInv, Attaching, MilestoneInv, Settles, SameQueue, Carried
  <2>6. KernelTypes'
    BY <2>1, <2>2, <2>3 DEF KernelTypes, Settles, SameQueue
  <2>7. OnePlace' /\ OpenerInv'
    BY <2>1, <2>2, <2>3, <2>4, JobKinds DEF OnePlace, PastQueue, PastPump, PastRequests,
           PastReader, PastTodo, Answered, OpenerInv, Unread, Settles, SameQueue, Carried
  <2>8. AnswerInv'
    BY <2>1, <2>2, <2>3, <2>4, JobKinds DEF AnswerInv, Settles, SameQueue, Carried
  <2>9. SettledInv'
    BY <2>1, <2>3, <2>4 DEF SettledInv, Settles, SameQueue, Carried
  <2>10. EndInv'
    BY <2>1, <2>2, <2>3, <2>4, JobKinds DEF EndInv, PastQueue, PastPump, PastRequests, PastReader,
           PastTodo, Answered, Settles, SameQueue, Carried
  <2>11. ConfirmInv'
    BY <2>1, <2>3, JobKinds DEF ConfirmInv, Settles, SameQueue
  <2>12. TakeoverInv'
    BY <2>1 DEF TakeoverInv, LatestInv, Loose, PastPump, PastRequests, PastReader, PastTodo,
           Answered
  <2> QED
    BY <2>5, <2>6, <2>7, <2>8, <2>9, <2>10, <2>11, <2>12
<1>7. ASSUME NEW j \in Ends, SettleEnd(j) PROVE KInv'
  <2>1. /\ call[j] = "answered" /\ j \in Jobs /\ j # Attach
        /\ UNCHANGED <<input, requests, reader, safety, todo, engine, holds, ack, messages,
                       phase, handoff, takeover, pump>>
    BY <1>7, JobKinds DEF SettleEnd
  <2>2. /\ call' \in [Jobs -> {"idle", "waiting", "expiring", "answered", "settled"}]
        /\ reply' \in [Jobs -> Results \cup {"lost", "stale", "timeout", None}]
        /\ \A k \in Jobs : \/ call'[k] = call[k]
                           \/ k = j /\ call'[k] = "settled"
                           \/ call[k] = "waiting" /\ call'[k] = "answered"
        /\ \A k \in Jobs : reply'[k] = reply[k] \/ (reply'[k] = "lost" /\ released')
        /\ waiters' \subseteq waiters /\ (waiters' = waiters \/ released')
    <3>1. CASE call' = [call EXCEPT ![j] = "settled"] /\ UNCHANGED <<waiters, reply>>
      BY <2>1, <3>1 DEF KernelTypes
    <3>2. CASE /\ released' = TRUE /\ waiters' = {}
               /\ call' = [k \in Jobs |->
                    IF k = j THEN "settled"
                    ELSE IF k \in waiters /\ call[k] = "waiting" THEN "answered" ELSE call[k]]
               /\ reply' = [k \in Jobs |->
                    IF k \in waiters /\ call[k] = "waiting" THEN "lost" ELSE reply[k]]
      BY <2>1, <3>2 DEF KernelTypes
    <3> QED
      BY <1>7, <3>1, <3>2 DEF SettleEnd
  <2>3. SameQueue /\ Settles /\ (released' => ~Live(state'))
    <3>1. queue' = queue => SameQueue
      BY DEF SameQueue, KernelTypes, OnePlace, OpenerInv
    <3>2. CASE Keep /\ UNCHANGED queue
      BY <3>1, <3>2 DEF Keep, KernelTypes, SettledInv, Settles
    <3>3. CASE PreserveKernel /\ UNCHANGED <<released, withheld, child, process>>
      BY <3>3, Preserves DEF KernelTypes, SettledInv, Settles
    <3>4. CASE /\ reply[j] # "stale" /\ (reply[j] = "ok" \/ released) /\ released' = TRUE
               /\ Kill
               /\ state' = IF reply[j] = "ok" /\ Live(state) THEN "Closed" ELSE state
               /\ UNCHANGED <<withheld, queue>>
      <4>1. reply[j] = "ok" => LetGo
        BY DEF EndInv
      <4>2. process = "up" => LetGo /\ holds = "none"
        BY <3>4, <4>1 DEF SettledInv, LetGo, Quiet
      <4>3. state' \in States /\ ~Live(state')
        BY <3>4 DEF KernelTypes, SettledInv, States, Live
      <4> QED
        BY <3>1, <3>4, <4>1, <4>2, <4>3, Kills DEF KernelTypes, SettledInv, Settles
    <3> QED
      BY <1>7, <3>2, <3>3, <3>4 DEF SettleEnd
  <2>4. (Unread' <=> Unread) /\ (MayClaim' <=> MayClaim) /\ Carried
    BY <2>1, <2>2, <2>3, JobKinds DEF Unread, MayClaim, Attaching, Refused, Gone, LetGo, NoKernel,
           Quiet, Settles, SameQueue, Carried
  <2>5. PlaceInv' /\ SafetyInv' /\ MilestoneInv'
    BY <2>1, <2>2, <2>3, <2>4, JobKinds
       DEF PlaceInv, SafetyInv, Attaching, MilestoneInv, Settles, SameQueue, Carried
  <2>6. KernelTypes'
    BY <2>1, <2>2, <2>3 DEF KernelTypes, Settles, SameQueue
  <2>7. OnePlace' /\ OpenerInv'
    BY <2>1, <2>2, <2>3, <2>4, JobKinds DEF OnePlace, PastQueue, PastPump, PastRequests,
           PastReader, PastTodo, Answered, OpenerInv, Unread, Settles, SameQueue, Carried
  <2>8. AnswerInv'
    BY <2>1, <2>2, <2>3, <2>4, JobKinds DEF AnswerInv, Settles, SameQueue, Carried
  <2>9. SettledInv'
    BY <2>1, <2>3, <2>4 DEF SettledInv, Settles, SameQueue, Carried
  <2>10. EndInv' /\ ConfirmInv'
    BY <2>1, <2>2, <2>3, <2>4, JobKinds DEF EndInv, PastQueue, PastPump, PastRequests, PastReader,
           PastTodo, Answered, ConfirmInv, Settles, SameQueue, Carried
  <2>11. TakeoverInv'
    BY <2>1 DEF TakeoverInv, LatestInv, Loose, PastPump, PastRequests, PastReader, PastTodo,
           Answered
  <2> QED
    BY <2>5, <2>6, <2>7, <2>8, <2>9, <2>10, <2>11
<1> QED
  BY <1>1, <1>2, <1>3, <1>4, <1>5, <1>6, <1>7 DEF Caller

(* The operator's handoff, and what happens to the processes.               *)
LEMMA OthersKeep ==
    ASSUME KInv, Handoff \/ WorkerCrashes \/ SupervisorLost
    PROVE  KInv'
<1> USE DEF KInv
<1>1. ASSUME HandoffTakes \/ HandoffFails PROVE KInv'
  <2>1. /\ child = "held" \/ child = "taken"
        /\ child' = "taken" \/ child' = "held"
        /\ UNCHANGED <<input, requests, reader, safety, todo, engine, holds, ack, process,
                       messages, state, phase, released, handoff, takeover, withheld, queue,
                       pump, waiters, call, reply>>
    BY <1>1 DEF HandoffTakes, HandoffFails, workerVars, callVars
  <2>2. (Unread' <=> Unread) /\ (MayClaim' <=> MayClaim) /\ Carried
    BY <2>1 DEF Unread, MayClaim, Attaching, Refused, Gone, LetGo, NoKernel, Quiet, Carried
  <2>3. KernelTypes' /\ PlaceInv' /\ SafetyInv' /\ MilestoneInv'
    BY <2>1, <2>2, JobKinds DEF KernelTypes, PlaceInv, SafetyInv, Attaching, MilestoneInv, Carried
  <2>4. OnePlace' /\ OpenerInv'
    BY <2>1, <2>2, JobKinds DEF OnePlace, PastQueue, PastPump, PastRequests, PastReader, PastTodo,
           Answered, OpenerInv, Unread, Carried
  <2>5. AnswerInv' /\ SettledInv'
    BY <2>1, <2>2, JobKinds DEF AnswerInv, SettledInv, Carried
  <2>6. EndInv' /\ ConfirmInv'
    BY <2>1, <2>2, JobKinds DEF EndInv, PastQueue, PastPump, PastRequests, PastReader, PastTodo,
           Answered, ConfirmInv, Carried
  <2>7. TakeoverInv'
    BY <2>1 DEF TakeoverInv, LatestInv, Loose, PastPump, PastRequests, PastReader, PastTodo,
           Answered
  <2> QED
    BY <2>3, <2>4, <2>5, <2>6, <2>7
<1>2. ASSUME HandoffKills PROVE KInv'
  <2>1. /\ child' = "verified" /\ process' = (IF process = "up" THEN "handedOff" ELSE process)
        /\ UNCHANGED <<input, requests, reader, safety, todo, engine, holds, ack, messages,
                       state, phase, released, handoff, takeover, withheld, queue, pump,
                       waiters, call, reply>>
    BY <1>2 DEF HandoffKills, callVars
  <2>2. (Unread' <=> Unread) /\ (MayClaim' <=> MayClaim) /\ Carried
    BY <2>1 DEF Unread, MayClaim, Attaching, Refused, Gone, LetGo, NoKernel, Quiet, Carried
  <2>3. KernelTypes' /\ PlaceInv' /\ SafetyInv' /\ MilestoneInv'
    BY <2>1, <2>2, JobKinds DEF KernelTypes, PlaceInv, SafetyInv, Attaching, MilestoneInv, Carried
  <2>4. OnePlace' /\ OpenerInv'
    BY <2>1, <2>2, JobKinds DEF OnePlace, PastQueue, PastPump, PastRequests, PastReader, PastTodo,
           Answered, OpenerInv, Unread, Carried
  <2>5. AnswerInv' /\ SettledInv'
    BY <2>1, <2>2, JobKinds DEF AnswerInv, SettledInv, Carried
  <2>6. EndInv' /\ ConfirmInv'
    BY <2>1, <2>2, JobKinds DEF EndInv, PastQueue, PastPump, PastRequests, PastReader, PastTodo,
           Answered, ConfirmInv, Carried
  <2>7. TakeoverInv'
    BY <2>1 DEF TakeoverInv, LatestInv, Loose, PastPump, PastRequests, PastReader, PastTodo,
           Answered
  <2> QED
    BY <2>3, <2>4, <2>5, <2>6, <2>7
<1>3. ASSUME HandoffFinishes PROVE KInv'
  <2>1. /\ child = "verified" /\ child' = "none" /\ handoff' = TRUE /\ FailOutstanding(waiters)
        /\ state' = (IF Live(state) THEN "Closed" ELSE state)
        /\ UNCHANGED <<input, requests, reader, safety, todo, engine, holds, ack, process,
                       messages, phase, released, takeover, withheld, queue, pump>>
    BY <1>3 DEF HandoffFinishes, workerVars
  <2>2. CallsEnded
    BY <2>1, Outstanding
  <2>3. ~Live(state') /\ state' \in States
    BY <2>1 DEF Live, KernelTypes, States
  <2>4. (Unread' <=> Unread) /\ (MayClaim' <=> MayClaim) /\ Carried
    BY <2>1, <2>2, JobKinds
       DEF Unread, MayClaim, Attaching, Refused, Gone, LetGo, NoKernel, Quiet, CallsEnded, Carried
  <2>5. KernelTypes' /\ PlaceInv' /\ SafetyInv' /\ MilestoneInv'
    BY <2>1, <2>2, <2>3, <2>4, JobKinds
       DEF KernelTypes, PlaceInv, SafetyInv, Attaching, MilestoneInv, CallsEnded, Carried
  <2>6. OnePlace' /\ OpenerInv'
    BY <2>1, <2>2, <2>3, <2>4, JobKinds DEF OnePlace, PastQueue, PastPump, PastRequests,
           PastReader, PastTodo, Answered, OpenerInv, Unread, CallsEnded, Carried
  <2>7. AnswerInv' /\ SettledInv'
    BY <2>1, <2>2, <2>3, <2>4, JobKinds DEF AnswerInv, SettledInv, CallsEnded, Carried
  <2>8. EndInv' /\ ConfirmInv'
    BY <2>1, <2>2, <2>3, <2>4, JobKinds DEF EndInv, PastQueue, PastPump, PastRequests, PastReader,
           PastTodo, Answered, ConfirmInv, CallsEnded, Carried
  <2>9. TakeoverInv'
    BY <2>1 DEF TakeoverInv, LatestInv, Loose, PastPump, PastRequests, PastReader, PastTodo,
           Answered
  <2> QED
    BY <2>5, <2>6, <2>7, <2>8, <2>9
<1>4. ASSUME WorkerCrashes PROVE KInv'
  <2>1. /\ process = "up" /\ process' = "crashed"
        /\ UNCHANGED <<input, requests, reader, safety, todo, engine, holds, ack, messages,
                       state, phase, released, handoff, takeover, withheld, child, queue,
                       pump, waiters, call, reply>>
    BY <1>4 DEF WorkerCrashes, sessionVars, callVars
  <2>2. (Unread' <=> Unread) /\ (MayClaim' <=> MayClaim) /\ Carried
    BY <2>1 DEF Unread, MayClaim, Attaching, Refused, Gone, LetGo, NoKernel, Quiet, Carried
  <2>3. KernelTypes' /\ PlaceInv' /\ SafetyInv' /\ MilestoneInv'
    BY <2>1, <2>2, JobKinds DEF KernelTypes, PlaceInv, SafetyInv, Attaching, MilestoneInv, Carried
  <2>4. OnePlace' /\ OpenerInv'
    BY <2>1, <2>2, JobKinds DEF OnePlace, PastQueue, PastPump, PastRequests, PastReader, PastTodo,
           Answered, OpenerInv, Unread, Carried
  <2>5. AnswerInv' /\ SettledInv'
    BY <2>1, <2>2, JobKinds DEF AnswerInv, SettledInv, Carried
  <2>6. EndInv' /\ ConfirmInv'
    BY <2>1, <2>2, JobKinds DEF EndInv, PastQueue, PastPump, PastRequests, PastReader, PastTodo,
           Answered, ConfirmInv, Carried
  <2>7. TakeoverInv'
    BY <2>1 DEF TakeoverInv, LatestInv, Loose, PastPump, PastRequests, PastReader, PastTodo,
           Answered
  <2> QED
    BY <2>3, <2>4, <2>5, <2>6, <2>7
<1>5. ASSUME SupervisorLost PROVE KInv'
  <2>1. /\ input' = "closed" /\ messages' = <<>>
        /\ UNCHANGED <<requests, reader, safety, todo, engine, holds, ack, process, state,
                       phase, released, handoff, takeover, withheld, child, queue, pump,
                       waiters, call, reply>>
    BY <1>5 DEF SupervisorLost, sessionVars, callVars
  <2>2. /\ messages' \in Seq(MessageType) /\ Elems(messages') = {} /\ AnsweredOnce(messages')
        /\ \A j \in Jobs : ~Answered(j)'
    BY <2>1, Empty DEF Answered
  <2>3. (Unread' <=> Unread) /\ (MayClaim' <=> MayClaim) /\ Carried
    BY <2>1 DEF Unread, MayClaim, Attaching, Refused, Gone, LetGo, NoKernel, Quiet, Carried
  <2>4. KernelTypes' /\ PlaceInv' /\ SafetyInv' /\ MilestoneInv'
    BY <2>1, <2>2, <2>3, JobKinds
       DEF KernelTypes, PlaceInv, SafetyInv, Attaching, MilestoneInv, Carried
  <2>5. OnePlace' /\ OpenerInv'
    BY <2>1, <2>2, <2>3, JobKinds DEF OnePlace, PastQueue, PastPump, PastRequests, PastReader,
           PastTodo, Answered, OpenerInv, Unread, Carried
  <2>6. AnswerInv' /\ SettledInv'
    BY <2>1, <2>2, <2>3, JobKinds DEF AnswerInv, SettledInv, Carried
  <2>7. EndInv' /\ ConfirmInv'
    BY <2>1, <2>2, <2>3, JobKinds DEF EndInv, PastQueue, PastPump, PastRequests, PastReader,
           PastTodo, Answered, ConfirmInv, Carried
  <2>8. TakeoverInv'
    <3>1. takeover \in Changes \cup {None} /\ (takeover # None => takeover \in Jobs)
      BY JobKinds DEF KernelTypes
    <3>2. Loose' <=> Loose
      BY <2>1 DEF Loose
    <3>3. \A j \in Jobs : /\ PastQueue(j)' => PastQueue(j)
                          /\ PastPump(j)' => PastPump(j)
                          /\ PastRequests(j)' => PastRequests(j)
                          /\ PastReader(j)' => PastReader(j)
                          /\ PastTodo(j)' => PastTodo(j)
      BY <2>1, <2>2 DEF PastQueue, PastPump, PastRequests, PastReader, PastTodo
    <3> QED
      BY <2>1, <2>2, <3>1, <3>2, <3>3, JobKinds DEF TakeoverInv, LatestInv
  <2> QED
    BY <2>4, <2>5, <2>6, <2>7, <2>8
<1> QED
  BY <1>1, <1>2, <1>3, <1>4, <1>5 DEF Handoff

(* The invariant holds at the start.                                        *)
LEMMA KernelStarts == Init => KInv
<1> SUFFICES ASSUME Init PROVE KInv
  OBVIOUS
<1>1. /\ input = "open" /\ requests = <<>> /\ reader = Reading /\ safety = {} /\ todo = <<>>
      /\ engine = Idle /\ holds = "none" /\ ack = "none" /\ process = "up" /\ messages = <<>>
      /\ state = "Opening" /\ phase = "Started" /\ child = "held" /\ takeover = None
      /\ released = FALSE /\ handoff = FALSE /\ withheld = FALSE /\ queue = <<>>
      /\ pump = [at |-> "taking", job |-> None] /\ waiters = {}
      /\ call = [j \in Jobs |-> "idle"] /\ reply = [j \in Jobs |-> None]
  BY DEF Init, WorkerInit
<1>2. /\ reader.at = "reading" /\ reader.job = None /\ engine.at = "idle" /\ engine.job = None
      /\ pump.at = "taking" /\ pump.job = None
      /\ \A j \in Jobs : call[j] = "idle" /\ reply[j] = None
  BY <1>1 DEF Reading, Idle
<1>3. /\ Elems(requests) = {} /\ Elems(todo) = {} /\ Elems(messages) = {} /\ Elems(queue) = {}
      /\ Once(requests) /\ Once(todo) /\ Once(queue) /\ AnsweredOnce(messages)
      /\ OpenerFirst(requests) /\ OpenerFirst(todo) /\ OpenerFirst(queue)
      /\ EndLast(requests) /\ EndLast(todo)
      /\ \A t : LatestLast(requests, t) /\ LatestLast(todo, t)
  BY <1>1, Empty
<1>4. \A j \in Jobs : reply[j] \notin {"ok", "err", "recovery", "lost", "stale", "timeout"}
  BY <1>2, KernelCalls
<1>5. KernelTypes
  <2>1. /\ requests \in Seq(Jobs \cup {Preserve}) /\ todo \in Seq(Jobs \cup {Release})
        /\ messages \in Seq(MessageType) /\ queue \in Seq(Jobs \cup {Preserve})
    BY <1>1
  <2>2. /\ reader \in [at : {"reading", "preserving", "refusing", "retaining", "releasing"},
                     job : Jobs \cup {None}]
        /\ engine \in [at : {"idle", "running", "committed", "opened", "returned"},
                      job : Jobs \cup {None}, result : Results \cup {None}]
        /\ pump \in [at : {"taking", "writing", "stopped"}, job : Jobs \cup {Preserve, None}]
    BY <1>1 DEF Reading, Idle
  <2>3. /\ call \in [Jobs -> {"idle", "waiting", "expiring", "answered", "settled"}]
        /\ reply \in [Jobs -> Results \cup {"lost", "stale", "timeout", None}]
    BY <1>1
  <2> QED
    BY <1>1, <2>1, <2>2, <2>3 DEF KernelTypes, States
<1>6. PlaceInv
  BY <1>1, <1>2, <1>3, JobKinds DEF PlaceInv
<1>7. OnePlace
  BY <1>1, <1>2, <1>3, JobKinds
     DEF OnePlace, PastQueue, PastPump, PastRequests, PastReader, PastTodo, Answered
<1>8. OpenerInv
  BY <1>1, <1>2, <1>3, JobKinds DEF OpenerInv, Unread
<1>9. SafetyInv /\ MilestoneInv /\ SettledInv
  BY <1>1, <1>2, <1>3, JobKinds DEF SafetyInv, Attaching, MilestoneInv, SettledInv, Live
<1>10. AnswerInv
  BY <1>1, <1>2, <1>3, <1>4, JobKinds DEF AnswerInv
<1>11. EndInv
  BY <1>1, <1>2, <1>3, <1>4, JobKinds
     DEF EndInv, PastQueue, PastPump, PastRequests, PastReader, PastTodo, Answered
<1>12. ConfirmInv
  BY <1>1, <1>2, <1>3, JobKinds DEF ConfirmInv
<1>13. TakeoverInv
  BY <1>1, <1>2, <1>3, JobKinds DEF TakeoverInv, LatestInv, Loose
<1> QED
  BY <1>5, <1>6, <1>7, <1>8, <1>9, <1>10, <1>11, <1>12, <1>13 DEF KInv

(* Every step keeps it.                                                     *)
LEMMA KernelKeeps ==
    ASSUME Early = {}, KInv, [Next]_vars
    PROVE  KInv'
<1>1. CASE Worker
  <2>1. ReaderStep \/ EngineStep
    BY <1>1 DEF Worker
  <2>2. UNCHANGED <<sessionVars, callVars>>
    BY <1>1 DEF Worker
  <2> QED
    BY <2>1, <2>2, ReaderKeeps, EngineKeeps
<1>2. CASE Pump
  BY <1>2, PumpKeeps
<1>3. CASE Reader
  BY <1>3, HearingKeeps
<1>4. CASE Caller
  BY <1>4, CallerKeeps
<1>5. CASE Handoff \/ WorkerCrashes \/ SupervisorLost
  BY <1>5, OthersKeep
<1>6. CASE Rests \/ UNCHANGED vars
  <2>1. UNCHANGED vars
    BY <1>6 DEF Rests
  <2>2. /\ input' = input /\ requests' = requests /\ reader' = reader /\ safety' = safety
        /\ todo' = todo /\ engine' = engine /\ holds' = holds /\ ack' = ack
        /\ process' = process /\ messages' = messages /\ state' = state /\ phase' = phase
        /\ released' = released /\ handoff' = handoff /\ takeover' = takeover
        /\ withheld' = withheld /\ child' = child /\ queue' = queue /\ pump' = pump
        /\ waiters' = waiters /\ call' = call /\ reply' = reply
    BY <2>1 DEF vars, workerVars, sessionVars, callVars
  <2>3. KernelTypes' /\ PlaceInv' /\ OnePlace' /\ OpenerInv' /\ SafetyInv' /\ MilestoneInv'
    BY <2>2 DEF KInv, KernelTypes, PlaceInv, OnePlace, OpenerInv, Unread, SafetyInv, Attaching,
                MilestoneInv, PastQueue, PastPump, PastRequests, PastReader, PastTodo, Answered
  <2>4. AnswerInv' /\ SettledInv' /\ EndInv'
    BY <2>2 DEF KInv, AnswerInv, SettledInv, EndInv, LetGo, NoKernel, Quiet, Refused, Gone,
           MayClaim,
                Unread, Attaching, PastQueue, PastPump, PastRequests, PastReader, PastTodo, Answered
  <2>5. ConfirmInv' /\ TakeoverInv'
    BY <2>2 DEF KInv, ConfirmInv, TakeoverInv, LatestInv, Loose, PastPump, PastRequests, PastReader,
                PastTodo, Answered
  <2> QED
    BY <2>3, <2>4, <2>5 DEF KInv
<1> QED
  BY <1>1, <1>2, <1>3, <1>4, <1>5, <1>6 DEF Next

(* A session that is unresolved stays so until it is over.                  *)
LEMMA UnresolvedStays ==
    ASSUME KInv, [Next]_vars, state = "KernelUnresolved"
    PROVE  state' = "KernelUnresolved" \/ ~Live(state')
<1> USE DEF KInv
<1>1. CASE Worker \/ WorkerCrashes \/ SupervisorLost \/ Rests \/ UNCHANGED vars
  BY <1>1 DEF Worker, WorkerCrashes, SupervisorLost, Rests, vars, sessionVars
<1>2. CASE Pump
  <2>1. CASE PumpTakes
    <3>1. Head(queue) \in Jobs \cup {Preserve}
      BY <2>1, Shortened DEF PumpTakes, KernelTypes
    <3>2. Head(queue) \notin Jobs
      BY <2>1, RefusesWith, JobKinds DEF PumpTakes
    <3> QED
      BY <2>1, <3>2, JobKinds DEF PumpTakes
  <2> QED
    BY <1>2, <2>1 DEF Pump, PumpRefuses, PumpWrites, sessionVars
<1>3. CASE HearsCommitted \/ HearsOpened \/ HearsReplaced \/ HearsReply \/ ReaderEof
  BY <1>3 DEF HearsCommitted, HearsOpened, HearsReplaced, HearsReply, ReaderEof, PromoteOpened,
              AcceptsHandle, PreserveKernel, sessionVars, Live
<1>4. CASE HearsVerdict \/ HearsReleased \/ HearsLateOpen
  BY <1>4 DEF HearsVerdict, HearsReleased, HearsLateOpen, UndoTakeover, FailUnclaimed, Keep,
              PromoteOpened, PreserveKernel, Live
<1>5. CASE Caller
  <2>1. CASE SubmitAttach \/ (\E j \in Changes \cup Ends : Submit(j)) \/ (\E j \in Jobs : Expire(j))
    BY <2>1 DEF SubmitAttach, Submit, Expire, sessionVars
  <2>2. CASE (\E j \in Ends : EndRefused(j)) \/ (\E j \in Jobs : ExpirePreserves(j))
    BY <2>2 DEF EndRefused, ExpirePreserves, PreserveKernel
  <2>3. CASE SettleOpen
    BY <2>3 DEF SettleOpen, SettleUncommitted, Keep, PreserveKernel, PromoteOpened
  <2>4. CASE \E j \in Ends : SettleEnd(j)
    BY <2>4 DEF SettleEnd, Keep, PreserveKernel, Live
  <2> QED
    BY <1>5, <2>1, <2>2, <2>3, <2>4 DEF Caller
<1>6. CASE Handoff
  BY <1>6 DEF Handoff, HandoffTakes, HandoffKills, HandoffFails, HandoffFinishes, Live
<1> QED
  BY <1>1, <1>2, <1>3, <1>4, <1>5, <1>6 DEF Next, Reader

-----------------------------------------------------------------------------
(* The theorems.  Early is empty: the opener is the first job submitted.    *)

(* In every reachable state of a session, whatever its calls, deadlines,    *)
(* crashes and handoffs, the inductive invariant holds.                     *)
THEOREM KernelInvariant ==
    ASSUME Early = {}
    PROVE  Spec => []KInv
<1>1. Init => KInv
  BY KernelStarts
<1>2. KInv /\ [Next]_vars => KInv'
  BY KernelKeeps
<1> QED
  BY <1>1, <1>2, PTL DEF Spec

(* Session::kill ends only a worker that holds nothing.                     *)
THEOREM KillsLeaveNothing ==
    ASSUME Early = {}
    PROVE  Spec => []KillLeavesNothing
<1>1. KInv => KillLeavesNothing
  BY DEF KInv, SettledInv, KillLeavesNothing
<1> QED
  BY <1>1, KernelInvariant, PTL

(* `released' is raised only when the engine holds no kernel.               *)
THEOREM ReleaseIsTrue ==
    ASSUME Early = {}
    PROVE  Spec => []ReleasedIsTrue
<1>1. KInv => ReleasedIsTrue
  BY DEF KInv, SettledInv, LetGo, NoKernel, ReleasedIsTrue
<1> QED
  BY <1>1, KernelInvariant, PTL

(* The endpoint is offered to another controller only when this session's   *)
(* worker holds no kernel or an operator took the matter over.              *)
THEOREM EndpointIsSafe ==
    ASSUME Early = {}
    PROVE  Spec => []EndpointFreeIsSafe
<1>1. KInv => EndpointFreeIsSafe
  BY DEF KInv, SettledInv, LetGo, NoKernel, EndpointFreeIsSafe, Reserved
<1> QED
  BY <1>1, KernelInvariant, PTL

(* A worker without a supervisor does not exit with a kernel attached.      *)
THEOREM OrphansKeepKernels ==
    ASSUME Early = {}
    PROVE  Spec => []OrphanKeepsKernel
<1>1. KInv => OrphanKeepsKernel
  BY DEF KInv, SafetyInv, OrphanKeepsKernel
<1> QED
  BY <1>1, KernelInvariant, PTL

(* A release the worker carried out settles the session once its            *)
(* confirmation was read, however late that is.                             *)
THEOREM LateReleasesSettle ==
    ASSUME Early = {}
    PROVE  Spec => []LateReleaseSettles
<1>1. KInv => LateReleaseSettles
  <2> SUFFICES ASSUME KInv, "committed" \in safety, "remote" \notin safety, engine = Idle,
                      messages = <<>>, input = "open"
               PROVE  ~Live(state)
    BY DEF LateReleaseSettles
  <2>1. engine.at # "returned" /\ Elems(messages) = {}
    BY Empty DEF Idle
  <2> QED
    BY <2>1 DEF KInv, ConfirmInv
<1> QED
  BY <1>1, KernelInvariant, PTL

(* A session leaves `kernel_unresolved' only on proof that the worker holds *)
(* no kernel, or by the operator's completed handoff.                       *)
THEOREM UnresolvedIsKept ==
    ASSUME Early = {}
    PROVE  Spec => UnresolvedUntilProven
<1>1. KInv /\ KInv' /\ [Next]_vars
        => [state = "KernelUnresolved" /\ state' # state => holds' # "kernel" \/ handoff']_vars
  BY UnresolvedStays DEF KInv, SettledInv, LetGo, NoKernel
<1> QED
  BY <1>1, KernelInvariant, PTL DEF Spec, UnresolvedUntilProven

====
