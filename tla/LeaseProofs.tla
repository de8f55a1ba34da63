---------------------------- MODULE LeaseProofs ----------------------------
(***************************************************************************)
(* Proofs about the listener's leases, for any clients, any number of      *)
(* requests and reloads and any grace that Lease::new accepts: no lease    *)
(* runs out under a request that keeps to the longest quiet call, and a    *)
(* revoked client's sessions are never left to nobody.                     *)
(***************************************************************************)
EXTENDS Lease, TLAPS

RequestType ==
    [pc : {"idle", "authorised", "serving", "answered", "settled", "over", "NotYours", "Releasing"},
     client : Clients \cup {Never}, kind : RequestKinds, id : Requests \cup {Never},
     ok : BOOLEAN, left : 0 .. Longest \cup {Never}]
PresenceType ==
    [mcp : SUBSET Requests, releasing : BOOLEAN, deadline : Nat \cup {Never}, revoked : BOOLEAN]
SessionType == [by : Requests, owner : Clients]
SweeperType ==
    [at : {"idle", "expired", "releasing", "closing"}, client : Clients \cup {Never},
     mcp : SUBSET Requests, revoked : BOOLEAN, victims : SUBSET SessionType]
ReloadType == [at : {"idle", "swapped", "gated"}, client : Clients \cup {Never}]

LeaseTypeOK ==
    /\ requests \in [Requests -> RequestType]
    /\ presence \in [Clients -> PresenceType]
    /\ accepted \subseteq Clients /\ gated \subseteq Clients
    /\ resident \subseteq Requests /\ open \subseteq SessionType
    /\ sweeper \in SweeperType /\ reload \in ReloadType

\* Who is at work on whom.
ActorInv ==
    /\ \A q \in Requests : InFlight(q) => requests[q].client \in Clients
    /\ reload.at = "idle" <=> reload.client = Never
    /\ sweeper.at = "idle" <=> sweeper.client = Never
    /\ sweeper.at # "releasing" => sweeper.victims = {}

\* A served request was admitted, and whatever set its client's deadline
\* since gave it more time than the longest quiet call leaves the request.
QuietInv ==
    \A q \in Requests :
        /\ requests[q].pc \in {"serving", "answered", "settled"} /\ requests[q].client \in accepted
        /\ requests[q].left # Never
        =>
            /\ ~presence[requests[q].client].releasing
            /\ presence[requests[q].client].deadline # Never =>
                 presence[requests[q].client].deadline > requests[q].left

\* The gate is shut before the lease is revoked, so what the sweeper finds of
\* a revoked client is all there will ever be.
GateInv ==
    /\ \A c \in Clients : c \in accepted \/ c \in gated \/ (reload.at = "swapped" /\ reload.client = c)
    /\ \A c \in Clients : presence[c].revoked => c \in gated
    /\ reload.at # "idle" => reload.client \notin accepted
    /\ reload.at = "gated" => reload.client \in gated
    /\ sweeper.revoked => sweeper.client \in gated
    /\ sweeper.revoked /\ sweeper.at \in {"releasing", "closing"} =>
         \A s \in open : s.owner = sweeper.client => s \in sweeper.victims

LInv == LeaseTypeOK /\ ActorInv /\ QuietInv /\ GateInv /\ RevokedIsReleased

-----------------------------------------------------------------------------
(* What an operation makes of a client's presence.                         *)

\* admit renews a clock that runs and starts none.
LEMMA RenewedIs ==
    ASSUME NEW p \in PresenceType
    PROVE  /\ Renewed(p) \in PresenceType
           /\ Renewed(p).releasing = p.releasing /\ Renewed(p).revoked = p.revoked
           /\ Renewed(p).deadline = IF p.deadline = Never THEN Never ELSE Grace
  BY LeaseConstants DEF Renewed, PresenceType

\* settle starts the clock of a client that has not been revoked.
LEMMA SettledIs ==
    ASSUME NEW p \in PresenceType, NEW id \in Requests
    PROVE  /\ Settled(p, id) \in PresenceType
           /\ Settled(p, id).releasing = p.releasing /\ Settled(p, id).revoked = p.revoked
           /\ Settled(p, id).deadline = IF p.revoked THEN p.deadline ELSE Grace
  BY LeaseConstants DEF Settled, PresenceType

\* A deadline that runs comes nearer and does not stop.
LEMMA LaterIs ==
    ASSUME NEW n \in Nat \cup {Never}
    PROVE  /\ Later(n) \in Nat \cup {Never}
           /\ Later(n) = Never <=> n = Never
           /\ n \in Nat \ {0} => Later(n) = n - 1
           /\ n = 0 => Later(n) = 0
  BY LeaseConstants DEF Later

\* The time a request has left shrinks until the request has outlasted it.
LEMMA LeftIs ==
    ASSUME NEW n \in 0 .. Longest \cup {Never}
    PROVE  /\ Outlast(n) \in 0 .. Longest \cup {Never}
           /\ Outlast(n) # Never => n \in 1 .. Longest /\ Outlast(n) = n - 1
  <1>1. Longest \in Nat /\ Never \notin Nat
    BY LeaseConstants
  <1>2. QED
    BY <1>1 DEF Outlast, Later

\* A request that is done with.
LEMMA OverIs ==
    ASSUME NEW pc \in {"over", "NotYours", "Releasing"}
    PROVE  [NoRequest EXCEPT !.pc = pc] \in RequestType /\ [NoRequest EXCEPT !.pc = pc].pc = pc
  <1>1. 0 \in 0 .. Longest
    BY LeaseConstants
  <1>2. QED
    BY <1>1 DEF NoRequest, RequestType, RequestKinds

-----------------------------------------------------------------------------
\* The invariant holds when the listener starts.
LEMMA LInit == LeaseInit => LInv
  <1> SUFFICES ASSUME LeaseInit PROVE LInv
    OBVIOUS
  <1>1. LeaseTypeOK
    BY LeaseConstants
       DEF LeaseInit, LeaseTypeOK, NoRequest, Blank, Resting, RequestType, RequestKinds,
       PresenceType, SweeperType, ReloadType
  <1>2. ActorInv
    BY DEF LeaseInit, ActorInv, InFlight, NoRequest, Resting
  <1>3. QuietInv
    BY DEF LeaseInit, QuietInv, NoRequest
  <1>4. GateInv
    BY DEF LeaseInit, GateInv, Blank, Resting
  <1>5. RevokedIsReleased
    BY DEF LeaseInit, RevokedIsReleased
  <1>6. QED
    BY <1>1, <1>2, <1>3, <1>4, <1>5 DEF LInv

\* Every step of a request, of the sweeper, of the reload and of the clock
\* keeps it.
LEMMA LStep == LInv /\ [LeaseNext]_leaseVars => LInv'
  <1> SUFFICES ASSUME LInv, [LeaseNext]_leaseVars PROVE LInv'
    OBVIOUS
  <1> USE LeaseConstants DEF LInv, LeaseTypeOK
  <1>1. ASSUME NEW q \in Requests, NEW c \in Senders[q], NEW kind \in RequestKinds,
               NEW id \in resident \cup {Never}, Authorise(q, c, kind, id)
        PROVE  LInv'
    <2>0. requests' = [requests EXCEPT ![q] = requests'[q]] /\ c \in accepted
          /\ requests'[q] = [pc |-> "authorised", client |-> c, kind |-> kind, id |-> id,
                             ok |-> FALSE, left |-> Longest]
      BY <1>1 DEF Authorise
    <2>1. LeaseTypeOK'
      <3>1. requests'[q] \in RequestType
        BY <2>0 DEF RequestType
      <3>2. QED
        BY <1>1, <2>0, <3>1 DEF Authorise
    <2>2. ActorInv'
      BY <1>1, <2>0 DEF Authorise, ActorInv, InFlight
    <2>3. QuietInv'
      BY <1>1, <2>0 DEF Authorise, QuietInv
    <2>4. GateInv'
      BY <1>1 DEF Authorise, GateInv
    <2>5. RevokedIsReleased'
      BY <1>1 DEF Authorise, RevokedIsReleased
    <2>6. QED
      BY <2>1, <2>2, <2>3, <2>4, <2>5
  <1>2. ASSUME NEW q \in Requests, Admit(q) PROVE LInv'
    <2> DEFINE c == requests[q].client
    <2>0. c \in Clients
      BY <1>2 DEF Admit, ActorInv, InFlight
    <2>1. CASE Admission(c, requests[q].id) # "Serve"
      <3>1. Admission(c, requests[q].id) \in {"NotYours", "Releasing"}
        BY <2>1 DEF Admission
      <3>2. /\ presence' = presence
            /\ requests' = [requests EXCEPT ![q] = [NoRequest EXCEPT !.pc = Admission(c, requests[q].id)]]
        BY <1>2, <2>1 DEF Admit
      <3>3. requests'[q] \in RequestType /\ requests'[q].pc \in {"NotYours", "Releasing"}
        BY <3>1, <3>2, OverIs
      <3>4. LeaseTypeOK'
        BY <1>2, <3>2, <3>3 DEF Admit
      <3>5. ActorInv' /\ QuietInv'
        BY <1>2, <3>2, <3>3 DEF Admit, ActorInv, InFlight, QuietInv
      <3>6. GateInv' /\ RevokedIsReleased'
        BY <1>2, <3>2 DEF Admit, GateInv, RevokedIsReleased
      <3>7. QED
        BY <3>4, <3>5, <3>6
    <2>2. CASE Admission(c, requests[q].id) = "Serve"
      <3>1. ~presence[c].releasing
        BY <2>2 DEF Admission
      <3>2. /\ presence' = [presence EXCEPT ![c] = Renewed(presence[c])]
            /\ requests' = [requests EXCEPT ![q] = [requests[q] EXCEPT !.pc = "serving"]]
        BY <1>2, <2>2 DEF Admit
      <3>3. /\ requests'[q] \in RequestType /\ requests'[q].pc = "serving"
            /\ requests'[q].client = c /\ requests'[q].left = requests[q].left
        BY <3>2 DEF RequestType
      <3>4. /\ presence'[c] \in PresenceType /\ ~presence'[c].releasing
            /\ presence'[c].revoked = presence[c].revoked
            /\ presence'[c].deadline = IF presence[c].deadline = Never THEN Never ELSE Grace
        BY <2>0, <3>1, <3>2, RenewedIs
      <3>5. LeaseTypeOK'
        BY <1>2, <3>2, <3>3, <3>4 DEF Admit
      <3>6. ActorInv'
        BY <1>2, <2>0, <3>2, <3>3 DEF Admit, ActorInv, InFlight
      <3>7. QuietInv'
        <4>1. \A p \in Requests : requests'[p].left # Never => requests'[p].left < Grace
          BY <3>5 DEF RequestType
        <4>2. QED
          BY <1>2, <2>0, <3>2, <3>3, <3>4, <4>1 DEF Admit, QuietInv, PresenceType
      <3>8. GateInv'
        BY <1>2, <2>0, <3>2, <3>4 DEF Admit, GateInv
      <3>9. RevokedIsReleased'
        BY <1>2, <2>0, <3>2, <3>4 DEF Admit, RevokedIsReleased
      <3>10. QED
        BY <3>5, <3>6, <3>7, <3>8, <3>9
    <2>3. QED
      BY <2>1, <2>2
  <1>3. ASSUME NEW q \in Requests, Open(q) PROVE LInv'
    <2> DEFINE c == requests[q].client
    <2>1. c \in Clients /\ c \notin gated
      BY <1>3 DEF Open, ActorInv, InFlight
    <2>2. LeaseTypeOK'
      BY <1>3, <2>1 DEF Open, SessionType
    <2>3. ActorInv' /\ QuietInv'
      BY <1>3 DEF Open, ActorInv, InFlight, QuietInv
    <2>4. GateInv'
      BY <1>3, <2>1 DEF Open, GateInv, SessionType
    <2>5. RevokedIsReleased'
      <3>1. c \in accepted \/ reload.client = c
        BY <2>1 DEF GateInv
      <3>2. QED
        BY <1>3, <3>1 DEF Open, RevokedIsReleased
    <2>6. QED
      BY <2>2, <2>3, <2>4, <2>5
  <1>4. ASSUME NEW q \in Requests, Respond(q) PROVE LInv'
    <2>1. /\ requests' = [requests EXCEPT ![q] = requests'[q]]
          /\ requests'[q] \in RequestType
          /\ requests'[q].client = requests[q].client /\ requests'[q].left = requests[q].left
          /\ requests[q].pc = "serving"
      <3>1. PICK ok \in BOOLEAN :
              requests' = [requests EXCEPT ![q].pc = "answered", ![q].ok = ok,
                             ![q].id = IF requests[q].kind = "handshake" THEN q ELSE requests[q].id]
        BY <1>4 DEF Respond
      <3> DEFINE r == [requests[q] EXCEPT !.pc = "answered", !.ok = ok,
                         !.id = IF requests[q].kind = "handshake" THEN q ELSE requests[q].id]
      <3>2. r \in RequestType /\ r.client = requests[q].client /\ r.left = requests[q].left
        BY ZenonT(30) DEF RequestType
      <3>3. requests' = [requests EXCEPT ![q] = r]
        BY <3>1
      <3>4. QED
        BY <1>4, <3>2, <3>3 DEF Respond
    <2>2. resident' \subseteq Requests
      BY <1>4 DEF Respond, RequestType
    <2>3. LeaseTypeOK'
      BY <1>4, <2>1, <2>2 DEF Respond
    <2>4. ActorInv' /\ QuietInv'
      BY <1>4, <2>1 DEF Respond, ActorInv, InFlight, QuietInv
    <2>5. GateInv' /\ RevokedIsReleased'
      BY <1>4 DEF Respond, GateInv, RevokedIsReleased
    <2>6. QED
      BY <2>3, <2>4, <2>5
  <1>5. ASSUME NEW q \in Requests, Settle(q) PROVE LInv'
    <2> DEFINE c == requests[q].client
    <2>0. c \in Clients /\ requests[q].id \in Requests \cup {Never}
      BY <1>5 DEF Settle, ActorInv, InFlight, RequestType
    <2>1. /\ requests' = [requests EXCEPT ![q] = requests'[q]]
          /\ requests'[q] \in RequestType
          /\ requests'[q].pc \in {"settled", "over"}
          /\ requests'[q].pc = "settled" =>
               requests'[q].client = c /\ requests'[q].left = requests[q].left
          /\ requests[q].pc = "answered"
      <3>1. [requests[q] EXCEPT !.pc = "settled"] \in RequestType
        BY DEF RequestType
      <3>2. QED
        BY <1>5, <3>1, OverIs DEF Settle, RequestType
    <2>2. /\ \A d \in Clients \ {c} : presence'[d] = presence[d]
          /\ presence' \in [Clients -> PresenceType]
          /\ presence'[c].releasing = presence[c].releasing /\ presence'[c].revoked = presence[c].revoked
          /\ presence'[c].deadline \in {presence[c].deadline, Grace}
      BY <1>5, <2>0, SettledIs DEF Settle
    <2>3. LeaseTypeOK'
      BY <1>5, <2>1, <2>2 DEF Settle
    <2>4. ActorInv'
      BY <1>5, <2>0, <2>1 DEF Settle, ActorInv, InFlight
    <2>5. QuietInv'
      <3>1. \A p \in Requests : requests'[p].left # Never => requests'[p].left < Grace
        BY <2>3 DEF RequestType
      <3>2. QED
        BY <1>5, <2>0, <2>1, <2>2, <3>1 DEF Settle, QuietInv
    <2>6. GateInv'
      BY <1>5, <2>0, <2>2 DEF Settle, GateInv
    <2>7. RevokedIsReleased'
      BY <1>5, <2>0, <2>2 DEF Settle, RevokedIsReleased, SessionType
    <2>8. QED
      BY <2>3, <2>4, <2>5, <2>6, <2>7
  <1>6. ASSUME NEW q \in Requests, Depart(q) PROVE LInv'
    <2> DEFINE c == requests[q].client
    <2>0. c \in Clients
      BY <1>6 DEF Depart, ActorInv, InFlight
    <2>1. /\ requests' = [requests EXCEPT ![q] = requests'[q]]
          /\ requests'[q] \in RequestType /\ requests'[q].pc = "over"
      BY <1>6, OverIs DEF Depart
    <2>2. /\ \A d \in Clients \ {c} : presence'[d] = presence[d]
          /\ presence' \in [Clients -> PresenceType]
          /\ presence'[c].releasing = presence[c].releasing /\ presence'[c].revoked = presence[c].revoked
          /\ presence'[c].deadline \in {presence[c].deadline, Grace}
      BY <1>6, <2>0 DEF Depart, PresenceType
    <2>3. LeaseTypeOK'
      BY <1>6, <2>1, <2>2 DEF Depart
    <2>4. ActorInv'
      BY <1>6, <2>1 DEF Depart, ActorInv, InFlight
    <2>5. QuietInv'
      <3>1. \A p \in Requests : requests'[p].left # Never => requests'[p].left < Grace
        BY <2>3 DEF RequestType
      <3>2. QED
        BY <1>6, <2>0, <2>1, <2>2, <3>1 DEF Depart, QuietInv
    <2>6. GateInv'
      BY <1>6, <2>0, <2>2 DEF Depart, GateInv
    <2>7. RevokedIsReleased'
      BY <1>6, <2>0, <2>2, SMTT(30) DEF Depart, RevokedIsReleased, SessionType
    <2>8. QED
      BY <2>3, <2>4, <2>5, <2>6, <2>7
  <1>7. ASSUME NEW c \in Clients, Expire(c) PROVE LInv'
    <2>1. /\ \A d \in Clients \ {c} : presence'[d] = presence[d]
          /\ presence' \in [Clients -> PresenceType]
          /\ presence'[c].revoked = presence[c].revoked
      BY <1>7 DEF Expire, PresenceType
    <2>2. /\ sweeper' \in SweeperType /\ sweeper'.at = "expired" /\ sweeper'.client = c
          /\ sweeper'.revoked = presence[c].revoked /\ sweeper'.victims = {}
      BY <1>7 DEF Expire, SweeperType, PresenceType
    <2>3. LeaseTypeOK'
      BY <1>7, <2>1, <2>2 DEF Expire
    <2>4. ActorInv'
      BY <1>7, <2>2 DEF Expire, ActorInv, InFlight
    <2>5. QuietInv'
      <3>1. \A q \in Requests : requests[q].pc \in {"serving", "answered", "settled"}
               /\ requests[q].client \in accepted /\ requests[q].left # Never
                  => requests[q].client # c
        BY <1>7 DEF Expire, QuietInv, RequestType
      <3>2. QED
        BY <1>7, <2>1, <3>1 DEF Expire, QuietInv
    <2>6. GateInv'
      BY <1>7, <2>1, <2>2 DEF Expire, GateInv
    <2>7. RevokedIsReleased'
      BY <1>7, <2>1, <2>2 DEF Expire, RevokedIsReleased, ActorInv, SessionType
    <2>8. QED
      BY <2>3, <2>4, <2>5, <2>6, <2>7
  <1>8. CASE ReleaseLeased
    <2>1. /\ sweeper' \in SweeperType /\ sweeper'.at = "releasing" /\ sweeper'.client = sweeper.client
          /\ sweeper'.revoked = sweeper.revoked
          /\ sweeper'.victims = {s \in open : s.owner = sweeper.client}
      BY <1>8 DEF ReleaseLeased, SweeperType
    <2>2. LeaseTypeOK'
      BY <1>8, <2>1 DEF ReleaseLeased
    <2>3. ActorInv' /\ QuietInv'
      BY <1>8, <2>1 DEF ReleaseLeased, ActorInv, InFlight, QuietInv
    <2>4. GateInv'
      BY <1>8, <2>1 DEF ReleaseLeased, GateInv
    <2>5. RevokedIsReleased'
      BY <1>8, <2>1 DEF ReleaseLeased, RevokedIsReleased
    <2>6. QED
      BY <2>2, <2>3, <2>4, <2>5
  <1>9. CASE ReleaseDone
    <2>1. /\ sweeper' \in SweeperType /\ sweeper'.at = "closing" /\ sweeper'.client = sweeper.client
          /\ sweeper'.revoked = sweeper.revoked /\ sweeper'.victims = {}
          /\ open' = open \ sweeper.victims
      BY <1>9 DEF ReleaseDone, SweeperType
    <2>2. LeaseTypeOK'
      BY <1>9, <2>1 DEF ReleaseDone
    <2>3. ActorInv' /\ QuietInv'
      BY <1>9, <2>1 DEF ReleaseDone, ActorInv, InFlight, QuietInv
    <2>4. GateInv'
      BY <1>9, <2>1 DEF ReleaseDone, GateInv
    <2>5. RevokedIsReleased'
      BY <1>9, <2>1 DEF ReleaseDone, RevokedIsReleased
    <2>6. QED
      BY <2>2, <2>3, <2>4, <2>5
  <1>10. CASE CloseAndForget
    <2> DEFINE c == sweeper.client
    <2>0. c \in Clients
      BY <1>10 DEF CloseAndForget, ActorInv, SweeperType
    <2>1. /\ \A d \in Clients \ {c} : presence'[d] = presence[d]
          /\ presence' \in [Clients -> PresenceType]
          /\ ~presence'[c].releasing /\ (presence'[c].revoked => presence[c].revoked)
          /\ presence'[c].deadline = IF sweeper.revoked THEN Never ELSE presence[c].deadline
      BY <1>10, <2>0, ZenonT(30) DEF CloseAndForget, PresenceType, Blank
    <2>2. /\ sweeper' \in SweeperType /\ sweeper'.at = "idle" /\ sweeper'.client = Never
          /\ ~sweeper'.revoked /\ sweeper'.victims = {}
      BY <1>10 DEF CloseAndForget, Resting, SweeperType
    <2>3. LeaseTypeOK'
      BY <1>10, <2>1, <2>2 DEF CloseAndForget
    <2>4. ActorInv'
      BY <1>10, <2>2 DEF CloseAndForget, ActorInv, InFlight
    <2>5. QuietInv'
      BY <1>10, <2>0, <2>1 DEF CloseAndForget, QuietInv
    <2>6. GateInv'
      BY <1>10, <2>0, <2>1, <2>2 DEF CloseAndForget, GateInv
    <2>7. RevokedIsReleased'
      <3>1. sweeper.victims = {}
        BY <1>10 DEF CloseAndForget, ActorInv
      <3>2. sweeper.revoked => \A s \in open : s.owner # c
        BY <1>10, <3>1 DEF CloseAndForget, GateInv
      <3>3. QED
        BY <1>10, <2>0, <2>1, <2>2, <3>1, <3>2 DEF CloseAndForget, RevokedIsReleased, SessionType
    <2>8. QED
      BY <2>3, <2>4, <2>5, <2>6, <2>7
  <1>11. CASE Reload
    <2>1. PICK c \in accepted : accepted' = accepted \ {c} /\ reload' = [at |-> "swapped", client |-> c]
      BY <1>11 DEF Reload, Swap
    <2>2. LeaseTypeOK'
      BY <1>11, <2>1 DEF Reload, Swap, ReloadType
    <2>3. ActorInv' /\ QuietInv'
      BY <1>11, <2>1 DEF Reload, Swap, ActorInv, InFlight, QuietInv
    <2>4. GateInv'
      BY <1>11, <2>1 DEF Reload, Swap, GateInv
    <2>5. RevokedIsReleased'
      BY <1>11, <2>1 DEF Reload, Swap, RevokedIsReleased, ActorInv, SessionType
    <2>6. QED
      BY <2>2, <2>3, <2>4, <2>5
  <1>12. CASE Revoke
    <2> DEFINE c == reload.client
    <2>0. c \in Clients
      BY <1>12 DEF Revoke, ActorInv, ReloadType
    <2>1. CASE reload.at = "swapped"
      <3>1. /\ gated' = gated \cup {c} /\ presence' = presence /\ accepted' = accepted
            /\ reload' \in ReloadType /\ reload'.at = "gated" /\ reload'.client = c
        BY <1>12, <2>1 DEF Revoke, ShutGate, ReloadType
      <3>2. LeaseTypeOK'
        BY <1>12, <2>0, <3>1 DEF Revoke
      <3>3. ActorInv' /\ QuietInv'
        BY <1>12, <2>0, <3>1 DEF Revoke, ActorInv, InFlight, QuietInv
      <3>4. GateInv'
        BY <1>12, <3>1 DEF Revoke, GateInv
      <3>5. RevokedIsReleased'
        BY <1>12, <3>1 DEF Revoke, RevokedIsReleased
      <3>6. QED
        BY <3>2, <3>3, <3>4, <3>5
    <2>2. CASE reload.at = "gated"
      <3>1. /\ presence' = [presence EXCEPT ![c].revoked = TRUE, ![c].deadline = 0]
            /\ gated' = gated /\ accepted' = accepted
            /\ reload' = [at |-> "idle", client |-> Never]
        BY <1>12, <2>2 DEF Revoke, RevokeLease
      <3>2. /\ \A d \in Clients \ {c} : presence'[d] = presence[d]
            /\ presence' \in [Clients -> PresenceType]
            /\ presence'[c].revoked /\ presence'[c].deadline = 0
            /\ presence'[c].releasing = presence[c].releasing
        <4>1. [presence[c] EXCEPT !.revoked = TRUE, !.deadline = 0] \in PresenceType
          BY <2>0, ZenonT(30) DEF PresenceType
        <4>2. presence'[c] = [presence[c] EXCEPT !.revoked = TRUE, !.deadline = 0]
          BY <2>0, <3>1
        <4>3. QED
          BY <2>0, <3>1, <4>1, <4>2 DEF PresenceType
      <3>3. LeaseTypeOK'
        BY <1>12, <3>1, <3>2 DEF Revoke, ReloadType
      <3>4. ActorInv'
        BY <1>12, <3>1 DEF Revoke, ActorInv, InFlight
      <3>5. QuietInv'
        BY <1>12, <2>0, <2>2, <3>1, <3>2 DEF Revoke, QuietInv, GateInv
      <3>6. GateInv'
        BY <1>12, <2>0, <2>2, <3>1, <3>2 DEF Revoke, GateInv
      <3>7. RevokedIsReleased'
        BY <1>12, <2>0, <3>1, <3>2 DEF Revoke, RevokedIsReleased, SessionType
      <3>8. QED
        BY <3>3, <3>4, <3>5, <3>6, <3>7
    <2>3. QED
      BY <1>12, <2>1, <2>2 DEF Revoke
  <1>13. CASE Tick
    <2>1. /\ \A q \in Requests : /\ requests'[q].pc = requests[q].pc
                                 /\ requests'[q].client = requests[q].client
                                 /\ InFlight(q) => requests'[q].left = Outlast(requests[q].left)
          /\ requests' \in [Requests -> RequestType]
      <3>1. \A q \in Requests : [requests[q] EXCEPT !.left = Outlast(requests[q].left)] \in RequestType
        BY LeftIs DEF RequestType
      <3>2. QED
        BY <1>13, <3>1 DEF Tick, RequestType
    <2>2. /\ presence' \in [Clients -> PresenceType]
          /\ \A c \in Clients : /\ presence'[c].releasing = presence[c].releasing
                                /\ presence'[c].revoked = presence[c].revoked
                                /\ presence'[c].deadline = Later(presence[c].deadline)
      BY <1>13, LaterIs, SMTT(30) DEF Tick, PresenceType
    <2>3. LeaseTypeOK'
      BY <1>13, <2>1, <2>2 DEF Tick
    <2>4. ActorInv'
      BY <1>13, <2>1 DEF Tick, ActorInv, InFlight
    <2>5. QuietInv'
      <3>1. ASSUME NEW q \in Requests,
                   requests[q].pc \in {"serving", "answered", "settled"},
                   requests[q].client \in accepted, requests'[q].left # Never
            PROVE  /\ ~presence'[requests[q].client].releasing
                   /\ presence'[requests[q].client].deadline # Never =>
                        presence'[requests[q].client].deadline > requests'[q].left
        <4> DEFINE c == requests[q].client
                   d == presence[c].deadline
                   n == requests[q].left
        <4>0. requests'[q].left = Outlast(n) /\ n \in 0 .. Longest \cup {Never}
          BY <2>1, <3>1 DEF InFlight, RequestType
        <4>1. n \in 1 .. Longest /\ requests'[q].left = n - 1 /\ n # Never
          <5>1. Outlast(n) # Never
            BY <3>1, <4>0
          <5>2. n \in Nat /\ n # 0 /\ n # Never /\ Outlast(n) = n - 1
            <6> HIDE DEF n
            <6> QED
              BY <4>0, <5>1 DEF Outlast, Later
          <5>3. QED
            BY <4>0, <5>2
        <4>2. c \in Clients /\ d \in Nat \cup {Never}
          BY <3>1 DEF PresenceType
        <4>3. ~presence[c].releasing /\ (d # Never => d > n)
          BY <3>1, <4>1 DEF QuietInv
        <4>4. d # Never => Later(d) = d - 1 /\ d - 1 > n - 1
          BY <4>1, <4>2, <4>3, LaterIs
        <4>5. QED
          BY <2>2, <4>1, <4>2, <4>3, <4>4, LaterIs
      <3>2. /\ accepted' = accepted
            /\ \A q \in Requests : /\ requests'[q].pc = requests[q].pc
                                 /\ requests'[q].client = requests[q].client
        BY <1>13, <2>1 DEF Tick
      <3>3. QED
        BY <3>1, <3>2 DEF QuietInv
    <2>6. GateInv'
      BY <1>13, <2>2 DEF Tick, GateInv
    <2>7. RevokedIsReleased'
      BY <1>13, <2>2, LaterIs DEF Tick, RevokedIsReleased, SessionType, PresenceType
    <2>8. QED
      BY <2>3, <2>4, <2>5, <2>6, <2>7
  <1>14. CASE UNCHANGED leaseVars
    BY <1>14 DEF leaseVars, ActorInv, InFlight, QuietInv, GateInv, RevokedIsReleased
  <1>15. QED
    BY <1>1, <1>2, <1>3, <1>4, <1>5, <1>6, <1>7, <1>8, <1>9, <1>10, <1>11, <1>12, <1>13, <1>14
       DEF LeaseNext, Sweep

(***************************************************************************)
(* No lease runs out under a request that keeps to the longest quiet call  *)
(* (listen.rs, Lease::new and Lease::admit): whatever the grace, as long   *)
(* as it is longer than that, such a request of a configured client never  *)
(* has its sessions released under it.  A request that takes longer may.   *)
(***************************************************************************)
THEOREM QuietWhenSwept == LeaseSpec => []SweepSparesQuietCalls
  <1>1. LInv => SweepSparesQuietCalls
    BY DEF LInv, QuietInv, SweepSparesQuietCalls, Served, SweptUnder
  <1>2. QED
    BY LInit, LStep, <1>1, PTL DEF LeaseSpec

(***************************************************************************)
(* Every session of a client taken out of the configuration is still the   *)
(* business of the reload, of a deadline or of the sweeper (listen.rs,     *)
(* reloaded and sweep), however its last calls interleave with them.       *)
(***************************************************************************)
THEOREM RevokedHandled == LeaseSpec => []RevokedIsReleased
  <1>1. LInv => RevokedIsReleased
    BY DEF LInv
  <1>2. QED
    BY LInit, LStep, <1>1, PTL DEF LeaseSpec
============================================================================
