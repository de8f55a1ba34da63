------------------------------- MODULE Lease -------------------------------
(***************************************************************************)
(* The HTTP listener's leases (listen.rs): requests pass the gate, the     *)
(* sweeper releases what an absent or a revoked client has left, and a     *)
(* reload of the configuration revokes clients.                            *)
(*                                                                         *)
(* A client is an incarnation of a name, so a name given back is another   *)
(* client.  Time is counted in ticks: a deadline is the ticks left until   *)
(* it has passed.  left_open, which only words a log line, is left out.    *)
(***************************************************************************)
EXTENDS Naturals, FiniteSets

CONSTANTS
    Clients,
    MaxRequests,  \* requests of one behaviour, in the order they arrive
    Senders,      \* the clients that may send each of them
    MaxReloads,   \* how many clients are taken out of the configuration
    Grace,        \* Lease::grace
    Longest,      \* longest_quiet_call
    Never         \* no deadline, no MCP session, no client

(***************************************************************************)
(* Lease::new refuses to start otherwise.                                  *)
(***************************************************************************)
ASSUME LeaseConstants ==
    /\ MaxRequests \in Nat /\ MaxReloads \in Nat
    /\ \A q \in 1 .. MaxRequests : Senders[q] \subseteq Clients
    /\ Longest \in Nat \ {0} /\ Grace \in Nat /\ Grace > Longest
    /\ Never \notin Nat \cup Clients

\* An MCP session is named by the handshake that minted it, a debug session
\* by the call that opened it.
Requests == 1 .. MaxRequests

VARIABLES
    requests,  \* the gate, per request
    presence,  \* Lease::state; a client without an entry has a blank one
    accepted,  \* the clients whose credential is accepted
    gated,     \* Sessions::revoke: no new session is registered for them
    resident,  \* the MCP sessions of the service
    open,      \* the debug sessions, each with its owner
    sweeper,   \* one pass of sweep over one client
    reload     \* the revocation being applied

leaseVars == <<requests, presence, accepted, gated, resident, open, sweeper, reload>>

Blank == [mcp |-> {}, releasing |-> FALSE, deadline |-> Never, revoked |-> FALSE]
Resting == [at |-> "idle", client |-> Never, mcp |-> {}, revoked |-> FALSE, victims |-> {}]
RequestKinds == {"handshake", "call", "delete"}
NoRequest == [pc |-> "idle", client |-> Never, kind |-> "call", id |-> Never, ok |-> FALSE, left |-> 0]

LeaseInit ==
    /\ requests = [q \in Requests |-> NoRequest]
    /\ presence = [c \in Clients |-> Blank]
    /\ accepted = Clients /\ gated = {} /\ resident = {} /\ open = {}
    /\ sweeper = Resting
    /\ reload = [at |-> "idle", client |-> Never]

InFlight(q) == requests[q].pc \in {"authorised", "serving", "answered", "settled"}

-----------------------------------------------------------------------------
(***************************************************************************)
(* authorised: the credential is looked up in the set of the moment.  The  *)
(* request may carry an MCP session, its client's own or another's.        *)
(***************************************************************************)
Authorise(q, c, kind, id) ==
    /\ requests[q].pc = "idle" /\ \A p \in 1 .. q - 1 : requests[p].pc # "idle"
    /\ c \in accepted
    /\ (kind = "handshake" => id = Never) /\ (kind = "delete" => id # Never)
    /\ requests' = [requests EXCEPT
                      ![q] = [pc |-> "authorised", client |-> c, kind |-> kind, id |-> id,
                              ok |-> FALSE, left |-> Longest]]
    /\ UNCHANGED <<presence, accepted, gated, resident, open, sweeper, reload>>

(***************************************************************************)
(* Lease::admit: another client's MCP session is not this one's to use;    *)
(* nothing is served while this client's sessions are being released; and  *)
(* a deadline that is running is renewed.                                  *)
(***************************************************************************)
HeldByAnother(c, id) == \E other \in Clients \ {c} : id \in presence[other].mcp

Admission(c, id) ==
    IF HeldByAnother(c, id) THEN "NotYours"
    ELSE IF presence[c].releasing \/ presence[c].revoked THEN "Releasing"
    ELSE "Serve"

RenewedBySettlingOnly(p) == p
Renewed(p) == IF p.deadline = Never THEN p ELSE [p EXCEPT !.deadline = Grace]

Admit(q) ==
    LET c == requests[q].client
        answer == Admission(c, requests[q].id)
    IN  /\ requests[q].pc = "authorised"
        /\ requests' = [requests EXCEPT
                          ![q] = IF answer = "Serve" THEN [@ EXCEPT !.pc = "serving"]
                                 ELSE [NoRequest EXCEPT !.pc = answer]]
        /\ presence' = IF answer = "Serve" THEN [presence EXCEPT ![c] = Renewed(@)] ELSE presence
        /\ UNCHANGED <<accepted, gated, resident, open, sweeper, reload>>

(***************************************************************************)
(* The service.  A call may open a debug session, which the registry       *)
(* refuses to a client whose gate is shut; a handshake mints an MCP        *)
(* session; a session that is not there is refused, and so may a DELETE    *)
(* be for its own reasons.                                                 *)
(***************************************************************************)
Open(q) ==
    /\ requests[q].pc = "serving" /\ requests[q].kind = "call"
    /\ requests[q].client \notin gated
    /\ ~\E s \in open : s.by = q
    /\ open' = open \cup {[by |-> q, owner |-> requests[q].client]}
    /\ UNCHANGED <<requests, presence, accepted, gated, resident, sweeper, reload>>

Respond(q) ==
    /\ requests[q].pc = "serving"
    /\ LET id == requests[q].id
           kind == requests[q].kind
           known == id = Never \/ id \in resident
       IN  \E ok \in IF known /\ kind = "delete" THEN BOOLEAN ELSE {known} :
             /\ requests' = [requests EXCEPT ![q].pc = "answered", ![q].ok = ok,
                                             ![q].id = IF kind = "handshake" THEN q ELSE id]
             /\ resident' = CASE kind = "handshake" -> resident \cup {q}
                              [] kind = "delete" /\ ok -> resident \ {id}
                              [] OTHER -> resident
    /\ UNCHANGED <<presence, accepted, gated, open, sweeper, reload>>

(***************************************************************************)
(* Lease::settle: an MCP session the service honoured is recorded and the  *)
(* clock starts, unless the client has been revoked.                       *)
(***************************************************************************)
Settled(p, id) ==
    [p EXCEPT !.mcp = @ \cup {id}, !.deadline = IF p.revoked THEN @ ELSE Grace]

Settle(q) ==
    LET r == requests[q]
    IN  /\ r.pc = "answered"
        /\ presence' = IF r.id # Never /\ r.ok
                       THEN [presence EXCEPT ![r.client] = Settled(@, r.id)] ELSE presence
        /\ requests' = [requests EXCEPT
                          ![q] = IF r.kind = "delete" /\ r.ok THEN [@ EXCEPT !.pc = "settled"]
                                 ELSE [NoRequest EXCEPT !.pc = "over"]]
        /\ UNCHANGED <<accepted, gated, resident, open, sweeper, reload>>

(***************************************************************************)
(* Lease::released, after a DELETE the service agreed to.                  *)
(***************************************************************************)
Depart(q) ==
    LET c == requests[q].client
        id == requests[q].id
    IN  /\ requests[q].pc = "settled"
        /\ presence' = IF id \notin presence[c].mcp THEN presence
                       ELSE [presence EXCEPT ![c].mcp = @ \ {id}, ![c].deadline = Grace]
        /\ requests' = [requests EXCEPT ![q] = [NoRequest EXCEPT !.pc = "over"]]
        /\ UNCHANGED <<accepted, gated, resident, open, sweeper, reload>>

-----------------------------------------------------------------------------
(***************************************************************************)
(* sweep, over one client: expired_for claims the teardown under the lock  *)
(* that reads the deadline; the release is of the sessions there are when  *)
(* it begins, and takes its time; then the MCP sessions left behind are    *)
(* closed and the client is let in again, or forgotten.                    *)
(***************************************************************************)
Expire(c) ==
    /\ sweeper.at = "idle" /\ presence[c].deadline = 0
    /\ presence' = [presence EXCEPT ![c].mcp = {}, ![c].deadline = Never,
                                    ![c].releasing = TRUE]
    /\ sweeper' = [at |-> "expired", client |-> c, mcp |-> presence[c].mcp,
                   revoked |-> presence[c].revoked, victims |-> {}]
    /\ UNCHANGED <<requests, accepted, gated, resident, open, reload>>

ReleaseLeased ==
    /\ sweeper.at = "expired"
    /\ sweeper' = [sweeper EXCEPT !.at = "releasing",
                                  !.victims = {s \in open : s.owner = sweeper.client}]
    /\ UNCHANGED <<requests, presence, accepted, gated, resident, open, reload>>

ReleaseDone ==
    /\ sweeper.at = "releasing"
    /\ open' = open \ sweeper.victims
    /\ sweeper' = [sweeper EXCEPT !.at = "closing", !.victims = {}]
    /\ UNCHANGED <<requests, presence, accepted, gated, resident, reload>>

CloseAndForget ==
    /\ sweeper.at = "closing"
    /\ resident' = resident \ sweeper.mcp
    /\ presence' = [presence EXCEPT ![sweeper.client] =
                       IF sweeper.revoked THEN Blank ELSE [@ EXCEPT !.releasing = FALSE]]
    /\ sweeper' = Resting
    /\ UNCHANGED <<requests, accepted, gated, open, reload>>

Sweep == (\E c \in Clients : Expire(c)) \/ ReleaseLeased \/ ReleaseDone \/ CloseAndForget

(***************************************************************************)
(* reloaded: the new set of clients, and for each one that is gone the     *)
(* registry's gate before the lease.                                       *)
(***************************************************************************)
Swap ==
    /\ reload.at = "idle" /\ Cardinality(Clients \ accepted) < MaxReloads
    /\ \E c \in accepted :
         /\ accepted' = accepted \ {c}
         /\ reload' = [at |-> "swapped", client |-> c]
    /\ UNCHANGED <<gated, presence>>

ShutGate == gated' = gated \cup {reload.client} /\ UNCHANGED <<accepted, presence>>

RevokeLease ==
    /\ presence' = [presence EXCEPT ![reload.client].revoked = TRUE, ![reload.client].deadline = 0]
    /\ UNCHANGED <<accepted, gated>>

LeaseBeforeGate ==
    /\ \/ reload.at = "swapped" /\ RevokeLease /\ reload' = [reload EXCEPT !.at = "gated"]
       \/ reload.at = "gated" /\ ShutGate /\ reload' = [at |-> "idle", client |-> Never]
    /\ UNCHANGED <<requests, resident, open, sweeper>>

Revoke ==
    /\ \/ reload.at = "swapped" /\ ShutGate /\ reload' = [reload EXCEPT !.at = "gated"]
       \/ reload.at = "gated" /\ RevokeLease /\ reload' = [at |-> "idle", client |-> Never]
    /\ UNCHANGED <<requests, resident, open, sweeper>>

Reload == Swap /\ UNCHANGED <<requests, resident, open, sweeper>>

(***************************************************************************)
(* Time.  Nothing bounds a request: one that is not over when the longest  *)
(* quiet call would be has outlasted it, as the opening of a Secure Kernel *)
(* session may, which makes two opens, a wait and a release in turn.       *)
(***************************************************************************)
Later(n) == IF n = Never \/ n = 0 THEN n ELSE n - 1
Outlast(n) == IF n = 0 THEN Never ELSE Later(n)

Tick ==
    /\ \E c \in Clients : presence[c].deadline \notin {Never, 0}
    /\ requests' = [q \in Requests |->
                      IF InFlight(q) THEN [requests[q] EXCEPT !.left = Outlast(@)] ELSE requests[q]]
    /\ presence' = [c \in Clients |-> [presence[c] EXCEPT !.deadline = Later(@)]]
    /\ UNCHANGED <<accepted, gated, resident, open, sweeper, reload>>

LeaseNext ==
    \/ \E q \in Requests :
         \/ \E c \in Senders[q], kind \in RequestKinds, id \in resident \cup {Never} : Authorise(q, c, kind, id)
         \/ Admit(q) \/ Open(q) \/ Respond(q) \/ Settle(q) \/ Depart(q)
    \/ Sweep \/ Reload \/ Revoke \/ Tick

LeaseSpec == LeaseInit /\ [][LeaseNext]_leaseVars

-----------------------------------------------------------------------------
Served(q) == requests[q].pc \in {"serving", "answered", "settled"}
SweptUnder(q) == presence[requests[q].client].releasing /\ requests[q].client \in accepted

(***************************************************************************)
(* A request of a client that is still configured and that has taken no    *)
(* longer than the longest quiet call never has that client's sessions     *)
(* released under it, whatever other requests of the client renewed the    *)
(* lease, started it or ended its MCP session meanwhile.                   *)
(***************************************************************************)
SweepSparesQuietCalls ==
    \A q \in Requests : Served(q) /\ requests[q].left # Never => ~SweptUnder(q)

(***************************************************************************)
(* The same of every request, as Lease::new has it: no request of that     *)
(* credential's can still be in flight when its lease expires.             *)
(***************************************************************************)
SweepFindsNoCall == \A q \in Requests : Served(q) => ~SweptUnder(q)

(***************************************************************************)
(* A debug session of a client taken out of the configuration is never     *)
(* left to nobody: the reload is still at work on its client, or the       *)
(* lease has a deadline that will pass, or the sweeper is about to release *)
(* it.  A call under way when its client was revoked is the hard case: it  *)
(* may open a session, or settle, after the lease has been forgotten.      *)
(***************************************************************************)
RevokedIsReleased ==
    \A s \in open :
        \/ s.owner \in accepted
        \/ reload.client = s.owner
        \/ presence[s.owner].deadline # Never
        \/ sweeper.client = s.owner /\ (sweeper.at = "expired" \/ s \in sweeper.victims)
=============================================================================
