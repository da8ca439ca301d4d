--------------------------- MODULE RouteForwarder ---------------------------
(***************************************************************************)
(* The router B of a trusted one-hop route A -> B -> C: Forwarder          *)
(* (internal/mesh/forwarder.go) with the authorizers that                  *)
(* internal/meshruntime/runtime.go gives it and the replay store they      *)
(* share.  An operation is one call of Runtime.ServeRouteControl, a        *)
(* goroutine of its own; its steps end where it takes a mutex, blocks on   *)
(* a link, or reads the clock, so that operations, policy changes,         *)
(* revocations, timers and a crash of the agent interleave.                *)
(***************************************************************************)
EXTENDS Integers, MeshRoute, RouteReplay

CONSTANTS Ops,          \* the route-open operations
          Requests,     \* the route-open requests the peers may send
          Router,       \* Forwarder.LocalID
          Sources,      \* devices that may be trusted as sources
          Transports,   \* transports of authenticated links
          Policies,     \* values of SetRouterPolicy
          ConfigPolicy, \* the policy a starting agent is configured with
          MaxLifetime,  \* MaxRouteAuthorizationLifetime
          MaxCount      \* the largest uint64 of the counters

\* Every signed authorization has its own JTI, whose claims fix the expiry.
ASSUME RouteForwarderAssumption ==
    /\ IsFiniteSet(Ops)
    /\ Policies \subseteq RouterPolicies(Nat)
    /\ ConfigPolicy \in Policies
    /\ MaxCount \in Nat /\ MaxLifetime \in Nat
    /\ \A q \in Requests :
          /\ q.auth.jti \in JTIs
          /\ q.route.expires \in Nat
          /\ q.auth.signed => q.auth.route.expires = Expiry[q.auth.jti]

VARIABLES policy,      \* Forwarder.Policy
          active,      \* Forwarder.active
          sessions,    \* Forwarder.sessionsForwarded
          bytes,       \* Forwarder.bytesForwarded
          trusted,     \* the router-source trust store
          stopping,    \* whether the agent's context has been cancelled
          pc,          \* where each operation is
          request,     \* the request it read
          snapshot,    \* the policy it was prepared under
          remote,      \* peer and transport of its incoming link
          incoming,    \* its incoming link: "none", "open" or "closed"
          outgoing,    \* its outgoing link, the same
          ctxDone,     \* whether its route context has been cancelled
          running,     \* the directions whose copy goroutine still runs
          collected,   \* the directions whose outcome copyOpaque received
          reply,       \* what the peer was told
          consumedAt   \* history: the time its authorization was consumed

opVars == <<request, snapshot, remote, incoming, outgoing, ctxDone, running,
            collected, reply, consumedAt>>
routerVars == <<policy, active, sessions, bytes, trusted, stopping>>
vars == <<replayVars, routerVars, pc, opVars>>

Directions == {"toDestination", "toSource"}
Codes == {"invalid_request", "denied", "busy", "unavailable"}
Phases == {"idle", "reading", "preparing", "acquiring", "localAuth", "verifying",
           "consuming", "dialing", "accepting", "forwarding", "rejecting", "done"}

\* The phases between acquireSession and releaseSession.
SlotPhases == {"localAuth", "verifying", "consuming", "dialing", "accepting", "forwarding"}
Holding == {o \in Ops : pc[o] \in SlotPhases}

NoRequest == [route |-> Blank]
NoPolicy == [enabled |-> FALSE, maxSessions |-> 0, lanOnly |-> FALSE]
NoLink == <<Blank, Blank>>
Never == MaxClock + 1

RouterTypeOK ==
    /\ policy \in Policies
    /\ active \in Int
    /\ sessions \in 0..MaxCount
    /\ bytes \in 0..MaxCount
    /\ trusted \subseteq Sources
    /\ stopping \in BOOLEAN

RouteTypeOK ==
    /\ pc \in [Ops -> Phases]
    /\ request \in [Ops -> Requests \cup {NoRequest}]
    /\ snapshot \in [Ops -> Policies \cup {NoPolicy}]
    /\ remote \in [Ops -> (Sources \X Transports) \cup {NoLink}]
    /\ consumedAt \in [Ops -> 0..Never]

TunnelTypeOK ==
    /\ incoming \in [Ops -> {"none", "open", "closed"}]
    /\ outgoing \in [Ops -> {"none", "open", "closed"}]
    /\ ctxDone \in [Ops -> BOOLEAN]
    /\ running \in [Ops -> SUBSET Directions]
    /\ collected \in [Ops -> SUBSET Directions]
    /\ reply \in [Ops -> Codes \cup {"none", "lost", "accepted"}]

\* The types of the variables; the counters keep the width of a uint64.
TypeOK == ReplayTypeOK /\ RouterTypeOK /\ RouteTypeOK /\ TunnelTypeOK

Init ==
    /\ ReplayInit
    /\ policy = ConfigPolicy
    /\ active = 0 /\ sessions = 0 /\ bytes = 0
    /\ trusted = Sources
    /\ stopping = FALSE
    /\ pc = [o \in Ops |-> "idle"]
    /\ request = [o \in Ops |-> NoRequest]
    /\ snapshot = [o \in Ops |-> NoPolicy]
    /\ remote = [o \in Ops |-> NoLink]
    /\ incoming = [o \in Ops |-> "none"]
    /\ outgoing = [o \in Ops |-> "none"]
    /\ ctxDone = [o \in Ops |-> FALSE]
    /\ running = [o \in Ops |-> {}]
    /\ collected = [o \in Ops |-> {}]
    /\ reply = [o \in Ops |-> "none"]
    /\ consumedAt = [o \in Ops |-> Never]

----------------------------------------------------------------------------
(* Helpers of the steps.                                                   *)

Go(o, phase) == pc' = [pc EXCEPT ![o] = phase]

\* Variants for sensitivity checks: the sum overflows, or wraps around.
OverflowingAdd(left, right) == left + right

\* saturatingAddUint64
SaturatingAdd(left, right) == IF MaxCount - left < right THEN MaxCount ELSE left + right

\* validateRouteAuthorizationSyntax: exact one-hop shape through the router the
\* claims name, and a bounded lifetime.
WellFormedAuth(a) ==
    /\ a.issued > 0
    /\ a.route.expires > a.issued
    /\ Validate(a.route, a.route.expires - 1)
    /\ Len(a.route.hops) = 2
    /\ a.route.hops[1].to = a.router
    /\ a.route.hops[2].from = a.router
    /\ a.route.expires - a.issued <= MaxLifetime

\* VerifyAndConsume up to the consumption: signature, time window, route
\* freshness and the exact match of claims and request.
Verified(q) ==
    LET a == q.auth IN
        /\ WellFormedAuth(a)
        /\ a.signed
        /\ a.issued <= clock
        /\ a.route.expires > clock
        /\ Validate(q.route, clock)
        /\ a.router = Router
        /\ a.route = q.route

\* The checks of prepareForward that follow the policy checks, and the code
\* that routeOpenCodeForForwardError gives to the first that fails.
Structural(q) ==
    /\ Validate(q.route, clock)
    /\ Len(q.route.hops) = 2
    /\ q.route.hops[1].to = Router
    /\ q.route.hops[2].from = Router

\* Variant for sensitivity checks: the peer of the link is not compared.
TransportMatches(o, q) == remote[o][2] = q.route.hops[1].transport

LinkMatches(o, q) ==
    /\ remote[o][1] = q.route.source
    /\ remote[o][2] = q.route.hops[1].transport

\* A failure before a slot is held: only the answer remains.
Refuse(o, code) ==
    /\ Go(o, "rejecting")
    /\ reply' = [reply EXCEPT ![o] = code]

\* Variant for sensitivity checks: an error return that keeps the slot.
AbandonKeepingSlot(o, code) ==
    /\ Refuse(o, code)
    /\ ctxDone' = [ctxDone EXCEPT ![o] = TRUE]
    /\ UNCHANGED active

\* A failure while a slot is held: the context is cancelled and the slot
\* released before prepareForward returns.
Abandon(o, code) ==
    /\ Refuse(o, code)
    /\ active' = active - 1
    /\ ctxDone' = [ctxDone EXCEPT ![o] = TRUE]

\* An authorizer's error is reported as denied unless the context ended.
AuthFailure(o) == IF ctxDone[o] THEN "unavailable" ELSE "denied"

----------------------------------------------------------------------------
(* ServeRouteControl and ServeRouteOpen.                                   *)

\* AcceptRouteControlLink: the TLS handshake pins a trusted source.
Open(o, source, transport) ==
    /\ pc[o] = "idle" /\ ~stopping
    /\ source \in trusted
    /\ Go(o, "reading")
    /\ remote' = [remote EXCEPT ![o] = <<source, transport>>]
    /\ incoming' = [incoming EXCEPT ![o] = "open"]
    /\ UNCHANGED <<replayVars, routerVars, request, snapshot, outgoing, ctxDone, running,
                   collected, reply, consumedAt>>

ReadRequest(o, q) ==
    /\ pc[o] = "reading"
    /\ Go(o, "preparing")
    /\ request' = [request EXCEPT ![o] = q]
    /\ UNCHANGED <<replayVars, routerVars, snapshot, remote, incoming, outgoing, ctxDone,
                   running, collected, reply, consumedAt>>

\* An unparsable request is answered with invalid_request.
ReadMalformed(o) ==
    /\ pc[o] = "reading"
    /\ Refuse(o, "invalid_request")
    /\ UNCHANGED <<replayVars, routerVars, request, snapshot, remote, incoming, outgoing,
                   ctxDone, running, collected, consumedAt>>

\* The control timeout or the agent's cancellation closes the link under the
\* read; an answer, if one is still tried, cannot be delivered.
ReadInterrupted(o) ==
    /\ pc[o] = "reading"
    /\ Go(o, "done")
    /\ incoming' = [incoming EXCEPT ![o] = "closed"]
    /\ reply' = [reply EXCEPT ![o] = "lost"]
    /\ UNCHANGED <<replayVars, routerVars, request, snapshot, remote, outgoing, ctxDone,
                   running, collected, consumedAt>>

\* prepareForward until acquireSession, under one policy snapshot.
Prepare(o) ==
    /\ pc[o] = "preparing"
    /\ snapshot' = [snapshot EXCEPT ![o] = policy]
    /\ LET q == request[o] IN
          \/ /\ stopping
             /\ Refuse(o, "unavailable")
          \/ /\ ~stopping
             /\ ~policy.enabled
             /\ Refuse(o, "denied")
          \/ /\ ~stopping /\ policy.enabled
             /\ ~Structural(q)
             /\ Refuse(o, "invalid_request")
          \/ /\ ~stopping /\ policy.enabled /\ Structural(q)
             /\ ~(LinkMatches(o, q) /\ PolicyAllows(policy, q.route.hops[1], q.route.hops[2]))
             /\ Refuse(o, "denied")
          \/ /\ ~stopping /\ policy.enabled /\ Structural(q) /\ LinkMatches(o, q)
             /\ PolicyAllows(policy, q.route.hops[1], q.route.hops[2])
             /\ Go(o, "acquiring")
             /\ UNCHANGED reply
    /\ UNCHANGED <<replayVars, routerVars, request, remote, incoming, outgoing, ctxDone,
                   running, collected, consumedAt>>

\* Variant for sensitivity checks: the comparison is off by one.
HasCapacityOffByOne(o) == snapshot[o].maxSessions = 0 \/ active <= snapshot[o].maxSessions

\* acquireSession against the limit of the snapshot.
HasCapacity(o) == snapshot[o].maxSessions = 0 \/ active < snapshot[o].maxSessions

Acquire(o) ==
    /\ pc[o] = "acquiring"
    /\ \/ /\ HasCapacity(o)
          /\ active' = active + 1
          /\ Go(o, "localAuth")
          /\ UNCHANGED reply
       \/ /\ ~HasCapacity(o)
          /\ Refuse(o, "busy")
          /\ UNCHANGED active
    /\ UNCHANGED <<replayVars, policy, sessions, bytes, trusted, stopping, request, snapshot,
                   remote, incoming, outgoing, ctxDone, running, collected, consumedAt>>

\* Variant for sensitivity checks: the handshake's lookup is taken as enough.
LocalAuthorizeOnce(o) ==
    /\ pc[o] = "localAuth"
    /\ \/ /\ ~ctxDone[o]
          /\ Go(o, "verifying")
          /\ UNCHANGED <<active, ctxDone, reply>>
       \/ /\ ctxDone[o]
          /\ Abandon(o, AuthFailure(o))
    /\ UNCHANGED <<replayVars, policy, sessions, bytes, trusted, stopping, request, snapshot,
                   remote, incoming, outgoing, running, collected, consumedAt>>

\* trustedSourceForwardAuthorizer: the source is looked up again.
LocalAuthorize(o) ==
    /\ pc[o] = "localAuth"
    /\ \/ /\ ~ctxDone[o] /\ request[o].route.source \in trusted
          /\ Go(o, "verifying")
          /\ UNCHANGED <<active, ctxDone, reply>>
       \/ /\ ctxDone[o] \/ request[o].route.source \notin trusted
          /\ Abandon(o, AuthFailure(o))
    /\ UNCHANGED <<replayVars, policy, sessions, bytes, trusted, stopping, request, snapshot,
                   remote, incoming, outgoing, running, collected, consumedAt>>

Verify(o) ==
    /\ pc[o] = "verifying"
    /\ \/ /\ ~ctxDone[o] /\ Verified(request[o])
          /\ Go(o, "consuming")
          /\ UNCHANGED <<active, ctxDone, reply>>
       \/ /\ ctxDone[o] \/ ~Verified(request[o])
          /\ Abandon(o, AuthFailure(o))
    /\ UNCHANGED <<replayVars, policy, sessions, bytes, trusted, stopping, request, snapshot,
                   remote, incoming, outgoing, running, collected, consumedAt>>

\* ConsumeRouteAuthorization, later than Verify and on a later clock.
Consume(o) ==
    /\ pc[o] = "consuming"
    /\ LET j == request[o].auth.jti IN
          \/ /\ ~ctxDone[o]
             /\ ConsumeCommitted(j)
             /\ consumedAt' = [consumedAt EXCEPT ![o] = clock]
             /\ Go(o, "dialing")
             /\ UNCHANGED <<active, ctxDone, reply>>
          \/ /\ \/ ctxDone[o] /\ UNCHANGED <<used, disk>>
                \/ ~ctxDone[o] /\ (ConsumeReplayed(j) \/ ConsumeNotSaved(j) \/ ConsumeHalfSaved(j))
             /\ Abandon(o, AuthFailure(o))
             /\ UNCHANGED consumedAt
    /\ UNCHANGED <<clock, policy, sessions, bytes, trusted, stopping, request, snapshot,
                   remote, incoming, outgoing, running, collected>>

\* Variant for sensitivity checks: a link of the wrong identity stays open.
DialLeaking(o) ==
    /\ pc[o] = "dialing"
    /\ Abandon(o, "denied")
    /\ outgoing' = [outgoing EXCEPT ![o] = "open"]
    /\ UNCHANGED <<replayVars, policy, sessions, bytes, trusted, stopping, request, snapshot,
                   remote, incoming, running, collected, consumedAt>>

\* DialNext and the checks on what it returned: an error, no link or a link of
\* the wrong identity or transport, which counts before the context does, a
\* link that arrives after the context ended, or the link to the destination.
Dial(o) ==
    /\ pc[o] = "dialing"
    /\ \/ /\ Abandon(o, "unavailable")
          /\ UNCHANGED outgoing
       \/ /\ Abandon(o, "denied")
          /\ outgoing' \in {outgoing, [outgoing EXCEPT ![o] = "closed"]}
       \/ /\ ctxDone[o]
          /\ Abandon(o, "unavailable")
          /\ outgoing' = [outgoing EXCEPT ![o] = "closed"]
       \/ /\ ~ctxDone[o]
          /\ outgoing' = [outgoing EXCEPT ![o] = "open"]
          /\ Go(o, "accepting")
          /\ UNCHANGED <<active, ctxDone, reply>>
    /\ UNCHANGED <<replayVars, policy, sessions, bytes, trusted, stopping, request, snapshot,
                   remote, incoming, running, collected, consumedAt>>

CloseLinks(o) ==
    /\ incoming' = [incoming EXCEPT ![o] = "closed"]
    /\ outgoing' = [outgoing EXCEPT ![o] = "closed"]

\* The deferred calls of ServeRouteOpen: prepared.close() and incoming.Close().
TearDown(o) ==
    /\ Go(o, "done")
    /\ CloseLinks(o)
    /\ ctxDone' = [ctxDone EXCEPT ![o] = TRUE]
    /\ active' = active - 1

\* The acceptance is written under the route context; beginForwarding counts
\* the session and copyOpaque starts both goroutines.
Accept(o) ==
    /\ pc[o] = "accepting" /\ ~ctxDone[o]
    /\ reply' = [reply EXCEPT ![o] = "accepted"]
    /\ sessions' = SaturatingAdd(sessions, 1)
    /\ running' = [running EXCEPT ![o] = Directions]
    /\ Go(o, "forwarding")
    /\ UNCHANGED <<replayVars, policy, active, bytes, trusted, stopping, request, snapshot,
                   remote, incoming, outgoing, ctxDone, collected, consumedAt>>

\* The write fails, times out, or the context ends under it.
AcceptFails(o) ==
    /\ pc[o] = "accepting"
    /\ reply' = [reply EXCEPT ![o] = "lost"]
    /\ TearDown(o)
    /\ UNCHANGED <<replayVars, policy, sessions, bytes, trusted, stopping, request, snapshot,
                   remote, running, collected, consumedAt>>

\* One io.Copy returns: its peer hung up, a link failed, or links were closed.
CopyEnds(o, d) ==
    /\ pc[o] = "forwarding"
    /\ d \in running[o]
    /\ running' = [running EXCEPT ![o] = @ \ {d}]
    /\ UNCHANGED <<replayVars, routerVars, pc, request, snapshot, remote, incoming, outgoing,
                   ctxDone, collected, reply, consumedAt>>

\* copyOpaque receives an outcome; the first one closes both links.
Collect(o, d) ==
    /\ pc[o] = "forwarding"
    /\ d \in Directions \ (running[o] \cup collected[o])
    /\ collected' = [collected EXCEPT ![o] = @ \cup {d}]
    /\ IF collected[o] = {} THEN CloseLinks(o) ELSE UNCHANGED <<incoming, outgoing>>
    /\ UNCHANGED <<replayVars, routerVars, pc, request, snapshot, remote, ctxDone, running,
                   reply, consumedAt>>

\* Variant for sensitivity checks: the incoming link is left open.
ContextClosesOutgoing(o) ==
    /\ pc[o] = "forwarding"
    /\ ctxDone[o] /\ outgoing[o] = "open"
    /\ outgoing' = [outgoing EXCEPT ![o] = "closed"]
    /\ UNCHANGED <<replayVars, routerVars, pc, request, snapshot, remote, incoming, ctxDone,
                   running, collected, reply, consumedAt>>

\* copyOpaque sees the context end and closes both links, once.
ContextCloses(o) ==
    /\ pc[o] = "forwarding"
    /\ ctxDone[o] /\ collected[o] # Directions
    /\ incoming[o] = "open"
    /\ CloseLinks(o)
    /\ UNCHANGED <<replayVars, routerVars, pc, request, snapshot, remote, ctxDone, running,
                   collected, reply, consumedAt>>

\* Both outcomes are in: the byte counts are recorded and the call returns.
Finish(o, n) ==
    /\ pc[o] = "forwarding"
    /\ collected[o] = Directions
    /\ bytes' = SaturatingAdd(bytes, n)
    /\ TearDown(o)
    /\ UNCHANGED <<replayVars, policy, sessions, trusted, stopping, request, snapshot, remote,
                   running, collected, reply, consumedAt>>

\* The rejection is written, or lost with the link; the link is closed.
Reject(o) ==
    /\ pc[o] = "rejecting"
    /\ Go(o, "done")
    /\ \/ UNCHANGED reply
       \/ reply' = [reply EXCEPT ![o] = "lost"]
    /\ incoming' = [incoming EXCEPT ![o] = "closed"]
    /\ UNCHANGED <<replayVars, routerVars, request, snapshot, remote, outgoing, ctxDone,
                   running, collected, consumedAt>>

----------------------------------------------------------------------------
(* The rest of the process and its environment.                            *)

\* The timer of the route context fires at or after the route's expiry, or the
\* agent's own context has been cancelled.
ContextEnds(o) ==
    /\ pc[o] \in SlotPhases
    /\ ~ctxDone[o]
    /\ stopping \/ clock >= request[o].route.expires
    /\ ctxDone' = [ctxDone EXCEPT ![o] = TRUE]
    /\ UNCHANGED <<replayVars, routerVars, pc, request, snapshot, remote, incoming, outgoing,
                   running, collected, reply, consumedAt>>

\* Runtime.SetRouterPolicy: future operations only.
SetPolicy(p) ==
    /\ policy' = p
    /\ UNCHANGED <<replayVars, active, sessions, bytes, trusted, stopping, pc, opVars>>

\* The operator pairs or revokes a source in the router-source trust store.
SetTrust(s) ==
    /\ trusted' = IF s \in trusted THEN trusted \ {s} ELSE trusted \cup {s}
    /\ UNCHANGED <<replayVars, policy, active, sessions, bytes, stopping, pc, opVars>>

Stop ==
    /\ ~stopping
    /\ stopping' = TRUE
    /\ UNCHANGED <<replayVars, policy, active, sessions, bytes, trusted, pc, opVars>>

\* The agent dies at any point and is started again: operations are gone,
\* their sockets closed, counters and policy start afresh, the file stays.
Restart ==
    /\ Reopen
    /\ policy' = ConfigPolicy
    /\ active' = 0 /\ sessions' = 0 /\ bytes' = 0
    /\ stopping' = FALSE
    /\ LET alive == {o \in Ops : pc[o] # "idle"} IN
          /\ pc' = [o \in Ops |-> IF o \in alive THEN "done" ELSE "idle"]
          /\ incoming' = [o \in Ops |-> IF o \in alive THEN "closed" ELSE "none"]
          /\ outgoing' = [o \in Ops |-> IF outgoing[o] = "open" THEN "closed" ELSE outgoing[o]]
          /\ running' = [o \in Ops |-> {}]
    /\ UNCHANGED <<clock, trusted, request, snapshot, remote, ctxDone, collected, reply,
                   consumedAt>>

Advance ==
    /\ Tick
    /\ UNCHANGED <<used, disk, routerVars, pc, opVars>>

----------------------------------------------------------------------------
\* The steps of the goroutine of operation o that the runtime will schedule.
\* How many bytes a tunnel carried is left to Finish's second argument.
Step(o) ==
    \/ \E q \in Requests : ReadRequest(o, q)
    \/ ReadMalformed(o) \/ ReadInterrupted(o)
    \/ Prepare(o) \/ Acquire(o) \/ LocalAuthorize(o) \/ Verify(o) \/ Consume(o)
    \/ Dial(o) \/ Accept(o) \/ AcceptFails(o)
    \/ \E d \in Directions : Collect(o, d)
    \/ ContextCloses(o)
    \/ \E n \in 0..1 : Finish(o, n)
    \/ Reject(o)

Environment ==
    \/ \E p \in Policies : SetPolicy(p)
    \/ \E s \in Sources : SetTrust(s)
    \/ Stop
    \/ Restart
    \/ Advance

Next ==
    \/ \E o \in Ops :
          \/ \E s \in Sources, t \in Transports : Open(o, s, t)
          \/ Step(o)
          \/ \E d \in Directions : CopyEnds(o, d)
          \/ ContextEnds(o)
    \/ Environment

Spec == Init /\ [][Next]_vars

\* A copy must return once its links are closed; a timer must fire and time
\* must pass; an operation that is scheduled runs on.
Fairness ==
    /\ WF_vars(Advance)
    /\ \A o \in Ops :
          /\ WF_vars(Step(o))
          /\ WF_vars(ContextEnds(o))
          /\ \A d \in Directions : WF_vars(incoming[o] = "closed" /\ CopyEnds(o, d))

FairSpec == Spec /\ Fairness

----------------------------------------------------------------------------
(* Properties.                                                             *)

JTI(o) == request[o].auth.jti
HasConsumed(o) == consumedAt[o] # Never

\* The session counter of acquireSession and releaseSession is the number of
\* operations between the two, whichever of the error returns of
\* prepareForward, the failed acceptance or the end of the tunnel they take.
SlotAccounting == active = Cardinality(Holding)

\* Every group of concurrent sessions contains one that was admitted under a
\* limit at least as large as the group, although SetPolicy may lower the limit
\* at any time and an operation compares its own, possibly stale, snapshot.
LimitRespected ==
    \A S \in SUBSET Holding :
        S # {} => \E o \in S : \/ snapshot[o].maxSessions = 0
                               \/ Cardinality(S) <= snapshot[o].maxSessions

\* An operation that ended has closed both links, and outside the tunnel phases
\* no outgoing link is open: no error path of prepareForward leaks it.
NoStrandedLinks ==
    \A o \in Ops :
        /\ pc[o] = "done" => incoming[o] = "closed"
        /\ outgoing[o] = "open" => pc[o] \in {"accepting", "forwarding"}

\* A consumed authorization stays on record, in memory and in the file, until
\* it expires: through later consumptions, purges, failed saves and restarts.
ConsumptionDurable ==
    \A o \in Ops :
        HasConsumed(o) /\ clock < Expiry[JTI(o)] => JTI(o) \in used \cap disk

\* No authorization is consumed by two operations while it is valid, even when
\* the agent is restarted between them.
SingleUse ==
    \A o1, o2 \in Ops :
        /\ HasConsumed(o1) /\ HasConsumed(o2)
        /\ JTI(o1) = JTI(o2)
        /\ consumedAt[o1] < Expiry[JTI(o1)] /\ consumedAt[o2] < Expiry[JTI(o2)]
        => o1 = o2

\* A peer is told that its route is accepted only after it consumed a signed
\* capability for exactly this route, through this router, that names the peer
\* authenticated on the incoming link as its source.
AcceptedMatchesCapability ==
    \A o \in Ops :
        reply[o] = "accepted" =>
            LET q == request[o] IN
                /\ HasConsumed(o)
                /\ q.auth.signed /\ q.auth.router = Router
                /\ q.auth.route = q.route
                /\ remote[o] = <<q.route.source, q.route.hops[1].transport>>
                /\ q.route.hops[1].to = Router

\* A source that is revoked after the handshake that pinned it and before the
\* authorizer's lookup, and stays revoked, is never told that its route is
\* accepted: neither waiting for a slot nor a policy change gets it through.
RevokedSourceRefused ==
    \A o \in Ops, s \in Sources :
        [](/\ pc[o] \in {"reading", "preparing", "acquiring", "localAuth"}
           /\ remote[o][1] = s /\ [](s \notin trusted)
           => [](reply[o] # "accepted"))

\* The replay file can always be opened by the next process.
StoreReopens == Fits(disk)

\* Every operation that took a slot ends and gives it back: the route's expiry
\* cancels its context, that closes the links, and closed links end the copies.
EverySessionEnds == \A o \in Ops : o \in Holding ~> pc[o] = "done"

============================================================================
