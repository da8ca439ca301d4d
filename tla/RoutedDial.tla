----------------------------- MODULE RoutedDial -----------------------------
(***************************************************************************)
(* How a source reaches a paired destination: Backend.Open of the Core     *)
(* (internal/coreconnect) or runConnect of cmd/wd choose a path, and a     *)
(* routed path is dialled over a router (internal/meshnet, meshruntime).   *)
(* The four trust files of routing belong to three devices; each check     *)
(* reads its file anew, while operators edit them.  One attempt, from its  *)
(* beginning to the opened terminal or the error.                          *)
(***************************************************************************)
EXTENDS Integers, Sequences

CONSTANTS
    Routers,
    Candidates,  \* the candidates of route-selection.json for this destination
    Endpoints,   \* kinds of locator the paired destination may have
    MaxEdits,    \* bound: edits of trust files and policy
    NoRouter

\* "DirectEndpoint", "RelayEndpoint" and "WebRelayEndpoint" are kinds of
\* locator, "NoEndpoint" a peer without one.
ASSUME DialAssumption ==
    /\ Candidates \in Seq([router : Routers, cost : Nat]) /\ MaxEdits \in Nat /\ NoRouter \notin Routers
    /\ Endpoints \subseteq {"NoEndpoint", "DirectEndpoint", "RelayEndpoint", "WebRelayEndpoint"}

\* RoutingTrustPaths: the source's routers, a router's sources and
\* destinations, and the destination's routers.
TrustRoles == {"SourceRouters", "RouterSources", "RouterDestinations", "DestinationRouters"}

VARIABLES
    asker,       \* "core" or "command"
    locator,     \* the paired peer's endpoint
    paired,      \* the destination is in trusted-devices.json
    policyOn,    \* route-selection.json is there and enabled
    trusts,      \* for each role, the routers for which the relation holds
    edits,
    dialing,     \* where the attempt is
    looked,      \* candidates RouteRequest has considered
    pick,        \* the candidate it would take, 0 for none
    via,         \* the router of the attempt
    usedPath,    \* the path that was chosen
    relayGrant,  \* the outer relay request carries the grant
    capability,  \* the route authorization: "none", "valid" or "expired"
    outer,       \* the source's link to the router: "none", "raw", "link" or "closed"
    tunnel,      \* the router's link to the destination
    reply,       \* the router's answer
    ever,        \* history: the trust relations of via seen since its authorization
    steady       \* history: routers the source trusted since the choice began

placeVars == <<asker, locator>>
fileState == <<paired, policyOn, trusts, edits>>
choiceVars == <<looked, pick, via, usedPath, relayGrant>>
linkVars == <<outer, tunnel, reply>>
historyVars == <<ever, steady>>
dialVars == <<placeVars, fileState, dialing, choiceVars, capability, linkVars, historyVars>>

\* The trust relations that hold for router r.
Holding(r) == {role \in TrustRoles : r \in trusts[role]}

DialInit ==
    /\ asker \in {"core", "command"} /\ locator \in Endpoints /\ paired = TRUE /\ policyOn = TRUE
    /\ trusts = [role \in TrustRoles |-> Routers] /\ edits = 0
    /\ dialing = "begin" /\ looked = 0 /\ pick = 0 /\ usedPath = "none" /\ relayGrant = FALSE
    /\ IF asker = "command" THEN via \in Routers \cup {NoRouter} ELSE via = NoRouter
    /\ capability = "none" /\ outer = "none" /\ tunnel = "none" /\ reply = "none"
    /\ ever = {} /\ steady = {}

Goes(to) == dialing' = to /\ ever' = ever \cup (IF via \in Routers THEN Holding(via) ELSE {}) /\ UNCHANGED steady
\* An error: whoever holds the link closes it.
Fails == dialing' = "failed" /\ outer' = (IF outer = "none" THEN "none" ELSE "closed") /\ UNCHANGED historyVars

-----------------------------------------------------------------------------
(* Operators edit the files: wd route-trust add and revoke, the router's    *)
(* and the destination's files, the policy, wd unpair.                      *)

Edits == edits < MaxEdits /\ edits' = edits + 1 /\ dialing \notin {"connected", "failed"}
AddRouteRouterTrust(role, r) ==
    /\ Edits /\ r \notin trusts[role] /\ trusts' = [trusts EXCEPT ![role] = @ \cup {r}]
    /\ ever' = (IF via = r THEN ever \cup {role} ELSE ever)
    /\ UNCHANGED <<placeVars, paired, policyOn, dialing, choiceVars, capability, linkVars, steady>>
RevokeRouteRouterTrust(role, r) ==
    /\ Edits /\ r \in trusts[role] /\ trusts' = [trusts EXCEPT ![role] = @ \ {r}]
    /\ steady' = (IF role = "SourceRouters" THEN steady \ {r} ELSE steady)
    /\ UNCHANGED <<placeVars, paired, policyOn, dialing, choiceVars, capability, linkVars, ever>>
EditPolicy ==
    /\ Edits
    /\ \/ policyOn' = ~policyOn /\ UNCHANGED paired
       \/ paired /\ paired' = FALSE /\ UNCHANGED policyOn
    /\ UNCHANGED <<placeVars, trusts, dialing, choiceVars, capability, linkVars, historyVars>>

-----------------------------------------------------------------------------
(* The choice of a path.                                                    *)

Unmoved == UNCHANGED <<placeVars, fileState, capability, tunnel, reply>>

\* Backend.Open starts with the paired peer.
FindPeer ==
    /\ dialing = "begin" /\ asker = "core"
    /\ \/ paired /\ Goes("consider") /\ UNCHANGED outer
       \/ ~paired /\ Fails
    /\ Unmoved /\ UNCHANGED choiceVars

OpenRoutedSourceRouterTrust == via \in trusts["SourceRouters"]
\* runConnect, with a router the user named or without.
RunConnect ==
    /\ dialing = "begin" /\ asker = "command"
    /\ \/ paired /\ via # NoRouter /\ OpenRoutedSourceRouterTrust /\ Goes("routed") /\ UNCHANGED outer
       \/ paired /\ via = NoRouter /\ Goes("local") /\ UNCHANGED outer
       \/ (~paired \/ (via # NoRouter /\ ~OpenRoutedSourceRouterTrust)) /\ Fails
    /\ Unmoved /\ UNCHANGED choiceVars

\* What reading route-selection.json can end in: a file that is not as it
\* should be is an error, never an absent policy.
LoadRouteSelectionPolicy == IF policyOn THEN {"enabled", "invalid"} ELSE {"absent"}
\* RouteRequest up to the first look at the router trust file.
BeginRouteRequest ==
    /\ dialing = "consider"
    /\ \E policy \in LoadRouteSelectionPolicy :
       \/ policy = "enabled" /\ dialing' = "considering" /\ steady' = trusts["SourceRouters"] /\ UNCHANGED <<outer, ever>>
       \/ policy = "absent" /\ Goes("local") /\ UNCHANGED outer
       \/ policy = "invalid" /\ Fails
    /\ Unmoved /\ UNCHANGED choiceVars

\* The first of the cheapest candidates is kept.
Cheaper(i) == pick = 0 \/ Candidates[i].cost < Candidates[pick].cost
\* RouteRequest: every candidate's router is looked up in the file as it is now.
ConsiderCandidate ==
    /\ dialing = "considering" /\ looked < Len(Candidates) /\ looked' = looked + 1
    /\ pick' = IF Candidates[looked + 1].router \in trusts["SourceRouters"] /\ Cheaper(looked + 1)
               THEN looked + 1 ELSE pick
    /\ Unmoved /\ UNCHANGED <<dialing, via, usedPath, relayGrant, outer, historyVars>>
\* Without a candidate the connection is not routed.
EndRouteRequest ==
    /\ dialing = "considering" /\ looked = Len(Candidates)
    /\ via' = (IF pick = 0 THEN NoRouter ELSE Candidates[pick].router)
    /\ dialing' = (IF pick = 0 THEN "local" ELSE "routed")
    /\ ever' = (IF pick = 0 THEN {} ELSE Holding(Candidates[pick].router))
    /\ Unmoved /\ UNCHANGED <<looked, pick, usedPath, relayGrant, outer, steady>>

HasRelayScheme == locator \in {"RelayEndpoint", "WebRelayEndpoint"}
LocatorPath == IF HasRelayScheme THEN "relay" ELSE "direct"
\* Only a relay locator or a missing one is worth a look around.
TriesLan == locator = "NoEndpoint" \/ HasRelayScheme
\* discovery.FindTrusted: a signed advertisement with the peer's name and
\* another fingerprint is an error.
FindTrusted == {"found", "absent", "mismatch"}
\* selectNonRoutedPath: an advertised address that can be probed is used.
SelectNonRoutedPath ==
    /\ dialing = "local"
    /\ \E result \in IF TriesLan THEN FindTrusted ELSE {"absent"} :
       \/ result = "found" /\ Goes("grant") /\ usedPath' = "lan" /\ UNCHANGED outer
       \/ result # "mismatch" /\ locator # "NoEndpoint" /\ Goes("grant") /\ usedPath' = LocatorPath /\ UNCHANGED outer
       \/ (result = "mismatch" \/ locator = "NoEndpoint") /\ Fails /\ UNCHANGED usedPath
    /\ Unmoved /\ UNCHANGED <<looked, pick, via, relayGrant>>

\* The outer relay request carries the grant on a web relay only.
WebRelayGrant == usedPath = "relay" /\ locator = "WebRelayEndpoint"
\* The grant of the non-routed path; without one there is no dial.
ObtainGrant ==
    /\ dialing = "grant"
    /\ \/ Goes("dial") /\ relayGrant' = WebRelayGrant /\ UNCHANGED outer
       \/ Fails /\ UNCHANGED relayGrant
    /\ Unmoved /\ UNCHANGED <<looked, pick, via, usedPath>>

DialPeer ==
    /\ dialing = "dial"
    /\ (Goes("connected") /\ UNCHANGED outer) \/ Fails
    /\ Unmoved /\ UNCHANGED choiceVars

-----------------------------------------------------------------------------
(* openRouted and prepareRoutedDialer.                                      *)

\* The terminal grant comes first.
OpenRouted ==
    /\ dialing = "routed"
    /\ \/ Goes("checkTrust") /\ UNCHANGED outer
       \/ Fails
    /\ Unmoved /\ UNCHANGED choiceVars
\* The router is still trusted for routing.
CheckRouterTrust ==
    /\ dialing = "checkTrust"
    /\ \/ via \in trusts["SourceRouters"] /\ Goes("authorize") /\ usedPath' = "routed" /\ UNCHANGED outer
       \/ via \notin trusts["SourceRouters"] /\ Fails /\ UNCHANGED usedPath
    /\ Unmoved /\ UNCHANGED <<looked, pick, via, relayGrant>>
\* The account service authorizes the route, or not.
AuthorizeRoute ==
    /\ dialing = "authorize"
    /\ \/ dialing' = "validate" /\ capability' = "valid" /\ ever' = Holding(via) /\ UNCHANGED <<outer, steady>>
       \/ Fails /\ UNCHANGED capability
    /\ UNCHANGED <<placeVars, fileState, choiceVars, tunnel, reply>>
\* The route and its claims agree and are not over.
RoutePreflight == capability = "valid"
\* The command opens the trust file once more for its dialer.
BuildRoutedDialer == via \in trusts["SourceRouters"]
ValidateRoutedResult ==
    /\ dialing = "validate"
    /\ \/ RoutePreflight /\ (asker = "command" => BuildRoutedDialer) /\ Goes("resolve") /\ UNCHANGED outer
       \/ Fails
    /\ Unmoved /\ UNCHANGED choiceVars

\* The capability and the route expire together.
RouteExpires ==
    /\ capability = "valid" /\ capability' = "expired"
    /\ UNCHANGED <<placeVars, fileState, dialing, choiceVars, linkVars, historyVars>>

-----------------------------------------------------------------------------
(* RoutedDialer.Dial: the router's locator comes from the trust file, and   *)
(* the link is authenticated in both directions.                            *)

ResolveUntrusting ==
    /\ dialing = "resolve" /\ capability = "valid" /\ Goes("connect") /\ Unmoved /\ UNCHANGED <<choiceVars, outer>>
\* TrustedPeerResolver.Resolve: the last look at the source's trust file, then
\* on a LAN the wait for the router's advertisement.
ResolveRouter ==
    /\ dialing = "resolve"
    /\ \/ capability = "valid" /\ via \in trusts["SourceRouters"] /\ Goes("connect") /\ UNCHANGED outer
       \/ Fails
    /\ Unmoved /\ UNCHANGED choiceVars
\* The TCP connection to what was resolved, whatever the file says by now.
ConnectRouter ==
    /\ dialing = "connect"
    /\ (Goes("handshake") /\ outer' = "raw") \/ Fails
    /\ Unmoved /\ UNCHANGED choiceVars

AcceptAnyLink(role) == TRUE
\* acceptTrustedLink at the far end: the caller is in the trust file.
AcceptTrustedLink(role) == via \in trusts[role]
\* DialRouteControlLink: TLS with the route-control role, within its timeout.
DialRouteControlLink ==
    /\ dialing = "handshake"
    /\ \/ AcceptTrustedLink("RouterSources") /\ Goes("open") /\ outer' = "link"
       \/ Fails
    /\ Unmoved /\ UNCHANGED choiceVars

\* ServeRouteControl: the router serves an accepted control link.
RouterServes == dialing = "open" /\ outer = "link"
\* ReadRouteOpenRequest: one well-formed frame with a route and its capability.
RequestReadable == capability \in {"valid", "expired"}
\* AuthorizeForward at the router: the source is trusted, the capability holds.
AuthorizeForward ==
    /\ RouterServes /\ RequestReadable /\ tunnel = "none" /\ reply = "none"
    /\ \/ capability = "valid" /\ via \in trusts["RouterSources"] /\ tunnel' = "dialing" /\ Goes("open") /\ UNCHANGED reply
       \/ reply' = "rejected" /\ UNCHANGED <<tunnel, dialing, historyVars>>
    /\ UNCHANGED <<placeVars, fileState, choiceVars, capability, outer>>
\* ForwardDialer.DialNext: the destination is one of the router's, and it
\* admits this router; otherwise the open is answered with an error.
DialNext ==
    /\ dialing = "open" /\ tunnel = "dialing" /\ reply = "none"
    /\ \/ via \in trusts["RouterDestinations"] /\ Goes("open") /\ tunnel' = "handshake" /\ UNCHANGED reply
       \/ tunnel' = "none" /\ reply' = "rejected" /\ UNCHANGED <<dialing, historyVars>>
    /\ UNCHANGED <<placeVars, fileState, choiceVars, capability, outer>>
\* DestinationIngress.Serve: only a tunnel of a trusted router reaches the endpoint.
IngressAccepts == AcceptTrustedLink("DestinationRouters")
ServeRouteTunnel ==
    /\ dialing = "open" /\ tunnel = "handshake" /\ reply = "none"
    /\ \/ IngressAccepts /\ Goes("open") /\ tunnel' = "open" /\ reply' = "accepted"
       \/ tunnel' = "none" /\ reply' = "rejected" /\ UNCHANGED <<dialing, historyVars>>
    /\ UNCHANGED <<placeVars, fileState, choiceVars, capability, outer>>

\* The deadline of openRoutedTunnel closes the link: the route's expiry, the
\* caller's deadline or fifteen seconds, whichever is first.
OpenDeadline ==
    /\ dialing = "open" /\ outer = "link" /\ outer' = "closed"
    /\ Unmoved /\ UNCHANGED <<dialing, choiceVars, historyVars>>
OpenTunnelHasty ==
    /\ dialing = "open"
    /\ \/ reply = "accepted" /\ Goes("inner") /\ UNCHANGED outer
       \/ reply = "rejected" /\ Fails
       \/ outer = "closed" /\ Fails
    /\ Unmoved /\ UNCHANGED choiceVars
\* openRoutedTunnel: an answer that races the deadline is an error.
OpenRoutedTunnel ==
    /\ dialing = "open"
    /\ \/ reply = "accepted" /\ outer = "link" /\ Goes("inner") /\ UNCHANGED outer
       \/ reply = "rejected" /\ Fails
       \/ outer = "closed" /\ Fails
    /\ Unmoved /\ UNCHANGED choiceVars

\* The endpoint TLS through the tunnel, pinned to the destination.
InnerHandshake ==
    /\ dialing = "inner" /\ ((tunnel = "open" /\ Goes("connected") /\ UNCHANGED outer) \/ Fails)
    /\ Unmoved /\ UNCHANGED choiceVars

\* The tunnel ends once the source's link is gone.
TunnelEnds ==
    /\ tunnel \in {"dialing", "handshake", "open"} /\ outer = "closed" /\ tunnel' = "closed"
    /\ UNCHANGED <<placeVars, fileState, dialing, choiceVars, capability, outer, reply, historyVars>>

-----------------------------------------------------------------------------
SourceStep ==
    \/ FindPeer \/ RunConnect \/ BeginRouteRequest \/ ConsiderCandidate \/ EndRouteRequest \/ SelectNonRoutedPath
    \/ ObtainGrant \/ DialPeer \/ OpenRouted \/ CheckRouterTrust \/ AuthorizeRoute
    \/ ValidateRoutedResult \/ ResolveRouter \/ ConnectRouter
    \/ DialRouteControlLink \/ OpenRoutedTunnel \/ InnerHandshake
RouterStep == AuthorizeForward \/ DialNext \/ ServeRouteTunnel \/ TunnelEnds
DialNextState ==
    \/ SourceStep \/ RouterStep \/ OpenDeadline \/ RouteExpires \/ EditPolicy
    \/ \E role \in TrustRoles, r \in Routers : AddRouteRouterTrust(role, r) \/ RevokeRouteRouterTrust(role, r)

\* An attempt begins when somebody asks.  Every call of the source has a timeout,
\* the open has its deadline and the router closes what it holds; a router need
\* not answer.
DialFairness ==
    WF_dialVars(dialing # "begin" /\ SourceStep) /\ WF_dialVars(OpenDeadline) /\ WF_dialVars(TunnelEnds)
DialSpec == DialInit /\ [][DialNextState]_dialVars /\ DialFairness

-----------------------------------------------------------------------------
\* The attempt's state is one the code can be in: only a relay path carries a
\* relay grant, and only an attempt with a router has a link.
DialTypeOK ==
    /\ looked \in 0..Len(Candidates) /\ pick \in 0..looked /\ via \in Routers \cup {NoRouter}
    /\ usedPath \in {"none", "lan", "direct", "relay", "routed"} /\ relayGrant \in BOOLEAN /\ (relayGrant => usedPath = "relay")
    /\ outer \in {"none", "raw", "link", "closed"} /\ tunnel \in {"none", "dialing", "handshake", "open", "closed"}
    /\ ever \subseteq TrustRoles /\ steady \subseteq Routers /\ (outer # "none" => via \in Routers)

\* A connection over a router exists only if each of the four trust files
\* named the pair at some time since the route was authorized: the source's
\* for the router, the router's for the source and for the destination, and
\* the destination's for the router.
RoutedNeedsEveryTrust == (dialing = "connected" /\ usedPath = "routed") => ever = TrustRoles

\* No candidate whose router stayed trusted during the choice is cheaper than
\* the one RouteRequest chose, whatever was edited meanwhile.
ChoiceIsCheapest ==
    (dialing \notin {"begin", "consider", "considering"} /\ asker = "core" /\ via # NoRouter) =>
        \A i \in 1..Len(Candidates) :
            Candidates[i].router \in steady => Candidates[pick].cost <= Candidates[i].cost

\* An attempt that has a router ends routed or fails: it never falls back to
\* another path (docs/TRANSPORT_DISCOVERY.md).
NoFallbackFromRoute == (dialing = "connected" /\ via # NoRouter) => usedPath = "routed"

\* A dial that has returned a connection has an open link, though the deadline
\* of the route may expire as the router answers.
ConnectedIsOpen == (dialing = "connected" /\ usedPath = "routed") => (outer = "link" /\ tunnel # "none")

\* A failed attempt leaves no link of the source open.
FailedHoldsNothing == dialing = "failed" => outer \in {"none", "closed"}

\* A router that was revoked before the route was authorized, and is not trusted
\* again, is not dialled, though nothing looks at the file between the resolver's
\* lookup and the TCP connection.
RevokedNotDialed == outer # "none" => "SourceRouters" \in ever

\* An attempt ends, with a router that never answers too.
DialEnds == []<>(dialing \in {"begin", "connected", "failed"})

\* The router of a connection is the cheapest of those that stayed trusted, every
\* party trusted it after the authorization, and one that lost the source's trust
\* before that is not even dialled.
RouteIsSound == RoutedNeedsEveryTrust /\ RevokedNotDialed /\ ChoiceIsCheapest

\* An attempt ends in what it claims: an open connection over the path that was
\* chosen, or nothing.
DialIsHonest == NoFallbackFromRoute /\ ConnectedIsOpen /\ FailedHoldsNothing
=============================================================================
