-------------------------- MODULE MCRouteForwarder --------------------------
(***************************************************************************)
(* Model of RouteForwarder: sources a and x, router b, destination c.      *)
(***************************************************************************)
EXTENDS RouteForwarder, TLC

CONSTANTS o1, o2

MCBlank == ""
MCLAN == "lan"

Hop(f, t, tr) == [from |-> f, to |-> t, transport |-> tr, cost |-> 0]

RouteVia(source, router, transport, expires) ==
    [id |-> "r", source |-> source, destination |-> "c",
     hops |-> <<Hop(source, router, transport), Hop(router, "c", transport)>>,
     expires |-> expires]

Signed(j, route, router) ==
    [jti |-> j, route |-> route, router |-> router, issued |-> 1, signed |-> TRUE]

MCExpiry == [j1 |-> 2, j2 |-> 3]
MCJTIs == DOMAIN MCExpiry

Good(j) ==
    LET r == RouteVia("a", "b", "lan", MCExpiry[j])
    IN  [route |-> r, auth |-> Signed(j, r, "b")]

\* Requests that fail one check each: a forged signature, claims for another
\* route, a route through another router, a longer path, another peer's route,
\* a route that is not on the LAN.
Bad ==
    LET r == Good("j1").route IN
    {[Good("j1") EXCEPT !.auth.signed = FALSE],
     [Good("j1") EXCEPT !.route.id = "s"],
     [route |-> RouteVia("a", "d", "lan", 2), auth |-> Signed("j1", RouteVia("a", "d", "lan", 2), "d")],
     [Good("j1") EXCEPT !.route.hops = <<r.hops[1], Hop("b", "d", "lan"), Hop("d", "c", "lan")>>],
     [route |-> RouteVia("x", "b", "lan", 2), auth |-> Signed("j1", RouteVia("x", "b", "lan", 2), "b")],
     [route |-> RouteVia("a", "b", "net", 2), auth |-> Signed("j1", RouteVia("a", "b", "net", 2), "b")]}

AllRequests == {Good("j1"), Good("j2")} \cup Bad
GoodRequests == {Good("j1"), Good("j2")}

Limit(n) == [enabled |-> TRUE, maxSessions |-> n, lanOnly |-> FALSE]
Disabled == [Limit(0) EXCEPT !.enabled = FALSE]
LanOnly == [Limit(2) EXCEPT !.lanOnly = TRUE]
AllPolicies == {Limit(1), LanOnly, Disabled}
TwoPolicies == {Limit(1), Limit(2)}
DefaultPolicy == Limit(2)
LanPolicy == LanOnly
OneTransport == {"lan"}
TwoTransports == {"lan", "net"}

Symmetry == Permutations({o1, o2} \cap Ops)
============================================================================
