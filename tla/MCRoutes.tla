------------------------------ MODULE MCRoutes ------------------------------
(***************************************************************************)
(* RouteForwarder and RoutePlanner in one run: `focus` says which of them  *)
(* moves, and the other one keeps an initial state.  The planner's routes  *)
(* go from a to c, direct or through b, some malformed in one respect,     *)
(* with 2-bit costs so that sums wrap around.                              *)
(***************************************************************************)
EXTENDS MCRouteForwarder, RoutePlanner

VARIABLE focus

Leg(f, t, c) == [from |-> f, to |-> t, transport |-> "lan", cost |-> c]

Route(hops, expires) ==
    [id |-> "r", source |-> "a", destination |-> "c", hops |-> hops, expires |-> expires]

MCCandidateRoutes ==
    {Route(<<Leg("a", "c", c)>>, 2) : c \in {0, 2, 3}}
    \cup {Route(<<Leg("a", "b", c), Leg("b", "c", d)>>, 2) : c \in {0, 1, 3}, d \in {0, 2, 3}}
    \cup {Route(<<Leg("a", "c", 0)>>, 1),                         \* expires first
          Route(<<>>, 2),                                         \* no hop
          Route(<<Leg("a", "b", 0)>>, 2),                         \* ends elsewhere
          Route(<<Leg("b", "c", 0)>>, 2),                         \* starts elsewhere
          Route(<<Leg("a", "b", 0), Leg("a", "c", 0)>>, 2),       \* discontinuous
          Route(<<Leg("a", "b", 0), Leg("b", "a", 0), Leg("a", "c", 0)>>, 2),  \* loop
          Route(<<Leg("a", "a", 0), Leg("a", "c", 0)>>, 2),       \* self-loop
          [Route(<<Leg("a", "c", 0)>>, 2) EXCEPT !.id = ""],
          [Route(<<Leg("a", "c", 0)>>, 2) EXCEPT !.destination = "b"],
          [Route(<<Leg("a", "c", 0)>>, 2) EXCEPT !.hops[1].transport = ""],
          Route(<<Leg("a", "b", 0), Leg("b", "d", 0), Leg("d", "e", 0), Leg("e", "c", 0)>>, 2)}

MCDevices == {"a", "c", ""}

Idle == [source |-> "", destination |-> "", candidates |-> <<>>, now |-> 0]

RoutesInit == /\ focus \in {"forwarder", "planner"} /\ Init /\ PlanInit
              /\ focus = "forwarder" => planned = Idle
RoutesNext == /\ UNCHANGED focus
              /\ \/ focus = "forwarder" /\ Next /\ UNCHANGED planVars
                 \/ focus = "planner" /\ PlanNext /\ UNCHANGED vars
RoutesSpec == RoutesInit /\ [][RoutesNext]_<<focus, vars, planVars>>
============================================================================
