---------------------------- MODULE RoutePlanner ----------------------------
(***************************************************************************)
(* LowestCostPlanner.Plan (internal/mesh/mesh.go): one pass over the       *)
(* candidate routes that keeps the cheapest valid one.  The caller's       *)
(* context may be cancelled between two candidates.                        *)
(***************************************************************************)
EXTENDS MeshRoute

CONSTANTS Routes,         \* the candidate routes a caller can offer
          Devices,        \* the devices a request can name (Blank included)
          MaxCandidates,  \* bound on the length of a candidate list
          Times           \* the planning times (0 is Go's zero time)

\* A hop's cost is a uint64.
ASSUME RoutePlannerAssumption ==
    /\ MaxCandidates \in Nat /\ Times \subseteq Nat
    /\ \A r \in Routes : /\ r.expires \in Nat /\ Len(r.hops) \in Nat
                         /\ \A i \in 1..Len(r.hops) : r.hops[i].cost \in 0..MaxCost

VARIABLES planned,  \* [source, destination, candidates, now]
          position, \* index of the candidate examined next
          best,     \* index of the best candidate so far, 0 when none
          result    \* "planning", "route", "no_route", "error" or "cancelled"

planVars == <<planned, position, best, result>>

PlanRequests ==
    [source : Devices, destination : Devices,
     candidates : UNION {[1..n -> Routes] : n \in 0..MaxCandidates},
     now : Times]

PlanInit ==
    /\ planned \in PlanRequests
    /\ position = 1
    /\ best = 0
    /\ result = "planning"

\* The request is refused before any candidate is looked at.
RejectRequest ==
    /\ result = "planning" /\ position = 1
    /\ \/ planned.source = Blank
       \/ planned.destination = Blank
       \/ planned.now = 0
    /\ result' = "error"
    /\ UNCHANGED <<planned, position, best>>

WellFormed == planned.source # Blank /\ planned.destination # Blank /\ planned.now # 0

\* candidate.Source/Destination filter, then Validate.
Eligible(c) ==
    /\ c.source = planned.source
    /\ c.destination = planned.destination
    /\ Validate(c, planned.now)

\* cost < bestCost, or equal cost with fewer hops; otherwise the order stays.
Improves(c) ==
    \/ best = 0
    \/ LET b == planned.candidates[best] IN
          \/ Cost(c) < Cost(b)
          \/ Cost(c) = Cost(b) /\ Len(c.hops) < Len(b.hops)

Consider ==
    /\ result = "planning" /\ WellFormed
    /\ position <= Len(planned.candidates)
    /\ LET c == planned.candidates[position] IN
          best' = IF Eligible(c) /\ Improves(c) THEN position ELSE best
    /\ position' = position + 1
    /\ UNCHANGED <<planned, result>>

\* ctx.Err() at the top of the call and of every iteration.
Cancelled ==
    /\ result = "planning"
    /\ position <= Len(planned.candidates) \/ position = 1
    /\ result' = "cancelled"
    /\ UNCHANGED <<planned, position, best>>

Return ==
    /\ result = "planning" /\ WellFormed
    /\ position > Len(planned.candidates)
    /\ result' = IF best = 0 THEN "no_route" ELSE "route"
    /\ UNCHANGED <<planned, position, best>>

PlanNext == RejectRequest \/ Consider \/ Cancelled \/ Return

PlanSpec == PlanInit /\ [][PlanNext]_planVars

----------------------------------------------------------------------------
\* Independent definition of a usable route: the devices it enters, in order,
\* are pairwise different, start at the requested source and end at the
\* requested destination.
Path(c) == <<c.hops[1].from>> \o [i \in 1..Len(c.hops) |-> c.hops[i].to]

Usable(c) ==
    /\ c.id # Blank
    /\ Len(c.hops) \in 1..MaxRouteHops
    /\ c.source = planned.source /\ c.destination = planned.destination
    /\ c.expires > planned.now
    /\ IsInjective(Path(c))
    /\ Head(Path(c)) = planned.source
    /\ Last(Path(c)) = planned.destination
    /\ \A i \in 1..Len(c.hops) :
          /\ c.hops[i].from = Path(c)[i]
          /\ {c.hops[i].from, c.hops[i].to, c.hops[i].transport} \cap {Blank} = {}

\* The mathematical cost of a route, cut off at MaxCost.
Sums(hops) ==
    LET sum[i \in 0..Len(hops)] == IF i = 0 THEN 0 ELSE sum[i - 1] + hops[i].cost
    IN  sum
TrueCost(c) ==
    LET sum == Sums(c.hops)[Len(c.hops)]
    IN  IF sum > MaxCost THEN MaxCost ELSE sum

\* The rank by which the documentation of LowestCostPlanner orders two usable
\* candidates: aggregate cost, then hop count, then position in the list.
Precedes(i, j) ==
    LET a == planned.candidates[i]
        b == planned.candidates[j]
    IN  \/ TrueCost(a) < TrueCost(b)
        \/ /\ TrueCost(a) = TrueCost(b)
           /\ \/ Len(a.hops) < Len(b.hops)
              \/ Len(a.hops) = Len(b.hops) /\ i < j

\* Plan's answer is the first candidate in the documented order: a usable route
\* exactly when there is one, and none of the others precedes it.  This is what
\* Plan's single pass, Validate's loop and Cost's wraparound test must add up to.
PlanIsLowestCost ==
    LET usable == {i \in 1..Len(planned.candidates) : Usable(planned.candidates[i])} IN
        /\ result = "route" => best \in usable /\ \A i \in usable \ {best} : Precedes(best, i)
        /\ result = "no_route" => usable = {}

============================================================================
