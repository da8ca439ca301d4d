----------------------------- MODULE MeshRoute -----------------------------
(***************************************************************************)
(* Routes of the mesh (internal/mesh/mesh.go): the structural validation   *)
(* of a route, its saturating cost, and the local router policy.  These    *)
(* are the operators that the planner and the forwarder are built from.    *)
(*                                                                         *)
(* A device, a transport and a route identifier are elements of small      *)
(* sets.  Blank stands for every string that strings.TrimSpace empties.    *)
(* Time is a natural number; expiry 0 stands for Go's zero time.           *)
(***************************************************************************)
EXTENDS Naturals, Sequences, SequencesExt

CONSTANTS Blank,         \* the empty identifier
          LAN,           \* the transport mesh.TransportLAN
          MaxRouteHops,  \* the defensive bound on the hops of a route
          MaxCost        \* the largest uint64 (2^64 - 1 in the code)

ASSUME MeshRouteAssumption ==
    /\ MaxRouteHops \in Nat \ {0}
    /\ MaxCost \in Nat

----------------------------------------------------------------------------
(* Route.Validate: identifiers present, at least one hop and at most       *)
(* MaxRouteHops, not expired, and the hops form one path from the source   *)
(* to the destination that never enters a device twice.                    *)

Identified(r) ==
    /\ r.id # Blank
    /\ r.source # Blank
    /\ r.destination # Blank
    /\ r.source # r.destination

Fresh(r, now) == r.expires # 0 /\ now < r.expires

\* The device at which hop i must start (expectedFrom in the code's loop).
HopStart(r, i) == IF i = 1 THEN r.source ELSE r.hops[i - 1].to

\* The devices already visited when hop i is examined.
Visited(r, i) == {r.source} \cup {r.hops[j].to : j \in 1..(i - 1)}

HopOK(r, i) ==
    LET hop == r.hops[i] IN
        /\ hop.from # Blank /\ hop.to # Blank /\ hop.transport # Blank
        /\ hop.from = HopStart(r, i)
        /\ hop.from # hop.to
        /\ hop.to \notin Visited(r, i)

Validate(r, now) ==
    /\ Identified(r)
    /\ Len(r.hops) \in 1..MaxRouteHops
    /\ Fresh(r, now)
    /\ \A i \in 1..Len(r.hops) : HopOK(r, i)
    /\ r.hops[Len(r.hops)].to = r.destination

----------------------------------------------------------------------------
(* Route.Cost: uint64 addition that saturates when it wraps.               *)

\* Variant for sensitivity checks: the sum wraps around.
AddCostWrapping(total, cost) == (total + cost) % (MaxCost + 1)

AddCost(total, cost) ==
    LET next == (total + cost) % (MaxCost + 1)
    IN  IF next < total THEN MaxCost ELSE next

\* The loop's total after each hop.
Totals(hops) ==
    LET total[i \in 0..Len(hops)] == IF i = 0 THEN 0 ELSE AddCost(total[i - 1], hops[i].cost)
    IN  total

Cost(r) == Totals(r.hops)[Len(r.hops)]

----------------------------------------------------------------------------
(* RouterPolicy, restricted to the fields the trusted-device runtime lets  *)
(* a caller set (meshruntime.validateMutableRouterPolicy refuses every     *)
(* other value of the remaining fields).  maxSessions = 0 is unlimited.    *)

RouterPolicies(sessionLimits) ==
    [enabled : BOOLEAN, maxSessions : sessionLimits, lanOnly : BOOLEAN]

PolicyAllows(policy, first, second) ==
    policy.lanOnly => first.transport = LAN /\ second.transport = LAN

============================================================================
