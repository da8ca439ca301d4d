---------------------------- MODULE RouteProofs -----------------------------
(***************************************************************************)
(* Proofs about RouteForwarder, for any number of operations, requests,    *)
(* authorizations and policies and any size of the replay store, and about *)
(* RoutePlanner and the operators of MeshRoute, for any devices, routes,   *)
(* costs of any width and lists of candidates.  MCRoutes, which runs the   *)
(* two, implements each of them.                                           *)
(***************************************************************************)
EXTENDS MCRoutes, LoopProofs, FiniteSetTheorems, SequenceTheorems, TLAPS

----------------------------------------------------------------------------
(* Facts about constants and helpers.                                      *)

\* The parts of the assumptions that typing needs.
LEMMA ConstantFacts ==
    /\ ConfigPolicy \in Policies
    /\ MaxCount \in Nat
    /\ MaxClock \in Nat
    /\ \A q \in Requests : q.auth.jti \in JTIs
BY RouteForwarderAssumption, RouteReplayAssumption

\* saturatingAddUint64 stays within a uint64 and never returns less than its
\* left operand.
LEMMA SaturatingAddBounds ==
    ASSUME NEW left \in 0..MaxCount, NEW right \in Nat
    PROVE  /\ SaturatingAdd(left, right) \in 0..MaxCount
           /\ SaturatingAdd(left, right) >= left
BY ConstantFacts DEF SaturatingAdd

\* The answer to a failed authorization is one of the defined codes.
LEMMA AuthFailureCode ==
    ASSUME NEW o PROVE AuthFailure(o) \in Codes
BY DEF AuthFailure, Codes

----------------------------------------------------------------------------
(* Type correctness.  A JTI reaches the replay store only from an operation *)
(* that read a request, which TypeOK alone does not say.                    *)

WithRequest == {"preparing", "acquiring"} \cup SlotPhases

RequestRead == \A o \in Ops : pc[o] \in WithRequest => request[o] \in Requests

TypeInv == TypeOK /\ RequestRead

\* The initial state is well typed and no operation is under way.
LEMMA TypeInvInit == Init => TypeInv
<1> SUFFICES ASSUME Init PROVE TypeInv
  OBVIOUS
<1>1. ReplayTypeOK /\ RouterTypeOK
  <2>1. ReplayTypeOK
    BY ConstantFacts DEF Init, ReplayInit, ReplayTypeOK
  <2>2. sessions \in 0..MaxCount /\ bytes \in 0..MaxCount /\ active \in Int
    BY ConstantFacts DEF Init
  <2>3. QED
    BY <2>1, <2>2, ConstantFacts DEF Init, RouterTypeOK
<1>2. RouteTypeOK
  BY ConstantFacts DEF Init, RouteTypeOK, Phases, Never
<1>3. TunnelTypeOK
  BY DEF Init, TunnelTypeOK
<1>4. RequestRead
  BY DEF Init, RequestRead, WithRequest, SlotPhases
<1>5. QED
  BY <1>1, <1>2, <1>3, <1>4 DEF TypeInv, TypeOK

\* Every step keeps the types, and only ReadRequest makes an operation enter
\* the phases that use its request.
LEMMA TypeInvStep == TypeInv /\ [Next]_vars => TypeInv'
<1> SUFFICES ASSUME TypeInv, [Next]_vars PROVE TypeInv'
  OBVIOUS
<1> USE ConstantFacts
<1> USE DEF TypeInv, TypeOK, ReplayTypeOK, RouterTypeOK, RouteTypeOK, TunnelTypeOK, RequestRead,
            WithRequest, SlotPhases, Phases, Go, Refuse, Abandon, TearDown, CloseLinks, replayVars, routerVars, opVars
<1>1. ASSUME NEW o \in Ops, NEW s \in Sources, NEW t \in Transports, Open(o, s, t)
      PROVE  TypeInv'
  BY <1>1 DEF Open
<1>2. ASSUME NEW o \in Ops, NEW q \in Requests, ReadRequest(o, q)
      PROVE  TypeInv'
  BY <1>2 DEF ReadRequest
<1>3. ASSUME NEW o \in Ops, ReadMalformed(o) \/ ReadInterrupted(o)
      PROVE  TypeInv'
  BY <1>3 DEF ReadMalformed, ReadInterrupted, Codes
<1>4. ASSUME NEW o \in Ops, Prepare(o)
      PROVE  TypeInv'
  BY <1>4 DEF Prepare, Codes
<1>5. ASSUME NEW o \in Ops, Acquire(o)
      PROVE  TypeInv'
  BY <1>5 DEF Acquire, Codes
<1>6. ASSUME NEW o \in Ops, LocalAuthorize(o)
      PROVE  TypeInv'
  <2>1. (ReplayTypeOK /\ RouterTypeOK)'
    BY <1>6, AuthFailureCode DEF LocalAuthorize
  <2>2. (RouteTypeOK /\ RequestRead)'
    BY <1>6, AuthFailureCode DEF LocalAuthorize
  <2>3. TunnelTypeOK'
    <3>1. AuthFailure(o) \in Codes
      BY AuthFailureCode
    <3>2. reply' \in [Ops -> Codes \cup {"none", "lost", "accepted"}]
      BY <1>6, <3>1 DEF LocalAuthorize
    <3>3. ctxDone' \in [Ops -> BOOLEAN]
      BY <1>6 DEF LocalAuthorize
    <3>4. QED
      BY <1>6, <3>2, <3>3 DEF LocalAuthorize
  <2>4. QED
    BY <2>1, <2>2, <2>3
<1>7. ASSUME NEW o \in Ops, Verify(o)
      PROVE  TypeInv'
  <2>1. (ReplayTypeOK /\ RouterTypeOK)'
    BY <1>7, AuthFailureCode DEF Verify
  <2>2. (RouteTypeOK /\ RequestRead)'
    BY <1>7, AuthFailureCode DEF Verify
  <2>3. TunnelTypeOK'
    <3>1. AuthFailure(o) \in Codes
      BY AuthFailureCode
    <3>2. reply' \in [Ops -> Codes \cup {"none", "lost", "accepted"}]
      BY <1>7, <3>1 DEF Verify
    <3>3. ctxDone' \in [Ops -> BOOLEAN]
      BY <1>7 DEF Verify
    <3>4. QED
      BY <1>7, <3>2, <3>3 DEF Verify
  <2>4. QED
    BY <2>1, <2>2, <2>3
<1>8. ASSUME NEW o \in Ops, Consume(o)
      PROVE  TypeInv'
  <2> DEFINE j == request[o].auth.jti
  <2>1. j \in JTIs /\ NextUsed(j) \subseteq JTIs
    BY <1>8 DEF Consume, NextUsed, Live
  <2>2. clock \in 0..Never /\ AuthFailure(o) \in Codes
    BY AuthFailureCode DEF Never
  <2>3. used' \subseteq JTIs /\ disk' \subseteq JTIs
    BY <1>8, <2>1
       DEF Consume, ConsumeCommitted, ConsumeReplayed, ConsumeNotSaved, ConsumeHalfSaved
  <2>4. (ReplayTypeOK /\ RouterTypeOK)'
    BY <1>8, <2>2, <2>3 DEF Consume
  <2>5. (RouteTypeOK /\ RequestRead)'
    BY <1>8, <2>2, <2>3 DEF Consume
  <2>6. TunnelTypeOK'
    <3>2. reply' \in [Ops -> Codes \cup {"none", "lost", "accepted"}]
      BY <1>8, <2>2 DEF Consume
    <3>3. ctxDone' \in [Ops -> BOOLEAN]
      BY <1>8 DEF Consume
    <3>4. QED
      BY <1>8, <3>2, <3>3 DEF Consume
  <2>7. QED
    BY <2>4, <2>5, <2>6
<1>9. ASSUME NEW o \in Ops, Dial(o)
      PROVE  TypeInv'
  <2>1. (ReplayTypeOK /\ RouterTypeOK)'
    BY <1>9 DEF Dial, Codes
  <2>2. (RouteTypeOK /\ RequestRead)'
    BY <1>9 DEF Dial, Codes
  <2>3. TunnelTypeOK'
    BY <1>9 DEF Dial, Codes
  <2>4. QED
    BY <2>1, <2>2, <2>3
<1>10. ASSUME NEW o \in Ops, Accept(o)
      PROVE  TypeInv'
  BY <1>10, SaturatingAddBounds DEF Accept
<1>11. ASSUME NEW o \in Ops, AcceptFails(o)
      PROVE  TypeInv'
  BY <1>11 DEF AcceptFails
<1>12. ASSUME NEW o \in Ops, NEW d \in Directions, CopyEnds(o, d) \/ Collect(o, d)
      PROVE  TypeInv'
  BY <1>12 DEF CopyEnds, Collect
<1>13. ASSUME NEW o \in Ops, ContextCloses(o) \/ ContextEnds(o)
      PROVE  TypeInv'
  BY <1>13 DEF ContextCloses, ContextEnds
<1>14. ASSUME NEW o \in Ops, NEW n \in 0..1, Finish(o, n)
      PROVE  TypeInv'
  <2>1. (ReplayTypeOK /\ RouterTypeOK)'
    <3>1. n \in Nat
      OBVIOUS
    <3>2. SaturatingAdd(bytes, n) \in 0..MaxCount
      BY <3>1, SaturatingAddBounds
    <3>3. QED
      BY <1>14, <3>2 DEF Finish
  <2>2. (RouteTypeOK /\ RequestRead)'
    BY <1>14 DEF Finish
  <2>3. TunnelTypeOK'
    BY <1>14 DEF Finish
  <2>4. QED
    BY <2>1, <2>2, <2>3
<1>15. ASSUME NEW o \in Ops, Reject(o)
      PROVE  TypeInv'
  BY <1>15 DEF Reject
<1>16. ASSUME NEW p \in Policies, SetPolicy(p)
      PROVE  TypeInv'
  BY <1>16 DEF SetPolicy
<1>17. ASSUME NEW s \in Sources, SetTrust(s)
      PROVE  TypeInv'
  BY <1>17 DEF SetTrust
<1>18. CASE Stop
  BY <1>18 DEF Stop
<1>19. CASE Restart
  <2>1. (ReplayTypeOK /\ RouterTypeOK)'
    <3>1. used' \subseteq JTIs /\ disk' \subseteq JTIs
      BY <1>19 DEF Restart, Reopen, Live
    <3>2. sessions' \in 0..MaxCount /\ bytes' \in 0..MaxCount /\ active' \in Int
      BY <1>19 DEF Restart
    <3>3. QED
      BY <1>19, <3>1, <3>2 DEF Restart
  <2>2. (RouteTypeOK /\ RequestRead)'
    BY <1>19 DEF Restart, Reopen, Live
  <2>3. TunnelTypeOK'
    BY <1>19 DEF Restart, Reopen, Live
  <2>4. QED
    BY <2>1, <2>2, <2>3
<1>20. CASE Advance
  BY <1>20 DEF Advance, Tick
<1>21. CASE UNCHANGED vars
  BY <1>21 DEF vars
<1> HIDE DEF TypeInv
<1>22. QED
  BY <1>1, <1>2, <1>3, <1>4, <1>5, <1>6, <1>7, <1>8, <1>9, <1>10, <1>11, <1>12, <1>13, <1>14, <1>15, <1>16,
       <1>17, <1>18, <1>19, <1>20, <1>21
     DEF Next, Step, Environment

\* Every variable keeps its type; in particular only JTIs of requests that were
\* read enter the replay store, and the counters stay within a uint64.
THEOREM TypeCorrect == Spec => []TypeOK
<1>1. TypeInv => TypeOK
  BY DEF TypeInv
<1>2. QED
  BY TypeInvInit, TypeInvStep, <1>1, PTL DEF Spec

----------------------------------------------------------------------------
(* The session slots.  All that a step can do to the operations that hold  *)
(* a slot and to the counter is one of four things.                        *)

KeepsSlots ==
    /\ Holding' = Holding /\ active' = active
    /\ \A o \in Holding : snapshot'[o] = snapshot[o]

TakesSlot(o) ==
    /\ o \notin Holding /\ HasCapacity(o)
    /\ Holding' = Holding \cup {o} /\ active' = active + 1
    /\ snapshot' = snapshot

ReleasesSlot(o) ==
    /\ o \in Holding
    /\ Holding' = Holding \ {o} /\ active' = active - 1
    /\ snapshot' = snapshot

DropsSlots == Holding' = {} /\ active' = 0

\* An operation that moves between two phases on the same side keeps the slots.
LEMMA MoveKeepsHolding ==
    ASSUME TypeInv, NEW o \in Ops, NEW phase, Go(o, phase), pc[o] \in SlotPhases <=> phase \in SlotPhases
    PROVE  Holding' = Holding
BY DEF TypeInv, TypeOK, RouteTypeOK, Go, Holding

\* One that enters or leaves the slot phases changes Holding by itself alone.
LEMMA MoveIntoHolding ==
    ASSUME TypeInv, NEW o \in Ops, NEW phase \in SlotPhases, Go(o, phase), pc[o] \notin SlotPhases
    PROVE  o \notin Holding /\ Holding' = Holding \cup {o}
BY DEF TypeInv, TypeOK, RouteTypeOK, Go, Holding

LEMMA MoveOutOfHolding ==
    ASSUME TypeInv, NEW o \in Ops, NEW phase, Go(o, phase), pc[o] \in SlotPhases, phase \notin SlotPhases
    PROVE  o \in Holding /\ Holding' = Holding \ {o}
BY DEF TypeInv, TypeOK, RouteTypeOK, Go, Holding

\* Every step is one of the four, whichever return of prepareForward it takes.
LEMMA SlotStep ==
    ASSUME TypeInv, [Next]_vars
    PROVE  \/ KeepsSlots
           \/ \E o \in Ops : TakesSlot(o) \/ ReleasesSlot(o)
           \/ DropsSlots
<1> USE DEF SlotPhases, replayVars, routerVars, opVars
<1> DEFINE Goal == KeepsSlots \/ (\E o \in Ops : TakesSlot(o) \/ ReleasesSlot(o)) \/ DropsSlots
<1>1. ASSUME NEW o \in Ops, NEW s \in Sources, NEW t \in Transports, Open(o, s, t)
      PROVE  Goal
  BY <1>1, MoveKeepsHolding DEF Open, KeepsSlots
<1>2. ASSUME NEW o \in Ops, NEW q \in Requests, ReadRequest(o, q)
      PROVE  Goal
  BY <1>2, MoveKeepsHolding DEF ReadRequest, KeepsSlots
<1>3. ASSUME NEW o \in Ops, ReadMalformed(o) \/ ReadInterrupted(o)
      PROVE  Goal
  BY <1>3, MoveKeepsHolding DEF ReadMalformed, ReadInterrupted, Refuse, KeepsSlots
<1>4. ASSUME NEW o \in Ops, Prepare(o)
      PROVE  Goal
  <2>1. Holding' = Holding /\ active' = active
    BY <1>4, MoveKeepsHolding DEF Prepare, Refuse
  <2>2. \A p \in Holding : snapshot'[p] = snapshot[p]
    BY <1>4 DEF Prepare, Holding, TypeInv, TypeOK, RouteTypeOK
  <2>3. QED
    BY <2>1, <2>2 DEF KeepsSlots
<1>5. ASSUME NEW o \in Ops, Acquire(o)
      PROVE  Goal
  <2>1. CASE HasCapacity(o) /\ Go(o, "localAuth") /\ active' = active + 1
    BY <1>5, <2>1, MoveIntoHolding DEF Acquire, TakesSlot
  <2>2. CASE Refuse(o, "busy") /\ UNCHANGED active
    BY <1>5, <2>2, MoveKeepsHolding DEF Acquire, Refuse, KeepsSlots
  <2>3. QED
    BY <1>5, <2>1, <2>2 DEF Acquire
<1>6. ASSUME NEW o \in Ops, LocalAuthorize(o)
      PROVE  Goal
  <2>1. CASE Go(o, "verifying") /\ UNCHANGED active
    BY <1>6, <2>1, MoveKeepsHolding DEF LocalAuthorize, KeepsSlots
  <2>2. CASE Go(o, "rejecting") /\ active' = active - 1
    BY <1>6, <2>2, MoveOutOfHolding DEF LocalAuthorize, ReleasesSlot
  <2>3. QED
    BY <1>6, <2>1, <2>2 DEF LocalAuthorize, Abandon, Refuse
<1>7. ASSUME NEW o \in Ops, Verify(o)
      PROVE  Goal
  <2>1. CASE Go(o, "consuming") /\ UNCHANGED active
    BY <1>7, <2>1, MoveKeepsHolding DEF Verify, KeepsSlots
  <2>2. CASE Go(o, "rejecting") /\ active' = active - 1
    BY <1>7, <2>2, MoveOutOfHolding DEF Verify, ReleasesSlot
  <2>3. QED
    BY <1>7, <2>1, <2>2 DEF Verify, Abandon, Refuse
<1>8. ASSUME NEW o \in Ops, Consume(o)
      PROVE  Goal
  <2>1. CASE Go(o, "dialing") /\ UNCHANGED active
    BY <1>8, <2>1, MoveKeepsHolding DEF Consume, KeepsSlots
  <2>2. CASE Go(o, "rejecting") /\ active' = active - 1
    BY <1>8, <2>2, MoveOutOfHolding DEF Consume, ReleasesSlot
  <2>3. QED
    BY <1>8, <2>1, <2>2 DEF Consume, Abandon, Refuse
<1>9. ASSUME NEW o \in Ops, Dial(o)
      PROVE  Goal
  <2>1. CASE Go(o, "accepting") /\ UNCHANGED active
    BY <1>9, <2>1, MoveKeepsHolding DEF Dial, KeepsSlots
  <2>2. CASE Go(o, "rejecting") /\ active' = active - 1
    BY <1>9, <2>2, MoveOutOfHolding DEF Dial, ReleasesSlot
  <2>3. QED
    BY <1>9, <2>1, <2>2 DEF Dial, Abandon, Refuse
<1>10. ASSUME NEW o \in Ops, Accept(o)
      PROVE  Goal
  BY <1>10, MoveKeepsHolding DEF Accept, KeepsSlots
<1>11. ASSUME NEW o \in Ops, AcceptFails(o)
      PROVE  Goal
  BY <1>11, MoveOutOfHolding DEF AcceptFails, TearDown, ReleasesSlot
<1>12. ASSUME NEW o \in Ops, NEW d \in Directions, CopyEnds(o, d) \/ Collect(o, d)
      PROVE  Goal
  BY <1>12 DEF CopyEnds, Collect, KeepsSlots, Holding
<1>13. ASSUME NEW o \in Ops, ContextCloses(o) \/ ContextEnds(o)
      PROVE  Goal
  BY <1>13 DEF ContextCloses, ContextEnds, KeepsSlots, Holding
<1>14. ASSUME NEW o \in Ops, NEW n \in 0..1, Finish(o, n)
      PROVE  Goal
  BY <1>14, MoveOutOfHolding DEF Finish, TearDown, ReleasesSlot
<1>15. ASSUME NEW o \in Ops, Reject(o)
      PROVE  Goal
  BY <1>15, MoveKeepsHolding DEF Reject, KeepsSlots
<1>16. ASSUME (\E p \in Policies : SetPolicy(p)) \/ (\E s \in Sources : SetTrust(s)) \/ Stop \/ Advance
       PROVE  Goal
  BY <1>16 DEF SetPolicy, SetTrust, Stop, Advance, KeepsSlots, Holding
<1>17. ASSUME Restart PROVE Goal
  BY <1>17 DEF Restart, DropsSlots, Holding
<1>18. ASSUME UNCHANGED vars PROVE Goal
  BY <1>18 DEF vars, KeepsSlots, Holding
<1> HIDE DEF Goal
<1>19. Goal
  BY <1>1, <1>2, <1>3, <1>4, <1>5, <1>6, <1>7, <1>8, <1>9, <1>10, <1>11, <1>12, <1>13, <1>14, <1>15, <1>16,
       <1>17, <1>18
     DEF Next, Step, Environment
<1>20. QED
  BY <1>19 DEF Goal

\* The inductive invariant of the session slots.
SlotInv == TypeInv /\ SlotAccounting /\ LimitRespected

\* Holding is finite and a policy's limit is a natural number.
LEMMA SlotFacts ==
    ASSUME TypeInv
    PROVE  /\ IsFiniteSet(Holding)
           /\ \A o \in Ops : snapshot[o].maxSessions \in Nat
<1>1. Holding \in SUBSET Ops
  BY DEF Holding
<1>2. IsFiniteSet(Holding)
  BY <1>1, FS_Subset, RouteForwarderAssumption
<1>3. ASSUME NEW o \in Ops PROVE snapshot[o].maxSessions \in Nat
  <2>1. snapshot[o] \in Policies \cup {NoPolicy}
    BY DEF TypeInv, TypeOK, RouteTypeOK
  <2>2. Policies \subseteq RouterPolicies(Nat)
    BY RouteForwarderAssumption
  <2>3. QED
    BY <2>1, <2>2 DEF RouterPolicies, NoPolicy
<1>4. QED
  BY <1>2, <1>3

\* active follows the number of holders through each of the four steps.
LEMMA SlotAccountingStep ==
    ASSUME SlotInv, [Next]_vars PROVE SlotAccounting'
<1> USE DEF SlotInv
<1>1. IsFiniteSet(Holding) /\ Cardinality(Holding) \in Nat
  BY SlotFacts, FS_CardinalityType
<1>2. CASE KeepsSlots
  BY <1>2 DEF KeepsSlots, SlotAccounting
<1>3. ASSUME NEW o \in Ops, TakesSlot(o) PROVE SlotAccounting'
  <2>1. Cardinality(Holding \cup {o}) = Cardinality(Holding) + 1
    BY <1>1, <1>3, FS_AddElement DEF TakesSlot
  <2>2. QED
    BY <1>3, <2>1 DEF TakesSlot, SlotAccounting
<1>4. ASSUME NEW o \in Ops, ReleasesSlot(o) PROVE SlotAccounting'
  <2>1. Cardinality(Holding \ {o}) = Cardinality(Holding) - 1
    BY <1>1, <1>4, FS_RemoveElement DEF ReleasesSlot
  <2>2. QED
    BY <1>4, <2>1 DEF ReleasesSlot, SlotAccounting
<1>5. CASE DropsSlots
  BY <1>5, FS_EmptySet DEF DropsSlots, SlotAccounting
<1>6. QED
  BY <1>2, <1>3, <1>4, <1>5, SlotStep

\* A group that the new holder joins is at most active + 1 large, which its own
\* snapshot allowed; every other group was there before, with its snapshots.
LEMMA LimitRespectedStep ==
    ASSUME SlotInv, [Next]_vars PROVE LimitRespected'
<1> USE DEF SlotInv
<1> DEFINE Allowed(S, o) == snapshot[o].maxSessions = 0 \/ Cardinality(S) <= snapshot[o].maxSessions
<1>1. ASSUME NEW S \in SUBSET Holding, S # {} PROVE \E o \in S : Allowed(S, o)
  BY <1>1 DEF LimitRespected
<1>2. CASE KeepsSlots
  <2> SUFFICES ASSUME NEW S \in SUBSET Holding, S # {}
               PROVE  \E o \in S : Allowed(S, o)'
    BY <1>2 DEF KeepsSlots, LimitRespected
  <2>1. PICK o \in S : Allowed(S, o)
    BY <1>1
  <2>2. QED
    BY <1>2, <2>1 DEF KeepsSlots
<1>3. ASSUME NEW p \in Ops, TakesSlot(p) PROVE LimitRespected'
  <2> SUFFICES ASSUME NEW S \in SUBSET (Holding \cup {p}), S # {}
               PROVE  \E o \in S : Allowed(S, o)
    BY <1>3 DEF TakesSlot, LimitRespected
  <2>1. CASE p \notin S
    BY <1>1, <2>1
  <2>2. CASE p \in S
    <3>1. IsFiniteSet(Holding) /\ snapshot[p].maxSessions \in Nat
      BY SlotFacts
    <3>2. /\ IsFiniteSet(Holding \cup {p})
          /\ Cardinality(Holding \cup {p}) = Cardinality(Holding) + 1
      BY <1>3, <3>1, FS_AddElement DEF TakesSlot
    <3>3. Cardinality(S) <= Cardinality(Holding \cup {p}) /\ Cardinality(S) \in Nat
      BY <3>2, FS_Subset, FS_CardinalityType
    <3>4. Cardinality(Holding) \in Nat
      BY <3>1, FS_CardinalityType
    <3>5. Allowed(S, p)
      BY <1>3, <3>1, <3>2, <3>3, <3>4 DEF TakesSlot, HasCapacity, SlotAccounting
    <3>6. QED
      BY <2>2, <3>5
  <2>3. QED
    BY <2>1, <2>2
<1>4. ASSUME NEW p \in Ops, ReleasesSlot(p) PROVE LimitRespected'
  BY <1>1, <1>4 DEF ReleasesSlot, LimitRespected
<1>5. CASE DropsSlots
  BY <1>5 DEF DropsSlots, LimitRespected
<1>6. QED
  BY <1>2, <1>3, <1>4, <1>5, SlotStep

\* SlotInv is an invariant.
LEMMA SlotInvariant == Spec => []SlotInv
<1>1. Init => SlotInv
  <2> SUFFICES ASSUME Init PROVE SlotInv
    OBVIOUS
  <2>1. Holding = {}
    BY DEF Init, Holding, SlotPhases
  <2>2. SlotAccounting /\ LimitRespected
    BY <2>1, FS_EmptySet DEF Init, SlotAccounting, LimitRespected
  <2>3. QED
    BY <2>2, TypeInvInit DEF SlotInv
<1>2. SlotInv /\ [Next]_vars => SlotInv'
  BY TypeInvStep, SlotAccountingStep, LimitRespectedStep DEF SlotInv
<1>3. QED
  BY <1>1, <1>2, PTL DEF Spec

\* The counter of acquireSession and releaseSession always equals the number of
\* operations between the two, for any number of concurrent operations.
THEOREM SlotsAccounted == Spec => []SlotAccounting
<1>1. SlotInv => SlotAccounting
  BY DEF SlotInv
<1>2. QED
  BY <1>1, SlotInvariant, PTL

\* No group of sessions outgrows the largest limit its members were admitted
\* under, whatever policies are set in whatever order.
THEOREM LimitHolds == Spec => []LimitRespected
<1>1. SlotInv => LimitRespected
  BY DEF SlotInv
<1>2. QED
  BY <1>1, SlotInvariant, PTL

----------------------------------------------------------------------------
(* Consumption of authorizations.  What a consumption recorded stays what  *)
(* it was: the request of an operation does not change after it consumed,  *)
(* and an operation that has not reached the consumption has not consumed. *)

BeforeConsumption ==
    {"idle", "reading", "preparing", "acquiring", "localAuth", "verifying", "consuming"}

HistoryOK ==
    \A o \in Ops :
        /\ HasConsumed(o) => request[o] \in Requests
        /\ pc[o] \in BeforeConsumption => ~HasConsumed(o)

ConsumptionInv == TypeInv /\ HistoryOK /\ ConsumptionDurable /\ SingleUse

\* All that a step can do to the store, the clock and the history.
KeepsStore ==
    /\ UNCHANGED <<clock, consumedAt>>
    /\ \A o \in Ops : request'[o] = request[o] \/ ~HasConsumed(o)
    /\ \/ UNCHANGED <<used, disk>>
       \/ used' = used /\ \E j \in JTIs : disk' = NextUsed(j)
       \/ used' = Live(disk) /\ disk' = disk

Consumes(o) ==
    /\ request[o] \in Requests /\ pc[o] = "consuming"
    /\ ConsumeCommitted(JTI(o))
    /\ consumedAt' = [consumedAt EXCEPT ![o] = clock]
    /\ UNCHANGED <<clock, request>>

TimePasses ==
    /\ clock' = clock + 1
    /\ UNCHANGED <<used, disk, request, consumedAt>>

\* Every step is one of the three.
LEMMA StoreStep ==
    ASSUME TypeInv, HistoryOK, [Next]_vars
    PROVE  KeepsStore \/ (\E o \in Ops : Consumes(o)) \/ TimePasses
<1> USE DEF replayVars, routerVars, opVars
<1> DEFINE Goal == KeepsStore \/ (\E o \in Ops : Consumes(o)) \/ TimePasses
<1>1. ASSUME UNCHANGED <<used, disk, clock, request, consumedAt>> PROVE Goal
  BY <1>1 DEF KeepsStore
<1>2. ASSUME NEW o \in Ops, NEW q \in Requests, ReadRequest(o, q) PROVE Goal
  <2>1. \A p \in Ops : request'[p] = request[p] \/ ~HasConsumed(p)
    BY <1>2 DEF ReadRequest, HistoryOK, BeforeConsumption, TypeInv, TypeOK, RouteTypeOK
  <2>2. QED
    BY <1>2, <2>1 DEF ReadRequest, KeepsStore
<1>3. ASSUME NEW o \in Ops, Consume(o) PROVE Goal
  <2>1. request[o] \in Requests /\ JTI(o) \in JTIs
    BY <1>3, ConstantFacts DEF Consume, TypeInv, RequestRead, WithRequest, SlotPhases, JTI
  <2>2. CASE ConsumeCommitted(JTI(o)) /\ consumedAt' = [consumedAt EXCEPT ![o] = clock]
    BY <1>3, <2>1, <2>2 DEF Consume, Consumes
  <2>3. CASE ConsumeHalfSaved(JTI(o)) /\ UNCHANGED consumedAt
    BY <1>3, <2>1, <2>3 DEF Consume, ConsumeHalfSaved, KeepsStore
  <2>4. CASE UNCHANGED <<used, disk, consumedAt>>
    BY <1>3, <2>4, <1>1 DEF Consume
  <2> HIDE DEF Goal
  <2>5. QED
    BY <1>3, <2>2, <2>3, <2>4 DEF Consume, ConsumeReplayed, ConsumeNotSaved, JTI
<1>4. ASSUME Restart PROVE Goal
  BY <1>4 DEF Restart, Reopen, KeepsStore
<1>5. ASSUME Advance PROVE Goal
  BY <1>5 DEF Advance, Tick, TimePasses
<1> HIDE DEF Goal
<1>6. ASSUME NEW o \in Ops, Step(o) PROVE Goal
  BY <1>1, <1>2, <1>3, <1>6
     DEF Step, ReadMalformed, ReadInterrupted, Prepare, Acquire, LocalAuthorize, Verify, Dial,
         Accept, AcceptFails, Collect, ContextCloses, Finish, Reject
<1>7. ASSUME NEW o \in Ops, (\E s \in Sources, t \in Transports : Open(o, s, t)) \/ ContextEnds(o)
      PROVE  Goal
  BY <1>1, <1>7 DEF Open, ContextEnds
<1>7a. ASSUME NEW o \in Ops, NEW d \in Directions, CopyEnds(o, d) PROVE Goal
  BY <1>1, <1>7a DEF CopyEnds
<1>8. ASSUME Environment PROVE Goal
  BY <1>1, <1>4, <1>5, <1>8 DEF Environment, SetPolicy, SetTrust, Stop
<1>9. ASSUME UNCHANGED vars PROVE Goal
  BY <1>1, <1>9 DEF vars
<1>10. Goal
  BY <1>6, <1>7, <1>7a, <1>8, <1>9, Zenon DEF Next
<1>11. QED
  BY <1>10 DEF Goal

\* The phases before the consumption are left by Consume alone.
LEMMA HistoryStep ==
    ASSUME TypeInv, HistoryOK, [Next]_vars PROVE HistoryOK'
<1> USE DEF replayVars, routerVars, opVars, HistoryOK, BeforeConsumption, HasConsumed,
            TypeInv, TypeOK, RouteTypeOK
<1>1. ASSUME UNCHANGED <<request, consumedAt>>,
             \A o \in Ops : pc'[o] = pc[o] \/ pc'[o] \in {"done", "rejecting"}
                                          \/ pc[o] \in BeforeConsumption
      PROVE  HistoryOK'
  BY <1>1
<1>2. ASSUME NEW o \in Ops, NEW q \in Requests, ReadRequest(o, q) PROVE HistoryOK'
  BY <1>2 DEF ReadRequest, Go
<1>3. ASSUME NEW o \in Ops, Consume(o) PROVE HistoryOK'
  <2>1. request[o] \in Requests /\ UNCHANGED request
    BY <1>3 DEF Consume, RequestRead, WithRequest, SlotPhases
  <2>2. pc'[o] \notin BeforeConsumption /\ \A p \in Ops \ {o} : pc'[p] = pc[p]
    BY <1>3 DEF Consume, Go, Abandon, Refuse
  <2>3. \A p \in Ops \ {o} : consumedAt'[p] = consumedAt[p]
    BY <1>3 DEF Consume
  <2>4. QED
    BY <2>1, <2>2, <2>3
<1>4. ASSUME NEW o \in Ops, Prepare(o) \/ Acquire(o) \/ LocalAuthorize(o) \/ Verify(o)
      PROVE  HistoryOK'
  BY <1>4 DEF Prepare, Acquire, LocalAuthorize, Verify, Go, Refuse, Abandon
<1>5. ASSUME NEW o \in Ops, \/ Dial(o) \/ Accept(o) \/ AcceptFails(o) \/ Reject(o)
                           \/ ReadMalformed(o) \/ ReadInterrupted(o)
      PROVE  HistoryOK'
  BY <1>5 DEF Dial, Accept, AcceptFails, Reject, ReadMalformed, ReadInterrupted, Go, Refuse,
              Abandon, TearDown
<1>6. ASSUME NEW o \in Ops, NEW d \in Directions, Collect(o, d) \/ CopyEnds(o, d)
      PROVE  HistoryOK'
  BY <1>6 DEF Collect, CopyEnds
<1>7. ASSUME NEW o \in Ops, ContextCloses(o) \/ ContextEnds(o) \/ (\E n \in 0..1 : Finish(o, n))
      PROVE  HistoryOK'
  BY <1>7 DEF ContextCloses, ContextEnds, Finish, TearDown, Go
<1>8. ASSUME NEW o \in Ops, NEW s \in Sources, NEW t \in Transports, Open(o, s, t)
      PROVE  HistoryOK'
  BY <1>8 DEF Open, Go
<1>9. ASSUME Environment PROVE HistoryOK'
  BY <1>9 DEF Environment, SetPolicy, SetTrust, Stop, Restart, Advance
<1>10. ASSUME UNCHANGED vars PROVE HistoryOK'
  BY <1>10 DEF vars
<1> HIDE DEF HistoryOK
<1>11. QED
  BY <1>2, <1>3, <1>4, <1>5, <1>6, <1>7, <1>8, <1>9, <1>10 DEF Next, Step

\* Purging, failed saves and restarts drop only what has expired.
LEMMA ConsumptionDurableStep ==
    ASSUME ConsumptionInv, [Next]_vars PROVE ConsumptionDurable'
<1> USE DEF ConsumptionInv
<1>1. clock \in Nat /\ \A j \in JTIs : Expiry[j] \in Nat
  BY RouteReplayAssumption DEF TypeInv, TypeOK, ReplayTypeOK
<1>2. \A o \in Ops : HasConsumed(o) => JTI(o) \in JTIs
  BY ConstantFacts DEF HistoryOK, JTI
<1>3. CASE KeepsStore
  <2> SUFFICES ASSUME NEW o \in Ops, HasConsumed(o), clock < Expiry[JTI(o)]
               PROVE  JTI(o) \in used' \cap disk'
    BY <1>3 DEF KeepsStore, ConsumptionDurable, JTI, HasConsumed
  <2>1. JTI(o) \in used \cap disk /\ Expiry[JTI(o)] > clock
    BY <1>1, <1>2 DEF ConsumptionDurable
  <2>2. QED
    BY <1>3, <2>1 DEF KeepsStore, NextUsed, Live
<1>4. ASSUME NEW p \in Ops, Consumes(p) PROVE ConsumptionDurable'
  <2> SUFFICES ASSUME NEW o \in Ops, HasConsumed(o)', clock < Expiry[JTI(o)]
               PROVE  JTI(o) \in used' \cap disk'
    BY <1>4 DEF Consumes, ConsumptionDurable, JTI
  <2>1. CASE o = p
    BY <1>4, <2>1 DEF Consumes, ConsumeCommitted, NextUsed
  <2>2. CASE o # p
    <3>1. HasConsumed(o)
      BY <1>4, <2>2 DEF Consumes, HasConsumed, TypeInv, TypeOK, RouteTypeOK
    <3>2. JTI(o) \in used /\ Expiry[JTI(o)] > clock
      BY <3>1, <1>1, <1>2 DEF ConsumptionDurable
    <3>3. QED
      BY <1>4, <3>2 DEF Consumes, ConsumeCommitted, NextUsed, Live
  <2>3. QED
    BY <2>1, <2>2
<1>5. CASE TimePasses
  BY <1>1, <1>2, <1>5 DEF TimePasses, ConsumptionDurable, JTI, HasConsumed
<1>6. QED
  BY <1>3, <1>4, <1>5, StoreStep

\* A second consumption of a valid JTI would find it on record.
LEMMA SingleUseStep ==
    ASSUME ConsumptionInv, [Next]_vars PROVE SingleUse'
<1> USE DEF ConsumptionInv
<1>1. clock \in Nat /\ \A j \in JTIs : Expiry[j] \in Nat
  BY RouteReplayAssumption DEF TypeInv, TypeOK, ReplayTypeOK
<1>2. CASE KeepsStore
  BY <1>2 DEF KeepsStore, SingleUse, JTI, HasConsumed
<1>3. ASSUME NEW p \in Ops, Consumes(p) PROVE SingleUse'
  <2>1. ASSUME NEW o \in Ops \ {p}
        PROVE  consumedAt'[o] = consumedAt[o] /\ HasConsumed(o)' = HasConsumed(o)
    BY <1>3 DEF Consumes, HasConsumed, TypeInv, TypeOK, RouteTypeOK
  <2>2. consumedAt'[p] = clock
    BY <1>3 DEF Consumes, TypeInv, TypeOK, RouteTypeOK
  <2>3. ASSUME NEW o \in Ops \ {p}, HasConsumed(o), JTI(o) = JTI(p), clock < Expiry[JTI(p)]
        PROVE  FALSE
    <3>1. JTI(p) \in used /\ JTI(p) \in JTIs
      BY <1>3, <2>3, ConstantFacts DEF ConsumptionDurable, Consumes, JTI
    <3>2. QED
      BY <1>1, <1>3, <2>3, <3>1 DEF Consumes, ConsumeCommitted, Live
  <2>4. UNCHANGED request
    BY <1>3 DEF Consumes
  <2>5. QED
    BY <2>1, <2>2, <2>3, <2>4 DEF SingleUse, JTI
<1>4. CASE TimePasses
  BY <1>4 DEF TimePasses, SingleUse, JTI, HasConsumed
<1>5. QED
  BY <1>2, <1>3, <1>4, StoreStep

\* ConsumptionInv is an invariant.
LEMMA ConsumptionInvariant == Spec => []ConsumptionInv
<1>1. Init => ConsumptionInv
  <2> SUFFICES ASSUME Init PROVE ConsumptionInv
    OBVIOUS
  <2>1. \A o \in Ops : ~HasConsumed(o)
    BY DEF Init, HasConsumed
  <2>2. QED
    BY <2>1, TypeInvInit DEF ConsumptionInv, HistoryOK, ConsumptionDurable, SingleUse
<1>2. ConsumptionInv /\ [Next]_vars => ConsumptionInv'
  BY TypeInvStep, HistoryStep, ConsumptionDurableStep, SingleUseStep DEF ConsumptionInv
<1>3. QED
  BY <1>1, <1>2, PTL DEF Spec

\* An authorization consumed through the replay file stays on record until it
\* expires, for any size of the file and any sequence of failures and restarts.
THEOREM ConsumptionIsDurable == Spec => []ConsumptionDurable
<1>1. ConsumptionInv => ConsumptionDurable
  BY DEF ConsumptionInv
<1>2. QED
  BY <1>1, ConsumptionInvariant, PTL

\* No two operations consume the same authorization while it is valid.
THEOREM ConsumptionIsUnique == Spec => []SingleUse
<1>1. ConsumptionInv => SingleUse
  BY DEF ConsumptionInv
<1>2. QED
  BY <1>1, ConsumptionInvariant, PTL

----------------------------------------------------------------------------
(* The links.                                                              *)

LinksInv == TypeInv /\ NoStrandedLinks

\* Every return of prepareForward closes the outgoing link or never had one,
\* and every way to the end closes the incoming link.
LEMMA LinksStep ==
    ASSUME LinksInv, [Next]_vars PROVE NoStrandedLinks'
<1> USE DEF LinksInv, TypeInv, TypeOK, RouteTypeOK, TunnelTypeOK, NoStrandedLinks, Go, Refuse, Abandon, TearDown,
            CloseLinks, replayVars, routerVars, opVars
<1>1. ASSUME UNCHANGED <<pc, incoming, outgoing>> PROVE NoStrandedLinks'
  BY <1>1
<1>2. ASSUME NEW o \in Ops, NEW s \in Sources, NEW t \in Transports, Open(o, s, t) PROVE NoStrandedLinks'
  BY <1>2 DEF Open
<1>3. ASSUME NEW o \in Ops, (\E q \in Requests : ReadRequest(o, q)) \/ ReadMalformed(o) \/ ReadInterrupted(o)
      PROVE  NoStrandedLinks'
  BY <1>3 DEF ReadRequest, ReadMalformed, ReadInterrupted
<1>4. ASSUME NEW o \in Ops, Prepare(o) PROVE NoStrandedLinks'
  BY <1>4 DEF Prepare
<1>5. ASSUME NEW o \in Ops, Acquire(o) \/ LocalAuthorize(o) \/ Verify(o) \/ Consume(o) PROVE NoStrandedLinks'
  BY <1>5 DEF Acquire, LocalAuthorize, Verify, Consume
<1>6. ASSUME NEW o \in Ops, Dial(o) PROVE NoStrandedLinks'
  BY <1>6 DEF Dial
<1>7. ASSUME NEW o \in Ops, Accept(o) \/ AcceptFails(o) PROVE NoStrandedLinks'
  BY <1>7 DEF Accept, AcceptFails
<1>8. ASSUME NEW o \in Ops, \/ \E d \in Directions : Collect(o, d)
                            \/ ContextCloses(o)
                            \/ \E n \in 0..1 : Finish(o, n)
                            \/ Reject(o)
      PROVE  NoStrandedLinks'
  BY <1>8 DEF Collect, ContextCloses, Finish, Reject
<1>9. ASSUME NEW o \in Ops, Step(o) PROVE NoStrandedLinks'
  BY ONLY <1>3, <1>4, <1>5, <1>6, <1>7, <1>8, <1>9 DEF Step
<1>10. ASSUME NEW o \in Ops, (\E d \in Directions : CopyEnds(o, d)) \/ ContextEnds(o) PROVE NoStrandedLinks'
  BY <1>1, <1>10 DEF CopyEnds, ContextEnds
<1>11. ASSUME Restart PROVE NoStrandedLinks'
  BY <1>11 DEF Restart
<1>12. ASSUME Environment PROVE NoStrandedLinks'
  BY <1>1, <1>11, <1>12 DEF Environment, SetPolicy, SetTrust, Stop, Advance
<1>13. ASSUME UNCHANGED vars PROVE NoStrandedLinks'
  BY <1>1, <1>13 DEF vars
<1>14. QED
  BY ONLY <1>2, <1>9, <1>10, <1>12, <1>13, [Next]_vars DEF Next

\* No operation that ended holds a link open, and no outgoing link is open
\* outside a tunnel, although timers, the agent's end and restarts may cut an
\* operation short anywhere.
THEOREM LinksNotStranded == Spec => []NoStrandedLinks
<1>1. Init => LinksInv
  BY TypeInvInit DEF LinksInv, NoStrandedLinks, Init
<1>2. LinksInv /\ [Next]_vars => LinksInv'
  BY TypeInvStep, LinksStep DEF LinksInv
<1>3. LinksInv => NoStrandedLinks
  BY DEF LinksInv
<1>4. QED
  BY <1>1, <1>2, <1>3, PTL DEF Spec

----------------------------------------------------------------------------
(* The acceptance.  What was checked for an operation stays true of it: its *)
(* request and its peer do not change after they were read.                 *)

Tunnelled == {"accepting", "forwarding"}
Consumed == {"dialing"} \cup Tunnelled
CapabilityChecked == {"consuming"} \cup Consumed
Admitted == {"acquiring", "localAuth", "verifying"} \cup CapabilityChecked

LinkChecked(o) ==
    LET q == request[o]
    IN  remote[o] = <<q.route.source, q.route.hops[1].transport>> /\ q.route.hops[1].to = Router
AuthChecked(o) ==
    LET a == request[o].auth IN a.signed /\ a.router = Router /\ a.route = request[o].route

Accepted(o) == HasConsumed(o) /\ LinkChecked(o) /\ AuthChecked(o)

AcceptanceOK ==
    \A o \in Ops :
        /\ pc[o] \in {"reading"} \cup WithRequest => remote[o] \in Sources \X Transports
        /\ pc[o] \in Admitted => LinkChecked(o)
        /\ pc[o] \in CapabilityChecked => AuthChecked(o)
        /\ pc[o] \in Consumed => HasConsumed(o)
        /\ reply[o] = "accepted" => pc[o] \in {"forwarding", "done"} /\ Accepted(o)

AcceptanceInv == TypeInv /\ AcceptanceOK

\* Every phase passes on what the earlier ones checked.
LEMMA AcceptanceStep ==
    ASSUME AcceptanceInv, [Next]_vars PROVE AcceptanceOK'
<1> USE DEF AcceptanceInv, TypeInv, TypeOK, RouteTypeOK, TunnelTypeOK, AcceptanceOK, Accepted, LinkChecked, AuthChecked,
            HasConsumed, Admitted, CapabilityChecked, Consumed, Tunnelled, WithRequest, SlotPhases, Go, Refuse, Abandon,
            TearDown, replayVars, routerVars, opVars
<1>1. ASSUME UNCHANGED <<pc, request, remote, reply, consumedAt>> PROVE AcceptanceOK'
  BY <1>1
<1>2. ASSUME NEW o \in Ops, NEW s \in Sources, NEW t \in Transports, Open(o, s, t) PROVE AcceptanceOK'
  BY <1>2 DEF Open
<1>3. ASSUME NEW o \in Ops, (\E q \in Requests : ReadRequest(o, q)) PROVE AcceptanceOK'
  BY <1>3 DEF ReadRequest
<1>4. ASSUME NEW o \in Ops, ReadMalformed(o) \/ ReadInterrupted(o) \/ Reject(o) PROVE AcceptanceOK'
  BY <1>4 DEF ReadMalformed, ReadInterrupted, Reject
<1>5. ASSUME NEW o \in Ops, Prepare(o) PROVE AcceptanceOK'
  <2>1. CASE LinkMatches(o, request[o]) /\ Structural(request[o]) /\ pc' = [pc EXCEPT ![o] = "acquiring"]
             /\ UNCHANGED reply
    <3>1. LinkChecked(o)
      BY <1>5, <2>1 DEF Prepare, LinkMatches, Structural
    <3>2. QED
      BY <1>5, <2>1, <3>1 DEF Prepare
  <2>2. CASE \E code \in Codes : Refuse(o, code)
    BY <1>5, <2>2 DEF Prepare, Codes
  <2>3. QED
    BY <1>5, <2>1, <2>2 DEF Prepare, Codes
<1>6. ASSUME NEW o \in Ops, Acquire(o) \/ LocalAuthorize(o) PROVE AcceptanceOK'
  BY <1>6, AuthFailureCode DEF Acquire, LocalAuthorize, Codes
<1>7. ASSUME NEW o \in Ops, Verify(o) PROVE AcceptanceOK'
  BY <1>7, AuthFailureCode DEF Verify, Verified, Codes
<1>8. ASSUME NEW o \in Ops, Consume(o) PROVE AcceptanceOK'
  BY <1>8, AuthFailureCode, ConstantFacts DEF Consume, Codes, Never, ReplayTypeOK
<1>9. ASSUME NEW o \in Ops, Dial(o) PROVE AcceptanceOK'
  BY <1>9 DEF Dial
<1>10. ASSUME NEW o \in Ops, Accept(o) \/ AcceptFails(o) PROVE AcceptanceOK'
  BY <1>10 DEF Accept, AcceptFails
<1>11. ASSUME NEW o \in Ops, \/ \E d \in Directions : Collect(o, d)
                             \/ ContextCloses(o)
                             \/ \E n \in 0..1 : Finish(o, n)
       PROVE  AcceptanceOK'
  BY <1>11 DEF Collect, ContextCloses, Finish
<1>12. ASSUME NEW o \in Ops, Step(o) PROVE AcceptanceOK'
  BY ONLY <1>3, <1>4, <1>5, <1>6, <1>7, <1>8, <1>9, <1>10, <1>11, <1>12 DEF Step
<1>13. ASSUME NEW o \in Ops, (\E d \in Directions : CopyEnds(o, d)) \/ ContextEnds(o) PROVE AcceptanceOK'
  BY <1>1, <1>13 DEF CopyEnds, ContextEnds
<1>14. ASSUME Restart PROVE AcceptanceOK'
  BY <1>14 DEF Restart
<1>15. ASSUME Environment PROVE AcceptanceOK'
  BY <1>1, <1>14, <1>15 DEF Environment, SetPolicy, SetTrust, Stop, Advance
<1>16. ASSUME UNCHANGED vars PROVE AcceptanceOK'
  BY <1>1, <1>16 DEF vars
<1>17. QED
  BY ONLY <1>2, <1>12, <1>13, <1>15, <1>16, [Next]_vars DEF Next

\* A peer is told "accepted" only for the route of a signed capability that the
\* operation consumed and that names the peer of the incoming link as its source.
THEOREM AcceptancesMatch == Spec => []AcceptedMatchesCapability
<1>1. Init => AcceptanceInv
  BY TypeInvInit
     DEF AcceptanceInv, AcceptanceOK, WithRequest, Admitted, CapabilityChecked, Consumed, Tunnelled, SlotPhases, Init
<1>2. AcceptanceInv /\ [Next]_vars => AcceptanceInv'
  BY TypeInvStep, AcceptanceStep DEF AcceptanceInv
<1>3. AcceptanceInv => AcceptedMatchesCapability
  BY DEF AcceptanceInv, AcceptanceOK, Accepted, LinkChecked, AuthChecked, AcceptedMatchesCapability
<1>4. QED
  BY <1>1, <1>2, <1>3, PTL DEF Spec

----------------------------------------------------------------------------
(* The replay file.                                                        *)

\* The next process can open the replay file: no call writes more than
\* OpenFileRouteAuthorizationReplay reads.
THEOREM ReplayFileReopens == Spec => []StoreReopens
<1>1. Init => StoreReopens
  BY FS_EmptySet, RouteReplayAssumption DEF Init, ReplayInit, StoreReopens, Fits
<1>2. StoreReopens /\ [Next]_vars => StoreReopens'
  <2> SUFFICES ASSUME StoreReopens, [Next]_vars PROVE StoreReopens'
    OBVIOUS
  <2>1. ASSUME disk' = disk PROVE StoreReopens'
    BY <2>1 DEF StoreReopens, Fits
  <2>2. ASSUME NEW o \in Ops, Consume(o) PROVE StoreReopens'
    <3>1. CASE Fits(NextUsed(request[o].auth.jti)) /\ disk' = NextUsed(request[o].auth.jti)
      BY <3>1 DEF StoreReopens, Fits
    <3>2. QED
      BY <2>1, <2>2, <3>1 DEF Consume, ConsumeCommitted, ConsumeReplayed, ConsumeNotSaved, ConsumeHalfSaved
  <2>3. ASSUME NEW o \in Ops, Step(o) PROVE StoreReopens'
    BY <2>1, <2>2, <2>3
       DEF Step, ReadRequest, ReadMalformed, ReadInterrupted, Prepare, Acquire, LocalAuthorize, Verify, Dial, Accept,
           AcceptFails, Collect, ContextCloses, Finish, Reject, replayVars
  <2>4. ASSUME NEW o \in Ops, \/ \E s \in Sources, t \in Transports : Open(o, s, t)
                              \/ \E d \in Directions : CopyEnds(o, d)
                              \/ ContextEnds(o)
        PROVE  StoreReopens'
    BY <2>1, <2>4 DEF Open, CopyEnds, ContextEnds, replayVars
  <2>5. ASSUME Environment PROVE StoreReopens'
    BY <2>1, <2>5 DEF Environment, SetPolicy, SetTrust, Stop, Restart, Reopen, Advance, replayVars
  <2>6. ASSUME UNCHANGED vars PROVE StoreReopens'
    BY <2>1, <2>6 DEF vars, replayVars
  <2>7. QED
    BY <2>3, <2>4, <2>5, <2>6 DEF Next
<1>3. QED
  BY <1>1, <1>2, PTL DEF Spec

----------------------------------------------------------------------------
(* Route.Cost: the loop's total is the sum, cut off at MaxCost.            *)

\* The functions are what their recursive definitions say.
LEMMA TotalsDef ==
    ASSUME NEW hops, Len(hops) \in Nat
    PROVE  Totals(hops) = [i \in 0..Len(hops) |->
                             IF i = 0 THEN 0 ELSE AddCost(Totals(hops)[i - 1], hops[i].cost)]
<1> DEFINE Solves(f, n) == f = [i \in 0..n |-> IF i = 0 THEN 0 ELSE AddCost(f[i - 1], hops[i].cost)]
           S == {n \in 0..Len(hops) : \E f : Solves(f, n)}
<1>1. 0 \in S
  <2>1. Solves([i \in 0..0 |-> 0], 0)
    OBVIOUS
  <2> HIDE DEF Solves
  <2>2. QED
    BY <2>1
<1>2. ASSUME NEW n \in 1..Len(hops), n - 1 \in S PROVE n \in S
  <2>1. PICK f : Solves(f, n - 1)
    BY <1>2
  <2> DEFINE g == [i \in 0..n |-> IF i = n THEN AddCost(f[n - 1], hops[n].cost) ELSE f[i]]
  <2>2. \A i \in 0..(n - 1) : f[i] = IF i = 0 THEN 0 ELSE AddCost(f[i - 1], hops[i].cost)
    BY <2>1
  <2>3. \A i \in 0..n : g[i] = IF i = 0 THEN 0 ELSE AddCost(g[i - 1], hops[i].cost)
    BY <2>2
  <2>4. Solves(g, n)
    BY <2>3
  <2> HIDE DEF Solves, g
  <2>5. QED
    BY <2>4
<1>3. Len(hops) \in S
  <2> HIDE DEF S
  <2>1. 0..Len(hops) \subseteq S
    BY <1>1, <1>2, LoopInduction
  <2>2. QED
    BY <2>1
<1>4. \E f : Solves(f, Len(hops))
  BY <1>3
<1>5. QED
  BY <1>4 DEF Totals

\* As TotalsDef, for the mathematical sums.
LEMMA SumsDef ==
    ASSUME NEW hops, Len(hops) \in Nat
    PROVE  Sums(hops) = [i \in 0..Len(hops) |->
                             IF i = 0 THEN 0 ELSE Sums(hops)[i - 1] + hops[i].cost]
<1> DEFINE Solves(f, n) == f = [i \in 0..n |-> IF i = 0 THEN 0 ELSE f[i - 1] + hops[i].cost]
           S == {n \in 0..Len(hops) : \E f : Solves(f, n)}
<1>1. 0 \in S
  <2>1. Solves([i \in 0..0 |-> 0], 0)
    OBVIOUS
  <2> HIDE DEF Solves
  <2>2. QED
    BY <2>1
<1>2. ASSUME NEW n \in 1..Len(hops), n - 1 \in S PROVE n \in S
  <2>1. PICK f : Solves(f, n - 1)
    BY <1>2
  <2> DEFINE g == [i \in 0..n |-> IF i = n THEN f[n - 1] + hops[n].cost ELSE f[i]]
  <2>2. \A i \in 0..(n - 1) : f[i] = IF i = 0 THEN 0 ELSE f[i - 1] + hops[i].cost
    BY <2>1
  <2>3. \A i \in 0..n : g[i] = IF i = 0 THEN 0 ELSE g[i - 1] + hops[i].cost
    BY <2>2
  <2>4. Solves(g, n)
    BY <2>3
  <2> HIDE DEF Solves, g
  <2>5. QED
    BY <2>4
<1>3. Len(hops) \in S
  <2> HIDE DEF S
  <2>1. 0..Len(hops) \subseteq S
    BY <1>1, <1>2, LoopInduction
  <2>2. QED
    BY <2>1
<1>4. \E f : Solves(f, Len(hops))
  BY <1>3
<1>5. QED
  BY <1>4 DEF Sums
\* A uint64 sum of two costs that does not fit is smaller than both.
LEMMA AddCostSaturates ==
    ASSUME NEW total \in 0..MaxCost, NEW cost \in 0..MaxCost
    PROVE  AddCost(total, cost) = IF total + cost > MaxCost THEN MaxCost ELSE total + cost
<1>1. MaxCost \in Nat
  BY MeshRouteAssumption
<1> DEFINE m == MaxCost + 1
           x == total + cost
<1>2. CASE x < m
  <2>1. x % m = x
    BY <1>1, <1>2
  <2>2. QED
    BY <1>1, <1>2, <2>1 DEF AddCost
<1>3. CASE x >= m
  <2>1. x % m = x - m
    BY <1>1, <1>3
  <2>2. QED
    BY <1>1, <1>3, <2>1 DEF AddCost
<1>4. QED
  BY <1>1, <1>2, <1>3

\* Cost is TrueCost: saturation at each hop adds up to saturation of the sum.
LEMMA CostIsTrueCost ==
    ASSUME NEW r \in Routes
    PROVE  Cost(r) = TrueCost(r) /\ Cost(r) \in Nat
<1> DEFINE h == r.hops
           S == {i \in 0..Len(h) : /\ Sums(h)[i] \in Nat
                                   /\ Totals(h)[i] = IF Sums(h)[i] > MaxCost THEN MaxCost ELSE Sums(h)[i]}
<1>1. MaxCost \in Nat /\ Len(h) \in Nat /\ \A i \in 1..Len(h) : h[i].cost \in 0..MaxCost
  BY MeshRouteAssumption, RoutePlannerAssumption
<1>2. /\ Totals(h)[0] = 0 /\ Sums(h)[0] = 0
      /\ \A i \in 1..Len(h) : /\ Totals(h)[i] = AddCost(Totals(h)[i - 1], h[i].cost)
                              /\ Sums(h)[i] = Sums(h)[i - 1] + h[i].cost
  <2> HIDE DEF h
  <2>1. 0 \in 0..Len(h) /\ \A i \in 1..Len(h) : i \in 0..Len(h) /\ i # 0
    BY <1>1
  <2>2. \A i \in 0..Len(h) : Totals(h)[i] = IF i = 0 THEN 0 ELSE AddCost(Totals(h)[i - 1], h[i].cost)
    BY <1>1, TotalsDef, Zenon
  <2>3. \A i \in 0..Len(h) : Sums(h)[i] = IF i = 0 THEN 0 ELSE Sums(h)[i - 1] + h[i].cost
    BY <1>1, SumsDef, Zenon
  <2>4. QED
    BY <2>1, <2>2, <2>3
<1> HIDE DEF h
<1>3. 0 \in S
  BY <1>1, <1>2
<1>4. ASSUME NEW i \in 1..Len(h), i - 1 \in S PROVE i \in S
  <2>1. /\ Sums(h)[i - 1] \in Nat
        /\ Totals(h)[i - 1] = IF Sums(h)[i - 1] > MaxCost THEN MaxCost ELSE Sums(h)[i - 1]
    BY <1>4
  <2>2. Totals(h)[i - 1] \in 0..MaxCost /\ h[i].cost \in 0..MaxCost
    BY <1>1, <2>1
  <2>3. Totals(h)[i] = IF Totals(h)[i - 1] + h[i].cost > MaxCost THEN MaxCost ELSE Totals(h)[i - 1] + h[i].cost
    BY <1>2, <2>2, AddCostSaturates
  <2>4. Sums(h)[i] = Sums(h)[i - 1] + h[i].cost
    BY <1>2
  <2>5. QED
    BY <1>1, <2>1, <2>2, <2>3, <2>4
<1>5. Len(h) \in S
  <2> HIDE DEF S
  <2>1. 0..Len(h) \subseteq S
    BY <1>1, <1>3, <1>4, LoopInduction
  <2>2. QED
    BY <1>1, <2>1
<1>6. QED
  BY <1>1, <1>5 DEF Cost, TrueCost, h

----------------------------------------------------------------------------
(* Route.Validate accepts the usable routes.                               *)

\* The parts of the assumptions about a route.
LEMMA RouteFacts == \A r \in Routes : r.expires \in Nat /\ Len(r.hops) \in Nat
BY RoutePlannerAssumption

\* The devices of a path are where its hops end, after where the first starts.
LEMMA PathFacts ==
    ASSUME NEW c, Len(c.hops) \in Nat \ {0}
    PROVE  /\ Len(Path(c)) = Len(c.hops) + 1 /\ DOMAIN Path(c) = 1..(Len(c.hops) + 1)
           /\ Path(c)[1] = c.hops[1].from
           /\ \A i \in 1..Len(c.hops) : Path(c)[i + 1] = c.hops[i].to
           /\ Head(Path(c)) = c.hops[1].from /\ Last(Path(c)) = c.hops[Len(c.hops)].to
<1> DEFINE n == Len(c.hops)
           ends == [i \in 1..n |-> c.hops[i].to]
           D == {c.hops[1].from} \cup {c.hops[i].to : i \in 1..n}
<1>1. ends \in Seq(D) /\ Len(ends) = n
  BY IsASeq
<1>2. <<c.hops[1].from>> \in Seq(D) /\ Len(<<c.hops[1].from>>) = 1
  OBVIOUS
<1>3. Path(c) = <<c.hops[1].from>> \o ends
  BY DEF Path
<1> HIDE DEF D
<1>4. /\ Path(c) \in Seq(D)
      /\ Len(Path(c)) = n + 1
      /\ \A i \in 1..(n + 1) : Path(c)[i] = IF i <= 1 THEN <<c.hops[1].from>>[i] ELSE ends[i - 1]
  BY <1>1, <1>2, <1>3, ConcatProperties
<1>5. DOMAIN Path(c) = 1..(n + 1)
  BY <1>4, LenProperties
<1>6. Path(c)[1] = c.hops[1].from /\ \A i \in 1..n : Path(c)[i + 1] = c.hops[i].to
  <2>1. Path(c)[1] = c.hops[1].from
    <3>1. 1 \in 1..(n + 1) /\ 1 <= 1
      OBVIOUS
    <3>2. Path(c)[1] = <<c.hops[1].from>>[1]
      BY <1>4, <3>1, Zenon
    <3>3. QED
      BY <3>2
  <2>2. ASSUME NEW i \in 1..n PROVE Path(c)[i + 1] = c.hops[i].to
    <3>1. i + 1 \in 1..(n + 1) /\ ~(i + 1 <= 1) /\ (i + 1) - 1 = i
      OBVIOUS
    <3>2. Path(c)[i + 1] = ends[i]
      BY <1>4, <3>1
    <3>3. QED
      BY <3>2
  <2>3. QED
    BY <2>1, <2>2
<1>7. Head(Path(c)) = Path(c)[1]
  BY <1>4
<1>8. QED
  BY <1>4, <1>5, <1>6, <1>7 DEF Last

\* A loop-free path: Validate's visited devices say that the path is injective.
LEMMA EligibleIsUsable ==
    ASSUME NEW c \in Routes, WellFormed, planned.now \in Nat
    PROVE  Eligible(c) <=> Usable(c)
<1> DEFINE n == Len(c.hops)
<1>0. c.expires \in Nat /\ n \in Nat /\ MaxRouteHops \in Nat
  BY RouteFacts, MeshRouteAssumption
<1>1. CASE n = 0
  BY <1>0, <1>1 DEF Eligible, Validate, Usable
<1>2. CASE n # 0
  <2> DEFINE p == Path(c)
  <2>1. /\ DOMAIN p = 1..(n + 1) /\ p[1] = c.hops[1].from
        /\ \A i \in 1..n : p[i + 1] = c.hops[i].to
        /\ Head(p) = p[1] /\ Last(p) = p[n + 1]
    <3>1. n \in Nat \ {0}
      BY <1>0, <1>2
    <3>2. /\ DOMAIN p = 1..(n + 1) /\ p[1] = c.hops[1].from
          /\ \A i \in 1..n : p[i + 1] = c.hops[i].to
          /\ Head(p) = c.hops[1].from /\ Last(p) = c.hops[n].to
      BY <3>1, PathFacts, Zenon
    <3>3. n \in 1..n
      BY <3>1
    <3> HIDE DEF p
    <3>4. QED
      BY <3>2, <3>3
  <2> HIDE DEF p
  <2>2. \A i \in 2..(n + 1) : i - 1 \in 1..n /\ p[i] = c.hops[i - 1].to
    <3> SUFFICES ASSUME NEW i \in 2..(n + 1) PROVE i - 1 \in 1..n /\ p[i] = c.hops[i - 1].to
      OBVIOUS
    <3>1. i - 1 \in 1..n /\ (i - 1) + 1 = i
      BY <1>0
    <3>2. QED
      BY <2>1, <3>1
  <2>3. Fresh(c, planned.now) <=> c.expires > planned.now
    BY <1>0 DEF Fresh
  <2>4. ASSUME Eligible(c) PROVE Usable(c)
    <3> USE DEF Eligible, Validate
    <3>1. \A i \in 1..n : c.hops[i].from = p[i]
      <4> SUFFICES ASSUME NEW i \in 1..n PROVE c.hops[i].from = p[i]
        OBVIOUS
      <4>1. CASE i = 1
        BY <2>1, <4>1
      <4>2. CASE i # 1
        BY <1>0, <2>2, <2>4, <4>2 DEF HopOK, HopStart
      <4>3. QED
        BY <4>1, <4>2
    <3>2. p[1] = c.source
      BY <1>0, <1>2, <2>1, <2>4 DEF HopOK, HopStart
    <3>3. ASSUME NEW i \in 1..n PROVE \A j \in 1..i : p[j] # p[i + 1]
      <4>1. c.hops[i].to \notin Visited(c, i)
        BY <2>4 DEF HopOK
      <4>2. \A j \in 2..i : j - 1 \in 1..(i - 1) /\ p[j] = c.hops[j - 1].to
        BY <1>0, <2>2
      <4>3. \A j \in 1..i : p[j] \in Visited(c, i)
        BY <1>0, <3>2, <4>2 DEF Visited
      <4>4. QED
        BY <2>1, <4>1, <4>3
    <3>4. \A j, k \in 1..(n + 1) : j < k => p[j] # p[k]
      <4> SUFFICES ASSUME NEW j \in 1..(n + 1), NEW k \in 1..(n + 1), j < k PROVE p[j] # p[k]
        OBVIOUS
      <4>1. k - 1 \in 1..n /\ j \in 1..(k - 1) /\ (k - 1) + 1 = k
        BY <1>0
      <4>2. QED
        BY <3>3, <4>1
    <3>5. IsInjective(p)
      BY <1>0, <2>1, <3>4 DEF IsInjective
    <3>6. \A i \in 1..n : {c.hops[i].from, c.hops[i].to, c.hops[i].transport} \cap {Blank} = {}
      BY <2>4 DEF HopOK
    <3>7. Head(p) = planned.source /\ Last(p) = planned.destination
      BY <1>0, <1>2, <2>1, <2>4, <3>2
    <3>8. QED
      BY <2>3, <2>4, <3>1, <3>5, <3>6, <3>7 DEF Usable, p, Identified
  <2>5. ASSUME Usable(c) PROVE Eligible(c)
    <3>1. /\ c.id # Blank /\ n \in 1..MaxRouteHops /\ c.expires > planned.now
          /\ c.source = planned.source /\ c.destination = planned.destination
          /\ IsInjective(p) /\ p[1] = planned.source /\ p[n + 1] = planned.destination
          /\ \A i \in 1..n : /\ c.hops[i].from = p[i]
                             /\ c.hops[i].from # Blank /\ c.hops[i].to # Blank /\ c.hops[i].transport # Blank
      BY <2>1, <2>5 DEF Usable, p
    <3>2. \A j, k \in 1..(n + 1) : p[j] = p[k] => j = k
      BY <2>1, <3>1 DEF IsInjective
    <3>3. Identified(c)
      BY <1>0, <1>2, <3>1, <3>2 DEF Identified, WellFormed
    <3>4. ASSUME NEW i \in 1..n PROVE HopOK(c, i)
      <4>1. i \in 1..(n + 1) /\ i + 1 \in 1..(n + 1) /\ i # i + 1 /\ p[i + 1] = c.hops[i].to
        BY <1>0, <2>1
      <4>2. c.hops[i].from # c.hops[i].to
        BY <3>1, <3>2, <4>1
      <4>3. c.hops[i].from = HopStart(c, i)
        <5>1. CASE i = 1
          BY <3>1, <5>1 DEF HopStart
        <5>2. CASE i # 1
          BY <1>0, <2>2, <3>1, <5>2 DEF HopStart
        <5>3. QED
          BY <5>1, <5>2
      <4>4. c.hops[i].to # c.source
        BY <1>0, <3>1, <3>2, <4>1
      <4>5. \A j \in 1..(i - 1) : c.hops[j].to # c.hops[i].to
        <5> SUFFICES ASSUME NEW j \in 1..(i - 1) PROVE c.hops[j].to # c.hops[i].to
          OBVIOUS
        <5>1. j \in 1..n /\ j + 1 \in 1..(n + 1) /\ j + 1 # i + 1
          BY <1>0
        <5>2. p[j + 1] = c.hops[j].to
          BY <2>1, <5>1
        <5>3. QED
          BY <3>2, <4>1, <5>1, <5>2
      <4>6. QED
        BY <3>1, <4>2, <4>3, <4>4, <4>5 DEF HopOK, Visited
    <3>5. c.hops[n].to = c.destination
      BY <1>0, <1>2, <2>1, <3>1
    <3>6. QED
      BY <2>3, <3>1, <3>3, <3>4, <3>5 DEF Eligible, Validate
  <2>6. QED
    BY <2>4, <2>5
<1>3. QED
  BY <1>1, <1>2

----------------------------------------------------------------------------
(* Plan's single pass.                                                     *)

PlanTypes ==
    /\ planned.now \in Nat /\ Len(planned.candidates) \in Nat
    /\ \A i \in 1..Len(planned.candidates) : planned.candidates[i] \in Routes
    /\ position \in 1..(Len(planned.candidates) + 1) /\ best \in 0..(position - 1)
    /\ result \in {"planning", "route", "no_route", "error", "cancelled"}

\* The usable candidates among those examined.
Examined == {i \in 1..(position - 1) : Usable(planned.candidates[i])}

\* best is the first of them in the documented order.
BestSoFar ==
    /\ position > 1 => WellFormed
    /\ best = 0 => Examined = {}
    /\ best # 0 => best \in Examined /\ \A i \in Examined \ {best} : Precedes(best, i)

Answered ==
    result \in {"route", "no_route"} =>
        position = Len(planned.candidates) + 1 /\ (best = 0 <=> result = "no_route")

PlanInv == PlanTypes /\ BestSoFar /\ Answered

\* A list of candidates is a sequence.
LEMMA PlanInvInit == PlanInit => PlanInv
<1> SUFFICES ASSUME PlanInit PROVE PlanInv
  OBVIOUS
<1>1. PICK n \in 0..MaxCandidates : planned.candidates \in [1..n -> Routes]
  BY DEF PlanInit, PlanRequests
<1>2. n \in Nat /\ Times \subseteq Nat
  BY RoutePlannerAssumption
<1>3. Len(planned.candidates) = n
  <2>1. planned.candidates \in Seq(Routes) /\ DOMAIN planned.candidates = 1..n
    BY <1>1, <1>2
  <2>2. QED
    BY <1>2, <2>1, LenProperties
<1>4. planned.now \in Nat
  BY <1>2 DEF PlanInit, PlanRequests
<1>5. PlanTypes
  BY <1>1, <1>2, <1>3, <1>4 DEF PlanInit, PlanTypes
<1>6. Examined = {}
  BY DEF PlanInit, Examined
<1>7. QED
  BY <1>5, <1>6 DEF PlanInit, PlanInv, BestSoFar, Answered

\* What the order needs of a candidate.
LEMMA CandidateRank ==
    ASSUME PlanTypes, NEW i \in 1..Len(planned.candidates)
    PROVE  /\ TrueCost(planned.candidates[i]) \in Nat /\ Len(planned.candidates[i].hops) \in Nat
           /\ Cost(planned.candidates[i]) = TrueCost(planned.candidates[i])
BY CostIsTrueCost, RouteFacts DEF PlanTypes

\* The order of costs and hop counts is transitive.
LEMMA LexicographicTransitive ==
    ASSUME NEW a \in Nat, NEW b \in Nat, NEW c \in Nat, NEW k \in Nat, NEW l \in Nat, NEW m \in Nat,
           a < b \/ (a = b /\ k < l), b < c \/ (b = c /\ l <= m)
    PROVE  a < c \/ (a = c /\ k < m)
OBVIOUS

\* One round of the loop.
LEMMA ConsiderStep == PlanInv /\ Consider => PlanInv'
<1> SUFFICES ASSUME PlanInv, Consider PROVE PlanInv'
  OBVIOUS
<1> DEFINE at(i) == planned.candidates[i]
           c == planned.candidates[position]
<1>1. /\ UNCHANGED <<planned, result>> /\ position' = position + 1
      /\ best' = IF Eligible(c) /\ Improves(c) THEN position ELSE best
      /\ WellFormed /\ result = "planning" /\ position \in 1..Len(planned.candidates)
      /\ planned.now \in Nat /\ c \in Routes
  BY DEF PlanInv, PlanTypes, Consider
<1>2. PlanTypes'
  BY <1>1 DEF PlanInv, PlanTypes
<1>3. Eligible(c) <=> Usable(c)
  BY <1>1, EligibleIsUsable
<1>4. WellFormed'
  BY <1>1 DEF WellFormed
<1>5. Examined' = Examined \cup (IF Usable(c) THEN {position} ELSE {})
  <2>1. \A i : Usable(at(i))' <=> Usable(at(i))
    BY <1>1 DEF Usable, Path
  <2>2. QED
    BY <1>1, <2>1 DEF Examined
<1>6. \A i, j : Precedes(i, j)' <=> Precedes(i, j)
  BY <1>1 DEF Precedes
<1>7. /\ TrueCost(c) \in Nat /\ Len(c.hops) \in Nat /\ Cost(c) = TrueCost(c)
  BY <1>1, CandidateRank DEF PlanInv
<1>8. \A i \in Examined : /\ i \in Nat /\ i < position
                          /\ TrueCost(at(i)) \in Nat /\ Len(at(i).hops) \in Nat /\ Cost(at(i)) = TrueCost(at(i))
  <2> SUFFICES ASSUME NEW i \in Examined
               PROVE  /\ i \in 1..Len(planned.candidates) /\ i < position
                      /\ TrueCost(at(i)) \in Nat /\ Len(at(i).hops) \in Nat /\ Cost(at(i)) = TrueCost(at(i))
    OBVIOUS
  <2>1. i \in 1..Len(planned.candidates) /\ i < position
    BY <1>1 DEF Examined, PlanInv, PlanTypes
  <2>2. QED
    BY <2>1, CandidateRank DEF PlanInv
<1> DEFINE Beats(i, j) ==
              \/ TrueCost(at(i)) < TrueCost(at(j))
              \/ /\ TrueCost(at(i)) = TrueCost(at(j))
                 /\ Len(at(i).hops) < Len(at(j).hops) \/ (Len(at(i).hops) = Len(at(j).hops) /\ i < j)
<1>9. \A i, j : Precedes(i, j) <=> Beats(i, j)
  BY DEF Precedes
<1>10. Improves(c) <=> best = 0 \/ TrueCost(c) < TrueCost(at(best))
                        \/ (TrueCost(c) = TrueCost(at(best)) /\ Len(c.hops) < Len(at(best).hops))
  <2>1. CASE best = 0
    BY <2>1 DEF Improves
  <2>2. CASE best # 0
    <3>1. Cost(at(best)) = TrueCost(at(best))
      BY <1>8, <2>2 DEF PlanInv, BestSoFar
    <3>2. QED
      BY <1>7, <2>2, <3>1 DEF Improves
  <2>3. QED
    BY <2>1, <2>2
<1>11. BestSoFar'
  <2>1. CASE Eligible(c) /\ Improves(c)
    <3>1. best' = position /\ position \in Examined' /\ position # 0
      BY <1>1, <1>3, <1>5, <2>1
    <3>2. ASSUME NEW i \in Examined PROVE Beats(position, i)
      <4>1. best # 0 /\ best \in Examined
        BY <3>2 DEF PlanInv, BestSoFar
      <4>2. i = best \/ Beats(best, i)
        BY <1>9, <3>2, <4>1 DEF PlanInv, BestSoFar
      <4>3. TrueCost(c) < TrueCost(at(best)) \/ (TrueCost(c) = TrueCost(at(best)) /\ Len(c.hops) < Len(at(best).hops))
        BY <1>10, <2>1, <4>1
      <4>4. TrueCost(at(best)) < TrueCost(at(i))
              \/ (TrueCost(at(best)) = TrueCost(at(i)) /\ Len(at(best).hops) <= Len(at(i).hops))
        BY <1>8, <3>2, <4>1, <4>2
      <4>5. TrueCost(c) < TrueCost(at(i)) \/ (TrueCost(c) = TrueCost(at(i)) /\ Len(c.hops) < Len(at(i).hops))
        <5>1. /\ TrueCost(c) \in Nat /\ TrueCost(at(best)) \in Nat /\ TrueCost(at(i)) \in Nat
              /\ Len(c.hops) \in Nat /\ Len(at(best).hops) \in Nat /\ Len(at(i).hops) \in Nat
          BY <1>7, <1>8, <3>2, <4>1
        <5>2. PICK ca \in Nat, cb \in Nat, ci \in Nat, ha \in Nat, hb \in Nat, hi \in Nat :
                 /\ ca = TrueCost(c) /\ cb = TrueCost(at(best)) /\ ci = TrueCost(at(i))
                 /\ ha = Len(c.hops) /\ hb = Len(at(best).hops) /\ hi = Len(at(i).hops)
          BY ONLY <5>1
        <5>3. ca < cb \/ (ca = cb /\ ha < hb)
          BY ONLY <4>3, <5>2
        <5>4. cb < ci \/ (cb = ci /\ hb <= hi)
          BY ONLY <4>4, <5>2
        <5>5. ca < ci \/ (ca = ci /\ ha < hi)
          BY ONLY <5>3, <5>4, LexicographicTransitive
        <5>6. QED
          BY ONLY <5>2, <5>5
      <4>6. QED
        BY <4>5
    <3>3. \A i \in Examined' \ {position} : Precedes(position, i)
      BY <1>5, <1>9, <3>2
    <3>4. QED
      BY <1>4, <1>6, <3>1, <3>3 DEF BestSoFar
  <2>2. CASE ~Eligible(c)
    BY <1>1, <1>3, <1>4, <1>5, <1>6, <2>2 DEF PlanInv, BestSoFar
  <2>3. CASE Eligible(c) /\ ~Improves(c)
    <3>1. best # 0 /\ best' = best /\ best \in Examined /\ best < position
      BY <1>1, <1>8, <1>10, <2>3 DEF PlanInv, BestSoFar
    <3>2. Beats(best, position)
      BY <1>1, <1>7, <1>8, <1>10, <2>3, <3>1
    <3>3. \A i \in Examined' \ {best} : Precedes(best, i)
      BY <1>5, <1>9, <3>1, <3>2 DEF PlanInv, BestSoFar
    <3>4. QED
      BY <1>4, <1>5, <1>6, <3>1, <3>3 DEF BestSoFar
  <2>4. QED
    BY <2>1, <2>2, <2>3
<1>12. Answered'
  BY <1>1 DEF Answered
<1>13. QED
  BY <1>2, <1>11, <1>12 DEF PlanInv

\* Each action keeps the invariant.
LEMMA PlanInvStep == PlanInv /\ [PlanNext]_planVars => PlanInv'
<1> SUFFICES ASSUME PlanInv, [PlanNext]_planVars PROVE PlanInv'
  OBVIOUS
<1>1. CASE Consider
  BY <1>1, ConsiderStep
<1>2. CASE RejectRequest \/ Cancelled \/ Return \/ UNCHANGED planVars
  <2>1. /\ UNCHANGED <<planned, position, best>>
        /\ result' \in {result, "error", "cancelled"} \/ Return
    BY <1>2 DEF RejectRequest, Cancelled, Return, planVars
  <2>2. PlanTypes'
    BY <2>1 DEF PlanInv, PlanTypes, Return
  <2>3. BestSoFar'
    <3>1. /\ WellFormed' = WellFormed /\ Examined' = Examined
          /\ \A i, j : Precedes(i, j)' <=> Precedes(i, j)
      BY <2>1 DEF WellFormed, Examined, Usable, Path, Precedes
    <3>2. QED
      BY <2>1, <3>1 DEF PlanInv, BestSoFar
  <2>4. Answered'
    BY <2>1 DEF PlanInv, PlanTypes, Answered, Return
  <2>5. QED
    BY <2>2, <2>3, <2>4 DEF PlanInv
<1>3. QED
  BY <1>1, <1>2 DEF PlanNext

\* Plan answers with the first usable candidate in the documented order, and
\* with none only when there is none: its single pass, Validate's loop and
\* Cost's wraparound test add up to that, for costs of any width.
THEOREM PlanCorrect == PlanSpec => []PlanIsLowestCost
<1>1. PlanInv => PlanIsLowestCost
  <2> SUFFICES ASSUME PlanInv, result \in {"route", "no_route"} PROVE PlanIsLowestCost
    BY DEF PlanIsLowestCost
  <2>1. Examined = {i \in 1..Len(planned.candidates) : Usable(planned.candidates[i])}
    BY DEF PlanInv, PlanTypes, Answered, Examined
  <2>2. QED
    BY <2>1 DEF PlanInv, BestSoFar, Answered, PlanIsLowestCost
<1>2. QED
  BY <1>1, PlanInvInit, PlanInvStep, PTL DEF PlanSpec

----------------------------------------------------------------------------
(* MCRoutes.                                                               *)

\* The run of the two is a run of the forwarder and a run of the planner: what is proved of
\* either holds there.
THEOREM RoutesImplementParts == RoutesSpec => Spec /\ PlanSpec
<1>1. RoutesInit => Init /\ PlanInit
  BY DEF RoutesInit
<1>2. [RoutesNext]_<<focus, vars, planVars>> => [Next]_vars /\ [PlanNext]_planVars
  BY DEF RoutesNext
<1>3. QED
  BY <1>1, <1>2, PTL DEF RoutesSpec, Spec, PlanSpec

=============================================================================
