---------------------------- MODULE RemoteProofs ----------------------------
(***************************************************************************)
(* Proofs about RelayBroker and TerminalSession, for any number of agents, *)
(* clients, devices and slots, any amount of output and input and any room *)
(* on the wires; and that MCRemote, which runs the components of a remote  *)
(* session, implements each of them, so that what is proved of a component *)
(* holds in that run.                                                      *)
(***************************************************************************)
EXTENDS MCRemote, AccountSessionProofs, CoreProofs, FileTransferProofs, LoopProofs,
        FiniteSetTheorems, SequenceTheorems, TLAPS

-----------------------------------------------------------------------------
(* The relay.                                                              *)

-----------------------------------------------------------------------------
(* Queues of slots.                                                         *)

\* The elements of a sequence, and whether they are all different.
LEMMA ElementsOf ==
    ASSUME NEW S, NEW w \in Seq(S)
    PROVE  /\ ToSet(w) = {w[i] : i \in 1..Len(w)} /\ ToSet(w) \subseteq S
           /\ IsInjective(w) <=> \A i, j \in 1..Len(w) : w[i] = w[j] => i = j
<1>1. DOMAIN w = 1..Len(w) /\ \A i \in 1..Len(w) : w[i] \in S
  BY LenProperties, ElementOfSeq
<1>2. QED
  BY <1>1 DEF ToSet, IsInjective

\* A new element goes to the end.
LEMMA AppendElement ==
    ASSUME NEW S, NEW w \in Seq(S), NEW x \in S
    PROVE  /\ Append(w, x) \in Seq(S) /\ Len(Append(w, x)) = Len(w) + 1
           /\ ToSet(Append(w, x)) = ToSet(w) \cup {x}
           /\ IsInjective(w) /\ x \notin ToSet(w) => IsInjective(Append(w, x))
<1> DEFINE v == Append(w, x)
<1>1. /\ v \in Seq(S) /\ Len(v) = Len(w) + 1 /\ Len(w) \in Nat
      /\ v[Len(w) + 1] = x /\ \A i \in 1..Len(w) : v[i] = w[i]
  BY AppendProperties
<1>2. \A i \in 1..Len(v) : i \in 1..Len(w) \/ i = Len(w) + 1
  BY <1>1
<1>3. \A i \in 1..Len(w) : i \in 1..Len(v)
  BY <1>1
<1>4. Len(w) + 1 \in 1..Len(v)
  BY <1>1
<1> HIDE DEF v
<1>5. ToSet(w) = {w[i] : i \in 1..Len(w)} /\ ToSet(v) = {v[i] : i \in 1..Len(v)}
  BY <1>1, ElementsOf
<1>6. ToSet(v) = ToSet(w) \cup {x}
  BY <1>1, <1>2, <1>3, <1>4, <1>5
<1>7. ASSUME IsInjective(w), x \notin ToSet(w) PROVE IsInjective(v)
  <2>1. \A i, j \in 1..Len(w) : w[i] = w[j] => i = j
    BY <1>7, ElementsOf
  <2>2. \A i, j \in 1..Len(v) : v[i] = v[j] => i = j
    BY <1>1, <1>2, <1>5, <1>7, <2>1
  <2>3. QED
    BY <1>1, <2>2, ElementsOf
<1>8. QED
  BY <1>1, <1>6, <1>7 DEF v

\* The oldest element is taken.
LEMMA TailElements ==
    ASSUME NEW S, NEW w \in Seq(S), w # <<>>, IsInjective(w)
    PROVE  /\ Tail(w) \in Seq(S) /\ Len(Tail(w)) = Len(w) - 1 /\ IsInjective(Tail(w))
           /\ Head(w) \in ToSet(w) /\ ToSet(Tail(w)) = ToSet(w) \ {Head(w)}
<1> DEFINE v == Tail(w)
<1>1. /\ v \in Seq(S) /\ Len(v) = Len(w) - 1 /\ Len(w) \in Nat /\ Len(w) > 0 /\ Head(w) = w[1]
      /\ \A i \in 1..Len(v) : v[i] = w[i + 1]
  OBVIOUS
<1>2. \A i \in 1..Len(v) : i + 1 \in 1..Len(w) /\ i + 1 # 1
  BY <1>1
<1>3. \A i \in 1..Len(w) : i # 1 => i - 1 \in 1..Len(v) /\ v[i - 1] = w[i]
  BY <1>1
<1>4. 1 \in 1..Len(w)
  BY <1>1
<1> HIDE DEF v
<1>5. ToSet(w) = {w[i] : i \in 1..Len(w)} /\ ToSet(v) = {v[i] : i \in 1..Len(v)}
  BY <1>1, ElementsOf
<1>6. \A i, j \in 1..Len(w) : w[i] = w[j] => i = j
  BY ElementsOf
<1>7. IsInjective(v)
  <2>1. \A i, j \in 1..Len(v) : v[i] = v[j] => i = j
    <3> SUFFICES ASSUME NEW i \in 1..Len(v), NEW j \in 1..Len(v), v[i] = v[j] PROVE i = j
      OBVIOUS
    <3>1. i + 1 = j + 1
      BY <1>1, <1>2, <1>6
    <3>2. QED
      BY <1>1, <3>1
  <2>2. QED
    BY <1>1, <2>1, ElementsOf
<1>8. ToSet(v) \subseteq ToSet(w) \ {Head(w)}
  BY <1>1, <1>2, <1>4, <1>5, <1>6
<1>9. ToSet(w) \ {Head(w)} \subseteq ToSet(v)
  BY <1>1, <1>3, <1>5
<1>10. QED
  BY <1>1, <1>4, <1>5, <1>7, <1>8, <1>9 DEF v

\* What the loop has kept after each round.
Rounds(q, keep) ==
    CHOOSE kept : kept = [i \in 0..Len(q) |->
        IF i = 0 THEN <<>> ELSE IF q[i] \in keep THEN Append(kept[i - 1], q[i]) ELSE kept[i - 1]]

\* The rounds are what their recursive definition says.
LEMMA RoundsDef ==
    ASSUME NEW q, NEW keep, Len(q) \in Nat
    PROVE  /\ Filtered(q, keep) = Rounds(q, keep)[Len(q)]
           /\ Rounds(q, keep) = [i \in 0..Len(q) |->
                IF i = 0 THEN <<>>
                ELSE IF q[i] \in keep THEN Append(Rounds(q, keep)[i - 1], q[i]) ELSE Rounds(q, keep)[i - 1]]
<1> DEFINE Solves(f, n) ==
              f = [i \in 0..n |-> IF i = 0 THEN <<>> ELSE IF q[i] \in keep THEN Append(f[i - 1], q[i]) ELSE f[i - 1]]
           S == {n \in 0..Len(q) : \E f : Solves(f, n)}
<1>1. 0 \in S
  <2>1. Solves([i \in 0..0 |-> <<>>], 0)
    OBVIOUS
  <2> HIDE DEF Solves
  <2>2. QED
    BY <2>1
<1>2. ASSUME NEW n \in 1..Len(q), n - 1 \in S PROVE n \in S
  <2>1. PICK f : Solves(f, n - 1)
    BY <1>2
  <2> DEFINE last == IF q[n] \in keep THEN Append(f[n - 1], q[n]) ELSE f[n - 1]
             g == [i \in 0..n |-> IF i = n THEN last ELSE f[i]]
  <2>2. \A i \in 0..(n - 1) : f[i] = IF i = 0 THEN <<>> ELSE IF q[i] \in keep THEN Append(f[i - 1], q[i]) ELSE f[i - 1]
    BY <2>1
  <2>3. \A i \in 0..n : g[i] = IF i = 0 THEN <<>> ELSE IF q[i] \in keep THEN Append(g[i - 1], q[i]) ELSE g[i - 1]
    BY <2>2
  <2>4. Solves(g, n)
    BY <2>3
  <2> HIDE DEF Solves, g
  <2>5. QED
    BY <2>4
<1>3. Len(q) \in S
  <2> HIDE DEF S
  <2>1. 0..Len(q) \subseteq S
    BY <1>1, <1>2, LoopInduction
  <2>2. QED
    BY <2>1
<1>4. \E f : Solves(f, Len(q))
  BY <1>3
<1>5. QED
  BY <1>4 DEF Rounds, Filtered

\* The loop keeps the elements of keep, each as often as it was there.
LEMMA FilteredFacts ==
    ASSUME NEW S, NEW q \in Seq(S), NEW keep, IsInjective(q)
    PROVE  /\ Filtered(q, keep) \in Seq(S) /\ Len(Filtered(q, keep)) <= Len(q)
           /\ ToSet(Filtered(q, keep)) = ToSet(q) \cap keep /\ IsInjective(Filtered(q, keep))
<1> DEFINE r == Rounds(q, keep)
           T == {i \in 0..Len(q) : /\ r[i] \in Seq(S) /\ Len(r[i]) <= i /\ IsInjective(r[i])
                                   /\ ToSet(r[i]) = {q[j] : j \in 1..i} \cap keep}
<1>1. /\ Len(q) \in Nat /\ (\A i \in 1..Len(q) : q[i] \in S) /\ (\A i, j \in 1..Len(q) : q[i] = q[j] => i = j)
      /\ ToSet(q) = {q[j] : j \in 1..Len(q)}
  BY ElementOfSeq, LenProperties, ElementsOf
<1>2. /\ r[0] = <<>>
      /\ \A i \in 1..Len(q) : r[i] = IF q[i] \in keep THEN Append(r[i - 1], q[i]) ELSE r[i - 1]
  <2>1. 0 \in 0..Len(q) /\ \A i \in 1..Len(q) : i \in 0..Len(q) /\ i # 0
    BY <1>1
  <2>2. \A i \in 0..Len(q) : r[i] = IF i = 0 THEN <<>> ELSE IF q[i] \in keep THEN Append(r[i - 1], q[i]) ELSE r[i - 1]
    <3>1. r = [i \in 0..Len(q) |->
                 IF i = 0 THEN <<>> ELSE IF q[i] \in keep THEN Append(r[i - 1], q[i]) ELSE r[i - 1]]
      BY <1>1, RoundsDef
    <3> HIDE DEF r
    <3>2. QED
      BY <3>1, Zenon
  <2>3. QED
    BY <2>1, <2>2
<1> HIDE DEF r
<1>3. 0 \in T
  <2>1. r[0] \in Seq(S) /\ Len(r[0]) = 0
    BY <1>2
  <2>2. IsInjective(r[0]) /\ ToSet(r[0]) = {}
    <3>1. 1..Len(r[0]) = {}
      BY <2>1
    <3>2. ToSet(r[0]) = {r[0][i] : i \in 1..Len(r[0])}
      BY <2>1, ElementsOf
    <3>3. IsInjective(r[0]) <=> \A i, j \in 1..Len(r[0]) : r[0][i] = r[0][j] => i = j
      BY <2>1, ElementsOf
    <3>4. QED
      BY <3>1, <3>2, <3>3
  <2>3. {q[j] : j \in 1..0} = {}
    OBVIOUS
  <2>4. QED
    BY <1>1, <2>1, <2>2, <2>3
<1>4. ASSUME NEW i \in 1..Len(q), i - 1 \in T PROVE i \in T
  <2>1. /\ r[i - 1] \in Seq(S) /\ Len(r[i - 1]) <= i - 1 /\ IsInjective(r[i - 1])
        /\ ToSet(r[i - 1]) = {q[j] : j \in 1..(i - 1)} \cap keep
    BY <1>4
  <2>2. {q[j] : j \in 1..i} = {q[j] : j \in 1..(i - 1)} \cup {q[i]}
    BY <1>1
  <2>3. q[i] \notin {q[j] : j \in 1..(i - 1)} /\ q[i] \in S /\ i \in 0..Len(q)
    BY <1>1
  <2>4. CASE q[i] \notin keep
    BY <1>1, <1>2, <2>1, <2>2, <2>3, <2>4
  <2>5. CASE q[i] \in keep
    <3>1. r[i] = Append(r[i - 1], q[i])
      BY <1>2, <2>5
    <3>2. /\ r[i] \in Seq(S) /\ Len(r[i]) = Len(r[i - 1]) + 1 /\ Len(r[i - 1]) \in Nat
          /\ ToSet(r[i]) = ToSet(r[i - 1]) \cup {q[i]} /\ IsInjective(r[i])
      BY <2>1, <2>3, <3>1, AppendElement
    <3>3. QED
      BY <2>1, <2>2, <2>3, <2>5, <3>2
  <2>6. QED
    BY <2>4, <2>5
<1>5. Len(q) \in T
  <2> HIDE DEF T
  <2>1. 0..Len(q) \subseteq T
    BY <1>1, <1>3, <1>4, LoopInduction
  <2>2. QED
    BY <1>1, <2>1
<1>6. Filtered(q, keep) = r[Len(q)]
  BY <1>1, RoundsDef DEF r
<1>7. QED
  BY <1>1, <1>5, <1>6

-----------------------------------------------------------------------------
(* The inductive invariant.                                                 *)

\* The parts of the assumption.
LEMMA RelayFacts ==
    /\ MaxSlots \in Nat \ {0} /\ SlotTTL \in Nat /\ HandlerTTL \in Nat
    /\ NoSlot \notin Agents /\ Agents \cap Clients = {}
BY RelayBrokerAssumption

\* A parked slot is usable and parked once.
Queues ==
    \A d \in Devices :
        /\ IsInjective(slots[d])
        /\ \A a \in ToSet(slots[d]) : a \notin closed /\ a \notin finished /\ agent[a] \in {"announcing", "waiting"}
        /\ \A e \in Devices : d # e => ToSet(slots[d]) \cap ToSet(slots[e]) = {}

\* A client has a slot of its own from Take to the end.
HandedOver ==
    /\ SlotExclusive
    /\ \A c \in Clients : client[c] = "new" => slot[c] = NoSlot
    /\ \A c \in Clients : client[c] \in {"tellAgent", "tellClient", "bridging"} => slot[c] \in Agents

\* A connection that has not registered is nobody's.
Untouched ==
    \A a \in Agents : agent[a] = "new" => a \notin closed /\ a \notin finished /\ \A c \in Clients : slot[c] # a

\* Who finishes a slot has closed its connection.
AllClosed == finished \subseteq closed /\ NothingLeftOpen

RelayInv == RelayTypeOK /\ Queues /\ HandedOver /\ Untouched /\ AllClosed

\* Nobody has connected.
LEMMA RelayInvInit == RelayInit => RelayInv
<1> SUFFICES ASSUME RelayInit PROVE RelayInv
  OBVIOUS
<1> USE RelayFacts DEF RelayInit
<1>1. RelayTypeOK
  BY DEF RelayTypeOK, Conns
<1>2. ASSUME NEW d \in Devices PROVE slots[d] = <<>> /\ IsInjective(slots[d]) /\ ToSet(slots[d]) = {}
  <2>1. slots[d] \in Seq(Agents) /\ slots[d] = <<>> /\ 1..Len(slots[d]) = {}
    OBVIOUS
  <2>2. ToSet(slots[d]) = {slots[d][i] : i \in 1..Len(slots[d])}
    BY <2>1, ElementsOf
  <2>3. IsInjective(slots[d]) <=> \A i, j \in 1..Len(slots[d]) : slots[d][i] = slots[d][j] => i = j
    BY <2>1, ElementsOf
  <2>4. QED
    BY <2>1, <2>2, <2>3
<1>3. Queues
  BY <1>2 DEF Queues
<1>4. HandedOver
  BY <1>2 DEF HandedOver, SlotExclusive
<1>5. Untouched /\ AllClosed
  BY DEF Untouched, AllClosed, NothingLeftOpen
<1>6. QED
  BY <1>1, <1>3, <1>4, <1>5 DEF RelayInv

\* What pruneLocked leaves of a queue.
LEMMA KeptFacts ==
    ASSUME RelayTypeOK, Queues, NEW d \in Devices
    PROVE  /\ Kept(d) \in Seq(Agents) /\ Len(Kept(d)) \in Nat /\ Len(Kept(d)) <= MaxSlots /\ IsInjective(Kept(d))
           /\ ToSet(Kept(d)) = ToSet(slots[d]) \ Pruned(d)
           /\ Pruned(d) \subseteq ToSet(slots[d]) /\ ToSet(slots[d]) \subseteq Agents
<1>1. slots[d] \in Seq(Agents) /\ IsInjective(slots[d]) /\ Len(slots[d]) <= MaxSlots /\ Len(slots[d]) \in Nat
  BY DEF RelayTypeOK, Queues
<1>2. ToSet(slots[d]) \subseteq Agents
  BY <1>1, ElementsOf
<1>3. /\ Kept(d) \in Seq(Agents) /\ Len(Kept(d)) <= Len(slots[d]) /\ IsInjective(Kept(d))
      /\ ToSet(Kept(d)) = ToSet(slots[d]) \cap {a \in Agents : Fresh(a)}
  BY <1>1, FilteredFacts DEF Kept
<1>4. Len(Kept(d)) \in Nat /\ Len(Kept(d)) <= MaxSlots
  BY <1>1, <1>3, RelayFacts
<1>5. QED
  BY <1>2, <1>3, <1>4 DEF Pruned

\* One queue changes.
LEMMA QueueChange ==
    ASSUME RelayTypeOK, NEW d \in Devices, NEW q \in Seq(Agents), Len(q) <= MaxSlots, slots' = [slots EXCEPT ![d] = q]
    PROVE  /\ slots' \in [Devices -> Seq(Agents)] /\ \A e \in Devices : Len(slots'[e]) <= MaxSlots
           /\ slots'[d] = q /\ \A e \in Devices : e # d => slots'[e] = slots[e]
BY DEF RelayTypeOK

\* What Queues needs of a step: each queue stays injective, and its elements are
\* those of before that were not closed, finished or left, or newly parked in it.
LEMMA QueuesKept ==
    ASSUME Queues,
           \A e \in Devices : IsInjective(slots'[e]),
           \A e \in Devices : \A a \in ToSet(slots'[e]) :
               a \in ToSet(slots[e]) \/ \A f \in Devices : a \notin ToSet(slots[f]) /\ (f # e => a \notin ToSet(slots'[f])),
           \A e \in Devices : \A a \in ToSet(slots'[e]) :
               a \notin closed' /\ a \notin finished' /\ agent'[a] \in {"announcing", "waiting"}
    PROVE  Queues'
<1>1. ASSUME NEW d \in Devices, NEW e \in Devices, d # e PROVE ToSet(slots'[d]) \cap ToSet(slots'[e]) = {}
  <2> SUFFICES ASSUME NEW a \in ToSet(slots'[d]), a \in ToSet(slots'[e]) PROVE FALSE
    OBVIOUS
  <2>1. a \in ToSet(slots[d]) /\ a \in ToSet(slots[e])
    BY <1>1
  <2>2. QED
    BY <1>1, <2>1 DEF Queues
<1>2. QED
  BY <1>1 DEF Queues

\* The actions that leave the queues alone.
LEMMA QuietStep ==
    ASSUME RelayInv, UNCHANGED slots,
           \/ \E a \in Agents : Announce(a)
           \/ \E a \in Agents : Leave(a)
           \/ \E a \in Agents : SlotDone(a)
           \/ \E c \in Clients : TellAgent(c)
           \/ \E c \in Clients : TellClient(c)
           \/ \E c \in Clients, direction \in Directions : CopyEnds(c, direction)
           \/ \E c \in Clients, direction \in Directions : CopyFails(c, direction)
           \/ \E c \in Clients : BridgeEnds(c)
           \/ \E x \in Conns : HangUp(x)
           \/ Tick
           \/ UNCHANGED relayVars
    PROVE  RelayInv'
<1> USE RelayFacts DEF RelayInv
<1>1. ASSUME NEW a \in Agents, Announce(a) PROVE RelayInv'
  <2> USE <1>1 DEF Announce
  <2>1. RelayTypeOK'
    BY DEF RelayTypeOK, Conns, Directions, HandedOver
  <2>2. Queues'
    BY DEF Queues, RelayTypeOK, HandedOver, SlotExclusive, Untouched
  <2>3. HandedOver'
    BY DEF HandedOver, SlotExclusive, RelayTypeOK
  <2>4. Untouched'
    BY DEF Untouched, HandedOver, RelayTypeOK
  <2>5. AllClosed'
    BY DEF AllClosed, NothingLeftOpen, RelayTypeOK, HandedOver
  <2>6. QED
    BY <2>1, <2>2, <2>3, <2>4, <2>5
<1>2. ASSUME NEW a \in Agents, Leave(a) PROVE RelayInv'
  <2> USE <1>2 DEF Leave
  <2>1. RelayTypeOK'
    BY DEF RelayTypeOK, Conns, Directions, HandedOver
  <2>2. Queues'
    BY DEF Queues, RelayTypeOK, HandedOver, SlotExclusive, Untouched
  <2>3. HandedOver'
    BY DEF HandedOver, SlotExclusive, RelayTypeOK
  <2>4. Untouched'
    BY DEF Untouched, HandedOver, RelayTypeOK
  <2>5. AllClosed'
    BY DEF AllClosed, NothingLeftOpen, RelayTypeOK, HandedOver
  <2>6. QED
    BY <2>1, <2>2, <2>3, <2>4, <2>5
<1>3. ASSUME NEW a \in Agents, SlotDone(a) PROVE RelayInv'
  <2> USE <1>3 DEF SlotDone
  <2>1. RelayTypeOK'
    BY DEF RelayTypeOK, Conns, Directions, HandedOver
  <2>2. Queues'
    BY DEF Queues, RelayTypeOK, HandedOver, SlotExclusive, Untouched
  <2>3. HandedOver'
    BY DEF HandedOver, SlotExclusive, RelayTypeOK
  <2>4. Untouched'
    BY DEF Untouched, HandedOver, RelayTypeOK
  <2>5. AllClosed'
    BY DEF AllClosed, NothingLeftOpen, RelayTypeOK, HandedOver
  <2>6. QED
    BY <2>1, <2>2, <2>3, <2>4, <2>5
<1>4. ASSUME NEW c \in Clients, TellAgent(c) PROVE RelayInv'
  <2> USE <1>4 DEF TellAgent, Release
  <2>a. /\ slot[c] \in Agents /\ closed' \in {closed, closed \cup {c, slot[c]}} /\ finished' \in {finished, finished \cup {slot[c]}}
        /\ UNCHANGED <<slots, agent, age, timer, slot, hungup>>
    BY DEF HandedOver
  <2>1. RelayTypeOK'
    <3>1. closed' \subseteq Conns /\ finished' \subseteq Agents
      BY <2>a DEF RelayTypeOK, Conns
    <3>2. client' \in [Clients -> {"new", "tellAgent", "tellClient", "bridging", "done"}]
      BY DEF RelayTypeOK
    <3>3. copying' \in [Clients -> SUBSET Directions]
      BY DEF RelayTypeOK
    <3>4. QED
      BY ONLY <2>a, <3>1, <3>2, <3>3, RelayTypeOK DEF RelayTypeOK
  <2>2. Queues'
    <3>1. \A d \in Devices : ToSet(slots[d]) \subseteq Agents /\ slot[c] \notin ToSet(slots[d])
      BY KeptFacts DEF HandedOver, SlotExclusive
    <3>2. \A d \in Devices : \A a \in ToSet(slots[d]) : a \notin closed' /\ a \notin finished'
      BY <2>a, <3>1 DEF Queues
    <3>3. QED
      BY ONLY <2>a, <3>2, Queues DEF Queues
  <2>3. HandedOver'
    BY DEF HandedOver, SlotExclusive, RelayTypeOK
  <2>4. Untouched'
    BY DEF Untouched, HandedOver, RelayTypeOK
  <2>5. AllClosed'
    BY DEF AllClosed, NothingLeftOpen, RelayTypeOK, HandedOver
  <2>6. QED
    BY <2>1, <2>2, <2>3, <2>4, <2>5
<1>5. ASSUME NEW c \in Clients, TellClient(c) PROVE RelayInv'
  <2> USE <1>5 DEF TellClient, Release
  <2>a. /\ slot[c] \in Agents /\ closed' \in {closed, closed \cup {c, slot[c]}} /\ finished' \in {finished, finished \cup {slot[c]}}
        /\ UNCHANGED <<slots, agent, age, timer, slot, hungup>>
    BY DEF HandedOver
  <2>1. RelayTypeOK'
    <3>1. closed' \subseteq Conns /\ finished' \subseteq Agents
      BY <2>a DEF RelayTypeOK, Conns
    <3>2. client' \in [Clients -> {"new", "tellAgent", "tellClient", "bridging", "done"}]
      BY DEF RelayTypeOK
    <3>3. copying' \in [Clients -> SUBSET Directions]
      BY DEF RelayTypeOK
    <3>4. QED
      BY ONLY <2>a, <3>1, <3>2, <3>3, RelayTypeOK DEF RelayTypeOK
  <2>2. Queues'
    <3>1. \A d \in Devices : ToSet(slots[d]) \subseteq Agents /\ slot[c] \notin ToSet(slots[d])
      BY KeptFacts DEF HandedOver, SlotExclusive
    <3>2. \A d \in Devices : \A a \in ToSet(slots[d]) : a \notin closed' /\ a \notin finished'
      BY <2>a, <3>1 DEF Queues
    <3>3. QED
      BY ONLY <2>a, <3>2, Queues DEF Queues
  <2>3. HandedOver'
    BY DEF HandedOver, SlotExclusive, RelayTypeOK
  <2>4. Untouched'
    BY DEF Untouched, HandedOver, RelayTypeOK
  <2>5. AllClosed'
    BY DEF AllClosed, NothingLeftOpen, RelayTypeOK, HandedOver
  <2>6. QED
    BY <2>1, <2>2, <2>3, <2>4, <2>5
<1>6. ASSUME NEW c \in Clients, NEW direction \in Directions, CopyEnds(c, direction) PROVE RelayInv'
  <2> USE <1>6 DEF CopyEnds
  <2>1. RelayTypeOK'
    BY DEF RelayTypeOK, Conns, Directions, HandedOver
  <2>2. Queues'
    BY DEF Queues, RelayTypeOK, HandedOver, SlotExclusive, Untouched
  <2>3. HandedOver'
    BY DEF HandedOver, SlotExclusive, RelayTypeOK
  <2>4. Untouched'
    BY DEF Untouched, HandedOver, RelayTypeOK
  <2>5. AllClosed'
    BY DEF AllClosed, NothingLeftOpen, RelayTypeOK, HandedOver
  <2>6. QED
    BY <2>1, <2>2, <2>3, <2>4, <2>5
<1>7. ASSUME NEW c \in Clients, NEW direction \in Directions, CopyFails(c, direction) PROVE RelayInv'
  <2> USE <1>7 DEF CopyFails
  <2>1. RelayTypeOK'
    BY DEF RelayTypeOK, Conns, Directions, HandedOver
  <2>2. Queues'
    BY DEF Queues, RelayTypeOK, HandedOver, SlotExclusive, Untouched
  <2>3. HandedOver'
    BY DEF HandedOver, SlotExclusive, RelayTypeOK
  <2>4. Untouched'
    BY DEF Untouched, HandedOver, RelayTypeOK
  <2>5. AllClosed'
    BY DEF AllClosed, NothingLeftOpen, RelayTypeOK, HandedOver
  <2>6. QED
    BY <2>1, <2>2, <2>3, <2>4, <2>5
<1>8. ASSUME NEW c \in Clients, BridgeEnds(c) PROVE RelayInv'
  <2> USE <1>8 DEF BridgeEnds, Release
  <2>a. /\ slot[c] \in Agents /\ closed' \in {closed, closed \cup {c, slot[c]}} /\ finished' \in {finished, finished \cup {slot[c]}}
        /\ UNCHANGED <<slots, agent, age, timer, slot, hungup>>
    BY DEF HandedOver
  <2>1. RelayTypeOK'
    <3>1. closed' \subseteq Conns /\ finished' \subseteq Agents
      BY <2>a DEF RelayTypeOK, Conns
    <3>2. client' \in [Clients -> {"new", "tellAgent", "tellClient", "bridging", "done"}]
      BY DEF RelayTypeOK
    <3>3. copying' \in [Clients -> SUBSET Directions]
      BY DEF RelayTypeOK
    <3>4. QED
      BY ONLY <2>a, <3>1, <3>2, <3>3, RelayTypeOK DEF RelayTypeOK
  <2>2. Queues'
    <3>1. \A d \in Devices : ToSet(slots[d]) \subseteq Agents /\ slot[c] \notin ToSet(slots[d])
      BY KeptFacts DEF HandedOver, SlotExclusive
    <3>2. \A d \in Devices : \A a \in ToSet(slots[d]) : a \notin closed' /\ a \notin finished'
      BY <2>a, <3>1 DEF Queues
    <3>3. QED
      BY ONLY <2>a, <3>2, Queues DEF Queues
  <2>3. HandedOver'
    BY DEF HandedOver, SlotExclusive, RelayTypeOK
  <2>4. Untouched'
    BY DEF Untouched, HandedOver, RelayTypeOK
  <2>5. AllClosed'
    BY DEF AllClosed, NothingLeftOpen, RelayTypeOK, HandedOver
  <2>6. QED
    BY <2>1, <2>2, <2>3, <2>4, <2>5
<1>9. ASSUME NEW x \in Conns, HangUp(x) PROVE RelayInv'
  <2> USE <1>9 DEF HangUp
  <2>1. RelayTypeOK'
    BY DEF RelayTypeOK, Conns, Directions, HandedOver
  <2>2. Queues'
    BY DEF Queues, RelayTypeOK, HandedOver, SlotExclusive, Untouched
  <2>3. HandedOver'
    BY DEF HandedOver, SlotExclusive, RelayTypeOK
  <2>4. Untouched'
    BY DEF Untouched, HandedOver, RelayTypeOK
  <2>5. AllClosed'
    BY DEF AllClosed, NothingLeftOpen, RelayTypeOK, HandedOver
  <2>6. QED
    BY <2>1, <2>2, <2>3, <2>4, <2>5
<1>10. ASSUME Tick PROVE RelayInv'
  <2> USE <1>10 DEF Tick
  <2>1. RelayTypeOK'
    BY DEF RelayTypeOK, Conns, Directions, Fresh
  <2>2. Queues'
    BY DEF Queues, RelayTypeOK, HandedOver, SlotExclusive, Untouched
  <2>3. HandedOver'
    BY DEF HandedOver, SlotExclusive, RelayTypeOK
  <2>4. Untouched'
    BY DEF Untouched, HandedOver, RelayTypeOK
  <2>5. AllClosed'
    BY DEF AllClosed, NothingLeftOpen, RelayTypeOK, HandedOver
  <2>6. QED
    BY <2>1, <2>2, <2>3, <2>4, <2>5
<1>11. ASSUME UNCHANGED relayVars PROVE RelayInv'
  <2> USE <1>11 DEF relayVars
  <2>1. RelayTypeOK'
    BY DEF RelayTypeOK, Conns, Directions, HandedOver
  <2>2. Queues'
    BY DEF Queues, RelayTypeOK, HandedOver, SlotExclusive, Untouched
  <2>3. HandedOver'
    BY DEF HandedOver, SlotExclusive, RelayTypeOK
  <2>4. Untouched'
    BY DEF Untouched, HandedOver, RelayTypeOK
  <2>5. AllClosed'
    BY DEF AllClosed, NothingLeftOpen, RelayTypeOK, HandedOver
  <2>6. QED
    BY <2>1, <2>2, <2>3, <2>4, <2>5
<1>12. QED
  BY <1>1, <1>2, <1>3, <1>4, <1>5, <1>6, <1>7, <1>8, <1>9, <1>10, <1>11

\* Refuse and Park of an agent, Withdraw, and Take of a client.
LEMMA ParkStep ==
    ASSUME RelayInv, NEW a \in Agents, NEW d \in Devices, Refuse(a, d) \/ Park(a, d)
    PROVE  RelayInv'
<1> USE RelayFacts DEF RelayInv
<1>1. /\ agent[a] = "new" /\ a \notin closed /\ a \notin finished
      /\ \A c \in Clients : slot[c] # a
      /\ \A e \in Devices : a \notin ToSet(slots[e])
  BY DEF Refuse, Park, Untouched, Queues
<1>2. /\ UNCHANGED <<age, timer, client, slot, copying, hungup>>
      /\ agent' \in {[agent EXCEPT ![a] = "done"], [agent EXCEPT ![a] = "announcing"]}
  BY DEF Refuse, Park
<1>3. /\ Kept(d) \in Seq(Agents) /\ Len(Kept(d)) \in Nat /\ Len(Kept(d)) <= MaxSlots /\ IsInjective(Kept(d))
      /\ ToSet(Kept(d)) = ToSet(slots[d]) \ Pruned(d)
      /\ Pruned(d) \subseteq ToSet(slots[d]) /\ ToSet(slots[d]) \subseteq Agents
  BY KeptFacts
<1>4. \A b \in Pruned(d) : b # a /\ agent[b] # "new" /\ \A c \in Clients : slot[c] # b
  BY <1>1, <1>3 DEF Queues, HandedOver, SlotExclusive
<1>5. /\ agent \in [Agents -> {"new", "announcing", "waiting", "leaving", "done"}]
      /\ closed \subseteq Conns /\ finished \subseteq Agents /\ Agents \subseteq Conns
      /\ slots \in [Devices -> Seq(Agents)] /\ \A e \in Devices : Len(slots[e]) <= MaxSlots
  BY DEF RelayTypeOK, Conns
\* The three ways the queue of d, the finished and the closed can go.
<1>6. ASSUME UNCHANGED <<slots, finished>>, closed' = closed \cup {a}, agent' = [agent EXCEPT ![a] = "done"]
      PROVE  RelayInv'
  <2>1. RelayTypeOK'
    BY <1>2, <1>5, <1>6 DEF RelayTypeOK
  <2>2. Queues'
    BY <1>1, <1>5, <1>6 DEF Queues
  <2>3. HandedOver'
    BY <1>2, <1>6 DEF HandedOver, SlotExclusive
  <2>4. Untouched' /\ AllClosed'
    BY <1>2, <1>5, <1>6 DEF Untouched, AllClosed, NothingLeftOpen
  <2>5. QED
    BY <2>1, <2>2, <2>3, <2>4
<1>7. ASSUME NEW q \in Seq(Agents), Len(q) <= MaxSlots, IsInjective(q), slots' = [slots EXCEPT ![d] = q],
             finished' = finished \cup Pruned(d),
             \/ ToSet(q) = ToSet(Kept(d)) /\ closed' = closed \cup Pruned(d) \cup {a} /\ agent' = [agent EXCEPT ![a] = "done"]
             \/ ToSet(q) = ToSet(Kept(d)) \cup {a} /\ closed' = closed \cup Pruned(d)
                  /\ agent' = [agent EXCEPT ![a] = "announcing"]
      PROVE  RelayInv'
  <2>1. /\ slots' \in [Devices -> Seq(Agents)] /\ \A e \in Devices : Len(slots'[e]) <= MaxSlots
        /\ slots'[d] = q /\ \A e \in Devices : e # d => slots'[e] = slots[e]
    BY <1>7, QueueChange
  <2>2. RelayTypeOK'
    <3>1. closed' \subseteq Conns /\ finished' \subseteq Agents
      BY <1>3, <1>5, <1>7
    <3>2. agent' \in [Agents -> {"new", "announcing", "waiting", "leaving", "done"}]
      BY <1>5, <1>7
    <3>3. QED
      BY ONLY <1>2, <2>1, <3>1, <3>2, RelayTypeOK DEF RelayTypeOK
  <2>3. \A e \in Devices : \A b \in ToSet(slots'[e]) :
            \/ b \in ToSet(slots[e]) /\ b \notin Pruned(d) /\ b # a
            \/ b = a /\ e = d /\ closed' = closed \cup Pruned(d) /\ agent' = [agent EXCEPT ![a] = "announcing"]
    <3> SUFFICES ASSUME NEW e \in Devices, NEW b \in ToSet(slots'[e])
                 PROVE  \/ b \in ToSet(slots[e]) /\ b \notin Pruned(d) /\ b # a
                        \/ b = a /\ e = d /\ closed' = closed \cup Pruned(d) /\ agent' = [agent EXCEPT ![a] = "announcing"]
      OBVIOUS
    <3>1. CASE e # d
      <4>1. b \in ToSet(slots[e]) /\ b \notin ToSet(slots[d])
        BY <2>1, <3>1 DEF Queues
      <4>2. QED
        BY <1>1, <1>3, <4>1
    <3>2. CASE e = d
      BY <1>1, <1>3, <1>7, <2>1, <3>2
    <3>3. QED
      BY <3>1, <3>2
  <2>4. Queues'
    <3>1. \A e \in Devices : IsInjective(slots'[e])
      BY <1>7, <2>1 DEF Queues
    <3>2. \A e \in Devices : \A b \in ToSet(slots'[e]) :
            b \in ToSet(slots[e]) \/ \A f \in Devices : b \notin ToSet(slots[f]) /\ (f # e => b \notin ToSet(slots'[f]))
      BY <1>1, <2>3
    <3>3. \A e \in Devices : ToSet(slots[e]) \subseteq Agents
      BY KeptFacts
    <3>4. \A e \in Devices : \A b \in ToSet(slots'[e]) :
            b \notin closed' /\ b \notin finished' /\ agent'[b] \in {"announcing", "waiting"}
      <4> SUFFICES ASSUME NEW e \in Devices, NEW b \in ToSet(slots'[e])
                   PROVE  b \notin closed' /\ b \notin finished' /\ agent'[b] \in {"announcing", "waiting"}
        OBVIOUS
      <4>1. CASE b \in ToSet(slots[e]) /\ b \notin Pruned(d) /\ b # a
        <5>1. b \in Agents /\ b \notin closed /\ b \notin finished /\ agent[b] \in {"announcing", "waiting"}
          BY <3>3, <4>1 DEF Queues
        <5>2. QED
          BY <1>5, <1>7, <4>1, <5>1
      <4>2. CASE b = a /\ closed' = closed \cup Pruned(d) /\ agent' = [agent EXCEPT ![a] = "announcing"]
        BY <1>1, <1>4, <1>5, <1>7, <4>2
      <4>3. QED
        BY <2>3, <4>1, <4>2
    <3>5. QED
      BY <3>1, <3>2, <3>4, QueuesKept
  <2>5. HandedOver'
    <3>1. \A c \in Clients, e \in Devices : slot[c] \notin ToSet(slots'[e])
      BY <1>1, <2>3 DEF HandedOver, SlotExclusive
    <3>2. QED
      BY <1>2, <3>1 DEF HandedOver, SlotExclusive
  <2>6. Untouched'
    <3>1. \A b \in Agents : agent'[b] = "new" => b # a /\ agent[b] = "new"
      BY <1>5, <1>7
    <3>2. QED
      BY <1>2, <1>4, <1>7, <3>1 DEF Untouched
  <2>7. AllClosed'
    <3>1. \A b \in Agents : agent'[b] = "done" => agent[b] = "done" \/ (b = a /\ a \in closed')
      BY <1>5, <1>7
    <3>2. finished' \subseteq closed' /\ closed \subseteq closed'
      BY <1>7 DEF AllClosed
    <3>3. QED
      BY <1>2, <3>1, <3>2 DEF AllClosed, NothingLeftOpen
  <2>8. QED
    BY <2>2, <2>4, <2>5, <2>6, <2>7
<1>8. CASE Refuse(a, d)
  BY <1>3, <1>6, <1>7, <1>8 DEF Refuse
<1>9. CASE Park(a, d)
  <2>1. /\ Append(Kept(d), a) \in Seq(Agents) /\ Len(Append(Kept(d), a)) = Len(Kept(d)) + 1
        /\ ToSet(Append(Kept(d), a)) = ToSet(Kept(d)) \cup {a} /\ IsInjective(Append(Kept(d), a))
    BY <1>1, <1>3, AppendElement
  <2>2. Len(Append(Kept(d), a)) <= MaxSlots
    BY <1>3, <1>9, <2>1 DEF Park
  <2>3. QED
    BY <1>7, <1>9, <2>1, <2>2 DEF Park
<1>10. QED
  BY <1>8, <1>9

\* The slot leaves the broker with its agent.
LEMMA WithdrawStep ==
    ASSUME RelayInv, NEW a \in Agents, Withdraw(a)
    PROVE  RelayInv'
<1> USE RelayFacts DEF RelayInv
<1>1. /\ slots' = Without(a) /\ agent' = [agent EXCEPT ![a] = "leaving"] /\ agent[a] \in {"announcing", "waiting"}
      /\ UNCHANGED <<age, timer, finished, client, slot, copying, closed, hungup>>
  BY DEF Withdraw
<1>2. ASSUME NEW e \in Devices
      PROVE  /\ slots'[e] \in Seq(Agents) /\ Len(slots'[e]) <= MaxSlots /\ IsInjective(slots'[e])
             /\ ToSet(slots'[e]) = ToSet(slots[e]) \ {a} /\ ToSet(slots[e]) \subseteq Agents
  <2>1. slots[e] \in Seq(Agents) /\ IsInjective(slots[e]) /\ Len(slots[e]) <= MaxSlots /\ Len(slots[e]) \in Nat
    BY DEF RelayTypeOK, Queues
  <2>2. slots'[e] = Filtered(slots[e], Agents \ {a})
    BY <1>1 DEF Without
  <2>3. /\ slots'[e] \in Seq(Agents) /\ Len(slots'[e]) <= Len(slots[e]) /\ IsInjective(slots'[e])
        /\ ToSet(slots'[e]) = ToSet(slots[e]) \cap (Agents \ {a})
    BY <2>1, <2>2, FilteredFacts
  <2>4. Len(slots'[e]) <= MaxSlots
    BY <2>1, <2>3
  <2>5. ToSet(slots[e]) \subseteq Agents
    BY <2>1, ElementsOf
  <2>6. QED
    BY <2>3, <2>4, <2>5
<1>3. agent \in [Agents -> {"new", "announcing", "waiting", "leaving", "done"}]
  BY DEF RelayTypeOK
<1>4. RelayTypeOK'
  <2>1. slots' \in [Devices -> Seq(Agents)]
    BY <1>1, <1>2 DEF Without
  <2>2. agent' \in [Agents -> {"new", "announcing", "waiting", "leaving", "done"}]
    BY <1>1, <1>3
  <2>3. QED
    BY <1>1, <1>2, <2>1, <2>2 DEF RelayTypeOK
<1>5. Queues'
  <2>1. \A e \in Devices : \A b \in ToSet(slots'[e]) :
            b \notin closed' /\ b \notin finished' /\ agent'[b] \in {"announcing", "waiting"}
    BY <1>1, <1>2, <1>3 DEF Queues
  <2>2. QED
    BY <1>2, <2>1, QueuesKept
<1>6. HandedOver'
  BY <1>1, <1>2 DEF HandedOver, SlotExclusive
<1>7. Untouched'
  BY <1>1, <1>3 DEF Untouched
<1>8. AllClosed'
  BY <1>1, <1>3 DEF AllClosed, NothingLeftOpen
<1>9. QED
  BY <1>4, <1>5, <1>6, <1>7, <1>8

\* A client takes the oldest fresh slot, or none.
LEMMA TakeStep ==
    ASSUME RelayInv, NEW c \in Clients, NEW d \in Devices, Take(c, d)
    PROVE  RelayInv'
<1> USE RelayFacts DEF RelayInv
<1>1. /\ Kept(d) \in Seq(Agents) /\ Len(Kept(d)) \in Nat /\ Len(Kept(d)) <= MaxSlots /\ IsInjective(Kept(d))
      /\ ToSet(Kept(d)) = ToSet(slots[d]) \ Pruned(d)
      /\ Pruned(d) \subseteq ToSet(slots[d]) /\ ToSet(slots[d]) \subseteq Agents
  BY KeptFacts
<1>2. /\ client[c] = "new" /\ finished' = finished \cup Pruned(d) /\ slot[c] = NoSlot
      /\ UNCHANGED <<agent, age, timer, copying, hungup>>
  BY DEF Take, HandedOver
<1>3. /\ client \in [Clients -> {"new", "tellAgent", "tellClient", "bridging", "done"}]
      /\ slot \in [Clients -> Agents \cup {NoSlot}]
      /\ closed \subseteq Conns /\ finished \subseteq Agents /\ Agents \subseteq Conns /\ Clients \subseteq Conns
  BY DEF RelayTypeOK, Conns
<1>4. \A b \in Pruned(d) : agent[b] # "new" /\ b \in Agents /\ \A k \in Clients : slot[k] # b
  BY <1>1 DEF Queues, HandedOver, SlotExclusive
<1>5. ASSUME NEW q \in Seq(Agents), NEW h \in Agents \cup {NoSlot}, Len(q) <= MaxSlots, IsInjective(q),
             slots' = [slots EXCEPT ![d] = q], slot' = [slot EXCEPT ![c] = h],
             ToSet(q) = ToSet(Kept(d)) \ {h}, h = NoSlot \/ h \in ToSet(Kept(d)),
             \/ h # NoSlot /\ closed' = closed \cup Pruned(d) /\ client' = [client EXCEPT ![c] = "tellAgent"]
             \/ h = NoSlot /\ closed' = closed \cup Pruned(d) \cup {c} /\ client' = [client EXCEPT ![c] = "done"]
      PROVE  RelayInv'
  <2>1. /\ slots' \in [Devices -> Seq(Agents)] /\ \A e \in Devices : Len(slots'[e]) <= MaxSlots
        /\ slots'[d] = q /\ \A e \in Devices : e # d => slots'[e] = slots[e]
    BY <1>5, QueueChange
  <2>2. RelayTypeOK'
    <3>1. closed' \subseteq Conns /\ finished' \subseteq Agents
      BY <1>2, <1>3, <1>4, <1>5
    <3>2. /\ client' \in [Clients -> {"new", "tellAgent", "tellClient", "bridging", "done"}]
          /\ slot' \in [Clients -> Agents \cup {NoSlot}]
      BY <1>3, <1>5
    <3>3. QED
      BY ONLY <1>2, <2>1, <3>1, <3>2, RelayTypeOK DEF RelayTypeOK
  <2>3. \A e \in Devices : \A b \in ToSet(slots'[e]) : b \in ToSet(slots[e]) /\ b \in Agents /\ b \notin Pruned(d) /\ b # h
    <3> SUFFICES ASSUME NEW e \in Devices, NEW b \in ToSet(slots'[e])
                 PROVE  b \in ToSet(slots[e]) /\ b \in Agents /\ b \notin Pruned(d) /\ b # h
      OBVIOUS
    <3>1. CASE e # d
      <4>1. b \in ToSet(slots[e]) /\ b \notin ToSet(slots[d]) /\ b \in Agents
        BY <2>1, <3>1, KeptFacts DEF Queues
      <4>2. QED
        BY <1>1, <1>5, <4>1
    <3>2. CASE e = d
      BY <1>1, <1>5, <2>1, <3>2
    <3>3. QED
      BY <3>1, <3>2
  <2>4. Queues'
    <3>1. \A e \in Devices : IsInjective(slots'[e])
      BY <1>5, <2>1 DEF Queues
    <3>2. \A e \in Devices : \A b \in ToSet(slots'[e]) :
            b \notin closed' /\ b \notin finished' /\ agent'[b] \in {"announcing", "waiting"}
      <4> SUFFICES ASSUME NEW e \in Devices, NEW b \in ToSet(slots'[e])
                   PROVE  b \notin closed' /\ b \notin finished' /\ agent'[b] \in {"announcing", "waiting"}
        OBVIOUS
      <4>1. b \notin closed /\ b \notin finished /\ agent[b] \in {"announcing", "waiting"} /\ b # c /\ b \notin Pruned(d)
        BY <2>3 DEF Queues
      <4>2. QED
        BY <1>2, <1>5, <4>1
    <3>3. QED
      BY <2>3, <3>1, <3>2, QueuesKept
  <2>5. HandedOver'
    <3>1. h # NoSlot => \A k \in Clients : slot[k] # h
      BY <1>1, <1>5 DEF HandedOver, SlotExclusive
    <3>2. \A k \in Clients : slot'[k] = IF k = c THEN h ELSE slot[k]
      BY <1>3, <1>5
    <3>3. \A k \in Clients : client'[k] = IF k = c THEN (IF h = NoSlot THEN "done" ELSE "tellAgent") ELSE client[k]
      BY <1>3, <1>5
    <3>4. \A k, l \in Clients : slot'[k] = slot'[l] /\ slot'[k] # NoSlot => k = l
      BY <3>1, <3>2 DEF HandedOver, SlotExclusive
    <3>5. \A k \in Clients, e \in Devices : slot'[k] \notin ToSet(slots'[e])
      BY <2>3, <3>2 DEF HandedOver, SlotExclusive
    <3>6. QED
      BY <1>5, <3>2, <3>3, <3>4, <3>5 DEF HandedOver, SlotExclusive
  <2>6. Untouched'
    <3>1. \A b \in Agents : agent[b] = "new" => b # h /\ b # c /\ b \notin Pruned(d)
      BY <1>1, <1>4, <1>5 DEF Queues
    <3>2. \A k \in Clients : slot'[k] \in {h, slot[k]}
      BY <1>3, <1>5
    <3>3. QED
      BY <1>2, <1>5, <3>1, <3>2 DEF Untouched
  <2>7. AllClosed'
    <3>1. \A k \in Clients : slot'[k] = IF k = c THEN h ELSE slot[k]
      BY <1>3, <1>5
    <3>2. \A k \in Clients : client'[k] = "done" => (client[k] = "done" /\ k # c) \/ (k = c /\ h = NoSlot /\ c \in closed')
      BY <1>2, <1>3, <1>5
    <3>3. finished' \subseteq closed' /\ closed \subseteq closed'
      BY <1>2, <1>5 DEF AllClosed
    <3>4. QED
      BY <1>2, <3>1, <3>2, <3>3 DEF AllClosed, NothingLeftOpen
  <2>8. QED
    BY <2>2, <2>4, <2>5, <2>6, <2>7
<1>6. CASE Kept(d) # <<>>
  <2>1. /\ Tail(Kept(d)) \in Seq(Agents) /\ Len(Tail(Kept(d))) = Len(Kept(d)) - 1 /\ IsInjective(Tail(Kept(d)))
        /\ Head(Kept(d)) \in ToSet(Kept(d)) /\ ToSet(Tail(Kept(d))) = ToSet(Kept(d)) \ {Head(Kept(d))}
    BY <1>1, <1>6, TailElements
  <2>2. Len(Tail(Kept(d))) <= MaxSlots /\ Head(Kept(d)) \in Agents /\ Head(Kept(d)) # NoSlot
    BY <1>1, <2>1
  <2>3. /\ slots' = [slots EXCEPT ![d] = Tail(Kept(d))] /\ slot' = [slot EXCEPT ![c] = Head(Kept(d))]
        /\ client' = [client EXCEPT ![c] = "tellAgent"] /\ closed' = closed \cup Pruned(d)
    BY <1>6 DEF Take
  <2>4. QED
    BY <1>5, <2>1, <2>2, <2>3
<1>7. CASE Kept(d) = <<>>
  <2>1. /\ slots' = [slots EXCEPT ![d] = Kept(d)] /\ UNCHANGED slot
        /\ client' = [client EXCEPT ![c] = "done"] /\ closed' = closed \cup Pruned(d) \cup {c}
    BY <1>7 DEF Take
  <2>2. slot' = [slot EXCEPT ![c] = NoSlot]
    BY <1>2, <1>3, <2>1
  <2>3. NoSlot \notin ToSet(Kept(d))
    BY <1>1
  <2>4. ToSet(Kept(d)) = ToSet(Kept(d)) \ {NoSlot} /\ NoSlot \in Agents \cup {NoSlot}
    BY <2>3
  <2>5. /\ Kept(d) \in Seq(Agents) /\ Len(Kept(d)) <= MaxSlots /\ IsInjective(Kept(d))
    BY <1>1
  <2>6. QED
    BY ONLY <1>5, <2>1, <2>2, <2>4, <2>5
<1>8. QED
  BY <1>6, <1>7

\* The invariant is inductive.
LEMMA RelayInvStep == RelayInv /\ [RelayNext]_relayVars => RelayInv'
<1> SUFFICES ASSUME RelayInv, [RelayNext]_relayVars PROVE RelayInv'
  OBVIOUS
<1>1. CASE \E a \in Agents, d \in Devices : Refuse(a, d) \/ Park(a, d)
  BY <1>1, ParkStep
<1>2. CASE \E a \in Agents : Withdraw(a)
  BY <1>2, WithdrawStep
<1>3. CASE \E c \in Clients, d \in Devices : Take(c, d)
  BY <1>3, TakeStep
<1>4. CASE \/ \E a \in Agents : Announce(a) \/ Leave(a) \/ SlotDone(a)
           \/ \E c \in Clients : TellAgent(c) \/ TellClient(c) \/ BridgeEnds(c)
           \/ \E c \in Clients, direction \in Directions : CopyEnds(c, direction) \/ CopyFails(c, direction)
           \/ \E x \in Conns : HangUp(x)
           \/ Tick \/ UNCHANGED relayVars
  <2>1. UNCHANGED slots
    BY <1>4 DEF Announce, Leave, SlotDone, TellAgent, TellClient, BridgeEnds, CopyEnds, CopyFails, HangUp, Tick,
         relayVars
  <2>2. QED
    BY <1>4, <2>1, QuietStep
<1>5. QED
  BY <1>1, <1>2, <1>3, <1>4 DEF RelayNext, AgentStep, ClientStep

\* Every value of the relay has its type, and no device has more slots than Park
\* admits.
THEOREM RelayTypeCorrect == RelaySpec => []RelayTypeOK
<1>1. RelayInv => RelayTypeOK
  BY DEF RelayInv
<1>2. QED
  BY <1>1, RelayInvInit, RelayInvStep, PTL DEF RelaySpec

\* Every connection the relay holds belongs to the broker or to one client, is
\* usable as long as it is parked, and is closed by the last who held it.
THEOREM RelayAccounts == RelaySpec => []ConnectionsAccounted
<1>1. RelayInv => ConnectionsAccounted
  <2> SUFFICES ASSUME RelayInv PROVE ConnectionsAccounted
    OBVIOUS
  <2> USE DEF RelayInv
  <2>1. ASSUME NEW d \in Devices, NEW e \in Devices, NEW i \in 1..Len(slots[d]), NEW j \in 1..Len(slots[e]),
               slots[d][i] = slots[e][j]
        PROVE  d = e /\ i = j
    <3>1. slots[d] \in Seq(Agents) /\ slots[e] \in Seq(Agents)
      BY DEF RelayTypeOK
    <3>2. slots[d][i] \in ToSet(slots[d]) /\ slots[e][j] \in ToSet(slots[e])
      BY <3>1, ElementsOf
    <3>3. d = e
      BY <2>1, <3>2 DEF Queues
    <3>4. \A k, l \in 1..Len(slots[d]) : slots[d][k] = slots[d][l] => k = l
      BY <3>1, ElementsOf DEF Queues
    <3>5. QED
      BY <2>1, <3>3, <3>4
  <2>2. ParkedIsUsable
    BY <2>1 DEF ParkedIsUsable, Queues
  <2>3. QED
    BY <2>2 DEF ConnectionsAccounted, HandedOver, AllClosed
<1>2. QED
  BY <1>1, RelayInvInit, RelayInvStep, PTL DEF RelaySpec

-----------------------------------------------------------------------------
(* The terminal session.                                                   *)

\* The parts of the assumption.
LEMMA BoundFacts ==
    MaxOutput \in Nat /\ MaxInput \in Nat /\ MaxProbes \in Nat /\ WireRoom \in Nat \ {0} /\ QueueRoom \in Nat \ {0}
BY TerminalSessionAssumption

\* What a wire or a queue with room for n elements can become.
Within(S, n) == {w \in Seq(S) : Len(w) <= n}

\* An element is appended where there is room for it.
LEMMA AppendWithin ==
    ASSUME NEW S, NEW n \in Nat, NEW w \in Within(S, n), Len(w) < n, NEW f \in S
    PROVE  Append(w, f) \in Within(S, n)
BY DEF Within

\* The first element is taken.
LEMMA TailWithin ==
    ASSUME NEW S, NEW n \in Nat, NEW w \in Within(S, n), w # <<>>
    PROVE  Tail(w) \in Within(S, n) /\ Head(w) \in S
BY DEF Within

\* As AppendWithin, without a limit.
LEMMA AppendSeq == ASSUME NEW S, NEW w \in Seq(S), NEW f \in S PROVE Append(w, f) \in Seq(S)
OBVIOUS

Inputs == {"data", "resize", "ping", "close"}

\* The types of the wires, and what a frame of the agent may be.
LEMMA WireTypes ==
    /\ WireTypeOK <=> toClient \in Within(TermFrames, WireRoom) /\ toAgent \in Within(Inputs, WireRoom)
    /\ AgentEndTypeOK => \A type \in {"accepted", "pong", "close", "policy"} : TermFrame(type, 0) \in TermFrames
    /\ AgentEndTypeOK /\ taken < made => TermFrame("data", taken + 1) \in TermFrames
BY BoundFacts DEF WireTypeOK, Within, Inputs, AgentEndTypeOK, TermFrame, TermFrames

\* Each action keeps the flags Boolean.
LEMMA FlagsStep == FlagTypeOK /\ [SessionNext]_sessionVars => FlagTypeOK'
<1> SUFFICES ASSUME FlagTypeOK, [SessionNext]_sessionVars PROVE FlagTypeOK'
  OBVIOUS
<1> USE DEF FlagTypeOK
<1>1. CASE ServeFirst
  BY <1>1 DEF ServeFirst, Returned, ToClient, Ended, EnqueueOutput, gateVars, ptyVars, policyVars, agentVars,
       outputVars, probeVars, clientVars
<1>2. CASE HandleAuthorizedTerminal
  BY <1>2 DEF HandleAuthorizedTerminal, Returned, ToClient, Ended, EnqueueOutput, gateVars, ptyVars, policyVars,
       agentVars, outputVars, probeVars, clientVars
<1>3. CASE Authorize
  BY <1>3 DEF Authorize, Returned, ToClient, Ended, EnqueueOutput, gateVars, ptyVars, policyVars, agentVars,
       outputVars, probeVars, clientVars
<1>4. CASE HandleTerminal
  BY <1>4 DEF HandleTerminal, Returned, ToClient, Ended, EnqueueOutput, gateVars, ptyVars, policyVars,
       agentVars, outputVars, probeVars, clientVars
<1>5. CASE TrustRevoked
  BY <1>5 DEF TrustRevoked, Returned, ToClient, Ended, EnqueueOutput, gateVars, ptyVars, policyVars, agentVars,
       outputVars, probeVars, clientVars
<1>6. CASE ShellOutput
  BY <1>6 DEF ShellOutput, Returned, ToClient, Ended, EnqueueOutput, gateVars, ptyVars, policyVars, agentVars,
       outputVars, probeVars, clientVars
<1>7. CASE ShellExits
  BY <1>7 DEF ShellExits, Returned, ToClient, Ended, EnqueueOutput, gateVars, ptyVars, policyVars, agentVars,
       outputVars, probeVars, clientVars
<1>8. CASE ForwardPTY
  BY <1>8 DEF ForwardPTY, Returned, ToClient, Ended, EnqueueOutput, gateVars, ptyVars, policyVars, agentVars,
       outputVars, probeVars, clientVars
<1>9. CASE WaitForTerminalDrain
  BY <1>9 DEF WaitForTerminalDrain, Returned, ToClient, Ended, EnqueueOutput, gateVars, ptyVars, policyVars,
       agentVars, outputVars, probeVars, clientVars
<1>10. CASE SendExit
  BY <1>10 DEF SendExit, Returned, ToClient, Ended, EnqueueOutput, gateVars, ptyVars, policyVars, agentVars,
       outputVars, probeVars, clientVars
<1>11. CASE WaitForPeerClose
  BY <1>11 DEF WaitForPeerClose, Returned, ToClient, Ended, EnqueueOutput, gateVars, ptyVars, policyVars,
       agentVars, outputVars, probeVars, clientVars
<1>12. CASE ReadEnded
  BY <1>12 DEF ReadEnded, Returned, ToClient, Ended, EnqueueOutput, gateVars, ptyVars, policyVars, agentVars,
       outputVars, probeVars, clientVars
<1>13. CASE TakeFrame
  BY <1>13 DEF TakeFrame, Returned, ToClient, Ended, EnqueueOutput, gateVars, ptyVars, policyVars, agentVars,
       outputVars, probeVars, clientVars
<1>13b. CASE PtyWrites
  BY <1>13b DEF PtyWrites, Returned, ToClient, Ended, EnqueueOutput, gateVars, ptyVars, policyVars,
       agentVars, outputVars, probeVars, clientVars
<1>14. CASE SendPong
  BY <1>14 DEF SendPong, Returned, ToClient, Ended, EnqueueOutput, gateVars, ptyVars, policyVars, agentVars,
       outputVars, probeVars, clientVars
<1>15. CASE TakeActivity
  BY <1>15 DEF TakeActivity, Returned, ToClient, Ended, EnqueueOutput, gateVars, ptyVars, policyVars, agentVars,
       outputVars, probeVars, clientVars
<1>16. CASE TimerFires
  BY <1>16 DEF TimerFires, Returned, ToClient, Ended, EnqueueOutput, gateVars, ptyVars, policyVars, agentVars,
       outputVars, probeVars, clientVars
<1>17. CASE ExpireSession
  BY <1>17 DEF ExpireSession, Returned, ToClient, Ended, EnqueueOutput, gateVars, ptyVars, policyVars,
       agentVars, outputVars, probeVars, clientVars
<1>18. CASE ExpireCloses
  BY <1>18 DEF ExpireCloses, Returned, ToClient, Ended, EnqueueOutput, gateVars, ptyVars, policyVars, agentVars,
       outputVars, probeVars, clientVars
<1>19. CASE SendInput
  BY <1>19 DEF SendInput, Returned, ToClient, Ended, EnqueueOutput, gateVars, ptyVars, policyVars, agentVars,
       outputVars, probeVars, clientVars
<1>20. CASE ClientTakes
  BY <1>20 DEF ClientTakes, Returned, ToClient, Ended, EnqueueOutput, gateVars, ptyVars, policyVars, agentVars,
       outputVars, probeVars, clientVars
<1>21. CASE ClientLoses
  BY <1>21 DEF ClientLoses, Returned, ToClient, Ended, EnqueueOutput, gateVars, ptyVars, policyVars, agentVars,
       outputVars, probeVars, clientVars
<1>22. CASE CloseManaged
  BY <1>22 DEF CloseManaged, Returned, ToClient, Ended, EnqueueOutput, gateVars, ptyVars, policyVars, agentVars,
       outputVars, probeVars, clientVars
<1>23. CASE OutputStalls
  BY <1>23 DEF OutputStalls, Returned, ToClient, Ended, EnqueueOutput, gateVars, ptyVars, policyVars, agentVars,
       outputVars, probeVars, clientVars
<1>24. CASE BeginReadTerminal
  BY <1>24 DEF BeginReadTerminal, Returned, ToClient, Ended, EnqueueOutput, gateVars, ptyVars, policyVars,
       agentVars, outputVars, probeVars, clientVars
<1>25. CASE ReadTerminal
  BY <1>25 DEF ReadTerminal, Returned, ToClient, Ended, EnqueueOutput, gateVars, ptyVars, policyVars, agentVars,
       outputVars, probeVars, clientVars
<1>26. CASE ReaderWakes
  BY <1>26 DEF ReaderWakes, Returned, ToClient, Ended, EnqueueOutput, gateVars, ptyVars, policyVars, agentVars,
       outputVars, probeVars, clientVars
<1>27. CASE BeginProbe
  BY <1>27 DEF BeginProbe, Returned, ToClient, Ended, EnqueueOutput, gateVars, ptyVars, policyVars, agentVars,
       outputVars, probeVars, clientVars
<1>28. CASE EndProbe
  BY <1>28 DEF EndProbe, Returned, ToClient, Ended, EnqueueOutput, gateVars, ptyVars, policyVars, agentVars,
       outputVars, probeVars, clientVars
<1>29. CASE UNCHANGED sessionVars
  BY <1>29 DEF sessionVars, gateVars, ptyVars, policyVars, agentVars, outputVars, probeVars, clientVars
<1>30. QED
  BY <1>1, <1>2, <1>3, <1>4, <1>5, <1>6, <1>7, <1>8, <1>9, <1>10, <1>11, <1>12, <1>13, <1>13b, <1>14, <1>15, <1>16,
       <1>17, <1>18, <1>19, <1>20, <1>21, <1>22, <1>23, <1>24, <1>25, <1>26, <1>27, <1>28, <1>29
     DEF SessionNext, ServeStep, LoopStep, ClientMonitor, TerminalReader

\* Each action keeps the agent's end typed.
LEMMA AgentEndStep == AgentEndTypeOK /\ [SessionNext]_sessionVars => AgentEndTypeOK'
<1> SUFFICES ASSUME AgentEndTypeOK, [SessionNext]_sessionVars PROVE AgentEndTypeOK'
  OBVIOUS
<1> USE DEF AgentEndTypeOK
<1>1. CASE ServeFirst
  BY <1>1, BoundFacts DEF ServeFirst, Returned, ToClient, Ended, EnqueueOutput, gateVars, ptyVars, policyVars,
       agentVars, outputVars, probeVars, clientVars
<1>2. CASE HandleAuthorizedTerminal
  BY <1>2, BoundFacts DEF HandleAuthorizedTerminal, Returned, ToClient, Ended, EnqueueOutput, gateVars, ptyVars,
       policyVars, agentVars, outputVars, probeVars, clientVars
<1>3. CASE Authorize
  BY <1>3, BoundFacts DEF Authorize, Returned, ToClient, Ended, EnqueueOutput, gateVars, ptyVars, policyVars,
       agentVars, outputVars, probeVars, clientVars
<1>4. CASE HandleTerminal
  BY <1>4, BoundFacts DEF HandleTerminal, Returned, ToClient, Ended, EnqueueOutput, gateVars, ptyVars,
       policyVars, agentVars, outputVars, probeVars, clientVars
<1>5. CASE TrustRevoked
  BY <1>5, BoundFacts DEF TrustRevoked, Returned, ToClient, Ended, EnqueueOutput, gateVars, ptyVars, policyVars,
       agentVars, outputVars, probeVars, clientVars
<1>6. CASE ShellOutput
  BY <1>6, BoundFacts DEF ShellOutput, Returned, ToClient, Ended, EnqueueOutput, gateVars, ptyVars, policyVars,
       agentVars, outputVars, probeVars, clientVars
<1>7. CASE ShellExits
  BY <1>7, BoundFacts DEF ShellExits, Returned, ToClient, Ended, EnqueueOutput, gateVars, ptyVars, policyVars,
       agentVars, outputVars, probeVars, clientVars
<1>8. CASE ForwardPTY
  BY <1>8, BoundFacts DEF ForwardPTY, Returned, ToClient, Ended, EnqueueOutput, gateVars, ptyVars, policyVars,
       agentVars, outputVars, probeVars, clientVars
<1>9. CASE WaitForTerminalDrain
  BY <1>9, BoundFacts DEF WaitForTerminalDrain, Returned, ToClient, Ended, EnqueueOutput, gateVars, ptyVars,
       policyVars, agentVars, outputVars, probeVars, clientVars
<1>10. CASE SendExit
  BY <1>10, BoundFacts DEF SendExit, Returned, ToClient, Ended, EnqueueOutput, gateVars, ptyVars, policyVars,
       agentVars, outputVars, probeVars, clientVars
<1>11. CASE WaitForPeerClose
  BY <1>11, BoundFacts DEF WaitForPeerClose, Returned, ToClient, Ended, EnqueueOutput, gateVars, ptyVars,
       policyVars, agentVars, outputVars, probeVars, clientVars
<1>12. CASE ReadEnded
  BY <1>12, BoundFacts DEF ReadEnded, Returned, ToClient, Ended, EnqueueOutput, gateVars, ptyVars, policyVars,
       agentVars, outputVars, probeVars, clientVars
<1>13. CASE TakeFrame
  BY <1>13, BoundFacts DEF TakeFrame, Returned, ToClient, Ended, EnqueueOutput, gateVars, ptyVars, policyVars,
       agentVars, outputVars, probeVars, clientVars
<1>13b. CASE PtyWrites
  BY <1>13b, BoundFacts DEF PtyWrites, Returned, ToClient, Ended, EnqueueOutput, gateVars, ptyVars,
       policyVars, agentVars, outputVars, probeVars, clientVars
<1>14. CASE SendPong
  BY <1>14, BoundFacts DEF SendPong, Returned, ToClient, Ended, EnqueueOutput, gateVars, ptyVars, policyVars,
       agentVars, outputVars, probeVars, clientVars
<1>15. CASE TakeActivity
  BY <1>15, BoundFacts DEF TakeActivity, Returned, ToClient, Ended, EnqueueOutput, gateVars, ptyVars,
       policyVars, agentVars, outputVars, probeVars, clientVars
<1>16. CASE TimerFires
  BY <1>16, BoundFacts DEF TimerFires, Returned, ToClient, Ended, EnqueueOutput, gateVars, ptyVars, policyVars,
       agentVars, outputVars, probeVars, clientVars
<1>17. CASE ExpireSession
  BY <1>17, BoundFacts DEF ExpireSession, Returned, ToClient, Ended, EnqueueOutput, gateVars, ptyVars,
       policyVars, agentVars, outputVars, probeVars, clientVars
<1>18. CASE ExpireCloses
  BY <1>18, BoundFacts DEF ExpireCloses, Returned, ToClient, Ended, EnqueueOutput, gateVars, ptyVars,
       policyVars, agentVars, outputVars, probeVars, clientVars
<1>19. CASE SendInput
  BY <1>19, BoundFacts DEF SendInput, Returned, ToClient, Ended, EnqueueOutput, gateVars, ptyVars, policyVars,
       agentVars, outputVars, probeVars, clientVars
<1>20. CASE ClientTakes
  BY <1>20, BoundFacts DEF ClientTakes, Returned, ToClient, Ended, EnqueueOutput, gateVars, ptyVars, policyVars,
       agentVars, outputVars, probeVars, clientVars
<1>21. CASE ClientLoses
  BY <1>21, BoundFacts DEF ClientLoses, Returned, ToClient, Ended, EnqueueOutput, gateVars, ptyVars, policyVars,
       agentVars, outputVars, probeVars, clientVars
<1>22. CASE CloseManaged
  BY <1>22, BoundFacts DEF CloseManaged, Returned, ToClient, Ended, EnqueueOutput, gateVars, ptyVars,
       policyVars, agentVars, outputVars, probeVars, clientVars
<1>23. CASE OutputStalls
  BY <1>23, BoundFacts DEF OutputStalls, Returned, ToClient, Ended, EnqueueOutput, gateVars, ptyVars,
       policyVars, agentVars, outputVars, probeVars, clientVars
<1>24. CASE BeginReadTerminal
  BY <1>24, BoundFacts DEF BeginReadTerminal, Returned, ToClient, Ended, EnqueueOutput, gateVars, ptyVars,
       policyVars, agentVars, outputVars, probeVars, clientVars
<1>25. CASE ReadTerminal
  BY <1>25, BoundFacts DEF ReadTerminal, Returned, ToClient, Ended, EnqueueOutput, gateVars, ptyVars,
       policyVars, agentVars, outputVars, probeVars, clientVars
<1>26. CASE ReaderWakes
  BY <1>26, BoundFacts DEF ReaderWakes, Returned, ToClient, Ended, EnqueueOutput, gateVars, ptyVars, policyVars,
       agentVars, outputVars, probeVars, clientVars
<1>27. CASE BeginProbe
  BY <1>27, BoundFacts DEF BeginProbe, Returned, ToClient, Ended, EnqueueOutput, gateVars, ptyVars, policyVars,
       agentVars, outputVars, probeVars, clientVars
<1>28. CASE EndProbe
  BY <1>28, BoundFacts DEF EndProbe, Returned, ToClient, Ended, EnqueueOutput, gateVars, ptyVars, policyVars,
       agentVars, outputVars, probeVars, clientVars
<1>29. CASE UNCHANGED sessionVars
  BY <1>29, BoundFacts DEF sessionVars, gateVars, ptyVars, policyVars, agentVars, outputVars, probeVars, clientVars
<1>30. QED
  BY <1>1, <1>2, <1>3, <1>4, <1>5, <1>6, <1>7, <1>8, <1>9, <1>10, <1>11, <1>12, <1>13, <1>13b, <1>14, <1>15, <1>16,
       <1>17, <1>18, <1>19, <1>20, <1>21, <1>22, <1>23, <1>24, <1>25, <1>26, <1>27, <1>28, <1>29
     DEF SessionNext, ServeStep, LoopStep, ClientMonitor, TerminalReader

\* Each action keeps the frames under way typed and within their room.
LEMMA WireStep == AgentEndTypeOK /\ WireTypeOK /\ [SessionNext]_sessionVars => WireTypeOK'
<1> SUFFICES ASSUME AgentEndTypeOK /\ WireTypeOK, [SessionNext]_sessionVars PROVE WireTypeOK'
  OBVIOUS
<1>1. CASE ServeFirst
  BY <1>1 DEF WireTypeOK, ServeFirst, Returned, ToClient, Ended, EnqueueOutput, gateVars, ptyVars, policyVars,
       agentVars, outputVars, probeVars, clientVars
<1>2. CASE HandleAuthorizedTerminal
  BY <1>2 DEF WireTypeOK, HandleAuthorizedTerminal, Returned, ToClient, Ended, EnqueueOutput, gateVars, ptyVars,
       policyVars, agentVars, outputVars, probeVars, clientVars
<1>3. CASE Authorize
  BY <1>3 DEF WireTypeOK, Authorize, Returned, ToClient, Ended, EnqueueOutput, gateVars, ptyVars, policyVars,
       agentVars, outputVars, probeVars, clientVars
<1>4. CASE HandleTerminal
  <2>1. UNCHANGED toAgent
    BY <1>4 DEF HandleTerminal, gateVars, ptyVars, policyVars, clientVars
  <2>2. \/ UNCHANGED toClient
        \/ Len(toClient) < WireRoom /\ toClient' = Append(toClient, TermFrame("accepted", 0))
    BY <1>4 DEF HandleTerminal, ToClient, Roomy
  <2>3. toClient' \in Within(TermFrames, WireRoom) /\ toAgent' \in Within(Inputs, WireRoom)
    BY <2>1, <2>2, BoundFacts, WireTypes, AppendWithin
  <2>4. QED
    BY <2>3 DEF WireTypeOK, Within, Inputs
<1>5. CASE TrustRevoked
  BY <1>5 DEF WireTypeOK, TrustRevoked, Returned, ToClient, Ended, EnqueueOutput, gateVars, ptyVars, policyVars,
       agentVars, outputVars, probeVars, clientVars
<1>6. CASE ShellOutput
  BY <1>6 DEF WireTypeOK, ShellOutput, Returned, ToClient, Ended, EnqueueOutput, gateVars, ptyVars, policyVars,
       agentVars, outputVars, probeVars, clientVars
<1>7. CASE ShellExits
  BY <1>7 DEF WireTypeOK, ShellExits, Returned, ToClient, Ended, EnqueueOutput, gateVars, ptyVars, policyVars,
       agentVars, outputVars, probeVars, clientVars
<1>8. CASE ForwardPTY
  <2>1. UNCHANGED toAgent
    BY <1>8 DEF ForwardPTY, gateVars, ptyVars, policyVars, clientVars
  <2>2. \/ UNCHANGED toClient
        \/ taken < made /\ Len(toClient) < WireRoom /\ toClient' = Append(toClient, TermFrame("data", taken + 1))
    BY <1>8 DEF ForwardPTY, ToClient, Roomy
  <2>3. toClient' \in Within(TermFrames, WireRoom) /\ toAgent' \in Within(Inputs, WireRoom)
    BY <2>1, <2>2, BoundFacts, WireTypes, AppendWithin
  <2>4. QED
    BY <2>3 DEF WireTypeOK, Within, Inputs
<1>9. CASE WaitForTerminalDrain
  BY <1>9 DEF WireTypeOK, WaitForTerminalDrain, Returned, ToClient, Ended, EnqueueOutput, gateVars, ptyVars,
       policyVars, agentVars, outputVars, probeVars, clientVars
<1>10. CASE SendExit
  <2>1. UNCHANGED toAgent
    BY <1>10 DEF SendExit, gateVars, ptyVars, policyVars, clientVars
  <2>2. \/ UNCHANGED toClient
        \/ Len(toClient) < WireRoom /\ toClient' = Append(toClient, TermFrame("close", 0))
    BY <1>10 DEF SendExit, ToClient, Roomy
  <2>3. toClient' \in Within(TermFrames, WireRoom) /\ toAgent' \in Within(Inputs, WireRoom)
    BY <2>1, <2>2, BoundFacts, WireTypes, AppendWithin
  <2>4. QED
    BY <2>3 DEF WireTypeOK, Within, Inputs
<1>11. CASE WaitForPeerClose
  BY <1>11 DEF WireTypeOK, WaitForPeerClose, Returned, ToClient, Ended, EnqueueOutput, gateVars, ptyVars,
       policyVars, agentVars, outputVars, probeVars, clientVars
<1>12. CASE ReadEnded
  BY <1>12 DEF WireTypeOK, ReadEnded, Returned, ToClient, Ended, EnqueueOutput, gateVars, ptyVars, policyVars,
       agentVars, outputVars, probeVars, clientVars
<1>13. CASE TakeFrame
  <2>1. toAgent # <<>> /\ toAgent' = Tail(toAgent)
    BY <1>13 DEF TakeFrame
  <2>2. UNCHANGED toClient
    BY <1>13 DEF TakeFrame
  <2>3. toClient' \in Within(TermFrames, WireRoom) /\ toAgent' \in Within(Inputs, WireRoom)
    BY <2>1, <2>2, BoundFacts, WireTypes, TailWithin
  <2>4. QED
    BY <2>3 DEF WireTypeOK, Within, Inputs
<1>13b. CASE PtyWrites
  BY <1>13b DEF WireTypeOK, PtyWrites, Returned, ToClient, Ended, EnqueueOutput, gateVars, ptyVars,
       policyVars, agentVars, outputVars, probeVars, clientVars
<1>14. CASE SendPong
  <2>1. UNCHANGED toAgent
    BY <1>14 DEF SendPong, gateVars, ptyVars, policyVars, clientVars
  <2>2. \/ UNCHANGED toClient
        \/ Len(toClient) < WireRoom /\ toClient' = Append(toClient, TermFrame("pong", 0))
    BY <1>14 DEF SendPong, ToClient, Roomy
  <2>3. toClient' \in Within(TermFrames, WireRoom) /\ toAgent' \in Within(Inputs, WireRoom)
    BY <2>1, <2>2, BoundFacts, WireTypes, AppendWithin
  <2>4. QED
    BY <2>3 DEF WireTypeOK, Within, Inputs
<1>15. CASE TakeActivity
  BY <1>15 DEF WireTypeOK, TakeActivity, Returned, ToClient, Ended, EnqueueOutput, gateVars, ptyVars,
       policyVars, agentVars, outputVars, probeVars, clientVars
<1>16. CASE TimerFires
  BY <1>16 DEF WireTypeOK, TimerFires, Returned, ToClient, Ended, EnqueueOutput, gateVars, ptyVars, policyVars,
       agentVars, outputVars, probeVars, clientVars
<1>17. CASE ExpireSession
  BY <1>17 DEF WireTypeOK, ExpireSession, Returned, ToClient, Ended, EnqueueOutput, gateVars, ptyVars,
       policyVars, agentVars, outputVars, probeVars, clientVars
<1>18. CASE ExpireCloses
  <2>1. UNCHANGED toAgent
    BY <1>18 DEF ExpireCloses, gateVars, ptyVars, policyVars, clientVars
  <2>2. \/ UNCHANGED toClient
        \/ Len(toClient) < WireRoom /\ toClient' = Append(toClient, TermFrame("policy", 0))
    BY <1>18 DEF ExpireCloses, ToClient, Roomy
  <2>3. toClient' \in Within(TermFrames, WireRoom) /\ toAgent' \in Within(Inputs, WireRoom)
    BY <2>1, <2>2, BoundFacts, WireTypes, AppendWithin
  <2>4. QED
    BY <2>3 DEF WireTypeOK, Within, Inputs
<1>19. CASE SendInput
  <2>1. UNCHANGED toClient
    BY <1>19 DEF SendInput
  <2>2. UNCHANGED toAgent \/ \E f \in Inputs : Len(toAgent) < WireRoom /\ toAgent' = Append(toAgent, f)
    BY <1>19 DEF SendInput, Roomy, Inputs
  <2>3. toClient' \in Within(TermFrames, WireRoom) /\ toAgent' \in Within(Inputs, WireRoom)
    BY <2>1, <2>2, BoundFacts, WireTypes, AppendWithin
  <2>4. QED
    BY <2>3 DEF WireTypeOK, Within, Inputs
<1>20. CASE ClientTakes
  <2>1. toClient # <<>> /\ toClient' = Tail(toClient)
    BY <1>20 DEF ClientTakes
  <2>2. UNCHANGED toAgent \/ \E f \in Inputs : Len(toAgent) < WireRoom /\ toAgent' = Append(toAgent, f)
    BY <1>20 DEF ClientTakes, Roomy, Inputs
  <2>3. toClient' \in Within(TermFrames, WireRoom)
    BY <2>1, BoundFacts, WireTypes, TailWithin
  <2>4. toAgent' \in Within(Inputs, WireRoom)
    BY <2>2, BoundFacts, WireTypes, AppendWithin
  <2>5. QED
    BY <2>3, <2>4 DEF WireTypeOK, Within, Inputs
<1>21. CASE ClientLoses
  BY <1>21 DEF WireTypeOK, ClientLoses, Returned, ToClient, Ended, EnqueueOutput, gateVars, ptyVars, policyVars,
       agentVars, outputVars, probeVars, clientVars
<1>22. CASE CloseManaged
  <2>1. UNCHANGED toClient
    BY <1>22 DEF CloseManaged
  <2>2. UNCHANGED toAgent \/ \E f \in Inputs : Len(toAgent) < WireRoom /\ toAgent' = Append(toAgent, f)
    BY <1>22 DEF CloseManaged, Roomy, Inputs
  <2>3. toClient' \in Within(TermFrames, WireRoom) /\ toAgent' \in Within(Inputs, WireRoom)
    BY <2>1, <2>2, BoundFacts, WireTypes, AppendWithin
  <2>4. QED
    BY <2>3 DEF WireTypeOK, Within, Inputs
<1>23. CASE OutputStalls
  BY <1>23 DEF WireTypeOK, OutputStalls, Returned, ToClient, Ended, EnqueueOutput, gateVars, ptyVars,
       policyVars, agentVars, outputVars, probeVars, clientVars
<1>24. CASE BeginReadTerminal
  BY <1>24 DEF WireTypeOK, BeginReadTerminal, Returned, ToClient, Ended, EnqueueOutput, gateVars, ptyVars,
       policyVars, agentVars, outputVars, probeVars, clientVars
<1>25. CASE ReadTerminal
  BY <1>25 DEF WireTypeOK, ReadTerminal, Returned, ToClient, Ended, EnqueueOutput, gateVars, ptyVars,
       policyVars, agentVars, outputVars, probeVars, clientVars
<1>26. CASE ReaderWakes
  BY <1>26 DEF WireTypeOK, ReaderWakes, Returned, ToClient, Ended, EnqueueOutput, gateVars, ptyVars, policyVars,
       agentVars, outputVars, probeVars, clientVars
<1>27. CASE BeginProbe
  <2>1. UNCHANGED toClient
    BY <1>27 DEF BeginProbe
  <2>2. UNCHANGED toAgent \/ \E f \in Inputs : Len(toAgent) < WireRoom /\ toAgent' = Append(toAgent, f)
    BY <1>27 DEF BeginProbe, Roomy, Inputs
  <2>3. toClient' \in Within(TermFrames, WireRoom) /\ toAgent' \in Within(Inputs, WireRoom)
    BY <2>1, <2>2, BoundFacts, WireTypes, AppendWithin
  <2>4. QED
    BY <2>3 DEF WireTypeOK, Within, Inputs
<1>28. CASE EndProbe
  BY <1>28 DEF WireTypeOK, EndProbe, Returned, ToClient, Ended, EnqueueOutput, gateVars, ptyVars, policyVars,
       agentVars, outputVars, probeVars, clientVars
<1>29. CASE UNCHANGED sessionVars
  BY <1>29 DEF WireTypeOK, sessionVars, gateVars, ptyVars, policyVars, agentVars, outputVars, probeVars, clientVars
<1>30. QED
  BY <1>1, <1>2, <1>3, <1>4, <1>5, <1>6, <1>7, <1>8, <1>9, <1>10, <1>11, <1>12, <1>13, <1>13b, <1>14, <1>15, <1>16,
       <1>17, <1>18, <1>19, <1>20, <1>21, <1>22, <1>23, <1>24, <1>25, <1>26, <1>27, <1>28, <1>29
     DEF SessionNext, ServeStep, LoopStep, ClientMonitor, TerminalReader

\* Each action keeps the client's end typed.
LEMMA ClientEndStep == WireTypeOK /\ ClientEndTypeOK /\ [SessionNext]_sessionVars => ClientEndTypeOK'
<1> SUFFICES ASSUME WireTypeOK /\ ClientEndTypeOK, [SessionNext]_sessionVars PROVE ClientEndTypeOK'
  OBVIOUS
<1>1. CASE ServeFirst
  BY <1>1, BoundFacts DEF ClientEndTypeOK, ServeFirst, Returned, ToClient, Ended, EnqueueOutput, gateVars,
       ptyVars, policyVars, agentVars, outputVars, probeVars, clientVars
<1>2. CASE HandleAuthorizedTerminal
  BY <1>2, BoundFacts DEF ClientEndTypeOK, HandleAuthorizedTerminal, Returned, ToClient, Ended, EnqueueOutput,
       gateVars, ptyVars, policyVars, agentVars, outputVars, probeVars, clientVars
<1>3. CASE Authorize
  BY <1>3, BoundFacts DEF ClientEndTypeOK, Authorize, Returned, ToClient, Ended, EnqueueOutput, gateVars,
       ptyVars, policyVars, agentVars, outputVars, probeVars, clientVars
<1>4. CASE HandleTerminal
  BY <1>4, BoundFacts DEF ClientEndTypeOK, HandleTerminal, Returned, ToClient, Ended, EnqueueOutput, gateVars,
       ptyVars, policyVars, agentVars, outputVars, probeVars, clientVars
<1>5. CASE TrustRevoked
  BY <1>5, BoundFacts DEF ClientEndTypeOK, TrustRevoked, Returned, ToClient, Ended, EnqueueOutput, gateVars,
       ptyVars, policyVars, agentVars, outputVars, probeVars, clientVars
<1>6. CASE ShellOutput
  BY <1>6, BoundFacts DEF ClientEndTypeOK, ShellOutput, Returned, ToClient, Ended, EnqueueOutput, gateVars,
       ptyVars, policyVars, agentVars, outputVars, probeVars, clientVars
<1>7. CASE ShellExits
  BY <1>7, BoundFacts DEF ClientEndTypeOK, ShellExits, Returned, ToClient, Ended, EnqueueOutput, gateVars,
       ptyVars, policyVars, agentVars, outputVars, probeVars, clientVars
<1>8. CASE ForwardPTY
  BY <1>8, BoundFacts DEF ClientEndTypeOK, ForwardPTY, Returned, ToClient, Ended, EnqueueOutput, gateVars,
       ptyVars, policyVars, agentVars, outputVars, probeVars, clientVars
<1>9. CASE WaitForTerminalDrain
  BY <1>9, BoundFacts DEF ClientEndTypeOK, WaitForTerminalDrain, Returned, ToClient, Ended, EnqueueOutput,
       gateVars, ptyVars, policyVars, agentVars, outputVars, probeVars, clientVars
<1>10. CASE SendExit
  BY <1>10, BoundFacts DEF ClientEndTypeOK, SendExit, Returned, ToClient, Ended, EnqueueOutput, gateVars,
       ptyVars, policyVars, agentVars, outputVars, probeVars, clientVars
<1>11. CASE WaitForPeerClose
  BY <1>11, BoundFacts DEF ClientEndTypeOK, WaitForPeerClose, Returned, ToClient, Ended, EnqueueOutput,
       gateVars, ptyVars, policyVars, agentVars, outputVars, probeVars, clientVars
<1>12. CASE ReadEnded
  BY <1>12, BoundFacts DEF ClientEndTypeOK, ReadEnded, Returned, ToClient, Ended, EnqueueOutput, gateVars,
       ptyVars, policyVars, agentVars, outputVars, probeVars, clientVars
<1>13. CASE TakeFrame
  BY <1>13, BoundFacts DEF ClientEndTypeOK, TakeFrame, Returned, ToClient, Ended, EnqueueOutput, gateVars,
       ptyVars, policyVars, agentVars, outputVars, probeVars, clientVars
<1>13b. CASE PtyWrites
  BY <1>13b, BoundFacts DEF ClientEndTypeOK, PtyWrites, Returned, ToClient, Ended, EnqueueOutput,
       gateVars, ptyVars, policyVars, agentVars, outputVars, probeVars, clientVars
<1>14. CASE SendPong
  BY <1>14, BoundFacts DEF ClientEndTypeOK, SendPong, Returned, ToClient, Ended, EnqueueOutput, gateVars,
       ptyVars, policyVars, agentVars, outputVars, probeVars, clientVars
<1>15. CASE TakeActivity
  BY <1>15, BoundFacts DEF ClientEndTypeOK, TakeActivity, Returned, ToClient, Ended, EnqueueOutput, gateVars,
       ptyVars, policyVars, agentVars, outputVars, probeVars, clientVars
<1>16. CASE TimerFires
  BY <1>16, BoundFacts DEF ClientEndTypeOK, TimerFires, Returned, ToClient, Ended, EnqueueOutput, gateVars,
       ptyVars, policyVars, agentVars, outputVars, probeVars, clientVars
<1>17. CASE ExpireSession
  BY <1>17, BoundFacts DEF ClientEndTypeOK, ExpireSession, Returned, ToClient, Ended, EnqueueOutput, gateVars,
       ptyVars, policyVars, agentVars, outputVars, probeVars, clientVars
<1>18. CASE ExpireCloses
  BY <1>18, BoundFacts DEF ClientEndTypeOK, ExpireCloses, Returned, ToClient, Ended, EnqueueOutput, gateVars,
       ptyVars, policyVars, agentVars, outputVars, probeVars, clientVars
<1>19. CASE SendInput
  BY <1>19, BoundFacts DEF ClientEndTypeOK, SendInput, Returned, ToClient, Ended, EnqueueOutput, gateVars,
       ptyVars, policyVars, agentVars, outputVars, probeVars, clientVars
<1>20. CASE ClientTakes
  <2>1. Head(toClient).n \in 0..MaxOutput
    <3>1. Head(toClient) \in TermFrames
      BY <1>20, BoundFacts, WireTypes, TailWithin DEF ClientTakes
    <3>2. QED
      BY <3>1 DEF TermFrames
  <2>2. /\ UNCHANGED <<variant, reading, probing, pings, inputs>> /\ using' \in {using, "open", "over"}
        /\ \/ UNCHANGED queue
           \/ Len(queue) < QueueRoom /\ queue' = Append(queue, Head(toClient).n)
        /\ \/ UNCHANGED read
           \/ read' = Append(read, Head(toClient).n)
    BY <1>20 DEF ClientTakes, Ended, EnqueueOutput
  <2>3. queue' \in Within(0..MaxOutput, QueueRoom)
    <3>1. queue \in Within(0..MaxOutput, QueueRoom)
      BY DEF ClientEndTypeOK, Within
    <3>2. QED
      BY <2>1, <2>2, <3>1, BoundFacts, AppendWithin
  <2>4. read' \in Seq(0..MaxOutput)
    <3>1. read \in Seq(0..MaxOutput)
      BY DEF ClientEndTypeOK
    <3>2. QED
      BY <2>1, <2>2, <3>1, AppendSeq
  <2>5. QED
    BY <2>2, <2>3, <2>4 DEF ClientEndTypeOK, Within
<1>21. CASE ClientLoses
  BY <1>21, BoundFacts DEF ClientEndTypeOK, ClientLoses, Returned, ToClient, Ended, EnqueueOutput, gateVars,
       ptyVars, policyVars, agentVars, outputVars, probeVars, clientVars
<1>22. CASE CloseManaged
  BY <1>22, BoundFacts DEF ClientEndTypeOK, CloseManaged, Returned, ToClient, Ended, EnqueueOutput, gateVars,
       ptyVars, policyVars, agentVars, outputVars, probeVars, clientVars
<1>23. CASE OutputStalls
  BY <1>23, BoundFacts DEF ClientEndTypeOK, OutputStalls, Returned, ToClient, Ended, EnqueueOutput, gateVars,
       ptyVars, policyVars, agentVars, outputVars, probeVars, clientVars
<1>24. CASE BeginReadTerminal
  BY <1>24, BoundFacts DEF ClientEndTypeOK, BeginReadTerminal, Returned, ToClient, Ended, EnqueueOutput,
       gateVars, ptyVars, policyVars, agentVars, outputVars, probeVars, clientVars
<1>25. CASE ReadTerminal
  <2>1. /\ UNCHANGED <<variant, using, probing, pings, inputs>> /\ reading' \in {"end", "got", "wait"}
        /\ \/ UNCHANGED <<queue, read>>
           \/ queue # <<>> /\ queue' = Tail(queue) /\ read' = Append(read, Head(queue))
    BY <1>25 DEF ReadTerminal, probeVars
  <2>2. queue \in Within(0..MaxOutput, QueueRoom) /\ read \in Seq(0..MaxOutput)
    BY DEF ClientEndTypeOK, Within
  <2>3. queue' \in Within(0..MaxOutput, QueueRoom) /\ read' \in Seq(0..MaxOutput)
    <3>1. queue # <<>> => Tail(queue) \in Within(0..MaxOutput, QueueRoom) /\ Head(queue) \in 0..MaxOutput
      BY <2>2, BoundFacts, TailWithin
    <3>2. QED
      BY <2>1, <2>2, <3>1, AppendSeq
  <2>4. QED
    BY <2>1, <2>3 DEF ClientEndTypeOK, Within
<1>26. CASE ReaderWakes
  BY <1>26, BoundFacts DEF ClientEndTypeOK, ReaderWakes, Returned, ToClient, Ended, EnqueueOutput, gateVars,
       ptyVars, policyVars, agentVars, outputVars, probeVars, clientVars
<1>27. CASE BeginProbe
  BY <1>27, BoundFacts DEF ClientEndTypeOK, BeginProbe, Returned, ToClient, Ended, EnqueueOutput, gateVars,
       ptyVars, policyVars, agentVars, outputVars, probeVars, clientVars
<1>28. CASE EndProbe
  BY <1>28, BoundFacts DEF ClientEndTypeOK, EndProbe, Returned, ToClient, Ended, EnqueueOutput, gateVars,
       ptyVars, policyVars, agentVars, outputVars, probeVars, clientVars
<1>29. CASE UNCHANGED sessionVars
  BY <1>29, BoundFacts DEF ClientEndTypeOK, sessionVars, gateVars, ptyVars, policyVars, agentVars, outputVars,
       probeVars, clientVars
<1>30. QED
  BY <1>1, <1>2, <1>3, <1>4, <1>5, <1>6, <1>7, <1>8, <1>9, <1>10, <1>11, <1>12, <1>13, <1>13b, <1>14, <1>15, <1>16,
       <1>17, <1>18, <1>19, <1>20, <1>21, <1>22, <1>23, <1>24, <1>25, <1>26, <1>27, <1>28, <1>29
     DEF SessionNext, ServeStep, LoopStep, ClientMonitor, TerminalReader

-----------------------------------------------------------------------------
(* The inductive invariant.                                                 *)

Before == {"first", "authorize", "asking", "lookup"}

\* The lookup comes after the authorizer's answer.
AdmittedFirst == serving = "lookup" /\ link = "direct" => granted

\* Nothing is written before the shell runs.  A shell is closed when the
\* session ends, and a write deadline is set when it is closed.  The
\* forwarding goroutine leaves a live shell only after all of its output, or
\* because nobody reads.
ShellPlaces ==
    /\ serving \in Before => shell = "none" /\ forwarding = "none" /\ toClient = <<>>
    /\ deadline => shell = "closed"
    /\ shell = "closed" => serving \in {"expiring", "ack", "over"}
    /\ forwarding = "done" /\ shell # "closed" => using = "over" \/ (taken = made /\ shell = "exited")
    /\ serving = "closing" => shell = "exited" /\ forwarding = "done"

HasClose(wire) == \E i \in 1..Len(wire) : wire[i].type = "close"

\* The exit's Close follows all output, and no more is made.
CloseIsLast == HasClose(toClient) => taken = made /\ shell \in {"exited", "closed"}

\* The data frames of a wire are numbered from a + 1 to t, in this order.
DataFrom(wire, a, t) ==
    /\ \A i \in 1..Len(wire) : wire[i].type = "data" => wire[i].n \in (a + 1)..t
    /\ \A i, j \in 1..Len(wire) : i < j /\ wire[i].type = "data" /\ wire[j].type = "data" => wire[i].n < wire[j].n
    /\ \A m \in (a + 1)..t : \E i \in 1..Len(wire) : wire[i].type = "data" /\ wire[i].n = m

\* What was read, what is queued and what is under way are the output that was
\* forwarded, each chunk once and in order.
OutputInOrder ==
    using # "over" =>
        /\ Len(read) + Len(queue) <= taken
        /\ \A i \in 1..Len(read) : read[i] = i
        /\ \A i \in 1..Len(queue) : queue[i] = Len(read) + i
        /\ DataFrom(toClient, Len(read) + Len(queue), taken)

\* ReadTerminal has reported the end; the command's terminal has no queue.
EndIsEmpty ==
    /\ reading = "end" => using = "over" /\ queue = <<>>
    /\ variant = "cli" => queue = <<>>

SessionInv == SessionTypeOK /\ AdmittedFirst /\ ShellPlaces /\ CloseIsLast /\ OutputInOrder /\ EndIsEmpty

\* A session begins with nothing said and nobody served.
LEMMA SessionInvInit == SessionInit => SessionInv
<1> SUFFICES ASSUME SessionInit PROVE SessionInv
  OBVIOUS
<1> USE BoundFacts DEF SessionInit
<1>1. FlagTypeOK
  BY DEF FlagTypeOK
<1>2. AgentEndTypeOK /\ WireTypeOK /\ ClientEndTypeOK
  BY DEF AgentEndTypeOK, WireTypeOK, ClientEndTypeOK
<1>3. AdmittedFirst /\ ShellPlaces /\ CloseIsLast /\ EndIsEmpty
  BY DEF AdmittedFirst, ShellPlaces, CloseIsLast, HasClose, EndIsEmpty
<1>4. OutputInOrder
  BY DEF OutputInOrder, DataFrom
<1>5. QED
  BY <1>1, <1>2, <1>3, <1>4 DEF SessionInv, SessionTypeOK

\* Each action keeps the authorizer's answer before the lookup.
LEMMA AdmittedFirstStep == AdmittedFirst /\ [SessionNext]_sessionVars => AdmittedFirst'
<1> SUFFICES ASSUME AdmittedFirst, [SessionNext]_sessionVars PROVE AdmittedFirst'
  OBVIOUS
<1>1. CASE ServeFirst
  BY <1>1 DEF AdmittedFirst, ServeFirst, Returned, ToClient, Ended, EnqueueOutput, gateVars, ptyVars,
       policyVars, agentVars, outputVars, probeVars, clientVars
<1>2. CASE HandleAuthorizedTerminal
  BY <1>2 DEF AdmittedFirst, HandleAuthorizedTerminal, Returned, ToClient, Ended, EnqueueOutput, gateVars,
       ptyVars, policyVars, agentVars, outputVars, probeVars, clientVars
<1>3. CASE Authorize
  BY <1>3 DEF AdmittedFirst, Authorize, Returned, ToClient, Ended, EnqueueOutput, gateVars, ptyVars, policyVars,
       agentVars, outputVars, probeVars, clientVars
<1>4. CASE HandleTerminal
  BY <1>4 DEF AdmittedFirst, HandleTerminal, Returned, ToClient, Ended, EnqueueOutput, gateVars, ptyVars,
       policyVars, agentVars, outputVars, probeVars, clientVars
<1>5. CASE TrustRevoked
  BY <1>5 DEF AdmittedFirst, TrustRevoked, Returned, ToClient, Ended, EnqueueOutput, gateVars, ptyVars,
       policyVars, agentVars, outputVars, probeVars, clientVars
<1>6. CASE ShellOutput
  BY <1>6 DEF AdmittedFirst, ShellOutput, Returned, ToClient, Ended, EnqueueOutput, gateVars, ptyVars,
       policyVars, agentVars, outputVars, probeVars, clientVars
<1>7. CASE ShellExits
  BY <1>7 DEF AdmittedFirst, ShellExits, Returned, ToClient, Ended, EnqueueOutput, gateVars, ptyVars,
       policyVars, agentVars, outputVars, probeVars, clientVars
<1>8. CASE ForwardPTY
  BY <1>8 DEF AdmittedFirst, ForwardPTY, Returned, ToClient, Ended, EnqueueOutput, gateVars, ptyVars,
       policyVars, agentVars, outputVars, probeVars, clientVars
<1>9. CASE WaitForTerminalDrain
  BY <1>9 DEF AdmittedFirst, WaitForTerminalDrain, Returned, ToClient, Ended, EnqueueOutput, gateVars, ptyVars,
       policyVars, agentVars, outputVars, probeVars, clientVars
<1>10. CASE SendExit
  BY <1>10 DEF AdmittedFirst, SendExit, Returned, ToClient, Ended, EnqueueOutput, gateVars, ptyVars, policyVars,
       agentVars, outputVars, probeVars, clientVars
<1>11. CASE WaitForPeerClose
  BY <1>11 DEF AdmittedFirst, WaitForPeerClose, Returned, ToClient, Ended, EnqueueOutput, gateVars, ptyVars,
       policyVars, agentVars, outputVars, probeVars, clientVars
<1>12. CASE ReadEnded
  BY <1>12 DEF AdmittedFirst, ReadEnded, Returned, ToClient, Ended, EnqueueOutput, gateVars, ptyVars,
       policyVars, agentVars, outputVars, probeVars, clientVars
<1>13. CASE TakeFrame
  BY <1>13 DEF AdmittedFirst, TakeFrame, Returned, ToClient, Ended, EnqueueOutput, gateVars, ptyVars,
       policyVars, agentVars, outputVars, probeVars, clientVars
<1>13b. CASE PtyWrites
  BY <1>13b DEF AdmittedFirst, PtyWrites, Returned, ToClient, Ended, EnqueueOutput, gateVars, ptyVars,
       policyVars, agentVars, outputVars, probeVars, clientVars
<1>14. CASE SendPong
  BY <1>14 DEF AdmittedFirst, SendPong, Returned, ToClient, Ended, EnqueueOutput, gateVars, ptyVars, policyVars,
       agentVars, outputVars, probeVars, clientVars
<1>15. CASE TakeActivity
  BY <1>15 DEF AdmittedFirst, TakeActivity, Returned, ToClient, Ended, EnqueueOutput, gateVars, ptyVars,
       policyVars, agentVars, outputVars, probeVars, clientVars
<1>16. CASE TimerFires
  BY <1>16 DEF AdmittedFirst, TimerFires, Returned, ToClient, Ended, EnqueueOutput, gateVars, ptyVars,
       policyVars, agentVars, outputVars, probeVars, clientVars
<1>17. CASE ExpireSession
  BY <1>17 DEF AdmittedFirst, ExpireSession, Returned, ToClient, Ended, EnqueueOutput, gateVars, ptyVars,
       policyVars, agentVars, outputVars, probeVars, clientVars
<1>18. CASE ExpireCloses
  BY <1>18 DEF AdmittedFirst, ExpireCloses, Returned, ToClient, Ended, EnqueueOutput, gateVars, ptyVars,
       policyVars, agentVars, outputVars, probeVars, clientVars
<1>19. CASE SendInput
  BY <1>19 DEF AdmittedFirst, SendInput, Returned, ToClient, Ended, EnqueueOutput, gateVars, ptyVars,
       policyVars, agentVars, outputVars, probeVars, clientVars
<1>20. CASE ClientTakes
  BY <1>20 DEF AdmittedFirst, ClientTakes, Returned, ToClient, Ended, EnqueueOutput, gateVars, ptyVars,
       policyVars, agentVars, outputVars, probeVars, clientVars
<1>21. CASE ClientLoses
  BY <1>21 DEF AdmittedFirst, ClientLoses, Returned, ToClient, Ended, EnqueueOutput, gateVars, ptyVars,
       policyVars, agentVars, outputVars, probeVars, clientVars
<1>22. CASE CloseManaged
  BY <1>22 DEF AdmittedFirst, CloseManaged, Returned, ToClient, Ended, EnqueueOutput, gateVars, ptyVars,
       policyVars, agentVars, outputVars, probeVars, clientVars
<1>23. CASE OutputStalls
  BY <1>23 DEF AdmittedFirst, OutputStalls, Returned, ToClient, Ended, EnqueueOutput, gateVars, ptyVars,
       policyVars, agentVars, outputVars, probeVars, clientVars
<1>24. CASE BeginReadTerminal
  BY <1>24 DEF AdmittedFirst, BeginReadTerminal, Returned, ToClient, Ended, EnqueueOutput, gateVars, ptyVars,
       policyVars, agentVars, outputVars, probeVars, clientVars
<1>25. CASE ReadTerminal
  BY <1>25 DEF AdmittedFirst, ReadTerminal, Returned, ToClient, Ended, EnqueueOutput, gateVars, ptyVars,
       policyVars, agentVars, outputVars, probeVars, clientVars
<1>26. CASE ReaderWakes
  BY <1>26 DEF AdmittedFirst, ReaderWakes, Returned, ToClient, Ended, EnqueueOutput, gateVars, ptyVars,
       policyVars, agentVars, outputVars, probeVars, clientVars
<1>27. CASE BeginProbe
  BY <1>27 DEF AdmittedFirst, BeginProbe, Returned, ToClient, Ended, EnqueueOutput, gateVars, ptyVars,
       policyVars, agentVars, outputVars, probeVars, clientVars
<1>28. CASE EndProbe
  BY <1>28 DEF AdmittedFirst, EndProbe, Returned, ToClient, Ended, EnqueueOutput, gateVars, ptyVars, policyVars,
       agentVars, outputVars, probeVars, clientVars
<1>29. CASE UNCHANGED sessionVars
  BY <1>29 DEF AdmittedFirst, sessionVars, gateVars, ptyVars, policyVars, agentVars, outputVars, probeVars,
       clientVars
<1>30. QED
  BY <1>1, <1>2, <1>3, <1>4, <1>5, <1>6, <1>7, <1>8, <1>9, <1>10, <1>11, <1>12, <1>13, <1>13b, <1>14, <1>15, <1>16,
       <1>17, <1>18, <1>19, <1>20, <1>21, <1>22, <1>23, <1>24, <1>25, <1>26, <1>27, <1>28, <1>29
     DEF SessionNext, ServeStep, LoopStep, ClientMonitor, TerminalReader

\* Each action keeps the shell, the forwarding and the session in step.
LEMMA ShellPlacesStep == AgentEndTypeOK /\ ShellPlaces /\ [SessionNext]_sessionVars => ShellPlaces'
<1> SUFFICES ASSUME AgentEndTypeOK /\ ShellPlaces, [SessionNext]_sessionVars PROVE ShellPlaces'
  OBVIOUS
<1>1. CASE ServeFirst
  BY <1>1 DEF AgentEndTypeOK, ShellPlaces, Before, ServeFirst, Returned, ToClient, Ended, EnqueueOutput,
       gateVars, ptyVars, policyVars, agentVars, outputVars, probeVars, clientVars
<1>2. CASE HandleAuthorizedTerminal
  BY <1>2 DEF AgentEndTypeOK, ShellPlaces, Before, HandleAuthorizedTerminal, Returned, ToClient, Ended,
       EnqueueOutput, gateVars, ptyVars, policyVars, agentVars, outputVars, probeVars, clientVars
<1>3. CASE Authorize
  BY <1>3 DEF AgentEndTypeOK, ShellPlaces, Before, Authorize, Returned, ToClient, Ended, EnqueueOutput,
       gateVars, ptyVars, policyVars, agentVars, outputVars, probeVars, clientVars
<1>4. CASE HandleTerminal
  BY <1>4 DEF AgentEndTypeOK, ShellPlaces, Before, HandleTerminal, Returned, ToClient, Ended, EnqueueOutput,
       gateVars, ptyVars, policyVars, agentVars, outputVars, probeVars, clientVars
<1>5. CASE TrustRevoked
  BY <1>5 DEF AgentEndTypeOK, ShellPlaces, Before, TrustRevoked, Returned, ToClient, Ended, EnqueueOutput,
       gateVars, ptyVars, policyVars, agentVars, outputVars, probeVars, clientVars
<1>6. CASE ShellOutput
  BY <1>6 DEF AgentEndTypeOK, ShellPlaces, Before, ShellOutput, Returned, ToClient, Ended, EnqueueOutput,
       gateVars, ptyVars, policyVars, agentVars, outputVars, probeVars, clientVars
<1>7. CASE ShellExits
  BY <1>7 DEF AgentEndTypeOK, ShellPlaces, Before, ShellExits, Returned, ToClient, Ended, EnqueueOutput,
       gateVars, ptyVars, policyVars, agentVars, outputVars, probeVars, clientVars
<1>8. CASE ForwardPTY
  BY <1>8 DEF AgentEndTypeOK, ShellPlaces, Before, ForwardPTY, Returned, ToClient, Ended, EnqueueOutput,
       gateVars, ptyVars, policyVars, agentVars, outputVars, probeVars, clientVars
<1>9. CASE WaitForTerminalDrain
  BY <1>9 DEF AgentEndTypeOK, ShellPlaces, Before, WaitForTerminalDrain, Returned, ToClient, Ended,
       EnqueueOutput, gateVars, ptyVars, policyVars, agentVars, outputVars, probeVars, clientVars
<1>10. CASE SendExit
  BY <1>10 DEF AgentEndTypeOK, ShellPlaces, Before, SendExit, Returned, ToClient, Ended, EnqueueOutput,
       gateVars, ptyVars, policyVars, agentVars, outputVars, probeVars, clientVars
<1>11. CASE WaitForPeerClose
  BY <1>11 DEF AgentEndTypeOK, ShellPlaces, Before, WaitForPeerClose, Returned, ToClient, Ended, EnqueueOutput,
       gateVars, ptyVars, policyVars, agentVars, outputVars, probeVars, clientVars
<1>12. CASE ReadEnded
  BY <1>12 DEF AgentEndTypeOK, ShellPlaces, Before, ReadEnded, Returned, ToClient, Ended, EnqueueOutput,
       gateVars, ptyVars, policyVars, agentVars, outputVars, probeVars, clientVars
<1>13. CASE TakeFrame
  BY <1>13 DEF AgentEndTypeOK, ShellPlaces, Before, TakeFrame, Returned, ToClient, Ended, EnqueueOutput,
       gateVars, ptyVars, policyVars, agentVars, outputVars, probeVars, clientVars
<1>13b. CASE PtyWrites
  BY <1>13b DEF AgentEndTypeOK, ShellPlaces, Before, PtyWrites, Returned, ToClient, Ended, EnqueueOutput,
       gateVars, ptyVars, policyVars, agentVars, outputVars, probeVars, clientVars
<1>14. CASE SendPong
  BY <1>14 DEF AgentEndTypeOK, ShellPlaces, Before, SendPong, Returned, ToClient, Ended, EnqueueOutput,
       gateVars, ptyVars, policyVars, agentVars, outputVars, probeVars, clientVars
<1>15. CASE TakeActivity
  BY <1>15 DEF AgentEndTypeOK, ShellPlaces, Before, TakeActivity, Returned, ToClient, Ended, EnqueueOutput,
       gateVars, ptyVars, policyVars, agentVars, outputVars, probeVars, clientVars
<1>16. CASE TimerFires
  BY <1>16 DEF AgentEndTypeOK, ShellPlaces, Before, TimerFires, Returned, ToClient, Ended, EnqueueOutput,
       gateVars, ptyVars, policyVars, agentVars, outputVars, probeVars, clientVars
<1>17. CASE ExpireSession
  BY <1>17 DEF AgentEndTypeOK, ShellPlaces, Before, ExpireSession, Returned, ToClient, Ended, EnqueueOutput,
       gateVars, ptyVars, policyVars, agentVars, outputVars, probeVars, clientVars
<1>18. CASE ExpireCloses
  BY <1>18 DEF AgentEndTypeOK, ShellPlaces, Before, ExpireCloses, Returned, ToClient, Ended, EnqueueOutput,
       gateVars, ptyVars, policyVars, agentVars, outputVars, probeVars, clientVars
<1>19. CASE SendInput
  BY <1>19 DEF AgentEndTypeOK, ShellPlaces, Before, SendInput, Returned, ToClient, Ended, EnqueueOutput,
       gateVars, ptyVars, policyVars, agentVars, outputVars, probeVars, clientVars
<1>20. CASE ClientTakes
  BY <1>20 DEF AgentEndTypeOK, ShellPlaces, Before, ClientTakes, Returned, ToClient, Ended, EnqueueOutput,
       gateVars, ptyVars, policyVars, agentVars, outputVars, probeVars, clientVars
<1>21. CASE ClientLoses
  BY <1>21 DEF AgentEndTypeOK, ShellPlaces, Before, ClientLoses, Returned, ToClient, Ended, EnqueueOutput,
       gateVars, ptyVars, policyVars, agentVars, outputVars, probeVars, clientVars
<1>22. CASE CloseManaged
  BY <1>22 DEF AgentEndTypeOK, ShellPlaces, Before, CloseManaged, Returned, ToClient, Ended, EnqueueOutput,
       gateVars, ptyVars, policyVars, agentVars, outputVars, probeVars, clientVars
<1>23. CASE OutputStalls
  BY <1>23 DEF AgentEndTypeOK, ShellPlaces, Before, OutputStalls, Returned, ToClient, Ended, EnqueueOutput,
       gateVars, ptyVars, policyVars, agentVars, outputVars, probeVars, clientVars
<1>24. CASE BeginReadTerminal
  BY <1>24 DEF AgentEndTypeOK, ShellPlaces, Before, BeginReadTerminal, Returned, ToClient, Ended, EnqueueOutput,
       gateVars, ptyVars, policyVars, agentVars, outputVars, probeVars, clientVars
<1>25. CASE ReadTerminal
  BY <1>25 DEF AgentEndTypeOK, ShellPlaces, Before, ReadTerminal, Returned, ToClient, Ended, EnqueueOutput,
       gateVars, ptyVars, policyVars, agentVars, outputVars, probeVars, clientVars
<1>26. CASE ReaderWakes
  BY <1>26 DEF AgentEndTypeOK, ShellPlaces, Before, ReaderWakes, Returned, ToClient, Ended, EnqueueOutput,
       gateVars, ptyVars, policyVars, agentVars, outputVars, probeVars, clientVars
<1>27. CASE BeginProbe
  BY <1>27 DEF AgentEndTypeOK, ShellPlaces, Before, BeginProbe, Returned, ToClient, Ended, EnqueueOutput,
       gateVars, ptyVars, policyVars, agentVars, outputVars, probeVars, clientVars
<1>28. CASE EndProbe
  BY <1>28 DEF AgentEndTypeOK, ShellPlaces, Before, EndProbe, Returned, ToClient, Ended, EnqueueOutput,
       gateVars, ptyVars, policyVars, agentVars, outputVars, probeVars, clientVars
<1>29. CASE UNCHANGED sessionVars
  BY <1>29 DEF AgentEndTypeOK, ShellPlaces, Before, sessionVars, gateVars, ptyVars, policyVars, agentVars,
       outputVars, probeVars, clientVars
<1>30. QED
  BY <1>1, <1>2, <1>3, <1>4, <1>5, <1>6, <1>7, <1>8, <1>9, <1>10, <1>11, <1>12, <1>13, <1>13b, <1>14, <1>15, <1>16,
       <1>17, <1>18, <1>19, <1>20, <1>21, <1>22, <1>23, <1>24, <1>25, <1>26, <1>27, <1>28, <1>29
     DEF SessionNext, ServeStep, LoopStep, ClientMonitor, TerminalReader

\* Each action keeps the end of the output final.
LEMMA EndIsEmptyStep == ClientEndTypeOK /\ EndIsEmpty /\ [SessionNext]_sessionVars => EndIsEmpty'
<1> SUFFICES ASSUME ClientEndTypeOK /\ EndIsEmpty, [SessionNext]_sessionVars PROVE EndIsEmpty'
  OBVIOUS
<1>1. CASE ServeFirst
  BY <1>1 DEF ClientEndTypeOK, EndIsEmpty, ServeFirst, Returned, ToClient, Ended, EnqueueOutput, gateVars,
       ptyVars, policyVars, agentVars, outputVars, probeVars, clientVars
<1>2. CASE HandleAuthorizedTerminal
  BY <1>2 DEF ClientEndTypeOK, EndIsEmpty, HandleAuthorizedTerminal, Returned, ToClient, Ended, EnqueueOutput,
       gateVars, ptyVars, policyVars, agentVars, outputVars, probeVars, clientVars
<1>3. CASE Authorize
  BY <1>3 DEF ClientEndTypeOK, EndIsEmpty, Authorize, Returned, ToClient, Ended, EnqueueOutput, gateVars,
       ptyVars, policyVars, agentVars, outputVars, probeVars, clientVars
<1>4. CASE HandleTerminal
  BY <1>4 DEF ClientEndTypeOK, EndIsEmpty, HandleTerminal, Returned, ToClient, Ended, EnqueueOutput, gateVars,
       ptyVars, policyVars, agentVars, outputVars, probeVars, clientVars
<1>5. CASE TrustRevoked
  BY <1>5 DEF ClientEndTypeOK, EndIsEmpty, TrustRevoked, Returned, ToClient, Ended, EnqueueOutput, gateVars,
       ptyVars, policyVars, agentVars, outputVars, probeVars, clientVars
<1>6. CASE ShellOutput
  BY <1>6 DEF ClientEndTypeOK, EndIsEmpty, ShellOutput, Returned, ToClient, Ended, EnqueueOutput, gateVars,
       ptyVars, policyVars, agentVars, outputVars, probeVars, clientVars
<1>7. CASE ShellExits
  BY <1>7 DEF ClientEndTypeOK, EndIsEmpty, ShellExits, Returned, ToClient, Ended, EnqueueOutput, gateVars,
       ptyVars, policyVars, agentVars, outputVars, probeVars, clientVars
<1>8. CASE ForwardPTY
  BY <1>8 DEF ClientEndTypeOK, EndIsEmpty, ForwardPTY, Returned, ToClient, Ended, EnqueueOutput, gateVars,
       ptyVars, policyVars, agentVars, outputVars, probeVars, clientVars
<1>9. CASE WaitForTerminalDrain
  BY <1>9 DEF ClientEndTypeOK, EndIsEmpty, WaitForTerminalDrain, Returned, ToClient, Ended, EnqueueOutput,
       gateVars, ptyVars, policyVars, agentVars, outputVars, probeVars, clientVars
<1>10. CASE SendExit
  BY <1>10 DEF ClientEndTypeOK, EndIsEmpty, SendExit, Returned, ToClient, Ended, EnqueueOutput, gateVars,
       ptyVars, policyVars, agentVars, outputVars, probeVars, clientVars
<1>11. CASE WaitForPeerClose
  BY <1>11 DEF ClientEndTypeOK, EndIsEmpty, WaitForPeerClose, Returned, ToClient, Ended, EnqueueOutput,
       gateVars, ptyVars, policyVars, agentVars, outputVars, probeVars, clientVars
<1>12. CASE ReadEnded
  BY <1>12 DEF ClientEndTypeOK, EndIsEmpty, ReadEnded, Returned, ToClient, Ended, EnqueueOutput, gateVars,
       ptyVars, policyVars, agentVars, outputVars, probeVars, clientVars
<1>13. CASE TakeFrame
  BY <1>13 DEF ClientEndTypeOK, EndIsEmpty, TakeFrame, Returned, ToClient, Ended, EnqueueOutput, gateVars,
       ptyVars, policyVars, agentVars, outputVars, probeVars, clientVars
<1>13b. CASE PtyWrites
  BY <1>13b DEF ClientEndTypeOK, EndIsEmpty, PtyWrites, Returned, ToClient, Ended, EnqueueOutput,
       gateVars, ptyVars, policyVars, agentVars, outputVars, probeVars, clientVars
<1>14. CASE SendPong
  BY <1>14 DEF ClientEndTypeOK, EndIsEmpty, SendPong, Returned, ToClient, Ended, EnqueueOutput, gateVars,
       ptyVars, policyVars, agentVars, outputVars, probeVars, clientVars
<1>15. CASE TakeActivity
  BY <1>15 DEF ClientEndTypeOK, EndIsEmpty, TakeActivity, Returned, ToClient, Ended, EnqueueOutput, gateVars,
       ptyVars, policyVars, agentVars, outputVars, probeVars, clientVars
<1>16. CASE TimerFires
  BY <1>16 DEF ClientEndTypeOK, EndIsEmpty, TimerFires, Returned, ToClient, Ended, EnqueueOutput, gateVars,
       ptyVars, policyVars, agentVars, outputVars, probeVars, clientVars
<1>17. CASE ExpireSession
  BY <1>17 DEF ClientEndTypeOK, EndIsEmpty, ExpireSession, Returned, ToClient, Ended, EnqueueOutput, gateVars,
       ptyVars, policyVars, agentVars, outputVars, probeVars, clientVars
<1>18. CASE ExpireCloses
  BY <1>18 DEF ClientEndTypeOK, EndIsEmpty, ExpireCloses, Returned, ToClient, Ended, EnqueueOutput, gateVars,
       ptyVars, policyVars, agentVars, outputVars, probeVars, clientVars
<1>19. CASE SendInput
  BY <1>19 DEF ClientEndTypeOK, EndIsEmpty, SendInput, Returned, ToClient, Ended, EnqueueOutput, gateVars,
       ptyVars, policyVars, agentVars, outputVars, probeVars, clientVars
<1>20. CASE ClientTakes
  BY <1>20 DEF ClientEndTypeOK, EndIsEmpty, ClientTakes, Returned, ToClient, Ended, EnqueueOutput, gateVars,
       ptyVars, policyVars, agentVars, outputVars, probeVars, clientVars
<1>21. CASE ClientLoses
  BY <1>21 DEF ClientEndTypeOK, EndIsEmpty, ClientLoses, Returned, ToClient, Ended, EnqueueOutput, gateVars,
       ptyVars, policyVars, agentVars, outputVars, probeVars, clientVars
<1>22. CASE CloseManaged
  BY <1>22 DEF ClientEndTypeOK, EndIsEmpty, CloseManaged, Returned, ToClient, Ended, EnqueueOutput, gateVars,
       ptyVars, policyVars, agentVars, outputVars, probeVars, clientVars
<1>23. CASE OutputStalls
  BY <1>23 DEF ClientEndTypeOK, EndIsEmpty, OutputStalls, Returned, ToClient, Ended, EnqueueOutput, gateVars,
       ptyVars, policyVars, agentVars, outputVars, probeVars, clientVars
<1>24. CASE BeginReadTerminal
  BY <1>24 DEF ClientEndTypeOK, EndIsEmpty, BeginReadTerminal, Returned, ToClient, Ended, EnqueueOutput,
       gateVars, ptyVars, policyVars, agentVars, outputVars, probeVars, clientVars
<1>25. CASE ReadTerminal
  BY <1>25 DEF ClientEndTypeOK, EndIsEmpty, ReadTerminal, Returned, ToClient, Ended, EnqueueOutput, gateVars,
       ptyVars, policyVars, agentVars, outputVars, probeVars, clientVars
<1>26. CASE ReaderWakes
  BY <1>26 DEF ClientEndTypeOK, EndIsEmpty, ReaderWakes, Returned, ToClient, Ended, EnqueueOutput, gateVars,
       ptyVars, policyVars, agentVars, outputVars, probeVars, clientVars
<1>27. CASE BeginProbe
  BY <1>27 DEF ClientEndTypeOK, EndIsEmpty, BeginProbe, Returned, ToClient, Ended, EnqueueOutput, gateVars,
       ptyVars, policyVars, agentVars, outputVars, probeVars, clientVars
<1>28. CASE EndProbe
  BY <1>28 DEF ClientEndTypeOK, EndIsEmpty, EndProbe, Returned, ToClient, Ended, EnqueueOutput, gateVars,
       ptyVars, policyVars, agentVars, outputVars, probeVars, clientVars
<1>29. CASE UNCHANGED sessionVars
  BY <1>29 DEF ClientEndTypeOK, EndIsEmpty, sessionVars, gateVars, ptyVars, policyVars, agentVars, outputVars,
       probeVars, clientVars
<1>30. QED
  BY <1>1, <1>2, <1>3, <1>4, <1>5, <1>6, <1>7, <1>8, <1>9, <1>10, <1>11, <1>12, <1>13, <1>13b, <1>14, <1>15, <1>16,
       <1>17, <1>18, <1>19, <1>20, <1>21, <1>22, <1>23, <1>24, <1>25, <1>26, <1>27, <1>28, <1>29
     DEF SessionNext, ServeStep, LoopStep, ClientMonitor, TerminalReader

-----------------------------------------------------------------------------
(* The order of the frames.                                                 *)

\* A Close is under way after a write if it was before or is what was written.
LEMMA CloseWrites ==
    ASSUME NEW S, NEW w \in Seq(S), NEW f \in S
    PROVE  /\ HasClose(Append(w, f)) => HasClose(w) \/ f.type = "close"
           /\ w # <<>> /\ HasClose(Tail(w)) => HasClose(w)
<1>1. HasClose(Append(w, f)) => HasClose(w) \/ f.type = "close"
  <2> SUFFICES ASSUME NEW i \in 1..Len(Append(w, f)), Append(w, f)[i].type = "close"
               PROVE  HasClose(w) \/ f.type = "close"
    BY DEF HasClose
  <2>1. i \in 1..Len(w) \/ i = Len(w) + 1
    OBVIOUS
  <2>2. QED
    BY <2>1, AppendProperties DEF HasClose
<1>2. w # <<>> /\ HasClose(Tail(w)) => HasClose(w)
  <2> SUFFICES ASSUME w # <<>>, NEW i \in 1..Len(Tail(w)), Tail(w)[i].type = "close" PROVE HasClose(w)
    BY DEF HasClose
  <2>1. i + 1 \in 1..Len(w) /\ Tail(w)[i] = w[i + 1]
    OBVIOUS
  <2>2. QED
    BY <2>1 DEF HasClose
<1>3. QED
  BY <1>1, <1>2

\* Each action keeps the Close behind all output.
LEMMA CloseIsLastStep == AgentEndTypeOK /\ WireTypeOK /\ ShellPlaces /\ CloseIsLast /\ [SessionNext]_sessionVars => CloseIsLast'
<1> SUFFICES ASSUME AgentEndTypeOK /\ WireTypeOK /\ ShellPlaces /\ CloseIsLast, [SessionNext]_sessionVars PROVE CloseIsLast'
  OBVIOUS
<1>1. CASE ServeFirst
  BY <1>1 DEF AgentEndTypeOK, ShellPlaces, CloseIsLast, HasClose, ServeFirst, Returned, ToClient, Ended,
       EnqueueOutput, gateVars, ptyVars, policyVars, agentVars, outputVars, probeVars, clientVars
<1>2. CASE HandleAuthorizedTerminal
  BY <1>2 DEF AgentEndTypeOK, ShellPlaces, CloseIsLast, HasClose, HandleAuthorizedTerminal, Returned, ToClient,
       Ended, EnqueueOutput, gateVars, ptyVars, policyVars, agentVars, outputVars, probeVars, clientVars
<1>3. CASE Authorize
  BY <1>3 DEF AgentEndTypeOK, ShellPlaces, CloseIsLast, HasClose, Authorize, Returned, ToClient, Ended,
       EnqueueOutput, gateVars, ptyVars, policyVars, agentVars, outputVars, probeVars, clientVars
<1>4. CASE HandleTerminal
  <2>1. \/ UNCHANGED toClient
        \/ toClient' = Append(toClient, TermFrame("accepted", 0))
    BY <1>4 DEF HandleTerminal, ToClient
  <2>2. HasClose(toClient)' => HasClose(toClient)
    <3>1. toClient \in Seq(TermFrames) /\ (TRUE => TermFrame("accepted", 0) \in TermFrames)
      BY WireTypes DEF WireTypeOK
    <3>2. TermFrame("accepted", 0).type = "accepted"
      BY DEF TermFrame
    <3>3. QED
      BY <2>1, <3>1, <3>2, CloseWrites
  <2>3. QED
    BY <1>4, <2>2 DEF HandleTerminal, Returned, CloseIsLast, ShellPlaces, AgentEndTypeOK, HasClose, Before,
         gateVars, ptyVars, policyVars, clientVars
<1>5. CASE TrustRevoked
  BY <1>5 DEF AgentEndTypeOK, ShellPlaces, CloseIsLast, HasClose, TrustRevoked, Returned, ToClient, Ended,
       EnqueueOutput, gateVars, ptyVars, policyVars, agentVars, outputVars, probeVars, clientVars
<1>6. CASE ShellOutput
  BY <1>6 DEF AgentEndTypeOK, ShellPlaces, CloseIsLast, HasClose, ShellOutput, Returned, ToClient, Ended,
       EnqueueOutput, gateVars, ptyVars, policyVars, agentVars, outputVars, probeVars, clientVars
<1>7. CASE ShellExits
  BY <1>7 DEF AgentEndTypeOK, ShellPlaces, CloseIsLast, HasClose, ShellExits, Returned, ToClient, Ended,
       EnqueueOutput, gateVars, ptyVars, policyVars, agentVars, outputVars, probeVars, clientVars
<1>8. CASE ForwardPTY
  <2>1. \/ UNCHANGED toClient
        \/ taken < made /\ toClient' = Append(toClient, TermFrame("data", taken + 1))
    BY <1>8 DEF ForwardPTY, ToClient
  <2>2. HasClose(toClient)' => HasClose(toClient)
    <3>1. toClient \in Seq(TermFrames) /\ (taken < made /\ TRUE => TermFrame("data", taken + 1) \in TermFrames)
      BY WireTypes DEF WireTypeOK
    <3>2. TermFrame("data", taken + 1).type = "data"
      BY DEF TermFrame
    <3>3. QED
      BY <2>1, <3>1, <3>2, CloseWrites
  <2>3. QED
    BY <1>8, <2>2 DEF ForwardPTY, Returned, CloseIsLast, ShellPlaces, AgentEndTypeOK, HasClose, Before,
         gateVars, ptyVars, policyVars, clientVars
<1>9. CASE WaitForTerminalDrain
  BY <1>9 DEF AgentEndTypeOK, ShellPlaces, CloseIsLast, HasClose, WaitForTerminalDrain, Returned, ToClient,
       Ended, EnqueueOutput, gateVars, ptyVars, policyVars, agentVars, outputVars, probeVars, clientVars
<1>10. CASE SendExit
  BY <1>10 DEF SendExit, Returned, ToClient, CloseIsLast, ShellPlaces
<1>11. CASE WaitForPeerClose
  BY <1>11 DEF AgentEndTypeOK, ShellPlaces, CloseIsLast, HasClose, WaitForPeerClose, Returned, ToClient, Ended,
       EnqueueOutput, gateVars, ptyVars, policyVars, agentVars, outputVars, probeVars, clientVars
<1>12. CASE ReadEnded
  BY <1>12 DEF AgentEndTypeOK, ShellPlaces, CloseIsLast, HasClose, ReadEnded, Returned, ToClient, Ended,
       EnqueueOutput, gateVars, ptyVars, policyVars, agentVars, outputVars, probeVars, clientVars
<1>13. CASE TakeFrame
  BY <1>13 DEF AgentEndTypeOK, ShellPlaces, CloseIsLast, HasClose, TakeFrame, Returned, ToClient, Ended,
       EnqueueOutput, gateVars, ptyVars, policyVars, agentVars, outputVars, probeVars, clientVars
<1>13b. CASE PtyWrites
  BY <1>13b DEF AgentEndTypeOK, ShellPlaces, CloseIsLast, HasClose, PtyWrites, Returned, ToClient, Ended,
       EnqueueOutput, gateVars, ptyVars, policyVars, agentVars, outputVars, probeVars, clientVars
<1>14. CASE SendPong
  <2>1. \/ UNCHANGED toClient
        \/ toClient' = Append(toClient, TermFrame("pong", 0))
    BY <1>14 DEF SendPong, ToClient
  <2>2. HasClose(toClient)' => HasClose(toClient)
    <3>1. toClient \in Seq(TermFrames) /\ (TRUE => TermFrame("pong", 0) \in TermFrames)
      BY WireTypes DEF WireTypeOK
    <3>2. TermFrame("pong", 0).type = "pong"
      BY DEF TermFrame
    <3>3. QED
      BY <2>1, <3>1, <3>2, CloseWrites
  <2>3. QED
    BY <1>14, <2>2 DEF SendPong, Returned, CloseIsLast, ShellPlaces, AgentEndTypeOK, HasClose, Before, gateVars,
         ptyVars, policyVars, clientVars
<1>15. CASE TakeActivity
  BY <1>15 DEF AgentEndTypeOK, ShellPlaces, CloseIsLast, HasClose, TakeActivity, Returned, ToClient, Ended,
       EnqueueOutput, gateVars, ptyVars, policyVars, agentVars, outputVars, probeVars, clientVars
<1>16. CASE TimerFires
  BY <1>16 DEF AgentEndTypeOK, ShellPlaces, CloseIsLast, HasClose, TimerFires, Returned, ToClient, Ended,
       EnqueueOutput, gateVars, ptyVars, policyVars, agentVars, outputVars, probeVars, clientVars
<1>17. CASE ExpireSession
  BY <1>17 DEF AgentEndTypeOK, ShellPlaces, CloseIsLast, HasClose, ExpireSession, Returned, ToClient, Ended,
       EnqueueOutput, gateVars, ptyVars, policyVars, agentVars, outputVars, probeVars, clientVars
<1>18. CASE ExpireCloses
  <2>1. \/ UNCHANGED toClient
        \/ toClient' = Append(toClient, TermFrame("policy", 0))
    BY <1>18 DEF ExpireCloses, ToClient
  <2>2. HasClose(toClient)' => HasClose(toClient)
    <3>1. toClient \in Seq(TermFrames) /\ (TRUE => TermFrame("policy", 0) \in TermFrames)
      BY WireTypes DEF WireTypeOK
    <3>2. TermFrame("policy", 0).type = "policy"
      BY DEF TermFrame
    <3>3. QED
      BY <2>1, <3>1, <3>2, CloseWrites
  <2>3. QED
    BY <1>18, <2>2 DEF ExpireCloses, Returned, CloseIsLast, ShellPlaces, AgentEndTypeOK, HasClose, Before,
         gateVars, ptyVars, policyVars, clientVars
<1>19. CASE SendInput
  BY <1>19 DEF AgentEndTypeOK, ShellPlaces, CloseIsLast, HasClose, SendInput, Returned, ToClient, Ended,
       EnqueueOutput, gateVars, ptyVars, policyVars, agentVars, outputVars, probeVars, clientVars
<1>20. CASE ClientTakes
  <2>1. toClient # <<>> /\ toClient' = Tail(toClient) /\ UNCHANGED <<taken, made, shell>>
    BY <1>20 DEF ClientTakes, agentVars, ptyVars
  <2>2. HasClose(toClient)' => HasClose(toClient)
    <3>1. toClient \in Seq(TermFrames) /\ TermFrame("pong", 0) \in TermFrames
      BY WireTypes DEF WireTypeOK
    <3>2. QED
      BY <2>1, <3>1, CloseWrites
  <2>3. QED
    BY <2>1, <2>2 DEF CloseIsLast
<1>21. CASE ClientLoses
  BY <1>21 DEF AgentEndTypeOK, ShellPlaces, CloseIsLast, HasClose, ClientLoses, Returned, ToClient, Ended,
       EnqueueOutput, gateVars, ptyVars, policyVars, agentVars, outputVars, probeVars, clientVars
<1>22. CASE CloseManaged
  BY <1>22 DEF AgentEndTypeOK, ShellPlaces, CloseIsLast, HasClose, CloseManaged, Returned, ToClient, Ended,
       EnqueueOutput, gateVars, ptyVars, policyVars, agentVars, outputVars, probeVars, clientVars
<1>23. CASE OutputStalls
  BY <1>23 DEF AgentEndTypeOK, ShellPlaces, CloseIsLast, HasClose, OutputStalls, Returned, ToClient, Ended,
       EnqueueOutput, gateVars, ptyVars, policyVars, agentVars, outputVars, probeVars, clientVars
<1>24. CASE BeginReadTerminal
  BY <1>24 DEF AgentEndTypeOK, ShellPlaces, CloseIsLast, HasClose, BeginReadTerminal, Returned, ToClient, Ended,
       EnqueueOutput, gateVars, ptyVars, policyVars, agentVars, outputVars, probeVars, clientVars
<1>25. CASE ReadTerminal
  BY <1>25 DEF AgentEndTypeOK, ShellPlaces, CloseIsLast, HasClose, ReadTerminal, Returned, ToClient, Ended,
       EnqueueOutput, gateVars, ptyVars, policyVars, agentVars, outputVars, probeVars, clientVars
<1>26. CASE ReaderWakes
  BY <1>26 DEF AgentEndTypeOK, ShellPlaces, CloseIsLast, HasClose, ReaderWakes, Returned, ToClient, Ended,
       EnqueueOutput, gateVars, ptyVars, policyVars, agentVars, outputVars, probeVars, clientVars
<1>27. CASE BeginProbe
  BY <1>27 DEF AgentEndTypeOK, ShellPlaces, CloseIsLast, HasClose, BeginProbe, Returned, ToClient, Ended,
       EnqueueOutput, gateVars, ptyVars, policyVars, agentVars, outputVars, probeVars, clientVars
<1>28. CASE EndProbe
  BY <1>28 DEF AgentEndTypeOK, ShellPlaces, CloseIsLast, HasClose, EndProbe, Returned, ToClient, Ended,
       EnqueueOutput, gateVars, ptyVars, policyVars, agentVars, outputVars, probeVars, clientVars
<1>29. CASE UNCHANGED sessionVars
  BY <1>29 DEF AgentEndTypeOK, ShellPlaces, CloseIsLast, HasClose, sessionVars, gateVars, ptyVars, policyVars,
       agentVars, outputVars, probeVars, clientVars
<1>30. QED
  BY <1>1, <1>2, <1>3, <1>4, <1>5, <1>6, <1>7, <1>8, <1>9, <1>10, <1>11, <1>12, <1>13, <1>13b, <1>14, <1>15, <1>16,
       <1>17, <1>18, <1>19, <1>20, <1>21, <1>22, <1>23, <1>24, <1>25, <1>26, <1>27, <1>28, <1>29
     DEF SessionNext, ServeStep, LoopStep, ClientMonitor, TerminalReader

\* A chunk is written with the next number, and other frames count for nothing.
LEMMA DataWrites ==
    ASSUME NEW w \in Seq(TermFrames), NEW f \in TermFrames, NEW a \in Nat, NEW t \in Nat, DataFrom(w, a, t)
    PROVE  /\ f.type # "data" => DataFrom(Append(w, f), a, t)
           /\ f.type = "data" /\ f.n = t + 1 /\ a <= t => DataFrom(Append(w, f), a, t + 1)
<1> DEFINE v == Append(w, f)
<1>1. /\ Len(v) = Len(w) + 1 /\ Len(w) \in Nat /\ v[Len(w) + 1] = f
      /\ \A i \in 1..Len(w) : v[i] = w[i]
  BY AppendProperties
<1>2. \A i \in 1..Len(v) : i \in 1..Len(w) \/ i = Len(w) + 1
  BY <1>1
<1>3. \A i \in 1..Len(w) : i \in 1..Len(v)
  BY <1>1
<1> HIDE DEF v
<1>4. ASSUME f.type # "data" PROVE DataFrom(v, a, t)
  BY <1>1, <1>2, <1>3, <1>4 DEF DataFrom
<1>5. ASSUME f.type = "data", f.n = t + 1, a <= t PROVE DataFrom(v, a, t + 1)
  <2>1. \A i \in 1..Len(v) : v[i].type = "data" => v[i].n \in (a + 1)..(t + 1)
    <3> SUFFICES ASSUME NEW i \in 1..Len(v), v[i].type = "data" PROVE v[i].n \in (a + 1)..(t + 1)
      OBVIOUS
    <3>1. CASE i \in 1..Len(w)
      <4>1. v[i].n \in (a + 1)..t
        BY <1>1, <3>1 DEF DataFrom
      <4>2. QED
        BY <4>1
    <3>2. CASE i = Len(w) + 1
      BY <1>1, <1>5, <3>2
    <3>3. QED
      BY <1>2, <3>1, <3>2
  <2>2. \A i, j \in 1..Len(v) : i < j /\ v[i].type = "data" /\ v[j].type = "data" => v[i].n < v[j].n
    <3> SUFFICES ASSUME NEW i \in 1..Len(v), NEW j \in 1..Len(v), i < j, v[i].type = "data", v[j].type = "data"
                 PROVE  v[i].n < v[j].n
      OBVIOUS
    <3>1. i \in 1..Len(w)
      BY <1>1, <1>2
    <3>2. v[i].n \in (a + 1)..t
      BY <1>1, <3>1 DEF DataFrom
    <3>3. CASE j \in 1..Len(w)
      BY <1>1, <3>1, <3>3 DEF DataFrom
    <3>4. CASE j = Len(w) + 1
      BY <1>1, <1>5, <3>2, <3>4
    <3>5. QED
      BY <1>2, <3>3, <3>4
  <2>3. \A m \in (a + 1)..(t + 1) : \E i \in 1..Len(v) : v[i].type = "data" /\ v[i].n = m
    <3> SUFFICES ASSUME NEW m \in (a + 1)..(t + 1) PROVE \E i \in 1..Len(v) : v[i].type = "data" /\ v[i].n = m
      OBVIOUS
    <3>1. CASE m = t + 1
      BY <1>1, <1>5, <3>1
    <3>2. CASE m # t + 1
      <4>1. m \in (a + 1)..t
        BY <3>2
      <4>2. QED
        BY <1>1, <1>3, <4>1 DEF DataFrom
    <3>3. QED
      BY <3>1, <3>2
  <2>4. QED
    BY <2>1, <2>2, <2>3 DEF DataFrom
<1>6. QED
  BY <1>4, <1>5 DEF v

\* The first data frame has the first number.
LEMMA DataReads ==
    ASSUME NEW w \in Seq(TermFrames), w # <<>>, NEW a \in Nat, NEW t \in Nat, DataFrom(w, a, t)
    PROVE  /\ Head(w).type # "data" => DataFrom(Tail(w), a, t)
           /\ Head(w).type = "data" => Head(w).n = a + 1 /\ a + 1 <= t /\ DataFrom(Tail(w), a + 1, t)
<1> DEFINE v == Tail(w)
<1>1. /\ Len(v) = Len(w) - 1 /\ Len(w) \in Nat /\ Len(w) > 0 /\ Head(w) = w[1]
      /\ \A i \in 1..Len(v) : v[i] = w[i + 1]
  OBVIOUS
<1>2. \A i \in 1..Len(v) : i + 1 \in 1..Len(w)
  BY <1>1
<1>3. \A i \in 1..Len(w) : i # 1 => i - 1 \in 1..Len(v) /\ v[i - 1] = w[i]
  BY <1>1
<1>4. 1 \in 1..Len(w)
  BY <1>1
<1> HIDE DEF v
<1>5. \A i, j \in 1..Len(v) : i < j /\ v[i].type = "data" /\ v[j].type = "data" => v[i].n < v[j].n
  <2> SUFFICES ASSUME NEW i \in 1..Len(v), NEW j \in 1..Len(v), i < j, v[i].type = "data", v[j].type = "data"
               PROVE  v[i].n < v[j].n
    OBVIOUS
  <2>1. i + 1 \in 1..Len(w) /\ j + 1 \in 1..Len(w) /\ i + 1 < j + 1 /\ v[i] = w[i + 1] /\ v[j] = w[j + 1]
    BY <1>1, <1>2
  <2>2. QED
    BY <2>1 DEF DataFrom
<1>6. ASSUME Head(w).type # "data" PROVE DataFrom(v, a, t)
  <2>1. \A i \in 1..Len(v) : v[i].type = "data" => v[i].n \in (a + 1)..t
    BY <1>1, <1>2 DEF DataFrom
  <2>2. \A m \in (a + 1)..t : \E i \in 1..Len(v) : v[i].type = "data" /\ v[i].n = m
    <3> SUFFICES ASSUME NEW m \in (a + 1)..t PROVE \E i \in 1..Len(v) : v[i].type = "data" /\ v[i].n = m
      OBVIOUS
    <3>1. PICK i \in 1..Len(w) : w[i].type = "data" /\ w[i].n = m
      BY DEF DataFrom
    <3>2. QED
      BY <1>1, <1>3, <1>6, <3>1
  <2>3. QED
    BY <1>5, <2>1, <2>2 DEF DataFrom
<1>7. ASSUME Head(w).type = "data" PROVE Head(w).n = a + 1 /\ a + 1 <= t /\ DataFrom(v, a + 1, t)
  <2>1. w[1].type = "data" /\ w[1].n \in (a + 1)..t
    BY <1>1, <1>4, <1>7 DEF DataFrom
  <2>2. a + 1 <= t
    BY <2>1
  <2>3. PICK i \in 1..Len(w) : w[i].type = "data" /\ w[i].n = a + 1
    BY <2>2 DEF DataFrom
  <2>4. w[1].n = a + 1
    <3>1. i = 1 \/ w[1].n < w[i].n
      BY <1>1, <1>4, <2>1, <2>3 DEF DataFrom
    <3>2. QED
      BY <2>1, <2>3, <3>1
  <2>5. \A k \in 1..Len(v) : v[k].type = "data" => v[k].n \in (a + 2)..t
    <3> SUFFICES ASSUME NEW k \in 1..Len(v), v[k].type = "data" PROVE v[k].n \in (a + 2)..t
      OBVIOUS
    <3>1. k + 1 \in 1..Len(w) /\ 1 < k + 1 /\ v[k] = w[k + 1]
      BY <1>1, <1>2
    <3>2. w[1].n < v[k].n /\ v[k].n \in (a + 1)..t
      BY <1>4, <2>1, <3>1 DEF DataFrom
    <3>3. QED
      BY <2>4, <3>2
  <2>6. \A m \in (a + 2)..t : \E k \in 1..Len(v) : v[k].type = "data" /\ v[k].n = m
    <3> SUFFICES ASSUME NEW m \in (a + 2)..t PROVE \E k \in 1..Len(v) : v[k].type = "data" /\ v[k].n = m
      OBVIOUS
    <3>1. PICK k \in 1..Len(w) : w[k].type = "data" /\ w[k].n = m
      BY DEF DataFrom
    <3>2. k # 1
      BY <2>4, <3>1
    <3>3. QED
      BY <1>3, <3>1, <3>2
  <2>7. (a + 1) + 1 = a + 2
    OBVIOUS
  <2>8. DataFrom(v, a + 1, t)
    BY <1>5, <2>5, <2>6, <2>7 DEF DataFrom
  <2>9. QED
    BY <1>1, <2>2, <2>4, <2>8
<1>8. QED
  BY <1>6, <1>7 DEF v

\* Each action keeps the output whole and in order.
LEMMA OutputInOrderStep == AgentEndTypeOK /\ WireTypeOK /\ ClientEndTypeOK /\ EndIsEmpty /\ OutputInOrder /\ [SessionNext]_sessionVars => OutputInOrder'
<1> SUFFICES ASSUME AgentEndTypeOK /\ WireTypeOK /\ ClientEndTypeOK /\ EndIsEmpty /\ OutputInOrder, [SessionNext]_sessionVars PROVE OutputInOrder'
  OBVIOUS
<1>c. /\ toClient \in Seq(TermFrames) /\ queue \in Seq(0..MaxOutput) /\ read \in Seq(0..MaxOutput)
      /\ Len(queue) \in Nat /\ Len(read) \in Nat /\ Len(read) + Len(queue) \in Nat /\ taken \in Nat
  BY BoundFacts DEF WireTypeOK, ClientEndTypeOK, AgentEndTypeOK
<1>1. CASE ServeFirst
  BY <1>1 DEF OutputInOrder, ServeFirst, Returned, ToClient, Ended, EnqueueOutput, gateVars, ptyVars,
       policyVars, agentVars, outputVars, probeVars, clientVars
<1>2. CASE HandleAuthorizedTerminal
  BY <1>2 DEF OutputInOrder, HandleAuthorizedTerminal, Returned, ToClient, Ended, EnqueueOutput, gateVars,
       ptyVars, policyVars, agentVars, outputVars, probeVars, clientVars
<1>3. CASE Authorize
  BY <1>3 DEF OutputInOrder, Authorize, Returned, ToClient, Ended, EnqueueOutput, gateVars, ptyVars, policyVars,
       agentVars, outputVars, probeVars, clientVars
<1>4. CASE HandleTerminal
  <2>1. UNCHANGED <<using, taken, read, queue>>
    BY <1>4 DEF HandleTerminal, gateVars, ptyVars, policyVars, agentVars, outputVars, probeVars, clientVars
  <2>2. UNCHANGED toClient \/ toClient' = Append(toClient, TermFrame("accepted", 0))
    BY <1>4 DEF HandleTerminal, ToClient
  <2>3. TermFrame("accepted", 0) \in TermFrames /\ TermFrame("accepted", 0).type # "data"
    BY WireTypes DEF TermFrame
  <2>4. DataFrom(toClient, Len(read) + Len(queue), taken) => DataFrom(toClient', Len(read) + Len(queue), taken)
    BY <2>2, <2>3, <1>c, DataWrites
  <2>5. QED
    BY <2>1, <2>4 DEF OutputInOrder
<1>5. CASE TrustRevoked
  BY <1>5 DEF OutputInOrder, TrustRevoked, Returned, ToClient, Ended, EnqueueOutput, gateVars, ptyVars,
       policyVars, agentVars, outputVars, probeVars, clientVars
<1>6. CASE ShellOutput
  BY <1>6 DEF OutputInOrder, ShellOutput, Returned, ToClient, Ended, EnqueueOutput, gateVars, ptyVars,
       policyVars, agentVars, outputVars, probeVars, clientVars
<1>7. CASE ShellExits
  BY <1>7 DEF OutputInOrder, ShellExits, Returned, ToClient, Ended, EnqueueOutput, gateVars, ptyVars,
       policyVars, agentVars, outputVars, probeVars, clientVars
<1>8. CASE ForwardPTY
  <2>1. UNCHANGED <<using, read, queue>>
    BY <1>8 DEF ForwardPTY, clientVars, outputVars
  <2>2. \/ UNCHANGED <<taken, toClient>>
        \/ taken < made /\ taken' = taken + 1 /\ toClient' = Append(toClient, TermFrame("data", taken + 1))
    BY <1>8 DEF ForwardPTY, ToClient
  <2>3. taken < made => TermFrame("data", taken + 1) \in TermFrames
    BY WireTypes
  <2>4. TermFrame("data", taken + 1).type = "data" /\ TermFrame("data", taken + 1).n = taken + 1
    BY DEF TermFrame
  <2>5. CASE UNCHANGED <<taken, toClient>>
    BY <2>1, <2>5 DEF OutputInOrder
  <2>6. CASE taken < made /\ taken' = taken + 1 /\ toClient' = Append(toClient, TermFrame("data", taken + 1))
    <3>1. /\ DataFrom(toClient, Len(read) + Len(queue), taken) /\ Len(read) + Len(queue) <= taken
          => DataFrom(toClient', Len(read) + Len(queue), taken + 1)
      BY <2>3, <2>4, <2>6, <1>c, DataWrites
    <3>2. QED
      BY <1>c, <2>1, <2>6, <3>1 DEF OutputInOrder
  <2>7. QED
    BY <2>2, <2>5, <2>6
<1>9. CASE WaitForTerminalDrain
  BY <1>9 DEF OutputInOrder, WaitForTerminalDrain, Returned, ToClient, Ended, EnqueueOutput, gateVars, ptyVars,
       policyVars, agentVars, outputVars, probeVars, clientVars
<1>10. CASE SendExit
  <2>1. UNCHANGED <<using, taken, read, queue>>
    BY <1>10 DEF SendExit, gateVars, ptyVars, policyVars, agentVars, outputVars, probeVars, clientVars
  <2>2. UNCHANGED toClient \/ toClient' = Append(toClient, TermFrame("close", 0))
    BY <1>10 DEF SendExit, ToClient
  <2>3. TermFrame("close", 0) \in TermFrames /\ TermFrame("close", 0).type # "data"
    BY WireTypes DEF TermFrame
  <2>4. DataFrom(toClient, Len(read) + Len(queue), taken) => DataFrom(toClient', Len(read) + Len(queue), taken)
    BY <2>2, <2>3, <1>c, DataWrites
  <2>5. QED
    BY <2>1, <2>4 DEF OutputInOrder
<1>11. CASE WaitForPeerClose
  BY <1>11 DEF OutputInOrder, WaitForPeerClose, Returned, ToClient, Ended, EnqueueOutput, gateVars, ptyVars,
       policyVars, agentVars, outputVars, probeVars, clientVars
<1>12. CASE ReadEnded
  BY <1>12 DEF OutputInOrder, ReadEnded, Returned, ToClient, Ended, EnqueueOutput, gateVars, ptyVars,
       policyVars, agentVars, outputVars, probeVars, clientVars
<1>13. CASE TakeFrame
  BY <1>13 DEF OutputInOrder, TakeFrame, Returned, ToClient, Ended, EnqueueOutput, gateVars, ptyVars,
       policyVars, agentVars, outputVars, probeVars, clientVars
<1>13b. CASE PtyWrites
  BY <1>13b DEF OutputInOrder, PtyWrites, Returned, ToClient, Ended, EnqueueOutput, gateVars, ptyVars,
       policyVars, agentVars, outputVars, probeVars, clientVars
<1>14. CASE SendPong
  <2>1. UNCHANGED <<using, taken, read, queue>>
    BY <1>14 DEF SendPong, gateVars, ptyVars, policyVars, agentVars, outputVars, probeVars, clientVars
  <2>2. UNCHANGED toClient \/ toClient' = Append(toClient, TermFrame("pong", 0))
    BY <1>14 DEF SendPong, ToClient
  <2>3. TermFrame("pong", 0) \in TermFrames /\ TermFrame("pong", 0).type # "data"
    BY WireTypes DEF TermFrame
  <2>4. DataFrom(toClient, Len(read) + Len(queue), taken) => DataFrom(toClient', Len(read) + Len(queue), taken)
    BY <2>2, <2>3, <1>c, DataWrites
  <2>5. QED
    BY <2>1, <2>4 DEF OutputInOrder
<1>15. CASE TakeActivity
  BY <1>15 DEF OutputInOrder, TakeActivity, Returned, ToClient, Ended, EnqueueOutput, gateVars, ptyVars,
       policyVars, agentVars, outputVars, probeVars, clientVars
<1>16. CASE TimerFires
  BY <1>16 DEF OutputInOrder, TimerFires, Returned, ToClient, Ended, EnqueueOutput, gateVars, ptyVars,
       policyVars, agentVars, outputVars, probeVars, clientVars
<1>17. CASE ExpireSession
  BY <1>17 DEF OutputInOrder, ExpireSession, Returned, ToClient, Ended, EnqueueOutput, gateVars, ptyVars,
       policyVars, agentVars, outputVars, probeVars, clientVars
<1>18. CASE ExpireCloses
  <2>1. UNCHANGED <<using, taken, read, queue>>
    BY <1>18 DEF ExpireCloses, gateVars, ptyVars, policyVars, agentVars, outputVars, probeVars, clientVars
  <2>2. UNCHANGED toClient \/ toClient' = Append(toClient, TermFrame("policy", 0))
    BY <1>18 DEF ExpireCloses, ToClient
  <2>3. TermFrame("policy", 0) \in TermFrames /\ TermFrame("policy", 0).type # "data"
    BY WireTypes DEF TermFrame
  <2>4. DataFrom(toClient, Len(read) + Len(queue), taken) => DataFrom(toClient', Len(read) + Len(queue), taken)
    BY <2>2, <2>3, <1>c, DataWrites
  <2>5. QED
    BY <2>1, <2>4 DEF OutputInOrder
<1>19. CASE SendInput
  BY <1>19 DEF OutputInOrder, SendInput, Returned, ToClient, Ended, EnqueueOutput, gateVars, ptyVars,
       policyVars, agentVars, outputVars, probeVars, clientVars
<1>20. CASE ClientTakes
  <2> DEFINE f == Head(toClient)
             a == Len(read) + Len(queue)
  <2>1. toClient # <<>> /\ toClient' = Tail(toClient) /\ using # "over" /\ UNCHANGED taken
    BY <1>20 DEF ClientTakes, agentVars, ptyVars
  <2>2. \/ using' = "over"
        \/ f.type # "data" /\ UNCHANGED <<read, queue>>
        \/ f.type = "data" /\ queue' = Append(queue, f.n) /\ UNCHANGED read
        \/ f.type = "data" /\ read' = Append(read, f.n) /\ UNCHANGED queue /\ variant = "cli"
    BY <1>20 DEF ClientTakes, Ended, EnqueueOutput
  <2>3. /\ a <= taken /\ DataFrom(toClient, a, taken)
        /\ \A i \in 1..Len(read) : read[i] = i
        /\ \A i \in 1..Len(queue) : queue[i] = Len(read) + i
    BY <2>1 DEF OutputInOrder
  <2>4. /\ f.type # "data" => DataFrom(toClient', a, taken)
        /\ f.type = "data" => f.n = a + 1 /\ a + 1 <= taken /\ DataFrom(toClient', a + 1, taken)
    BY <1>c, <2>1, <2>3, DataReads
  <2>5. CASE using' = "over"
    BY <2>5 DEF OutputInOrder
  <2>6. CASE f.type # "data" /\ UNCHANGED <<read, queue>>
    BY <2>1, <2>3, <2>4, <2>6 DEF OutputInOrder
  <2>7. CASE f.type = "data" /\ queue' = Append(queue, f.n) /\ UNCHANGED read
    <3>1. Len(queue') = Len(queue) + 1 /\ Len(read') + Len(queue') = a + 1
      BY <1>c, <2>7
    <3>2. \A i \in 1..Len(queue') : queue'[i] = Len(read') + i
      <4> SUFFICES ASSUME NEW i \in 1..Len(queue') PROVE queue'[i] = Len(read') + i
        OBVIOUS
      <4>1. CASE i \in 1..Len(queue)
        BY <1>c, <2>3, <2>7, <4>1
      <4>2. CASE i = Len(queue) + 1
        BY <1>c, <2>4, <2>7, <4>2
      <4>3. QED
        BY <1>c, <3>1, <4>1, <4>2
    <3>3. QED
      BY <2>1, <2>3, <2>4, <2>7, <3>1, <3>2 DEF OutputInOrder
  <2>8. CASE f.type = "data" /\ read' = Append(read, f.n) /\ UNCHANGED queue /\ variant = "cli"
    <3>1. queue = <<>> /\ Len(queue) = 0
      BY <2>8 DEF EndIsEmpty
    <3>2. Len(read') = Len(read) + 1 /\ a = Len(read) /\ Len(read') + Len(queue') = a + 1
      BY <1>c, <2>8, <3>1
    <3>3. \A i \in 1..Len(read') : read'[i] = i
      <4> SUFFICES ASSUME NEW i \in 1..Len(read') PROVE read'[i] = i
        OBVIOUS
      <4>1. CASE i \in 1..Len(read)
        BY <1>c, <2>3, <2>8, <4>1
      <4>2. CASE i = Len(read) + 1
        BY <1>c, <2>4, <2>8, <3>2, <4>2
      <4>3. QED
        BY <1>c, <3>2, <4>1, <4>2
    <3>4. \A i \in 1..Len(queue') : queue'[i] = Len(read') + i
      BY <2>8, <3>1
    <3>5. QED
      BY <2>1, <2>4, <2>8, <3>2, <3>3, <3>4 DEF OutputInOrder
  <2>9. QED
    BY <2>2, <2>5, <2>6, <2>7, <2>8
<1>21. CASE ClientLoses
  BY <1>21 DEF OutputInOrder, ClientLoses, Returned, ToClient, Ended, EnqueueOutput, gateVars, ptyVars,
       policyVars, agentVars, outputVars, probeVars, clientVars
<1>22. CASE CloseManaged
  BY <1>22 DEF OutputInOrder, CloseManaged, Returned, ToClient, Ended, EnqueueOutput, gateVars, ptyVars,
       policyVars, agentVars, outputVars, probeVars, clientVars
<1>23. CASE OutputStalls
  BY <1>23 DEF OutputInOrder, OutputStalls, Returned, ToClient, Ended, EnqueueOutput, gateVars, ptyVars,
       policyVars, agentVars, outputVars, probeVars, clientVars
<1>24. CASE BeginReadTerminal
  BY <1>24 DEF OutputInOrder, BeginReadTerminal, Returned, ToClient, Ended, EnqueueOutput, gateVars, ptyVars,
       policyVars, agentVars, outputVars, probeVars, clientVars
<1>25. CASE ReadTerminal
  <2>1. UNCHANGED <<using, taken, toClient>>
    BY <1>25 DEF ReadTerminal, agentVars, ptyVars
  <2>2. CASE UNCHANGED <<read, queue>>
    BY <2>1, <2>2 DEF OutputInOrder
  <2>3. CASE using # "over" /\ queue # <<>> /\ read' = Append(read, Head(queue)) /\ queue' = Tail(queue)
    <3>1. /\ Len(read') = Len(read) + 1 /\ Len(queue') = Len(queue) - 1 /\ Len(queue) > 0
          /\ Head(queue) = queue[1] /\ \A i \in 1..Len(queue') : queue'[i] = queue[i + 1]
      BY <1>c, <2>3
    <3>2. Len(read') + Len(queue') = Len(read) + Len(queue)
      BY <1>c, <3>1
    <3>3. /\ \A i \in 1..Len(read) : read[i] = i
          /\ \A i \in 1..Len(queue) : queue[i] = Len(read) + i
      BY <2>3 DEF OutputInOrder
    <3>4. \A i \in 1..Len(read') : read'[i] = i
      <4> SUFFICES ASSUME NEW i \in 1..Len(read') PROVE read'[i] = i
        OBVIOUS
      <4>1. CASE i \in 1..Len(read)
        BY <1>c, <2>3, <3>3, <4>1
      <4>2. CASE i = Len(read) + 1
        BY <1>c, <2>3, <3>1, <3>3, <4>2
      <4>3. QED
        BY <1>c, <3>1, <4>1, <4>2
    <3>5. \A i \in 1..Len(queue') : queue'[i] = Len(read') + i
      BY <1>c, <3>1, <3>3
    <3>6. QED
      BY <2>1, <3>2, <3>4, <3>5 DEF OutputInOrder
  <2>4. CASE using = "over"
    BY <2>1, <2>4 DEF OutputInOrder
  <2>5. QED
    BY <1>25, <2>2, <2>3, <2>4 DEF ReadTerminal
<1>26. CASE ReaderWakes
  BY <1>26 DEF OutputInOrder, ReaderWakes, Returned, ToClient, Ended, EnqueueOutput, gateVars, ptyVars,
       policyVars, agentVars, outputVars, probeVars, clientVars
<1>27. CASE BeginProbe
  BY <1>27 DEF OutputInOrder, BeginProbe, Returned, ToClient, Ended, EnqueueOutput, gateVars, ptyVars,
       policyVars, agentVars, outputVars, probeVars, clientVars
<1>28. CASE EndProbe
  BY <1>28 DEF OutputInOrder, EndProbe, Returned, ToClient, Ended, EnqueueOutput, gateVars, ptyVars, policyVars,
       agentVars, outputVars, probeVars, clientVars
<1>29. CASE UNCHANGED sessionVars
  BY <1>29 DEF OutputInOrder, sessionVars, gateVars, ptyVars, policyVars, agentVars, outputVars, probeVars,
       clientVars
<1>30. QED
  BY <1>1, <1>2, <1>3, <1>4, <1>5, <1>6, <1>7, <1>8, <1>9, <1>10, <1>11, <1>12, <1>13, <1>13b, <1>14, <1>15, <1>16,
       <1>17, <1>18, <1>19, <1>20, <1>21, <1>22, <1>23, <1>24, <1>25, <1>26, <1>27, <1>28, <1>29
     DEF SessionNext, ServeStep, LoopStep, ClientMonitor, TerminalReader

\* The invariant is inductive.
LEMMA SessionInvStep == SessionInv /\ [SessionNext]_sessionVars => SessionInv'
BY FlagsStep, AgentEndStep, WireStep, ClientEndStep, AdmittedFirstStep, ShellPlacesStep, CloseIsLastStep,
   OutputInOrderStep, EndIsEmptyStep
   DEF SessionInv, SessionTypeOK

\* The data frames under way are as many as their numbers.
LEMMA DataCount ==
    ASSUME NEW w \in Seq(TermFrames), NEW a \in Nat, NEW t \in Nat, a <= t, DataFrom(w, a, t)
    PROVE  Cardinality({i \in 1..Len(w) : w[i].type = "data"}) = t - a
<1> DEFINE D == {i \in 1..Len(w) : w[i].type = "data"}
           N == (a + 1)..t
           number == [i \in D |-> w[i].n]
<1>1. number \in [D -> N]
  BY DEF DataFrom
<1>2. \A i, j \in D : number[i] = number[j] => i = j
  <2>1. ASSUME NEW i \in D, NEW j \in D, i < j PROVE number[i] # number[j]
    <3>1. w[i].n < w[j].n /\ w[i].n \in N /\ w[j].n \in N
      BY <2>1 DEF DataFrom
    <3>2. QED
      BY <3>1
  <2>2. \A i, j \in D : i < j \/ j < i \/ i = j
    OBVIOUS
  <2>3. QED
    BY <2>1, <2>2
<1>3. \A m \in N : \E i \in D : number[i] = m
  BY DEF DataFrom
<1>4. number \in Bijection(D, N)
  BY <1>1, <1>2, <1>3 DEF Bijection, Injection, Surjection, IsInjective
<1>5. IsFiniteSet(D) /\ Cardinality(N) = t - a
  <2>1. IsFiniteSet(1..Len(w)) /\ Cardinality(N) = t - a
    <3>1. Len(w) \in Int /\ a + 1 \in Int /\ t \in Int /\ 1 \in Int
      OBVIOUS
    <3>2. IsFiniteSet(1..Len(w))
      BY <3>1, FS_Interval
    <3>3. Cardinality(N) = IF a + 1 > t THEN 0 ELSE t - (a + 1) + 1
      BY <3>1, FS_Interval
    <3>4. QED
      BY <3>2, <3>3
  <2>2. QED
    BY <2>1, FS_Subset
<1>6. ExistsBijection(D, N)
  BY <1>4 DEF ExistsBijection
<1>7. QED
  BY <1>5, <1>6, FS_Bijection

\* Every value of a terminal session has its type, and what is under way and
\* queued fits.
THEOREM SessionTypeCorrect == SessionSpec => []SessionTypeOK
<1>1. SessionInv => SessionTypeOK
  BY DEF SessionInv
<1>2. QED
  BY <1>1, SessionInvInit, SessionInvStep, PTL DEF SessionSpec

\* No output of the shell is lost on its way to the user: the Close follows all
\* of it, what arrived was handed on whole and in order, and the end is reported
\* when nothing is left.
THEOREM SessionOutputComplete == SessionSpec => []OutputComplete
<1>1. SessionInv => OutputComplete
  <2> SUFFICES ASSUME SessionInv PROVE OutputComplete
    OBVIOUS
  <2>1. /\ toClient \in Seq(TermFrames) /\ queue \in Seq(0..MaxOutput) /\ read \in Seq(0..MaxOutput)
        /\ Len(queue) \in Nat /\ Len(read) \in Nat /\ taken \in Nat
    BY BoundFacts DEF SessionInv, SessionTypeOK, WireTypeOK, ClientEndTypeOK, AgentEndTypeOK
  <2>2. CloseAfterOutput
    BY <2>1 DEF SessionInv, CloseIsLast, HasClose, CloseAfterOutput
  <2>3. EndMeansDrained
    BY DEF SessionInv, EndIsEmpty, EndMeansDrained
  <2>4. ASSUME using = "open"
        PROVE  LET arrived == taken - Cardinality({i \in 1..Len(toClient) : toClient[i].type = "data"})
               IN  read \o queue = [i \in 1..arrived |-> i]
    <3> DEFINE a == Len(read) + Len(queue)
               arrived == taken - Cardinality({i \in 1..Len(toClient) : toClient[i].type = "data"})
    <3>1. /\ a <= taken /\ DataFrom(toClient, a, taken) /\ a \in Nat
          /\ \A i \in 1..Len(read) : read[i] = i
          /\ \A i \in 1..Len(queue) : queue[i] = Len(read) + i
      BY <2>1, <2>4 DEF SessionInv, OutputInOrder
    <3>2. Cardinality({i \in 1..Len(toClient) : toClient[i].type = "data"}) = taken - a
      BY <2>1, <3>1, DataCount
    <3>3. arrived = a
      BY <2>1, <3>1, <3>2
    <3>4. \A i \in 1..a : (read \o queue)[i] = i
      <4> SUFFICES ASSUME NEW i \in 1..a PROVE (read \o queue)[i] = i
        OBVIOUS
      <4>1. (read \o queue)[i] = IF i <= Len(read) THEN read[i] ELSE queue[i - Len(read)]
        BY <2>1, ConcatProperties
      <4>2. CASE i <= Len(read)
        BY <2>1, <3>1, <4>1, <4>2
      <4>3. CASE ~(i <= Len(read))
        <5>1. i - Len(read) \in 1..Len(queue) /\ Len(read) + (i - Len(read)) = i
          BY <2>1, <4>3
        <5>2. QED
          BY <3>1, <4>1, <4>3, <5>1
      <4>4. QED
        BY <4>2, <4>3
    <3>5. read \o queue = [i \in 1..a |-> i]
      <4>1. read \o queue \in Seq(0..MaxOutput) /\ Len(read \o queue) = a
        BY <2>1, ConcatProperties
      <4>2. read \o queue = [i \in 1..a |-> (read \o queue)[i]]
        BY <4>1, LenProperties
      <4>3. QED
        BY <3>4, <4>2
    <3> HIDE DEF arrived
    <3>6. read \o queue = [i \in 1..arrived |-> i]
      BY <3>3, <3>5
    <3>7. QED
      BY <3>6 DEF arrived
  <2>5. QED
    BY <2>2, <2>3, <2>4 DEF OutputComplete, OutputWhole
<1>2. QED
  BY <1>1, SessionInvInit, SessionInvStep, PTL DEF SessionSpec

\* What ShellAdmitted says of one step.
AdmittedStart == shell = "none" /\ shell' = "running" => trusted /\ (link = "direct" => granted)

\* A shell starts in handleTerminal's second lookup and nowhere else.
LEMMA ShellStarts == SessionInv /\ [SessionNext]_sessionVars => AdmittedStart
<1> SUFFICES ASSUME SessionInv, [SessionNext]_sessionVars, shell = "none", shell' = "running"
             PROVE  trusted /\ (link = "direct" => granted)
  BY DEF AdmittedStart
<1>1. HandleTerminal
  BY DEF SessionNext, ServeStep, LoopStep, ClientMonitor, TerminalReader, ServeFirst, HandleAuthorizedTerminal,
         Authorize, TrustRevoked, ShellOutput, ShellExits, ForwardPTY, WaitForTerminalDrain, SendExit,
         WaitForPeerClose, ReadEnded, TakeFrame, PtyWrites, SendPong, TakeActivity, TimerFires, ExpireSession,
         ExpireCloses,
         SendInput, ClientTakes, ClientLoses, CloseManaged, OutputStalls, BeginReadTerminal, ReadTerminal,
         ReaderWakes, BeginProbe, EndProbe, Returned, sessionVars, agentVars, ptyVars
<1>2. QED
  BY <1>1 DEF HandleTerminal, SessionInv, AdmittedFirst

\* A shell starts only for a peer that is paired at that moment and, on a direct
\* transport, whose grant the authorizer accepted.
THEOREM ShellsAdmitted == SessionSpec => ShellAdmitted
<1>1. SessionInv /\ [SessionNext]_sessionVars => [AdmittedStart]_sessionVars
  BY ShellStarts
<1>2. QED
  BY <1>1, SessionInvInit, SessionInvStep, PTL DEF SessionSpec, ShellAdmitted, AdmittedStart

-----------------------------------------------------------------------------
(* MCRemote.                                                                *)

\* A step of the composition is a step of one component, and leaves the others alone.
LEMMA RemoteSteps ==
    [RemoteNext]_remoteVars =>
        /\ [AccountNext]_accountVars /\ [RelayNext]_relayVars /\ [SessionNext]_sessionVars
        /\ [TransferNext]_transferVars /\ [CoreNext]_coreVars /\ [RecoveryNext]_recVars
BY DEF RemoteNext, remoteVars

\* The run of the components of a remote session is a run of each of them: what is proved of the
\* account session, the relay, the terminal session, file transfers, the Core's connections and
\* its recovery holds there.
THEOREM RemoteImplementsParts ==
    RemoteSpec => AccountSpec /\ RelaySpec /\ SessionSpec /\ TransferSpec /\ CoreSpec /\ RecoverySpec
<1>1. RemoteInit => AccountInit /\ RelayInit /\ SessionInit /\ TransferInit /\ CoreInit /\ RecoveryInit
  BY DEF RemoteInit
<1>2. QED
  BY <1>1, RemoteSteps, PTL DEF RemoteSpec, AccountSpec, RelaySpec, SessionSpec, TransferSpec, CoreSpec,
       RecoverySpec

\* Every variable of every component of a remote session keeps its type.
THEOREM RemoteTypeCorrect == RemoteSpec => []RemoteTypeOK
<1>1. AccountTypeOK /\ RelayTypeOK /\ SessionTypeOK /\ TransferTypeOK /\ CoreTypeOK /\ RecoveryTypeOK => RemoteTypeOK
  BY DEF RemoteTypeOK
<1>2. QED
  BY <1>1, RemoteImplementsParts, AccountTypeCorrect, RelayTypeCorrect, SessionTypeCorrect, TransferTypeCorrect,
     CoreTypeCorrect, RecoveryTypeCorrect, PTL

=============================================================================
