---------------------------- MODULE RelayBroker -----------------------------
(***************************************************************************)
(* The rendezvous relay (internal/relay): agents park outbound connections *)
(* as slots of their device, a client takes the oldest slot and the relay  *)
(* copies bytes between the two.                                           *)
(*                                                                         *)
(* Every connection has a goroutine of its own, handleRegister or          *)
(* handleConnect.  Park, Take and Remove run under the broker's mutex;     *)
(* between them the goroutines write control messages, wait and close      *)
(* connections in any order.  The signature check of a registration is a   *)
(* choice, and the copied bytes are left out.                              *)
(***************************************************************************)
EXTENDS Integers, Sequences, FiniteSets, SequencesExt

CONSTANTS Agents,      \* agents' connections
          Clients,     \* clients' connections
          Devices,     \* device IDs
          NoSlot,      \* no agent's connection
          MaxSlots,    \* Broker.maxSlotsPerDevice
          SlotTTL,     \* Broker.slotTTL
          HandlerTTL,  \* the timer of handleRegister
          MaxHangUps   \* bound on the peers that go away

ASSUME RelayBrokerAssumption ==
    /\ MaxSlots \in Nat \ {0}
    /\ SlotTTL \in Nat /\ HandlerTTL \in Nat /\ MaxHangUps \in Nat
    /\ NoSlot \notin Agents
    /\ Agents \cap Clients = {}

Conns == Agents \cup Clients
Directions == {"toAgent", "toClient"}

VARIABLES slots,     \* Broker.slots
          agent,     \* where handleRegister is
          age,       \* time since slot.createdAt, counted to the first value past SlotTTL
          timer,     \* what is left of the timer of handleRegister
          finished,  \* the slots whose done channel is closed
          client,    \* where handleConnect is
          slot,      \* the slot it took
          copying,   \* the directions bridge still copies
          closed,    \* the connections the relay has closed
          hungup     \* the connections whose peer is gone

relayVars == <<slots, agent, age, timer, finished, client, slot, copying, closed, hungup>>

\* The types of the variables; no device has more slots than Park admits.
RelayTypeOK ==
    /\ slots \in [Devices -> Seq(Agents)]
    /\ \A d \in Devices : Len(slots[d]) <= MaxSlots
    /\ agent \in [Agents -> {"new", "announcing", "waiting", "leaving", "done"}]
    /\ age \in [Agents -> 0..(SlotTTL + 1)]
    /\ timer \in [Agents -> 0..HandlerTTL]
    /\ finished \subseteq Agents
    /\ client \in [Clients -> {"new", "tellAgent", "tellClient", "bridging", "done"}]
    /\ slot \in [Clients -> Agents \cup {NoSlot}]
    /\ copying \in [Clients -> SUBSET Directions]
    /\ closed \subseteq Conns
    /\ hungup \subseteq Conns

RelayInit ==
    /\ slots = [d \in Devices |-> <<>>]
    /\ agent = [a \in Agents |-> "new"]
    /\ age = [a \in Agents |-> 0]
    /\ timer = [a \in Agents |-> HandlerTTL]
    /\ finished = {}
    /\ client = [c \in Clients |-> "new"]
    /\ slot = [c \in Clients |-> NoSlot]
    /\ copying = [c \in Clients |-> {}]
    /\ closed = {}
    /\ hungup = {}

----------------------------------------------------------------------------
(* The broker.                                                             *)

Fresh(a) == age[a] <= SlotTTL

\* The loop over the queue q: what is in keep stays, in its order.
Filtered(q, keep) ==
    LET kept[i \in 0..Len(q)] ==
          IF i = 0 THEN <<>> ELSE IF q[i] \in keep THEN Append(kept[i - 1], q[i]) ELSE kept[i - 1]
    IN  kept[Len(q)]

\* pruneLocked keeps the fresh slots; the others are closed and finished.
Kept(d) == Filtered(slots[d], {a \in Agents : Fresh(a)})
Pruned(d) == {a \in ToSet(slots[d]) : ~Fresh(a)}

\* Remove: the slot may have been taken or pruned meanwhile.
Without(a) == [d \in Devices |-> Filtered(slots[d], Agents \ {a})]

\* The relay can still write to x.
Writable(x) == x \notin closed

----------------------------------------------------------------------------
(* handleRegister.                                                         *)

\* The registration is refused, or the device has too many slots.
Refuse(a, d) ==
    /\ agent[a] = "new"
    /\ \/ UNCHANGED <<slots, finished>> /\ closed' = closed \cup {a}
       \/ /\ Len(Kept(d)) >= MaxSlots
          /\ slots' = [slots EXCEPT ![d] = Kept(d)]
          /\ finished' = finished \cup Pruned(d)
          /\ closed' = closed \cup Pruned(d) \cup {a}
    /\ agent' = [agent EXCEPT ![a] = "done"]
    /\ UNCHANGED <<age, timer, client, slot, copying, hungup>>

Park(a, d) ==
    /\ agent[a] = "new"
    /\ Len(Kept(d)) < MaxSlots
    /\ slots' = [slots EXCEPT ![d] = Append(Kept(d), a)]
    /\ finished' = finished \cup Pruned(d)
    /\ closed' = closed \cup Pruned(d)
    /\ agent' = [agent EXCEPT ![a] = "announcing"]
    /\ UNCHANGED <<age, timer, client, slot, copying, hungup>>

\* The slot is already in the broker when the agent is told to wait.
Announce(a) ==
    /\ agent[a] = "announcing"
    /\ Writable(a)
    /\ agent' = [agent EXCEPT ![a] = "waiting"]
    /\ UNCHANGED <<slots, age, timer, finished, client, slot, copying, closed, hungup>>

\* The message cannot be written, or the timer fires: the slot is removed, and
\* the connection is closed next.
Withdraw(a) ==
    /\ \/ agent[a] = "announcing" /\ (~Writable(a) \/ a \in hungup)
       \/ agent[a] = "waiting" /\ timer[a] = 0
    /\ slots' = Without(a)
    /\ agent' = [agent EXCEPT ![a] = "leaving"]
    /\ UNCHANGED <<age, timer, finished, client, slot, copying, closed, hungup>>

Leave(a) ==
    /\ agent[a] = "leaving"
    /\ closed' = closed \cup {a}
    /\ agent' = [agent EXCEPT ![a] = "done"]
    /\ UNCHANGED <<slots, age, timer, finished, client, slot, copying, hungup>>

\* The slot's done channel is closed by whoever used or pruned it.
SlotDone(a) ==
    /\ agent[a] = "waiting"
    /\ a \in finished
    /\ agent' = [agent EXCEPT ![a] = "done"]
    /\ UNCHANGED <<slots, age, timer, finished, client, slot, copying, closed, hungup>>

----------------------------------------------------------------------------
(* handleConnect.                                                          *)

\* Take the oldest slot of the device, or reject the client.
Take(c, d) ==
    /\ client[c] = "new"
    /\ finished' = finished \cup Pruned(d)
    /\ \/ /\ Kept(d) # <<>>
          /\ slots' = [slots EXCEPT ![d] = Tail(Kept(d))]
          /\ slot' = [slot EXCEPT ![c] = Head(Kept(d))]
          /\ client' = [client EXCEPT ![c] = "tellAgent"]
          /\ closed' = closed \cup Pruned(d)
       \/ /\ Kept(d) = <<>>
          /\ slots' = [slots EXCEPT ![d] = <<>>]
          /\ client' = [client EXCEPT ![c] = "done"]
          /\ closed' = closed \cup Pruned(d) \cup {c}
          /\ UNCHANGED slot
    /\ UNCHANGED <<agent, age, timer, copying, hungup>>

\* The end of handleConnect: both connections closed, the slot finished.
Release(c) ==
    /\ closed' = closed \cup {c, slot[c]}
    /\ finished' = finished \cup {slot[c]}
    /\ client' = [client EXCEPT ![c] = "done"]

TellAgent(c) ==
    /\ client[c] = "tellAgent"
    /\ \/ /\ Writable(slot[c])
          /\ client' = [client EXCEPT ![c] = "tellClient"]
          /\ UNCHANGED <<closed, finished>>
       \/ /\ ~Writable(slot[c]) \/ slot[c] \in hungup
          /\ Release(c)
    /\ UNCHANGED <<slots, agent, age, timer, slot, copying, hungup>>

TellClient(c) ==
    /\ client[c] = "tellClient"
    /\ \/ /\ Writable(c)
          /\ copying' = [copying EXCEPT ![c] = Directions]
          /\ client' = [client EXCEPT ![c] = "bridging"]
          /\ UNCHANGED <<closed, finished>>
       \/ /\ c \in hungup
          /\ Release(c)
          /\ UNCHANGED copying
    /\ UNCHANGED <<slots, agent, age, timer, slot, hungup>>

Source(c, direction) == IF direction = "toAgent" THEN c ELSE slot[c]

\* One io.Copy returns: its source hung up, or the relay closed the source.
CopyEnds(c, direction) ==
    /\ direction \in copying[c]
    /\ Source(c, direction) \in hungup \cup closed
    /\ copying' = [copying EXCEPT ![c] = @ \ {direction}]
    /\ UNCHANGED <<slots, agent, age, timer, finished, client, slot, closed, hungup>>

\* It also returns when it has bytes for a connection that is gone; until then
\* it stays in the read of its source.
CopyFails(c, direction) ==
    /\ direction \in copying[c]
    /\ {c, slot[c]} \ {Source(c, direction)} \subseteq hungup \cup closed
    /\ copying' = [copying EXCEPT ![c] = @ \ {direction}]
    /\ UNCHANGED <<slots, agent, age, timer, finished, client, slot, closed, hungup>>

\* Variant for sensitivity checks: the slot is never finished.
BridgeEndsUnfinished(c) ==
    /\ client[c] = "bridging"
    /\ copying[c] = {}
    /\ closed' = closed \cup {c}
    /\ client' = [client EXCEPT ![c] = "done"]
    /\ UNCHANGED <<slots, agent, age, timer, finished, slot, copying, hungup>>

\* bridge closes both connections once both copies have returned.
BridgeEnds(c) ==
    /\ client[c] = "bridging"
    /\ copying[c] = {}
    /\ Release(c)
    /\ UNCHANGED <<slots, agent, age, timer, slot, copying, hungup>>

----------------------------------------------------------------------------
HangUp(x) ==
    /\ x \notin hungup
    /\ Cardinality(hungup) < MaxHangUps
    /\ hungup' = hungup \cup {x}
    /\ UNCHANGED <<slots, agent, age, timer, finished, client, slot, copying,
                   closed>>

\* Slots age and timers run; a timer is started by the message that says to wait.
Tick ==
    /\ age' = [a \in Agents |->
                 IF agent[a] = "new" \/ ~Fresh(a) THEN age[a] ELSE age[a] + 1]
    /\ timer' = [a \in Agents |->
                 IF agent[a] = "waiting" /\ timer[a] > 0 THEN timer[a] - 1 ELSE timer[a]]
    /\ UNCHANGED <<slots, agent, finished, client, slot, copying, closed, hungup>>

AgentStep(a) == Announce(a) \/ Withdraw(a) \/ Leave(a) \/ SlotDone(a)
ClientStep(c) ==
    TellAgent(c) \/ TellClient(c) \/ (\E direction \in Directions : CopyEnds(c, direction))
      \/ BridgeEnds(c)

RelayNext ==
    \/ \E a \in Agents :
          AgentStep(a) \/ \E d \in Devices : Refuse(a, d) \/ Park(a, d)
    \/ \E c \in Clients :
          \/ ClientStep(c)
          \/ \E d \in Devices : Take(c, d)
          \/ \E direction \in Directions : CopyFails(c, direction)
    \/ \E x \in Conns : HangUp(x)
    \/ Tick

RelaySpec == RelayInit /\ [][RelayNext]_relayVars

\* Goroutines run and time passes.  Peers need not hang up nor send.
RelayFairness ==
    /\ WF_relayVars(Tick)
    /\ \A a \in Agents : WF_relayVars(AgentStep(a))
    /\ \A c \in Clients : WF_relayVars(ClientStep(c))

RelayFairSpec == RelaySpec /\ RelayFairness

----------------------------------------------------------------------------
(* Properties.                                                             *)

\* A slot in the broker can be used: the relay has not closed its connection,
\* its goroutine is still there, and it is parked once.
ParkedIsUsable ==
    \A d \in Devices :
        /\ \A a \in ToSet(slots[d]) :
              a \notin closed \cup finished /\ agent[a] \in {"announcing", "waiting"}
        /\ \A e \in Devices : \A i \in 1..Len(slots[d]), j \in 1..Len(slots[e]) :
              slots[d][i] = slots[e][j] => d = e /\ i = j

\* A slot is handed to one client, and a slot handed out is not in the broker.
SlotExclusive ==
    /\ \A c, k \in Clients : slot[c] = slot[k] /\ slot[c] # NoSlot => c = k
    /\ \A c \in Clients, d \in Devices : slot[c] \notin ToSet(slots[d])

\* No connection outlives its goroutines: an agent's connection is closed once
\* handleRegister has returned, unless a client still holds it.
NothingLeftOpen ==
    /\ \A c \in Clients : client[c] = "done" => {c, slot[c]} \ {NoSlot} \subseteq closed
    /\ \A a \in Agents : agent[a] = "done" => a \in closed

\* Every parked connection leaves the relay in the end, with or without a
\* client and although its peer never hangs up.
EveryAgentLeaves == []<>(\A a \in Agents : agent[a] \in {"new", "done"})

\* The relay does not end a session whose two peers are still there.
SessionsNotCut ==
    \A c \in Clients :
        client[c] = "bridging" /\ {c, slot[c]} \cap hungup = {} => {c, slot[c]} \cap closed = {}

\* Every connection the relay holds belongs to the broker or to one client, is
\* usable as long as it is parked, and is closed by the last who held it.
ConnectionsAccounted == ParkedIsUsable /\ SlotExclusive /\ NothingLeftOpen
============================================================================
