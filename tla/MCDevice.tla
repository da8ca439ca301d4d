------------------------------ MODULE MCDevice ------------------------------
(***************************************************************************)
(* The components of a device, in one run: pairing and trust, updates, a   *)
(* routed dial and the agent's own life.  They share no variable; `focus`  *)
(* says which of them moves, and the others keep an initial state in which *)
(* nothing was asked of them.                                              *)
(***************************************************************************)
EXTENDS Pairing, UpdateState, RoutedDial, AgentLifecycle

CONSTANTS p1, x1, x2

VARIABLE focus

\* Costs that a stable choice and a choice among equals can be told apart by.
MCCandidates == <<[router |-> x1, cost |-> 2], [router |-> x2, cost |-> 1], [router |-> x1, cost |-> 1]>>

MCConfigurations == {{}, {"direct", "tunnel"}, {"direct"}, {"control", "admin"}}

\* The relay loops are looked at in an agent that has no listener, and the
\* privileged listeners in one that is no service.
AgentFocus ==
    /\ configured # {} => \A s \in RelaySlots : outbound[s] = "off"
    /\ main = "register" => configured # {"control", "admin"}
AgentAtRest ==
    main = "register" /\ configured = {"direct"} /\ ~useSerial /\ \A s \in RelaySlots : outbound[s] = "off"

DeviceInit ==
    /\ focus \in {"pairing", "update", "dial", "agent"}
    /\ Init /\ UpdateInit /\ DialInit /\ AgentInit
    /\ focus # "pairing" => target = [e \in Editors |-> p1]
    /\ focus # "dial" => asker = "core" /\ locator = "NoEndpoint"
    /\ IF focus = "agent" THEN AgentFocus ELSE AgentAtRest

DeviceNext ==
    /\ UNCHANGED focus
    /\ \/ focus = "pairing" /\ Next /\ UNCHANGED <<updateVars, dialVars, lifeVars>>
       \/ focus = "update" /\ UpdateNext /\ UNCHANGED <<vars, dialVars, lifeVars>>
       \/ focus = "dial" /\ DialNextState /\ UNCHANGED <<vars, updateVars, lifeVars>>
       \/ focus = "agent" /\ AgentNext /\ UNCHANGED <<vars, updateVars, dialVars>>

DeviceSpec ==
    /\ DeviceInit /\ [][DeviceNext]_<<focus, vars, updateVars, dialVars, lifeVars>>
    /\ Fairness /\ UpdateFairness /\ DialFairness /\ AgentFairness

\* Each component is within its types (the parts say what a value may be).
DeviceTypeOK == TypeOK /\ UpdateTypeOK /\ DialTypeOK /\ AgentTypeOK

\* What is begun on a device ends: an edit of the trust store, an update's hold
\* on its lock, a dial, and an agent that lost a transport or was told to stop.
DeviceProgress == EveryEditEnds /\ LockComesFree /\ DialEnds /\ NoPartialAgent /\ StopEndsAgent
============================================================================
