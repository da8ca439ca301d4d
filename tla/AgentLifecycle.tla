--------------------------- MODULE AgentLifecycle ---------------------------
(***************************************************************************)
(* The life of one wd-agent process: state opened and sockets bound by     *)
(* runAgent, accept loops with their connection limits, the serial stream, *)
(* the outbound relay slots, and the end, which comes with a signal, the   *)
(* Windows service control manager (SCM) or the loss of a transport.       *)
(* cmd/wd-agent/{main,routing_listeners,serial_stream}.go,                 *)
(* internal/winservice/service_windows.go.  Sessions are modelled          *)
(* elsewhere; here they are connections that are open for some time.       *)
(***************************************************************************)
EXTENDS Integers, Sequences, FiniteSets

CONSTANTS
    Configurations,   \* the sets of listener roles an operator may configure
    AgentLimit,       \* the connection limit of a role
    RelaySlots,       \* outbound slots
    BackoffCap        \* seconds from which a slot's wait no longer doubles

\* The order in which openAgentListeners binds.
BindOrder == <<"direct", "rfcomm", "control", "admin", "tunnel">>
Roles == {BindOrder[i] : i \in 1..Len(BindOrder)}

ASSUME AgentAssumption ==
    /\ {AgentLimit, BackoffCap} \subseteq Nat \ {0} /\ IsFiniteSet(RelaySlots)
    /\ \A c \in Configurations : c \subseteq Roles /\ ("admin" \in c <=> "control" \in c)

VARIABLES
    configured, useSerial,  \* the configuration
    phase,            \* where runAgent is
    socket, accepting,  \* each role's listener and accept loop
    tokens, open,     \* slots taken in its semaphore; connections open
    serveLoop, serial,  \* agentListenerSet.serve and serveAgentSerial
    cancelled,        \* contexts cancelled themselves
    relaySlot, backoff, outbound,  \* each slot, its wait and its kind of relay
    main, armed,      \* serviceMain (or a foreground run); r.cancel is set
    status, carried, reported,  \* r.status; status calls under way; what the SCM knows
    control           \* serviceControlHandler

configVars == <<configured, useSerial, outbound>>
listenerVars == <<socket, accepting, tokens, open>>
slotVars == <<relaySlot, backoff>>
statusVars == <<status, carried, reported>>
serviceVars == <<main, armed, statusVars, control>>
lifeVars == <<configVars, phase, listenerVars, serveLoop, serial, cancelled, slotVars, serviceVars>>

\* parseServeConfig: something is configured; a serial stream only on Linux, where there is no SCM.
ParseServeConfig ==
    /\ configured # {} \/ useSerial \/ \E s \in RelaySlots : outbound[s] # "off"
    /\ useSerial => main = "foreground"

AgentInit ==
    /\ configured \in Configurations /\ useSerial \in BOOLEAN
    /\ phase = "open" /\ socket = [r \in Roles |-> "none"] /\ accepting = [r \in Roles |-> "none"]
    /\ tokens = [r \in Roles |-> 0] /\ open = [r \in Roles |-> 0]
    /\ serveLoop = "idle" /\ serial = "idle" /\ cancelled = {}
    /\ relaySlot = [s \in RelaySlots |-> "none"] /\ backoff = [s \in RelaySlots |-> 1]
    /\ outbound \in [RelaySlots -> {"off", "relay", "web"}]
    /\ main \in {"register", "foreground"} /\ armed = FALSE
    /\ status = "none" /\ carried = [w \in {"main", "control"} |-> "none"]
    /\ reported = (IF main = "register" THEN "start-pending" ELSE "none") /\ control = "idle"
    /\ ParseServeConfig

\* localCtx is a child of the run's context and listenerCtx of localCtx.
Done(context) ==
    \/ "run" \in cancelled \/ (context # "run" /\ "local" \in cancelled)
    \/ (context = "listener" /\ "listener" \in cancelled)
Running == main \in {"execute", "foreground"}
AgentOver == phase \in {"returned", "failed"}
\* agentListenerSet.close
CloseAll == [r \in Roles |-> IF socket[r] = "open" THEN "closed" ELSE socket[r]]

-----------------------------------------------------------------------------
(* runAgent up to serveAgentLocalTransports.                                *)

\* Identity, trust store and the file-transfer root are opened before any socket.
OpenState ==
    /\ Running /\ phase = "open" /\ phase' \in {"routing", "failed"}
    /\ UNCHANGED <<configVars, listenerVars, serveLoop, serial, cancelled, slotVars, serviceVars>>
RoutingRequested == configured \cap {"control", "tunnel"} # {}
\* meshruntime.Open: a policy, authority, replay store or trust file it cannot use leaves no runtime.
RuntimeOpens == {"bind", "failed"}
OpenAgentRoutingRuntime ==
    /\ phase = "routing" /\ phase' \in (IF RoutingRequested THEN RuntimeOpens ELSE {"bind"})
    /\ UNCHANGED <<configVars, listenerVars, serveLoop, serial, cancelled, slotVars, serviceVars>>

\* One role is bound after another; the first failure closes what is bound.
OpenListener ==
    /\ phase = "bind"
    /\ \E i \in 1..Len(BindOrder) :
          LET r == BindOrder[i] IN
          /\ r \in configured /\ socket[r] = "none"
          /\ \A j \in 1..(i - 1) : BindOrder[j] \in configured => socket[BindOrder[j]] = "open"
          /\ \/ socket' = [socket EXCEPT ![r] = "open"] /\ phase' = phase
             \/ socket' = CloseAll /\ phase' = "failed"
    /\ UNCHANGED <<configVars, accepting, tokens, open, serveLoop, serial, cancelled, slotVars, serviceVars>>

\* Every socket is bound: discovery and the relay slots start.  Discovery that
\* has no port to announce is an error, and the deferred close runs.
StartWorkers ==
    /\ phase = "bind" /\ \A r \in configured : socket[r] = "open"
    /\ \/ /\ phase' = "serve" /\ UNCHANGED socket
          /\ relaySlot' = [s \in RelaySlots |-> IF outbound[s] = "off" THEN "none" ELSE "dial"]
       \/ phase' = "failed" /\ socket' = CloseAll /\ UNCHANGED relaySlot
    /\ UNCHANGED <<configVars, accepting, tokens, open, serveLoop, serial, cancelled, backoff, serviceVars>>

-----------------------------------------------------------------------------
(* The local transports.                                                    *)

StartTransports ==
    /\ phase = "serve" /\ serveLoop = "idle" /\ serveLoop' = "serving"
    /\ serial' = IF useSerial THEN "opening" ELSE "idle"
    /\ accepting' = [r \in Roles |-> IF r \in configured THEN "accept" ELSE "none"]
    /\ UNCHANGED <<configVars, phase, socket, tokens, open, cancelled, slotVars, serviceVars>>

\* serveAgentListener: over the limit, a connection is closed as it comes.
AcceptConnection(r) ==
    /\ accepting[r] = "accept" /\ socket[r] = "open"
    /\ IF tokens[r] < AgentLimit
       THEN tokens' = [tokens EXCEPT ![r] = @ + 1] /\ open' = [open EXCEPT ![r] = @ + 1]
       ELSE UNCHANGED <<tokens, open>>
    /\ UNCHANGED <<configVars, phase, socket, accepting, serveLoop, serial, cancelled, slotVars, serviceVars>>
\* The handler's deferred calls: the connection is closed, then the slot is free.
CloseConnection(r) ==
    /\ open[r] > 0 /\ open' = [open EXCEPT ![r] = @ - 1] /\ tokens' = tokens
    /\ UNCHANGED <<configVars, phase, socket, accepting, serveLoop, serial, cancelled, slotVars, serviceVars>>
FreeConnection(r) ==
    /\ tokens[r] > open[r] /\ tokens' = [tokens EXCEPT ![r] = @ - 1] /\ open' = open
    /\ UNCHANGED <<configVars, phase, socket, accepting, serveLoop, serial, cancelled, slotVars, serviceVars>>
\* Accept fails for good, on a socket that is closed or one that broke.
AcceptEnds(r) ==
    /\ accepting[r] = "accept"
    /\ accepting' = [accepting EXCEPT ![r] = IF Done("listener") THEN "stopped" ELSE "failed"]
    /\ UNCHANGED <<configVars, phase, socket, tokens, open, serveLoop, serial, cancelled, slotVars, serviceVars>>
\* context.AfterFunc of a loop that has not returned.
ContextCloses(r) ==
    /\ Done("listener") /\ accepting[r] = "accept" /\ socket[r] = "open"
    /\ socket' = [socket EXCEPT ![r] = "closed"]
    /\ UNCHANGED <<configVars, phase, accepting, tokens, open, serveLoop, serial, cancelled, slotVars, serviceVars>>

LoopEnded(r) == accepting[r] \in {"stopped", "failed"}
\* agentListenerSet.serve: the first loop that ends takes the others down.
FirstListenerEnds ==
    /\ serveLoop = "serving" /\ \E r \in configured : LoopEnded(r)
    /\ cancelled' = cancelled \cup {"listener"} /\ socket' = CloseAll /\ serveLoop' = "collect"
    /\ UNCHANGED <<configVars, phase, accepting, tokens, open, serial, slotVars, serviceVars>>
ServeEndsHasty ==
    /\ \/ serveLoop = "collect"
       \/ serveLoop = "serving" /\ configured = {} /\ Done("local")
    /\ serveLoop' = "ended"
    /\ UNCHANGED <<configVars, phase, listenerVars, serial, cancelled, slotVars, serviceVars>>
ServeEnds ==
    /\ \/ serveLoop = "collect" /\ \A r \in configured : LoopEnded(r)
       \/ serveLoop = "serving" /\ configured = {} /\ Done("local")
    /\ serveLoop' = "ended"
    /\ UNCHANGED <<configVars, phase, listenerVars, serial, cancelled, slotVars, serviceVars>>

\* serveAgentSerial: one stream at a time, opened again after a pause.
OpenSerial ==
    /\ serial = "opening" /\ serial' \in {"session", "ended"}
    /\ UNCHANGED <<configVars, phase, listenerVars, serveLoop, cancelled, slotVars, serviceVars>>
SerialSessionEnds ==
    /\ serial = "session" /\ serial' = IF Done("local") THEN "ended" ELSE "pause"
    /\ UNCHANGED <<configVars, phase, listenerVars, serveLoop, cancelled, slotVars, serviceVars>>
ReopenSerial ==
    /\ serial = "pause" /\ serial' \in (IF Done("local") THEN {"opening", "ended"} ELSE {"opening"})
    /\ UNCHANGED <<configVars, phase, listenerVars, serveLoop, cancelled, slotVars, serviceVars>>

\* serveAgentLocalTransports: with a serial stream, either end takes the other down.
FirstTransportEnds ==
    /\ phase = "serve" /\ useSerial /\ {serveLoop, serial} \cap {"ended"} # {}
    /\ cancelled' = cancelled \cup {"local"} /\ socket' = CloseAll /\ phase' = "drain"
    /\ UNCHANGED <<configVars, accepting, tokens, open, serveLoop, serial, slotVars, serviceVars>>
\* runAgent returns and its deferred close runs.
TransportsReturn ==
    /\ IF useSerial THEN phase = "drain" /\ serveLoop = "ended" /\ serial = "ended"
       ELSE phase = "serve" /\ serveLoop = "ended"
    /\ phase' = "returned" /\ socket' = CloseAll
    /\ UNCHANGED <<configVars, accepting, tokens, open, serveLoop, serial, cancelled, slotVars, serviceVars>>

-----------------------------------------------------------------------------
(* relayLoop and webRelayLoop.                                              *)

SlotMoves(s, to, wait) ==
    /\ relaySlot' = [relaySlot EXCEPT ![s] = to] /\ backoff' = [backoff EXCEPT ![s] = wait]
    /\ UNCHANGED <<configVars, phase, listenerVars, serveLoop, serial, cancelled, serviceVars>>
Longer(wait) == IF wait < BackoffCap THEN 2 * wait ELSE wait
\* The loop tests the context before it dials.
LeaveLoop(s) == relaySlot[s] = "dial" /\ Done("run") /\ SlotMoves(s, "ended", backoff[s])
DialRelay(s) == relaySlot[s] = "dial" /\ outbound[s] = "relay" /\ SlotMoves(s, "register", backoff[s])
\* A web relay parks the connection on its side: the session is served from here.
DialWebSocket(s) == relaySlot[s] = "dial" /\ outbound[s] = "web" /\ SlotMoves(s, "serving", 1)
\* WaitRelaySession: registered, the slot waits for a client; only then it watches the context.
RegisterSlot(s) == relaySlot[s] = "register" /\ SlotMoves(s, "parked", backoff[s])
ClientComes(s) == relaySlot[s] = "parked" /\ SlotMoves(s, "serving", 1)
RelayFails(s) ==
    /\ relaySlot[s] \in {"dial", "register", "parked"}
    /\ SlotMoves(s, IF Done("run") THEN "ended" ELSE "backoff", backoff[s])
\* The wait ends, or the context does.
RetryRelay(s) ==
    /\ relaySlot[s] = "backoff"
    /\ \/ SlotMoves(s, "dial", Longer(backoff[s]))
       \/ Done("run") /\ SlotMoves(s, "ended", backoff[s])
RelaySessionEnds(s) == relaySlot[s] = "serving" /\ SlotMoves(s, "dial", backoff[s])

-----------------------------------------------------------------------------
(* The Windows service around runAgent; a foreground run has only a signal. *)

agentSide == <<configVars, phase, listenerVars, serveLoop, serial, slotVars>>

\* setStatus takes r.mu for r.status and calls the SCM after it let go.
SetStatus(who, state) ==
    /\ carried[who] = "none" /\ status' = state /\ carried' = [carried EXCEPT ![who] = state]
    /\ reported' = reported
Report(who) ==
    /\ carried[who] # "none" /\ reported' = carried[who] /\ carried' = [carried EXCEPT ![who] = "none"]
    /\ UNCHANGED <<agentSide, cancelled, main, armed, status, control>>

Register ==
    /\ main = "register"
    /\ \/ main' = "arm" /\ SetStatus("main", "start-pending")
       \/ main' = "done" /\ UNCHANGED statusVars
    /\ UNCHANGED <<agentSide, cancelled, armed, control>>
ArmLate ==
    /\ main = "arm" /\ carried["main"] = "none" /\ main' = "run" /\ armed' = FALSE
    /\ UNCHANGED <<agentSide, cancelled, statusVars, control>>
\* r.cancel is set before the SCM learns that the service accepts a stop.
Arm ==
    /\ main = "arm" /\ carried["main"] = "none" /\ main' = "run" /\ armed' = TRUE
    /\ UNCHANGED <<agentSide, cancelled, statusVars, control>>
ReportRunning ==
    /\ main = "run" /\ SetStatus("main", "running") /\ main' = "execute"
    /\ UNCHANGED <<agentSide, cancelled, armed, control>>
\* execute returned: cancel, Stopped, finish.
ExecuteReturns ==
    /\ Running /\ AgentOver /\ main' = "done" /\ cancelled' = cancelled \cup {"run"}
    /\ IF main = "execute" THEN SetStatus("main", "stopped") ELSE UNCHANGED statusVars
    /\ UNCHANGED <<agentSide, armed, control>>
\* The process ends, whatever still runs in it; the SCM sees it go.
ProcessExits ==
    /\ main = "done" /\ carried["main"] = "none" /\ main' = "exited"
    /\ reported' = (IF reported = "none" THEN "none" ELSE "stopped")
    /\ UNCHANGED <<agentSide, cancelled, armed, status, carried, control>>

\* The SCM sends a stop only to a service that says it accepts one, and one control at a time.
StopControl ==
    /\ reported = "running" /\ control = "idle" /\ control' = "stop" /\ SetStatus("control", "stop-pending")
    /\ UNCHANGED <<agentSide, cancelled, main, armed>>
CancelRun ==
    /\ control = "stop" /\ carried["control"] = "none" /\ control' = "idle"
    /\ cancelled' = IF armed THEN cancelled \cup {"run"} ELSE cancelled
    /\ UNCHANGED <<agentSide, main, armed, statusVars>>
\* The answer is the status of the moment, sent when the lock is free again.
Interrogate ==
    /\ control = "idle" /\ status # "none" /\ carried["control"] = "none"
    /\ carried' = [carried EXCEPT !["control"] = status]
    /\ UNCHANGED <<agentSide, cancelled, main, armed, status, reported, control>>
\* signal.NotifyContext of runServe.
Signal ==
    /\ main = "foreground" /\ "run" \notin cancelled /\ cancelled' = cancelled \cup {"run"}
    /\ UNCHANGED <<agentSide, serviceVars>>

-----------------------------------------------------------------------------

ListenerStep(r) ==
    \/ AcceptConnection(r) \/ CloseConnection(r) \/ FreeConnection(r) \/ AcceptEnds(r) \/ ContextCloses(r)
SerialStep == OpenSerial \/ SerialSessionEnds \/ ReopenSerial
SlotStep(s) ==
    \/ LeaveLoop(s) \/ DialRelay(s) \/ DialWebSocket(s) \/ RegisterSlot(s) \/ ClientComes(s)
    \/ RelayFails(s) \/ RetryRelay(s) \/ RelaySessionEnds(s)
RunAgent ==
    \/ OpenState \/ OpenAgentRoutingRuntime \/ OpenListener \/ StartWorkers
    \/ StartTransports \/ FirstTransportEnds \/ TransportsReturn
ServiceMain == Register \/ Arm \/ ReportRunning \/ ExecuteReturns \/ ProcessExits

AgentNext ==
    /\ main # "exited"
    /\ \/ RunAgent \/ FirstListenerEnds \/ ServeEnds \/ SerialStep \/ ServiceMain
       \/ StopControl \/ CancelRun \/ Interrogate \/ Signal
       \/ \E r \in Roles : ListenerStep(r)
       \/ \E s \in RelaySlots : SlotStep(s)
       \/ \E who \in {"main", "control"} : Report(who)

\* The SCM starts the service when asked.  Goroutines run and Accept returns on a
\* closed socket.  Sessions, the serial stream's too (its server may be blocked in
\* a write to a PTY), clients, relays and stop requests come and go as they like.
AgentFairness ==
    /\ WF_lifeVars(RunAgent) /\ WF_lifeVars(FirstListenerEnds \/ ServeEnds)
    /\ WF_lifeVars(main # "register" /\ ServiceMain) /\ WF_lifeVars(main # "exited" /\ CancelRun)
    /\ \A who \in {"main", "control"} : WF_lifeVars(main # "exited" /\ Report(who))
    /\ \A r \in Roles : /\ WF_lifeVars(socket[r] = "closed" /\ AcceptEnds(r))
                        /\ WF_lifeVars(ContextCloses(r))
    /\ WF_lifeVars(OpenSerial \/ ReopenSerial)

AgentSpec == AgentInit /\ [][AgentNext]_lifeVars /\ AgentFairness

-----------------------------------------------------------------------------
(* Properties.                                                              *)

RunTypeOK ==
    /\ configured \in Configurations /\ useSerial \in BOOLEAN
    /\ phase \in {"open", "routing", "bind", "serve", "drain", "returned", "failed"}
    /\ serveLoop \in {"idle", "serving", "collect", "ended"}
    /\ serial \in {"idle", "opening", "session", "pause", "ended"}
    /\ cancelled \subseteq {"run", "local", "listener"}
ListenerTypeOK ==
    /\ socket \in [Roles -> {"none", "open", "closed"}]
    /\ accepting \in [Roles -> {"none", "accept", "stopped", "failed"}]
    /\ tokens \in [Roles -> 0..AgentLimit] /\ open \in [Roles -> Nat]
SlotTypeOK ==
    /\ relaySlot \in [RelaySlots -> {"none", "dial", "register", "parked", "backoff", "serving", "ended"}]
    /\ backoff \in [RelaySlots -> 1..(2 * BackoffCap - 1)] /\ outbound \in [RelaySlots -> {"off", "relay", "web"}]
Statuses == {"none", "start-pending", "running", "stop-pending", "stopped"}
ServiceTypeOK ==
    /\ main \in {"register", "arm", "run", "execute", "foreground", "done", "exited"} /\ armed \in BOOLEAN
    /\ {status, reported} \subseteq Statuses /\ carried \in [{"main", "control"} -> Statuses]
    /\ control \in {"idle", "stop"}

\* Every value is in its range; a slot's wait stops doubling at the cap.
AgentTypeOK == RunTypeOK /\ ListenerTypeOK /\ SlotTypeOK /\ ServiceTypeOK

ListenersReleased == \A r \in Roles : socket[r] # "open" /\ accepting[r] # "accept"
Released == ListenersReleased /\ serial \notin {"opening", "session"}

\* When runAgent has returned, in success or in failure, and when the SCM
\* reports the service stopped, no socket is bound, no accept loop runs and the
\* serial stream is closed: the comment in serve promises that a caller may bind
\* the same endpoints at once.
StoppedMeansReleased == (AgentOver \/ reported = "stopped") => Released

\* Outbound relay workers run, and connections are accepted, only after every
\* configured socket was bound, so that a start that fails leaves no role active
\* (the comment in runAgent before openAgentListeners).
WorkersAfterSockets ==
    (\E s \in RelaySlots : relaySlot[s] # "none") \/ (\E r \in Roles : accepting[r] # "none" \/ open[r] > 0)
       => \A r \in configured : socket[r] # "none"

\* However handlers of old connections and accepts of new ones interleave, a
\* role never has more connections open than its limit.
ConnectionsWithinLimit == \A r \in Roles : open[r] <= AgentLimit

\* The agent is never partly available for good: when one accept loop or the
\* serial stream is over, everything local is released in the end, but for a
\* serial session that does not return.
NoPartialAgent ==
    []<>((\E r \in Roles : LoopEnded(r)) \/ serial = "ended" =>
            Released \/ (ListenersReleased /\ serial = "session"))

\* A stop control that the handler took, and a signal, end the process: the
\* cancel function is never missing when the SCM may send a stop.  Only a serial
\* session that does not return keeps an agent.
StopEndsAgent == []<>(status = "stop-pending" \/ "run" \in cancelled => main = "exited" \/ serial = "session")

\* An agent is whole or gone: every role or none, within its limit, and nothing
\* is held when it is over.
WholeOrGone == StoppedMeansReleased /\ WorkersAfterSockets /\ ConnectionsWithinLimit
=============================================================================
