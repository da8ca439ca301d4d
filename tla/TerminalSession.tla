-------------------------- MODULE TerminalSession ---------------------------
(***************************************************************************)
(* A terminal session without typed streams, from the first frame to the   *)
(* last: the agent's serveConn, handleAuthorizedTerminal and               *)
(* handleTerminal (internal/session/server.go) with its policy timers, and *)
(* a client, either the command's ConnectTerminal or the Core's            *)
(* ManagedTerminal, which buffers output for a reader; either may stop     *)
(* reading.                                                                *)
(* Output is numbered in the order the shell makes it.                     *)
(***************************************************************************)
EXTENDS Integers, Sequences, FiniteSets

CONSTANTS
    MaxOutput,    \* bound: chunks of output the shell makes
    MaxInput,     \* bound: frames the client sends on its own account
    MaxProbes,    \* bound: latency probes
    WireRoom,     \* frames that fit between the two ends
    QueueRoom     \* managedTerminalOutputLimit, in chunks

ASSUME TerminalSessionAssumption ==
    {MaxOutput, MaxInput, MaxProbes} \subseteq Nat /\ {WireRoom, QueueRoom} \subseteq Nat \ {0}

VARIABLES
    link, first,        \* the transport the agent accepted on, the client's first frame
    trusted, granted,   \* the peer is in the trust store; the authorizer said yes
    serving,            \* where serveConn is
    shell, made, taken, \* the process; output it made, output forwarded from the PTY
    forwarding,         \* the PTY forwarding goroutine: "read" or "done"
    idleFired, maxFired, activity,   \* policy timers and activityCh
    deadline,           \* a write deadline is set on the connection
    toClient, toAgent,  \* frames under way
    variant, stalled,   \* "cli" or "managed"; the peer stopped reading
    using,              \* the client: "opening", "open", "over"
    queue, wake,        \* outputQueue and outputNotify
    read, reading,      \* output handed to the reader; ReadTerminal
    localClose,         \* Close was called on this side
    probing, pong, pings, inputs

gateVars == <<link, first, trusted, granted>>
ptyVars == <<shell, made, taken, forwarding>>
policyVars == <<idleFired, maxFired, activity, deadline>>
agentVars == <<gateVars, serving, ptyVars, policyVars>>
outputVars == <<queue, wake, read, reading>>
probeVars == <<probing, pong, pings>>
clientVars == <<variant, stalled, using, localClose, inputs, outputVars, probeVars>>
sessionVars == <<agentVars, clientVars, toClient, toAgent>>

SessionInit ==
    /\ link \in {"direct", "relay"} /\ first \in {"plain", "authorized"}
    /\ trusted \in BOOLEAN /\ granted = FALSE /\ serving = "first"
    /\ shell = "none" /\ made = 0 /\ taken = 0 /\ forwarding = "none"
    /\ idleFired = FALSE /\ maxFired = FALSE /\ activity = FALSE /\ deadline = FALSE
    /\ toClient = <<>> /\ toAgent = <<>>
    /\ variant \in {"cli", "managed"} /\ stalled = FALSE /\ using = "opening"
    /\ queue = <<>> /\ wake = FALSE /\ read = <<>> /\ reading = "none"
    /\ localClose = FALSE /\ probing = "idle" /\ pong = FALSE /\ pings = 0 /\ inputs = 0

TermFrame(type, n) == [type |-> type, n |-> n]
Roomy(wire) == Len(wire) < WireRoom
\* Blocked or broken: writes of the agent go nowhere once the client closed.
ToClient(f) == IF using = "over" THEN toClient' = toClient ELSE Roomy(toClient) /\ toClient' = Append(toClient, f)

-----------------------------------------------------------------------------
(* serveConn up to the accepted session.                                    *)

\* A direct transport wants an authorized request, a parked relay connection a plain one.
ServeFirst ==
    /\ serving = "first"
    /\ serving' = CASE link = "direct" /\ first = "authorized" -> "authorize"
                    [] link = "relay" /\ first = "plain" -> "lookup"
                    [] OTHER -> "over"
    /\ UNCHANGED <<gateVars, ptyVars, policyVars, toClient, toAgent, clientVars>>

\* The peer must be paired before its grant is looked at.
HandleAuthorizedTerminal ==
    /\ serving = "authorize"
    /\ serving' = IF trusted THEN "asking" ELSE "over"
    /\ UNCHANGED <<gateVars, ptyVars, policyVars, toClient, toAgent, clientVars>>

\* RelayDirectAuthorizer.Authorize: one HTTP exchange of at most 15 seconds.
Authorize ==
    /\ serving = "asking"
    /\ granted' \in BOOLEAN
    /\ serving' = IF granted' THEN "lookup" ELSE "over"
    /\ UNCHANGED <<link, first, trusted, ptyVars, policyVars, toClient, toAgent, clientVars>>

HandleTerminalTrusting ==
    /\ serving = "lookup"
    /\ serving' = "run" /\ shell' = "running" /\ forwarding' = "read"
    /\ ToClient(TermFrame("accepted", 0))
    /\ UNCHANGED <<gateVars, made, taken, policyVars, toAgent, clientVars>>
\* handleTerminal looks the peer up again, starts the PTY and accepts.
HandleTerminal ==
    /\ serving = "lookup"
    /\ \/ /\ trusted
          /\ serving' = "run" /\ shell' = "running" /\ forwarding' = "read"
          /\ ToClient(TermFrame("accepted", 0))
       \/ /\ serving' = "over"          \* not paired, bad policy, or the PTY did not start
          /\ UNCHANGED <<shell, forwarding, toClient>>
    /\ UNCHANGED <<gateVars, made, taken, policyVars, toAgent, clientVars>>

\* Revocation of the peer by another process.  A session that is open does
\* not look at the store again.
TrustRevoked ==
    /\ trusted /\ serving \in {"first", "authorize", "asking", "lookup"} /\ trusted' = FALSE
    /\ UNCHANGED <<link, first, granted, serving, ptyVars, policyVars, toClient, toAgent, clientVars>>

-----------------------------------------------------------------------------
(* The shell and the PTY forwarding goroutine.                              *)

ShellOutput ==
    /\ shell = "running" /\ made < MaxOutput
    /\ made' = made + 1
    /\ UNCHANGED <<gateVars, serving, shell, taken, forwarding, policyVars, toClient, toAgent, clientVars>>

ShellExits ==
    /\ shell = "running" /\ shell' = "exited"
    /\ UNCHANGED <<gateVars, serving, made, taken, forwarding, policyVars, toClient, toAgent, clientVars>>

\* One turn of the goroutine: forward a chunk, end with the PTY, or end
\* because the connection is gone or its write deadline passed.
ForwardPTY ==
    /\ forwarding = "read"
    /\ \/ /\ taken < made /\ using # "over" /\ ToClient(TermFrame("data", taken + 1))
          /\ taken' = taken + 1 /\ activity' = (serving # "over") /\ UNCHANGED forwarding
       \/ /\ \/ taken < made /\ (using = "over" \/ deadline)
             \/ taken = made /\ shell \in {"exited", "closed"}
             \/ shell = "closed"
          /\ forwarding' = "done" /\ UNCHANGED <<taken, activity, toClient>>
    /\ UNCHANGED <<gateVars, serving, shell, made, idleFired, maxFired, deadline, toAgent, clientVars>>

-----------------------------------------------------------------------------
(* The select loop of handleTerminal.                                       *)

\* A return: the deferred calls stop the timers and close the PTY and the connection.
Returned(result) ==
    /\ serving' = result
    /\ shell' = IF result = "over" THEN "closed" ELSE shell
    /\ idleFired' = (idleFired /\ result # "over")
    /\ activity' = (activity /\ result # "over")

DrainSkipped ==
    /\ serving = "run" /\ shell = "exited"
    /\ Returned("closing")
    /\ UNCHANGED <<gateVars, made, taken, forwarding, maxFired, deadline, toClient, toAgent, clientVars>>
\* exitCh: send Close only after the PTY output has drained; on a timeout or
\* a lost peer drop the connection.
WaitForTerminalDrain ==
    /\ serving = "run" /\ shell = "exited"
    /\ \/ forwarding = "done" /\ Returned("closing")
       \/ forwarding # "done" /\ Returned("over")
    /\ UNCHANGED <<gateVars, made, taken, forwarding, maxFired, deadline, toClient, toAgent, clientVars>>

\* The final frame; the write has no deadline.
SendExit ==
    /\ serving = "closing"
    /\ IF using = "over" THEN Returned("over") /\ UNCHANGED toClient
       ELSE Returned("ack") /\ ToClient(TermFrame("close", 0))
    /\ UNCHANGED <<gateVars, made, taken, forwarding, maxFired, deadline, toAgent, clientVars>>

\* waitForPeerClose: the client's Close, a read error, or two seconds.
WaitForPeerClose ==
    /\ serving = "ack" /\ Returned("over")
    /\ UNCHANGED <<gateVars, made, taken, forwarding, maxFired, deadline, toClient, toAgent, clientVars>>

\* readErrCh: the reader goroutine is one frame ahead of the loop.
ReadEnded ==
    /\ serving = "run" /\ using = "over" /\ Len(toAgent) <= 1 /\ Returned("over")
    /\ UNCHANGED <<gateVars, made, taken, forwarding, maxFired, deadline, toClient, toAgent, clientVars>>

\* frameCh: one frame of the client.
TakeFrame ==
    /\ serving = "run" /\ toAgent # <<>>
    /\ LET f == Head(toAgent) IN
       \/ /\ f = "data" /\ serving' = "input" /\ UNCHANGED <<shell, activity, idleFired, toClient>>
       \/ /\ f = "resize" /\ idleFired' \in {FALSE, idleFired} /\ UNCHANGED <<serving, shell, activity, toClient>>
       \/ /\ f = "ping" /\ serving' = "pong" /\ UNCHANGED <<shell, activity, idleFired, toClient>>
       \/ /\ f = "close" /\ Returned("over") /\ UNCHANGED toClient
    /\ toAgent' = Tail(toAgent)
    /\ UNCHANGED <<gateVars, made, taken, forwarding, maxFired, deadline, clientVars>>

\* pty.Write, which the loop makes itself: the PTY takes the input and the idle
\* timer starts again, or the write fails and the session ends.  Nothing
\* bounds the wait for a shell that does not read.
PtyWrites ==
    /\ serving = "input"
    /\ \/ /\ shell = "running" /\ serving' = "run" /\ idleFired' = FALSE /\ UNCHANGED <<shell, activity>>
       \/ /\ shell = "exited" /\ Returned("over")
    /\ UNCHANGED <<gateVars, made, taken, forwarding, maxFired, deadline, toClient, toAgent, clientVars>>

\* The Pong is written by the loop itself, which looks at no timer meanwhile:
\* it waits behind a forwarder that a full connection holds up.
SendPong ==
    /\ serving = "pong" /\ serving' = "run" /\ ToClient(TermFrame("pong", 0))
    /\ UNCHANGED <<gateVars, ptyVars, policyVars, toAgent, clientVars>>

\* policyTimers.Activity after PTY output.
TakeActivity ==
    /\ serving = "run" /\ activity
    /\ activity' = FALSE /\ idleFired' = FALSE
    /\ UNCHANGED <<gateVars, serving, ptyVars, maxFired, deadline, toClient, toAgent, clientVars>>

TimerFires ==
    /\ serving \notin {"first", "authorize", "asking", "lookup", "over"}
    /\ \/ ~idleFired /\ serving \in {"run", "input", "pong"} /\ idleFired' = TRUE /\ UNCHANGED maxFired
       \/ ~maxFired /\ maxFired' = TRUE /\ UNCHANGED idleFired
    /\ UNCHANGED <<gateVars, serving, ptyVars, activity, deadline, toClient, toAgent, clientVars>>

\* expireSession: the write deadline comes first, then the PTY is closed.
ExpireSession ==
    /\ serving = "run" /\ (idleFired \/ maxFired)
    /\ deadline' = TRUE /\ serving' = "expiring" /\ shell' = "closed"
    /\ UNCHANGED <<gateVars, made, taken, forwarding, idleFired, maxFired, activity, toClient, toAgent, clientVars>>

\* The bounded drain, then Close: written, or failed by the deadline.
ExpireCloses ==
    /\ serving = "expiring"
    /\ \/ Returned("ack") /\ using # "over" /\ ToClient(TermFrame("policy", 0))
       \/ Returned("over") /\ (using = "over" \/ (deadline /\ ~Roomy(toClient))) /\ UNCHANGED toClient
    /\ UNCHANGED <<gateVars, made, taken, forwarding, maxFired, deadline, toAgent, clientVars>>

-----------------------------------------------------------------------------
(* The client.                                                              *)

\* finish: done is closed and the reader is woken.
Ended == using' = "over" /\ wake' = TRUE

SendInput ==
    /\ using = "open" /\ inputs < MaxInput /\ Roomy(toAgent)
    /\ \E f \in {"data", "resize"} : toAgent' = Append(toAgent, f)
    /\ inputs' = inputs + 1
    /\ UNCHANGED <<agentVars, toClient, variant, stalled, using, localClose, outputVars, probeVars>>

EnqueueUnbounded(n) == queue' = Append(queue, n) /\ wake' = TRUE /\ UNCHANGED using
\* enqueueOutput: the session ends rather than lose output.
EnqueueOutput(n) ==
    IF Len(queue) < QueueRoom THEN queue' = Append(queue, n) /\ wake' = TRUE /\ UNCHANGED using
    ELSE Ended /\ UNCHANGED queue

\* monitor, or the read loop of ConnectTerminal: one frame of the agent.
ClientTakes ==
    /\ using # "over" /\ ~stalled /\ toClient # <<>>
    /\ LET f == Head(toClient) IN
       \/ f.type = "accepted" /\ using' = "open" /\ UNCHANGED <<queue, wake, read, pong, toAgent>>
       \/ /\ f.type = "data" /\ variant = "managed" /\ EnqueueOutput(f.n) /\ UNCHANGED <<read, pong, toAgent>>
       \/ /\ f.type = "data" /\ variant = "cli" /\ read' = Append(read, f.n)
          /\ UNCHANGED <<using, queue, wake, pong, toAgent>>
       \/ /\ f.type \in {"close", "policy"} /\ Ended
          /\ toAgent' = IF Roomy(toAgent) THEN Append(toAgent, "close") ELSE toAgent
          /\ UNCHANGED <<queue, read, pong>>
       \/ f.type = "pong" /\ pong' = TRUE /\ UNCHANGED <<using, queue, wake, read, toAgent>>
    /\ toClient' = Tail(toClient)
    /\ UNCHANGED <<agentVars, variant, stalled, localClose, reading, probing, pings, inputs>>

\* The opening was given up, or the agent's end is gone; what it wrote last
\* may be lost with the connection.
ClientLoses ==
    /\ using # "over" /\ ~stalled
    /\ using = "opening" \/ serving = "over"
    /\ Ended
    /\ UNCHANGED <<agentVars, toClient, toAgent, variant, stalled, localClose, queue, read, reading, probeVars, inputs>>

\* ManagedTerminal.Close: a best-effort Close frame, then finish.
CloseManaged ==
    /\ variant = "managed" /\ using = "open"
    /\ toAgent' = IF Roomy(toAgent) THEN Append(toAgent, "close") ELSE toAgent
    /\ localClose' = TRUE /\ Ended
    /\ UNCHANGED <<agentVars, toClient, variant, stalled, queue, read, reading, probeVars, inputs>>

\* The peer stops reading: the terminal behind ConnectTerminal takes no more
\* output, or a managed client is suspended or cut off without a reset.
OutputStalls ==
    /\ using = "open" /\ ~stalled /\ stalled' = TRUE
    /\ UNCHANGED <<agentVars, toClient, toAgent, variant, using, localClose, outputVars, probeVars, inputs>>

BeginReadTerminal ==
    /\ variant = "managed" /\ using # "opening" /\ reading \in {"none", "got"} /\ reading' = "look"
    /\ UNCHANGED <<agentVars, toClient, toAgent, variant, stalled, using, localClose, queue, wake, read, probeVars, inputs>>

\* ReadTerminal under outputMu: buffered output first, then the end.
ReadTerminal ==
    /\ reading = "look"
    /\ \/ /\ queue # <<>>
          /\ read' = Append(read, Head(queue)) /\ queue' = Tail(queue)
          /\ reading' = IF using = "over" /\ Len(queue) = 1 THEN "end" ELSE "got"
       \/ queue = <<>> /\ reading' = (IF using = "over" THEN "end" ELSE "wait") /\ UNCHANGED <<queue, read>>
    /\ UNCHANGED <<agentVars, toClient, toAgent, variant, stalled, using, localClose, wake, probeVars, inputs>>

ReaderWakes ==
    /\ reading = "wait" /\ (wake \/ using = "over")
    /\ reading' = "look" /\ wake' = FALSE
    /\ UNCHANGED <<agentVars, toClient, toAgent, variant, stalled, using, localClose, queue, read, probeVars, inputs>>

\* ProbeLatency: drain a stale Pong, then write the Ping.
BeginProbe ==
    /\ variant = "managed" /\ using = "open" /\ probing = "idle" /\ pings < MaxProbes /\ Roomy(toAgent)
    /\ pong' = FALSE /\ probing' = "wait" /\ pings' = pings + 1
    /\ toAgent' = Append(toAgent, "ping")
    /\ UNCHANGED <<agentVars, toClient, variant, stalled, using, localClose, outputVars, inputs>>

\* The Pong, the end of the session, or the caller's deadline.
EndProbe ==
    /\ probing = "wait" /\ probing' = "idle"
    /\ \/ pong /\ pong' = FALSE
       \/ UNCHANGED pong
    /\ UNCHANGED <<agentVars, toClient, toAgent, variant, stalled, using, localClose, outputVars, pings, inputs>>

-----------------------------------------------------------------------------
ServeStep == ServeFirst \/ HandleAuthorizedTerminal \/ Authorize \/ HandleTerminal
LoopStep ==
    \/ WaitForTerminalDrain \/ SendExit \/ WaitForPeerClose \/ ReadEnded \/ TakeFrame \/ SendPong
    \/ TakeActivity \/ ExpireSession \/ ExpireCloses
ClientMonitor == ClientTakes \/ ClientLoses
TerminalReader == BeginReadTerminal \/ ReadTerminal \/ ReaderWakes
SessionNext ==
    \/ ServeStep \/ TrustRevoked \/ ShellOutput \/ ShellExits \/ ForwardPTY
    \/ LoopStep \/ PtyWrites \/ TimerFires
    \/ ClientMonitor \/ SendInput \/ CloseManaged \/ OutputStalls
    \/ TerminalReader \/ BeginProbe \/ EndProbe

\* Goroutines run and select is fair to what stays ready; a client sends its
\* first frame when it likes, the user and the shell owe nothing (the shell need
\* not read what is written to its PTY), and a stalled peer may stay stalled.
SessionFairness ==
    /\ WF_sessionVars(serving # "first" /\ ServeStep)
    /\ WF_sessionVars(ForwardPTY)
    /\ WF_sessionVars(LoopStep)
    /\ WF_sessionVars(serving # "first" /\ ClientMonitor)
    /\ WF_sessionVars(TerminalReader)
    /\ WF_sessionVars(EndProbe)

SessionSpec == SessionInit /\ [][SessionNext]_sessionVars

-----------------------------------------------------------------------------
TermFrames == [type : {"accepted", "data", "pong", "close", "policy"}, n : 0..MaxOutput]

FlagTypeOK ==
    {trusted, granted, idleFired, maxFired, activity, deadline, stalled, wake, localClose, pong} \subseteq BOOLEAN
AgentEndTypeOK ==
    /\ link \in {"direct", "relay"} /\ first \in {"plain", "authorized"}
    /\ serving \in {"first", "authorize", "asking", "lookup", "run", "input", "pong", "closing", "ack", "expiring", "over"}
    /\ shell \in {"none", "running", "exited", "closed"}
    /\ made \in 0..MaxOutput /\ taken \in 0..made /\ forwarding \in {"none", "read", "done"}
WireTypeOK ==
    /\ toClient \in Seq(TermFrames) /\ Len(toClient) <= WireRoom
    /\ toAgent \in Seq({"data", "resize", "ping", "close"}) /\ Len(toAgent) <= WireRoom
ClientEndTypeOK ==
    /\ variant \in {"cli", "managed"}
    /\ using \in {"opening", "open", "over"} /\ reading \in {"none", "look", "wait", "got", "end"}
    /\ queue \in Seq(0..MaxOutput) /\ Len(queue) <= QueueRoom /\ read \in Seq(0..MaxOutput)
    /\ probing \in {"idle", "wait"} /\ pings \in 0..MaxProbes /\ inputs \in 0..MaxInput

\* Every value is in its range, the frames under way and the queue of a managed
\* terminal within their room.
SessionTypeOK == FlagTypeOK /\ AgentEndTypeOK /\ WireTypeOK /\ ClientEndTypeOK

\* handleTerminal sends the exit's Close only after all output of the shell:
\* it never overtakes a chunk that is still in the PTY.
CloseAfterOutput == \A i \in DOMAIN toClient : toClient[i].type = "close" => taken = made

\* Output is handed on whole and in order: while the session is open, what
\* was read and what is queued is all that arrived, however slow the reader.
OutputWhole ==
    LET arrived == taken - Cardinality({i \in 1..Len(toClient) : toClient[i].type = "data"})
    IN  using = "open" => read \o queue = [i \in 1..arrived |-> i]

\* ReadTerminal reports the end only when no output is left that the session
\* took in before it ended.
EndMeansDrained == (reading = "end" /\ ~localClose) => queue = <<>>

\* A shell starts only for a peer that is paired at that moment and, on a
\* direct transport, whose grant the authorizer accepted: a revocation that
\* comes while the authorizer is asked counts.
ShellAdmitted ==
    [][shell = "none" /\ shell' = "running" => trusted /\ (link = "direct" => granted)]_sessionVars

\* The loop of handleTerminal is in a call that nothing bounds: a write to a PTY
\* that takes no input, or the Pong for a peer that stopped reading.
LoopHeld == serving = "input" \/ (serving = "pong" /\ stalled)

\* A session that reached its maximum duration ends even if the peer takes
\* no output, as long as its loop is not held in a write and its shell had not
\* exited before.
ExpiredSessionEnds == []<>(maxFired => serving = "over" \/ shell = "exited" \/ LoopHeld)

\* After the shell exited the agent lets go of the session, unless the peer
\* stopped reading or the loop still waits for the PTY to take input.
ExitedSessionEnds == []<>(shell = "exited" => serving = "over" \/ stalled \/ serving = "input")

\* A reader of a managed terminal returns when there is output or the end.
ReaderServed == []<>(reading # "wait" \/ (queue = <<>> /\ using # "over"))

\* Output of the shell reaches the reader of an open session whole and in order,
\* the exit's Close comes behind all of it, and the end is reported behind what
\* was buffered.  A connection that is lost, or dropped by a drain that timed
\* out, takes along what was under way.
OutputComplete == CloseAfterOutput /\ OutputWhole /\ EndMeansDrained
=============================================================================
