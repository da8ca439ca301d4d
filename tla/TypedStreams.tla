---------------------------- MODULE TypedStreams ----------------------------
(***************************************************************************)
(* The typed-streams-v1 multiplexer: terminal streams that share one       *)
(* authenticated parent connection.  The client end is                     *)
(* ManagedMultiplexTerminal (internal/session/managed_multiplex.go, driven *)
(* by the monitor of managed_file_transfer.go), the server end             *)
(* handleTypedTerminalSession with typedTerminalServer                     *)
(* (typed_stream_session.go, typed_stream_server.go).                      *)
(*                                                                         *)
(* The goroutines are: on the client one monitor and, per stream, callers  *)
(* that open, read, write and close; on the server one dispatcher and, per *)
(* stream, forwardOutput and waitProcess.  A step of one of them ends      *)
(* where it takes a mutex, writes a frame, or waits.  Payloads are byte    *)
(* counts.  Frames travel in order; a frame that one end writes after the  *)
(* other has gone is dropped.  Pings, file streams, the legacy framing and *)
(* audit records are left out.                                             *)
(***************************************************************************)
EXTENDS Integers, Sequences, FiniteSets

CONSTANTS MaxAllocated,  \* managedMuxMaxAllocated, maxTypedStreamIDsPerConnection
          ClientLimit,   \* managedMuxMaxStreams
          ServerLimit,   \* maxTerminalStreamsPerConnection - 1
          Window,        \* managedMuxReceiveWindow, typedTerminalReceiveWindow
          MaxWindow,     \* MaxTypedStreamWindow
          OutputLimit,   \* managedTerminalOutputLimit
          MaxChunk,      \* MaxTypedStreamChunk
          Buffer,        \* how many frames the sockets of a direction hold
          Talkers,       \* streams whose process writes and whose user reads
          Typists        \* streams whose user writes and resizes

ASSUME TypedStreamsAssumption ==
    /\ {MaxAllocated, ClientLimit, ServerLimit, Window, MaxChunk, Buffer} \subseteq Nat \ {0}
    /\ MaxWindow \in Nat /\ Window <= MaxWindow
    /\ OutputLimit \in Nat
    /\ Talkers \subseteq Nat /\ Typists \subseteq Nat

VARIABLES toServer,    \* frames on their way to the server
          toClient,    \* frames on their way to the client
          lost,        \* whether the transport has failed
          ended,       \* history: why the parent ended, and what was open
          cliDone,     \* ManagedMultiplexTerminal.done
          streams,     \* ManagedMultiplexTerminal.streams
          nextStream,  \* ManagedMultiplexTerminal.nextStream
          child,       \* the managedMuxChild of each stream
          opener,      \* where OpenTerminalStream is
          reader,      \* where ReadTerminalStream is, and the bytes it took
          writer,      \* credit that WriteTerminalStream took and has not sent
          closer,      \* where CloseTerminalStream is
          srvDone,     \* whether the server's session has returned
          slots,       \* typedTerminalStreamSet.open
          server,      \* registry entry and typedTerminalChild of each stream
          task,        \* what the dispatcher is doing
          forwarder,   \* where forwardOutput is
          waiter       \* where waitProcess is

clientVars == <<cliDone, streams, nextStream, child, opener, reader, writer, closer>>
serverVars == <<srvDone, slots, server, task, forwarder, waiter>>
linkVars == <<toServer, toClient, lost, ended>>
vars == <<linkVars, clientVars, serverVars>>

FirstId == 2
Ids == FirstId..(FirstId + MaxAllocated - 1)
FrameTypes == {"open", "accepted", "data", "window", "resize", "close", "error"}
Frame(type, id, n) == [type |-> type, id |-> id, n |-> n]
Frames == [type : FrameTypes, id : Ids, n : 0..Window]

Children == [accepted : BOOLEAN, closing : BOOLEAN, done : BOOLEAN,
             send : 0..MaxWindow, recv : 0..Window, queue : 0..Window]
NewChild == [accepted |-> FALSE, closing |-> FALSE, done |-> FALSE,
             send |-> 0, recv |-> Window, queue |-> 0]
Entries == [state : {"none", "opening", "open", "closed"},
            pty : {"none", "running", "exited", "closed"},
            send : 0..MaxWindow, recv : 0..MaxWindow]
NewEntry == [state |-> "none", pty |-> "none", send |-> 0, recv |-> 0]
Idle == [step |-> "idle", id |-> 0, n |-> 0]
Causes == {"none", "protocol", "cancelled", "closed", "policy", "lost"}

LinkTypeOK ==
    /\ toServer \in Seq(Frames) /\ toClient \in Seq(Frames)
    /\ lost \in BOOLEAN
    /\ ended \in [cause : Causes, id : Ids \cup {0}, open : SUBSET Ids]

ClientTypeOK ==
    /\ cliDone \in BOOLEAN
    /\ streams \subseteq Ids
    /\ nextStream \in FirstId..(FirstId + MaxAllocated)
    /\ child \in [Ids -> Children]
    /\ opener \in [Ids -> {"none", "writing", "waiting", "open", "failed"}]
    /\ reader \in [Ids -> [step : {"idle", "polling", "updating", "crediting"}, n : 0..Window]]
    /\ writer \in [Ids -> 0..Window]
    /\ closer \in [Ids -> {"idle", "writing", "waiting", "returned"}]

ServerTypeOK ==
    /\ srvDone \in BOOLEAN
    /\ slots \in 0..ServerLimit
    /\ server \in [Ids -> Entries]
    /\ task \in [step : {"idle", "starting", "accepting", "writing", "updating", "acking",
                         "reporting"}, id : Ids \cup {0}, n : 0..Window]
    /\ forwarder \in [Ids -> [step : {"none", "reading", "holding", "sending", "stopped"},
                              hold : 0..Window, chunk : 0..Window]]
    /\ waiter \in [Ids -> {"none", "waiting", "closing", "done"}]

\* The types of the variables; windows and buffers of both ends never go below
\* zero nor above their limits.
TypeOK == LinkTypeOK /\ ClientTypeOK /\ ServerTypeOK

\* The parent is accepted with typed-streams-v1 and has no streams yet.
Init ==
    /\ toServer = <<>> /\ toClient = <<>>
    /\ lost = FALSE
    /\ ended = [cause |-> "none", id |-> 0, open |-> {}]
    /\ cliDone = FALSE
    /\ streams = {}
    /\ nextStream = FirstId
    /\ child = [i \in Ids |-> NewChild]
    /\ opener = [i \in Ids |-> "none"]
    /\ reader = [i \in Ids |-> [step |-> "idle", n |-> 0]]
    /\ writer = [i \in Ids |-> 0]
    /\ closer = [i \in Ids |-> "idle"]
    /\ srvDone = FALSE
    /\ slots = 0
    /\ server = [i \in Ids |-> NewEntry]
    /\ task = Idle
    /\ forwarder = [i \in Ids |-> [step |-> "none", hold |-> 0, chunk |-> 0]]
    /\ waiter = [i \in Ids |-> "none"]

----------------------------------------------------------------------------
(* Frames and the end of the parent.                                       *)

Lower(a, b) == IF a < b THEN a ELSE b

\* writeFrameContext of the client, and writeFrame of the server: they wait for
\* room in the socket buffers.
ClientSends(f) ==
    /\ Len(toServer) < Buffer
    /\ toServer' = IF srvDone THEN toServer ELSE Append(toServer, f)

ServerSends(f) ==
    /\ Len(toClient) < Buffer
    /\ toClient' = IF cliDone THEN toClient ELSE Append(toClient, f)

\* Streams that both ends consider open.
OpenBoth == {i \in streams : child[i].accepted /\ server[i].state = "open"}

\* What a caller of the client did is remembered in preference.
End(cause, id) ==
    ended' = IF ended.cause = "none" \/ cause \in {"cancelled", "closed"}
             THEN [cause |-> cause, id |-> id, open |-> OpenBoth] ELSE ended

\* finish(): every child is closed, the map emptied and the connection closed.
\* Frames that have not been read are of no use to this end any more.
Finish(cause, id) ==
    /\ cliDone' = TRUE
    /\ streams' = {}
    /\ child' = [i \in Ids |-> IF i \in streams THEN [child[i] EXCEPT !.done = TRUE] ELSE child[i]]
    /\ toClient' = <<>>
    /\ End(cause, id)

\* Variant for sensitivity checks: the PTY is left to its process.
ClosedKeepingProcess(e) == [e EXCEPT !.state = IF @ = "none" THEN "none" ELSE "closed"]

\* The session returns and its deferred calls run: CloseAll closes every child
\* and its PTY, then the connection is closed.
Closed(e) ==
    [e EXCEPT !.state = IF @ = "none" THEN "none" ELSE "closed",
              !.pty = IF @ = "none" THEN "none" ELSE "closed"]

Return(cause, id) ==
    /\ srvDone' = TRUE
    /\ server' = [i \in Ids |-> Closed(server[i])]
    /\ slots' = 0
    /\ task' = Idle
    /\ toServer' = <<>>
    /\ End(cause, id)

----------------------------------------------------------------------------
(* The client's callers.  A call first looks its stream up: child().       *)

Found(i) == ~cliDone /\ i \in streams
Usable(i) == Found(i) /\ opener[i] = "open"

\* OpenTerminalStream allocates the next ID under the mutex.  IDs only grow, so
\* the search for a free one ends at once.
Allocate ==
    /\ ~cliDone
    /\ Cardinality(streams) < ClientLimit
    /\ nextStream < FirstId + MaxAllocated
    /\ nextStream' = nextStream + 1
    /\ streams' = streams \cup {nextStream}
    /\ opener' = [opener EXCEPT ![nextStream] = "writing"]
    /\ UNCHANGED <<linkVars, cliDone, child, reader, writer, closer, serverVars>>

WriteOpen(i) ==
    /\ opener[i] = "writing" /\ ~cliDone
    /\ ClientSends(Frame("open", i, 0))
    /\ opener' = [opener EXCEPT ![i] = "waiting"]
    /\ UNCHANGED <<toClient, lost, ended, cliDone, streams, nextStream, child, reader, writer,
                   closer, serverVars>>

\* The write fails or the caller's context ends: the parent is ended, because
\* the stream may or may not exist.
CancelOpen(i) ==
    /\ opener[i] \in {"writing", "waiting"} /\ ~cliDone
    /\ opener' = [opener EXCEPT ![i] = "failed"]
    /\ Finish("cancelled", i)
    /\ UNCHANGED <<toServer, lost, nextStream, reader, writer, closer, serverVars>>

\* The answer arrived, or the parent has ended.
OpenReturns(i) ==
    /\ opener[i] \in {"writing", "waiting"}
    /\ \/ /\ opener[i] = "waiting" /\ child[i].accepted
          /\ opener' = [opener EXCEPT ![i] = "open"]
       \/ /\ child[i].done
          /\ opener' = [opener EXCEPT ![i] = "failed"]
    /\ UNCHANGED <<linkVars, cliDone, streams, nextStream, child, reader, writer, closer,
                   serverVars>>

\* ReadTerminalStream: one read at a time holds the child's readMu.
BeginRead(i) ==
    /\ Usable(i) /\ i \in Talkers
    /\ reader[i].step = "idle"
    /\ reader' = [reader EXCEPT ![i].step = "polling"]
    /\ UNCHANGED <<linkVars, cliDone, streams, nextStream, child, opener, writer, closer,
                   serverVars>>

\* A prefix of the queue is taken, also when the stream has been closed since.
TakeOutput(i, n) ==
    /\ reader[i].step = "polling"
    /\ n <= child[i].queue
    /\ child' = [child EXCEPT ![i].queue = @ - n]
    /\ reader' = [reader EXCEPT ![i] = [step |-> "updating", n |-> n]]
    /\ UNCHANGED <<linkVars, cliDone, streams, nextStream, opener, writer, closer, serverVars>>

\* Nothing arrived in time, or the stream or the parent has ended.
EndRead(i) ==
    /\ reader[i].step = "polling"
    /\ child[i].queue = 0
    /\ reader' = [reader EXCEPT ![i].step = "idle"]
    /\ UNCHANGED <<linkVars, cliDone, streams, nextStream, child, opener, writer, closer,
                   serverVars>>

WriteUpdate(i) ==
    /\ reader[i].step = "updating" /\ ~cliDone
    /\ ClientSends(Frame("window", i, reader[i].n))
    /\ reader' = [reader EXCEPT ![i].step = "crediting"]
    /\ UNCHANGED <<toClient, lost, ended, cliDone, streams, nextStream, child, opener, writer,
                   closer, serverVars>>

\* Variant for sensitivity checks: the read gives up and the parent goes on.
CancelUpdateSilently(i) ==
    /\ reader[i].step = "updating"
    /\ reader' = [reader EXCEPT ![i] = [step |-> "idle", n |-> 0]]
    /\ UNCHANGED <<linkVars, cliDone, streams, nextStream, child, opener, writer, closer,
                   serverVars>>

\* The write fails, or the context of the read, a long poll, ended meanwhile:
\* the parent is ended.
CancelUpdate(i) ==
    /\ reader[i].step = "updating"
    /\ reader' = [reader EXCEPT ![i] = [step |-> "idle", n |-> 0]]
    /\ IF cliDone THEN UNCHANGED <<cliDone, streams, child, toClient, ended>>
                  ELSE Finish("cancelled", i)
    /\ UNCHANGED <<toServer, lost, nextStream, opener, writer, closer, serverVars>>

\* Only after the update was written does the client's own window grow.
CreditOutput(i) ==
    /\ reader[i].step = "crediting"
    /\ child' = [child EXCEPT ![i].recv = @ + reader[i].n]
    /\ reader' = [reader EXCEPT ![i] = [step |-> "idle", n |-> 0]]
    /\ UNCHANGED <<linkVars, cliDone, streams, nextStream, opener, writer, closer, serverVars>>

\* WriteTerminalStream takes credit for the next chunk of what is left.
TakeCredit(i, n) ==
    /\ Usable(i) /\ i \in Typists
    /\ writer[i] = 0
    /\ n <= Lower(child[i].send, MaxChunk)
    /\ child' = [child EXCEPT ![i].send = @ - n]
    /\ writer' = [writer EXCEPT ![i] = n]
    /\ UNCHANGED <<linkVars, cliDone, streams, nextStream, opener, reader, closer, serverVars>>

WriteInput(i) ==
    /\ writer[i] > 0 /\ ~cliDone
    /\ ClientSends(Frame("data", i, writer[i]))
    /\ writer' = [writer EXCEPT ![i] = 0]
    /\ UNCHANGED <<toClient, lost, ended, cliDone, streams, nextStream, child, opener, reader,
                   closer, serverVars>>

\* The write fails or its context ended; the credit stays taken.
CancelWrite(i) ==
    /\ writer[i] > 0
    /\ writer' = [writer EXCEPT ![i] = 0]
    /\ UNCHANGED <<linkVars, cliDone, streams, nextStream, child, opener, reader, closer,
                   serverVars>>

ResizeTerminalStream(i) ==
    /\ Usable(i) /\ i \in Typists
    /\ ClientSends(Frame("resize", i, 0))
    /\ UNCHANGED <<toClient, lost, ended, clientVars, serverVars>>

\* CloseTerminalStream: the first call writes the frame, every call waits.
BeginClose(i) ==
    /\ Usable(i)
    /\ closer[i] = "idle"
    /\ closer' = [closer EXCEPT ![i] = IF child[i].closing THEN "waiting" ELSE "writing"]
    /\ child' = [child EXCEPT ![i].closing = TRUE]
    /\ UNCHANGED <<linkVars, cliDone, streams, nextStream, opener, reader, writer, serverVars>>

WriteClose(i) ==
    /\ closer[i] = "writing" /\ ~cliDone
    /\ ClientSends(Frame("close", i, 0))
    /\ closer' = [closer EXCEPT ![i] = "waiting"]
    /\ UNCHANGED <<toClient, lost, ended, cliDone, streams, nextStream, child, opener, reader,
                   writer, serverVars>>

\* The write of the frame fails: the parent is ended.
CancelClose(i) ==
    /\ closer[i] = "writing"
    /\ closer' = [closer EXCEPT ![i] = "returned"]
    /\ IF cliDone THEN UNCHANGED <<cliDone, streams, child, toClient, ended>>
                  ELSE Finish("cancelled", i)
    /\ UNCHANGED <<toServer, lost, nextStream, opener, reader, writer, serverVars>>

CloseReturns(i) ==
    /\ closer[i] = "waiting"
    /\ child[i].done \/ cliDone
    /\ closer' = [closer EXCEPT ![i] = "returned"]
    /\ UNCHANGED <<linkVars, cliDone, streams, nextStream, child, opener, reader, writer,
                   serverVars>>

\* The caller gives up waiting; it may call again.
CloseTimesOut(i) ==
    /\ closer[i] = "waiting"
    /\ closer' = [closer EXCEPT ![i] = "idle"]
    /\ UNCHANGED <<linkVars, cliDone, streams, nextStream, child, opener, reader, writer,
                   serverVars>>

\* ManagedMultiplexTerminal.Close.
CloseParent ==
    /\ ~cliDone
    /\ Finish("closed", 0)
    /\ UNCHANGED <<toServer, lost, nextStream, opener, reader, writer, closer, serverVars>>

----------------------------------------------------------------------------
(* The client's monitor: a frame its handler refuses ends the parent.      *)

\* Variant for sensitivity checks: the credit of the frame is not checked.
AcceptsDataUnchecked(f) == f.id \in streams /\ child[f.id].accepted

AcceptsData(f) ==
    /\ f.id \in streams
    /\ child[f.id].accepted
    /\ f.n <= child[f.id].recv
    /\ f.n <= OutputLimit - child[f.id].queue

Accepts(f) ==
    CASE f.type = "accepted" -> f.id \in streams /\ ~child[f.id].accepted /\ ~child[f.id].closing
      [] f.type = "data" -> AcceptsData(f)
      [] f.type = "window" -> /\ f.id \in streams /\ child[f.id].accepted
                              /\ f.n <= MaxWindow - child[f.id].send
      [] f.type = "close" -> f.id \in streams /\ child[f.id].accepted
      [] f.type = "error" -> f.id \in streams
      [] OTHER -> FALSE

\* handleAccepted, handleTypedData, handleWindowUpdate; close and error end
\* with closeChild, which also removes the child from the map.
Applied(f) ==
    CASE f.type = "accepted" -> [child EXCEPT ![f.id].accepted = TRUE, ![f.id].send = Window]
      [] f.type = "data" -> [child EXCEPT ![f.id].recv = @ - f.n, ![f.id].queue = @ + f.n]
      [] f.type = "window" -> [child EXCEPT ![f.id].send = @ + f.n]
      [] OTHER -> [child EXCEPT ![f.id].done = TRUE]

Monitor ==
    /\ ~cliDone /\ toClient # <<>>
    /\ LET f == Head(toClient) IN
          \/ /\ Accepts(f)
             /\ child' = Applied(f)
             /\ streams' = IF f.type \in {"close", "error"} THEN streams \ {f.id} ELSE streams
             /\ toClient' = Tail(toClient)
             /\ UNCHANGED <<cliDone, ended>>
          \/ /\ ~Accepts(f)
             /\ Finish("protocol", f.id)
    /\ UNCHANGED <<toServer, lost, nextStream, opener, reader, writer, closer, serverVars>>

\* ReadFrame fails, or the server said that it closes.
MonitorEnds ==
    /\ ~cliDone /\ (srvDone \/ lost)
    /\ Finish("lost", 0)
    /\ UNCHANGED <<toServer, lost, nextStream, opener, reader, writer, closer, serverVars>>

----------------------------------------------------------------------------
(* The server's dispatcher.                                                *)

Reserved == {i \in Ids : server[i].state # "none"}

\* closeStream and the registry's close; a stream that is not open is an error.
CloseEntry(i) ==
    /\ server' = [server EXCEPT ![i].state = "closed", ![i].pty = "closed"]
    /\ slots' = slots - 1

\* The frame is taken and the dispatcher turns to the next step of it.
Dispatch(step, i, n) ==
    /\ toServer' = Tail(toServer)
    /\ task' = [step |-> step, id |-> i, n |-> n]

\* typedTerminalStreamSet.reserve
HasRoom(i) ==
    /\ slots < ServerLimit
    /\ server[i].state = "none"
    /\ Cardinality(Reserved) < MaxAllocated

HandleOpen(i) ==
    \/ /\ HasRoom(i)
       /\ server' = [server EXCEPT ![i].state = "opening"]
       /\ slots' = slots + 1
       /\ Dispatch("starting", i, 0)
       /\ UNCHANGED <<srvDone, ended>>
    \/ ~HasRoom(i) /\ Return("protocol", i)

HandleData(i, n) ==
    \/ /\ server[i].state = "open" /\ n <= server[i].recv
       /\ server' = [server EXCEPT ![i].recv = @ - n]
       /\ Dispatch("writing", i, n)
       /\ UNCHANGED <<srvDone, slots, ended>>
    \/ /\ ~(server[i].state = "open" /\ n <= server[i].recv)
       /\ Return("protocol", i)

HandleWindow(i, n) ==
    \/ /\ server[i].state = "open" /\ server[i].send <= MaxWindow - n
       /\ server' = [server EXCEPT ![i].send = @ + n]
       /\ Dispatch("idle", 0, 0)
       /\ UNCHANGED <<srvDone, slots, ended>>
    \/ /\ ~(server[i].state = "open" /\ server[i].send <= MaxWindow - n)
       /\ Return("protocol", i)

\* A PTY that cannot be resized ends its stream with an error.
HandleResize(i) ==
    \/ /\ server[i].state = "open"
       /\ Dispatch("idle", 0, 0)
       /\ UNCHANGED <<srvDone, slots, server, ended>>
    \/ /\ server[i].state = "open"
       /\ CloseEntry(i)
       /\ Dispatch("reporting", i, 0)
       /\ UNCHANGED <<srvDone, ended>>
    \/ server[i].state # "open" /\ Return("protocol", i)

HandleClose(i) ==
    \/ /\ server[i].state = "open"
       /\ CloseEntry(i)
       /\ Dispatch("acking", i, 0)
       /\ UNCHANGED <<srvDone, ended>>
    \/ server[i].state # "open" /\ Return("protocol", i)

\* routeTypedApplicationFrame: an error of the handler ends the session.
HandleFrame ==
    /\ ~srvDone /\ task.step = "idle" /\ toServer # <<>>
    /\ LET f == Head(toServer) IN
          \/ f.type = "open" /\ HandleOpen(f.id)
          \/ f.type = "data" /\ HandleData(f.id, f.n)
          \/ f.type = "window" /\ HandleWindow(f.id, f.n)
          \/ f.type = "resize" /\ HandleResize(f.id)
          \/ f.type = "close" /\ HandleClose(f.id)
    /\ UNCHANGED <<toClient, lost, clientVars, forwarder, waiter>>

\* terminal.Start succeeds, or fails and the ID stays closed.
StartPTY ==
    /\ task.step = "starting"
    /\ LET i == task.id IN
          \/ /\ server' = [server EXCEPT ![i] = [state |-> "open", pty |-> "running",
                                                 send |-> Window, recv |-> Window]]
             /\ task' = [task EXCEPT !.step = "accepting"]
             /\ UNCHANGED slots
          \/ /\ server' = [server EXCEPT ![i].state = "closed"]
             /\ slots' = slots - 1
             /\ task' = [task EXCEPT !.step = "reporting"]
    /\ UNCHANGED <<linkVars, clientVars, srvDone, forwarder, waiter>>

\* StreamAccepted is written, then the stream's two goroutines are started.
SendAccepted ==
    /\ task.step = "accepting"
    /\ ServerSends(Frame("accepted", task.id, 0))
    /\ forwarder' = [forwarder EXCEPT ![task.id].step = "reading"]
    /\ waiter' = [waiter EXCEPT ![task.id] = "waiting"]
    /\ task' = Idle
    /\ UNCHANGED <<toServer, lost, ended, clientVars, srvDone, slots, server>>

\* pty.Write returns once the process or the terminal's buffer took the input.
PtyTakesInput ==
    /\ task.step = "writing"
    /\ server[task.id].pty # "closed"
    /\ task' = [task EXCEPT !.step = "updating"]
    /\ UNCHANGED <<linkVars, clientVars, srvDone, slots, server, forwarder, waiter>>

\* pty.Write fails; closeStream is tried and the error is reported either way.
PtyRefusesInput ==
    /\ task.step = "writing"
    /\ IF server[task.id].state = "open" THEN CloseEntry(task.id) ELSE UNCHANGED <<server, slots>>
    /\ task' = [task EXCEPT !.step = "reporting"]
    /\ UNCHANGED <<linkVars, clientVars, srvDone, forwarder, waiter>>

\* The update is written and the credit given back.
SendUpdate ==
    /\ task.step = "updating"
    /\ ServerSends(Frame("window", task.id, task.n))
    /\ server' = [server EXCEPT ![task.id].recv = @ + task.n]
    /\ task' = Idle
    /\ UNCHANGED <<toServer, lost, ended, clientVars, srvDone, slots, forwarder, waiter>>

\* Variant for sensitivity checks: the close is not acknowledged.
SendNoAck ==
    /\ task.step = "acking"
    /\ task' = Idle
    /\ UNCHANGED <<linkVars, clientVars, srvDone, slots, server, forwarder, waiter>>

\* The acknowledgement of a StreamClose, or a StreamError.
SendAck ==
    /\ task.step = "acking"
    /\ ServerSends(Frame("close", task.id, 0))
    /\ task' = Idle
    /\ UNCHANGED <<toServer, lost, ended, clientVars, srvDone, slots, server, forwarder, waiter>>

SendError ==
    /\ task.step = "reporting"
    /\ ServerSends(Frame("error", task.id, 0))
    /\ task' = Idle
    /\ UNCHANGED <<toServer, lost, ended, clientVars, srvDone, slots, server, forwarder, waiter>>

\* The dispatcher reads the end of the connection, or its write fails.  It
\* cannot while it is inside the PTY.
Disconnect ==
    /\ ~srvDone /\ (cliDone \/ lost)
    /\ task.step \notin {"starting", "writing"}
    /\ Return("lost", 0)
    /\ UNCHANGED <<toClient, lost, clientVars, forwarder, waiter>>

\* The idle or the maximum duration of the session policy.
PolicyExpires ==
    /\ ~srvDone /\ task.step = "idle"
    /\ Return("policy", 0)
    /\ UNCHANGED <<toClient, lost, clientVars, forwarder, waiter>>

----------------------------------------------------------------------------
(* The goroutines of one stream and its process.                           *)

ProcessExits(i) ==
    /\ server[i].pty = "running"
    /\ server' = [server EXCEPT ![i].pty = "exited"]
    /\ UNCHANGED <<linkVars, clientVars, srvDone, slots, task, forwarder, waiter>>

ReadPTY(i, n) ==
    /\ i \in Talkers
    /\ forwarder[i].step = "reading"
    /\ server[i].pty # "closed"
    /\ forwarder' = [forwarder EXCEPT ![i] = [step |-> "holding", hold |-> n, chunk |-> 0]]
    /\ UNCHANGED <<linkVars, clientVars, srvDone, slots, server, task, waiter>>

\* sendData takes credit for a chunk before it writes it.
TakeOutputCredit(i) ==
    /\ forwarder[i].step = "holding"
    /\ server[i].send > 0
    /\ LET n == Lower(Lower(forwarder[i].hold, MaxChunk), server[i].send) IN
          /\ server' = [server EXCEPT ![i].send = @ - n]
          /\ forwarder' = [forwarder EXCEPT ![i] =
                              [step |-> "sending", hold |-> @.hold - n, chunk |-> n]]
    /\ UNCHANGED <<linkVars, clientVars, srvDone, slots, task, waiter>>

\* The chunk is written, whatever has become of the stream meanwhile.
SendOutput(i) ==
    /\ forwarder[i].step = "sending" /\ ~srvDone
    /\ ServerSends(Frame("data", i, forwarder[i].chunk))
    /\ forwarder' = [forwarder EXCEPT ![i] =
                        [step |-> IF @.hold > 0 THEN "holding" ELSE "reading",
                         hold |-> @.hold, chunk |-> 0]]
    /\ UNCHANGED <<toServer, lost, ended, clientVars, srvDone, slots, server, task, waiter>>

\* The PTY has no more output, the stream was closed while it waited for
\* credit, or the connection is gone.
StopForwarding(i) ==
    /\ \/ forwarder[i].step = "reading" /\ server[i].pty \in {"exited", "closed"}
       \/ /\ forwarder[i].step = "holding"
          /\ server[i].send = 0 /\ server[i].state = "closed"
       \/ forwarder[i].step = "sending" /\ (srvDone \/ cliDone \/ lost)
    /\ forwarder' = [forwarder EXCEPT ![i] = [step |-> "stopped", hold |-> 0, chunk |-> 0]]
    /\ UNCHANGED <<linkVars, clientVars, srvDone, slots, server, task, waiter>>

\* waitProcess: the process has ended and its output is drained, or the drain
\* has timed out, or the stream was closed by another goroutine.
WaitReturns(i) ==
    /\ waiter[i] = "waiting"
    /\ server[i].pty \in {"exited", "closed"}
    /\ IF server[i].state = "open"
       THEN CloseEntry(i) /\ waiter' = [waiter EXCEPT ![i] = "closing"]
       ELSE UNCHANGED <<server, slots>> /\ waiter' = [waiter EXCEPT ![i] = "done"]
    /\ UNCHANGED <<linkVars, clientVars, srvDone, task, forwarder>>

SendClose(i) ==
    /\ waiter[i] = "closing"
    /\ IF srvDone THEN UNCHANGED toClient ELSE ServerSends(Frame("close", i, 0))
    /\ waiter' = [waiter EXCEPT ![i] = "done"]
    /\ UNCHANGED <<toServer, lost, ended, clientVars, srvDone, slots, server, task, forwarder>>

LoseConnection ==
    /\ ~lost
    /\ lost' = TRUE
    /\ End("lost", 0)
    /\ UNCHANGED <<toServer, toClient, clientVars, serverVars>>

----------------------------------------------------------------------------
\* What the program does by itself once a call is under way.
ClientStep(i) ==
    \/ WriteOpen(i) \/ OpenReturns(i)
    \/ \E n \in 1..Window : TakeOutput(i, n)
    \/ EndRead(i) \/ WriteUpdate(i) \/ CreditOutput(i) \/ WriteInput(i)
    \/ WriteClose(i) \/ CloseReturns(i)

\* What users, deadlines and the network may do at any time.
ClientChoice(i) ==
    \/ CancelOpen(i) \/ BeginRead(i) \/ CancelUpdate(i)
    \/ \E n \in 1..Window : TakeCredit(i, n)
    \/ CancelWrite(i) \/ ResizeTerminalStream(i)
    \/ BeginClose(i) \/ CancelClose(i) \/ CloseTimesOut(i)

DispatcherStep ==
    HandleFrame \/ StartPTY \/ SendAccepted \/ SendUpdate \/ SendAck \/ SendError \/ Disconnect

StreamStep(i) ==
    TakeOutputCredit(i) \/ SendOutput(i) \/ StopForwarding(i) \/ WaitReturns(i) \/ SendClose(i)

Next ==
    \/ Allocate \/ CloseParent \/ Monitor \/ MonitorEnds
    \/ \E i \in Ids : ClientStep(i) \/ ClientChoice(i)
    \/ DispatcherStep \/ PtyTakesInput \/ PtyRefusesInput \/ PolicyExpires
    \/ \E i \in Ids : StreamStep(i) \/ ProcessExits(i) \/ (\E n \in 1..Window : ReadPTY(i, n))
    \/ LoseConnection

Spec == Init /\ [][Next]_vars

\* Goroutines that can run do run, a PTY that is closed fails its writer, and a
\* broken connection is noticed.  Users, processes and deadlines owe nothing.
Fairness ==
    /\ WF_vars(Monitor) /\ WF_vars(MonitorEnds)
    /\ WF_vars(DispatcherStep)
    /\ WF_vars(task.step = "writing" /\ server[task.id].pty = "closed" /\ PtyRefusesInput)
    /\ \A i \in Ids : WF_vars(ClientStep(i)) /\ WF_vars(StreamStep(i))

FairSpec == Spec /\ Fairness

----------------------------------------------------------------------------
(* Properties.                                                             *)

Live(i) == ~lost /\ ~cliDone /\ ~srvDone /\ i \in streams /\ server[i].state = "open"

\* The bytes of stream i in the frames of a type that are under way: the k-th
\* frame of the channel and the b-th of the bytes it carries or grants.
Bytes(channel, type, i) ==
    {p \in (1..Len(channel)) \X (1..Window) :
        LET f == channel[p[1]] IN f.type = type /\ f.id = i /\ p[2] <= f.n}

InFlight(channel, type, i) == Cardinality(Bytes(channel, type, i))

\* No byte of output credit is ever lost or made: what the server may still
\* send, what it is sending, what is under way or waits to be read, and the
\* updates the reader owes or has sent add up to the window.
OutputCreditConserved ==
    \A i \in Ids : Live(i) =>
        Window = server[i].send + forwarder[i].chunk + InFlight(toClient, "data", i)
                 + child[i].queue + (IF reader[i].step = "updating" THEN reader[i].n ELSE 0)
                 + InFlight(toServer, "window", i)

\* The client's buffer for a stream and the window it still grants fit in the
\* window, so the output limit of handleTypedData is never what refuses a frame.
BufferWithinWindow ==
    \A i \in streams :
        LET taken == IF reader[i].step \in {"updating", "crediting"} THEN reader[i].n ELSE 0
        IN  child[i].recv + child[i].queue + taken = Window

\* All input of a stream that is under way fits the window the server checks
\* it against: writers and canceled writes never overrun the server.
InputWithinWindow ==
    \A i \in Ids : Live(i) => InFlight(toServer, "data", i) <= server[i].recv

\* The slot counter of typedTerminalStreamSet is the number of streams that are
\* opening or open, although three goroutines close streams.
SlotsExact ==
    slots = Cardinality({i \in Ids : server[i].state \in {"opening", "open"}})

\* A PTY lives only as long as its stream: whichever of the dispatcher, the
\* waiter, a failed write or the end of the session closes the stream, no
\* process is left behind.
NoOrphanProcess ==
    \A i \in Ids : server[i].pty \in {"running", "exited"} => server[i].state = "open" /\ ~srvDone

\* The dispatcher stays in pty.Write for good: nothing bounds the call, and a
\* process need not read its input.
DispatcherStuck == <>[](task.step = "writing")
AllClosed == srvDone /\ \A i \in Ids : server[i].pty \in {"none", "closed"}

\* A client that asked for a stream to be closed sees it closed, unless the
\* dispatcher is stuck in a PTY.
CloseTakesEffect ==
    DispatcherStuck \/ \A i \in Ids : closer[i] = "waiting" ~> child[i].done \/ cliDone

\* When the transport fails or the client ends the parent, the server's session
\* returns and every process is gone, unless the dispatcher, which alone notices
\* the loss, is stuck in a PTY.
LossNoticed == DispatcherStuck \/ (lost \/ cliDone ~> AllClosed)

\* One stream closing does not end the parent, hence its siblings: no frame of
\* two conforming ends is ever a protocol error while other streams are open.
SiblingsSurvive == ended.cause = "protocol" => ended.open \subseteq {ended.id}

\* Output the client has buffered when the remote end closes the parent can
\* still be read by the next call.
FinalOutputReadable ==
    \A i \in Ids : ended.cause = "policy" /\ child[i].queue > 0 => Found(i)

\* Flow control of a stream, in both directions and at both ends.
CreditConserved == OutputCreditConserved /\ BufferWithinWindow /\ InputWithinWindow

\* A stream is closed once: its slot and its process go with it.
ClosedOnce == SlotsExact /\ NoOrphanProcess
============================================================================
