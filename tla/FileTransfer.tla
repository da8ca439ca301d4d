---------------------------- MODULE FileTransfer ----------------------------
(***************************************************************************)
(* File transfer, end to end: the operations of the Core                   *)
(* (internal/coreapi/file_transfer_service.go), the client's file children *)
(* on the multiplexed parent (internal/session/managed_file_transfer.go),  *)
(* the agent's typedFileServer (typed_file_server.go) and its store        *)
(* (file_transfer_store.go).                                               *)
(*                                                                         *)
(* The goroutines are: in the Core one caller each for open, write or      *)
(* read, commit and cancel of a transfer, one watcher per operation and    *)
(* the parent's monitor; on the agent the dispatcher and, per download, a  *)
(* forwarder.  A step ends where a goroutine takes a lock, writes a frame  *)
(* or waits.  Bytes are chunks; all uploads go to one destination path.    *)
(* Terminal streams and stream IDs are in TypedStreams.                    *)
(***************************************************************************)
EXTENDS Integers, Sequences, FiniteSets, SequencesExt

CONSTANTS Uploads, Downloads,  \* transfers
          Cancellable,         \* those the user may cancel
          NoTransfer, LocalFile,
          FileChunks,          \* chunks of a file, and of an upload's expected size
          FileWindow,          \* typedFileReceiveWindow, managedMuxReceiveWindow
          FileStreamLimit,     \* managedMuxMaxFileStreams, maxFileStreamsPerConnection
          MaxTransfers         \* FileTransferService.max

Transfers == Uploads \cup Downloads

ASSUME FileTransferAssumption ==
    /\ Uploads \cap Downloads = {}
    /\ Cancellable \subseteq Transfers
    /\ {NoTransfer, LocalFile} \cap Transfers = {} /\ NoTransfer # LocalFile
    /\ {FileChunks, FileWindow, FileStreamLimit, MaxTransfers} \subseteq Nat \ {0}

VARIABLES framesToAgent, toCore,  \* frames on their way
          parentDone,       \* ManagedMultiplexTerminal.done
          agentDone,        \* whether the agent's session has returned
          op,               \* FileTransferService.reserved and ops
          kid,              \* the client's managedMuxChild and managedFileState
          stream,           \* progress of Write or Read of a transfer
          commit, cancel,   \* where those calls are
          agentKid,         \* the agent's typedFileChild and its FileUpload or FileDownload
          destination       \* what is at the destination path

wires == <<framesToAgent, toCore>>
endVars == <<parentDone, agentDone>>
transferVars == <<wires, endVars, op, kid, stream, commit, cancel, agentKid, destination>>

CallSteps == {"idle", "looked", "written", "waiting", "ok", "failed"}
Kids == [state : {"none", "opening", "open", "done"}, accepted : BOOLEAN, closing : BOOLEAN,
         failed : BOOLEAN, completing : BOOLEAN, credit : 0..FileWindow, queued : 0..FileWindow]
AgentKids == [state : {"none", "open", "closed"}, credit : 0..FileWindow, chunks : 0..FileChunks,
              stage : {"none", "open", "removed", "left"}, sized : BOOLEAN,
              forward : {"none", "ready", "holding", "complete", "returned"}]

\* The types of the variables.
TransferTypeOK ==
    /\ \A i \in 1..Len(framesToAgent) : framesToAgent[i].t \in Transfers
    /\ \A i \in 1..Len(toCore) : toCore[i].t \in Transfers
    /\ parentDone \in BOOLEAN /\ agentDone \in BOOLEAN
    /\ op \in [Transfers -> {"none", "reserved", "listed", "gone"}]
    /\ kid \in [Transfers -> Kids]
    /\ stream \in [Transfers -> [step : {"idle", "reading", "holding", "ended"}, count : 0..FileChunks]]
    /\ commit \in [Transfers -> CallSteps] /\ cancel \in [Transfers -> CallSteps]
    /\ agentKid \in [Transfers -> AgentKids]
    /\ destination \in Uploads \cup {NoTransfer, LocalFile}

TransferInit ==
    /\ framesToAgent = <<>> /\ toCore = <<>>
    /\ parentDone = FALSE /\ agentDone = FALSE
    /\ op \in [Transfers -> {"none", "gone"}]  \* the transfers that will be asked for
    /\ kid = [t \in Transfers |-> [state |-> "none", accepted |-> FALSE, closing |-> FALSE,
                                   failed |-> FALSE, completing |-> FALSE, credit |-> 0, queued |-> 0]]
    /\ stream = [t \in Transfers |-> [step |-> "idle", count |-> 0]]
    /\ commit = [t \in Transfers |-> "idle"] /\ cancel = [t \in Transfers |-> "idle"]
    /\ agentKid = [t \in Transfers |->
                     [state |-> "none", credit |-> 0, chunks |-> 0, stage |-> "none",
                      sized |-> FALSE, forward |-> "none"]]
    /\ destination = NoTransfer

FileFrame(type, t) == [type |-> type, t |-> t]

\* A frame for an end that has gone is dropped.
CoreWrites(f) == framesToAgent' = IF agentDone THEN framesToAgent ELSE Append(framesToAgent, f)
AgentWrites(f) == toCore' = IF parentDone THEN toCore ELSE Append(toCore, f)

\* ManagedMultiplexTerminal.finish, as seen from the file children.
Finish ==
    /\ parentDone' = TRUE
    /\ kid' = [t \in Transfers |-> IF kid[t].state \in {"opening", "open"}
                                   THEN [kid[t] EXCEPT !.state = "done"] ELSE kid[t]]
    /\ toCore' = <<>>

----------------------------------------------------------------------------
(* The Core's operations.                                                  *)

Held == {t \in Transfers : op[t] \in {"reserved", "listed"}}
FileStreams == {t \in Transfers : kid[t].state \in {"opening", "open"}}

\* reserveOperationID: reserved and listed operations share one limit.
ReserveOperation(t) ==
    /\ Cardinality(Held) < MaxTransfers
    /\ op' = [op EXCEPT ![t] = "reserved"]

\* openFileStream, up to the open frame: a child is allocated on the parent.
OpenFileStream(t) ==
    /\ Cardinality(FileStreams) < FileStreamLimit
    /\ kid' = [kid EXCEPT ![t].state = "opening",
                          ![t].credit = IF t \in Downloads THEN FileWindow ELSE 0]
    /\ CoreWrites(FileFrame("open", t))

\* OpenFileUpload and OpenFileDownload of the Core, up to the open frame.
Open(t) ==
    /\ op[t] = "none" /\ ~parentDone
    /\ ReserveOperation(t)
    /\ OpenFileStream(t)
    /\ UNCHANGED <<toCore, endVars, stream, commit, cancel, agentKid, destination>>

\* The child was accepted, and the operation is listed; or it was rejected, or
\* the parent ended, and the reservation is released.
OpenReturns(t) ==
    /\ op[t] = "reserved"
    /\ \/ kid[t].accepted /\ op' = [op EXCEPT ![t] = "listed"]
       \/ /\ parentDone \/ (kid[t].failed /\ ~kid[t].accepted)
          /\ op' = [op EXCEPT ![t] = "gone"]
    /\ UNCHANGED <<wires, endVars, kid, stream, commit, cancel, agentKid, destination>>

\* The caller's context ends before the answer: the whole parent is finished.
OpenTimesOut(t) ==
    /\ op[t] = "reserved" /\ kid[t].state = "opening"
    /\ Finish
    /\ op' = [op EXCEPT ![t] = "gone"]
    /\ UNCHANGED <<framesToAgent, agentDone, stream, commit, cancel, agentKid, destination>>

\* Variant for sensitivity checks: only the end of the parent is watched.
WatchParent(t) ==
    /\ op[t] = "listed" /\ parentDone
    /\ op' = [op EXCEPT ![t] = "gone"]
    /\ UNCHANGED <<wires, endVars, kid, stream, commit, cancel, agentKid, destination>>

\* watchOperation: the child or the parent is done.
WatchOperation(t) ==
    /\ op[t] = "listed"
    /\ kid[t].state = "done" \/ parentDone
    /\ op' = [op EXCEPT ![t] = "gone"]
    /\ UNCHANGED <<wires, endVars, kid, stream, commit, cancel, agentKid, destination>>

\* WriteFileUpload looks the operation up, then Write takes credit.  A caller
\* commits once its writes have returned.
TakeSendCredit(u) ==
    /\ u \in Uploads /\ op[u] = "listed" /\ commit[u] = "idle"
    /\ stream[u].step = "idle" /\ stream[u].count < FileChunks
    /\ kid[u].state = "open" /\ kid[u].credit > 0
    /\ kid' = [kid EXCEPT ![u].credit = @ - 1]
    /\ stream' = [stream EXCEPT ![u].step = "holding"]
    /\ UNCHANGED <<wires, endVars, op, commit, cancel, agentKid, destination>>

\* The chunk is written, whatever became of the child since.
WriteChunk(u) ==
    /\ u \in Uploads /\ stream[u].step = "holding"
    /\ stream' = [stream EXCEPT ![u].step = "idle", ![u].count = @ + 1]
    /\ IF parentDone THEN UNCHANGED framesToAgent ELSE CoreWrites(FileFrame("data", u))
    /\ UNCHANGED <<toCore, endVars, op, kid, commit, cancel, agentKid, destination>>

\* ReadFileDownload looks the operation up, and Read waits for a chunk.
BeginRead(d) ==
    /\ d \in Downloads /\ op[d] = "listed" /\ stream[d].step = "idle"
    /\ stream' = [stream EXCEPT ![d].step = "reading"]
    /\ UNCHANGED <<wires, endVars, op, kid, commit, cancel, agentKid, destination>>

TakeChunk(d) ==
    /\ stream[d].step = "reading" /\ kid[d].queued > 0
    /\ kid' = [kid EXCEPT ![d].queued = @ - 1]
    /\ stream' = [stream EXCEPT ![d].step = "holding", ![d].count = @ + 1]
    /\ UNCHANGED <<wires, endVars, op, commit, cancel, agentKid, destination>>

\* Variant for sensitivity checks: the credit is returned twice.
ReturnCreditTwice(d) ==
    /\ d \in Downloads /\ stream[d].step = "holding"
    /\ stream' = [stream EXCEPT ![d].step = "idle"]
    /\ framesToAgent' = framesToAgent \o <<FileFrame("window", d), FileFrame("window", d)>>
    /\ UNCHANGED <<toCore, endVars, op, kid, commit, cancel, agentKid, destination>>

\* Under wireMu the credit is given back unless the child is done; then Read
\* returns the chunk.
ReturnCredit(d) ==
    /\ d \in Downloads /\ stream[d].step = "holding"
    /\ stream' = [stream EXCEPT ![d].step = "idle"]
    /\ IF kid[d].state = "done" THEN UNCHANGED <<kid, framesToAgent>>
       ELSE /\ kid' = [kid EXCEPT ![d].credit = @ + 1]
            /\ CoreWrites(FileFrame("window", d))
    /\ UNCHANGED <<toCore, endVars, op, commit, cancel, agentKid, destination>>

\* Read returns without a chunk: at the end of the child, or of the parent.
ReadEnds(d) ==
    /\ stream[d].step = "reading"
    /\ (kid[d].state = "done" /\ kid[d].queued = 0) \/ parentDone
    /\ stream' = [stream EXCEPT ![d].step = "ended"]
    /\ op' = [op EXCEPT ![d] = "gone"]
    /\ UNCHANGED <<wires, endVars, kid, commit, cancel, agentKid, destination>>

----------------------------------------------------------------------------
(* CommitFileUpload and CancelFileTransfer.                                *)

\* takeOperation finds the operation under the lock and releases it.
Look(call, t) == op[t] = "listed" /\ call[t] = "idle" /\ call' = [call EXCEPT ![t] = "looked"]

BeginCommit(u) ==
    /\ u \in Uploads /\ stream[u].step = "idle"
    /\ Look(commit, u)
    /\ UNCHANGED <<wires, endVars, op, kid, stream, cancel, agentKid, destination>>

BeginCancel(t) ==
    /\ t \in Cancellable
    /\ Look(cancel, t)
    /\ UNCHANGED <<wires, endVars, op, kid, stream, commit, agentKid, destination>>

\* The operation is removed before the mutating call, and Commit sends its
\* close unless the child is closing already.
Commit(u) ==
    /\ commit[u] = "looked"
    /\ op' = [op EXCEPT ![u] = "gone"]
    /\ IF kid[u].state = "done"
       THEN commit' = [commit EXCEPT ![u] = "failed"] /\ UNCHANGED <<kid, framesToAgent>>
       ELSE /\ commit' = [commit EXCEPT ![u] = "waiting"]
            /\ kid' = [kid EXCEPT ![u].closing = TRUE]
            /\ IF kid[u].closing THEN UNCHANGED framesToAgent ELSE CoreWrites(FileFrame("close", u))
    /\ UNCHANGED <<toCore, endVars, stream, cancel, agentKid, destination>>

\* cancelFile, which holds wireMu while it writes; a child that is done keeps its result.
CancelFile(t) ==
    /\ cancel[t] = "looked"
    /\ op' = [op EXCEPT ![t] = "gone"]
    /\ IF kid[t].state = "done"
       THEN /\ cancel' = [cancel EXCEPT ![t] = IF kid[t].failed THEN "failed" ELSE "ok"]
            /\ UNCHANGED <<kid, framesToAgent>>
       ELSE /\ cancel' = [cancel EXCEPT ![t] = "waiting"]
            /\ kid' = [kid EXCEPT ![t].closing = TRUE]
            /\ CoreWrites(FileFrame("error", t))
    /\ UNCHANGED <<toCore, endVars, stream, commit, agentKid, destination>>

\* The select of either call: when both channels are closed, either is taken.
Outcomes(t) ==
    (IF parentDone THEN {"failed"} ELSE {})
      \cup (IF kid[t].state = "done" THEN {IF kid[t].failed THEN "failed" ELSE "ok"} ELSE {})

CommitReturns(u) ==
    /\ commit[u] = "waiting"
    /\ \E result \in Outcomes(u) : commit' = [commit EXCEPT ![u] = result]
    /\ UNCHANGED <<wires, endVars, op, kid, stream, cancel, agentKid, destination>>

CancelReturns(t) ==
    /\ cancel[t] = "waiting"
    /\ \E result \in Outcomes(t) : cancel' = [cancel EXCEPT ![t] = result]
    /\ UNCHANGED <<wires, endVars, op, kid, stream, commit, agentKid, destination>>

\* The context of the call ends first: the parent is finished, since the
\* outcome is not known.
CallTimesOut(t) ==
    /\ \/ commit[t] = "waiting" /\ commit' = [commit EXCEPT ![t] = "failed"] /\ UNCHANGED cancel
       \/ cancel[t] = "waiting" /\ cancel' = [cancel EXCEPT ![t] = "failed"] /\ UNCHANGED commit
    /\ Finish
    /\ UNCHANGED <<framesToAgent, agentDone, op, stream, agentKid, destination>>

\* The user closes the connection, or it is lost.
ParentEnds ==
    /\ ~parentDone
    /\ Finish
    /\ UNCHANGED <<framesToAgent, agentDone, op, stream, commit, cancel, agentKid, destination>>

----------------------------------------------------------------------------
(* The parent's monitor: one frame of the agent.                           *)

\* The frame is one the child can take.
Takes(f) ==
    CASE f.type = "accepted" -> kid[f.t].state = "opening" /\ ~kid[f.t].closing
      [] f.type = "data" -> f.t \in Downloads /\ kid[f.t].state = "open" /\ kid[f.t].credit > 0
      [] f.type = "window" -> kid[f.t].state = "open"
      [] f.type = "error" -> kid[f.t].state \in {"opening", "open"}
      [] f.type = "peer_close" -> kid[f.t].state = "open" /\ kid[f.t].closing
      [] f.type = "download_complete" -> kid[f.t].state = "open"

\* handleFileError: the child ends with the agent's error.
FailedKid(k) == [k EXCEPT !.state = "done", !.failed = TRUE]

\* handleAccepted, handleFileData, handleWindowUpdate, handleFileClose and
\* handleFileError.  A completion that finds the child closing changes nothing.
Handled(f) ==
    CASE f.type = "accepted" ->
             [kid[f.t] EXCEPT !.state = "open", !.accepted = TRUE,
                              !.credit = IF f.t \in Uploads THEN FileWindow ELSE @]
      [] f.type = "data" -> [kid[f.t] EXCEPT !.credit = @ - 1, !.queued = @ + 1]
      [] f.type = "window" -> [kid[f.t] EXCEPT !.credit = @ + 1]
      [] f.type = "error" -> FailedKid(kid[f.t])
      [] f.type = "peer_close" -> [kid[f.t] EXCEPT !.state = "done"]
      [] f.type = "download_complete" ->
             IF kid[f.t].completing THEN [kid[f.t] EXCEPT !.state = "done"] ELSE kid[f.t]

Acknowledges(f) == f.type = "download_complete" /\ kid[f.t].completing

\* handleFileClose has read that the child is not closing, and waits for wireMu,
\* which a cancellation may take first.
CompleteSeen ==
    /\ ~parentDone /\ toCore # <<>>
    /\ LET f == Head(toCore) IN
       /\ f.type = "download_complete" /\ Takes(f)
       /\ ~kid[f.t].closing /\ ~kid[f.t].completing
       /\ kid' = [kid EXCEPT ![f.t].completing = TRUE]
    /\ UNCHANGED <<wires, endVars, op, stream, commit, cancel, agentKid, destination>>

FileMonitor ==
    /\ ~parentDone /\ toCore # <<>>
    /\ LET f == Head(toCore) IN
       /\ f.type = "download_complete" /\ Takes(f) => kid[f.t].closing \/ kid[f.t].completing
       /\ IF Takes(f)
          THEN /\ kid' = [kid EXCEPT ![f.t] = Handled(f)]
               /\ toCore' = Tail(toCore)
               /\ IF Acknowledges(f) THEN CoreWrites(FileFrame("close", f.t)) ELSE UNCHANGED framesToAgent
               /\ UNCHANGED parentDone
          ELSE Finish /\ UNCHANGED framesToAgent
    /\ UNCHANGED <<agentDone, op, stream, commit, cancel, agentKid, destination>>

\* The agent has gone.
FileMonitorEnds ==
    /\ ~parentDone /\ agentDone /\ toCore = <<>>
    /\ Finish
    /\ UNCHANGED <<framesToAgent, agentDone, op, stream, commit, cancel, agentKid, destination>>

----------------------------------------------------------------------------
(* The agent's typedFileServer.                                            *)

ActiveFiles == {t \in Transfers : agentKid[t].state = "open"}

\* Variant for sensitivity checks: a closed upload keeps its staging file.
ClosedKidKeepingStage(k, kept) == [k EXCEPT !.state = "closed"]

\* FileUpload.Cancel and failLocked: nothing once the upload is closed; else the
\* staging file is removed, or kept by the file system, an error nobody reads.
Unstaged(staged, kept) ==
    IF staged # "open" THEN staged ELSE IF kept THEN "left" ELSE "removed"

\* closeChild: registry, done channel, and Cancel or Close of the file.
ClosedKid(k, kept) == [k EXCEPT !.state = "closed", !.stage = Unstaged(@, kept)]

\* Variant for sensitivity checks: an upload whose destination is taken is not refused
\* here, and replaces it at the commit.
CommitReplaces(u) ==
    agentKid[u].sized => agentKid[u].chunks = FileChunks

\* FileUpload.Commit validates, then links the staging file at the destination,
\* which must not exist.
CanPublish(u) ==
    /\ agentKid[u].sized => agentKid[u].chunks = FileChunks
    /\ destination = NoTransfer

\* BeginUpload: the destination does not exist, and a private file is staged.
StagedUpload(sized) ==
    [state |-> "open", credit |-> FileWindow, chunks |-> 0, stage |-> "open",
     sized |-> sized, forward |-> "none"]

\* OpenDownload: the size observed at the open bounds the transfer.
OpenedDownload ==
    [state |-> "open", credit |-> FileWindow, chunks |-> FileChunks, stage |-> "none",
     sized |-> FALSE, forward |-> "ready"]

OpenUpload(u) ==
    /\ destination = NoTransfer
    /\ \E sized \in BOOLEAN : agentKid' = [agentKid EXCEPT ![u] = StagedUpload(sized)]
    /\ AgentWrites(FileFrame("accepted", u))

OpenDownload(d) ==
    /\ agentKid' = [agentKid EXCEPT ![d] = OpenedDownload]
    /\ AgentWrites(FileFrame("accepted", d))

\* The limit is reached, the operation is not authorized, or the file cannot be
\* opened: the reservation is released and the client told.
RefuseFile(t) ==
    /\ agentKid' = [agentKid EXCEPT ![t].state = "closed"]
    /\ AgentWrites(FileFrame("error", t))

HandleFileOpen(t) ==
    /\ \/ /\ Cardinality(ActiveFiles) < FileStreamLimit
          /\ IF t \in Uploads THEN OpenUpload(t) ELSE OpenDownload(t)
       \/ RefuseFile(t)
    /\ UNCHANGED destination

\* FileUpload.Write, within the size limit and the expected size.
StageChunk(u) ==
    /\ agentKid[u].chunks < FileChunks
    /\ agentKid' = [agentKid EXCEPT ![u].chunks = @ + 1]

\* data: the chunk is staged and its credit returned, or the upload fails.  The
\* agent's own count of that credit is whole between two frames.
HandleFileData(u) ==
    /\ \/ StageChunk(u) /\ AgentWrites(FileFrame("window", u))
       \/ /\ \E kept \in BOOLEAN : agentKid' = [agentKid EXCEPT ![u] = ClosedKid(@, kept)]
          /\ AgentWrites(FileFrame("error", u))
    /\ UNCHANGED destination

HandleFileWindow(d) ==
    /\ agentKid' = [agentKid EXCEPT ![d].credit = @ + 1]
    /\ UNCHANGED <<toCore, destination>>

\* peerClose of an upload commits it, which may fail, before or, when the staging
\* file cannot be removed, after it is published; of a download it acknowledges
\* the completion, or asks for an early end.
HandleFileClose(t) ==
    \E kept \in BOOLEAN :
        /\ agentKid' = [agentKid EXCEPT ![t] = ClosedKid(@, kept)]
        /\ \/ t \in Uploads /\ CanPublish(t) /\ destination' = t
              /\ AgentWrites(FileFrame(IF kept THEN "error" ELSE "peer_close", t))
           \/ t \in Uploads /\ UNCHANGED destination /\ AgentWrites(FileFrame("error", t))
           \/ t \in Downloads /\ agentKid[t].chunks > 0 /\ UNCHANGED destination
              /\ AgentWrites(FileFrame("peer_close", t))
           \/ t \in Downloads /\ agentKid[t].chunks = 0 /\ UNCHANGED <<toCore, destination>>

HandleFileError(t) ==
    /\ \E kept \in BOOLEAN : agentKid' = [agentKid EXCEPT ![t] = ClosedKid(@, kept)]
    /\ AgentWrites(FileFrame("peer_close", t))
    /\ UNCHANGED destination

\* The session returns: CloseAll, in which any of the removals may fail.
AgentReturns ==
    /\ agentDone' = TRUE
    /\ \E kept \in SUBSET ActiveFiles :
          agentKid' = [t \in Transfers |-> IF t \in ActiveFiles THEN ClosedKid(agentKid[t], t \in kept)
                                          ELSE agentKid[t]]
    /\ framesToAgent' = <<>>

\* openChild, and the directions data and window updates are valid for.
Valid(f) ==
    CASE f.type = "open" -> agentKid[f.t].state = "none"
      [] f.type = "data" -> f.t \in Uploads /\ agentKid[f.t].state = "open"
      [] f.type = "window" -> f.t \in Downloads /\ agentKid[f.t].state = "open"
      [] OTHER -> agentKid[f.t].state = "open"

\* routeTypedApplicationFrame and Handle; an error ends the session.
DispatchFile ==
    /\ ~agentDone /\ framesToAgent # <<>>
    /\ LET f == Head(framesToAgent) IN
       IF ~Valid(f)
       THEN /\ AgentReturns
            /\ UNCHANGED <<toCore, destination>>
       ELSE /\ framesToAgent' = Tail(framesToAgent)
            /\ UNCHANGED agentDone
            /\ \/ f.type = "open" /\ HandleFileOpen(f.t)
               \/ f.type = "data" /\ HandleFileData(f.t)
               \/ f.type = "window" /\ HandleFileWindow(f.t)
               \/ f.type = "close" /\ HandleFileClose(f.t)
               \/ f.type = "error" /\ HandleFileError(f.t)
    /\ UNCHANGED <<parentDone, op, kid, stream, commit, cancel>>

\* A policy timer ends the session, or the reader of the connection fails.
AgentEnds ==
    /\ ~agentDone
    /\ AgentReturns
    /\ UNCHANGED <<toCore, parentDone, op, kid, stream, commit, cancel, destination>>

AgentLosesParent == parentDone /\ AgentEnds

\* forwardDownload takes credit for a chunk it has read, unless done.
ForwardRead(d) ==
    /\ agentKid[d].forward = "ready"
    /\ agentKid' = [agentKid EXCEPT ![d] =
          IF @.state = "closed" THEN [@ EXCEPT !.forward = "returned"]
          ELSE IF @.chunks = 0 THEN [@ EXCEPT !.forward = "complete"]
          ELSE [@ EXCEPT !.forward = "holding", !.credit = agentKid[d].credit - 1,
                      !.chunks = agentKid[d].chunks - 1]]
    /\ agentKid[d].state = "closed" \/ agentKid[d].chunks = 0 \/ agentKid[d].credit > 0
    /\ UNCHANGED <<wires, endVars, op, kid, stream, commit, cancel, destination>>

\* The chunk is written, whatever became of the child since.
ForwardWrite(d) ==
    /\ agentKid[d].forward = "holding"
    /\ IF agentDone THEN UNCHANGED toCore ELSE AgentWrites(FileFrame("data", d))
    /\ agentKid' = [agentKid EXCEPT ![d].forward =
                       IF agentDone \/ agentKid[d].state = "closed" THEN "returned"
                       ELSE IF agentKid[d].chunks = 0 THEN "complete" ELSE "ready"]
    /\ UNCHANGED <<framesToAgent, endVars, op, kid, stream, commit, cancel, destination>>

ForwardComplete(d) ==
    /\ agentKid[d].forward = "complete"
    /\ IF agentDone THEN UNCHANGED toCore ELSE AgentWrites(FileFrame("download_complete", d))
    /\ agentKid' = [agentKid EXCEPT ![d].forward = "returned"]
    /\ UNCHANGED <<framesToAgent, endVars, op, kid, stream, commit, cancel, destination>>

\* The file cannot be read on, or is shorter than when it was opened.
ForwardFails(d) ==
    /\ agentKid[d].forward = "ready" /\ agentKid[d].state = "open"
    /\ agentKid[d].chunks > 0 /\ agentKid[d].credit > 0
    /\ agentKid' = [agentKid EXCEPT ![d] = [ClosedKid(@, FALSE) EXCEPT !.forward = "returned"]]
    /\ AgentWrites(FileFrame("error", d))
    /\ UNCHANGED <<framesToAgent, endVars, op, kid, stream, commit, cancel, destination>>

\* Somebody on the agent's machine creates a file at the path.
LocalFileAppears ==
    /\ destination = NoTransfer
    /\ destination' = LocalFile
    /\ UNCHANGED <<wires, endVars, op, kid, stream, commit, cancel, agentKid>>

----------------------------------------------------------------------------
FileCallerStep(t) ==
    \/ OpenReturns(t) \/ WatchOperation(t) \/ WriteChunk(t) \/ TakeChunk(t) \/ ReturnCredit(t)
    \/ ReadEnds(t) \/ Commit(t) \/ CancelFile(t) \/ CommitReturns(t) \/ CancelReturns(t)
ForwarderStep(d) == ForwardRead(d) \/ ForwardWrite(d) \/ ForwardComplete(d)
FileUserStep(t) ==
    Open(t) \/ OpenTimesOut(t) \/ TakeSendCredit(t) \/ BeginRead(t) \/ BeginCommit(t)
      \/ BeginCancel(t) \/ CallTimesOut(t)

TransferNext ==
    \/ \E t \in Transfers : FileCallerStep(t) \/ FileUserStep(t) \/ ForwarderStep(t) \/ ForwardFails(t)
    \/ CompleteSeen \/ FileMonitor \/ FileMonitorEnds \/ DispatchFile
    \/ ParentEnds \/ AgentEnds \/ LocalFileAppears

TransferSpec == TransferInit /\ [][TransferNext]_transferVars

\* Goroutines run, and a connection that one end has closed is seen by the other.
TransferFairness ==
    /\ \A t \in Transfers : WF_transferVars(FileCallerStep(t) \/ ForwarderStep(t))
    /\ WF_transferVars(CompleteSeen \/ FileMonitor \/ FileMonitorEnds)
    /\ WF_transferVars(DispatchFile \/ AgentLosesParent)

----------------------------------------------------------------------------
(* Properties.                                                             *)

\* What is at a destination is never replaced, although it appeared after the
\* upload had passed the existence check of BeginUpload.
\* And what an upload publishes is whole: it has its expected size, and no chunk
\* the Core sent before its commit is missing.
PublishedWhole ==
    [][/\ destination = NoTransfer
       /\ destination' \in Uploads =>
             LET u == destination' IN
             /\ agentKid[u].sized => agentKid[u].chunks = FileChunks
             /\ agentKid[u].chunks = stream[u].count]_destination

\* However an upload ends, by a failed write or commit, a cancellation, an error of
\* the peer or the end of the session, the agent has tried to remove its staging
\* file by the time the child is closed: only one the file system would not remove
\* is left behind.
NoStageLeft ==
    \A u \in Uploads : agentKid[u].stage = "open" => agentKid[u].state = "open" /\ ~agentDone

\* An open that the client's limit let through is not refused by the agent's: the
\* agent frees a child before the client can know that it is free.
AgentHasRoom ==
    framesToAgent # <<>> /\ Head(framesToAgent).type = "open" =>
        Cardinality(ActiveFiles) < FileStreamLimit

\* Credit of a download is neither lost nor made up: what the agent may send,
\* what is on the way and what the client still holds are one window.
DownloadCreditConserved ==
    \A d \in Downloads :
        ~parentDone /\ ~agentDone /\ kid[d].state = "open" /\ agentKid[d].state = "open" =>
            FileWindow = agentKid[d].credit + kid[d].queued
              + Cardinality({i \in 1..Len(toCore) : toCore[i] = FileFrame("data", d)})
              + Cardinality({i \in 1..Len(framesToAgent) : framesToAgent[i] = FileFrame("window", d)})
              + (IF agentKid[d].forward = "holding" THEN 1 ELSE 0)
              + (IF stream[d].step = "holding" THEN 1 ELSE 0)

\* A download that ends without an error has brought the whole file to the client's
\* child: read by its caller, or queued for it.  (The caller gets what is queued
\* only if it looks its operation up before watchOperation forgets it.)
CompleteIsWhole ==
    \A d \in Downloads :
        kid[d].state = "done" /\ ~kid[d].failed /\ ~kid[d].closing /\ ~parentDone =>
            stream[d].count + kid[d].queued = FileChunks

\* The Core forgets every operation whose child has ended, whichever end ended it.
OperationsReleased == []<>(\A t \in Transfers : kid[t].state = "done" => op[t] = "gone")

\* What the Core and the agent count, each on its own, agrees: the streams that
\* are open, the credit of a download, and the chunks of one that is complete.
EndsAgree == AgentHasRoom /\ DownloadCreditConserved /\ CompleteIsWhole
============================================================================
