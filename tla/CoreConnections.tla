--------------------------- MODULE CoreConnections ---------------------------
(***************************************************************************)
(* The Local Core's connection service: Connect calls that share operation *)
(* IDs, Disconnect, the watcher of a remote close, the shutdown, and the   *)
(* terminal streams multiplexed on a connection.  A caller of Connect also *)
(* names the connection its call creates (IDs are random and unique).      *)
(* Everything guarded by ConnectionService.mu or by the replay table's mu  *)
(* is one step; what the code does between two critical sections is not.   *)
(***************************************************************************)
EXTENDS Integers, FiniteSets

CONSTANTS
    Callers,         \* Connect calls, and the connections they create
    Operations,      \* operation IDs
    Impatient,       \* callers whose request context may be cancelled
    FailingHandles,  \* connections whose handle.Close may return an error
    Terminals,       \* logical terminal streams
    ParentOf,        \* the connection a terminal is opened on
    MaxConnections,  \* ConnectionServiceConfig.MaxActive
    MaxOperations,   \* entries of the replay table
    MaxRetained,     \* entries of the stream table before closed ones are pruned
    NoCaller,
    NoOperation      \* a request without an operation ID

ASSUME CoreConnectionsAssumption ==
    /\ ParentOf \in [Terminals -> Callers]
    /\ FailingHandles \subseteq Callers /\ Impatient \subseteq Callers
    /\ {MaxConnections, MaxOperations, MaxRetained} \subseteq Nat \ {0}
    /\ NoCaller \notin Callers /\ NoOperation \notin Operations
    /\ {"none", "failed", "cancelled"} \cap Callers = {}

VARIABLES
    svcClosed,   \* ConnectionService.closed
    opening,     \* ConnectionService.opening
    entry,       \* ConnectionService.active, with its closing and suppressDone flags
    feed,        \* ConnectionService.streams under the connection's ID
    path,        \* connections NetworkReadService reports a path for
    handle,      \* the backend handles: "none", "open" or "closed"
    ended,       \* connections whose Done channel is closed
    operationOf, \* the operation ID each caller sends
    connect,     \* where each Connect call is
    withdrawn,   \* calls whose request context is cancelled
    outcome,     \* what a Connect call returns
    replay,      \* ConnectIdempotencyService.operations: leader, or NoCaller
    leaderOf,    \* the operation a duplicate call waits for
    aged,        \* completed operations whose retention is over
    disconnect,  \* where the Disconnect call of a connection is
    watch,       \* where watchRemoteClose is
    sweep,       \* connections Close has still to close
    term,        \* where each terminal stream is
    child        \* terminals whose stream is open on the parent

serviceVars == <<svcClosed, opening, entry, feed>>
handleVars == <<path, handle, ended, child>>
callVars == <<operationOf, connect, withdrawn, outcome, leaderOf>>
replayVars == <<replay, aged>>
coreVars == <<serviceVars, handleVars, callVars, replayVars, disconnect, watch, sweep, term>>

Entries == {"none", "active", "closing", "suppressed"}
Active == {c \in Callers : entry[c] # "none"}
Retained == {c \in Callers : feed[c] # "none"}
Listed == {t \in Terminals : term[t] \in {"listed", "removing"}}
Children(c) == {t \in Terminals : ParentOf[t] = c}
Usable(c) == ~svcClosed /\ entry[c] \in {"active", "suppressed"}

CoreInit ==
    /\ svcClosed = FALSE /\ opening = 0
    /\ entry = [c \in Callers |-> "none"] /\ feed = [c \in Callers |-> "none"]
    /\ path = {} /\ handle = [c \in Callers |-> "none"] /\ ended = {} /\ child = {}
    /\ operationOf \in [Callers -> Operations \cup {NoOperation}]
    /\ connect = [c \in Callers |-> "idle"] /\ withdrawn = {}
    /\ outcome = [c \in Callers |-> "none"] /\ leaderOf = [c \in Callers |-> NoCaller]
    /\ replay = [o \in Operations |-> NoCaller] /\ aged = {}
    /\ disconnect = [c \in Callers |-> "none"] /\ watch = [c \in Callers |-> "none"]
    /\ sweep = {} /\ term = [t \in Terminals |-> "idle"]

-----------------------------------------------------------------------------
(* Handles.  A close that succeeds ends the session and its children; one   *)
(* that fails leaves it open, with or without its Done signal.              *)
CloseHandle(c) ==
    /\ handle' = [handle EXCEPT ![c] = "closed"]
    /\ ended' = ended \cup {c}
    /\ child' = child \ Children(c)

CloseFails(c) ==
    /\ c \in FailingHandles /\ handle[c] = "open"
    /\ \/ ended' = ended \cup {c} /\ child' = child \ Children(c)
       \/ UNCHANGED <<ended, child>>
    /\ UNCHANGED handle

PeerCloses(c) ==
    /\ handle[c] = "open"
    /\ CloseHandle(c)
    /\ UNCHANGED <<serviceVars, path, callVars, replayVars, disconnect, watch, sweep, term>>

-----------------------------------------------------------------------------
(* Connect, first through the replay table, then the service itself.        *)

PrunedReplay == [o \in Operations |-> IF replay[o] \in aged THEN NoCaller ELSE replay[o]]
BeginConnect(c) ==
    LET o == operationOf[c]
        full == Cardinality({p \in Operations : PrunedReplay[p] # NoCaller}) >= MaxOperations
    IN /\ connect[c] \in {"idle", "retry"}
       /\ \/ /\ o = NoOperation
             /\ connect' = [connect EXCEPT ![c] = "reserve"]
             /\ UNCHANGED <<replay, outcome, leaderOf>>
          \/ /\ o # NoOperation /\ PrunedReplay[o] # NoCaller
             /\ replay' = PrunedReplay
             /\ connect' = [connect EXCEPT ![c] = "waiting"]
             /\ leaderOf' = [leaderOf EXCEPT ![c] = PrunedReplay[o]]
             /\ UNCHANGED outcome
          \/ /\ o # NoOperation /\ PrunedReplay[o] = NoCaller /\ full
             /\ replay' = PrunedReplay
             /\ connect' = [connect EXCEPT ![c] = "returned"]
             /\ outcome' = [outcome EXCEPT ![c] = "failed"]
             /\ UNCHANGED leaderOf
          \/ /\ o # NoOperation /\ PrunedReplay[o] = NoCaller /\ ~full
             /\ replay' = [PrunedReplay EXCEPT ![o] = c]
             /\ connect' = [connect EXCEPT ![c] = "reserve"]
             /\ UNCHANGED <<outcome, leaderOf>>
       /\ UNCHANGED <<serviceVars, handleVars, operationOf, withdrawn, aged, disconnect, watch, sweep, term>>

\* A duplicate leaves the wait when its own context ends or the leader's
\* operation is done; an operation that was not kept sends it round again.
Completed(c) == connect[c] = "returned"
AwaitOnlyKept(c) ==
    /\ connect[c] = "waiting" /\ Completed(leaderOf[c])
    /\ replay[operationOf[c]] = leaderOf[c]
    /\ connect' = [connect EXCEPT ![c] = "returned"]
    /\ outcome' = [outcome EXCEPT ![c] = outcome[leaderOf[c]]]
    /\ UNCHANGED <<serviceVars, handleVars, operationOf, withdrawn, leaderOf, replayVars, disconnect, watch, sweep, term>>
AwaitLeader(c) ==
    LET leader == leaderOf[c]
        kept == replay[operationOf[c]] = leader
    IN /\ connect[c] = "waiting"
       /\ \/ /\ c \in withdrawn
             /\ connect' = [connect EXCEPT ![c] = "returned"]
             /\ outcome' = [outcome EXCEPT ![c] = "cancelled"]
          \/ /\ Completed(leader) /\ kept
             /\ connect' = [connect EXCEPT ![c] = "returned"]
             /\ outcome' = [outcome EXCEPT ![c] = outcome[leader]]
          \/ /\ Completed(leader) /\ ~kept
             /\ connect' = [connect EXCEPT ![c] = "retry"]
             /\ UNCHANGED outcome
       /\ UNCHANGED <<serviceVars, handleVars, operationOf, withdrawn, leaderOf, replayVars, disconnect, watch, sweep, term>>

CallerWithdraws(c) ==
    /\ c \in Impatient \ withdrawn /\ connect[c] \notin {"idle", "settled", "returned"}
    /\ withdrawn' = withdrawn \cup {c}
    /\ UNCHANGED <<serviceVars, handleVars, operationOf, connect, outcome, leaderOf, replayVars, disconnect, watch, sweep, term>>

\* The call returns r to the replay table.
Settle(c, r) ==
    /\ connect' = [connect EXCEPT ![c] = "settled"]
    /\ outcome' = [outcome EXCEPT ![c] = r]
    /\ UNCHANGED <<operationOf, withdrawn, leaderOf>>
Step(c, at) ==
    /\ connect' = [connect EXCEPT ![c] = at]
    /\ UNCHANGED <<operationOf, withdrawn, outcome, leaderOf>>
ReleaseOpening == opening' = IF opening > 0 THEN opening - 1 ELSE opening

ReserveOpening(c) ==
    /\ connect[c] = "reserve"
    /\ \/ /\ c \in withdrawn
          /\ Settle(c, "cancelled") /\ UNCHANGED opening
       \/ /\ svcClosed \/ Cardinality(Active) + opening >= MaxConnections
          /\ Settle(c, "failed") /\ UNCHANGED opening
       \/ /\ ~svcClosed /\ Cardinality(Active) + opening < MaxConnections
          /\ Step(c, "dialing") /\ opening' = opening + 1
    /\ UNCHANGED <<svcClosed, entry, feed, handleVars, replayVars, disconnect, watch, sweep, term>>

BackendOpens(c) ==
    /\ connect[c] = "dialing"
    /\ Step(c, "opened")
    /\ handle' = [handle EXCEPT ![c] = "open"]
    /\ UNCHANGED <<serviceVars, path, ended, child, replayVars, disconnect, watch, sweep, term>>

BackendFails(c) ==
    /\ connect[c] = "dialing"
    /\ Settle(c, IF c \in withdrawn THEN "cancelled" ELSE "failed")
    /\ ReleaseOpening
    /\ UNCHANGED <<svcClosed, entry, feed, handleVars, replayVars, disconnect, watch, sweep, term>>

CheckOpenedLeaking(c) ==
    /\ connect[c] = "opened"
    /\ \/ /\ c \in withdrawn \/ svcClosed
          /\ ReleaseOpening
          /\ Settle(c, IF c \in withdrawn THEN "cancelled" ELSE "failed")
       \/ /\ c \notin withdrawn /\ ~svcClosed
          /\ Step(c, "publishing")
          /\ UNCHANGED opening
    /\ UNCHANGED <<svcClosed, entry, feed, handleVars, replayVars, disconnect, watch, sweep, term>>
CheckOpened(c) ==
    /\ connect[c] = "opened"
    /\ \/ /\ c \in withdrawn \/ svcClosed
          /\ CloseHandle(c) /\ ReleaseOpening
          /\ Settle(c, IF c \in withdrawn THEN "cancelled" ELSE "failed")
       \/ /\ c \notin withdrawn /\ ~svcClosed
          /\ Step(c, "publishing")
          /\ UNCHANGED <<opening, handle, ended, child>>
    /\ UNCHANGED <<svcClosed, entry, feed, path, replayVars, disconnect, watch, sweep, term>>

SetConnectionPath(c) ==
    /\ connect[c] = "publishing"
    /\ \/ /\ path' = path \cup {c}
          /\ Step(c, "published")
          /\ UNCHANGED <<opening, handle, ended, child>>
       \/ /\ CloseHandle(c) /\ ReleaseOpening /\ Settle(c, "failed")
          /\ UNCHANGED path
    /\ UNCHANGED <<svcClosed, entry, feed, replayVars, disconnect, watch, sweep, term>>

\* The closed entries of the stream table that pruneRetainedStreamsLocked drops
\* before it adds one: as few as make room, and none when there is room.
PruneRetained ==
    {dropped \in SUBSET {c \in Callers : feed[c] = "closed"} :
        LET occupied == Cardinality(Retained) + Cardinality(Listed)
            excess == occupied - (MaxRetained - 1)
            prunable == Cardinality({c \in Callers : feed[c] = "closed"})
        IN Cardinality(dropped) = IF excess <= 0 THEN 0
                                  ELSE IF excess < prunable THEN excess ELSE prunable}

Activate(c) ==
    /\ connect[c] = "published"
    /\ opening' = opening - 1
    /\ \/ /\ svcClosed
          /\ Step(c, "unwind")
          /\ UNCHANGED <<entry, feed, watch>>
       \/ /\ ~svcClosed
          /\ entry' = [entry EXCEPT ![c] = "active"]
          /\ \E dropped \in PruneRetained :
                feed' = [d \in Callers |-> IF d = c THEN "open"
                                           ELSE IF d \in dropped THEN "none" ELSE feed[d]]
          /\ watch' = [watch EXCEPT ![c] = "waiting"]
          /\ Settle(c, c)
    /\ UNCHANGED <<svcClosed, handleVars, replayVars, disconnect, sweep, term>>

UnwindConnect(c) ==
    /\ connect[c] = "unwind"
    /\ path' = path \ {c}
    /\ CloseHandle(c)
    /\ Settle(c, "failed")
    /\ UNCHANGED <<serviceVars, replayVars, disconnect, watch, sweep, term>>

CompleteForgetting(c) ==
    /\ connect[c] = "settled"
    /\ connect' = [connect EXCEPT ![c] = "returned"]
    /\ replay' = [o \in Operations |-> IF o = operationOf[c] THEN NoCaller ELSE replay[o]]
    /\ UNCHANGED <<serviceVars, handleVars, operationOf, withdrawn, outcome, leaderOf, aged, disconnect, watch, sweep, term>>
\* complete: a cancelled leader is forgotten, every other outcome is kept.
CompleteConnect(c) ==
    /\ connect[c] = "settled"
    /\ connect' = [connect EXCEPT ![c] = "returned"]
    /\ replay' = IF outcome[c] = "cancelled" /\ operationOf[c] # NoOperation THEN [replay EXCEPT ![operationOf[c]] = NoCaller]
                 ELSE replay
    /\ UNCHANGED <<serviceVars, handleVars, operationOf, withdrawn, outcome, leaderOf, aged, disconnect, watch, sweep, term>>

RetentionEnds(o) ==
    /\ replay[o] # NoCaller /\ Completed(replay[o])
    /\ aged' = aged \cup {replay[o]}
    /\ UNCHANGED <<serviceVars, handleVars, callVars, replay, disconnect, watch, sweep, term>>

-----------------------------------------------------------------------------
(* Disconnect, shutdown and the watcher of a remote close.                  *)

BeginDisconnect(c) ==
    /\ entry[c] \in {"active", "suppressed"} /\ disconnect[c] = "none"
    /\ entry' = [entry EXCEPT ![c] = "closing"]
    /\ disconnect' = [disconnect EXCEPT ![c] = "unpublish"]
    /\ UNCHANGED <<svcClosed, opening, feed, handleVars, callVars, replayVars, watch, sweep, term>>

UnpublishDisconnect(c) ==
    /\ disconnect[c] = "unpublish"
    /\ path' = path \ {c}
    /\ disconnect' = [disconnect EXCEPT ![c] = "close"]
    /\ UNCHANGED <<serviceVars, handle, ended, child, callVars, replayVars, watch, sweep, term>>

CloseDisconnect(c) ==
    /\ disconnect[c] = "close"
    /\ \/ /\ CloseHandle(c)
          /\ disconnect' = [disconnect EXCEPT ![c] = "remove"]
       \/ /\ CloseFails(c)
          /\ disconnect' = [disconnect EXCEPT ![c] = "failed"]
    /\ UNCHANGED <<serviceVars, path, callVars, replayVars, watch, sweep, term>>

\* observableHandleDoneClosed, after a close that failed.
ObserveDone(c) ==
    /\ disconnect[c] = "failed"
    /\ disconnect' = [disconnect EXCEPT ![c] = IF c \in ended THEN "reopenDone" ELSE "reopen"]
    /\ UNCHANGED <<serviceVars, handleVars, callVars, replayVars, watch, sweep, term>>

EndDisconnect(c) ==
    /\ disconnect[c] \in {"remove", "reopen", "reopenDone"}
    /\ IF disconnect[c] = "remove"
       THEN /\ entry' = [entry EXCEPT ![c] = "none"]
            /\ feed' = [feed EXCEPT ![c] = "none"]
       ELSE /\ entry' = IF entry[c] = "none" THEN entry
                        ELSE [entry EXCEPT ![c] = IF disconnect[c] = "reopenDone" THEN "suppressed" ELSE "active"]
            /\ UNCHANGED feed
    /\ disconnect' = [disconnect EXCEPT ![c] = "none"]
    /\ UNCHANGED <<svcClosed, opening, handleVars, callVars, replayVars, watch, sweep, term>>

CloseService ==
    /\ ~svcClosed
    /\ svcClosed' = TRUE
    /\ sweep' = Active
    /\ entry' = [c \in Callers |-> "none"]
    /\ feed' = [c \in Callers |-> "none"]
    /\ term' = [t \in Terminals |-> IF t \in Listed THEN "gone" ELSE term[t]]
    /\ UNCHANGED <<opening, handleVars, callVars, replayVars, disconnect, watch>>

SweepConnection(c) ==
    /\ c \in sweep
    /\ sweep' = sweep \ {c}
    /\ path' = path \ {c}
    /\ CloseHandle(c) \/ CloseFails(c)
    /\ UNCHANGED <<serviceVars, callVars, replayVars, disconnect, watch, term>>

WatchRemoteClose(c) ==
    /\ watch[c] = "waiting" /\ c \in ended
    /\ \/ /\ entry[c] \in {"none", "closing"}
          /\ watch' = [watch EXCEPT ![c] = "ended"]
          /\ UNCHANGED <<entry, feed>>
       \/ /\ entry[c] = "suppressed"
          /\ entry' = [entry EXCEPT ![c] = "active"]
          /\ watch' = [watch EXCEPT ![c] = "ended"]
          /\ UNCHANGED feed
       \/ /\ entry[c] = "active"
          /\ entry' = [entry EXCEPT ![c] = "none"]
          /\ feed' = [feed EXCEPT ![c] = IF @ = "open" THEN "closed" ELSE @]
          /\ watch' = [watch EXCEPT ![c] = "unpublish"]
    /\ UNCHANGED <<svcClosed, opening, handleVars, callVars, replayVars, disconnect, sweep, term>>

WatchUnpublishes(c) ==
    /\ watch[c] = "unpublish"
    /\ path' = path \ {c}
    /\ watch' = [watch EXCEPT ![c] = "ended"]
    /\ UNCHANGED <<serviceVars, handle, ended, child, callVars, replayVars, disconnect, sweep, term>>

\* A reader that reaches the end of a finished session drops its stream.
ReadToEnd(c) ==
    /\ feed[c] # "none" /\ c \in ended
    /\ feed' = [feed EXCEPT ![c] = "none"]
    /\ UNCHANGED <<svcClosed, opening, entry, handleVars, callVars, replayVars, disconnect, watch, sweep, term>>

ExpireTerminalStream(c) ==
    /\ feed[c] = "closed" /\ watch[c] = "ended"
    /\ feed' = [feed EXCEPT ![c] = "none"]
    /\ UNCHANGED <<svcClosed, opening, entry, handleVars, callVars, replayVars, disconnect, watch, sweep, term>>

-----------------------------------------------------------------------------
(* Terminal streams on a multiplexed parent.                                *)

MoveTerminal(t, at) ==
    /\ term' = [term EXCEPT ![t] = at]
    /\ UNCHANGED <<serviceVars, path, handle, ended, callVars, replayVars, disconnect, watch, sweep>>

OpenTerminalStream(t) ==
    /\ term[t] = "idle" /\ Usable(ParentOf[t])
    /\ MoveTerminal(t, "opening") /\ UNCHANGED child

ParentAnswers(t) ==
    /\ term[t] = "opening"
    /\ \/ /\ handle[ParentOf[t]] = "open" /\ ParentOf[t] \notin ended
          /\ MoveTerminal(t, "opened") /\ child' = child \cup {t}
       \/ /\ MoveTerminal(t, "gone") /\ UNCHANGED child

\* The state is read again after the parent answered; the caller may have
\* withdrawn meanwhile.
ListTerminal(t) ==
    /\ term[t] = "opened"
    /\ \/ Usable(ParentOf[t]) /\ MoveTerminal(t, "listed")
       \/ MoveTerminal(t, "cleanup")
    /\ UNCHANGED child

\* cleanupBackend: the close has two seconds, and its error is ignored.
CleanupTerminal(t) ==
    /\ term[t] = "cleanup"
    /\ \/ MoveTerminal(t, "gone") /\ child' = child \ {t}
       \/ MoveTerminal(t, "lost") /\ UNCHANGED child

CloseTerminalStream(t) ==
    /\ term[t] = "listed" /\ Usable(ParentOf[t])
    /\ MoveTerminal(t, "removing") /\ child' = child \ {t}

RemoveLogicalTerminal(t) ==
    /\ term[t] = "removing"
    /\ MoveTerminal(t, "gone") /\ UNCHANGED child

WatchLogicalTerminalParent(t) ==
    /\ term[t] = "listed" /\ ParentOf[t] \in ended
    /\ MoveTerminal(t, "gone") /\ UNCHANGED child

-----------------------------------------------------------------------------
ConnectStep(c) ==
    \/ BeginConnect(c) \/ AwaitLeader(c) \/ ReserveOpening(c) \/ BackendFails(c)
    \/ CheckOpened(c) \/ SetConnectionPath(c) \/ Activate(c) \/ UnwindConnect(c) \/ CompleteConnect(c)
DisconnectStep(c) == UnpublishDisconnect(c) \/ CloseDisconnect(c) \/ ObserveDone(c) \/ EndDisconnect(c)
WatchStep(c) == WatchRemoteClose(c) \/ WatchUnpublishes(c)
TerminalStep(t) ==
    \/ ParentAnswers(t) \/ ListTerminal(t) \/ CleanupTerminal(t)
    \/ RemoveLogicalTerminal(t) \/ WatchLogicalTerminalParent(t)
CoreNext ==
    \/ \E c \in Callers :
          \/ ConnectStep(c) \/ DisconnectStep(c) \/ WatchStep(c) \/ SweepConnection(c)
          \/ ExpireTerminalStream(c) \/ BackendOpens(c) \/ PeerCloses(c) \/ CallerWithdraws(c)
          \/ BeginDisconnect(c) \/ ReadToEnd(c)
    \/ \E o \in Operations : RetentionEnds(o)
    \/ \E t \in Terminals : TerminalStep(t) \/ OpenTerminalStream(t) \/ CloseTerminalStream(t)
    \/ CloseService

\* Goroutines that can run do run; a dial ends because transports time out.
CoreFairness ==
    /\ \A c \in Callers :
          /\ WF_coreVars(connect[c] # "idle" /\ ConnectStep(c)) /\ WF_coreVars(DisconnectStep(c))
          /\ WF_coreVars(WatchStep(c)) /\ WF_coreVars(SweepConnection(c))
          /\ WF_coreVars(ExpireTerminalStream(c))
    /\ \A t \in Terminals : WF_coreVars(TerminalStep(t))

CoreSpec == CoreInit /\ [][CoreNext]_coreVars

-----------------------------------------------------------------------------
(* Properties.                                                              *)

CallsAt(places) == {c \in Callers : connect[c] \in places}

\* Each variable of the connection service holds one of the values it can hold,
\* and ConnectionService.active plus opening never exceed the limit that
\* reserveOpening enforces for calls that run at the same time.
CoreTypeOK ==
    /\ svcClosed \in BOOLEAN /\ opening \in 0..MaxConnections
    /\ entry \in [Callers -> Entries]
    /\ feed \in [Callers -> {"none", "open", "closed"}]
    /\ handle \in [Callers -> {"none", "open", "closed"}]
    /\ path \subseteq Callers /\ ended \subseteq Callers /\ child \subseteq Terminals
    /\ outcome \in [Callers -> {"none", "failed", "cancelled"} \cup Callers]
    /\ replay \in [Operations -> Callers \cup {NoCaller}]
    /\ Cardinality(Active) + opening <= MaxConnections

\* ConnectionService.opening counts exactly the calls between reserveOpening
\* and their return, on every one of Connect's exits: a leak would shrink the
\* service for good and a double release would lift its limit.
OpeningExact == opening = Cardinality(CallsAt({"dialing", "opened", "publishing", "published"}))

\* A path is reported only for a connection that is active, or that a running
\* Connect, Disconnect, watcher or Close is about to take down: no exit leaves
\* a path of a dead connection in NetworkReadService.
PathHasOwner ==
    \A c \in path :
        \/ entry[c] # "none" \/ connect[c] \in {"published", "unwind"}
        \/ disconnect[c] = "unpublish" \/ watch[c] = "unpublish" \/ c \in sweep

\* From Disconnect's removal of the path on, no read reports the connection,
\* also when the close fails and the connection stays active for a retry.
DisconnectHidesPath == \A c \in Callers : disconnect[c] \notin {"none", "unpublish"} => c \notin path

\* Every open handle is in somebody's hands: of a call that has not returned,
\* of the table, or of the shutdown.  A handle whose Close fails is excepted.
HandleHasOwner ==
    \A c \in Callers \ FailingHandles : handle[c] = "open" =>
        \/ entry[c] # "none" \/ c \in sweep
        \/ connect[c] \in {"opened", "publishing", "published", "unwind"}

\* Calls that repeat an operation ID create one connection between them until
\* the first result's retention is over: a leader that was cancelled left
\* nothing behind when a duplicate takes its place.
OneConnectionPerOperation ==
    \A c, d \in Callers :
        /\ operationOf[c] = operationOf[d] /\ operationOf[c] # NoOperation /\ c # d
        /\ outcome[c] = c /\ outcome[d] = d
        => c \in aged \/ d \in aged

\* A terminal stream that is open on its parent is listed, or in the hands of a
\* call that lists or closes it, unless the shutdown is about to close the parent
\* or cleanupBackend gave it up, which leaves it to the parent's end.
TerminalHasOwner ==
    \A t \in child :
        \/ term[t] \in {"opened", "listed", "cleanup", "lost"}
        \/ svcClosed /\ (ParentOf[t] \in sweep \cup FailingHandles \/ disconnect[ParentOf[t]] # "none")

\* A connection whose session ended leaves the tables: its slot and its stream
\* entry are free again.  For handles whose Close never fails.
DeadConnectionReleased ==
    []<>(\A c \in Callers \ FailingHandles : c \in ended => entry[c] = "none" /\ feed[c] = "none")

\* The terminal streams of a connection that ended leave the stream table.
TerminalsReleased == []<>(\A t \in Listed : ParentOf[t] \notin ended)

\* Close empties the stream table for good: an OpenTerminalStream that was
\* waiting for its parent meanwhile does not list a stream in it.
NothingListedAfterClose == svcClosed => Listed = {}

\* Every Connect call that was begun returns, duplicates of a cancelled leader included.
ConnectReturns == []<>(\A c \in Callers : connect[c] \in {"idle", "returned"})

\* Whatever Connect, Disconnect, a watcher and Close do to one another, the
\* service's tables miss nothing that is open and keep nothing that is gone.
NothingStranded ==
    /\ OpeningExact /\ PathHasOwner /\ DisconnectHidesPath /\ HandleHasOwner
    /\ TerminalHasOwner /\ NothingListedAfterClose
=============================================================================
