----------------------------- MODULE CoreProofs -----------------------------
(***************************************************************************)
(* Proofs about CoreConnections, for any number of calls, operations,      *)
(* terminals and connections: the limit on connections, that nothing is    *)
(* stranded, and that an operation ID creates one connection.  And about   *)
(* CoreRecovery, for any number of keys, calls, requests, crashes and      *)
(* reads: that repeats are harmless, and that the detailed calls, retries, *)
(* followers and restarts implement OnceOnly.                              *)
(***************************************************************************)
EXTENDS CoreConnections, CoreRecovery, FiniteSetTheorems, WellFoundedInduction, TLAPS

-----------------------------------------------------------------------------
(* CoreConnections: the inductive invariant.                                *)

\* Where a Connect call holds one of the service's openings, has no handle
\* yet, leads its operation, and where its connection may be in the tables.
Reserved == {"dialing", "opened", "publishing", "published"}
Early == {"idle", "retry", "waiting", "reserve", "dialing"}
Leading == {"reserve", "unwind", "settled"} \cup Reserved
Over == {"settled", "returned"}

ServiceTypes ==
    /\ svcClosed \in BOOLEAN
    /\ entry \in [Callers -> Entries]
    /\ feed \in [Callers -> {"none", "open", "closed"}]
    /\ disconnect \in [Callers -> {"none", "unpublish", "close", "failed", "remove", "reopen", "reopenDone"}]
    /\ watch \in [Callers -> {"none", "waiting", "unpublish", "ended"}]
    /\ sweep \subseteq Callers
    /\ term \in [Terminals -> {"idle", "opening", "opened", "listed", "cleanup", "removing", "lost", "gone"}]

HandleTypes ==
    /\ handle \in [Callers -> {"none", "open", "closed"}]
    /\ path \subseteq Callers /\ ended \subseteq Callers /\ child \subseteq Terminals

CallTypes ==
    /\ operationOf \in [Callers -> Operations \cup {NoOperation}]
    /\ connect \in [Callers -> Early \cup Leading \cup Over]
    /\ outcome \in [Callers -> {"none", "failed", "cancelled"} \cup Callers]
    /\ leaderOf \in [Callers -> Callers \cup {NoCaller}]
    /\ replay \in [Operations -> Callers \cup {NoCaller}]
    /\ withdrawn \subseteq Callers /\ aged \subseteq Callers

\* A place in the tables, a Disconnect, a watcher and a place in the shutdown
\* belong to calls that went through; a handle to calls that dialed.
Stages ==
    /\ \A c \in Callers :
          /\ entry[c] # "none" \/ disconnect[c] # "none" \/ watch[c] # "none" \/ c \in sweep => connect[c] \in Over
          /\ connect[c] \in Early => handle[c] = "none" /\ c \notin ended
    /\ ~svcClosed => sweep = {}

\* What a close leaves: only one that failed keeps the handle of an ended session.
Closing ==
    /\ \A c \in ended : handle[c] = "closed" \/ c \in FailingHandles
    /\ \A c \in Callers :
          /\ disconnect[c] = "remove" => handle[c] = "closed" /\ c \in ended
          /\ disconnect[c] \in {"failed", "reopen", "reopenDone"} => c \in FailingHandles

\* The openings and the table together respect the limit.
Slots ==
    /\ IsFiniteSet(Active) /\ IsFiniteSet(CallsAt(Reserved))
    /\ OpeningExact
    /\ Cardinality(Active) + opening <= MaxConnections

\* Terminals are opened only on live connections, which stay in the table.
Parents ==
    /\ \A t \in child : ParentOf[t] \notin ended
    /\ \A t \in Terminals : term[t] # "idle" /\ ~svcClosed /\ ParentOf[t] \notin ended => entry[ParentOf[t]] # "none"

\* c leads operation o, or led it and its result is kept.
Leads(c, o) ==
    /\ operationOf[c] = o /\ connect[c] \in Leading \cup Over
    /\ outcome[c] \in {"none", "failed", "cancelled", c}

\* One call at a time leads an operation, and its result is found until it is aged.
Replay ==
    /\ \A o \in Operations : replay[o] # NoCaller => Leads(replay[o], o)
    /\ \A c \in Callers :
          /\ connect[c] \notin Over => outcome[c] = "none"
          /\ c \in aged => connect[c] = "returned"
          /\ connect[c] = "waiting" => leaderOf[c] \in Callers /\ Leads(leaderOf[c], operationOf[c])
          /\ operationOf[c] # NoOperation /\ connect[c] \in Leading => replay[operationOf[c]] = c
          /\ operationOf[c] # NoOperation /\ outcome[c] = c => c \in aged \/ replay[operationOf[c]] = c

Owners == PathHasOwner /\ DisconnectHidesPath /\ HandleHasOwner
TerminalOwners == Parents /\ TerminalHasOwner /\ NothingListedAfterClose
CoreTypes == ServiceTypes /\ HandleTypes /\ CallTypes
CoreInv == CoreTypes /\ Stages /\ Closing /\ Slots /\ Owners /\ TerminalOwners /\ Replay

\* Nothing has been called.
LEMMA CoreInvInit == CoreInit => CoreInv
<1> SUFFICES ASSUME CoreInit PROVE CoreInv
  OBVIOUS
<1> USE CoreConnectionsAssumption DEF CoreInit
<1>1. CoreTypes
  BY DEF CoreTypes, ServiceTypes, HandleTypes, CallTypes, Entries, Early
<1>2. Stages /\ Closing
  BY DEF Stages, Closing
<1>3. Slots
  <2>1. Active = {} /\ CallsAt(Reserved) = {}
    BY DEF Active, CallsAt, Reserved
  <2>2. CallsAt({"dialing", "opened", "publishing", "published"}) = {}
    BY <2>1 DEF CallsAt, Reserved
  <2>3. opening = 0 /\ MaxConnections \in Nat
    OBVIOUS
  <2>4. QED
    BY ONLY <2>1, <2>2, <2>3, FS_EmptySet DEF Slots, OpeningExact
<1>4. Owners
  BY DEF Owners, PathHasOwner, DisconnectHidesPath, HandleHasOwner
<1>5. TerminalOwners
  BY DEF TerminalOwners, Parents, TerminalHasOwner, NothingListedAfterClose
<1>6. Replay
  BY DEF Replay, Leading, Reserved, Over
<1>7. QED
  BY <1>1, <1>2, <1>3, <1>4, <1>5, <1>6 DEF CoreInv

\* Every step assigns values of the types.
LEMMA TypesStep == CoreInv /\ [CoreNext]_coreVars => CoreTypes'
<1> SUFFICES ASSUME CoreInv, [CoreNext]_coreVars PROVE CoreTypes'
  OBVIOUS
<1> USE CoreConnectionsAssumption DEF CoreInv, serviceVars, handleVars, callVars, replayVars, CoreTypes, ServiceTypes,
    HandleTypes, CallTypes, Entries, Early, Leading, Over, Reserved
<1>1. ASSUME NEW c \in Callers, BeginConnect(c) PROVE CoreTypes'
  BY <1>1 DEF BeginConnect, PrunedReplay
<1>2. ASSUME NEW c \in Callers, AwaitLeader(c) PROVE CoreTypes'
  BY <1>2 DEF AwaitLeader, Replay
<1>3. ASSUME NEW c \in Callers, ReserveOpening(c) \/ BackendFails(c) PROVE CoreTypes'
  BY <1>3 DEF ReserveOpening, BackendFails, Settle, Step, ReleaseOpening
<1>4. ASSUME NEW c \in Callers, BackendOpens(c) \/ CheckOpened(c) PROVE CoreTypes'
  BY <1>4 DEF BackendOpens, CheckOpened, Step, Settle, ReleaseOpening, CloseHandle
<1>5. ASSUME NEW c \in Callers, SetConnectionPath(c) PROVE CoreTypes'
  BY <1>5 DEF SetConnectionPath, Settle, Step, ReleaseOpening, CloseHandle
<1>6. ASSUME NEW c \in Callers, Activate(c) PROVE CoreTypes'
  BY <1>6 DEF Activate, Settle, Step, ReleaseOpening
<1>7. ASSUME NEW c \in Callers, UnwindConnect(c) PROVE CoreTypes'
  BY <1>7 DEF UnwindConnect, Settle, Step, ReleaseOpening, CloseHandle
<1>8. ASSUME NEW c \in Callers, CompleteConnect(c) \/ CallerWithdraws(c) PROVE CoreTypes'
  BY <1>8 DEF CompleteConnect, CallerWithdraws
<1>9. ASSUME NEW c \in Callers, BeginDisconnect(c) \/ UnpublishDisconnect(c) PROVE CoreTypes'
  BY <1>9 DEF BeginDisconnect, UnpublishDisconnect
<1>10. ASSUME NEW c \in Callers, CloseDisconnect(c) PROVE CoreTypes'
  BY <1>10 DEF CloseDisconnect, CloseHandle, CloseFails
<1>10b. ASSUME NEW c \in Callers, ObserveDone(c) PROVE CoreTypes'
  BY <1>10b DEF ObserveDone
<1>11. ASSUME NEW c \in Callers, EndDisconnect(c) PROVE CoreTypes'
  BY <1>11 DEF EndDisconnect
<1>12. ASSUME NEW c \in Callers, SweepConnection(c) PROVE CoreTypes'
  BY <1>12 DEF SweepConnection, CloseHandle, CloseFails
<1>13. ASSUME NEW c \in Callers, WatchRemoteClose(c) PROVE CoreTypes'
  BY <1>13 DEF WatchRemoteClose
<1>14. ASSUME NEW c \in Callers, WatchUnpublishes(c) \/ ReadToEnd(c) \/ ExpireTerminalStream(c) \/ PeerCloses(c)
       PROVE  CoreTypes'
  BY <1>14 DEF WatchUnpublishes, ReadToEnd, ExpireTerminalStream, PeerCloses, CloseHandle
<1>15. ASSUME NEW o \in Operations, RetentionEnds(o) PROVE CoreTypes'
  BY <1>15 DEF RetentionEnds
<1>16. ASSUME NEW t \in Terminals, TerminalStep(t) \/ OpenTerminalStream(t) \/ CloseTerminalStream(t) PROVE CoreTypes'
  BY <1>16 DEF TerminalStep, ParentAnswers, ListTerminal, CleanupTerminal, RemoveLogicalTerminal,
    WatchLogicalTerminalParent, OpenTerminalStream, CloseTerminalStream, MoveTerminal, Usable
<1>17. ASSUME CloseService PROVE CoreTypes'
  BY <1>17 DEF CloseService, Active, Listed
<1>18. CASE UNCHANGED coreVars
  BY <1>18 DEF coreVars
<1>19. QED
  BY <1>1, <1>2, <1>3, <1>4, <1>5, <1>6, <1>7, <1>8, <1>9, <1>10, <1>10b, <1>11, <1>12, <1>13, <1>14, <1>15, <1>16,
    <1>17, <1>18
     DEF CoreNext, ConnectStep, DisconnectStep, WatchStep

\* A call enters the tables when it is over and leaves its early stages with a handle.
LEMMA StagesStep == CoreInv /\ [CoreNext]_coreVars => Stages'
<1> SUFFICES ASSUME CoreInv, [CoreNext]_coreVars PROVE Stages'
  OBVIOUS
<1> USE CoreConnectionsAssumption DEF CoreInv, serviceVars, handleVars, callVars, replayVars, Stages, CoreTypes,
    ServiceTypes, HandleTypes, CallTypes, Early, Over
<1>1. ASSUME NEW c \in Callers, BeginConnect(c) PROVE Stages'
  BY <1>1 DEF BeginConnect, PrunedReplay
<1>2. ASSUME NEW c \in Callers, AwaitLeader(c) PROVE Stages'
  BY <1>2 DEF AwaitLeader
<1>3. ASSUME NEW c \in Callers, ReserveOpening(c) \/ BackendFails(c) PROVE Stages'
  BY <1>3 DEF ReserveOpening, BackendFails, Settle, Step, ReleaseOpening
<1>4. ASSUME NEW c \in Callers, BackendOpens(c) \/ CheckOpened(c) PROVE Stages'
  BY <1>4 DEF BackendOpens, CheckOpened, Step, Settle, ReleaseOpening, CloseHandle
<1>5. ASSUME NEW c \in Callers, SetConnectionPath(c) PROVE Stages'
  BY <1>5 DEF SetConnectionPath, Settle, Step, ReleaseOpening, CloseHandle
<1>6. ASSUME NEW c \in Callers, Activate(c) PROVE Stages'
  BY <1>6 DEF Activate, Settle, Step, ReleaseOpening
<1>7. ASSUME NEW c \in Callers, UnwindConnect(c) PROVE Stages'
  BY <1>7 DEF UnwindConnect, Settle, Step, ReleaseOpening, CloseHandle
<1>8. ASSUME NEW c \in Callers, CompleteConnect(c) \/ CallerWithdraws(c) PROVE Stages'
  BY <1>8 DEF CompleteConnect, CallerWithdraws
<1>9. ASSUME NEW c \in Callers, BeginDisconnect(c) \/ UnpublishDisconnect(c) PROVE Stages'
  BY <1>9 DEF BeginDisconnect, UnpublishDisconnect
<1>10. ASSUME NEW c \in Callers, CloseDisconnect(c) PROVE Stages'
  BY <1>10 DEF CloseDisconnect, CloseHandle, CloseFails
<1>10b. ASSUME NEW c \in Callers, ObserveDone(c) PROVE Stages'
  BY <1>10b DEF ObserveDone
<1>11. ASSUME NEW c \in Callers, EndDisconnect(c) PROVE Stages'
  BY <1>11 DEF EndDisconnect
<1>12. ASSUME NEW c \in Callers, SweepConnection(c) PROVE Stages'
  BY <1>12 DEF SweepConnection, CloseHandle, CloseFails
<1>13. ASSUME NEW c \in Callers, WatchRemoteClose(c) PROVE Stages'
  BY <1>13 DEF WatchRemoteClose
<1>14. ASSUME NEW c \in Callers, WatchUnpublishes(c) \/ ReadToEnd(c) \/ ExpireTerminalStream(c) \/ PeerCloses(c)
       PROVE  Stages'
  BY <1>14 DEF WatchUnpublishes, ReadToEnd, ExpireTerminalStream, PeerCloses, CloseHandle
<1>15. ASSUME NEW o \in Operations, RetentionEnds(o) PROVE Stages'
  BY <1>15 DEF RetentionEnds
<1>16. ASSUME NEW t \in Terminals, TerminalStep(t) \/ OpenTerminalStream(t) \/ CloseTerminalStream(t) PROVE Stages'
  BY <1>16 DEF TerminalStep, ParentAnswers, ListTerminal, CleanupTerminal, RemoveLogicalTerminal,
    WatchLogicalTerminalParent, OpenTerminalStream, CloseTerminalStream, MoveTerminal, Usable
<1>17. ASSUME CloseService PROVE Stages'
  BY <1>17 DEF CloseService, Active
<1>18. CASE UNCHANGED coreVars
  BY <1>18 DEF coreVars
<1>19. QED
  BY <1>1, <1>2, <1>3, <1>4, <1>5, <1>6, <1>7, <1>8, <1>9, <1>10, <1>10b, <1>11, <1>12, <1>13, <1>14, <1>15, <1>16,
    <1>17, <1>18
     DEF CoreNext, ConnectStep, DisconnectStep, WatchStep

\* A handle that was closed stays closed, and a close that failed is of a failing handle.
LEMMA ClosingStep == CoreInv /\ [CoreNext]_coreVars => Closing'
<1> SUFFICES ASSUME CoreInv, [CoreNext]_coreVars PROVE Closing'
  OBVIOUS
<1> USE CoreConnectionsAssumption DEF CoreInv, serviceVars, handleVars, callVars, replayVars, Closing, Stages,
    CoreTypes, ServiceTypes, HandleTypes, CallTypes, Early, Over
<1>1. ASSUME NEW c \in Callers, BeginConnect(c) PROVE Closing'
  BY <1>1 DEF BeginConnect, PrunedReplay
<1>2. ASSUME NEW c \in Callers, AwaitLeader(c) PROVE Closing'
  BY <1>2 DEF AwaitLeader
<1>3. ASSUME NEW c \in Callers, ReserveOpening(c) \/ BackendFails(c) PROVE Closing'
  BY <1>3 DEF ReserveOpening, BackendFails, Settle, Step, ReleaseOpening
<1>4. ASSUME NEW c \in Callers, BackendOpens(c) \/ CheckOpened(c) PROVE Closing'
  BY <1>4 DEF BackendOpens, CheckOpened, Step, Settle, ReleaseOpening, CloseHandle
<1>5. ASSUME NEW c \in Callers, SetConnectionPath(c) PROVE Closing'
  BY <1>5 DEF SetConnectionPath, Settle, Step, ReleaseOpening, CloseHandle
<1>6. ASSUME NEW c \in Callers, Activate(c) PROVE Closing'
  BY <1>6 DEF Activate, Settle, Step, ReleaseOpening
<1>7. ASSUME NEW c \in Callers, UnwindConnect(c) PROVE Closing'
  BY <1>7 DEF UnwindConnect, Settle, Step, ReleaseOpening, CloseHandle
<1>8. ASSUME NEW c \in Callers, CompleteConnect(c) \/ CallerWithdraws(c) PROVE Closing'
  BY <1>8 DEF CompleteConnect, CallerWithdraws
<1>9. ASSUME NEW c \in Callers, BeginDisconnect(c) \/ UnpublishDisconnect(c) PROVE Closing'
  BY <1>9 DEF BeginDisconnect, UnpublishDisconnect
<1>10. ASSUME NEW c \in Callers, CloseDisconnect(c) PROVE Closing'
  BY <1>10 DEF CloseDisconnect, CloseHandle, CloseFails
<1>10b. ASSUME NEW c \in Callers, ObserveDone(c) PROVE Closing'
  BY <1>10b DEF ObserveDone
<1>11. ASSUME NEW c \in Callers, EndDisconnect(c) PROVE Closing'
  BY <1>11 DEF EndDisconnect
<1>12. ASSUME NEW c \in Callers, SweepConnection(c) PROVE Closing'
  BY <1>12 DEF SweepConnection, CloseHandle, CloseFails
<1>13. ASSUME NEW c \in Callers, WatchRemoteClose(c) PROVE Closing'
  BY <1>13 DEF WatchRemoteClose
<1>14. ASSUME NEW c \in Callers, WatchUnpublishes(c) \/ ReadToEnd(c) \/ ExpireTerminalStream(c) \/ PeerCloses(c)
       PROVE  Closing'
  BY <1>14 DEF WatchUnpublishes, ReadToEnd, ExpireTerminalStream, PeerCloses, CloseHandle
<1>15. ASSUME NEW o \in Operations, RetentionEnds(o) PROVE Closing'
  BY <1>15 DEF RetentionEnds
<1>16. ASSUME NEW t \in Terminals, TerminalStep(t) \/ OpenTerminalStream(t) \/ CloseTerminalStream(t) PROVE Closing'
  BY <1>16 DEF TerminalStep, ParentAnswers, ListTerminal, CleanupTerminal, RemoveLogicalTerminal,
    WatchLogicalTerminalParent, OpenTerminalStream, CloseTerminalStream, MoveTerminal, Usable
<1>17. ASSUME CloseService PROVE Closing'
  BY <1>17 DEF CloseService
<1>18. CASE UNCHANGED coreVars
  BY <1>18 DEF coreVars
<1>19. QED
  BY <1>1, <1>2, <1>3, <1>4, <1>5, <1>6, <1>7, <1>8, <1>9, <1>10, <1>10b, <1>11, <1>12, <1>13, <1>14, <1>15, <1>16,
    <1>17, <1>18
     DEF CoreNext, ConnectStep, DisconnectStep, WatchStep

\* Paths and handles pass from one owner to the next.
LEMMA OwnersStep == CoreInv /\ [CoreNext]_coreVars => Owners'
<1> SUFFICES ASSUME CoreInv, [CoreNext]_coreVars PROVE Owners'
  OBVIOUS
<1> USE CoreConnectionsAssumption DEF CoreInv, serviceVars, handleVars, callVars, replayVars, Owners, PathHasOwner,
    DisconnectHidesPath, HandleHasOwner, Closing, Stages, CoreTypes, ServiceTypes, HandleTypes, CallTypes, Early,
    Over, Entries
<1>1. ASSUME NEW c \in Callers, BeginConnect(c) PROVE Owners'
  BY <1>1 DEF BeginConnect, PrunedReplay
<1>2. ASSUME NEW c \in Callers, AwaitLeader(c) PROVE Owners'
  BY <1>2 DEF AwaitLeader
<1>3. ASSUME NEW c \in Callers, ReserveOpening(c) \/ BackendFails(c) PROVE Owners'
  BY <1>3 DEF ReserveOpening, BackendFails, Settle, Step, ReleaseOpening
<1>4. ASSUME NEW c \in Callers, BackendOpens(c) \/ CheckOpened(c) PROVE Owners'
  BY <1>4 DEF BackendOpens, CheckOpened, Step, Settle, ReleaseOpening, CloseHandle
<1>5. ASSUME NEW c \in Callers, SetConnectionPath(c) PROVE Owners'
  BY <1>5 DEF SetConnectionPath, Settle, Step, ReleaseOpening, CloseHandle
<1>6. ASSUME NEW c \in Callers, Activate(c) PROVE Owners'
  BY <1>6 DEF Activate, Settle, Step, ReleaseOpening
<1>7. ASSUME NEW c \in Callers, UnwindConnect(c) PROVE Owners'
  BY <1>7 DEF UnwindConnect, Settle, Step, ReleaseOpening, CloseHandle
<1>8. ASSUME NEW c \in Callers, CompleteConnect(c) \/ CallerWithdraws(c) PROVE Owners'
  BY <1>8 DEF CompleteConnect, CallerWithdraws
<1>9. ASSUME NEW c \in Callers, BeginDisconnect(c) \/ UnpublishDisconnect(c) PROVE Owners'
  BY <1>9 DEF BeginDisconnect, UnpublishDisconnect
<1>10. ASSUME NEW c \in Callers, CloseDisconnect(c) PROVE Owners'
  BY <1>10 DEF CloseDisconnect, CloseHandle, CloseFails
<1>10b. ASSUME NEW c \in Callers, ObserveDone(c) PROVE Owners'
  BY <1>10b DEF ObserveDone
<1>11. ASSUME NEW c \in Callers, EndDisconnect(c) PROVE Owners'
  BY <1>11 DEF EndDisconnect
<1>12. ASSUME NEW c \in Callers, SweepConnection(c) PROVE Owners'
  BY <1>12 DEF SweepConnection, CloseHandle, CloseFails
<1>13. ASSUME NEW c \in Callers, WatchRemoteClose(c) PROVE Owners'
  BY <1>13 DEF WatchRemoteClose
<1>14. ASSUME NEW c \in Callers, WatchUnpublishes(c) \/ ReadToEnd(c) \/ ExpireTerminalStream(c) \/ PeerCloses(c)
       PROVE  Owners'
  BY <1>14 DEF WatchUnpublishes, ReadToEnd, ExpireTerminalStream, PeerCloses, CloseHandle
<1>15. ASSUME NEW o \in Operations, RetentionEnds(o) PROVE Owners'
  BY <1>15 DEF RetentionEnds
<1>16. ASSUME NEW t \in Terminals, TerminalStep(t) \/ OpenTerminalStream(t) \/ CloseTerminalStream(t) PROVE Owners'
  BY <1>16 DEF TerminalStep, ParentAnswers, ListTerminal, CleanupTerminal, RemoveLogicalTerminal,
    WatchLogicalTerminalParent, OpenTerminalStream, CloseTerminalStream, MoveTerminal, Usable
<1>17. ASSUME CloseService PROVE Owners'
  BY <1>17 DEF CloseService, Active
<1>18. CASE UNCHANGED coreVars
  BY <1>18 DEF coreVars
<1>19. QED
  BY <1>1, <1>2, <1>3, <1>4, <1>5, <1>6, <1>7, <1>8, <1>9, <1>10, <1>10b, <1>11, <1>12, <1>13, <1>14, <1>15, <1>16,
    <1>17, <1>18
     DEF CoreNext, ConnectStep, DisconnectStep, WatchStep

\* Terminal streams pass from one owner to the next.
LEMMA TerminalsStep == CoreInv /\ [CoreNext]_coreVars => TerminalOwners'
<1> SUFFICES ASSUME CoreInv, [CoreNext]_coreVars PROVE TerminalOwners'
  OBVIOUS
<1> USE CoreConnectionsAssumption DEF CoreInv, serviceVars, handleVars, callVars, replayVars, TerminalOwners, Parents,
    TerminalHasOwner, NothingListedAfterClose, Listed, Children, Closing, Stages, CoreTypes, ServiceTypes,
    HandleTypes, CallTypes, Early, Over, Entries
<1>1. ASSUME NEW c \in Callers, BeginConnect(c) PROVE TerminalOwners'
  BY <1>1 DEF BeginConnect, PrunedReplay
<1>2. ASSUME NEW c \in Callers, AwaitLeader(c) PROVE TerminalOwners'
  BY <1>2 DEF AwaitLeader
<1>3. ASSUME NEW c \in Callers, ReserveOpening(c) \/ BackendFails(c) PROVE TerminalOwners'
  BY <1>3 DEF ReserveOpening, BackendFails, Settle, Step, ReleaseOpening
<1>4. ASSUME NEW c \in Callers, BackendOpens(c) \/ CheckOpened(c) PROVE TerminalOwners'
  BY <1>4 DEF BackendOpens, CheckOpened, Step, Settle, ReleaseOpening, CloseHandle
<1>5. ASSUME NEW c \in Callers, SetConnectionPath(c) PROVE TerminalOwners'
  BY <1>5 DEF SetConnectionPath, Settle, Step, ReleaseOpening, CloseHandle
<1>6. ASSUME NEW c \in Callers, Activate(c) PROVE TerminalOwners'
  BY <1>6 DEF Activate, Settle, Step, ReleaseOpening
<1>7. ASSUME NEW c \in Callers, UnwindConnect(c) PROVE TerminalOwners'
  BY <1>7 DEF UnwindConnect, Settle, Step, ReleaseOpening, CloseHandle
<1>8. ASSUME NEW c \in Callers, CompleteConnect(c) \/ CallerWithdraws(c) PROVE TerminalOwners'
  BY <1>8 DEF CompleteConnect, CallerWithdraws
<1>9. ASSUME NEW c \in Callers, BeginDisconnect(c) \/ UnpublishDisconnect(c) PROVE TerminalOwners'
  BY <1>9 DEF BeginDisconnect, UnpublishDisconnect
<1>10. ASSUME NEW c \in Callers, CloseDisconnect(c) PROVE TerminalOwners'
  BY <1>10 DEF CloseDisconnect, CloseHandle, CloseFails
<1>10b. ASSUME NEW c \in Callers, ObserveDone(c) PROVE TerminalOwners'
  BY <1>10b DEF ObserveDone
<1>11. ASSUME NEW c \in Callers, EndDisconnect(c) PROVE TerminalOwners'
  BY <1>11 DEF EndDisconnect
<1>12. ASSUME NEW c \in Callers, SweepConnection(c) PROVE TerminalOwners'
  BY <1>12 DEF SweepConnection, CloseHandle, CloseFails
<1>13. ASSUME NEW c \in Callers, WatchRemoteClose(c) PROVE TerminalOwners'
  BY <1>13 DEF WatchRemoteClose
<1>14. ASSUME NEW c \in Callers, WatchUnpublishes(c) \/ ReadToEnd(c) \/ ExpireTerminalStream(c) \/ PeerCloses(c)
       PROVE  TerminalOwners'
  BY <1>14 DEF WatchUnpublishes, ReadToEnd, ExpireTerminalStream, PeerCloses, CloseHandle
<1>15. ASSUME NEW o \in Operations, RetentionEnds(o) PROVE TerminalOwners'
  BY <1>15 DEF RetentionEnds
<1>16. ASSUME NEW t \in Terminals, TerminalStep(t) \/ OpenTerminalStream(t) \/ CloseTerminalStream(t)
       PROVE  TerminalOwners'
  BY <1>16 DEF TerminalStep, ParentAnswers, ListTerminal, CleanupTerminal, RemoveLogicalTerminal,
    WatchLogicalTerminalParent, OpenTerminalStream, CloseTerminalStream, MoveTerminal, Usable
<1>17. ASSUME CloseService PROVE TerminalOwners'
  BY <1>17 DEF CloseService, Active
<1>18. CASE UNCHANGED coreVars
  BY <1>18 DEF coreVars
<1>19. QED
  BY <1>1, <1>2, <1>3, <1>4, <1>5, <1>6, <1>7, <1>8, <1>9, <1>10, <1>10b, <1>11, <1>12, <1>13, <1>14, <1>15, <1>16,
    <1>17, <1>18
     DEF CoreNext, ConnectStep, DisconnectStep, WatchStep

\* One call leads an operation, and its result is kept until it is aged.
LEMMA ReplayStep == CoreInv /\ [CoreNext]_coreVars => Replay'
<1> SUFFICES ASSUME CoreInv, [CoreNext]_coreVars PROVE Replay'
  OBVIOUS
<1> USE CoreConnectionsAssumption DEF CoreInv, serviceVars, handleVars, callVars, replayVars, Replay, Leads,
    Completed, CoreTypes, CallTypes, Leading, Reserved, Early, Over
<1>1. ASSUME NEW c \in Callers, BeginConnect(c) PROVE Replay'
  BY <1>1 DEF BeginConnect, PrunedReplay
<1>2. ASSUME NEW c \in Callers, AwaitLeader(c) PROVE Replay'
  BY <1>2 DEF AwaitLeader
<1>3. ASSUME NEW c \in Callers, ReserveOpening(c) \/ BackendFails(c) PROVE Replay'
  BY <1>3 DEF ReserveOpening, BackendFails, Settle, Step, ReleaseOpening
<1>4. ASSUME NEW c \in Callers, BackendOpens(c) \/ CheckOpened(c) PROVE Replay'
  BY <1>4 DEF BackendOpens, CheckOpened, Step, Settle, ReleaseOpening, CloseHandle
<1>5. ASSUME NEW c \in Callers, SetConnectionPath(c) PROVE Replay'
  BY <1>5 DEF SetConnectionPath, Settle, Step, ReleaseOpening, CloseHandle
<1>6. ASSUME NEW c \in Callers, Activate(c) PROVE Replay'
  BY <1>6 DEF Activate, Settle, Step, ReleaseOpening
<1>7. ASSUME NEW c \in Callers, UnwindConnect(c) PROVE Replay'
  BY <1>7 DEF UnwindConnect, Settle, Step, ReleaseOpening, CloseHandle
<1>8. ASSUME NEW c \in Callers, CompleteConnect(c) \/ CallerWithdraws(c) PROVE Replay'
  BY <1>8 DEF CompleteConnect, CallerWithdraws
<1>9. ASSUME NEW c \in Callers, BeginDisconnect(c) \/ UnpublishDisconnect(c) PROVE Replay'
  BY <1>9 DEF BeginDisconnect, UnpublishDisconnect
<1>10. ASSUME NEW c \in Callers, CloseDisconnect(c) PROVE Replay'
  BY <1>10 DEF CloseDisconnect, CloseHandle, CloseFails
<1>10b. ASSUME NEW c \in Callers, ObserveDone(c) PROVE Replay'
  BY <1>10b DEF ObserveDone
<1>11. ASSUME NEW c \in Callers, EndDisconnect(c) PROVE Replay'
  BY <1>11 DEF EndDisconnect
<1>12. ASSUME NEW c \in Callers, SweepConnection(c) PROVE Replay'
  BY <1>12 DEF SweepConnection, CloseHandle, CloseFails
<1>13. ASSUME NEW c \in Callers, WatchRemoteClose(c) PROVE Replay'
  BY <1>13 DEF WatchRemoteClose
<1>14. ASSUME NEW c \in Callers, WatchUnpublishes(c) \/ ReadToEnd(c) \/ ExpireTerminalStream(c) \/ PeerCloses(c)
       PROVE  Replay'
  BY <1>14 DEF WatchUnpublishes, ReadToEnd, ExpireTerminalStream, PeerCloses, CloseHandle
<1>15. ASSUME NEW o \in Operations, RetentionEnds(o) PROVE Replay'
  BY <1>15 DEF RetentionEnds
<1>16. ASSUME NEW t \in Terminals, TerminalStep(t) \/ OpenTerminalStream(t) \/ CloseTerminalStream(t) PROVE Replay'
  BY <1>16 DEF TerminalStep, ParentAnswers, ListTerminal, CleanupTerminal, RemoveLogicalTerminal,
    WatchLogicalTerminalParent, OpenTerminalStream, CloseTerminalStream, MoveTerminal, Usable
<1>17. ASSUME CloseService PROVE Replay'
  BY <1>17 DEF CloseService
<1>18. CASE UNCHANGED coreVars
  BY <1>18 DEF coreVars
<1>19. QED
  BY <1>1, <1>2, <1>3, <1>4, <1>5, <1>6, <1>7, <1>8, <1>9, <1>10, <1>10b, <1>11, <1>12, <1>13, <1>14, <1>15, <1>16,
    <1>17, <1>18
     DEF CoreNext, ConnectStep, DisconnectStep, WatchStep

-----------------------------------------------------------------------------
(* The openings and the table.                                              *)

\* The cardinalities are numbers.
LEMMA SlotNumbers ==
    ASSUME Slots
    PROVE  /\ Cardinality(Active) \in Nat /\ Cardinality(CallsAt(Reserved)) \in Nat
           /\ opening = Cardinality(CallsAt(Reserved)) /\ MaxConnections \in Nat \ {0}
BY CoreConnectionsAssumption, FS_CardinalityType DEF Slots, OpeningExact, Reserved

\* A step that at most takes connections out of the table.
LEMMA SlotsFreed ==
    ASSUME Slots, Active' \subseteq Active, CallsAt(Reserved)' = CallsAt(Reserved), opening' = opening
    PROVE  Slots'
<1>1. IsFiniteSet(Active') /\ Cardinality(Active') \in Nat /\ Cardinality(Active') <= Cardinality(Active)
  BY FS_Subset, FS_CardinalityType DEF Slots
<1>2. QED
  BY <1>1, SlotNumbers DEF Slots, OpeningExact, Reserved

\* reserveOpening: the call takes an opening.
LEMMA SlotTaken ==
    ASSUME Slots, NEW c, c \notin CallsAt(Reserved), Active' = Active, CallsAt(Reserved)' = CallsAt(Reserved) \cup {c},
           Cardinality(Active) + opening < MaxConnections, opening' = opening + 1
    PROVE  Slots'
<1>1. IsFiniteSet(CallsAt(Reserved)') /\ Cardinality(CallsAt(Reserved)') = Cardinality(CallsAt(Reserved)) + 1
  BY FS_AddElement DEF Slots
<1>2. QED
  BY <1>1, SlotNumbers DEF Slots, OpeningExact, Reserved

\* A call that holds an opening gives it back, with or without putting its
\* connection into the table: there is something to give back.
LEMMA SlotReturned ==
    ASSUME Slots, NEW c \in CallsAt(Reserved), CallsAt(Reserved)' = CallsAt(Reserved) \ {c},
           Active' \in {Active, Active \cup {c}}
    PROVE  /\ opening > 0
           /\ opening' = opening - 1 => Slots'
<1>1. /\ IsFiniteSet(CallsAt(Reserved)') /\ Cardinality(CallsAt(Reserved)') = Cardinality(CallsAt(Reserved)) - 1
      /\ Cardinality(CallsAt(Reserved)') \in Nat
  BY FS_RemoveElement, FS_CardinalityType DEF Slots
<1>2. /\ IsFiniteSet(Active') /\ Cardinality(Active') \in Nat
      /\ Cardinality(Active') <= Cardinality(Active) + 1
  <2>1. IsFiniteSet(Active \cup {c}) /\ Cardinality(Active \cup {c}) \in {Cardinality(Active), Cardinality(Active) + 1}
    BY FS_AddElement DEF Slots
  <2>2. CASE Active' = Active
    BY <2>2, SlotNumbers DEF Slots
  <2>3. CASE Active' = Active \cup {c}
    BY <2>1, <2>3, SlotNumbers
  <2>4. QED
    BY <2>2, <2>3
<1>3. QED
  BY <1>1, <1>2, SlotNumbers DEF Slots, OpeningExact, Reserved

\* A call that leaves its place for another, seen by the openings.
LEMMA CallMoves ==
    ASSUME CallTypes, NEW c \in Callers, NEW at, connect' = [connect EXCEPT ![c] = at]
    PROVE  CallsAt(Reserved)' = IF at \in Reserved THEN CallsAt(Reserved) \cup {c} ELSE CallsAt(Reserved) \ {c}
BY DEF CallTypes, CallsAt

\* Every step respects the limit.
LEMMA SlotsStep == CoreInv /\ [CoreNext]_coreVars => Slots'
<1> SUFFICES ASSUME CoreInv, [CoreNext]_coreVars PROVE Slots'
  OBVIOUS
<1> USE DEF CoreInv, CoreTypes, serviceVars, callVars, Settle, Step
<1>1. ASSUME UNCHANGED <<opening, connect>>, \A c \in Callers : entry'[c] # "none" => entry[c] # "none" PROVE Slots'
  <2>1. Active' \subseteq Active /\ CallsAt(Reserved)' = CallsAt(Reserved)
    BY <1>1 DEF Active, CallsAt
  <2>2. QED
    BY <1>1, <2>1, SlotsFreed
<1>2. ASSUME NEW c \in Callers, NEW at, connect[c] \notin Reserved, at \notin Reserved,
             connect' = [connect EXCEPT ![c] = at], UNCHANGED <<opening, entry>>
      PROVE  Slots'
  <2>1. CallsAt(Reserved)' = CallsAt(Reserved) /\ Active' = Active
    BY <1>2, CallMoves DEF Active, CallsAt
  <2>2. QED
    BY <1>2, <2>1, SlotsFreed
<1>3. ASSUME NEW c \in Callers, NEW at \in Reserved, connect[c] \in Reserved,
             connect' = [connect EXCEPT ![c] = at], UNCHANGED <<opening, entry>>
      PROVE  Slots'
  <2>1. CallsAt(Reserved)' = CallsAt(Reserved) /\ Active' = Active
    BY <1>3, CallMoves DEF Active, CallsAt
  <2>2. QED
    BY <1>3, <2>1, SlotsFreed
<1>4. ASSUME NEW c \in Callers, NEW at, connect[c] \in Reserved, at \notin Reserved,
             connect' = [connect EXCEPT ![c] = at], ReleaseOpening \/ opening' = opening - 1,
             entry' = entry \/ entry' = [entry EXCEPT ![c] = "active"]
      PROVE  Slots'
  <2>1. CallsAt(Reserved)' = CallsAt(Reserved) \ {c} /\ c \in CallsAt(Reserved)
    BY <1>4, CallMoves DEF CallsAt
  <2>2. Active' \in {Active, Active \cup {c}}
    BY <1>4 DEF Active, ServiceTypes
  <2>3. opening > 0
    BY <2>1, <2>2, SlotReturned
  <2>4. QED
    BY <1>4, <2>1, <2>2, <2>3, SlotReturned DEF ReleaseOpening
<1>5. ASSUME NEW c \in Callers, BeginConnect(c) \/ AwaitLeader(c) \/ UnwindConnect(c) \/ CompleteConnect(c) PROVE Slots'
  BY <1>2, <1>5 DEF BeginConnect, AwaitLeader, UnwindConnect, CompleteConnect, Reserved
<1>6. ASSUME NEW c \in Callers, ReserveOpening(c) PROVE Slots'
  <2>1. CASE connect' = [connect EXCEPT ![c] = "settled"] /\ UNCHANGED opening
    BY <1>2, <1>6, <2>1 DEF ReserveOpening, Reserved
  <2>2. CASE connect' = [connect EXCEPT ![c] = "dialing"] /\ opening' = opening + 1
             /\ Cardinality(Active) + opening < MaxConnections
    <3>1. CallsAt(Reserved)' = CallsAt(Reserved) \cup {c} /\ c \notin CallsAt(Reserved) /\ Active' = Active
      BY <1>6, <2>2, CallMoves DEF ReserveOpening, CallsAt, Reserved, Active
    <3>2. QED
      BY <2>2, <3>1, SlotTaken
  <2>3. QED
    BY <1>6, <2>1, <2>2 DEF ReserveOpening
<1>7. ASSUME NEW c \in Callers, BackendFails(c) PROVE Slots'
  <2>1. /\ connect[c] \in Reserved /\ "settled" \notin Reserved
        /\ connect' = [connect EXCEPT ![c] = "settled"] /\ ReleaseOpening /\ entry' = entry
    BY <1>7 DEF BackendFails, Reserved
  <2>2. QED
    BY <1>4, <2>1
<1>8. ASSUME NEW c \in Callers, BackendOpens(c) \/ CheckOpened(c) \/ SetConnectionPath(c) PROVE Slots'
  BY <1>3, <1>4, <1>8 DEF BackendOpens, CheckOpened, SetConnectionPath, Reserved
<1>9. ASSUME NEW c \in Callers, Activate(c) PROVE Slots'
  BY <1>4, <1>9 DEF Activate, Reserved
<1>10. ASSUME NEW c \in Callers, DisconnectStep(c) \/ WatchStep(c) \/ SweepConnection(c) \/ ExpireTerminalStream(c)
              \/ PeerCloses(c) \/ CallerWithdraws(c) \/ BeginDisconnect(c) \/ ReadToEnd(c)
       PROVE  Slots'
  BY <1>1, <1>10 DEF DisconnectStep, UnpublishDisconnect, CloseDisconnect, ObserveDone, EndDisconnect, WatchStep,
       WatchRemoteClose,
       WatchUnpublishes, SweepConnection, ExpireTerminalStream, PeerCloses, CallerWithdraws, BeginDisconnect, ReadToEnd,
       ServiceTypes, Entries
<1>11. ASSUME NEW o \in Operations, RetentionEnds(o) PROVE Slots'
  BY <1>1, <1>11 DEF RetentionEnds
<1>12. ASSUME NEW t \in Terminals, TerminalStep(t) \/ OpenTerminalStream(t) \/ CloseTerminalStream(t) PROVE Slots'
  BY <1>1, <1>12 DEF TerminalStep, ParentAnswers, ListTerminal, CleanupTerminal, RemoveLogicalTerminal,
       WatchLogicalTerminalParent, OpenTerminalStream, CloseTerminalStream, MoveTerminal
<1>13. CASE CloseService
  BY <1>1, <1>13 DEF CloseService
<1>14. CASE UNCHANGED coreVars
  BY <1>1, <1>14 DEF coreVars
<1>15. QED
  BY <1>5, <1>6, <1>7, <1>8, <1>9, <1>10, <1>11, <1>12, <1>13, <1>14 DEF CoreNext, ConnectStep

-----------------------------------------------------------------------------
(* The theorems.                                                            *)

\* The invariant holds from the start and every step keeps it.
THEOREM CoreInvariant == CoreSpec => []CoreInv
<1>1. CoreInit => CoreInv
  BY CoreInvInit
<1>2. CoreInv /\ [CoreNext]_coreVars => CoreInv'
  BY TypesStep, StagesStep, ClosingStep, OwnersStep, TerminalsStep, ReplayStep, SlotsStep DEF CoreInv
<1>3. QED
  BY <1>1, <1>2, PTL DEF CoreSpec

\* ConnectionService never holds more connections and openings than MaxActive,
\* whatever calls run at the same time, and its variables keep their types.
THEOREM CoreTypeCorrect == CoreSpec => []CoreTypeOK
<1>1. CoreInv => CoreTypeOK
  <2> SUFFICES ASSUME CoreInv PROVE CoreTypeOK
    OBVIOUS
  <2>1. opening \in 0..MaxConnections
    BY SlotNumbers DEF CoreInv, Slots
  <2>2. svcClosed \in BOOLEAN
    BY DEF CoreInv, CoreTypes, ServiceTypes
  <2>3. Cardinality(Active) + opening <= MaxConnections
    BY DEF CoreInv, Slots
  <2>4. QED
    BY <2>1, <2>2, <2>3 DEF CoreInv, CoreTypes, ServiceTypes, HandleTypes, CallTypes, CoreTypeOK
<1>2. QED
  BY <1>1, CoreInvariant, PTL

\* Whatever Connect, Disconnect, the watcher and Close do to one another, every
\* opening is counted once, every path, handle and terminal stream has an owner
\* that will take it down, and a closed service lists nothing.
THEOREM CoreStrandsNothing == CoreSpec => []NothingStranded
<1>1. CoreInv => NothingStranded
  BY DEF CoreInv, Slots, Owners, TerminalOwners, NothingStranded
<1>2. QED
  BY <1>1, CoreInvariant, PTL

\* Calls that repeat an operation ID create one connection between them, until
\* the retention of its result is over.
THEOREM OperationConnectsOnce == CoreSpec => []OneConnectionPerOperation
<1>1. CoreInv => OneConnectionPerOperation
  BY DEF CoreInv, CoreTypes, CallTypes, Replay, OneConnectionPerOperation
<1>2. QED
  BY <1>1, CoreInvariant, PTL

-----------------------------------------------------------------------------
(* CoreRecovery: the inductive invariant.                                   *)

Performed == {"performed-ok", "performed-failed", "performed-gone", "performed-cancelled"}
Underway == {"leading"} \cup Performed
RequestPlaces == {"none", "dead", "queued", "following"} \cup Underway \cup Answers
\* Where a request may be after its mutation took effect.
Evident == {"performed-ok", "performed-failed", "ok", "failed", "dead"}

WindowTypes ==
    /\ kind \in {"write", "connect"} /\ ui \in {"idle", "attempt", "await", "recover"} /\ attempt \in {1, 2}
    /\ key \in 0..MaxKeys /\ pending \in 0..MaxKeys
    /\ expired \subseteq Keys /\ reached \in BOOLEAN /\ session \in BOOLEAN
    /\ chunk \in Nat \ {0} /\ chunkOf \in [Keys -> Nat] /\ verdict \in [Keys -> Once!Verdicts]

RequestTypes ==
    /\ alive \in BOOLEAN /\ conn \in BOOLEAN
    /\ table \in [Keys -> Answers \cup {"none", "running"}] /\ times \in [Keys -> Nat]
    /\ sent \in 0..MaxRequests /\ request \in [CoreRequests -> [key : 0..MaxKeys, at : RequestPlaces]]

RecoveryTypes ==
    /\ generation \in Nat /\ inFlight \in Parties \cup {"nobody"}
    /\ recovery \in [Parties -> {"none", "enter", "waiting", "probing"}]

\* The call, its key and what the user knows of it.
CallInv ==
    /\ ui # "idle" => key # NoKey /\ pending = key
    /\ ui = "await" => sent # 0 /\ request[sent].key = key
    /\ attempt = 1 /\ ui \in {"attempt", "await"} => ~reached
    /\ pending # NoKey => chunkOf[pending] # 0 /\ verdict[pending] \in {"none", "unknown"}
    /\ pending # NoKey /\ ui = "idle" => verdict[pending] = "unknown"

\* A request carries a key that was handed out.
RequestsInv ==
    \A n \in CoreRequests :
        /\ n > sent => request[n].at = "none"
        /\ request[n].at # "none" => request[n].key # NoKey
        /\ request[n].key # NoKey => chunkOf[request[n].key] # 0

\* The Core can no longer write: its connection went with a crash.
Cut == kind = "write" /\ ~conn

\* One request leads a key, and within the key's window only while the mutation
\* has no effect yet.
LeaderInv ==
    /\ \A n \in CoreRequests :
          /\ request[n].at \in Underway => table[request[n].key] = "running"
          /\ request[n].at = "leading" => times[request[n].key] = 0 \/ Cut \/ request[n].key \in expired
          /\ request[n].at \in {"performed-ok", "ok"} /\ kind = "write" => times[request[n].key] > 0
          /\ request[n].at = "performed-cancelled" =>
                kind = "connect" /\ (times[request[n].key] = 0 \/ request[n].key \in expired)
    /\ \A m, n \in CoreRequests :
          request[m].at \in Underway /\ request[n].at \in Underway /\ request[m].key = request[n].key => m = n

\* The table remembers every effect, until the key's window is over or a crash
\* cuts the UI off.
TableInv ==
    \A k \in Keys :
        /\ times[k] > 1 => k \in expired
        /\ times[k] > 0 => table[k] # "none" \/ Cut \/ k \in expired
        /\ table[k] = "ok" /\ kind = "write" => times[k] > 0
        /\ times[k] > 0 => \E n \in CoreRequests : request[n].key = k /\ request[n].at \in Evident

\* No request of key k has an effect, or will have one.
Futile(k) == \A n \in CoreRequests : request[n].key = k => request[n].at \in {"refused", "gone"}

\* What "refused" means, and why the window may say it: before the first
\* request that may have reached the Core, none carries the key.
VerdictInv ==
    /\ \A k \in Keys : verdict[k] # "none" => chunkOf[k] # 0
    /\ kind = "write" => \A k \in Keys : verdict[k] = "refused" => Futile(k)
    /\ ui # "idle" /\ verdict[key] # "unknown" /\ ~reached =>
          \A n \in CoreRequests : request[n].key = key => ui = "await" /\ n = sent

\* The call waits for its own recovery.
WriterRecovers == recovery["writer"] # "none" => ui = "recover"

CallPart == WindowTypes /\ CallInv /\ VerdictInv
CorePart == RequestTypes /\ RequestsInv /\ LeaderInv /\ TableInv
RecoveryPart == RecoveryTypes /\ OneRecovery
RecInv == CallPart /\ CorePart /\ RecoveryPart /\ WriterRecovers

\* No call has been made.
LEMMA RecInvInit == RecoveryInit => RecInv
<1> SUFFICES ASSUME RecoveryInit PROVE RecInv
  OBVIOUS
<1> USE CoreRecoveryAssumption DEF RecoveryInit, Keys, CoreRequests, NoKey, Parties
<1>1. WindowTypes
  <2>1. expired \subseteq Keys /\ reached \in BOOLEAN /\ session \in BOOLEAN
    OBVIOUS
  <2>2. chunk \in Nat \ {0} /\ chunkOf \in [Keys -> Nat] /\ verdict \in [Keys -> Once!Verdicts]
    BY DEF Once!Verdicts
  <2>3. QED
    BY <2>1, <2>2 DEF WindowTypes
<1>2. RequestTypes
  BY DEF RequestTypes, RequestPlaces
<1>3. CallInv /\ VerdictInv
  BY DEF CallInv, VerdictInv
<1>4. RequestsInv /\ LeaderInv /\ TableInv
  BY DEF RequestsInv, LeaderInv, TableInv, Underway, Performed
<1>5. RecoveryTypes /\ OneRecovery /\ WriterRecovers
  BY DEF RecoveryTypes, OneRecovery, WriterRecovers
<1>6. QED
  BY <1>1, <1>2, <1>3, <1>4, <1>5 DEF RecInv, CallPart, CorePart, RecoveryPart

\* The invariant gives the types that the runs check.
LEMMA RecTypes == RecInv => RecoveryTypeOK
BY DEF RecInv, CallPart, CorePart, RecoveryPart, WindowTypes, RequestTypes, RecoveryTypes, CallInv,
       RecoveryTypeOK

-----------------------------------------------------------------------------
(* The window's side.  Each step of a call begins it, sends, waits for a    *)
(* recovery, goes on after one or ends it with a verdict it may give.       *)

\* What the window may tell of its key.
Told(v, drop) ==
    /\ v \in {"ok", "refused", "unknown"} /\ drop \in BOOLEAN /\ (~drop => v = "unknown")
    /\ v = "ok" /\ kind = "write" => times[key] > 0
    /\ v = "refused" /\ kind = "write" => verdict[key] = "unknown" \/ Futile(key)

\* A call that ends leaves the invariant of the window.
LEMMA FinishKeeps ==
    ASSUME RecInv, ui # "idle", NEW v, NEW drop, Told(v, drop), FinishCall(v, drop), session' \in BOOLEAN,
           UNCHANGED <<netVars, procVars>>
    PROVE  CallPart'
<1> USE CoreRecoveryAssumption DEF RecInv, CallPart, CorePart, netVars, procVars, Keys, CoreRequests, NoKey
<1>1. key \in Keys
  BY DEF WindowTypes, CallInv
<1>2. verdict' \in [Keys -> Once!Verdicts] /\ \A k \in Keys : k # key => verdict'[k] = verdict[k]
  BY <1>1 DEF WindowTypes, FinishCall, Told, Once!Verdicts
<1>3. verdict'[key] = (IF v = "refused" /\ verdict[key] = "unknown" THEN "retracted" ELSE v)
  BY <1>1 DEF WindowTypes, FinishCall
<1>4. pending = key /\ ui' = "idle" /\ chunk' \in Nat \ {0} /\ pending' = (IF drop THEN NoKey ELSE key)
  BY DEF WindowTypes, CallInv, FinishCall, Told
<1>5. expired' \subseteq Keys
  BY DEF WindowTypes, FinishCall
<1>6. WindowTypes'
  <2>1. UNCHANGED <<kind, attempt, key, reached, chunkOf>>
    BY DEF FinishCall
  <2>2. QED
    BY <1>2, <1>4, <1>5, <2>1 DEF WindowTypes
<1>7. CallInv'
  BY <1>1, <1>3, <1>4 DEF CallInv, FinishCall, Told
<1>8. VerdictInv'
  <2>1. ASSUME NEW k \in Keys, kind = "write", verdict'[k] = "refused" PROVE Futile(k)
    BY <1>2, <1>3, <2>1 DEF VerdictInv, Told
  <2>2. \A k \in Keys : verdict'[k] # "none" => chunkOf[k] # 0
    BY <1>1, <1>2, <1>4 DEF VerdictInv, CallInv
  <2>3. QED
    BY <1>4, <2>1, <2>2 DEF VerdictInv, FinishCall, Futile
<1>9. QED
  BY <1>6, <1>7, <1>8

\* What the abstract specification allows in one step.
OnceStep == [Once!OnceNext]_Once!onceVars

\* A key without an effect is one whose requests show none.
LEMMA FutileIsUnapplied == ASSUME RecInv, NEW k \in Keys, Futile(k) PROVE times[k] = 0
BY DEF RecInv, CorePart, RequestTypes, TableInv, Futile, Evident

\* Neither the kind of the window nor an effect changes: OnceOnly sees nothing
\* but the verdicts.
LEMMA OnceUnseen == ASSUME UNCHANGED <<kind, times, expired, verdict>> PROVE OnceStep
BY DEF OnceStep, Once!onceVars

\* A call that ends is a verdict of OnceOnly.
LEMMA FinishTells ==
    ASSUME RecInv, ui # "idle", NEW v, NEW drop, Told(v, drop), FinishCall(v, drop), UNCHANGED procVars
    PROVE  OnceStep
<1> DEFINE said == IF v = "refused" /\ verdict[key] = "unknown" THEN "retracted" ELSE v
<1>1. key \in Keys /\ pending = key /\ verdict[key] \in {"none", "unknown"} /\ verdict \in [Keys -> Once!Verdicts]
  BY CoreRecoveryAssumption DEF RecInv, CallPart, WindowTypes, CallInv, Keys, NoKey
<1>2. said \in Once!Verdicts \ {"none"}
  BY DEF Told, Once!Verdicts
<1>3. said = "ok" /\ kind = "write" => times[key] > 0
  BY DEF Told
<1>4. said = "refused" => verdict[key] = "none" /\ (kind = "write" => times[key] = 0)
  BY <1>1, FutileIsUnapplied DEF Told
<1>5. UNCHANGED <<kind, times, expired>>
  BY DEF FinishCall, procVars
<1>6. verdict' = [verdict EXCEPT ![key] = said]
  BY <1>1 DEF FinishCall
<1>7. said = "retracted" => verdict[key] = "unknown"
  BY DEF Told
<1> HIDE DEF said
<1>8. Once!Tell(key, said)
  BY <1>3, <1>4, <1>5, <1>6, <1>7 DEF Once!Tell
<1>9. QED
  BY <1>1, <1>2, <1>8 DEF OnceStep, Once!OnceNext

\* The first request of a call failed on the way, and the window recovers the
\* Core: a request that may have arrived is remembered as such.
LEMMA RecoverKeeps ==
    ASSUME RecInv, ui \in {"attempt", "await"}, attempt = 1, NEW r \in Transport, r = "notSent" => ui = "attempt",
           reached' = MayHaveReached(r), ui' = "recover",
           UNCHANGED <<kind, attempt, key, pending, expired, chunk, chunkOf, session, verdict, netVars, procVars>>
    PROVE  CallPart'
<1> USE DEF RecInv, CallPart, netVars, procVars, Transport, MayHaveReached
<1>1. WindowTypes'
  BY DEF WindowTypes
<1>2. CallInv'
  BY DEF CallInv
<1>3. VerdictInv'
  <2>1. CASE r = "lost"
    BY <2>1 DEF VerdictInv, Futile
  <2>2. CASE r = "notSent"
    BY <2>2 DEF VerdictInv, Futile, CallInv
  <2>3. QED
    BY <2>1, <2>2
<1>4. QED
  BY <1>1, <1>2, <1>3

\* The recovery went well and the same key is sent again.
LEMMA RetryKeeps ==
    ASSUME RecInv, ui = "recover", ui' = "attempt", attempt' = 2,
           UNCHANGED <<kind, key, pending, expired, reached, chunk, chunkOf, session, verdict, netVars, procVars>>
    PROVE  CallPart'
BY DEF RecInv, CallPart, WindowTypes, CallInv, VerdictInv, Futile, netVars, procVars

\* What a call may come to know of a request, and from where.
Heard(r) ==
    \/ r \in {"notSent", "ctx"} /\ ui = "attempt"
    \/ r = "lost" /\ ui = "await"
    \/ r \in Answers /\ ui = "await" /\ request[sent].at = r

\* The first request of a key's only call did not take effect when it was not
\* sent or was refused.
LEMMA RefusedIsFutile ==
    ASSUME RecInv, NEW r \in Definite \cup {"notSent"}, Heard(r), ~reached
    PROVE  verdict[key] = "unknown" \/ Futile(key)
<1> SUFFICES ASSUME verdict[key] # "unknown", NEW n \in CoreRequests, request[n].key = key
             PROVE  request[n].at \in {"refused", "gone"}
  BY DEF Futile
<1>1. ui = "await" /\ n = sent
  BY DEF RecInv, CallPart, VerdictInv, Heard
<1>2. QED
  BY <1>1 DEF Heard, Definite, Answers

\* A request of the call that came back takes the window to a recovery, or to
\* a verdict it may give.
LEMMA OutcomeEnds ==
    ASSUME RecInv, NEW r, Heard(r), Outcome(r), ~(r \in Transport /\ attempt = 1)
    PROVE  \E v \in {"ok", "refused", "unknown"}, drop \in BOOLEAN :
              Told(v, drop) /\ FinishCall(v, drop) /\ session' \in BOOLEAN /\ UNCHANGED recovery
<1> USE DEF RecInv, CallPart
<1>1. /\ r \in {"notSent", "ctx", "lost"} \cup Answers /\ ui \in {"attempt", "await"} /\ attempt \in {1, 2}
      /\ kind \in {"write", "connect"} /\ session \in BOOLEAN
  BY DEF Heard, WindowTypes
<1>2. attempt = 1 => ~reached
  BY <1>1 DEF CallInv
<1>3. r = "ok" /\ kind = "write" => times[key] > 0
  <2> SUFFICES ASSUME r = "ok", kind = "write" PROVE times[key] > 0
    OBVIOUS
  <2>1. ui = "await" /\ request[sent].at = "ok" /\ request[sent].key = key /\ sent \in CoreRequests
    BY CoreRecoveryAssumption DEF Heard, CallInv, CorePart, RequestTypes, CoreRequests
  <2>2. QED
    BY <2>1 DEF CorePart, LeaderInv
<1>4. CASE r \in Transport /\ attempt = 2
  <2>1. session' \in BOOLEAN /\ UNCHANGED recovery
    BY <1>1, <1>4 DEF Outcome, Transport
  <2>2. CASE reached \/ MayHaveReached(r)
    BY <1>4, <2>1, <2>2 DEF Outcome, Told
  <2>3. CASE ~(reached \/ MayHaveReached(r))
    <3>1. verdict[key] = "unknown" \/ Futile(key)
      BY <1>4, <2>3, RefusedIsFutile DEF Transport, MayHaveReached
    <3>2. QED
      BY <1>4, <2>1, <2>3, <3>1 DEF Outcome, Told
  <2>4. QED
    BY <2>2, <2>3
<1>5. CASE r \notin Transport
  <2>1. session' \in BOOLEAN /\ UNCHANGED recovery
    BY <1>1, <1>5 DEF Outcome
  <2>2. r \in Answers \cup {"ctx"}
    BY <1>1, <1>5 DEF Transport
  <2>3. CASE kind = "connect"
    <3>1. FinishCall(IF r = "ok" THEN "ok" ELSE "refused", TRUE)
      BY <1>5, <2>3 DEF Outcome, ConnectOutcome
    <3>2. Told(IF r = "ok" THEN "ok" ELSE "refused", TRUE)
      BY <2>3 DEF Told
    <3>3. QED
      BY <2>1, <3>1, <3>2
  <2>4. CASE kind = "write"
    <3>1. WriteOutcome(r)
      BY <1>5, <2>4 DEF Outcome
    <3>2. r \in Definite /\ ~reached => verdict[key] = "unknown" \/ Futile(key)
      BY RefusedIsFutile
    <3>3. CASE r = "ok" /\ FinishCall("ok", TRUE)
      BY <1>3, <2>1, <3>3 DEF Told
    <3>4. CASE r \in Definite /\ ~reached /\ FinishCall("refused", TRUE)
      BY <2>1, <3>2, <3>4 DEF Told
    <3>5. CASE FinishCall("unknown", FALSE) \/ FinishCall("unknown", r = "gone")
      BY <2>1, <3>5 DEF Told
    <3>6. QED
      BY <1>2, <3>1, <3>3, <3>4, <3>5 DEF WriteOutcome
  <2>5. QED
    BY <1>1, <2>3, <2>4
<1>6. QED
  BY <1>1, <1>4, <1>5

\* What the Core's part of the invariant rests on stays as it is.
LEMMA CoreFrame == ASSUME CorePart, UNCHANGED <<kind, expired, chunkOf, netVars, procVars>> PROVE CorePart'
BY DEF CorePart, RequestTypes, RequestsInv, LeaderInv, TableInv, Cut, netVars, procVars

\* The same of the recovery's part.
LEMMA RecoveryFrame == ASSUME RecoveryPart, UNCHANGED <<generation, inFlight, recovery>> PROVE RecoveryPart'
BY DEF RecoveryPart, RecoveryTypes, OneRecovery

\* The end of a request at the window keeps the invariant and implements OnceOnly.
LEMMA OutcomeKeeps ==
    ASSUME RecInv, NEW r, Heard(r), Outcome(r), UNCHANGED <<netVars, procVars, generation, inFlight>>
    PROVE  RecInv' /\ OnceStep
<1>0. ui \in {"attempt", "await"}
  BY DEF Heard
<1>1. CASE r \in Transport /\ attempt = 1
  <2>1. /\ reached' = MayHaveReached(r) /\ ui' = "recover" /\ recovery' = [recovery EXCEPT !["writer"] = "enter"]
        /\ UNCHANGED <<kind, attempt, key, pending, expired, chunk, chunkOf, session, verdict>>
    BY <1>1 DEF Outcome
  <2>2. CallPart'
    BY <1>0, <1>1, <2>1, RecoverKeeps DEF Heard, Answers, Transport
  <2>3. CorePart'
    BY <2>1, CoreFrame DEF RecInv
  <2>4. recovery["writer"] = "none"
    BY <1>0 DEF RecInv, WriterRecovers
  <2>5. RecoveryPart'
    BY <2>1, <2>4 DEF RecInv, RecoveryPart, RecoveryTypes, OneRecovery, Parties
  <2>6. OnceStep
    BY <2>1, OnceUnseen DEF procVars
  <2>7. QED
    BY <2>1, <2>2, <2>3, <2>5, <2>6 DEF RecInv, WriterRecovers
<1>2. CASE ~(r \in Transport /\ attempt = 1)
  <2>1. PICK v \in {"ok", "refused", "unknown"}, drop \in BOOLEAN :
           Told(v, drop) /\ FinishCall(v, drop) /\ session' \in BOOLEAN /\ UNCHANGED recovery
    BY <1>2, OutcomeEnds
  <2>2. CallPart' /\ OnceStep
    BY <1>0, <2>1, FinishKeeps, FinishTells
  <2>3. CorePart'
    BY <2>1, CoreFrame DEF RecInv, FinishCall
  <2>4. RecoveryPart'
    BY <2>1, RecoveryFrame DEF RecInv
  <2>5. WriterRecovers'
    BY <1>0, <2>1 DEF RecInv, WriterRecovers, FinishCall
  <2>6. QED
    BY <2>2, <2>3, <2>4, <2>5 DEF RecInv
<1>3. QED
  BY <1>1, <1>2

\* The key that is handed out next is a new one.
LEMMA FreshKeyIsNew == ASSUME Handed # Keys PROVE FreshKey \in Keys /\ chunkOf[FreshKey] = 0
<1> DEFINE S == Keys \ Handed
<1>1. S \subseteq Nat /\ S # {}
  BY CoreRecoveryAssumption DEF Keys, Handed
<1>2. \E k \in S : \A j \in S : ~(<<j, k>> \in OpToRel(<, Nat))
  BY <1>1, WFMin, NatLessThanWellFounded, Zenon
<1>3. PICK k \in S : \A j \in S : ~(<<j, k>> \in OpToRel(<, Nat))
  BY <1>2
<1>4. \A j \in S : ~(j < k)
  BY <1>1, <1>3, Zenon DEF OpToRel
<1>5. \A j \in S : k <= j
  BY <1>1, <1>4
<1>6. FreshKey \in S
  BY <1>5 DEF FreshKey
<1>7. QED
  BY <1>6 DEF Handed

\* A call begins, under its pending key or under one that nobody used, or is
\* refused for a key whose window is over.
LEMMA PrepareKeeps == ASSUME RecInv, PrepareRequest PROVE RecInv' /\ OnceStep
<1> USE CoreRecoveryAssumption DEF Keys, CoreRequests, NoKey
<1>0. /\ ui = "idle" /\ UNCHANGED <<kind, expired, chunk, session, netVars, procVars, generation, inFlight, recovery>>
      /\ recovery["writer"] = "none"
  BY DEF PrepareRequest, RecInv, WriterRecovers
<1>1. RecoveryPart' /\ WriterRecovers'
  BY <1>0, RecoveryFrame DEF RecInv, WriterRecovers
<1>2. CASE /\ pending # NoKey /\ verdict' = [verdict EXCEPT ![pending] = "unknown"]
           /\ UNCHANGED <<ui, attempt, key, pending, reached, chunkOf, seen>>
  <2>1. pending \in Keys
    BY <1>2 DEF RecInv, CallPart, WindowTypes
  <2>2. CorePart'
    BY <1>0, <1>2, CoreFrame DEF RecInv
  <2>3. CallPart'
    BY <1>0, <1>2, <2>1 DEF RecInv, CallPart, WindowTypes, CallInv, VerdictInv, Futile, netVars, Once!Verdicts
  <2>4. Once!Tell(pending, "unknown")
    BY <1>0, <1>2, <2>1 DEF Once!Tell, procVars
  <2>5. OnceStep
    BY <2>1, <2>4 DEF OnceStep, Once!OnceNext, Once!Verdicts
  <2>6. QED
    BY <1>1, <2>2, <2>3, <2>5 DEF RecInv
<1>3. CASE /\ pending # NoKey /\ key' = pending /\ ui' = "attempt" /\ attempt' = 1 /\ reached' = FALSE
           /\ UNCHANGED <<pending, chunkOf, verdict>>
  <2>1. CorePart'
    BY <1>0, <1>3, CoreFrame DEF RecInv
  <2>2. CallPart'
    BY <1>0, <1>3 DEF RecInv, CallPart, WindowTypes, CallInv, VerdictInv, Futile, netVars
  <2>3. OnceStep
    BY <1>0, <1>3, OnceUnseen DEF procVars
  <2>4. QED
    BY <1>1, <2>1, <2>2, <2>3 DEF RecInv
<1>4. CASE /\ pending = NoKey /\ Handed # Keys /\ key' = FreshKey /\ pending' = FreshKey
           /\ chunkOf' = [chunkOf EXCEPT ![FreshKey] = chunk] /\ ui' = "attempt" /\ attempt' = 1 /\ reached' = FALSE
           /\ UNCHANGED verdict
  <2>1. FreshKey \in Keys /\ chunkOf[FreshKey] = 0
    BY <1>4, FreshKeyIsNew
  <2>2. /\ chunkOf' \in [Keys -> Nat] /\ chunkOf'[FreshKey] # 0
        /\ \A k \in Keys : chunkOf[k] # 0 => chunkOf'[k] # 0
    BY <1>4, <2>1 DEF RecInv, CallPart, WindowTypes
  <2>3. \A n \in CoreRequests : request[n].key # FreshKey
    BY <2>1 DEF RecInv, CorePart, RequestsInv
  <2>4. verdict[FreshKey] = "none"
    BY <2>1 DEF RecInv, CallPart, VerdictInv
  <2>5. CorePart'
    <3>1. \A n \in CoreRequests : request[n].key # NoKey => request[n].key \in Keys
      BY DEF RecInv, CorePart, RequestTypes
    <3>2. RequestsInv'
      BY <1>0, <2>2, <3>1 DEF RecInv, CorePart, RequestsInv, netVars
    <3>3. QED
      BY <1>0, <3>2 DEF RecInv, CorePart, RequestTypes, LeaderInv, TableInv, Cut, netVars, procVars
  <2>6. CallPart'
    <3>1. WindowTypes'
      <4>1. key' \in 0..MaxKeys /\ pending' \in 0..MaxKeys
        BY <1>4, <2>1
      <4>2. reached' \in BOOLEAN /\ ui' = "attempt" /\ attempt' = 1 /\ verdict' = verdict
        BY <1>4
      <4>3. QED
        BY <1>0, <2>2, <4>1, <4>2 DEF RecInv, CallPart, WindowTypes
    <3>2. CallInv'
      BY <1>0, <1>4, <2>1, <2>2, <2>4 DEF CallInv
    <3>3. VerdictInv'
      BY <1>0, <1>4, <2>1, <2>2, <2>3 DEF RecInv, CallPart, VerdictInv, Futile, netVars
    <3>4. QED
      BY <3>1, <3>2, <3>3 DEF CallPart
  <2>7. OnceStep
    BY <1>0, <1>4, OnceUnseen DEF procVars
  <2>8. QED
    BY <1>1, <2>5, <2>6, <2>7 DEF RecInv
<1>5. QED
  BY <1>2, <1>3, <1>4 DEF PrepareRequest

\* A request goes out under the call's key.
LEMMA SendKeeps ==
    ASSUME RecInv, ui = "attempt", sent < MaxRequests, sent' = sent + 1, ui' = "await",
           request' = [request EXCEPT ![sent + 1] = [key |-> key, at |-> IF alive THEN "queued" ELSE "dead"]],
           UNCHANGED <<kind, attempt, key, pending, expired, reached, chunk, chunkOf, session, verdict, recovery, procVars,
                       generation, inFlight>>
    PROVE  RecInv' /\ OnceStep
<1> USE CoreRecoveryAssumption DEF RecInv, CallPart, CorePart, Keys, CoreRequests, NoKey, procVars
<1>1. key \in Keys /\ pending = key /\ chunkOf[key] # 0 /\ sent' \in CoreRequests /\ request[sent'].at = "none"
  BY DEF WindowTypes, CallInv, RequestTypes, RequestsInv
<1>2. /\ request' \in [CoreRequests -> [key : 0..MaxKeys, at : RequestPlaces]]
      /\ request'[sent'].key = key /\ request'[sent'].at \in {"queued", "dead"}
      /\ \A n \in CoreRequests : n # sent' => request'[n] = request[n]
  BY <1>1 DEF RequestTypes, RequestPlaces, WindowTypes
<1>3. CallPart'
  <2>1. WindowTypes' /\ CallInv'
    BY <1>1, <1>2 DEF WindowTypes, CallInv
  <2>2. VerdictInv'
    BY <1>1, <1>2 DEF VerdictInv, Futile, CallInv
  <2>3. QED
    BY <2>1, <2>2
<1>4. CorePart'
  <2>1. RequestTypes' /\ RequestsInv'
    BY <1>1, <1>2 DEF RequestTypes, RequestsInv
  <2>2. LeaderInv'
    BY <1>1, <1>2 DEF LeaderInv, Underway, Performed, Cut
  <2>3. TableInv'
    BY <1>1, <1>2 DEF TableInv, Evident, Cut
  <2>4. QED
    BY <2>1, <2>2, <2>3
<1>5. RecoveryPart' /\ WriterRecovers'
  BY RecoveryFrame DEF WriterRecovers
<1>6. OnceStep
  BY OnceUnseen
<1>7. QED
  BY <1>3, <1>4, <1>5, <1>6

\* The rest of the call's own steps.
LEMMA CallKeeps == ASSUME RecInv, CallStep PROVE RecInv' /\ OnceStep
<1>1. CASE Dial
  <2>1. CASE Outcome("notSent") /\ UNCHANGED netVars
    BY <1>1, <2>1, OutcomeKeeps DEF Dial, Heard
  <2>2. CASE Outcome("ctx") /\ UNCHANGED netVars
    BY <1>1, <2>2, OutcomeKeeps DEF Dial, Heard
  <2>3. QED
    BY <1>1, <2>1, <2>2, SendKeeps DEF Dial
<1>2. CASE ReadResponse
  <2>1. PICK r \in {"lost"} \cup Answers : Outcome(r) /\ Heard(r)
    BY <1>2 DEF ReadResponse, Heard
  <2>2. QED
    BY <1>2, <2>1, OutcomeKeeps DEF ReadResponse
<1>3. QED
  BY <1>1, <1>2 DEF CallStep

-----------------------------------------------------------------------------
(* Recovery.                                                                *)

\* What the writer does when its recovery is over.
LEMMA RecoveredKeeps ==
    ASSUME RecInv, ui = "recover", NEW ok \in BOOLEAN, Recovered("writer", ok), UNCHANGED <<netVars, procVars>>
    PROVE  CallPart' /\ CorePart' /\ OnceStep /\ ui' # "recover"
<1>1. CASE ok
  <2>1. /\ ui' = "attempt" /\ attempt' = 2
        /\ UNCHANGED <<kind, key, pending, expired, reached, chunk, chunkOf, session, verdict>>
    BY <1>1 DEF Recovered
  <2>2. QED
    BY <2>1, RetryKeeps, CoreFrame, OnceUnseen DEF RecInv, procVars
<1>2. CASE ~ok
  <2>1. PICK v \in {"unknown", "refused"}, drop \in BOOLEAN : Told(v, drop) /\ FinishCall(v, drop)
    <3>1. CASE reached
      BY <1>2, <3>1 DEF Recovered, Told
    <3>2. CASE ~reached
      <4>1. verdict[key] = "unknown" \/ Futile(key)
        BY <3>2 DEF RecInv, CallPart, VerdictInv, Futile
      <4>2. QED
        BY <1>2, <3>2, <4>1 DEF Recovered, Told
    <3>3. QED
      BY <3>1, <3>2
  <2>2. session' = session
    BY <1>2 DEF Recovered
  <2>3. session \in BOOLEAN
    BY DEF RecInv, CallPart, WindowTypes
  <2>4. CallPart' /\ OnceStep
    BY <2>1, <2>2, <2>3, FinishKeeps, FinishTells
  <2>5. CorePart'
    BY <2>1, CoreFrame DEF RecInv, FinishCall
  <2>6. QED
    BY <2>1, <2>4, <2>5 DEF FinishCall
<1>3. QED
  BY <1>1, <1>2

\* Nothing of the window or of the Core moves.
LEMMA StandStill ==
    ASSUME RecInv, UNCHANGED <<uiVars, netVars, procVars>> PROVE CallPart' /\ CorePart' /\ OnceStep /\ ui' = ui
<1>1. CallPart'
  BY DEF RecInv, CallPart, WindowTypes, CallInv, VerdictInv, Futile, uiVars, netVars, procVars
<1>2. QED
  BY <1>1, CoreFrame, OnceUnseen DEF RecInv, uiVars, procVars

\* A party enters the recovery: one of them runs it, the other waits.
LEMMA EnterKeeps == ASSUME RecInv, NEW p \in Parties, EnterRecovery(p) PROVE RecInv' /\ OnceStep
<1>1. RecoveryPart'
  BY DEF RecInv, RecoveryPart, RecoveryTypes, OneRecovery, EnterRecovery, Parties
<1>2. CallPart' /\ CorePart' /\ OnceStep /\ WriterRecovers'
  <2>0. recovery \in [Parties -> {"none", "enter", "waiting", "probing"}] /\ UNCHANGED <<netVars, procVars>>
    BY DEF RecInv, RecoveryPart, RecoveryTypes, EnterRecovery
  <2>1. CASE UNCHANGED uiVars
    BY <2>0, <2>1, StandStill DEF EnterRecovery, RecInv, WriterRecovers, Parties
  <2>2. CASE recovery' = [recovery EXCEPT ![p] = "none"] /\ Recovered(p, TRUE)
    <3>1. CASE p = "reader"
      BY <2>0, <2>2, <3>1, StandStill DEF Recovered, RecInv, WriterRecovers, Parties
    <3>2. CASE p = "writer"
      <4>1. ui = "recover"
        BY <3>2 DEF EnterRecovery, RecInv, WriterRecovers
      <4>2. CallPart' /\ CorePart' /\ OnceStep
        BY <2>0, <2>2, <3>2, <4>1, RecoveredKeeps
      <4>3. recovery'["writer"] = "none"
        BY <2>0, <2>2, <3>2
      <4>4. QED
        BY <4>2, <4>3 DEF WriterRecovers
    <3>3. QED
      BY <3>1, <3>2 DEF Parties
  <2>3. QED
    BY <2>1, <2>2 DEF EnterRecovery
<1>3. QED
  BY <1>1, <1>2 DEF RecInv

\* The party that recovered leaves, and those that waited go on or start again.
LEMMA EndKeeps ==
    ASSUME RecInv, NEW p \in Parties, NEW result \in {"ok", "failed", "cancelled"}, EndRecovery(p, result)
    PROVE  RecInv' /\ OnceStep
<1> DEFINE waiting == {q \in Parties : recovery[q] = "waiting"}
           concerned == p = "writer" \/ ("writer" \in waiting /\ result # "cancelled")
<1>1. RecoveryPart'
  BY DEF RecInv, RecoveryPart, RecoveryTypes, OneRecovery, EndRecovery, Parties
<1>2. recovery[p] = "probing" /\ UNCHANGED <<netVars, procVars>>
  BY DEF EndRecovery
<1>3. recovery' = [q \in Parties |-> IF q = p THEN "none" ELSE IF q \notin waiting THEN recovery[q]
                                     ELSE IF result = "cancelled" THEN "enter" ELSE "none"]
  BY DEF EndRecovery
<1>4. CASE concerned
  <2>1. ui = "recover"
    BY <1>2, <1>4 DEF RecInv, WriterRecovers
  <2>2. Recovered("writer", result = "ok")
    BY <1>4 DEF EndRecovery
  <2>3. CallPart' /\ CorePart' /\ OnceStep
    BY <1>2, <2>1, <2>2, RecoveredKeeps
  <2>4. recovery'["writer"] = "none"
    BY <1>3, <1>4 DEF Parties
  <2>5. QED
    BY <1>1, <2>3, <2>4 DEF RecInv, WriterRecovers
<1>5. CASE ~concerned
  <2>1. CallPart' /\ CorePart' /\ OnceStep /\ ui' = ui
    BY <1>2, <1>5, StandStill DEF EndRecovery
  <2>2. recovery'["writer"] # "none" => recovery["writer"] # "none"
    BY <1>3, <1>5 DEF Parties
  <2>3. QED
    BY <1>1, <2>1, <2>2 DEF RecInv, WriterRecovers
<1>6. QED
  BY <1>4, <1>5

-----------------------------------------------------------------------------
(* The Core's side.                                                         *)

\* A request moves on: it keeps its key, and one that is over does not move.
LEMMA AnswerKeeps ==
    ASSUME RecInv, NEW n \in CoreRequests, NEW a \in RequestPlaces \ {"none"}, Answer(n, a),
           request[n].at \notin {"none", "refused", "gone"}, UNCHANGED <<uiVars, sent>>
    PROVE  /\ CallPart' /\ RequestsInv'
           /\ request' \in [CoreRequests -> [key : 0..MaxKeys, at : RequestPlaces]]
           /\ request[n].key \in Keys /\ request'[n].at = a
           /\ \A m \in CoreRequests : request'[m].key = request[m].key /\ (m # n => request'[m].at = request[m].at)
<1> USE CoreRecoveryAssumption DEF RecInv, CallPart, CorePart, uiVars, Keys, NoKey
<1>1. request' \in [CoreRequests -> [key : 0..MaxKeys, at : RequestPlaces]] /\ request'[n].at = a
  BY DEF RequestTypes, Answer
<1>2. \A m \in CoreRequests : request'[m].key = request[m].key /\ (m # n => request'[m].at = request[m].at)
  BY DEF RequestTypes, Answer
<1>3. request[n].key \in Keys
  BY DEF RequestTypes, RequestsInv
<1>4. RequestsInv'
  BY <1>1, <1>2, <1>3 DEF RequestsInv
<1>5. WindowTypes'
  BY DEF WindowTypes
<1>6. CallInv'
  BY <1>2 DEF CallInv, RequestTypes, CoreRequests
<1>7. VerdictInv'
  <2>1. ASSUME NEW k \in Keys, Futile(k) PROVE Futile(k)'
    BY <1>2, <2>1 DEF Futile
  <2>2. QED
    BY <1>2, <2>1 DEF VerdictInv
<1>8. QED
  BY <1>1, <1>2, <1>3, <1>4, <1>5, <1>6, <1>7

\* begin and the followers: a key gets a leader only when the table has no
\* entry for it, and so no effect either, or when its window is over.
LEMMA BeginKeeps ==
    ASSUME RecInv, NEW n \in CoreRequests, BeginRequest(n) \/ FollowRequest(n) PROVE RecInv' /\ OnceStep
<1> DEFINE k == request[n].key
<1>0. request[n].at \in {"queued", "following"} /\ UNCHANGED <<uiVars, sent, alive, conn, times, recoveryVars>>
  BY DEF BeginRequest, FollowRequest, procVars
<1>1. PICK a \in {"following", "refused", "leading", "queued"} \cup Answers,
           over \in SUBSET {j \in expired : table[j] \in Answers} :
         /\ Answer(n, a)
         /\ a = "leading" => PrunedTable(over)[k] = "none" /\ table' = [PrunedTable(over) EXCEPT ![k] = "running"]
         /\ a # "leading" => table' = PrunedTable(over)
         /\ a = "ok" => table[k] = "ok"
  <2>1. CASE BeginRequest(n)
    <3>1. PICK over \in SUBSET {j \in expired : table[j] \in Answers} :
            \/ PrunedTable(over)[k] \in Answers /\ Answer(n, table[k]) /\ table' = PrunedTable(over)
            \/ Answer(n, "following") /\ table' = PrunedTable(over)
            \/ Answer(n, "refused") /\ table' = PrunedTable(over)
            \/ /\ PrunedTable(over)[k] = "none" /\ Answer(n, "leading")
               /\ table' = [PrunedTable(over) EXCEPT ![k] = "running"]
      BY <2>1 DEF BeginRequest
    <3>2. k \in Keys
      BY <2>1, CoreRecoveryAssumption DEF BeginRequest, RecInv, CorePart, RequestTypes, RequestsInv, Keys, NoKey
    <3>3. PrunedTable(over)[k] \in Answers => table[k] \in Answers
      BY <3>2 DEF PrunedTable, Answers
    <3>4. QED
      BY <3>1, <3>3 DEF Answers
  <2>2. CASE FollowRequest(n)
    <3>1. PrunedTable({}) = table
      BY DEF PrunedTable, RecInv, CorePart, RequestTypes
    <3>2. QED
      BY <2>2, <3>1 DEF FollowRequest, procVars, Answers
  <2>3. QED
    BY <2>1, <2>2
<1>2. a \in RequestPlaces \ {"none"}
  BY DEF RequestPlaces, Underway, Performed, Answers
<1>3. /\ CallPart' /\ RequestsInv'
      /\ request' \in [CoreRequests -> [key : 0..MaxKeys, at : RequestPlaces]]
      /\ k \in Keys /\ request'[n].at = a
      /\ \A m \in CoreRequests : request'[m].key = request[m].key /\ (m # n => request'[m].at = request[m].at)
  BY <1>0, <1>1, <1>2, AnswerKeeps
<1> USE DEF RecInv, CorePart, RequestTypes
<1>4. /\ table' \in [Keys -> Answers \cup {"none", "running"}]
      /\ \A j \in Keys : \/ table'[j] = table[j]
                         \/ j \in expired /\ table[j] \in Answers /\ table'[j] = "none"
                         \/ j = k /\ a = "leading"
      /\ a = "leading" => table'[k] = "running" /\ (table[k] = "none" \/ (k \in expired /\ table[k] \in Answers))
  <2>1. PrunedTable(over) \in [Keys -> Answers \cup {"none", "running"}]
    BY DEF PrunedTable
  <2>2. \A j \in Keys : \/ PrunedTable(over)[j] = table[j]
                        \/ j \in expired /\ table[j] \in Answers /\ PrunedTable(over)[j] = "none"
    BY DEF PrunedTable
  <2>3. CASE a = "leading"
    <3>1. table' = [PrunedTable(over) EXCEPT ![k] = "running"] /\ PrunedTable(over)[k] = "none"
      BY <1>1, <2>3
    <3>2. table'[k] = "running" /\ \A j \in Keys : j # k => table'[j] = PrunedTable(over)[j]
      BY <1>3, <2>1, <3>1
    <3>3. table' \in [Keys -> Answers \cup {"none", "running"}]
      BY <2>1, <3>1
    <3>4. table[k] = "none" \/ (k \in expired /\ table[k] \in Answers)
      <4>1. k \in Keys
        BY <1>3
      <4>2. PrunedTable(over)[k] = table[k] \/ (k \in expired /\ table[k] \in Answers)
        BY <4>1 DEF PrunedTable
      <4>3. QED
        BY <3>1, <4>2
    <3>5. QED
      BY <2>2, <2>3, <3>2, <3>3, <3>4
  <2>4. CASE a # "leading"
    <3>1. table' = PrunedTable(over)
      BY <1>1, <2>4
    <3>2. QED
      BY <2>1, <2>2, <2>4, <3>1
  <2>5. QED
    BY <2>3, <2>4
<1>5. kind' = kind /\ expired' = expired /\ Cut' = Cut
  BY <1>0 DEF uiVars, Cut
<1>6. LeaderInv'
  <2>1. table[k] # "running" => \A m \in CoreRequests : request[m].key = k => request[m].at \notin Underway
    BY <1>3 DEF LeaderInv
  <2>2. a = "leading" => times[k] = 0 \/ Cut \/ k \in expired
    BY <1>3, <1>4 DEF TableInv
  <2>3. ASSUME NEW m \in CoreRequests, m # n, request[m].at \in Underway
        PROVE  request[m].key \in Keys /\ table'[request[m].key] = "running" /\ (a = "leading" => request[m].key # k)
    <3>1. request[m].key \in Keys
      BY <2>3, CoreRecoveryAssumption DEF RequestsInv, Underway, Performed, Keys, NoKey
    <3>2. table[request[m].key] = "running"
      BY <2>3 DEF LeaderInv
    <3>3. a = "leading" => table[k] # "running"
      BY <1>4 DEF Answers
    <3>4. QED
      BY <1>4, <2>1, <2>3, <3>1, <3>2, <3>3 DEF Answers
  <2>4. ASSUME a = "leading" PROVE LeaderInv'
    BY <1>0, <1>3, <1>4, <1>5, <2>2, <2>3, <2>4 DEF LeaderInv, Underway, Performed
  <2>5. ASSUME a # "leading" PROVE LeaderInv'
    <3>1. a \notin Underway \cup {"performed-ok", "performed-cancelled"} /\ (a = "ok" /\ kind = "write" => times[k] > 0)
      BY <1>1, <1>3, <2>5 DEF Underway, Performed, Answers, TableInv
    <3>2. QED
      BY <1>0, <1>3, <1>5, <2>3, <2>5, <3>1 DEF LeaderInv
  <2>6. QED
    BY <2>4, <2>5
<1>7. TableInv'
  <2>1. request[n].at \notin Evident
    BY <1>0 DEF Evident
  <2>2. ASSUME NEW j \in Keys, times[j] > 0
        PROVE  \E m \in CoreRequests : request'[m].key = j /\ request'[m].at \in Evident
    BY <1>3, <2>1, <2>2 DEF TableInv
  <2>3. \A j \in Keys : /\ table'[j] = "ok" => table[j] = "ok"
                        /\ table[j] # "none" => table'[j] # "none" \/ j \in expired
    BY <1>4
  <2>4. QED
    BY <1>0, <1>5, <2>2, <2>3 DEF TableInv
<1>8. RecoveryPart' /\ WriterRecovers' /\ OnceStep
  BY <1>0, RecoveryFrame, OnceUnseen DEF WriterRecovers, recoveryVars, uiVars
<1>9. QED
  BY <1>0, <1>3, <1>4, <1>6, <1>7, <1>8

\* Perform: the leader's mutation takes effect at most once, and a step of
\* OnceOnly says that it does.
LEMMA PerformKeeps == ASSUME RecInv, NEW n \in CoreRequests, Perform(n) PROVE RecInv' /\ OnceStep
<1> DEFINE k == request[n].key
           done == [times EXCEPT ![k] = @ + 1]
<1>0. request[n].at = "leading" /\ UNCHANGED <<uiVars, sent, alive, conn, table, crashes, recoveryVars>>
  BY DEF Perform
<1>1. PICK a \in Performed :
         /\ Answer(n, a) /\ times' \in {times, done}
         /\ times' = done => a \in {"performed-ok", "performed-failed"} /\ ~Cut
         /\ a = "performed-ok" => times' = done
         /\ a = "performed-cancelled" => kind = "connect" /\ times' = times
  <2>1. kind \in {"write", "connect"}
    BY DEF RecInv, CallPart, WindowTypes
  <2>2. times # done
    BY CoreRecoveryAssumption DEF RecInv, CorePart, RequestTypes, RequestsInv, Keys, NoKey, Perform
  <2>3. QED
    BY <2>1, <2>2 DEF Perform, Performed, Cut
<1>2. a \in RequestPlaces \ {"none"} /\ request[n].at \notin {"none", "refused", "gone"}
  BY <1>0 DEF RequestPlaces, Underway, Performed
<1>3. /\ CallPart' /\ RequestsInv'
      /\ request' \in [CoreRequests -> [key : 0..MaxKeys, at : RequestPlaces]]
      /\ k \in Keys /\ request'[n].at = a
      /\ \A m \in CoreRequests : request'[m].key = request[m].key /\ (m # n => request'[m].at = request[m].at)
  BY <1>0, <1>1, <1>2, AnswerKeeps
<1> USE DEF RecInv, CorePart, RequestTypes
<1>4. times' \in [Keys -> Nat] /\ \A j \in Keys : j # k => times'[j] = times[j]
  BY <1>1, <1>3
<1>5. /\ kind' = kind /\ expired' = expired /\ table[k] = "running"
      /\ times[k] = 0 \/ Cut \/ k \in expired
  BY <1>0 DEF uiVars, LeaderInv, Underway
<1>6. times' = done => times'[k] = times[k] + 1 /\ (times[k] = 0 \/ k \in expired)
  BY <1>1, <1>3, <1>5
<1>7. times' = times \/ times' = done
  BY <1>1
<1>8. LeaderInv'
  <2>1. \A m \in CoreRequests : m # n /\ request[m].at \in Underway => request[m].key # k
    BY <1>0 DEF LeaderInv, Underway
  <2>2. \A j \in Keys : times[j] > 0 => times'[j] > 0
    BY <1>3, <1>4, <1>6, <1>7
  <2>3. ASSUME NEW m \in CoreRequests
        PROVE  /\ request'[m].at \in Underway => table'[request'[m].key] = "running"
               /\ request'[m].at = "leading" => times'[request'[m].key] = 0 \/ Cut' \/ request'[m].key \in expired'
               /\ request'[m].at \in {"performed-ok", "ok"} /\ kind' = "write" => times'[request'[m].key] > 0
               /\ request'[m].at = "performed-cancelled" =>
                     kind' = "connect" /\ (times'[request'[m].key] = 0 \/ request'[m].key \in expired')
    <3>1. CASE m = n
      <4>1. a \in Underway /\ a # "leading" /\ a # "ok" /\ request'[m].at = a /\ request'[m].key = k
        BY <1>3, <3>1 DEF Underway, Performed
      <4>2. a = "performed-cancelled" => kind = "connect" /\ (times'[k] = 0 \/ k \in expired)
        BY <1>1, <1>5 DEF Cut
      <4>3. a = "performed-ok" => times'[k] > 0
        BY <1>1, <1>3, <1>6
      <4>4. QED
        BY <1>0, <1>5, <4>1, <4>2, <4>3
    <3>2. CASE m # n
      <4>1. request'[m].at = request[m].at /\ request'[m].key = request[m].key
        BY <1>3, <3>2
      <4>2. request[m].at # "none" => request[m].key \in Keys
        BY CoreRecoveryAssumption DEF RequestsInv, Keys, NoKey
      <4>3. request[m].at \in Underway => times'[request[m].key] = times[request[m].key]
        BY <1>4, <2>1, <3>2, <4>2 DEF Underway, Performed
      <4>4. Cut' = Cut
        BY <1>0, <1>5 DEF Cut
      <4>5. QED
        BY <1>0, <1>5, <2>2, <4>1, <4>2, <4>3, <4>4 DEF LeaderInv, Underway, Performed
    <3>3. QED
      BY <3>1, <3>2
  <2>4. \A m1, m2 \in CoreRequests :
          request'[m1].at \in Underway /\ request'[m2].at \in Underway /\ request'[m1].key = request'[m2].key => m1 = m2
    BY <1>0, <1>3, <2>1 DEF LeaderInv
  <2>5. QED
    BY <2>3, <2>4 DEF LeaderInv
<1>9. TableInv'
  <2>1. ASSUME NEW j \in Keys, times'[j] > 0
        PROVE  \E m \in CoreRequests : request'[m].key = j /\ request'[m].at \in Evident
    <3>1. CASE times[j] > 0
      <4>1. PICK m \in CoreRequests : request[m].key = j /\ request[m].at \in Evident
        BY <3>1 DEF TableInv
      <4>2. m # n
        BY <1>0, <4>1 DEF Evident
      <4>3. QED
        BY <1>3, <4>1, <4>2
    <3>2. CASE ~(times[j] > 0)
      <4>1. j = k /\ times' = done
        BY <1>4, <1>7, <2>1, <3>2
      <4>2. QED
        BY <1>1, <1>3, <4>1 DEF Evident
    <3>3. QED
      BY <3>1, <3>2
  <2>2. \A j \in Keys : /\ times'[j] > 1 => j \in expired
                        /\ times[j] > 0 => times'[j] > 0
                        /\ j # k => times'[j] = times[j]
    BY <1>3, <1>4, <1>6, <1>7 DEF TableInv
  <2>3. QED
    BY <1>0, <1>5, <2>1, <2>2 DEF TableInv, Cut
<1>10. OnceStep
  <2>1. CASE times' = times
    BY <1>0, <2>1, OnceUnseen DEF uiVars
  <2>2. CASE times' = done
    <3>1. (times[k] = 0 \/ k \in expired) /\ UNCHANGED <<kind, expired, verdict>>
      BY <1>0, <1>6, <2>2 DEF uiVars
    <3>2. kind = "write" => verdict[k] # "refused"
      BY <1>0, <1>3 DEF CallPart, VerdictInv, Futile
    <3>3. PICK effect \in Keys : effect = k
      BY <1>3
    <3>4. Once!Apply(effect)
      BY <2>2, <3>1, <3>2, <3>3 DEF Once!Apply
    <3>5. QED
      BY <3>4 DEF OnceStep, Once!OnceNext
  <2>3. QED
    BY <1>7, <2>1, <2>2
<1>11. RecoveryPart' /\ WriterRecovers'
  BY <1>0, RecoveryFrame DEF WriterRecovers, recoveryVars, uiVars
<1>12. QED
  BY <1>0, <1>3, <1>4, <1>8, <1>9, <1>10, <1>11

\* complete: the outcome is kept in the table, but for a cancelled Connect,
\* which had no effect.
LEMMA CompleteKeeps == ASSUME RecInv, NEW n \in CoreRequests, CompleteRequest(n) PROVE RecInv' /\ OnceStep
<1> DEFINE k == request[n].key
           at == request[n].at
           a == Result(at)
<1>0. at \in Performed /\ Answer(n, a) /\ UNCHANGED <<uiVars, sent, alive, conn, times, recoveryVars>>
  BY DEF CompleteRequest, Performed
<1>1. table' = [table EXCEPT ![k] = IF at = "performed-cancelled" THEN "none" ELSE a]
  BY DEF CompleteRequest
<1>2. a \in {"ok", "gone", "failed"} /\ (a = "ok" <=> at = "performed-ok") /\ (a = "gone" <=> at = "performed-gone")
  BY <1>0 DEF Result, Performed
<1> HIDE DEF a
<1>3. a \in RequestPlaces \ {"none"} /\ at \notin {"none", "refused", "gone"}
  BY <1>0, <1>2 DEF RequestPlaces, Underway, Performed, Answers
<1>4. /\ CallPart' /\ RequestsInv'
      /\ request' \in [CoreRequests -> [key : 0..MaxKeys, at : RequestPlaces]]
      /\ k \in Keys /\ request'[n].at = a
      /\ \A m \in CoreRequests : request'[m].key = request[m].key /\ (m # n => request'[m].at = request[m].at)
  BY <1>0, <1>3, AnswerKeeps
<1> USE DEF RecInv, CorePart, RequestTypes
<1>5. /\ table' \in [Keys -> Answers \cup {"none", "running"}] /\ \A j \in Keys : j # k => table'[j] = table[j]
      /\ table'[k] = (IF at = "performed-cancelled" THEN "none" ELSE a)
  BY <1>1, <1>2, <1>4 DEF Answers
<1>6. kind' = kind /\ expired' = expired /\ Cut' = Cut
  BY <1>0 DEF uiVars, Cut
<1>7. /\ \A m \in CoreRequests : m # n /\ request[m].at \in Underway => request[m].key # k /\ request[m].key \in Keys
      /\ a = "ok" /\ kind = "write" => times[k] > 0
      /\ at = "performed-cancelled" => times[k] = 0 \/ k \in expired
  <2>1. at \in Underway
    BY <1>0 DEF Underway
  <2>2. ASSUME NEW m \in CoreRequests, m # n, request[m].at \in Underway PROVE request[m].key # k /\ request[m].key \in Keys
    BY CoreRecoveryAssumption, <2>1, <2>2 DEF LeaderInv, RequestsInv, Underway, Performed, Keys, NoKey
  <2>3. QED
    BY <1>2, <2>2 DEF LeaderInv
<1>8. LeaderInv'
  <2>1. a \notin Underway /\ a \notin {"leading", "performed-ok", "performed-cancelled"}
    BY <1>2 DEF Underway, Performed
  <2>2. ASSUME NEW m \in CoreRequests
        PROVE  /\ request'[m].at \in Underway => table'[request'[m].key] = "running"
               /\ request'[m].at = "leading" => times'[request'[m].key] = 0 \/ Cut' \/ request'[m].key \in expired'
               /\ request'[m].at \in {"performed-ok", "ok"} /\ kind' = "write" => times'[request'[m].key] > 0
               /\ request'[m].at = "performed-cancelled" =>
                     kind' = "connect" /\ (times'[request'[m].key] = 0 \/ request'[m].key \in expired')
    <3>1. CASE m = n
      BY <1>0, <1>4, <1>6, <1>7, <2>1, <3>1
    <3>2. CASE m # n
      <4>1. request'[m].at = request[m].at /\ request'[m].key = request[m].key
        BY <1>4, <3>2
      <4>2. request[m].at \in Underway => table'[request[m].key] = table[request[m].key]
        BY <1>5, <1>7, <3>2
      <4>3. QED
        BY <1>0, <1>6, <4>1, <4>2 DEF LeaderInv
    <3>3. QED
      BY <3>1, <3>2
  <2>3. \A m1, m2 \in CoreRequests :
          request'[m1].at \in Underway /\ request'[m2].at \in Underway /\ request'[m1].key = request'[m2].key => m1 = m2
    BY <1>4, <2>1 DEF LeaderInv
  <2>4. QED
    BY <2>2, <2>3 DEF LeaderInv
<1>9. TableInv'
  <2>1. ASSUME NEW j \in Keys, times[j] > 0
        PROVE  \E m \in CoreRequests : request'[m].key = j /\ request'[m].at \in Evident
    <3>1. PICK m \in CoreRequests : request[m].key = j /\ request[m].at \in Evident
      BY <2>1 DEF TableInv
    <3>2. m = n => a \in Evident
      BY <1>2, <3>1 DEF Evident, Result, a
    <3>3. QED
      BY <1>4, <3>1, <3>2
  <2>2. \A j \in Keys : /\ times[j] > 0 => table'[j] # "none" \/ Cut \/ j \in expired
                        /\ table'[j] = "ok" /\ kind = "write" => times[j] > 0
    BY <1>2, <1>5, <1>7 DEF TableInv
  <2>3. QED
    BY <1>0, <1>6, <2>1, <2>2 DEF TableInv
<1>10. RecoveryPart' /\ WriterRecovers' /\ OnceStep
  BY <1>0, RecoveryFrame, OnceUnseen DEF WriterRecovers, recoveryVars, uiVars
<1>11. QED
  BY <1>0, <1>4, <1>5, <1>8, <1>9, <1>10

\* The Core dies: what was under way is dead, terminal input stays out and the
\* window is cut off, connections are gone.
LEMMA CrashKeeps == ASSUME RecInv, Crash PROVE RecInv' /\ OnceStep
<1> USE DEF RecInv, CorePart, RequestTypes
<1>0. /\ alive' = FALSE /\ conn' = FALSE /\ UNCHANGED <<uiVars, sent, recoveryVars>> 
      /\ kind' = kind /\ chunkOf' = chunkOf /\ expired' = expired
      /\ table' = [k \in Keys |-> "none"] /\ times' = (IF kind = "write" THEN times ELSE [k \in Keys |-> 0])
  BY DEF Crash, uiVars
<1>1. /\ request' \in [CoreRequests -> [key : 0..MaxKeys, at : RequestPlaces]]
      /\ \A n \in CoreRequests : request'[n].key = request[n].key
      /\ \A n \in CoreRequests :
            request'[n].at = (IF request[n].at \in Answers \cup {"none"} THEN request[n].at ELSE "dead")
  BY DEF Crash, RequestPlaces
<1>2. kind \in {"write", "connect"}
  BY DEF CallPart, WindowTypes
<1>3. CallPart'
  <2>1. WindowTypes'
    BY <1>0 DEF CallPart, WindowTypes, uiVars
  <2>2. CallInv'
    BY <1>0, <1>1 DEF CallPart, CallInv, uiVars, CoreRequests
  <2>3. \A k \in Keys : Futile(k) => Futile(k)'
    BY <1>1 DEF Futile, Answers
  <2>4. VerdictInv'
    BY <1>0, <1>1, <2>3 DEF CallPart, VerdictInv, uiVars
  <2>5. QED
    BY <2>1, <2>2, <2>4 DEF CallPart
<1>4. RequestTypes'
  BY <1>0, <1>1 DEF RequestTypes
<1>5. RequestsInv'
  BY <1>0, <1>1 DEF RequestsInv
<1>6. LeaderInv'
  BY <1>0, <1>1, <1>2 DEF LeaderInv, Underway, Performed, Answers
<1>7. TableInv'
  <2>1. CASE kind = "write"
    <3>1. ASSUME NEW j \in Keys, times[j] > 0
          PROVE  \E m \in CoreRequests : request'[m].key = j /\ request'[m].at \in Evident
      <4>1. PICK m \in CoreRequests : request[m].key = j /\ request[m].at \in Evident
        BY <3>1 DEF TableInv
      <4>2. QED
        BY <1>1, <4>1 DEF Evident
    <3>2. QED
      BY <1>0, <2>1, <3>1 DEF TableInv, Cut
  <2>2. CASE kind = "connect"
    BY <1>0, <2>2 DEF TableInv
  <2>3. QED
    BY <1>2, <2>1, <2>2
<1>8. OnceStep
  <2>1. CASE kind = "write"
    BY <1>0, <2>1, OnceUnseen DEF uiVars
  <2>2. CASE kind = "connect"
    <3>1. times' = [k \in Keys |-> 0] /\ kind # "write" /\ UNCHANGED <<kind, expired, verdict>>
      BY <1>0, <2>2 DEF uiVars
    <3>2. Once!Lose
      BY <3>1 DEF Once!Lose
    <3>3. QED
      BY <3>2 DEF OnceStep, Once!OnceNext
  <2>3. QED
    BY <1>2, <2>1, <2>2
<1>9. RecoveryPart' /\ WriterRecovers'
  BY <1>0, RecoveryFrame DEF WriterRecovers, recoveryVars, uiVars
<1>10. QED
  BY <1>3, <1>4, <1>5, <1>6, <1>7, <1>8, <1>9

-----------------------------------------------------------------------------
(* The theorems.                                                            *)

\* The invariant is inductive, and every step is one of OnceOnly or none.
LEMMA RecStep == RecInv /\ [RecoveryNext]_recVars => RecInv' /\ OnceStep
<1> SUFFICES ASSUME RecInv, [RecoveryNext]_recVars PROVE RecInv' /\ OnceStep
  OBVIOUS
<1>1. CASE ReplayWindowEnds
  <2>1. /\ pending # NoKey /\ verdict[pending] = "unknown" /\ expired' = expired \cup {pending}
        /\ UNCHANGED <<kind, ui, attempt, key, pending, reached, chunk, chunkOf, session, verdict, netVars, procVars,
                       recoveryVars>>
    BY <1>1 DEF ReplayWindowEnds
  <2>2. pending \in Keys
    BY <2>1, CoreRecoveryAssumption DEF RecInv, CallPart, WindowTypes, Keys, NoKey
  <2>3. CallPart'
    <3>1. WindowTypes'
      BY <2>1, <2>2 DEF RecInv, CallPart, WindowTypes
    <3>2. CallInv' /\ VerdictInv'
      BY <2>1 DEF RecInv, CallPart, CallInv, VerdictInv, Futile, netVars
    <3>3. QED
      BY <3>1, <3>2 DEF CallPart
  <2>4. CorePart'
    BY <2>1 DEF RecInv, CorePart, RequestTypes, RequestsInv, LeaderInv, TableInv, Cut, netVars, procVars
  <2>5. RecoveryPart' /\ WriterRecovers'
    BY <2>1, RecoveryFrame DEF RecInv, WriterRecovers, recoveryVars
  <2>6. PICK k \in Keys : k = pending
    BY <2>2
  <2>7. Once!Expire(k)
    BY <2>1, <2>6 DEF Once!Expire, procVars
  <2>8. OnceStep
    BY <2>7 DEF OnceStep, Once!OnceNext
  <2>9. QED
    BY <2>3, <2>4, <2>5, <2>8 DEF RecInv
<1>2. CASE ReadFindsCoreGone
  <2>1. CallPart' /\ CorePart' /\ OnceStep /\ ui' = ui
    BY <1>2, StandStill DEF ReadFindsCoreGone
  <2>2. RecoveryPart' /\ WriterRecovers'
    BY <1>2, <2>1
       DEF ReadFindsCoreGone, RecInv, RecoveryPart, RecoveryTypes, OneRecovery, WriterRecovers, Parties
  <2>3. QED
    BY <2>1, <2>2 DEF RecInv
<1>3. ASSUME NEW p \in Parties, LaunchCore(p) PROVE RecInv' /\ OnceStep
  <2>1. alive' = TRUE /\ UNCHANGED <<uiVars, netVars, conn, table, times, recoveryVars>> /\ kind' = kind
    BY <1>3 DEF LaunchCore, uiVars
  <2>2. CallPart'
    BY <2>1 DEF RecInv, CallPart, WindowTypes, CallInv, VerdictInv, Futile, uiVars, netVars
  <2>3. CorePart'
    BY <2>1 DEF RecInv, CorePart, RequestTypes, RequestsInv, LeaderInv, TableInv, Cut, uiVars, netVars
  <2>4. RecoveryPart' /\ WriterRecovers' /\ OnceStep
    BY <2>1, RecoveryFrame, OnceUnseen DEF RecInv, WriterRecovers, recoveryVars, uiVars
  <2>5. QED
    BY <2>2, <2>3, <2>4 DEF RecInv
<1>4. CASE UNCHANGED recVars
  <2>1. CallPart' /\ CorePart' /\ OnceStep
    BY <1>4, StandStill DEF recVars
  <2>2. QED
    BY <1>4, <2>1, RecoveryFrame DEF RecInv, WriterRecovers, recVars, recoveryVars, uiVars
<1>5. QED
  BY <1>1, <1>2, <1>3, <1>4, PrepareKeeps, CallKeeps, CrashKeeps, EnterKeeps, EndKeeps, BeginKeeps, PerformKeeps,
     CompleteKeeps DEF RecoveryNext, RecoveryStep, RequestStep

\* Every value of the calls, the Core and the recovery has its type.
THEOREM RecoveryTypeCorrect == RecoverySpec => []RecoveryTypeOK
<1>1. RecInv /\ [RecoveryNext]_recVars => RecInv'
  BY RecStep
<1>2. QED
  BY <1>1, RecInvInit, RecTypes, PTL DEF RecoverySpec

\* Within its window a key's mutation takes effect once, and one party at a time
\* recovers the Core.
THEOREM RepeatsHarmless == RecoverySpec => []RepeatsAreHarmless
<1>1. RecInv /\ [RecoveryNext]_recVars => RecInv'
  BY RecStep
<1>2. RecInv => RepeatsAreHarmless
  BY DEF RecInv, CorePart, RecoveryPart, TableInv, RepeatsAreHarmless, NoSecondEffect
<1>3. QED
  BY <1>1, <1>2, RecInvInit, PTL DEF RecoverySpec

\* Calls, retries, followers and restarts implement OnceOnly.
THEOREM ImplementsOnceOnly == RecoverySpec => KeysTakeEffectOnce
<1>1. RecoveryInit => Once!OnceInit
  BY CoreRecoveryAssumption DEF RecoveryInit, Once!OnceInit, Keys
<1>2. RecInv /\ [RecoveryNext]_recVars => RecInv'
  BY RecStep
<1>3. RecInv /\ [RecoveryNext]_recVars => [Once!OnceNext]_Once!onceVars
  BY RecStep DEF OnceStep
<1>4. QED
  BY <1>1, <1>2, <1>3, RecInvInit, PTL DEF RecoverySpec, KeysTakeEffectOnce, Once!OnceSpec

=============================================================================
