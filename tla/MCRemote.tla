------------------------------ MODULE MCRemote ------------------------------
(***************************************************************************)
(* The components a remote session goes through, in one run: the account   *)
(* session, the relay, the terminal session, file transfers, the Core's    *)
(* connections and the window that recovers its Core.  They share no       *)
(* variable; `focus` says which of them moves, and the others keep an      *)
(* initial state in which nothing was asked of them.  The account has two  *)
(* foci: one caller of the Core with a command and restarts beside it, and *)
(* two callers alone.                                                      *)
(***************************************************************************)
EXTENDS AccountSession, RelayBroker, TerminalSession, FileTransfer, CoreConnections, CoreRecovery

CONSTANTS user1, request2, call1, call2, operation1, up1, up2, down1, down2,
    MaxClientFrames   \* bound: input frames and probes of a terminal's client together

VARIABLE focus

MCParentOf == [t \in Terminals |-> call2]

\* The transfers that are asked for: one of each kind alone, or two at once.
MCPlans == {{up1}, {down1}, {up2, down2}} \cap SUBSET Transfers

\* What each component chooses at first, and what it has when it is at rest.
RemoteInit ==
    /\ focus \in {"account", "callers", "relay", "terminal", "files", "connections", "recovery"}
    /\ AccountInit /\ RelayInit /\ SessionInit /\ TransferInit /\ CoreInit /\ RecoveryInit
    /\ shown = (IF focus = "account" THEN user1 ELSE NoUser)
    /\ IF focus = "terminal" THEN (variant = "cli") = (link = "direct")
       ELSE variant = "cli" /\ link = "direct" /\ first = "plain" /\ trusted
    /\ {t \in Transfers : op[t] = "none"} \in (IF focus = "files" THEN MCPlans ELSE {{}})
    /\ IF focus = "connections" THEN operationOf[call1] = operation1
       ELSE operationOf = [c \in Callers |-> NoOperation]
    /\ focus # "recovery" => kind = "write"

RemoteNext ==
    /\ UNCHANGED focus
    /\ \/ /\ focus = "account" /\ AccountNext /\ UNCHANGED <<relayVars, sessionVars, transferVars, coreVars, recVars>>
          /\ stage'[request2] = "idle" /\ \A r \in Requests : doing'[r] # "route"
          /\ restarts' = 0 \/ \A c \in Commands : doing'[c] \in {"nothing", "login", "logout"}
       \/ /\ focus = "callers" /\ AccountNext /\ UNCHANGED <<relayVars, sessionVars, transferVars, coreVars, recVars>>
          /\ restarts' = 0 /\ \A c \in Commands : stage'[c] = "idle"
       \/ focus = "relay" /\ RelayNext /\ UNCHANGED <<accountVars, sessionVars, transferVars, coreVars, recVars>>
       \/ /\ focus = "terminal" /\ SessionNext /\ UNCHANGED <<accountVars, relayVars, transferVars, coreVars, recVars>>
          /\ inputs' + pings' <= MaxClientFrames
       \/ focus = "files" /\ TransferNext /\ UNCHANGED <<accountVars, relayVars, sessionVars, coreVars, recVars>>
       \/ focus = "connections" /\ CoreNext /\ UNCHANGED <<accountVars, relayVars, sessionVars, transferVars, recVars>>
       \/ focus = "recovery" /\ RecoveryNext /\ UNCHANGED <<accountVars, relayVars, sessionVars, transferVars, coreVars>>

remoteVars == <<focus, accountVars, relayVars, sessionVars, transferVars, coreVars, recVars>>
RemoteSpec == RemoteInit /\ [][RemoteNext]_remoteVars
FairRemoteSpec ==
    /\ RemoteSpec /\ AccountFairness /\ RelayFairness /\ SessionFairness
    /\ TransferFairness /\ CoreFairness /\ RecoveryFairness

\* Each component is within its types (the parts say what a value may be).
RemoteTypeOK ==
    AccountTypeOK /\ RelayTypeOK /\ SessionTypeOK /\ TransferTypeOK /\ CoreTypeOK /\ RecoveryTypeOK

\* Calls return: of the account service, of Connect, of the window, and of a
\* reader of a terminal.
CallsReturn == AccountCallReturns /\ ConnectReturns /\ CallReturns /\ ReaderServed

\* What ended is let go of: an expired or exited session, a relay's connection,
\* a transfer's operation, and a dead connection with its terminals.
EndedIsReleased ==
    /\ ExpiredSessionEnds /\ ExitedSessionEnds /\ EveryAgentLeaves
    /\ OperationsReleased /\ DeadConnectionReleased /\ TerminalsReleased
============================================================================
