---------------------------- MODULE RouteReplay ----------------------------
(***************************************************************************)
(* FileRouteAuthorizationReplay (internal/meshstate/replay.go): the JTIs   *)
(* of consumed route authorizations, held in memory and in one file that   *)
(* is replaced by an atomic rename before the memory changes.              *)
(*                                                                         *)
(* One call of ConsumeRouteAuthorization runs under the store's mutex, so  *)
(* each of its outcomes is one action.  The claims of a JTI fix its        *)
(* expiry, hence the map of the code is the set of its keys.  Purging      *)
(* compares the expiry with the wall clock at the moment of the call.      *)
(***************************************************************************)
EXTENDS Naturals, FiniteSets

CONSTANTS JTIs,       \* identifiers of signed route authorizations
          Expiry,     \* when the authorization with that JTI expires
          MaxStored,  \* how many JTIs fit in maxRouteReplayStoreSize bytes
          MaxClock    \* bound on the modelled time

ASSUME RouteReplayAssumption ==
    /\ IsFiniteSet(JTIs)
    /\ Expiry \in [JTIs -> Nat \ {0}]
    /\ MaxStored \in Nat
    /\ MaxClock \in Nat

VARIABLES clock,  \* wall-clock time, in the milliseconds of the claims
          used,   \* FileRouteAuthorizationReplay.used
          disk    \* the used map in the replay file

replayVars == <<clock, used, disk>>

ReplayTypeOK ==
    /\ clock \in 0..MaxClock
    /\ used \subseteq JTIs
    /\ disk \subseteq JTIs

ReplayInit ==
    /\ clock = 0
    /\ used = {}
    /\ disk = {}

\* Variant for sensitivity checks: the purge is one unit early.
LiveTooShort(S) == {j \in S : Expiry[j] > clock + 1}

\* Entries whose expiry is after now survive the purge of every call.
Live(S) == {j \in S : Expiry[j] > clock}

\* The map that a call consuming j writes to the file.
NextUsed(j) == Live(used) \cup {j}

\* saveLocked refuses an encoding larger than maxRouteReplayStoreSize, the
\* size above which OpenFileRouteAuthorizationReplay refuses the file.
Fits(S) == Cardinality(S) <= MaxStored

\* The JTI is on record: ErrRouteAuthorizationReplay, nothing is written.
ConsumeReplayed(j) ==
    /\ j \in Live(used)
    /\ UNCHANGED <<used, disk>>

\* Variant for sensitivity checks: the encoded size is not checked.
ConsumeUnchecked(j) ==
    /\ j \notin Live(used)
    /\ disk' = NextUsed(j)
    /\ used' = NextUsed(j)

\* The file is replaced, then the memory.
ConsumeCommitted(j) ==
    /\ j \notin Live(used)
    /\ Fits(NextUsed(j))
    /\ disk' = NextUsed(j)
    /\ used' = NextUsed(j)

\* Any failure up to the rename leaves both copies alone.
ConsumeNotSaved(j) ==
    /\ j \notin Live(used)
    /\ UNCHANGED <<used, disk>>

\* The chmod after the rename fails: the file has the JTI, the memory has not.
ConsumeHalfSaved(j) ==
    /\ j \notin Live(used)
    /\ Fits(NextUsed(j))
    /\ disk' = NextUsed(j)
    /\ UNCHANGED used

\* Variant for sensitivity checks: the memory starts empty.
ReopenEmpty ==
    /\ used' = {}
    /\ UNCHANGED disk

\* OpenFileRouteAuthorizationReplay in a new process: unexpired entries of the
\* file.  A file of the wrong size makes the open fail.
Reopen ==
    /\ Fits(disk)
    /\ used' = Live(disk)
    /\ UNCHANGED disk

Tick ==
    /\ clock < MaxClock
    /\ clock' = clock + 1

============================================================================
