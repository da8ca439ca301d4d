---------------------------- MODULE CoreRecovery ----------------------------
(***************************************************************************)
(* The desktop's calls to the Local Core across timeouts, lost answers and *)
(* restarts of the Core.  The window runs one mutation at a time, a        *)
(* terminal write or a Connect, under a replay key; recoveringCore sends   *)
(* it, recovers the Core when the transport failed, and sends it again.    *)
(* In the Core a request runs against the replay table and the terminal or *)
(* backend.  The terminal reader recovers the Core on its own account.     *)
(***************************************************************************)
EXTENDS Integers, FiniteSets

CONSTANTS
    MaxKeys,      \* bound: replay keys handed out
    MaxCalls,     \* bound: mutations the user starts
    MaxRequests,  \* bound: requests sent to the Core
    MaxCrashes,   \* bound: deaths of the Core
    MaxReads      \* bound: reads that find the Core gone

ASSUME CoreRecoveryAssumption == {MaxKeys, MaxCalls, MaxRequests, MaxCrashes, MaxReads} \subseteq Nat

Keys == 1..MaxKeys
CoreRequests == 1..MaxRequests
Parties == {"writer", "reader"}
NoKey == 0

VARIABLES
    kind,        \* "write" or "connect": which mutation this window repeats
    ui,          \* where the call is: "idle", "attempt", "await", "recover"
    attempt,     \* 1 or 2: the first request of the call or the retry
    key,         \* operationID of the call
    pending,     \* the key of an unresolved mutation, or NoKey
    expired,     \* the keys whose replay window is over
    reached,     \* firstMayHaveReached
    chunk,       \* which input the user is sending
    chunkOf,     \* the input each key was handed out for
    session,     \* the controller still has something to call
    calls, sent, crashes, reads,   \* counters of the bounds
    request,     \* requests in the Core: the key and where it is
    alive,       \* the Core process runs
    conn,        \* the connection the window writes to exists in the Core
    table,       \* the Core's replay table
    times,       \* how often each key's mutation took effect and still counts
    verdict,     \* what the user was told of each key
    generation, inFlight, recovery, seen   \* recoverOnce

uiVars == <<kind, ui, attempt, key, pending, expired, reached, chunk, chunkOf, session, verdict, calls>>
netVars == <<request, sent>>
procVars == <<alive, conn, table, times, crashes>>
recoveryVars == <<generation, inFlight, recovery, seen, reads>>
recVars == <<uiVars, netVars, procVars, recoveryVars>>

RecoveryInit ==
    /\ kind \in {"write", "connect"}
    /\ ui = "idle" /\ attempt = 1 /\ key = NoKey /\ pending = NoKey /\ expired = {}
    /\ reached = FALSE /\ chunk = 1 /\ chunkOf = [k \in Keys |-> 0] /\ session = TRUE
    /\ calls = 0 /\ sent = 0 /\ crashes = 0 /\ reads = 0
    /\ request = [n \in CoreRequests |-> [key |-> NoKey, at |-> "none"]]
    /\ alive = TRUE /\ conn = (kind = "write")
    /\ table = [k \in Keys |-> "none"] /\ times = [k \in Keys |-> 0]
    /\ verdict = [k \in Keys |-> "none"]
    /\ generation = 0 /\ inFlight = "nobody"
    /\ recovery = [p \in Parties |-> "none"] /\ seen = [p \in Parties |-> 0]

-----------------------------------------------------------------------------
(* recoveringCore: one call of the window.                                  *)

Handed == {k \in Keys : chunkOf[k] # 0}
FreshKey == CHOOSE k \in Keys \ Handed : \A j \in Keys \ Handed : k <= j

\* The user starts the mutation, or repeats it after an answer other than ok.
\* prepareTerminalWriteRequest and prepareConnectRequest reuse a pending key
\* and refuse one whose window is over.
PrepareRequest ==
    /\ ui = "idle" /\ session /\ calls < MaxCalls
    /\ calls' = calls + 1
    /\ \/ /\ pending # NoKey /\ pending \in expired
          /\ verdict' = [verdict EXCEPT ![pending] = "unknown"]
          /\ UNCHANGED <<ui, attempt, key, pending, reached, chunkOf, seen>>
       \/ /\ pending # NoKey /\ pending \notin expired
          /\ key' = pending
          /\ ui' = "attempt" /\ attempt' = 1 /\ reached' = FALSE
          /\ seen' = [seen EXCEPT !["writer"] = generation]
          /\ UNCHANGED <<pending, chunkOf, verdict>>
       \/ /\ pending = NoKey /\ Handed # Keys
          /\ key' = FreshKey /\ pending' = FreshKey
          /\ chunkOf' = [chunkOf EXCEPT ![FreshKey] = chunk]
          /\ ui' = "attempt" /\ attempt' = 1 /\ reached' = FALSE
          /\ seen' = [seen EXCEPT !["writer"] = generation]
          /\ UNCHANGED verdict
    /\ UNCHANGED <<kind, expired, chunk, session, netVars, procVars, generation, inFlight, recovery, reads>>

\* The call ends: the user is told v, and the pending key is dropped or kept.
\* A plain refusal after "unknown" retracts it, and says of the earlier request
\* what this one cannot know.
FinishCall(v, drop) ==
    /\ ui' = "idle"
    /\ verdict' = [verdict EXCEPT ![key] = IF v = "refused" /\ @ = "unknown" THEN "retracted" ELSE v]
    /\ pending' = IF drop /\ pending = key THEN NoKey ELSE pending
    /\ chunk' = IF v = "ok" THEN chunk + 1 ELSE chunk
    /\ UNCHANGED <<kind, attempt, key, expired, reached, chunkOf, calls>>

Transport == {"notSent", "lost"}
Definite == {"ctx", "gone", "refused"}
MayHaveReached(r) == r = "lost"

WriteOutcomeTrusting(r) ==
    \/ r = "ok" /\ FinishCall("ok", TRUE)
    \/ r \in Definite /\ FinishCall("refused", TRUE)
    \/ r = "failed" /\ FinishCall("unknown", FALSE)
WriteOutcome(r) ==
    \/ attempt = 1 /\ r = "ok" /\ FinishCall("ok", TRUE)
    \/ attempt = 1 /\ r \in Definite /\ FinishCall("refused", TRUE)
    \/ attempt = 1 /\ r = "failed" /\ FinishCall("unknown", FALSE)
    \/ attempt = 2 /\ r = "ok" /\ FinishCall("ok", TRUE)
    \/ attempt = 2 /\ reached /\ r \notin Transport \cup {"ok"} /\ FinishCall("unknown", r = "gone")
    \/ attempt = 2 /\ ~reached /\ r \in Definite /\ FinishCall("refused", TRUE)
    \/ attempt = 2 /\ ~reached /\ r = "failed" /\ FinishCall("unknown", FALSE)

ConnectOutcome(r) == r \notin Transport /\ FinishCall(IF r = "ok" THEN "ok" ELSE "refused", TRUE)

\* One request of the call came back as r.
Outcome(r) ==
    \/ /\ r \in Transport /\ attempt = 1
       /\ reached' = MayHaveReached(r)
       /\ ui' = "recover" /\ recovery' = [recovery EXCEPT !["writer"] = "enter"]
       /\ UNCHANGED <<kind, attempt, key, pending, expired, chunk, chunkOf, session, verdict, calls>>
    \/ /\ r \in Transport /\ attempt = 2
       /\ IF reached \/ MayHaveReached(r) THEN FinishCall("unknown", FALSE) ELSE FinishCall("refused", TRUE)
       /\ UNCHANGED <<session, recovery>>
    \/ /\ r \notin Transport
       /\ IF kind = "write" THEN WriteOutcome(r) ELSE ConnectOutcome(r)
       /\ session' = (session /\ r # "gone" /\ ~(kind = "connect" /\ r = "ok"))
       /\ UNCHANGED recovery

\* Client.call: the dial fails or is cancelled, or the request is written,
\* whole or in part; a part never becomes a request in the Core.
Dial ==
    /\ ui = "attempt"
    /\ \/ Outcome("notSent") /\ UNCHANGED netVars
       \/ Outcome("ctx") /\ UNCHANGED netVars
       \/ /\ sent < MaxRequests
          /\ sent' = sent + 1
          /\ request' = [request EXCEPT ![sent + 1] = [key |-> key, at |-> IF alive THEN "queued" ELSE "dead"]]
          /\ ui' = "await"
          /\ UNCHANGED <<kind, attempt, key, pending, expired, reached, chunk, chunkOf, session, verdict, calls, recovery>>
    /\ UNCHANGED <<procVars, generation, inFlight, seen, reads>>

Answers == {"ok", "failed", "refused", "gone"}
ReadResponse ==
    /\ ui = "await"
    /\ \/ Outcome("lost")
       \/ request[sent].at \in Answers /\ Outcome(request[sent].at)
    /\ UNCHANGED <<netVars, procVars, generation, inFlight, seen, reads>>

\* expiresAt passes.  Only prepare reads it, so a call that already has the key
\* goes on under it; the call that a key was made for is over long before.
ReplayWindowEnds ==
    /\ pending # NoKey /\ pending \notin expired /\ verdict[pending] = "unknown"
    /\ expired' = expired \cup {pending}
    /\ UNCHANGED <<kind, ui, attempt, key, pending, reached, chunk, chunkOf, session, verdict, calls,
                   netVars, procVars, recoveryVars>>

-----------------------------------------------------------------------------
(* recoverOnce, run by the call and by the terminal reader.                 *)

Recovered(p, ok) ==
    IF p = "reader" THEN UNCHANGED uiVars
    ELSE IF ok
    THEN /\ ui' = "attempt" /\ attempt' = 2
         /\ UNCHANGED <<kind, key, pending, expired, reached, chunk, chunkOf, session, verdict, calls>>
    ELSE /\ IF reached THEN FinishCall("unknown", FALSE) ELSE FinishCall("refused", TRUE)
         /\ UNCHANGED session

ReadFindsCoreGone ==
    /\ recovery["reader"] = "none" /\ reads < MaxReads /\ ~alive
    /\ reads' = reads + 1
    /\ recovery' = [recovery EXCEPT !["reader"] = "enter"]
    /\ seen' = [seen EXCEPT !["reader"] = generation]
    /\ UNCHANGED <<uiVars, netVars, procVars, generation, inFlight>>

EnterRecovery(p) ==
    /\ recovery[p] = "enter"
    /\ \/ /\ generation # seen[p]
          /\ recovery' = [recovery EXCEPT ![p] = "none"]
          /\ Recovered(p, TRUE)
          /\ UNCHANGED inFlight
       \/ /\ generation = seen[p] /\ inFlight # "nobody"
          /\ recovery' = [recovery EXCEPT ![p] = "waiting"]
          /\ UNCHANGED <<uiVars, inFlight>>
       \/ /\ generation = seen[p] /\ inFlight = "nobody"
          /\ inFlight' = p
          /\ recovery' = [recovery EXCEPT ![p] = "probing"]
          /\ UNCHANGED uiVars
    /\ UNCHANGED <<netVars, procVars, generation, seen, reads>>

\* ensureLocalCore: a Core that answers is left alone, one that does not is
\* launched; the wait for it ends well, or by its own or the caller's deadline.
\* A launch beside a Core that was only slow to answer finds the endpoint taken
\* and changes nothing.
LaunchCore(p) ==
    /\ recovery[p] = "probing"
    /\ alive' = TRUE
    /\ UNCHANGED <<uiVars, netVars, conn, table, times, crashes, recoveryVars>>

\* The party that recovered leaves, and those that waited for it go on with its
\* result; a caller that gave up leaves its turn to the others.
EndRecovery(p, result) ==
    LET waiting == {q \in Parties : recovery[q] = "waiting"}
        ok == result = "ok"
    IN /\ recovery[p] = "probing"
       /\ ok => alive
       /\ generation' = IF ok THEN generation + 1 ELSE generation
       /\ inFlight' = "nobody"
       /\ recovery' = [q \in Parties |->
             IF q = p THEN "none"
             ELSE IF q \notin waiting THEN recovery[q]
             ELSE IF result = "cancelled" THEN "enter" ELSE "none"]
       /\ IF p = "writer" \/ ("writer" \in waiting /\ result # "cancelled")
          THEN Recovered("writer", ok) ELSE UNCHANGED uiVars
       /\ UNCHANGED <<netVars, procVars, seen, reads>>

-----------------------------------------------------------------------------
(* The Core: requests against the replay table.                             *)

Answer(n, r) == request' = [request EXCEPT ![n].at = r]

\* What is left of the table after the pruning of some keys that are over: an
\* outcome is retained for the window, counted from its completion and so until
\* after the window that the UI counts from its first call.
PrunedTable(over) == [k \in Keys |-> IF k \in over THEN "none" ELSE table[k]]

\* begin: keys that are over are pruned; then a known key is followed, a new one
\* is led by this request unless the table or the terminal refuses it.
BeginRequest(n) ==
    LET k == request[n].key IN
    /\ request[n].at = "queued"
    /\ \E over \in SUBSET {j \in expired : table[j] \in Answers} :
         \/ /\ PrunedTable(over)[k] \in Answers /\ Answer(n, table[k]) /\ table' = PrunedTable(over)
         \/ /\ PrunedTable(over)[k] = "running" /\ Answer(n, "following") /\ table' = PrunedTable(over)
         \/ /\ PrunedTable(over)[k] = "none" /\ Answer(n, "refused") /\ table' = PrunedTable(over)
         \/ /\ PrunedTable(over)[k] = "none" /\ Answer(n, "leading")
            /\ table' = [PrunedTable(over) EXCEPT ![k] = "running"]
    /\ UNCHANGED <<uiVars, sent, alive, conn, times, crashes, recoveryVars>>

\* A follower is given the leader's outcome, starts again when it was not kept,
\* or gives up at its own deadline.
FollowRequest(n) ==
    LET k == request[n].key IN
    /\ request[n].at = "following"
    /\ \/ table[k] \in Answers /\ Answer(n, table[k])
       \/ table[k] = "none" /\ Answer(n, "queued")
       \/ table[k] = "running" /\ Answer(n, "failed")
    /\ UNCHANGED <<uiVars, sent, procVars, recoveryVars>>

\* The mutation itself: terminal bytes go out, whole or as part of a failing
\* write; a Connect opens a connection, or fails and leaves none.
Perform(n) ==
    LET k == request[n].key
        done == [times EXCEPT ![k] = @ + 1]
    IN /\ request[n].at = "leading"
       /\ \/ kind = "write" /\ ~conn /\ Answer(n, "performed-gone") /\ UNCHANGED times
          \/ (kind = "write" => conn) /\ Answer(n, "performed-ok") /\ times' = done
          \/ kind = "write" /\ conn /\ Answer(n, "performed-failed") /\ times' \in {times, done}
          \/ kind = "connect" /\ Answer(n, "performed-failed") /\ UNCHANGED times
          \/ kind = "connect" /\ Answer(n, "performed-cancelled") /\ UNCHANGED times
       /\ UNCHANGED <<uiVars, sent, alive, conn, table, crashes, recoveryVars>>

Result(at) == CASE at = "performed-ok" -> "ok" [] at = "performed-gone" -> "gone" [] OTHER -> "failed"

CompleteKeepingSuccess(n) ==
    LET at == request[n].at IN
    /\ at \in {"performed-ok", "performed-failed", "performed-gone", "performed-cancelled"}
    /\ table' = [table EXCEPT ![request[n].key] = IF at = "performed-ok" THEN "ok" ELSE "none"]
    /\ Answer(n, Result(at))
    /\ UNCHANGED <<uiVars, sent, alive, conn, times, crashes, recoveryVars>>
\* complete: every outcome of a write is kept, a cancelled Connect is not.
CompleteRequest(n) ==
    LET at == request[n].at IN
    /\ at \in {"performed-ok", "performed-failed", "performed-gone", "performed-cancelled"}
    /\ table' = [table EXCEPT ![request[n].key] = IF at = "performed-cancelled" THEN "none" ELSE Result(at)]
    /\ Answer(n, Result(at))
    /\ UNCHANGED <<uiVars, sent, alive, conn, times, crashes, recoveryVars>>

\* The Core dies with its connections, its requests and its table; bytes that
\* went out stay out.
Crash ==
    /\ alive /\ crashes < MaxCrashes
    /\ crashes' = crashes + 1
    /\ alive' = FALSE /\ conn' = FALSE
    /\ table' = [k \in Keys |-> "none"]
    /\ times' = IF kind = "write" THEN times ELSE [k \in Keys |-> 0]
    /\ request' = [n \in CoreRequests |->
          IF request[n].at \in Answers \cup {"none"} THEN request[n] ELSE [request[n] EXCEPT !.at = "dead"]]
    /\ UNCHANGED <<uiVars, sent, recoveryVars>>

-----------------------------------------------------------------------------
CallStep == Dial \/ ReadResponse
RecoveryStep(p) == EnterRecovery(p) \/ LaunchCore(p) \/ \E result \in {"ok", "failed", "cancelled"} : EndRecovery(p, result)
RequestStep(n) == BeginRequest(n) \/ FollowRequest(n) \/ Perform(n) \/ CompleteRequest(n)
RecoveryNext ==
    \/ PrepareRequest \/ CallStep \/ ReplayWindowEnds \/ ReadFindsCoreGone \/ Crash
    \/ \E p \in Parties : RecoveryStep(p)
    \/ \E n \in CoreRequests : RequestStep(n)

\* Calls carry deadlines, ensureLocalCore is bounded and the Core's requests run.
RecoveryFairness ==
    /\ WF_recVars(CallStep)
    /\ \A p \in Parties : WF_recVars(RecoveryStep(p))
    /\ \A n \in CoreRequests : WF_recVars(RequestStep(n))

RecoverySpec == RecoveryInit /\ [][RecoveryNext]_recVars

-----------------------------------------------------------------------------
(* Properties.                                                              *)

\* Each variable of the call, the Core and the recovery holds one of its values;
\* the window has an operation under way only while it holds its key.
RecoveryTypeOK ==
    /\ kind \in {"write", "connect"} /\ ui \in {"idle", "attempt", "await", "recover"} /\ attempt \in {1, 2}
    /\ key \in 0..MaxKeys /\ pending \in 0..MaxKeys /\ expired \subseteq Keys /\ {reached, session, alive, conn} \subseteq BOOLEAN
    /\ table \in [Keys -> Answers \cup {"none", "running"}]
    /\ times \in [Keys -> Nat]
    /\ generation \in Nat /\ inFlight \in Parties \cup {"nobody"}
    /\ recovery \in [Parties -> {"none", "enter", "waiting", "probing"}]
    /\ ui # "idle" => key # NoKey /\ pending = key

\* Calls, retries, followers and restarts implement OnceOnly: whatever is lost
\* or repeated on the way, the mutation of a replay key takes effect once within
\* its window, "done" is said only of input that went out, and "refused", unless
\* it retracts an "unknown", only of input that did not and never will.
Once == INSTANCE OnceOnly WITH lasting <- kind = "write", effects <- times, over <- expired
KeysTakeEffectOnce == Once!OnceSpec

\* Within its replay window no key's mutation takes effect a second time, in
\* particular when a request that timed out still runs in the Core while its
\* retry arrives.
NoSecondEffect == \A k \in Keys : times[k] > 1 => k \in expired

\* What docs/WINDOWS_GUI_PROTOTYPE.md says of replay keys: an input goes out
\* once, because an unresolved one keeps its key and a repetition whose window
\* is over fails closed.
InputOnce ==
    kind = "write" =>
        \A j, k \in Keys :
            times[j] > 0 /\ times[k] > 0 /\ chunkOf[j] = chunkOf[k] => j = k /\ times[k] = 1

\* One recovery runs at a time, and its owner is the party that runs it: the
\* reader and the call never launch a Core each.
OneRecovery ==
    /\ {p \in Parties : recovery[p] = "probing"} = (IF inFlight = "nobody" THEN {} ELSE {inFlight})
    /\ (\E p \in Parties : recovery[p] = "waiting") => inFlight # "nobody"

\* Every call of the window returns, whatever the Core does meanwhile.
CallReturns == []<>(ui = "idle")

\* What two requests, or two parties, attempt at the same time happens once.
RepeatsAreHarmless == NoSecondEffect /\ OneRecovery
=============================================================================
