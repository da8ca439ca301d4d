---------------------------- MODULE DeviceProofs ----------------------------
(***************************************************************************)
(* Proofs about the components of a device that MCDevice puts together:    *)
(* Pairing (any number of pairings, revocations, peers and secrets),       *)
(* UpdateState (any number of updaters, releases and deaths), RoutedDial   *)
(* (any routers, candidates, endpoints and edits of the trust files) and   *)
(* AgentLifecycle (any configurations of the listeners, connection limits, *)
(* relay slots and caps of their waits).                                   *)
(***************************************************************************)
EXTENDS MCDevice, SequenceTheorems, TLAPS

(***************************************************************************)
(* Pairing and the trust store.                                            *)
(***************************************************************************)

----------------------------------------------------------------------------
(* Type correctness.                                                       *)

\* Only handlePair checks and invalidates a secret: revocations never do.
OnlyPairingsCheck == \A e \in Editors : pc[e] \in {"checking", "checked"} => e \in Pairings /\ presented[e] \in Secrets

PairingTypes == TypeOK /\ OnlyPairingsCheck

\* Each action keeps the types.
LEMMA PairingTypeStep == PairingTypes /\ [Next]_vars => PairingTypes'
<1> SUFFICES ASSUME PairingTypes, [Next]_vars PROVE PairingTypes'
  OBVIOUS
<1> USE PairingAssumption DEF PairingTypes, TypeOK, OnlyPairingsCheck, Go, secretVars, editorVars
<1>1. ASSUME NEW s \in Secrets, BeginRotation(s) PROVE PairingTypes'
  BY <1>1 DEF BeginRotation
<1>2. CASE EndRotation
  BY <1>2 DEF EndRotation
<1>3. ASSUME NEW e \in Editors, NEW s \in Secrets, Request(e, s) PROVE PairingTypes'
  BY <1>3 DEF Request
<1>4. ASSUME NEW e \in Editors, Revoke(e) PROVE PairingTypes'
  BY <1>4 DEF Revoke
<1>5. ASSUME NEW e \in Editors, Check(e) PROVE PairingTypes'
  BY <1>5 DEF Check
<1>6. ASSUME NEW e \in Editors, Invalidate(e) PROVE PairingTypes'
  BY <1>6 DEF Invalidate
<1>7. ASSUME NEW e \in Editors, Acquire(e) PROVE PairingTypes'
  BY <1>7 DEF Acquire
<1>8. ASSUME NEW e \in Editors, Load(e) PROVE PairingTypes'
  BY <1>8 DEF Load
<1>9. ASSUME NEW e \in Editors, Save(e) PROVE PairingTypes'
  BY <1>9 DEF Save, Edited
<1>10. ASSUME NEW S, Crash(S) PROVE PairingTypes'
  BY <1>10 DEF Crash
<1>11. CASE UNCHANGED vars
  BY <1>11 DEF vars
<1>12. QED
  BY <1>1, <1>2, <1>3, <1>4, <1>5, <1>6, <1>7, <1>8, <1>9, <1>10, <1>11 DEF Next, EditorStep

\* Every value of the pairing code has its type, and the lock has one holder.
THEOREM PairingTypeCorrect == Spec => []TypeOK
<1>1. Init => PairingTypes
  BY PairingAssumption DEF Init, PairingTypes, TypeOK, OnlyPairingsCheck
<1>2. PairingTypes => TypeOK
  BY DEF PairingTypes
<1>3. QED
  BY <1>1, <1>2, PairingTypeStep, PTL DEF Spec

----------------------------------------------------------------------------
(* A secret is consumed before trust is added.                             *)

\* A secret is in one place: not generated, being written, or out.  What a
\* pairing has checked is out, so the rotation under way is not for it.
SecretPlaces ==
    /\ rotating \notin unused /\ rotating \notin spent /\ spent \cap unused = {}
    /\ secretFile \notin unused /\ (secretFile = rotating => rotating = NoSecret)
    /\ \A e \in Pairings : pc[e] = "checked" => presented[e] \notin unused /\ presented[e] # rotating

SecretInv == PairingTypes /\ SecretPlaces /\ ConsumedBeforeTrust

\* Each action keeps every secret in its place, and spent ones out of the file.
LEMMA SecretInvStep == SecretInv /\ [Next]_vars => SecretInv'
<1> SUFFICES ASSUME SecretInv, [Next]_vars PROVE SecretPlaces' /\ ConsumedBeforeTrust'
  BY PairingTypeStep DEF SecretInv
<1> USE PairingAssumption DEF SecretInv, PairingTypes, TypeOK, OnlyPairingsCheck, SecretPlaces,
        ConsumedBeforeTrust, Go, secretVars, editorVars, Editors
<1>1. ASSUME NEW s \in Secrets, BeginRotation(s) PROVE SecretPlaces' /\ ConsumedBeforeTrust'
  BY <1>1 DEF BeginRotation
<1>2. CASE EndRotation
  BY <1>2 DEF EndRotation
<1>3. ASSUME NEW e \in Editors, NEW s \in Secrets, Request(e, s)
      PROVE SecretPlaces' /\ ConsumedBeforeTrust'
  BY <1>3 DEF Request
<1>4. ASSUME NEW e \in Editors, Revoke(e) PROVE SecretPlaces' /\ ConsumedBeforeTrust'
  BY <1>4 DEF Revoke
<1>5. ASSUME NEW e \in Editors, Check(e) PROVE SecretPlaces' /\ ConsumedBeforeTrust'
  BY <1>5 DEF Check
<1>6. ASSUME NEW e \in Editors, Invalidate(e) PROVE SecretPlaces' /\ ConsumedBeforeTrust'
  BY <1>6 DEF Invalidate
<1>7. ASSUME NEW e \in Editors, Acquire(e) PROVE SecretPlaces' /\ ConsumedBeforeTrust'
  BY <1>7 DEF Acquire
<1>8. ASSUME NEW e \in Editors, Load(e) PROVE SecretPlaces' /\ ConsumedBeforeTrust'
  BY <1>8 DEF Load
<1>9. ASSUME NEW e \in Editors, Save(e) PROVE SecretPlaces' /\ ConsumedBeforeTrust'
  BY <1>9 DEF Save
<1>10. ASSUME NEW S, Crash(S) PROVE SecretPlaces' /\ ConsumedBeforeTrust'
  BY <1>10 DEF Crash
<1>11. CASE UNCHANGED vars
  BY <1>11 DEF vars
<1>12. QED
  BY <1>1, <1>2, <1>3, <1>4, <1>5, <1>6, <1>7, <1>8, <1>9, <1>10, <1>11 DEF Next, EditorStep

\* handlePair consumes the secret before it adds trust, and no rotation or
\* crash brings a consumed secret back.
THEOREM SecretConsumed == Spec => []ConsumedBeforeTrust
<1>1. Init => SecretInv
  BY PairingAssumption
     DEF Init, SecretInv, PairingTypes, TypeOK, OnlyPairingsCheck, SecretPlaces, ConsumedBeforeTrust, Editors
<1>2. SecretInv => ConsumedBeforeTrust
  BY DEF SecretInv
<1>3. QED
  BY <1>1, <1>2, SecretInvStep, PTL DEF Spec

----------------------------------------------------------------------------
(* No edit of the store is lost.                                           *)

\* Who has read the file holds the lock, and the file is still what it read.
SnapshotsCurrent ==
    \A e \in Editors :
        /\ pc[e] \in {"loading", "saving"} => lock = {e}
        /\ pc[e] = "saving" => loaded[e] = disk

LockInv == PairingTypes /\ SnapshotsCurrent

\* Each action keeps the snapshot of the lock's holder current.
LEMMA LockInvStep == LockInv /\ [Next]_vars => LockInv'
<1> SUFFICES ASSUME LockInv, [Next]_vars PROVE SnapshotsCurrent'
  BY PairingTypeStep DEF LockInv
<1> USE PairingAssumption DEF LockInv, PairingTypes, TypeOK, SnapshotsCurrent, Go, secretVars, editorVars
<1>1. ASSUME NEW s \in Secrets, BeginRotation(s) PROVE SnapshotsCurrent'
  BY <1>1 DEF BeginRotation
<1>2. CASE EndRotation
  BY <1>2 DEF EndRotation
<1>3. ASSUME NEW e \in Editors, NEW s \in Secrets, Request(e, s) PROVE SnapshotsCurrent'
  BY <1>3 DEF Request
<1>4. ASSUME NEW e \in Editors, Revoke(e) PROVE SnapshotsCurrent'
  BY <1>4 DEF Revoke
<1>5. ASSUME NEW e \in Editors, Check(e) PROVE SnapshotsCurrent'
  BY <1>5 DEF Check
<1>6. ASSUME NEW e \in Editors, Invalidate(e) PROVE SnapshotsCurrent'
  BY <1>6 DEF Invalidate
<1>7. ASSUME NEW e \in Editors, Acquire(e) PROVE SnapshotsCurrent'
  BY <1>7 DEF Acquire
<1>8. ASSUME NEW e \in Editors, Load(e) PROVE SnapshotsCurrent'
  BY <1>8 DEF Load
<1>9. ASSUME NEW e \in Editors, Save(e) PROVE SnapshotsCurrent'
  BY <1>9 DEF Save
<1>10. ASSUME NEW S, Crash(S) PROVE SnapshotsCurrent'
  BY <1>10 DEF Crash
<1>11. CASE UNCHANGED vars
  BY <1>11 DEF vars
<1>12. QED
  BY <1>1, <1>2, <1>3, <1>4, <1>5, <1>6, <1>7, <1>8, <1>9, <1>10, <1>11 DEF Next, EditorStep

\* One peer is added or removed by a write of the store's file.
OnePeer == \E p \in Peers : disk' = disk \cup {p} \/ disk' = disk \ {p}

\* Only Save writes the file, from a snapshot that is current.
LEMMA EditIsOnePeer == LockInv /\ [Next]_vars => [OnePeer]_disk
<1> SUFFICES ASSUME LockInv, [Next]_vars, disk' # disk PROVE OnePeer
  OBVIOUS
<1>1. PICK e \in Editors : Save(e)
  BY DEF Next, EditorStep, vars, BeginRotation, EndRotation, Request, Revoke, Check, Invalidate,
         Acquire, Load, Crash
<1>2. disk' = Edited(e) /\ loaded[e] = disk /\ target[e] \in Peers
  BY <1>1 DEF Save, LockInv, SnapshotsCurrent, PairingTypes, TypeOK
<1>3. QED
  BY <1>2 DEF OnePeer, Edited

\* No pairing or revocation overwrites an edit of another process.
THEOREM EditsAreKept == Spec => NoLostEdit
<1>1. Init => LockInv
  BY PairingAssumption DEF Init, LockInv, PairingTypes, TypeOK, OnlyPairingsCheck, SnapshotsCurrent
<1>2. QED
  BY <1>1, LockInvStep, EditIsOnePeer, PTL DEF Spec, NoLostEdit, OnePeer

(***************************************************************************)
(* The update state.                                                       *)
(***************************************************************************)

-----------------------------------------------------------------------------
(* Where ApplyVerifiedInstaller is, the lock is held; everything else that  *)
(* is said of an updater rests on this mutual exclusion.                    *)

Locked == {"locked", "admitted", "verified", "extracted", "executing", "done"}

HolderIsAlone == \A u \in Updaters : at[u] \in Locked => applyLock = u

\* What Execute has run is installed until the sequence is committed.
DoneIsInstalled == \A u \in Updaters : at[u] = "done" => installed = package[u]

UpdateInv == UpdateTypeOK /\ HolderIsAlone /\ AdmittedOnly /\ DoneIsInstalled

\* Each action keeps the lock exclusive and the holder's view of the state file.
LEMMA UpdateInvStep == UpdateInv /\ [UpdateNext]_updateVars => UpdateInv'
<1> SUFFICES ASSUME UpdateInv, [UpdateNext]_updateVars PROVE UpdateInv'
  OBVIOUS
<1> USE UpdateStateAssumption
    DEF UpdateInv, UpdateTypeOK, HolderIsAlone, Locked, AdmittedOnly, ExecutesAdmitted,
        AdmissionHolds, DoneIsInstalled, Moves, Forgets, Ends, Returns, channelVars, callVars, updaterVars
<1>0. \A m \in 0..MaxRelease : Whole(m) \in Packages
  BY DEF Packages, Whole
<1>1. CASE Publish
  BY <1>1 DEF Publish
<1>2. ASSUME NEW u \in Updaters, FetchManifest(u) PROVE UpdateInv'
  BY <1>2 DEF FetchManifest
<1>3. ASSUME NEW u \in Updaters, FetchSignature(u) PROVE UpdateInv'
  BY <1>0, <1>3 DEF FetchSignature
<1>4. ASSUME NEW u \in Updaters, Stage(u) PROVE UpdateInv'
  BY <1>0, <1>4 DEF Stage
<1>5. ASSUME NEW u \in Updaters, ArchiveReplaced(u) PROVE UpdateInv'
  BY <1>5 DEF ArchiveReplaced, Packages
<1>6. ASSUME NEW u \in Updaters, AcquireUpdateLock(u) PROVE UpdateInv'
  BY <1>0, <1>6 DEF AcquireUpdateLock, LockFree
<1>7. ASSUME NEW u \in Updaters, Admit(u) PROVE UpdateInv'
  BY <1>0, <1>7 DEF Admit
<1>8. ASSUME NEW u \in Updaters, VerifyStagedInstaller(u) PROVE UpdateInv'
  BY <1>0, <1>8 DEF VerifyStagedInstaller
<1>9. ASSUME NEW u \in Updaters, ExtractInstallerPackage(u) PROVE UpdateInv'
  BY <1>9 DEF ExtractInstallerPackage
<1>10. ASSUME NEW u \in Updaters, VerifyExtracted(u) PROVE UpdateInv'
  BY <1>0, <1>10 DEF VerifyExtracted, VerifyInstallerVersion, VerifyPackage
<1>11. ASSUME NEW u \in Updaters, Execute(u) PROVE UpdateInv'
  BY <1>0, <1>11 DEF Execute
<1>12. ASSUME NEW u \in Updaters, SaveState(u) PROVE UpdateInv'
  BY <1>0, <1>12 DEF SaveState
<1>13. ASSUME NEW u \in Updaters, UpdaterDies(u) PROVE UpdateInv'
  BY <1>0, <1>13 DEF UpdaterDies
<1>14. CASE UNCHANGED updateVars
  BY <1>14 DEF updateVars
<1>15. QED
  BY <1>1, <1>2, <1>3, <1>4, <1>5, <1>6, <1>7, <1>8, <1>9, <1>10, <1>11, <1>12, <1>13, <1>14
     DEF UpdateNext, UpdaterStep, ApplyStep

\* No updater has begun anything.
LEMMA UpdateInvInit == UpdateInit => UpdateInv
BY UpdateStateAssumption
   DEF UpdateInit, UpdateInv, UpdateTypeOK, Packages, Whole, HolderIsAlone, Locked, AdmittedOnly, ExecutesAdmitted,
       AdmissionHolds, DoneIsInstalled

\* Every value of the updater is in its range.
THEOREM UpdateTypeCorrect == UpdateSpec => []UpdateTypeOK
<1>1. UpdateInv => UpdateTypeOK
  BY DEF UpdateInv
<1>2. QED
  BY <1>1, UpdateInvInit, UpdateInvStep, PTL DEF UpdateSpec

\* ApplyVerifiedInstaller runs only signed files under the version it admitted,
\* against a state file that no other process changes before the commit.
THEOREM OnlyAdmittedRuns == UpdateSpec => []AdmittedOnly
<1>1. UpdateInv => AdmittedOnly
  BY DEF UpdateInv
<1>2. QED
  BY <1>1, UpdateInvInit, UpdateInvStep, PTL DEF UpdateSpec

\* What CommittedWasInstalled says of one step.
Commit == /\ sequenceFile' > sequenceFile
          /\ installed.files # 0 /\ installed.version = sequenceFile'

\* saveState alone writes the state file, for an updater whose release is newer
\* and whose package is installed.
LEMMA CommitStep == UpdateInv /\ [UpdateNext]_updateVars => [Commit]_sequenceFile
<1> SUFFICES ASSUME UpdateInv, [UpdateNext]_updateVars, sequenceFile' # sequenceFile PROVE Commit
  OBVIOUS
<1>1. PICK u \in Updaters : SaveState(u)
  BY DEF UpdateNext, UpdaterStep, ApplyStep, updateVars, Publish, FetchManifest, FetchSignature, Stage,
         ArchiveReplaced, AcquireUpdateLock, Admit, VerifyStagedInstaller, ExtractInstallerPackage,
         VerifyExtracted, Execute, UpdaterDies
<1>2. at[u] = "done" /\ sequenceFile' = manifest[u]
  BY <1>1 DEF SaveState, Returns, Ends, Moves
<1>3. manifest[u] > sequenceFile /\ installed.files # 0 /\ installed.version = manifest[u]
  BY <1>2 DEF UpdateInv, AdmittedOnly, ExecutesAdmitted, AdmissionHolds, DoneIsInstalled
<1>4. QED
  BY <1>2, <1>3 DEF Commit

\* The accepted sequence only rises, to that of the signed package that is
\* installed.
THEOREM CommitsInstalled == UpdateSpec => CommittedWasInstalled
BY UpdateInvInit, UpdateInvStep, CommitStep, PTL DEF UpdateSpec, CommittedWasInstalled, Commit

(***************************************************************************)
(* The routed dial.                                                        *)
(***************************************************************************)

\* A candidate of the policy has a router and a cost.
LEMMA CandidateFacts ==
    /\ Len(Candidates) \in Nat
    /\ \A i \in 1..Len(Candidates) : Candidates[i].router \in Routers /\ Candidates[i].cost \in Nat
<1>1. Candidates \in Seq([router : Routers, cost : Nat])
  BY DialAssumption
<1>2. \A i \in 1..Len(Candidates) : Candidates[i] \in [router : Routers, cost : Nat]
  BY <1>1, ElementOfSeq
<1>3. QED
  BY <1>1, <1>2

-----------------------------------------------------------------------------
(* The inductive invariant.                                                 *)

Unrouted == {"consider", "considering", "local", "grant", "dial"}
Checked == {"authorize", "validate", "resolve", "connect", "handshake", "open", "inner"}
Routed == {"routed", "checkTrust"} \cup Checked
\* The source has no link yet.
Unlinked == {"begin", "routed", "checkTrust", "authorize", "validate", "resolve", "connect"} \cup Unrouted

\* The types of what DialTypeOK leaves to its readers.
FilesTyped ==
    /\ asker \in {"core", "command"} /\ locator \in Endpoints
    /\ trusts \in [TrustRoles -> SUBSET Routers] /\ edits \in Nat
    /\ dialing \in {"begin", "connected", "failed"} \cup Unrouted \cup Routed
    /\ reply \in {"none", "accepted", "rejected"}

\* The attempt's place says what it may hold: a router, a path, a grant, a link.
PlaceSays ==
    /\ dialing = "begin" /\ asker = "core" => via = NoRouter
    /\ dialing \in {"consider", "considering"} => asker = "core"
    /\ dialing \in Unrouted => via = NoRouter
    /\ dialing \in Routed => via \in Routers
    /\ dialing \in {"begin", "consider", "considering", "local", "routed", "checkTrust"} => usedPath = "none"
    /\ dialing \in {"grant", "dial"} => usedPath \in {"lan", "direct", "relay"}
    /\ dialing \in Checked => usedPath = "routed"
    /\ dialing \in Unlinked => outer = "none"
    /\ dialing = "handshake" => outer = "raw"
    /\ dialing = "open" => outer \in {"link", "closed"}
    /\ dialing = "inner" => outer = "link" /\ reply = "accepted"
    /\ dialing = "connected" => \/ via = NoRouter /\ usedPath # "routed"
                                \/ via # NoRouter /\ usedPath = "routed" /\ outer = "link" /\ reply = "accepted"
    /\ dialing = "failed" => outer \in {"none", "closed"}

\* Each party's check has left its mark: none is skipped.
ChecksDone ==
    /\ dialing = "connect" => "SourceRouters" \in ever
    /\ RevokedNotDialed
    /\ dialing \in {"open", "inner"} => "RouterSources" \in ever
    /\ dialing = "open" /\ tunnel \in {"handshake", "open"} => "RouterDestinations" \in ever
    /\ reply = "accepted" => tunnel \in {"open", "closed"} /\ (dialing # "failed" => ever = TrustRoles)
    /\ reply = "accepted" => dialing \in {"open", "inner", "connected", "failed"}
    /\ tunnel # "none" => dialing \in {"open", "inner", "connected", "failed"}

\* Among the candidates already looked at, none that stayed trusted is cheaper.
ChoiceSoFar ==
    /\ dialing \in {"begin", "consider"} => looked = 0
    /\ steady \subseteq trusts["SourceRouters"]
    /\ \A i \in 1..looked : Candidates[i].router \in steady => pick > 0 /\ Candidates[pick].cost <= Candidates[i].cost
    /\ asker = "core" /\ via # NoRouter => looked = Len(Candidates)

\* Where the attempt is, apart from the choice of the router.
AttemptInv == DialTypeOK /\ FilesTyped /\ PlaceSays /\ ChecksDone

DialInv == AttemptInv /\ ChoiceSoFar

-----------------------------------------------------------------------------
\* The attempt begins with every invariant.
LEMMA DialInvInit == DialInit => DialInv
<1> SUFFICES ASSUME DialInit PROVE DialInv
  OBVIOUS
<1> USE DialAssumption DEF DialInit, TrustRoles, Unrouted, Checked, Routed, Unlinked
<1>1. relayGrant \in BOOLEAN /\ (relayGrant => usedPath = "relay")
  BY Zenon
<1>2. DialTypeOK
  BY <1>1, CandidateFacts DEF DialTypeOK
<1>3. FilesTyped
  BY DEF FilesTyped
<1>4. PlaceSays /\ ChecksDone
  BY DEF PlaceSays, ChecksDone, RevokedNotDialed
<1>5. ChoiceSoFar
  BY DEF ChoiceSoFar
<1>6. QED
  BY <1>2, <1>3, <1>4, <1>5 DEF DialInv, AttemptInv

\* Every step of the source, the routers and the operators keeps each place's part.
LEMMA AttemptInvStep == DialInv /\ [DialNextState]_dialVars => AttemptInv'
<1> SUFFICES ASSUME DialInv, [DialNextState]_dialVars PROVE AttemptInv'
  OBVIOUS
<1> USE DialAssumption
    DEF DialInv, AttemptInv, DialTypeOK, FilesTyped, PlaceSays, ChecksDone, RevokedNotDialed, TrustRoles, Unrouted,
        Checked, Routed, Unlinked, Holding, Goes, Fails, Unmoved, placeVars, fileState, choiceVars, linkVars, historyVars
<1>1. CASE FindPeer
  BY <1>1 DEF FindPeer
<1>2. CASE RunConnect
  BY <1>2 DEF RunConnect, OpenRoutedSourceRouterTrust
<1>3. CASE BeginRouteRequest
  BY <1>3 DEF BeginRouteRequest, LoadRouteSelectionPolicy
<1>4. CASE ConsiderCandidate
  BY <1>4 DEF ConsiderCandidate, Cheaper
<1>5. CASE EndRouteRequest
  BY <1>5, CandidateFacts DEF EndRouteRequest
<1>6. CASE SelectNonRoutedPath
  BY <1>6 DEF SelectNonRoutedPath, LocatorPath
<1>7. CASE ObtainGrant
  <2>1. relayGrant' \in BOOLEAN /\ (relayGrant' => usedPath' = "relay")
    <3>1. usedPath' = usedPath /\ (relayGrant' = WebRelayGrant \/ relayGrant' = relayGrant)
      BY <1>7 DEF ObtainGrant
    <3>2. WebRelayGrant \in BOOLEAN /\ (WebRelayGrant => usedPath = "relay")
      BY DEF WebRelayGrant
    <3>3. CASE relayGrant' = WebRelayGrant
      BY <3>1, <3>2, <3>3
    <3>4. CASE relayGrant' = relayGrant
      BY <3>1, <3>4
    <3>5. QED
      BY <3>1, <3>3, <3>4
  <2>2. QED
    BY <1>7, <2>1 DEF ObtainGrant
<1>8. CASE DialPeer
  BY <1>8 DEF DialPeer
<1>9. CASE OpenRouted
  BY <1>9 DEF OpenRouted
<1>10. CASE CheckRouterTrust
  BY <1>10 DEF CheckRouterTrust
<1>11. CASE AuthorizeRoute
  BY <1>11 DEF AuthorizeRoute
<1>12. CASE ValidateRoutedResult
  BY <1>12 DEF ValidateRoutedResult
<1>13. CASE ResolveRouter
  BY <1>13 DEF ResolveRouter
<1>13b. CASE ConnectRouter
  BY <1>13b DEF ConnectRouter
<1>14. CASE DialRouteControlLink
  BY <1>14 DEF DialRouteControlLink, AcceptTrustedLink
<1>15. CASE OpenRoutedTunnel
  BY <1>15 DEF OpenRoutedTunnel
<1>16. CASE InnerHandshake
  BY <1>16 DEF InnerHandshake
<1>17. CASE AuthorizeForward
  BY <1>17 DEF AuthorizeForward, RouterServes
<1>18. CASE DialNext
  BY <1>18 DEF DialNext
<1>19. CASE ServeRouteTunnel
  <2>1. CASE IngressAccepts /\ Goes("open") /\ tunnel' = "open" /\ reply' = "accepted"
    <3>1. ever' = TrustRoles
      BY <1>19, <2>1 DEF ServeRouteTunnel, IngressAccepts, AcceptTrustedLink
    <3>2. QED
      BY <1>19, <2>1, <3>1 DEF ServeRouteTunnel
  <2>2. CASE tunnel' = "none" /\ reply' = "rejected" /\ UNCHANGED <<dialing, historyVars>>
    BY <1>19, <2>2 DEF ServeRouteTunnel
  <2>3. QED
    BY <1>19, <2>1, <2>2 DEF ServeRouteTunnel
<1>20. CASE TunnelEnds
  BY <1>20 DEF TunnelEnds
<1>21. CASE OpenDeadline
  BY <1>21 DEF OpenDeadline
<1>22. CASE RouteExpires
  BY <1>22 DEF RouteExpires
<1>23. CASE EditPolicy
  BY <1>23 DEF EditPolicy, Edits
<1>24. ASSUME NEW role \in TrustRoles, NEW r \in Routers, AddRouteRouterTrust(role, r) PROVE AttemptInv'
  BY <1>24 DEF AddRouteRouterTrust, Edits
<1>25. ASSUME NEW role \in TrustRoles, NEW r \in Routers, RevokeRouteRouterTrust(role, r) PROVE AttemptInv'
  BY <1>25 DEF RevokeRouteRouterTrust, Edits
<1>26. CASE UNCHANGED dialVars
  BY <1>26 DEF dialVars
<1>27. QED
  BY <1>1, <1>2, <1>3, <1>4, <1>5, <1>6, <1>7, <1>8, <1>9, <1>10, <1>11, <1>12, <1>13, <1>13b, <1>14, <1>15, <1>16,
     <1>17, <1>18, <1>19, <1>20, <1>21, <1>22, <1>23, <1>24, <1>25, <1>26
     DEF DialNextState, SourceStep, RouterStep

\* What the choice rests on stays as it is, and the attempt is not set back.
LEMMA ChoiceKept ==
    ASSUME ChoiceSoFar, UNCHANGED <<looked, pick, via, asker, steady, trusts>>,
           dialing' \in {"begin", "consider"} => looked = 0
    PROVE  ChoiceSoFar'
BY DEF ChoiceSoFar

\* Of the candidates seen so far none that stayed trusted becomes cheaper: an
\* edit of the trust file takes a router from those that stayed, and
\* RouteRequest sees each candidate's router as it is.
LEMMA ChoiceStep == DialInv /\ [DialNextState]_dialVars => ChoiceSoFar'
<1> SUFFICES ASSUME DialInv, [DialNextState]_dialVars PROVE ChoiceSoFar'
  OBVIOUS
<1> USE DEF DialInv, AttemptInv, Goes, Fails, Unmoved, placeVars, fileState, choiceVars, linkVars, historyVars
<1>1. CASE FindPeer \/ RunConnect
  <2>1. looked = 0
    BY <1>1 DEF FindPeer, RunConnect, ChoiceSoFar
  <2>2. QED
    BY <1>1, <2>1, ChoiceKept DEF FindPeer, RunConnect
<1>2. CASE BeginRouteRequest
  <2>1. looked = 0 /\ looked' = 0 /\ asker' = asker /\ via' = via /\ via = NoRouter
    BY <1>2 DEF BeginRouteRequest, ChoiceSoFar, PlaceSays, Unrouted
  <2>2. steady' \subseteq trusts'["SourceRouters"]
    BY <1>2 DEF BeginRouteRequest, ChoiceSoFar
  <2>3. QED
    BY <2>1, <2>2 DEF ChoiceSoFar
<1>3. CASE ConsiderCandidate
  <2>1. /\ looked \in Nat /\ looked + 1 \in 1..Len(Candidates) /\ pick \in 0..looked /\ looked' = looked + 1
        /\ via = NoRouter /\ UNCHANGED <<via, asker, steady, trusts, dialing>> /\ dialing = "considering"
    BY <1>3, DialAssumption DEF ConsiderCandidate, DialTypeOK, PlaceSays, Unrouted
  <2>2. \A i \in 1..Len(Candidates) : Candidates[i].cost \in Nat
    BY CandidateFacts
  <2>3. ASSUME NEW i \in 1..looked', Candidates[i].router \in steady
        PROVE  pick' > 0 /\ Candidates[pick'].cost <= Candidates[i].cost
    <3>1. CASE i = looked + 1
      <4>1. Candidates[i].router \in trusts["SourceRouters"]
        BY <2>3 DEF ChoiceSoFar
      <4>2. CASE Cheaper(i)
        BY <1>3, <2>1, <2>2, <3>1, <4>1, <4>2 DEF ConsiderCandidate
      <4>3. CASE ~Cheaper(i)
        BY <1>3, <2>1, <2>2, <3>1, <4>1, <4>3 DEF ConsiderCandidate, Cheaper
      <4>4. QED
        BY <4>2, <4>3
    <3>2. CASE i \in 1..looked
      <4>1. pick > 0 /\ Candidates[pick].cost <= Candidates[i].cost
        BY <2>3, <3>2 DEF ChoiceSoFar
      <4>2. CASE pick' = looked + 1
        BY <1>3, <2>1, <2>2, <3>2, <4>1, <4>2 DEF ConsiderCandidate, Cheaper
      <4>3. CASE pick' = pick
        BY <4>1, <4>3
      <4>4. QED
        BY <1>3, <4>2, <4>3 DEF ConsiderCandidate
    <3>3. QED
      BY <2>1, <2>3, <3>1, <3>2
  <2>4. QED
    BY <2>1, <2>3 DEF ChoiceSoFar
<1>4. CASE EndRouteRequest
  BY <1>4 DEF EndRouteRequest, ChoiceSoFar
<1>5. CASE SelectNonRoutedPath \/ ObtainGrant \/ DialPeer \/ OpenRouted \/ CheckRouterTrust \/ AuthorizeRoute
  BY <1>5, ChoiceKept DEF SelectNonRoutedPath, ObtainGrant, DialPeer, OpenRouted, CheckRouterTrust, AuthorizeRoute
<1>6. CASE ValidateRoutedResult \/ ResolveRouter \/ ConnectRouter \/ DialRouteControlLink \/ OpenRoutedTunnel
           \/ InnerHandshake
  BY <1>6, ChoiceKept
     DEF ValidateRoutedResult, ResolveRouter, ConnectRouter, DialRouteControlLink, OpenRoutedTunnel, InnerHandshake
<1>7. CASE RouterStep \/ OpenDeadline \/ RouteExpires
  BY <1>7, ChoiceKept
     DEF RouterStep, AuthorizeForward, RouterServes, DialNext, ServeRouteTunnel, TunnelEnds, OpenDeadline,
         RouteExpires, ChoiceSoFar
<1>8. CASE EditPolicy
  BY <1>8, ChoiceKept DEF EditPolicy, ChoiceSoFar
<1>9. ASSUME NEW role \in TrustRoles, NEW r \in Routers,
             AddRouteRouterTrust(role, r) \/ RevokeRouteRouterTrust(role, r)
      PROVE  ChoiceSoFar'
  <2>1. UNCHANGED <<looked, pick, via, asker, dialing>> /\ steady' \subseteq steady
    BY <1>9 DEF AddRouteRouterTrust, RevokeRouteRouterTrust
  <2>2. steady' \subseteq trusts'["SourceRouters"]
    BY <1>9 DEF AddRouteRouterTrust, RevokeRouteRouterTrust, ChoiceSoFar, FilesTyped, TrustRoles
  <2>3. QED
    BY <2>1, <2>2 DEF ChoiceSoFar
<1>10. CASE UNCHANGED dialVars
  BY <1>10, ChoiceKept DEF dialVars, ChoiceSoFar
<1>11. QED
  BY <1>1, <1>2, <1>3, <1>4, <1>5, <1>6, <1>7, <1>8, <1>9, <1>10 DEF DialNextState, SourceStep

\* The invariant is inductive.
LEMMA DialInvStep == DialInv /\ [DialNextState]_dialVars => DialInv'
BY AttemptInvStep, ChoiceStep DEF DialInv

\* Every value of an attempt has its type.
THEOREM DialTypeCorrect == DialSpec => []DialTypeOK
<1>1. DialInv => DialTypeOK
  BY DEF DialInv, AttemptInv
<1>2. QED
  BY <1>1, DialInvInit, DialInvStep, PTL DEF DialSpec

\* A routed connection was trusted by every party since its authorization, and a
\* router that the source had revoked before it is not dialled; the route is over the cheapest of the
\* routers that stayed trusted while RouteRequest looked.
THEOREM RoutesAreSound == DialSpec => []RouteIsSound
<1>1. DialInv => RoutedNeedsEveryTrust /\ RevokedNotDialed
  BY DEF DialInv, AttemptInv, PlaceSays, ChecksDone, RoutedNeedsEveryTrust
<1>2. DialInv => ChoiceIsCheapest
  BY DEF DialInv, AttemptInv, DialTypeOK, FilesTyped, PlaceSays, ChoiceSoFar, ChoiceIsCheapest
<1>3. QED
  BY <1>1, <1>2, DialInvInit, DialInvStep, PTL DEF DialSpec, RouteIsSound

\* An attempt ends in what it claims.
THEOREM DialsAreHonest == DialSpec => []DialIsHonest
<1>1. DialInv => DialIsHonest
  BY DEF DialInv, AttemptInv, PlaceSays, ChecksDone, DialIsHonest, NoFallbackFromRoute, ConnectedIsOpen, FailedHoldsNothing
<1>2. QED
  BY <1>1, DialInvInit, DialInvStep, PTL DEF DialSpec

(***************************************************************************)
(* The life of the agent.                                                  *)
(***************************************************************************)

-----------------------------------------------------------------------------
(* Type correctness.                                                        *)

\* No handler frees a slot of the semaphore that it does not hold.
AgentTypes == AgentTypeOK /\ \A r \in Roles : open[r] <= tokens[r]

\* A configuration names roles that openAgentListeners binds.
LEMMA AgentFacts ==
    /\ AgentLimit \in Nat \ {0} /\ BackoffCap \in Nat \ {0}
    /\ \A c \in Configurations : c \subseteq Roles
BY AgentAssumption

\* No agent has started.
LEMMA AgentTypesInit == AgentInit => AgentTypes
<1> SUFFICES ASSUME AgentInit PROVE AgentTypes
  OBVIOUS
<1> USE AgentFacts DEF AgentInit
<1>1. RunTypeOK
  BY DEF RunTypeOK
<1>2. ListenerTypeOK /\ \A r \in Roles : open[r] <= tokens[r]
  BY DEF ListenerTypeOK
<1>3. SlotTypeOK
  BY DEF SlotTypeOK
<1>4. ServiceTypeOK
  BY DEF ServiceTypeOK, Statuses
<1>5. QED
  BY <1>1, <1>2, <1>3, <1>4 DEF AgentTypes, AgentTypeOK

\* A wait that is doubled was below the cap.
LEMMA LongerBounds == ASSUME NEW wait \in 1..(2 * BackoffCap - 1) PROVE Longer(wait) \in 1..(2 * BackoffCap - 1)
BY AgentFacts DEF Longer

\* CloseAll leaves no socket bound, and touches only those that are.
LEMMA CloseAllFacts ==
    ASSUME socket \in [Roles -> {"none", "open", "closed"}]
    PROVE  /\ CloseAll \in [Roles -> {"none", "open", "closed"}]
           /\ \A r \in Roles : CloseAll[r] # "open" /\ (CloseAll[r] = "none" <=> socket[r] = "none")
BY DEF CloseAll

\* Each step keeps the types, part by part.
LEMMA AgentTypesStep == AgentTypes /\ [AgentNext]_lifeVars => AgentTypes'
<1> SUFFICES ASSUME AgentTypes, [AgentNext]_lifeVars PROVE AgentTypes'
  OBVIOUS
<1> USE AgentFacts DEF AgentTypes, AgentTypeOK, configVars, listenerVars, slotVars, statusVars, serviceVars, agentSide
<1> DEFINE Rest == SlotTypeOK' /\ ServiceTypeOK'
           Listeners == ListenerTypeOK' /\ \A r \in Roles : open'[r] <= tokens'[r]
<1>1. CASE RunAgent
  <2> USE <1>1 DEF RunAgent, OpenState, OpenAgentRoutingRuntime, RuntimeOpens, OpenListener, StartWorkers, StartTransports,
          FirstTransportEnds, TransportsReturn
  <2>1. RunTypeOK'
    BY DEF RunTypeOK
  <2>2. socket' \in [Roles -> {"none", "open", "closed"}]
    BY CloseAllFacts DEF ListenerTypeOK
  <2>3. Listeners
    BY <2>2 DEF ListenerTypeOK
  <2>4. SlotTypeOK'
    BY DEF SlotTypeOK
  <2>5. ServiceTypeOK'
    BY DEF ServiceTypeOK
  <2>6. QED
    BY <2>1, <2>3, <2>4, <2>5
<1>2. CASE FirstListenerEnds \/ ServeEnds \/ SerialStep
  <2> USE <1>2 DEF FirstListenerEnds, ServeEnds, SerialStep, OpenSerial, SerialSessionEnds, ReopenSerial
  <2>1. RunTypeOK'
    BY DEF RunTypeOK
  <2>2. Listeners
    BY CloseAllFacts DEF ListenerTypeOK
  <2>3. Rest
    BY DEF SlotTypeOK, ServiceTypeOK
  <2>4. QED
    BY <2>1, <2>2, <2>3
<1>3. CASE ServiceMain \/ StopControl \/ CancelRun \/ Interrogate \/ Signal \/ \E who \in {"main", "control"} : Report(who)
  <2> USE <1>3 DEF ServiceMain, Register, Arm, ReportRunning, ExecuteReturns, ProcessExits, StopControl, CancelRun,
          Interrogate, Signal, Report, SetStatus
  <2>1. RunTypeOK'
    <3>1. UNCHANGED <<configured, useSerial, phase, serveLoop, serial>>
      OBVIOUS
    <3>2. cancelled' \in {cancelled, cancelled \cup {"run"}}
      OBVIOUS
    <3>3. QED
      BY <3>1, <3>2 DEF RunTypeOK
  <2>2. Listeners
    BY DEF ListenerTypeOK
  <2>3. SlotTypeOK'
    BY DEF SlotTypeOK
  <2>4. ServiceTypeOK'
    <3>1. /\ main' \in {"register", "arm", "run", "execute", "foreground", "done", "exited"}
          /\ control' \in {"idle", "stop"}
      BY DEF ServiceTypeOK
    <3>2. armed' \in BOOLEAN
      <4>1. armed' = armed \/ armed' = TRUE
        OBVIOUS
      <4>2. QED
        BY <4>1 DEF ServiceTypeOK
    <3>3. {status', reported'} \subseteq Statuses
      <4>1. {status, reported} \subseteq Statuses /\ \A who \in {"main", "control"} : carried[who] \in Statuses
        BY DEF ServiceTypeOK
      <4>2. QED
        BY <4>1 DEF Statuses
    <3>4. carried' \in [{"main", "control"} -> Statuses]
      <4>1. status \in Statuses /\ carried \in [{"main", "control"} -> Statuses]
        BY DEF ServiceTypeOK
      <4>2. PICK who \in {"main", "control"}, state \in Statuses : carried' \in {carried, [carried EXCEPT ![who] = state]}
        BY <4>1 DEF Statuses
      <4>3. QED
        BY <4>1, <4>2
    <3>5. QED
      BY <3>1, <3>2, <3>3, <3>4 DEF ServiceTypeOK
  <2>5. QED
    BY <2>1, <2>2, <2>3, <2>4
<1>4. ASSUME NEW r \in Roles, ListenerStep(r) PROVE AgentTypes'
  <2> USE <1>4 DEF ListenerStep, AcceptConnection, CloseConnection, FreeConnection, AcceptEnds, ContextCloses
  <2>1. RunTypeOK'
    BY DEF RunTypeOK
  <2>2. Listeners
    BY DEF ListenerTypeOK
  <2>3. Rest
    BY DEF SlotTypeOK, ServiceTypeOK
  <2>4. QED
    BY <2>1, <2>2, <2>3
<1>5. ASSUME NEW s \in RelaySlots, SlotStep(s) PROVE AgentTypes'
  <2> USE <1>5 DEF SlotStep, LeaveLoop, DialRelay, DialWebSocket, RegisterSlot, ClientComes, RelayFails, RetryRelay,
          RelaySessionEnds, SlotMoves
  <2>1. RunTypeOK'
    BY DEF RunTypeOK
  <2>2. Listeners
    BY DEF ListenerTypeOK
  <2>3. SlotTypeOK'
    BY LongerBounds DEF SlotTypeOK
  <2>4. ServiceTypeOK'
    BY DEF ServiceTypeOK
  <2>5. QED
    BY <2>1, <2>2, <2>3, <2>4
<1>6. CASE UNCHANGED lifeVars
  BY <1>6 DEF lifeVars, RunTypeOK, ListenerTypeOK, SlotTypeOK, ServiceTypeOK
<1>7. QED
  BY <1>1, <1>2, <1>3, <1>4, <1>5, <1>6 DEF AgentNext

\* Every value of the agent is in its range.
THEOREM AgentTypeCorrect == AgentSpec => []AgentTypeOK
<1>1. AgentTypes => AgentTypeOK
  BY DEF AgentTypes
<1>2. QED
  BY <1>1, AgentTypesInit, AgentTypesStep, PTL DEF AgentSpec

-----------------------------------------------------------------------------
(* An agent is whole or gone.                                               *)

\* Every socket was bound.
Bound == {"serve", "drain", "returned"}

\* How far runAgent is says which sockets and loops there may be.
PhaseSays ==
    /\ phase \in {"open", "routing"} => \A r \in Roles : socket[r] = "none"
    /\ phase \in {"returned", "failed"} => \A r \in Roles : socket[r] # "open"
    /\ phase \in Bound => \A r \in configured : socket[r] # "none"
    /\ phase \notin Bound => serveLoop = "idle" /\ \A s \in RelaySlots : relaySlot[s] = "none"
    /\ phase = "returned" => serveLoop = "ended" /\ (useSerial => serial = "ended")

\* What the accept loops and the serial stream are in each part of serve.
LoopsSay ==
    /\ serveLoop = "idle" => serial = "idle" /\ \A r \in Roles : accepting[r] = "none" /\ open[r] = 0
    /\ serveLoop = "ended" => \A r \in configured : accepting[r] # "accept"
    /\ \A r \in Roles : r \notin configured => accepting[r] = "none"
    /\ ~useSerial => serial = "idle"

\* Nothing runs before serviceMain calls it, and the SCM hears of the end only
\* after it.
ServiceSays ==
    /\ main \in {"register", "arm", "run"} => phase = "open"
    /\ main \in {"done", "exited"} => phase \in {"open", "returned", "failed"}
    /\ status = "stopped" \/ reported = "stopped" \/ carried["main"] = "stopped" \/ carried["control"] = "stopped"
          => main \in {"done", "exited"}

AgentInv == AgentTypes /\ PhaseSays /\ LoopsSay /\ ServiceSays

\* Each step keeps what its phase says.
LEMMA AgentInvStep == AgentInv /\ [AgentNext]_lifeVars => AgentInv'
<1> SUFFICES ASSUME AgentInv, [AgentNext]_lifeVars PROVE PhaseSays' /\ LoopsSay' /\ ServiceSays'
  BY AgentTypesStep DEF AgentInv
<1>0. configured \subseteq Roles /\ ListenerTypeOK /\ RunTypeOK /\ ServiceTypeOK /\ SlotTypeOK
  BY AgentFacts DEF AgentInv, AgentTypes, AgentTypeOK, RunTypeOK
<1>C. \A r \in Roles : CloseAll[r] # "open" /\ (CloseAll[r] = "none" <=> socket[r] = "none")
  BY <1>0, CloseAllFacts DEF ListenerTypeOK
<1> USE <1>0 DEF AgentInv, Bound, configVars, listenerVars, slotVars, statusVars, serviceVars, agentSide
<1>1. CASE OpenState \/ OpenAgentRoutingRuntime
  BY <1>1 DEF OpenState, OpenAgentRoutingRuntime, RuntimeOpens, Running, PhaseSays, LoopsSay, ServiceSays
<1>2. CASE OpenListener
  <2>1. /\ UNCHANGED <<configured, useSerial, accepting, open, serveLoop, serial, relaySlot, serviceVars>>
        /\ phase = "bind" /\ phase' \in {"bind", "failed"}
        /\ phase' = "failed" => socket' = CloseAll
    BY <1>2 DEF OpenListener
  <2>2. QED
    BY <2>1, <1>C DEF PhaseSays, LoopsSay, ServiceSays
<1>3. CASE StartWorkers \/ StartTransports
  <2>1. CASE StartWorkers /\ phase' = "serve"
    BY <2>1 DEF StartWorkers, PhaseSays, LoopsSay, ServiceSays, ListenerTypeOK
  <2>2. CASE StartWorkers /\ phase' = "failed"
    <3>1. socket' = CloseAll /\ UNCHANGED <<configured, useSerial, accepting, open, serveLoop, serial, relaySlot, serviceVars>>
      BY <2>2 DEF StartWorkers
    <3>2. QED
      BY <2>2, <3>1, <1>C DEF StartWorkers, PhaseSays, LoopsSay, ServiceSays
  <2>3. CASE StartTransports
    BY <2>3 DEF StartTransports, PhaseSays, LoopsSay, ServiceSays, ListenerTypeOK
  <2>4. QED
    BY <1>3, <2>1, <2>2, <2>3 DEF StartWorkers
<1>4. CASE FirstTransportEnds
  BY <1>4, <1>C DEF FirstTransportEnds, PhaseSays, LoopsSay, ServiceSays
<1>5. CASE TransportsReturn
  BY <1>5, <1>C DEF TransportsReturn, PhaseSays, LoopsSay, ServiceSays
<1>6. CASE FirstListenerEnds
  BY <1>6, <1>C DEF FirstListenerEnds, PhaseSays, LoopsSay, ServiceSays
<1>7. CASE ServeEnds \/ SerialStep
  BY <1>7 DEF ServeEnds, LoopEnded, SerialStep, OpenSerial, SerialSessionEnds, ReopenSerial, PhaseSays, LoopsSay, ServiceSays
<1>8. CASE ServiceMain
  BY <1>8 DEF ServiceMain, Register, Arm, ReportRunning, ExecuteReturns, ProcessExits, SetStatus, Running, AgentOver,
          PhaseSays, LoopsSay, ServiceSays, ServiceTypeOK
<1>9. CASE StopControl \/ CancelRun \/ Interrogate \/ Signal \/ \E who \in {"main", "control"} : Report(who)
  BY <1>9 DEF StopControl, CancelRun, Interrogate, Signal, Report, SetStatus, PhaseSays, LoopsSay, ServiceSays, ServiceTypeOK
<1>10. ASSUME NEW r \in Roles, ListenerStep(r) PROVE PhaseSays' /\ LoopsSay' /\ ServiceSays'
  BY <1>10 DEF ListenerStep, AcceptConnection, CloseConnection, FreeConnection, AcceptEnds, ContextCloses,
          PhaseSays, LoopsSay, ServiceSays, ListenerTypeOK
<1>11. ASSUME NEW s \in RelaySlots, SlotStep(s) PROVE PhaseSays' /\ LoopsSay' /\ ServiceSays'
  BY <1>11 DEF SlotStep, LeaveLoop, DialRelay, DialWebSocket, RegisterSlot, ClientComes, RelayFails, RetryRelay,
          RelaySessionEnds, SlotMoves, PhaseSays, LoopsSay, ServiceSays, SlotTypeOK
<1>12. CASE UNCHANGED lifeVars
  BY <1>12 DEF lifeVars, PhaseSays, LoopsSay, ServiceSays
<1>13. QED
  BY <1>1, <1>2, <1>3, <1>4, <1>5, <1>6, <1>7, <1>8, <1>9, <1>10, <1>11, <1>12 DEF AgentNext, RunAgent

\* An agent is whole or gone: a start that fails and an end of any kind leave no
\* socket, loop or stream, and nothing is served before everything is bound.
THEOREM AgentWholeOrGone == AgentSpec => []WholeOrGone
<1>1. AgentInit => AgentInv
  BY AgentTypesInit DEF AgentInit, AgentInv, PhaseSays, LoopsSay, ServiceSays, Bound
<1>2. AgentInv => WholeOrGone
  <2> SUFFICES ASSUME AgentInv PROVE WholeOrGone
    OBVIOUS
  <2> USE DEF AgentInv, AgentTypes, AgentTypeOK
  <2>1. StoppedMeansReleased
    BY DEF StoppedMeansReleased, Released, ListenersReleased, AgentOver, PhaseSays, LoopsSay, ServiceSays, Bound
  <2>2. WorkersAfterSockets
    BY DEF WorkersAfterSockets, PhaseSays, LoopsSay
  <2>3. ConnectionsWithinLimit
    BY AgentFacts DEF ConnectionsWithinLimit, ListenerTypeOK
  <2>4. QED
    BY <2>1, <2>2, <2>3 DEF WholeOrGone
<1>3. QED
  BY <1>1, <1>2, AgentInvStep, PTL DEF AgentSpec

(***************************************************************************)
(* The device: what is proved of each component holds in the composition,  *)
(* where the others move as well.                                          *)
(***************************************************************************)

\* A step of the device is a step of each component or leaves it alone.
LEMMA DeviceSteps ==
    [DeviceNext]_<<focus, vars, updateVars, dialVars, lifeVars>> =>
        /\ [Next]_vars /\ [UpdateNext]_updateVars
        /\ [DialNextState]_dialVars /\ [AgentNext]_lifeVars
BY DEF DeviceNext

\* The device implements the specification of each of its components.  What
\* is proved of the agent's pairing, of its updates, of a dial and of the
\* agent's life therefore holds of the device, whichever of them moves.
THEOREM DeviceImplementsParts == DeviceSpec => Spec /\ UpdateSpec /\ DialSpec /\ AgentSpec
<1>1. DeviceInit => Init /\ UpdateInit /\ DialInit /\ AgentInit
  BY DEF DeviceInit
<1>2. QED
  BY <1>1, DeviceSteps, PTL DEF DeviceSpec, Spec, UpdateSpec, DialSpec, AgentSpec

\* Every value of a device's components has its type.
THEOREM DeviceTypeCorrect == DeviceSpec => []DeviceTypeOK
<1>1. TypeOK /\ UpdateTypeOK /\ DialTypeOK /\ AgentTypeOK => DeviceTypeOK
  BY DEF DeviceTypeOK
<1>2. QED
  BY <1>1, DeviceImplementsParts, PairingTypeCorrect, UpdateTypeCorrect, DialTypeCorrect, AgentTypeCorrect, PTL

=============================================================================
