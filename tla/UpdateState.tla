---------------------------- MODULE UpdateState -----------------------------
(***************************************************************************)
(* The updater (internal/updateinfo): discovery of a signed manifest,      *)
(* staging of the installer it names, and ApplyVerifiedInstaller, which    *)
(* admits a sequence, verifies and runs the package and commits the        *)
(* sequence to the update state file, under a lock between processes.      *)
(* A release is known by its sequence.  A package has signed files, of the  *)
(* release `files` (0 if a signature is missing), and unsigned text that    *)
(* names a version, which anyone can write.                                 *)
(***************************************************************************)
EXTENDS Integers

CONSTANTS
    Updaters,    \* updater processes
    MaxRelease,  \* bound: releases published
    MaxDeaths,   \* bound: updater processes killed
    NoUpdater

ASSUME UpdateStateAssumption == {MaxRelease, MaxDeaths} \subseteq Nat /\ NoUpdater \notin Updaters

\* Manifest.Validate: the sequence is positive.
Releases == 1..MaxRelease

\* A package; Whole(m) is the one whose digest the manifest of release m holds.
Packages == [files : 0..MaxRelease, version : 0..MaxRelease]
Whole(m) == [files |-> m, version |-> m]

VARIABLES
    published, signed,   \* releases of the channel's manifest object and signature object
    sequenceFile,        \* State.StableSequence on disk; 0 when there is no file
    installed,           \* the package that is installed
    applyLock,           \* holder of .update-apply.lock
    at,                  \* where each updater is
    manifest,            \* the manifest it fetched
    archive,             \* what its staged file holds
    package,             \* what it extracted
    admitted,            \* the sequence it loaded when it was admitted
    deaths

channelVars == <<published, signed>>
callVars == <<manifest, archive, package, admitted>>
updaterVars == <<at, callVars>>
updateVars == <<channelVars, sequenceFile, installed, applyLock, updaterVars, deaths>>

UpdateInit ==
    /\ published = 0 /\ signed = 0 /\ sequenceFile = 0 /\ installed = Whole(0) /\ applyLock = NoUpdater
    /\ at = [u \in Updaters |-> "idle"] /\ manifest = [u \in Updaters |-> 0]
    /\ archive = [u \in Updaters |-> Whole(0)] /\ package = [u \in Updaters |-> Whole(0)]
    /\ admitted = [u \in Updaters |-> 0] /\ deaths = 0

\* Updater u goes from one place to the next.
Moves(u, from, to) == at[u] = from /\ at' = [at EXCEPT ![u] = to]
\* What a call held is gone with it; the next one fetches and stages anew.
Forgets(u) ==
    /\ manifest' = [manifest EXCEPT ![u] = 0] /\ admitted' = [admitted EXCEPT ![u] = 0]
    /\ archive' = [archive EXCEPT ![u] = Whole(0)] /\ package' = [package EXCEPT ![u] = Whole(0)]
Ends(u, from) == Moves(u, from, "idle") /\ Forgets(u)

\* The channel's two objects are replaced one after the other.
Publish ==
    /\ \/ published = signed /\ published < MaxRelease /\ published' = published + 1 /\ UNCHANGED signed
       \/ published > signed /\ signed' = published /\ UNCHANGED published
    /\ UNCHANGED <<sequenceFile, installed, applyLock, updaterVars, deaths>>

-----------------------------------------------------------------------------
(* Discovery and staging.                                                   *)

\* DiscoverStable: the manifest object.
FetchManifest(u) ==
    /\ published > 0 /\ Moves(u, "idle", "fetched")
    /\ manifest' = [manifest EXCEPT ![u] = published]
    /\ UNCHANGED <<channelVars, sequenceFile, installed, applyLock, archive, package, admitted, deaths>>

\* Verify: a valid manifest, and the signature is that of its bytes.
Authentic(m, signature) == m \in Releases /\ m = signature
\* CheckAdvance: newer than the accepted sequence and the installed version.
CheckAdvance(m, sequence, version) == m > sequence /\ m > version

\* The signature object, fetched later, and the checks.
FetchSignature(u) ==
    /\ \/ /\ Authentic(manifest[u], signed) /\ CheckAdvance(manifest[u], sequenceFile, installed.files)
          /\ Moves(u, "fetched", "found") /\ UNCHANGED callVars
       \/ /\ ~(Authentic(manifest[u], signed) /\ CheckAdvance(manifest[u], sequenceFile, installed.files))
          /\ Ends(u, "fetched")
    /\ UNCHANGED <<channelVars, sequenceFile, installed, applyLock, deaths>>

\* InstallerClient.Stage: download; a mismatch removes the file.
Stage(u) ==
    /\ \/ /\ Moves(u, "found", "staged") /\ archive' = [archive EXCEPT ![u] = Whole(manifest[u])]
          /\ UNCHANGED <<manifest, package, admitted>>
       \/ Ends(u, "found")
    /\ UNCHANGED <<channelVars, sequenceFile, installed, applyLock, deaths>>

\* The staged path is a mutable file: another release's package, an unsigned
\* one, or one whose text names another version than its files are of may
\* take its place.
ArchiveReplaced(u) ==
    /\ at[u] \in {"staged", "admitted", "verified"}
    /\ \E r \in [files : 0..published, version : 0..published] \ {archive[u]} : archive' = [archive EXCEPT ![u] = r]
    /\ UNCHANGED <<channelVars, sequenceFile, installed, applyLock, at, manifest, package, admitted, deaths>>

-----------------------------------------------------------------------------
(* ApplyVerifiedInstaller.                                                  *)

\* Every return after the lock was taken releases it.
Returns(u, from) == Ends(u, from) /\ applyLock' = NoUpdater

LockShared(u) == Moves(u, "staged", "locked") /\ applyLock' = u
\* acquireUpdateLock, polled until the caller gives up.
LockFree(u) == applyLock = NoUpdater /\ Moves(u, "staged", "locked") /\ applyLock' = u
AcquireUpdateLock(u) ==
    /\ \/ LockFree(u) /\ UNCHANGED callVars
       \/ Ends(u, "staged") /\ UNCHANGED applyLock
    /\ UNCHANGED <<channelVars, sequenceFile, installed, deaths>>

\* loadState and the rollback check, under the lock.
Admit(u) ==
    /\ \/ /\ manifest[u] > sequenceFile /\ Moves(u, "locked", "admitted")
          /\ admitted' = [admitted EXCEPT ![u] = sequenceFile] /\ UNCHANGED <<applyLock, manifest, archive, package>>
       \/ manifest[u] <= sequenceFile /\ Returns(u, "locked")
    /\ UNCHANGED <<channelVars, sequenceFile, installed, deaths>>

\* VerifyStagedInstaller: the bytes are those the manifest names.
VerifyStagedInstaller(u) ==
    /\ \/ archive[u] = Whole(manifest[u]) /\ Moves(u, "admitted", "verified") /\ UNCHANGED <<applyLock, callVars>>
       \/ archive[u] # Whole(manifest[u]) /\ Returns(u, "admitted")
    /\ UNCHANGED <<channelVars, sequenceFile, installed, deaths>>

\* extractInstallerPackage opens the path again.
ExtractInstallerPackage(u) ==
    /\ Moves(u, "verified", "extracted") /\ package' = [package EXCEPT ![u] = archive[u]]
    /\ UNCHANGED <<channelVars, sequenceFile, installed, applyLock, manifest, archive, admitted, deaths>>

\* verifyInstallerVersion: VERSION.txt, which has no signature, names the
\* manifest's version.
VerifyInstallerVersion(u) == package[u].version = manifest[u]
\* The Authenticode policy: every binary and script is signed, in whichever
\* release.  The checksum files are as unsigned as VERSION.txt and add nothing.
VerifyPackage(u) == package[u].files # 0

\* The checks of the extracted files, and the last look at the context.
VerifyExtracted(u) ==
    /\ \/ /\ VerifyInstallerVersion(u) /\ VerifyPackage(u)
          /\ Moves(u, "extracted", "executing") /\ UNCHANGED <<applyLock, callVars>>
       \/ Returns(u, "extracted")
    /\ UNCHANGED <<channelVars, sequenceFile, installed, deaths>>

ExecuteErrorsIgnored(u) ==
    /\ Moves(u, "executing", "done") /\ installed' \in {installed, package[u]}
    /\ UNCHANGED <<channelVars, sequenceFile, applyLock, callVars, deaths>>
\* Execute: preflight, installer, postflight, without cancellation.  A failed
\* postflight leaves the new release installed.
Execute(u) ==
    /\ \/ Moves(u, "executing", "done") /\ installed' = package[u] /\ UNCHANGED <<applyLock, callVars>>
       \/ Returns(u, "executing") /\ installed' \in {installed, package[u]}
    /\ UNCHANGED <<channelVars, sequenceFile, deaths>>

SaveNext(u) ==
    /\ Returns(u, "done") /\ sequenceFile' = manifest[u] + 1
    /\ UNCHANGED <<channelVars, installed, deaths>>
\* saveState: a temporary file, synced, renamed over the old one.
SaveState(u) ==
    /\ Returns(u, "done")
    /\ sequenceFile' \in {sequenceFile, manifest[u]}       \* saved, or ErrSequenceCommit
    /\ UNCHANGED <<channelVars, installed, deaths>>

\* The process is killed; the system releases its lock.  A running installer
\* may have got through.
UpdaterDies(u) ==
    /\ at[u] # "idle" /\ deaths < MaxDeaths /\ deaths' = deaths + 1
    /\ at' = [at EXCEPT ![u] = "idle"] /\ Forgets(u)
    /\ applyLock' = IF applyLock = u THEN NoUpdater ELSE applyLock
    /\ installed' \in IF at[u] = "executing" THEN {installed, package[u]} ELSE {installed}
    /\ UNCHANGED <<channelVars, sequenceFile>>

-----------------------------------------------------------------------------
ApplyStep(u) ==
    \/ AcquireUpdateLock(u) \/ Admit(u) \/ VerifyStagedInstaller(u) \/ ExtractInstallerPackage(u)
    \/ VerifyExtracted(u) \/ Execute(u) \/ SaveState(u)
UpdaterStep(u) == FetchManifest(u) \/ FetchSignature(u) \/ Stage(u) \/ ApplyStep(u)
UpdateNext == Publish \/ \E u \in Updaters : UpdaterStep(u) \/ ArchiveReplaced(u) \/ UpdaterDies(u)

\* A call that began goes on; discovery starts when the caller likes.
\* The installer has no deadline and cannot be cancelled: Execute owes nothing.
UpdateFairness == \A u \in Updaters : WF_updateVars(at[u] \notin {"idle", "executing"} /\ UpdaterStep(u))
UpdateSpec == UpdateInit /\ [][UpdateNext]_updateVars /\ UpdateFairness

-----------------------------------------------------------------------------
\* Every value is in its range.
UpdateTypeOK ==
    /\ {published, signed, sequenceFile} \subseteq 0..MaxRelease /\ installed \in Packages
    /\ applyLock \in Updaters \cup {NoUpdater}
    /\ at \in [Updaters -> {"idle", "fetched", "found", "staged", "locked", "admitted", "verified",
                            "extracted", "executing", "done"}]
    /\ {manifest, admitted} \subseteq [Updaters -> 0..MaxRelease]
    /\ {archive, package} \subseteq [Updaters -> Packages]
    /\ deaths \in 0..MaxDeaths

\* What the installer runs is signed and says that it is the release that was
\* admitted, although the staged path is opened twice.  That its files are of
\* that release follows only if nobody replaces the archive in between.
ExecutesAdmitted ==
    \A u \in Updaters : at[u] \in {"executing", "done"} => package[u].files # 0 /\ package[u].version = manifest[u]

\* Between admission and commit the state file is what the updater was
\* admitted against: two processes never admit one sequence.
AdmissionHolds ==
    \A u \in Updaters : at[u] \in {"admitted", "verified", "extracted", "executing", "done"} =>
        sequenceFile = admitted[u] /\ manifest[u] > sequenceFile

\* Only what was admitted is executed, and it is admitted against the state it
\* will replace.
AdmittedOnly == ExecutesAdmitted /\ AdmissionHolds

\* The accepted sequence only goes up, to that of the signed package that was
\* installed last: not by a crash, a failed installer or a second process any
\* other way.
CommittedWasInstalled ==
    [][/\ sequenceFile' > sequenceFile
       /\ installed.files # 0 /\ installed.version = sequenceFile']_sequenceFile

\* The lock comes free again: no death, refused package or failed installer
\* keeps it, only an installer that does not end.
LockComesFree == []<>(\A u \in Updaters : applyLock = u => at[u] = "executing")
=============================================================================
