------------------------------ MODULE Pairing -------------------------------
(***************************************************************************)
(* Pairing and revocation: the pairing-secret file                         *)
(* (internal/trust/pairing.go, internal/session/pairing_file.go), the      *)
(* agent's pairing handler (handlePair of internal/session/server.go) and  *)
(* the trust store (internal/trust/store.go), which the agent and the      *)
(* revoke command, a process of its own, edit under a file lock.           *)
(*                                                                         *)
(* An editor is one call that edits the store: a pairing handled by the    *)
(* agent, one goroutine per connection, or a run of the revoke command.    *)
(* Identities other than the peer's ID, and the audit records, are left    *)
(* out.                                                                    *)
(***************************************************************************)
EXTENDS FiniteSets

CONSTANTS Pairings,     \* pairing requests
          Revocations,  \* runs of the revoke command
          Peers,        \* device IDs
          Secrets,      \* pairing secrets that will be generated
          NoSecret      \* the file does not exist

Editors == Pairings \cup Revocations

ASSUME PairingAssumption ==
    /\ Pairings \cap Revocations = {}
    /\ NoSecret \notin Secrets /\ "torn" \notin Secrets /\ NoSecret # "torn"

VARIABLES secretFile,  \* the secret whose hash the file holds, "torn" or NoSecret
          rotating,    \* the secret that is being written, or NoSecret
          unused,      \* secrets not generated yet
          spent,       \* history: secrets a completed invalidation was for
          lock,        \* the holder of the store's file lock, if any
          disk,        \* the peers in the store's file
          pc,          \* where each editor is
          target,      \* the peer it is about
          presented,   \* the secret a pairing presents
          loaded       \* what it read from the file under the lock

editorVars == <<pc, target, presented, loaded>>
secretVars == <<secretFile, rotating, unused, spent>>
vars == <<secretVars, lock, disk, editorVars>>

\* The types of the variables; at most one editor holds the lock of lockStoreFile.
TypeOK ==
    /\ secretFile \in Secrets \cup {NoSecret, "torn"}
    /\ rotating \in Secrets \cup {NoSecret}
    /\ unused \subseteq Secrets /\ spent \subseteq Secrets
    /\ lock \in {{}} \cup {{e} : e \in Editors}
    /\ disk \subseteq Peers
    /\ pc \in [Editors -> {"idle", "checking", "checked", "locking", "loading", "saving",
                           "saved", "failed"}]
    /\ target \in [Editors -> Peers]
    /\ presented \in [Editors -> Secrets \cup {NoSecret}]
    /\ loaded \in [Editors -> SUBSET Peers]

Init ==
    /\ secretFile = NoSecret /\ rotating = NoSecret
    /\ unused = Secrets /\ spent = {}
    /\ lock = {} /\ disk = {}
    /\ pc = [e \in Editors |-> "idle"]
    /\ target \in [Editors -> Peers]
    /\ presented = [e \in Editors |-> NoSecret]
    /\ loaded = [e \in Editors |-> {}]

Go(e, step) == pc' = [pc EXCEPT ![e] = step]

----------------------------------------------------------------------------
(* RotatePairingSecret, run by the operator.                               *)

\* os.WriteFile truncates the file before it writes.
BeginRotation(s) ==
    /\ rotating = NoSecret
    /\ s \in unused
    /\ rotating' = s
    /\ unused' = unused \ {s}
    /\ secretFile' = "torn"
    /\ UNCHANGED <<spent, lock, disk, editorVars>>

\* The hash is written, to a file that a pairing may have removed meanwhile.
\* The process may also die before that.
EndRotation ==
    /\ rotating # NoSecret
    /\ rotating' = NoSecret
    /\ \/ secretFile' = IF secretFile = "torn" THEN rotating ELSE secretFile
       \/ UNCHANGED secretFile
    /\ UNCHANGED <<unused, spent, lock, disk, editorVars>>

----------------------------------------------------------------------------
(* handlePair.                                                             *)

\* A client presents a secret that has been generated.
Request(e, s) ==
    /\ e \in Pairings /\ pc[e] = "idle"
    /\ s \in Secrets \ unused
    /\ presented' = [presented EXCEPT ![e] = s]
    /\ Go(e, "checking")
    /\ UNCHANGED <<secretVars, lock, disk, target, loaded>>

\* Variant for sensitivity checks: trust is added before the secret is consumed.
CheckWithoutConsuming(e) ==
    /\ pc[e] = "checking"
    /\ secretFile = presented[e]
    /\ Go(e, "locking")
    /\ UNCHANGED <<secretVars, lock, disk, target, presented, loaded>>

\* CheckPairingSecret, then the identity checks, which may fail too.
Check(e) ==
    /\ pc[e] = "checking"
    /\ \/ secretFile = presented[e] /\ Go(e, "checked")
       \/ Go(e, "failed")
    /\ UNCHANGED <<secretVars, lock, disk, target, presented, loaded>>

\* invalidatePairingSecret: a file that is already gone is no error.
Invalidate(e) ==
    /\ pc[e] = "checked"
    /\ \/ /\ secretFile' = NoSecret
          /\ spent' = spent \cup {presented[e]}
          /\ Go(e, "locking")
       \/ UNCHANGED <<secretFile, spent>> /\ Go(e, "failed")
    /\ UNCHANGED <<rotating, unused, lock, disk, target, presented, loaded>>

----------------------------------------------------------------------------
(* Store.Put and Store.DeletePeer.                                         *)

Revoke(e) ==
    /\ e \in Revocations /\ pc[e] = "idle"
    /\ Go(e, "locking")
    /\ UNCHANGED <<secretVars, lock, disk, target, presented, loaded>>

\* Variant for sensitivity checks: the lock is not exclusive.
AcquireShared(e) ==
    /\ pc[e] = "locking"
    /\ lock' = lock \cup {e}
    /\ Go(e, "loading")
    /\ UNCHANGED <<secretVars, disk, target, presented, loaded>>

\* lockStoreFile waits for the lock, or fails.
Acquire(e) ==
    /\ pc[e] = "locking"
    /\ \/ lock = {} /\ lock' = {e} /\ Go(e, "loading")
       \/ UNCHANGED lock /\ Go(e, "failed")
    /\ UNCHANGED <<secretVars, disk, target, presented, loaded>>

\* reloadLocked, which may fail.  A peer that is not there needs no deletion.
Load(e) ==
    /\ pc[e] = "loading"
    /\ \/ /\ loaded' = [loaded EXCEPT ![e] = disk]
          /\ IF e \in Revocations /\ target[e] \notin disk
             THEN Go(e, "saved") /\ lock' = lock \ {e}
             ELSE Go(e, "saving") /\ UNCHANGED lock
       \/ UNCHANGED loaded /\ Go(e, "failed") /\ lock' = lock \ {e}
    /\ UNCHANGED <<secretVars, disk, target, presented>>

Edited(e) == IF e \in Pairings THEN loaded[e] \cup {target[e]} ELSE loaded[e] \ {target[e]}

\* saveLocked replaces the file and the lock is released; the chmod after the
\* rename may fail, and so may any step before it.
Save(e) ==
    /\ pc[e] = "saving"
    /\ lock' = lock \ {e}
    /\ \/ disk' = Edited(e) /\ Go(e, "saved")
       \/ disk' = Edited(e) /\ Go(e, "failed")
       \/ UNCHANGED disk /\ Go(e, "failed")
    /\ UNCHANGED <<secretVars, target, presented, loaded>>

\* The agent or a revoke command dies; its file locks go with it.
Crash(S) ==
    /\ pc' = [e \in Editors |-> IF e \in S /\ pc[e] # "idle" /\ pc[e] # "saved"
                                THEN "failed" ELSE pc[e]]
    /\ lock' = lock \ S
    /\ UNCHANGED <<secretVars, disk, target, presented, loaded>>

EditorStep(e) == Check(e) \/ Invalidate(e) \/ Acquire(e) \/ Load(e) \/ Save(e)

Next ==
    \/ \E s \in Secrets : BeginRotation(s)
    \/ EndRotation
    \/ \E e \in Editors :
          \/ \E s \in Secrets : Request(e, s)
          \/ Revoke(e)
          \/ EditorStep(e)
    \/ Crash(Pairings)
    \/ \E e \in Revocations : Crash({e})

Spec == Init /\ [][Next]_vars

\* A call that can go on does; one that waits for the lock takes it when it is
\* free, and need not fail.
Fairness ==
    \A e \in Editors :
        WF_vars(Check(e) \/ Invalidate(e) \/ (lock = {} /\ Acquire(e)) \/ Load(e) \/ Save(e))

FairSpec == Spec /\ Fairness

----------------------------------------------------------------------------
(* Properties.                                                             *)

\* Every write of the store adds or removes one peer: no pairing or revocation
\* overwrites a newer snapshot, across goroutines, processes and crashes.
NoLostEdit ==
    [][\E p \in Peers : disk' = disk \cup {p} \/ disk' = disk \ {p}]_disk

\* A pairing that is about to add trust, or has, has spent its secret, and the
\* file never accepts a spent secret again: neither a crash between the two
\* steps nor a rotation that was under way brings it back.
ConsumedBeforeTrust ==
    /\ secretFile \notin spent
    /\ \A e \in Pairings :
          pc[e] \in {"locking", "loading", "saving", "saved"} => presented[e] \in spent

\* A secret serves one pairing.
SecretSingleUse ==
    \A e1, e2 \in Pairings :
        pc[e1] = "saved" /\ pc[e2] = "saved" /\ presented[e1] = presented[e2] => e1 = e2

\* Every pairing and revocation that was started ends: the lock is released on
\* each return and by the death of its holder.
EveryEditEnds == []<>(\A e \in Editors : pc[e] \in {"idle", "saved", "failed"})
============================================================================
