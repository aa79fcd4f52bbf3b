---------------------------- MODULE LockPromise ----------------------------
(***************************************************************************)
(* What the recipe lock of the local cache promises its users              *)
(* (conans/util/locks.py): any number of readers, or one writer.  The      *)
(* promise is conditional: `intact' tells whether it still stands.  The    *)
(* implementation (RWLock) loses it when a process dies in the middle of   *)
(* rewriting the count file, or when the lock's files are deleted under a  *)
(* process that relies on them.                                            *)
(***************************************************************************)
CONSTANT Proc

VARIABLES readers, writers, intact

promiseVars == <<readers, writers, intact>>

PromiseInit == readers = {} /\ writers = {} /\ intact = TRUE

\* A reader is admitted beside other readers, never beside a writer.
AdmitReader(p) ==
    /\ writers = {}
    /\ readers' = readers \union {p}
    /\ UNCHANGED <<writers, intact>>

\* A writer is admitted to an empty lock only.
AdmitWriter(p) ==
    /\ readers = {} /\ writers = {}
    /\ writers' = {p}
    /\ UNCHANGED <<readers, intact>>

\* Holders go, one or several: a holder leaves, or dead ones are swept away.
Withdraw ==
    /\ readers' \subseteq readers
    /\ writers' \subseteq writers
    /\ UNCHANGED intact

\* The promise is lost, and nothing is promised from then on.
Lose == intact' = FALSE

PromiseNext ==
    \/ intact /\ (Withdraw \/ \E p \in Proc : AdmitReader(p) \/ AdmitWriter(p))
    \/ Lose

PromiseSpec == PromiseInit /\ [][PromiseNext]_promiseVars
=============================================================================
