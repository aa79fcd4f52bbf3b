------------------------------ MODULE RWLock ------------------------------
(***************************************************************************)
(* The inter-process readers/writer lock of a recipe in the local cache    *)
(* (conans/util/locks.py).  Its state is a number in the file `.count':    *)
(* the number of readers inside, or -1 for a writer.  Every look at that   *)
(* file is taken under a short inter-process lock on `.count.lock', the    *)
(* gate.  Both are files, and other commands delete them.                  *)
(***************************************************************************)
EXTENDS Integers, FiniteSets

CONSTANTS
    Proc,         \* conan processes that share the cache
    MaxCrashes,   \* bound: processes that may die
    MaxCleans,    \* bound: runs of Lock.clean by processes outside the lock
    MaxUpdates,   \* bound: DiskRemover.remove_recipe by a writer inside
    Unreadable    \* what `.count' holds when it is missing or empty

ASSUME ProcFinite == IsFiniteSet(Proc)
ASSUME UnreadableIsNoNumber == Unreadable \notin Int
ASSUME BoundsAreNaturals == {MaxCrashes, MaxCleans, MaxUpdates} \subseteq Nat

VARIABLES
    count,     \* what `.count' holds
    gate,      \* which `.count.lock' file the path names now
    pc,        \* where each process is
    want,      \* which lock it takes or has
    fd,        \* the `.count.lock' file it has open, 0 for none
    seen,      \* the number it read from `.count'
    readers, writers,  \* processes inside the `with' block, dead ones included
    intact,    \* FALSE once a save was torn or a file in use was deleted
    crashes, cleans, updates

lockVars == <<count, gate, pc, want, fd, seen>>
holderVars == <<readers, writers>>
bounds == <<crashes, cleans, updates>>
vars == <<count, gate, pc, want, fd, seen, readers, writers, intact,
          crashes, cleans, updates>>

Holders == readers \union writers
Dead == {p \in Proc : pc[p] = "dead"}
InGate(p) == pc[p] \in {"open", "hold"}

ReadersUnguarded == count
\* _readers(): no file, or no number in it, counts as nobody inside.
ReadersInFile == IF count = Unreadable THEN 0 ELSE count

Init ==
    /\ count = Unreadable /\ gate = 1
    /\ pc = [p \in Proc |-> "idle"]
    /\ want = [p \in Proc |-> "read"]
    /\ fd = [p \in Proc |-> 0]
    /\ seen = [p \in Proc |-> 0]
    /\ readers = {} /\ writers = {} /\ intact = TRUE
    /\ crashes = 0 /\ cleans = 0 /\ updates = 0

\* `with layout.conanfile_read_lock(...)' or `..._write_lock(...)' begins.
Enter(p) ==
    /\ pc[p] = "idle"
    /\ pc' = [pc EXCEPT ![p] = "wait"]
    /\ \E m \in {"read", "write"} : want' = [want EXCEPT ![p] = m]
    /\ UNCHANGED <<count, gate, fd, seen, holderVars, intact, bounds>>

\* The `with' block ends, and __exit__ is to correct the count.
Exit(p) ==
    /\ pc[p] = "in"
    /\ pc' = [pc EXCEPT ![p] = "wait"]
    /\ UNCHANGED <<count, gate, want, fd, seen, holderVars, intact, bounds>>

\* InterProcessLock opens (and creates) the file the path names at this moment.
OpenGate(p) ==
    /\ pc[p] = "wait"
    /\ pc' = [pc EXCEPT ![p] = "open"]
    /\ fd' = [fd EXCEPT ![p] = gate]
    /\ UNCHANGED <<count, gate, want, seen, holderVars, intact, bounds>>

ReadCountUngated(p) ==
    /\ pc[p] = "open"
    /\ pc' = [pc EXCEPT ![p] = "hold"]
    /\ seen' = [seen EXCEPT ![p] = ReadersInFile]
    /\ UNCHANGED <<count, gate, want, fd, holderVars, intact, bounds>>
\* It locks the file it opened, not the path, and _readers() loads the count.
ReadCount(p) ==
    /\ pc[p] = "open"
    /\ \A q \in Proc : ~(pc[q] = "hold" /\ fd[q] = fd[p])
    /\ pc' = [pc EXCEPT ![p] = "hold"]
    /\ seen' = [seen EXCEPT ![p] = ReadersInFile]
    /\ UNCHANGED <<count, gate, want, fd, holderVars, intact, bounds>>

AdmissibleToWriterBelowZero(p) ==
    IF want[p] = "read" THEN seen[p] >= 0 ELSE seen[p] <= 0
Admissible(p) == IF want[p] = "read" THEN seen[p] >= 0 ELSE seen[p] = 0

CloseGate(p, to) ==
    /\ pc' = [pc EXCEPT ![p] = to]
    /\ fd' = [fd EXCEPT ![p] = 0]
    /\ seen' = [seen EXCEPT ![p] = 0]

\* __enter__ finds the lock free, saves the new count and is inside.
Admit(p) ==
    /\ pc[p] = "hold" /\ p \notin Holders /\ Admissible(p)
    /\ IF want[p] = "read"
       THEN count' = seen[p] + 1 /\ readers' = readers \union {p}
                                 /\ UNCHANGED writers
       ELSE count' = -1 /\ writers' = writers \union {p} /\ UNCHANGED readers
    /\ CloseGate(p, "in")
    /\ UNCHANGED <<gate, want, intact, bounds>>

\* __enter__ finds it taken: sleep, and try again.
Refuse(p) ==
    /\ pc[p] = "hold" /\ p \notin Holders /\ ~Admissible(p)
    /\ CloseGate(p, "wait")
    /\ UNCHANGED <<count, gate, want, holderVars, intact, bounds>>

LeaveWritingZero(p) ==
    /\ pc[p] = "hold" /\ p \in Holders
    /\ count' = 0
    /\ readers' = readers \ {p} /\ writers' = writers \ {p}
    /\ CloseGate(p, "idle")
    /\ UNCHANGED <<gate, want, intact, bounds>>
LeaveOneLess(p) ==
    /\ pc[p] = "hold" /\ p \in Holders
    /\ count' = seen[p] - 1
    /\ readers' = readers \ {p} /\ writers' = writers \ {p}
    /\ CloseGate(p, "idle")
    /\ UNCHANGED <<gate, want, intact, bounds>>
LeaveIfCounted(p) ==
    /\ pc[p] = "hold" /\ p \in Holders /\ seen[p] # 0
    /\ count' = IF want[p] = "read" THEN seen[p] - 1 ELSE 0
    /\ readers' = readers \ {p} /\ writers' = writers \ {p}
    /\ CloseGate(p, "idle")
    /\ UNCHANGED <<gate, want, intact, bounds>>
\* __exit__: a reader saves one less than it read, a writer saves 0.
Leave(p) ==
    /\ pc[p] = "hold" /\ p \in Holders
    /\ count' = IF want[p] = "read" THEN seen[p] - 1 ELSE 0
    /\ readers' = readers \ {p} /\ writers' = writers \ {p}
    /\ CloseGate(p, "idle")
    /\ UNCHANGED <<gate, want, intact, bounds>>

\* A process dies.  The system drops its lock on the gate, but its mark in the
\* count stays.  If it dies inside save(), between the truncation and the write,
\* the count file is empty.
Crash(p) ==
    /\ crashes < MaxCrashes /\ pc[p] \notin {"idle", "dead"}
    /\ crashes' = crashes + 1
    /\ \/ UNCHANGED <<count, intact>>
       \/ /\ pc[p] = "hold" /\ (p \in Holders \/ Admissible(p))
          /\ count' = Unreadable /\ intact' = FALSE
    /\ CloseGate(p, "dead")
    /\ UNCHANGED <<gate, want, holderVars, cleans, updates>>

\* First half of Lock.clean (conan remove --locks, conan remove) by a process
\* outside the lock, or of DiskRemover.remove_recipe, which the update of a
\* recipe runs with the write lock taken: `.count' is deleted.
DropCount(p) ==
    /\ \/ /\ pc[p] = "idle" /\ cleans < MaxCleans
          /\ cleans' = cleans + 1 /\ UNCHANGED updates
       \/ /\ pc[p] = "in" /\ p \in writers /\ updates < MaxUpdates
          /\ updates' = updates + 1 /\ UNCHANGED cleans
    /\ pc' = [pc EXCEPT ![p] = "drop"]
    /\ count' = Unreadable
    /\ readers' = readers \ Dead /\ writers' = writers \ Dead
    /\ intact' = (/\ intact /\ Holders \subseteq Dead
                  /\ \A q \in Proc : pc[q] # "hold")
    /\ UNCHANGED <<gate, want, fd, seen, crashes>>

\* Second half: `.count.lock' is deleted, and the path will name a new file.
DropGate(p) ==
    /\ pc[p] = "drop"
    /\ pc' = [pc EXCEPT ![p] = IF p \in Holders THEN "in" ELSE "idle"]
    /\ gate' = gate + 1
    /\ intact' = (intact /\ \A q \in Proc : ~InGate(q))
    /\ UNCHANGED <<count, want, fd, seen, holderVars, bounds>>

Next ==
    \E p \in Proc :
        \/ Enter(p) \/ Exit(p) \/ OpenGate(p) \/ ReadCount(p)
        \/ Admit(p) \/ Refuse(p) \/ Leave(p)
        \/ Crash(p) \/ DropCount(p) \/ DropGate(p)

Spec == Init /\ [][Next]_vars

\* A live process keeps running and its `with' block ends.  A process that polls
\* the gate gets it: the others hold it for two file accesses and then sleep.
Fairness ==
    \A p \in Proc :
        /\ WF_vars(OpenGate(p) \/ Admit(p) \/ Refuse(p) \/ Leave(p) \/ DropGate(p))
        /\ WF_vars(Exit(p))
        /\ SF_vars(ReadCount(p))

FairSpec == Spec /\ Fairness
----------------------------------------------------------------------------
TypeOK ==
    /\ count \in Int \union {Unreadable} /\ gate \in Nat \ {0}
    /\ pc \in [Proc -> {"idle", "wait", "open", "hold", "in", "drop", "dead"}]
    /\ want \in [Proc -> {"read", "write"}]
    /\ fd \in [Proc -> Nat] /\ seen \in [Proc -> Int]
    /\ readers \in SUBSET Proc /\ writers \in SUBSET Proc
    /\ intact \in BOOLEAN
    /\ crashes \in Nat /\ cleans \in Nat /\ updates \in Nat

\* A writer inside is alone: no second writer and no reader beside it.
Exclusion ==
    \A w \in writers : writers = {w} /\ readers = {}

\* The lock excludes as long as no save was torn by a crash and nobody deleted the
\* lock's files under a process that used them; a crash that merely leaves its mark
\* and a `conan remove --locks' after it are both harmless.
ExclusionWhileIntact == intact => Exclusion

\* The number in the file is the truth about who is inside.
CountIsTrue ==
    intact => ReadersInFile = IF writers = {} THEN Cardinality(readers) ELSE -1

\* The lock does what LockPromise promises, step by step.
Promise == INSTANCE LockPromise
KeepsPromise == Promise!PromiseSpec

\* A process waits for ever only if others keep taking the lock, a dead process has
\* left its mark in it, or the promise was lost.
Waiting(p) == pc[p] \in {"wait", "open", "hold"} /\ p \notin Holders
WaiterIsAdmitted ==
    \A p \in Proc : Waiting(p) ~> (~Waiting(p) \/ Holders # {} \/ ~intact)

\* A live process that wants to leave does leave, whatever the others do with the
\* gate and the files.
Leaving(p) == pc[p] \in {"wait", "open", "hold"} /\ p \in Holders
LeaverGetsOut == \A p \in Proc : Leaving(p) ~> (~Leaving(p))
=============================================================================
