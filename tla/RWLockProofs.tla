--------------------------- MODULE RWLockProofs ---------------------------
(***************************************************************************)
(* Proofs about RWLock, for any finite set of processes and any bounds:    *)
(* the lock excludes and its count is true while the promise is intact,    *)
(* and every step of it is a step LockPromise allows.                      *)
(***************************************************************************)
EXTENDS RWLock, FiniteSetTheorems, TLAPS

\* A reader inside asked to read, a writer inside asked to write.
WantMatches ==
    /\ \A p \in readers : want[p] = "read"
    /\ \A p \in writers : want[p] = "write"

\* Nobody holds or waits for a gate file that the path no longer names.
GateIsCurrent == \A p \in Proc : InGate(p) => fd[p] = gate

\* One process at a time has the gate, and what it read there still holds.
OneInGate == \A p, q \in Proc : pc[p] = "hold" /\ pc[q] = "hold" => p = q
SeenIsTrue == \A p \in Proc : pc[p] = "hold" => seen[p] = ReadersInFile

\* Who is inside, by where it is.
InsideIsHolder == \A p \in Proc : pc[p] = "in" => p \in Holders
IdleIsOutside == \A p \in Proc : pc[p] = "idle" => p \notin Holders

Strong == /\ Exclusion /\ WantMatches /\ GateIsCurrent /\ OneInGate
          /\ SeenIsTrue /\ InsideIsHolder /\ IdleIsOutside
          /\ ReadersInFile = IF writers = {} THEN Cardinality(readers) ELSE -1

IInv == TypeOK /\ (intact => Strong)

\* The actions keep the types; only Admit and Leave put a number in the file, and it
\* is an integer because what they read was one.
THEOREM TypeCorrect == Spec => []TypeOK
<1> USE ProcFinite, UnreadableIsNoNumber, BoundsAreNaturals
<1>1. Init => TypeOK
  BY DEF Init, TypeOK
<1>2. TypeOK /\ [Next]_vars => TypeOK'
  <2> SUFFICES ASSUME TypeOK, [Next]_vars PROVE TypeOK'
    OBVIOUS
  <2>0. ReadersInFile \in Int
    BY DEF TypeOK, ReadersInFile
  <2> USE DEF TypeOK, holderVars, bounds, CloseGate
  <2>1. ASSUME NEW p \in Proc, Enter(p) PROVE TypeOK'
    BY <2>1 DEF Enter
  <2>2. ASSUME NEW p \in Proc, Exit(p) PROVE TypeOK'
    BY <2>2 DEF Exit
  <2>3. ASSUME NEW p \in Proc, OpenGate(p) PROVE TypeOK'
    BY <2>3 DEF OpenGate
  <2>4. ASSUME NEW p \in Proc, ReadCount(p) PROVE TypeOK'
    BY <2>4, <2>0 DEF ReadCount
  <2>5. ASSUME NEW p \in Proc, Admit(p) PROVE TypeOK'
    <3>1. seen[p] + 1 \in Int /\ -1 \in Int
      OBVIOUS
    <3> QED BY <2>5, <3>1 DEF Admit
  <2>6. ASSUME NEW p \in Proc, Refuse(p) PROVE TypeOK'
    BY <2>6 DEF Refuse
  <2>7. ASSUME NEW p \in Proc, Leave(p) PROVE TypeOK'
    <3>1. seen[p] - 1 \in Int /\ 0 \in Int
      OBVIOUS
    <3> QED BY <2>7, <3>1 DEF Leave
  <2>8. ASSUME NEW p \in Proc, Crash(p) PROVE TypeOK'
    <3>1. crashes' \in Nat /\ cleans' \in Nat /\ updates' \in Nat
      BY <2>8 DEF Crash
    <3>2. count' \in Int \union {Unreadable} /\ intact' \in BOOLEAN
      BY <2>8 DEF Crash
    <3>3. UNCHANGED <<gate, want, readers, writers>>
      BY <2>8 DEF Crash
    <3>4. CloseGate(p, "dead")
      BY <2>8 DEF Crash
    <3> QED BY <3>1, <3>2, <3>3, <3>4
  <2>9. ASSUME NEW p \in Proc, DropCount(p) PROVE TypeOK'
    BY <2>9 DEF DropCount
  <2>10. ASSUME NEW p \in Proc, DropGate(p) PROVE TypeOK'
    BY <2>10 DEF DropGate
  <2>11. ASSUME UNCHANGED vars PROVE TypeOK'
    BY <2>11 DEF vars
  <2> QED
    BY <2>1, <2>2, <2>3, <2>4, <2>5, <2>6, <2>7, <2>8, <2>9, <2>10, <2>11 DEF Next
<1> QED BY <1>1, <1>2, PTL DEF Spec
----------------------------------------------------------------------------
\* The cardinality of the readers, who are finitely many.
LEMMA ReadersAreFinite == ASSUME TypeOK PROVE IsFiniteSet(readers)
BY ProcFinite, FS_Subset DEF TypeOK

\* One reader more or less changes their number by one.
LEMMA CardinalityOfReaders ==
    ASSUME TypeOK
    PROVE  /\ Cardinality(readers) \in Nat
           /\ Cardinality(readers) = 0 <=> readers = {}
           /\ \A p \in Proc \ readers :
                 Cardinality(readers \union {p}) = Cardinality(readers) + 1
           /\ \A p \in readers : Cardinality(readers \ {p}) = Cardinality(readers) - 1
BY ReadersAreFinite, FS_CardinalityType, FS_EmptySet, FS_AddElement, FS_RemoveElement

\* Whoever is admitted finds no writer inside, and a writer finds nobody at all.
LEMMA AdmitFindsRoom ==
    ASSUME TypeOK, Strong, NEW p \in Proc, Admit(p)
    PROVE  writers = {} /\ (want[p] = "write" => readers = {})
<1> USE DEF TypeOK, Admit
<1>1. seen[p] = IF writers = {} THEN Cardinality(readers) ELSE -1
  BY DEF Strong, SeenIsTrue
<1>2. writers = {}
  BY <1>1 DEF Admissible
<1> QED BY <1>1, <1>2, CardinalityOfReaders DEF Admissible

\* The one that saves has just read the truth, and nobody else is at the gate.
LEMMA AdmitKeepsStrong ==
    ASSUME TypeOK, TypeOK', Strong, NEW p \in Proc, Admit(p)
    PROVE  Strong'
<1> USE DEF TypeOK, Admit, CloseGate, Holders
<1>1. pc[p] = "hold" /\ seen[p] = ReadersInFile /\ p \notin Holders
  BY DEF Strong, SeenIsTrue
<1>2. \A q \in Proc : q # p => pc[q] # "hold"
  BY <1>1 DEF Strong, OneInGate
<1>3. writers = {}
  BY AdmitFindsRoom
<1>4. WantMatches' /\ GateIsCurrent' /\ OneInGate' /\ SeenIsTrue'
      /\ InsideIsHolder' /\ IdleIsOutside'
  <2>1. /\ pc' = [pc EXCEPT ![p] = "in"] /\ fd' = [fd EXCEPT ![p] = 0]
        /\ seen' = [seen EXCEPT ![p] = 0] /\ want' = want /\ gate' = gate
    OBVIOUS
  <2>2. /\ readers' \union writers' = readers \union writers \union {p}
        /\ readers' \subseteq readers \union {p}
        /\ writers' \subseteq writers \union {p}
    OBVIOUS
  <2>3. WantMatches'
    BY <1>3, <2>1 DEF Strong, WantMatches
  <2>4. GateIsCurrent'
    BY <2>1 DEF Strong, GateIsCurrent, InGate
  <2>5. OneInGate' /\ SeenIsTrue'
    BY <1>2, <2>1 DEF OneInGate, SeenIsTrue
  <2>6. InsideIsHolder' /\ IdleIsOutside'
    BY <2>1, <2>2 DEF Strong, InsideIsHolder, IdleIsOutside
  <2> QED BY <2>3, <2>4, <2>5, <2>6
<1>5. CASE want[p] = "read"
  <2>1. readers' = readers \union {p} /\ writers' = {}
    BY <1>3, <1>5
  <2>2. count' = Cardinality(readers) + 1 /\ count' # Unreadable
    <3>1. seen[p] = Cardinality(readers)
      BY <1>1, <1>3 DEF Strong
    <3>2. count' \in Int
      BY <1>5
    <3> QED BY <1>5, <3>1, <3>2, UnreadableIsNoNumber
  <2>3. Cardinality(readers') = Cardinality(readers) + 1
    BY <1>1, <2>1, CardinalityOfReaders
  <2>4. ReadersInFile' = IF writers' = {} THEN Cardinality(readers') ELSE -1
    BY <2>1, <2>2, <2>3 DEF ReadersInFile
  <2> QED BY <1>4, <2>1, <2>4 DEF Strong, Exclusion
<1>6. CASE want[p] = "write"
  <2>1. readers = {}
    BY <1>6, AdmitFindsRoom
  <2>2. readers' = {} /\ writers' = {p} /\ count' = -1
    BY <1>3, <1>6, <2>1
  <2>3. ReadersInFile' = -1
    BY <2>2, UnreadableIsNoNumber DEF ReadersInFile
  <2> QED BY <1>4, <2>2, <2>3 DEF Strong, Exclusion
<1> QED BY <1>5, <1>6

\* A writer that leaves was alone, a reader had the right number to decrease.
LEMMA LeaveKeepsStrong ==
    ASSUME TypeOK, TypeOK', Strong, NEW p \in Proc, Leave(p)
    PROVE  Strong'
<1> USE DEF TypeOK, Leave, CloseGate, Holders
<1>1. seen[p] = ReadersInFile
  BY DEF Strong, SeenIsTrue
<1>2. \A q \in Proc : q # p => pc[q] # "hold"
  BY DEF Strong, OneInGate
<1>3. /\ pc' = [pc EXCEPT ![p] = "idle"] /\ fd' = [fd EXCEPT ![p] = 0]
      /\ seen' = [seen EXCEPT ![p] = 0] /\ want' = want /\ gate' = gate
      /\ readers' = readers \ {p} /\ writers' = writers \ {p}
  OBVIOUS
<1>4. WantMatches' /\ GateIsCurrent'
  BY <1>3 DEF Strong, WantMatches, GateIsCurrent, InGate
<1>5. OneInGate' /\ SeenIsTrue'
  BY <1>2, <1>3 DEF OneInGate, SeenIsTrue
<1>6. InsideIsHolder' /\ IdleIsOutside'
  BY <1>3 DEF Strong, InsideIsHolder, IdleIsOutside
<1>7. CASE want[p] = "read"
  <2>1. p \in readers /\ writers = {}
    BY <1>7 DEF Strong, WantMatches, Exclusion
  <2>2. count' = Cardinality(readers) - 1 /\ count' # Unreadable
    <3>1. seen[p] = Cardinality(readers)
      BY <1>1, <2>1 DEF Strong
    <3>2. count' \in Int
      BY <1>7
    <3> QED BY <1>7, <3>1, <3>2, UnreadableIsNoNumber
  <2>3. Cardinality(readers') = Cardinality(readers) - 1
    BY <1>3, <2>1, CardinalityOfReaders
  <2>4. ReadersInFile' = IF writers' = {} THEN Cardinality(readers') ELSE -1
    BY <1>3, <2>1, <2>2, <2>3 DEF ReadersInFile
  <2> QED BY <1>3, <1>4, <1>5, <1>6, <2>1, <2>4 DEF Strong, Exclusion
<1>8. CASE want[p] = "write"
  <2>1. p \in writers /\ readers = {}
    BY <1>8 DEF Strong, WantMatches, Exclusion
  <2>2. writers' = {} /\ readers' = {}
    BY <1>3, <2>1 DEF Strong, Exclusion
  <2>3. count' = 0
    BY <1>8
  <2>4. ReadersInFile' = IF writers' = {} THEN Cardinality(readers') ELSE -1
    BY <2>2, <2>3, FS_EmptySet DEF ReadersInFile
  <2> QED BY <1>4, <1>5, <1>6, <2>2, <2>4 DEF Strong, Exclusion
<1> QED BY <1>7, <1>8

\* Deleting the count keeps the promise only when all that are inside are dead and
\* nobody is between its read and its save.
LEMMA DropCountKeepsStrong ==
    ASSUME TypeOK, Strong, NEW p \in Proc, DropCount(p), intact'
    PROVE  Strong'
<1> USE DEF TypeOK, DropCount
<1>1. Holders \subseteq Dead /\ \A q \in Proc : pc[q] # "hold"
  OBVIOUS
<1>2. readers' = {} /\ writers' = {} /\ count' = Unreadable
  BY <1>1 DEF Holders
<1>3. ReadersInFile' = 0 /\ Cardinality({}) = 0
  BY <1>2, FS_EmptySet DEF ReadersInFile
<1>4. pc' = [pc EXCEPT ![p] = "drop"] /\ fd' = fd /\ gate' = gate /\ want' = want
  OBVIOUS
<1>5. \A q \in Proc : pc'[q] # "in"
  <2>1. \A q \in Proc : pc[q] = "in" => q \in Dead
    BY <1>1 DEF Strong, InsideIsHolder
  <2> QED BY <1>4, <2>1 DEF Dead
<1>6. GateIsCurrent' /\ OneInGate' /\ SeenIsTrue'
  BY <1>1, <1>4 DEF Strong, GateIsCurrent, InGate, OneInGate, SeenIsTrue
<1> QED
  BY <1>2, <1>3, <1>5, <1>6
     DEF Strong, Exclusion, WantMatches, InsideIsHolder, IdleIsOutside, Holders

\* The steps that leave the count and the holders alone.
LEMMA OtherStepsKeepStrong ==
    ASSUME TypeOK, Strong, intact', NEW p \in Proc,
           \/ Enter(p) \/ Exit(p) \/ OpenGate(p) \/ ReadCount(p)
           \/ Refuse(p) \/ Crash(p) \/ DropGate(p)
    PROVE  Strong'
<1> USE DEF TypeOK, holderVars, bounds
<1>1. readers' = readers /\ writers' = writers /\ count' = count
  BY DEF Enter, Exit, OpenGate, ReadCount, Refuse, Crash, DropGate
<1>2. Exclusion' /\ Holders' = Holders /\ ReadersInFile' = ReadersInFile
      /\ ReadersInFile' = IF writers' = {} THEN Cardinality(readers') ELSE -1
  BY <1>1 DEF Strong, Exclusion, Holders, ReadersInFile
<1>3. ASSUME Enter(p) PROVE Strong'
  <2>1. /\ pc' = [pc EXCEPT ![p] = "wait"] /\ fd' = fd /\ seen' = seen
        /\ gate' = gate /\ \A q \in Proc : q # p => want'[q] = want[q]
        /\ p \notin Holders
    BY <1>3 DEF Enter, Strong, IdleIsOutside
  <2> QED BY <1>1, <1>2, <2>1 DEF Strong, WantMatches, GateIsCurrent, InGate,
             OneInGate, SeenIsTrue, InsideIsHolder, IdleIsOutside, Holders
<1>4. ASSUME Exit(p) PROVE Strong'
  BY <1>1, <1>2, <1>4 DEF Exit, Strong, WantMatches, GateIsCurrent, InGate,
     OneInGate, SeenIsTrue, InsideIsHolder, IdleIsOutside
<1>5. ASSUME OpenGate(p) PROVE Strong'
  BY <1>1, <1>2, <1>5 DEF OpenGate, Strong, WantMatches, GateIsCurrent, InGate,
     OneInGate, SeenIsTrue, InsideIsHolder, IdleIsOutside
<1>6. ASSUME ReadCount(p) PROVE Strong'
  <2>1. \A q \in Proc : pc[q] # "hold"
    BY <1>6 DEF ReadCount, Strong, GateIsCurrent, InGate
  <2> QED BY <1>1, <1>2, <1>6, <2>1 DEF ReadCount, Strong, WantMatches, GateIsCurrent,
             InGate, OneInGate, SeenIsTrue, InsideIsHolder, IdleIsOutside
<1>7. ASSUME Refuse(p) PROVE Strong'
  BY <1>1, <1>2, <1>7 DEF Refuse, CloseGate, Strong, WantMatches, GateIsCurrent, InGate,
     OneInGate, SeenIsTrue, InsideIsHolder, IdleIsOutside
<1>8. ASSUME Crash(p) PROVE Strong'
  <2>1. CloseGate(p, "dead") /\ want' = want /\ gate' = gate
    BY <1>8 DEF Crash
  <2> QED BY <1>1, <1>2, <2>1 DEF CloseGate, Strong, WantMatches, GateIsCurrent, InGate,
             OneInGate, SeenIsTrue, InsideIsHolder, IdleIsOutside
<1>9. ASSUME DropGate(p) PROVE Strong'
  <2>1. \A q \in Proc : ~InGate(q)
    BY <1>9 DEF DropGate
  <2> QED BY <1>1, <1>2, <1>9, <2>1 DEF DropGate, Strong, WantMatches, GateIsCurrent,
             InGate, OneInGate, SeenIsTrue, InsideIsHolder, IdleIsOutside
<1> QED BY <1>3, <1>4, <1>5, <1>6, <1>7, <1>8, <1>9

\* No step gives a lost promise back.
LEMMA PromiseIsNotRestored ==
    ASSUME TypeOK, [Next]_vars, intact' PROVE intact
BY DEF Next, vars, Enter, Exit, OpenGate, ReadCount, Admit, Refuse, Leave, Crash,
       DropCount, DropGate

\* The inductive invariant: while the promise is intact, who is at the gate is alone
\* there and has read the truth.
THEOREM Invariance == Spec => []IInv
<1>1. Init => IInv
  <2> SUFFICES ASSUME Init PROVE IInv
    OBVIOUS
  <2>1. TypeOK
    BY BoundsAreNaturals DEF Init, TypeOK
  <2>2. ReadersInFile = 0 /\ Cardinality(readers) = 0
    BY FS_EmptySet DEF Init, ReadersInFile
  <2> QED BY <2>1, <2>2 DEF Init, IInv, Strong, Exclusion, WantMatches, GateIsCurrent,
             InGate, OneInGate, SeenIsTrue, InsideIsHolder, IdleIsOutside, Holders
<1>2. IInv /\ TypeOK' /\ [Next]_vars => IInv'
  <2> SUFFICES ASSUME IInv, TypeOK', [Next]_vars, intact' PROVE Strong'
    BY DEF IInv
  <2>1. TypeOK /\ Strong
    BY PromiseIsNotRestored DEF IInv
  <2>2. ASSUME UNCHANGED vars PROVE Strong'
    BY <2>1, <2>2 DEF vars, Strong, Exclusion, WantMatches, GateIsCurrent, InGate,
       OneInGate, SeenIsTrue, InsideIsHolder, IdleIsOutside, Holders, ReadersInFile
  <2>3. ASSUME NEW p \in Proc, Admit(p) PROVE Strong'
    BY <2>1, <2>3, AdmitKeepsStrong
  <2>4. ASSUME NEW p \in Proc, Leave(p) PROVE Strong'
    BY <2>1, <2>4, LeaveKeepsStrong
  <2>5. ASSUME NEW p \in Proc, DropCount(p) PROVE Strong'
    BY <2>1, <2>5, DropCountKeepsStrong
  <2>6. ASSUME NEW p \in Proc,
               \/ Enter(p) \/ Exit(p) \/ OpenGate(p) \/ ReadCount(p)
               \/ Refuse(p) \/ Crash(p) \/ DropGate(p)
        PROVE  Strong'
    BY <2>1, <2>6, OtherStepsKeepStrong
  <2> QED BY <2>2, <2>3, <2>4, <2>5, <2>6 DEF Next
<1> QED BY <1>1, <1>2, TypeCorrect, PTL DEF Spec

\* A writer inside is alone, for any number of processes, as long as no save was torn
\* and nobody deleted the lock's files under a process that used them.
THEOREM LockExcludes == Spec => []ExclusionWhileIntact
<1>1. IInv => ExclusionWhileIntact
  BY DEF IInv, Strong, ExclusionWhileIntact
<1> QED BY <1>1, Invariance, PTL

\* The number in the count file is then the number of readers inside, or -1.
THEOREM CountTellsTheTruth == Spec => []CountIsTrue
<1>1. IInv => CountIsTrue
  BY DEF IInv, Strong, CountIsTrue
<1> QED BY <1>1, Invariance, PTL
----------------------------------------------------------------------------
\* The count-file protocol implements the promise: every step is an admission that the
\* promise allows, a departure, the loss of the promise, or nothing to its users.
THEOREM LockKeepsPromise == Spec => KeepsPromise
<1> USE DEF Promise!promiseVars
<1>1. Init => Promise!PromiseInit
  BY DEF Init, Promise!PromiseInit
<1>2. IInv /\ TypeOK' /\ [Next]_vars => [Promise!PromiseNext]_(Promise!promiseVars)
  <2> SUFFICES ASSUME IInv, TypeOK', [Next]_vars
               PROVE  [Promise!PromiseNext]_(Promise!promiseVars)
    OBVIOUS
  <2>1. CASE ~intact'
    BY <2>1 DEF TypeOK, Promise!PromiseNext, Promise!Lose
  <2>2. CASE intact'
    <3>1. intact /\ TypeOK /\ Strong
      BY <2>2, PromiseIsNotRestored DEF IInv
    <3>2. intact' = intact
      BY <2>2, <3>1 DEF TypeOK
    <3>3. ASSUME NEW p \in Proc, Admit(p)
          PROVE  Promise!AdmitReader(p) \/ Promise!AdmitWriter(p)
      <4>1. writers = {} /\ (want[p] = "write" => readers = {})
        BY <3>1, <3>3, AdmitFindsRoom
      <4> QED BY <3>1, <3>2, <3>3, <4>1
              DEF Admit, TypeOK, Promise!AdmitReader, Promise!AdmitWriter
    <3>4. ASSUME NEW p \in Proc, Leave(p) \/ DropCount(p) PROVE Promise!Withdraw
      BY <3>2, <3>4 DEF Leave, DropCount, Promise!Withdraw
    <3>5. ASSUME NEW p \in Proc,
                 \/ Enter(p) \/ Exit(p) \/ OpenGate(p) \/ ReadCount(p)
                 \/ Refuse(p) \/ Crash(p) \/ DropGate(p)
          PROVE  UNCHANGED Promise!promiseVars
      BY <3>2, <3>5 DEF Enter, Exit, OpenGate, ReadCount, Refuse, Crash, DropGate, holderVars
    <3>6. ASSUME UNCHANGED vars PROVE UNCHANGED Promise!promiseVars
      BY <3>6 DEF vars
    <3> QED BY <3>1, <3>3, <3>4, <3>5, <3>6 DEF Next, Promise!PromiseNext
  <2> QED BY <2>1, <2>2
<1> QED
  BY <1>1, <1>2, Invariance, TypeCorrect, PTL DEF Spec, KeepsPromise, Promise!PromiseSpec
=============================================================================
