------------------------ MODULE BuildFoldersProofs ------------------------
(***************************************************************************)
(* Proofs about BuildFolders, for any processes, packages and recipes, and *)
(* any way build folders are shared: sources stay as they are while        *)
(* anybody builds, a part of them is marked, and no package is made of a   *)
(* build that did not end, as long as no two overlap in a build folder.    *)
(***************************************************************************)
EXTENDS BuildFolders, TLAPS

\* What is left of the lock's promise after any of its steps: a writer is alone.
\* The dead count: their mark is still in the lock.
LockExcludes == \A w \in writers : writers = {w} /\ readers = {}

\* TypeOK, by what it is about: the folders, or the processes and their lock.
FoldersType ==
    /\ recipe \in Recipe
    /\ source \in {"none", "partial", "whole"} /\ sourceDirty \in BOOLEAN
    /\ build \in [Package -> {"none", "partial", "whole", "built", "spoilt"}]
    /\ buildDirty \in [Package -> BOOLEAN]
    /\ package \in [Package -> {"none", "good", "bad"}]
    /\ at \in [Proc -> Package]
ProcType ==
    /\ skip \in [Proc -> BOOLEAN]
    /\ overlapped \in BOOLEAN /\ crashes \in Nat
    /\ pc \in [Proc -> {"idle", "look", "toPrepare", "toBuild", "dead"}
                     \union Preparing \union Building]
    /\ readers \subseteq Proc /\ writers \subseteq Proc

\* Who prepares is a writer, who builds is a reader, and nobody else alive is either.
HoldersFit ==
    \A p \in Proc :
        /\ p \in writers /\ pc[p] # "dead" <=> pc[p] \in Preparing
        /\ p \in readers /\ pc[p] # "dead" <=> pc[p] \in Building

IInv == /\ FoldersType /\ ProcType /\ HoldersFit /\ LockExcludes
        /\ PartialSourceIsDirty
---------------------------------------------------------------------------
\* The parts are all of TypeOK, in which the holders that live are sets of processes.
LEMMA TypeParts ==
    ASSUME FoldersType, ProcType, HoldersFit
    PROVE  TypeOK
<1>1. writers \ Dead = {p \in Proc : pc[p] \in Preparing}
  BY DEF ProcType, HoldersFit, Dead, Preparing
<1>2. readers \ Dead = {p \in Proc : pc[p] \in Building}
  BY DEF ProcType, HoldersFit, Dead, Building
<1> QED BY <1>1, <1>2 DEF TypeOK, FoldersType, ProcType

\* Nothing is there, and nobody holds the lock.
LEMMA InitEstablishes == Init => IInv
<1> SUFFICES ASSUME Init PROVE IInv
  OBVIOUS
<1> USE BuildConstants DEF Init, Lock!PromiseInit
<1>1. FoldersType
  BY DEF FoldersType
<1>2. ProcType /\ HoldersFit /\ LockExcludes /\ PartialSourceIsDirty
  BY DEF ProcType, HoldersFit, LockExcludes, PartialSourceIsDirty, Preparing, Building
<1> QED BY <1>1, <1>2 DEF IInv

\* Every action keeps it: each holds the lock in the mode that its place says, and the
\* flag of the sources is up from before the first file to after the last.
LEMMA IInvStep == IInv /\ [Next]_vars => IInv'
<1> SUFFICES ASSUME IInv, [Next]_vars PROVE IInv'
  OBVIOUS
<1>0. FoldersType /\ ProcType /\ HoldersFit /\ LockExcludes /\ PartialSourceIsDirty
  BY DEF IInv
<1>b. BuildId \in [Package -> Package] /\ \A p \in Proc : Folder(p) \in Package
  BY <1>0, BuildConstants DEF FoldersType, Folder
<1> USE DEF IInv, FoldersType, ProcType, HoldersFit, LockExcludes, PartialSourceIsDirty,
        Preparing, Building, folders, lock, At, Unlocked
<1>1. CASE CleanLocks
  BY <1>0, <1>1 DEF CleanLocks, Dead
<1>2. CASE UNCHANGED vars
  BY <1>0, <1>2 DEF vars
<1>3. ASSUME NEW p \in Proc, Step(p) PROVE IInv'
  <2>1. CASE \E k \in Package : Begin(p, k)
    BY <1>0, <2>1 DEF Begin
  <2>2. CASE Look(p)
    BY <1>0, <1>b, <2>2 DEF Look
  <2>3. CASE LockToPrepare(p)
    BY <1>0, <1>b, <2>3 DEF LockToPrepare, Lock!AdmitWriter
  <2>4. CASE MarkBuildFolder(p)
    BY <1>0, <1>b, <2>4 DEF MarkBuildFolder
  <2>5. CASE ClearBuildFolder(p)
    BY <1>0, <1>b, <2>5 DEF ClearBuildFolder
  <2>6. CASE KeepSource(p)
    BY <1>0, <1>b, <2>6 DEF KeepSource
  <2>7. CASE DropSource(p)
    BY <1>0, <1>b, <2>7 DEF DropSource
  <2>8. CASE Fetch(p)
    BY <1>0, <1>b, <2>8 DEF Fetch
  <2>9. CASE Fetched(p)
    BY <1>0, <1>b, <2>9 DEF Fetched
  <2>10. CASE Copy(p)
    BY <1>0, <1>b, <2>10 DEF Copy
  <2>11. CASE Copied(p)
    BY <1>0, <1>b, <2>11 DEF Copied
  <2>12. CASE NothingToCopy(p)
    BY <1>0, <1>b, <2>12 DEF NothingToCopy
  <2>13. CASE UnlockPrepared(p)
    BY <1>0, <1>b, <2>13 DEF UnlockPrepared
  <2>14. CASE LockToBuild(p)
    BY <1>0, <1>b, <2>14 DEF LockToBuild, Lock!AdmitReader
  <2>15. CASE EnterBuildFolder(p)
    BY <1>0, <1>b, <2>15 DEF EnterBuildFolder
  <2>16. CASE Build(p)
    BY <1>0, <1>b, <2>16 DEF Build, Inputs
  <2>17. CASE CleanBuildFolder(p)
    BY <1>0, <1>b, <2>17 DEF CleanBuildFolder
  <2>18. CASE Pack(p)
    BY <1>0, <1>b, <2>18 DEF Pack
  <2>19. CASE Fail(p)
    BY <1>0, <1>b, <2>19 DEF Fail
  <2>20. CASE Crash(p)
    BY <1>0, <1>b, <2>20 DEF Crash, Busy
  <2>21. CASE SourceDropped(p)
    BY <1>0, <1>b, <2>21 DEF SourceDropped
  <2>22. CASE DropRefused(p)
    BY <1>0, <1>b, <2>22 DEF DropRefused
  <2> QED
    BY <1>3, <2>1, <2>2, <2>3, <2>4, <2>5, <2>6, <2>7, <2>8, <2>9, <2>10, <2>11, <2>12, <2>13, <2>14, <2>15, <2>16, <2>17, <2>18, <2>19, <2>20, <2>21, <2>22 DEF Step
<1> QED BY <1>1, <1>2, <1>3 DEF Next
---------------------------------------------------------------------------
\* The inductive invariant: the places of the processes and the holders of the recipe
\* lock fit each other, a writer is alone, and a part of the sources is marked, where it
\* would otherwise be kept.
THEOREM FoldersInvariance == Spec => []IInv
BY InitEstablishes, IInvStep, PTL DEF Spec

\* Every variable keeps its type, and who changes a folder has the lock it needs.
THEOREM FoldersTypeCorrect == Spec => []TypeOK
<1>1. IInv => TypeOK
  BY TypeParts DEF IInv
<1> QED BY <1>1, FoldersInvariance, PTL

\* Sources that were not fetched, or not removed, to the end carry their dirty flag,
\* wherever a process failed or was killed, if the recipe does not have them removed at
\* every build.
THEOREM PartialSourceIsMarked == Spec => []PartialSourceIsDirty
<1>1. IInv => PartialSourceIsDirty
  BY DEF IInv
<1> QED BY <1>1, FoldersInvariance, PTL

\* While a live process builds there is no writer, and only writers touch the sources.
LEMMA StepKeepsSources ==
    IInv /\ [Next]_vars => [readers \ Dead # {} => source' = source]_vars
<1> SUFFICES ASSUME IInv, Next, NEW r \in readers \ Dead
             PROVE  source' = source
  OBVIOUS
<1>1. writers = {}
  BY DEF IInv, LockExcludes
<1>2. \A p \in Proc : pc[p] \notin Preparing
  BY <1>1 DEF IInv, HoldersFit
<1> USE DEF folders, At, Preparing
<1>3. CASE CleanLocks
  BY <1>3 DEF CleanLocks
<1>4. ASSUME NEW p \in Proc, Step(p) PROVE source' = source
  <2>1. ~DropSource(p) /\ ~SourceDropped(p) /\ ~Fetch(p) /\ ~Fetched(p)
    BY <1>2 DEF DropSource, SourceDropped, Fetch, Fetched
  <2> QED
    BY <1>4, <2>1 DEF Step, Begin, Look, LockToPrepare, MarkBuildFolder,
       ClearBuildFolder, KeepSource, Copy, Copied, NothingToCopy, UnlockPrepared,
       LockToBuild, EnterBuildFolder, Build, CleanBuildFolder, Pack, Fail,
       DropRefused, Crash
<1> QED BY <1>3, <1>4 DEF Next

\* Sources do not change under a build, for any number of processes and packages, any
\* recipe and any sharing of build folders.
THEOREM SourcesStay == Spec => SourcesStayWhileBuilding
BY FoldersInvariance, StepKeepsSources, PTL DEF Spec, SourcesStayWhileBuilding
---------------------------------------------------------------------------
(* That no bad package is made: what each process relies on between the looks at the   *)
(* folders and their use.                                                              *)

\* Recipes that fetch their sources at every build and build in them are out: the README
\* tells why.
SourcesAreKept == ~(recipe.noCopySource /\ recipe.buildAlways)

OneInFolder == \A p, q \in Busy : p # q => Folder(p) # Folder(q)
CleanIsBuilt == \A b \in Package : ~buildDirty[b] => build[b] \in {"none", "built"}
WholeIsClean == source = "whole" => ~sourceDirty

\* On its way from prepared sources to a finished build.
Underway(p) == pc[p] = "build" \/ (pc[p] \in {"toBuild", "enter"} /\ ~skip[p])
\* Its build folder is marked, from the mark to the end of the build.
MarksFolder(p) ==
    \/ pc[p] \in {"clear", "source", "drop", "fetch", "fetching", "copy", "copying",
                 "prepared", "clean"}
    \/ Underway(p)
\* A build in its folder has come to an end.
HasBuild(p) == pc[p] \in {"clean", "pack"} \/ (pc[p] \in {"toBuild", "enter"} /\ skip[p])
\* What p has made sure of, and nobody takes away from it.
MadeSure(p) ==
    /\ skip[p] => pc[p] \notin Preparing \union {"toPrepare", "build", "clean"}
    /\ MarksFolder(p) => buildDirty[Folder(p)]
    /\ HasBuild(p) => build[Folder(p)] = "built"
    /\ pc[p] = "drop" => source = "partial"
    /\ pc[p] = "fetch" => source = "none"
    /\ pc[p] \in {"copy", "copying", "prepared"} => source = "whole"
    /\ ~recipe.noCopySource /\ (pc[p] = "prepared" \/ Underway(p)) =>
          build[Folder(p)] = "whole"
    /\ recipe.noCopySource /\ Underway(p) => source = "whole"
GInv == /\ OneInFolder /\ CleanIsBuilt /\ WholeIsClean
        /\ \A p \in Proc : MadeSure(p)
        /\ PackageIsGood

\* Nothing is there.
LEMMA InitIsGood == Init => GInv
BY BuildConstants DEF Init, GInv, OneInFolder, CleanIsBuilt, WholeIsClean, MadeSure, MarksFolder,
   HasBuild, Underway, PackageIsGood, Busy, Preparing

\* As long as no two processes have been in one build folder, every step keeps it.
LEMMA StepIsGood ==
    ASSUME IInv, SourcesAreKept, GInv, ~overlapped', NEW p \in Proc, Step(p)
    PROVE  GInv'
<1>0. FoldersType /\ ProcType /\ HoldersFit /\ LockExcludes /\ PartialSourceIsDirty
  BY DEF IInv
<1>b. BuildId \in [Package -> Package] /\ \A q \in Proc : Folder(q) \in Package
  BY <1>0, BuildConstants DEF FoldersType, Folder
<1>w. \A q, r \in Proc : pc[q] \in Preparing /\ pc[r] \in Preparing \union Building => q = r
  BY <1>0 DEF HoldersFit, LockExcludes
<1> USE DEF GInv, OneInFolder, CleanIsBuilt, WholeIsClean, MadeSure, MarksFolder, HasBuild,
        Underway, PackageIsGood, Busy, Preparing, Building, Folder, At, folders, lock,
        FoldersType, ProcType, PartialSourceIsDirty, SourcesAreKept, Recipe
<1>1. CASE \E k \in Package : Begin(p, k)
  <2>1. PICK k \in Package : Begin(p, k)
    BY <1>1
  <2>2. /\ pc[p] = "idle" /\ pc' = [pc EXCEPT ![p] = "look"] /\ at' = [at EXCEPT ![p] = k]
        /\ UNCHANGED <<folders, skip, lock>>
        /\ \A q \in Proc \ {p} : at'[q] = at[q] /\ pc'[q] = pc[q]
        /\ at'[p] = k /\ pc'[p] = "look"
    BY <1>0, <2>1 DEF Begin
  <2>3. ~overlapped /\ \A q \in Busy : Folder(q) # BuildId[k]
    BY <1>0, <2>1 DEF Begin
  <2>4. OneInFolder'
    BY <1>0, <2>2, <2>3
  <2>5. \A q \in Proc : MadeSure(q)'
    BY <1>0, <2>2
  <2>6. CleanIsBuilt' /\ WholeIsClean' /\ PackageIsGood'
    BY <1>0, <2>2
  <2> QED
    BY <2>4, <2>5, <2>6
<1>2. CASE Look(p)
  BY <1>0, <1>b, <1>w, <1>2 DEF Look
<1>3. CASE LockToPrepare(p)
  BY <1>0, <1>b, <1>w, <1>3 DEF LockToPrepare, Lock!AdmitWriter
<1>4. CASE MarkBuildFolder(p)
  BY <1>0, <1>b, <1>w, <1>4 DEF MarkBuildFolder
<1>5. CASE ClearBuildFolder(p)
  BY <1>0, <1>b, <1>w, <1>5 DEF ClearBuildFolder
<1>6. CASE KeepSource(p)
  BY <1>0, <1>b, <1>w, <1>6 DEF KeepSource
<1>7. CASE DropSource(p)
  BY <1>0, <1>b, <1>w, <1>7 DEF DropSource
<1>8. CASE Fetch(p)
  BY <1>0, <1>b, <1>w, <1>8 DEF Fetch
<1>9. CASE Fetched(p)
  BY <1>0, <1>b, <1>w, <1>9 DEF Fetched
<1>10. CASE Copy(p)
  BY <1>0, <1>b, <1>w, <1>10 DEF Copy
<1>11. CASE Copied(p)
  BY <1>0, <1>b, <1>w, <1>11 DEF Copied
<1>12. CASE NothingToCopy(p)
  BY <1>0, <1>b, <1>w, <1>12 DEF NothingToCopy
<1>13. CASE UnlockPrepared(p)
  BY <1>0, <1>b, <1>w, <1>13 DEF UnlockPrepared
<1>14. CASE LockToBuild(p)
  BY <1>0, <1>b, <1>w, <1>14 DEF LockToBuild, Lock!AdmitReader
<1>15. CASE EnterBuildFolder(p)
  BY <1>0, <1>b, <1>w, <1>15 DEF EnterBuildFolder
<1>16. CASE Build(p)
  BY <1>0, <1>b, <1>w, <1>16 DEF Build, Inputs
<1>17. CASE CleanBuildFolder(p)
  BY <1>0, <1>b, <1>w, <1>17 DEF CleanBuildFolder
<1>18. CASE Pack(p)
  BY <1>0, <1>b, <1>w, <1>18 DEF Pack
<1>19. CASE Fail(p)
  BY <1>0, <1>b, <1>w, <1>19 DEF Fail
<1>20. CASE Crash(p)
  BY <1>0, <1>b, <1>w, <1>20 DEF Crash
<1>21. CASE SourceDropped(p)
  <2>1. /\ pc[p] \in {"drop", "source"} /\ pc' = [pc EXCEPT ![p] = "fetch"] /\ source' = "none"
        /\ UNCHANGED <<recipe, sourceDirty, build, buildDirty, package, at, skip, overlapped>>
    BY <1>21 DEF SourceDropped
  <2>2. OneInFolder' /\ CleanIsBuilt' /\ WholeIsClean' /\ PackageIsGood'
    BY <1>0, <2>1
  <2>3. \A q \in Proc \ {p} : pc[q] \notin Preparing \union Building /\ pc'[q] = pc[q]
    BY <1>0, <1>w, <2>1
  <2>4. MadeSure(p)'
    BY <1>0, <2>1
  \* Nobody is on the way to build in them: they were not whole any more.
  <2>w. source # "whole"
    BY <1>21 DEF SourceDropped
  <2>5. ASSUME NEW q \in Proc \ {p} PROVE MadeSure(q)'
    BY <1>0, <2>1, <2>3, <2>w
  <2> QED BY <2>2, <2>4, <2>5
<1>22. CASE DropRefused(p)
  BY <1>0, <1>b, <1>w, <1>22 DEF DropRefused
<1> QED
  BY <1>1, <1>2, <1>3, <1>4, <1>5, <1>6, <1>7, <1>8, <1>9, <1>10, <1>11, <1>12, <1>13, <1>14, <1>15, <1>16, <1>17, <1>18, <1>19, <1>20, <1>21, <1>22 DEF Step

\* Who runs `conan remove --locks' touches no folder.
LEMMA NextIsGood ==
    ASSUME IInv, SourcesAreKept /\ ~overlapped => GInv, [Next]_vars
    PROVE  (SourcesAreKept /\ ~overlapped => GInv)'
<1>1. ASSUME NEW p \in Proc, Step(p) PROVE UNCHANGED recipe /\ (overlapped => overlapped')
  <2>1. CASE \E k \in Package : Begin(p, k)
    BY <2>1 DEF Begin, folders
  <2> QED
    BY <1>1, <2>1 DEF Step, Look, LockToPrepare, MarkBuildFolder, ClearBuildFolder,
       KeepSource, DropSource, SourceDropped, DropRefused, Fetch, Fetched, Copy, Copied,
       NothingToCopy, UnlockPrepared, LockToBuild, EnterBuildFolder, Build,
       CleanBuildFolder, Pack, Fail, Crash, folders
<1>2. ASSUME NEW p \in Proc, Step(p), SourcesAreKept', ~overlapped' PROVE GInv'
  BY <1>1, <1>2, StepIsGood DEF SourcesAreKept
<1>3. ASSUME UNCHANGED <<folders, pc, at, skip, overlapped>>
      PROVE  (SourcesAreKept /\ ~overlapped => GInv)'
  BY <1>3 DEF folders, SourcesAreKept, GInv, OneInFolder, CleanIsBuilt, WholeIsClean, MadeSure,
     MarksFolder, HasBuild, Underway, PackageIsGood, Busy, Folder
<1>4. CASE CleanLocks
  BY <1>3, <1>4 DEF CleanLocks
<1>5. CASE UNCHANGED vars
  BY <1>3, <1>5 DEF vars
<1>6. CASE \E p \in Proc : Step(p)
  BY <1>2, <1>6
<1> QED
  BY <1>4, <1>5, <1>6 DEF Next

\* No package is made of a build that did not end or began without its sources, as long as
\* no two processes have ever been in one build folder: for any number of processes, wherever
\* they fail or are killed, and for any recipe but one that fetches its sources at
\* every build and builds in them.
THEOREM GoodPackages == Spec => [](SourcesAreKept => PackageIsGoodAlone)
<1>1. (SourcesAreKept /\ ~overlapped => GInv) => (SourcesAreKept => PackageIsGoodAlone)
  BY DEF GInv, PackageIsGoodAlone
<1> QED
  BY <1>1, InitIsGood, NextIsGood, FoldersInvariance, PTL DEF Spec
----------------------------------------------------------------------------
(* What BuildFolders does with the recipe lock is what LockPromise allows. *)

\* Nobody has deleted the lock's files in use.
Promised == intact = TRUE

LEMMA BuilderKeepsPromise ==
    ASSUME Promised, NEW p \in Proc, Step(p)
    PROVE  Promised' /\ [Lock!PromiseNext]_(Lock!promiseVars)
<1> USE DEF Promised, Lock!PromiseNext, Lock!promiseVars, Lock!Withdraw
<1>1. CASE LockToPrepare(p)
  BY <1>1 DEF LockToPrepare, Lock!AdmitWriter
<1>2. CASE LockToBuild(p)
  BY <1>2 DEF LockToBuild, Lock!AdmitReader
<1>3. CASE UnlockPrepared(p) \/ Pack(p) \/ Fail(p) \/ DropRefused(p)
  BY <1>3 DEF UnlockPrepared, Pack, Fail, DropRefused, Unlocked
<1>4. CASE UNCHANGED lock
  BY <1>4 DEF lock
<1>5. UNCHANGED lock \/ LockToPrepare(p) \/ LockToBuild(p) \/ UnlockPrepared(p) \/ Pack(p)
        \/ Fail(p) \/ DropRefused(p)
  BY DEF Step, Begin, Look, MarkBuildFolder, ClearBuildFolder, KeepSource, DropSource,
     SourceDropped, Fetch, Fetched, Copy, Copied, NothingToCopy, EnterBuildFolder, Build, CleanBuildFolder, Crash
<1> QED
  BY <1>1, <1>2, <1>3, <1>4, <1>5

\* Whoever builds takes and leaves the recipe lock as the lock promises: nobody is let in
\* beside a writer, and nothing that builders do, their deaths included, ends the promise.
THEOREM BuildersKeepThePromise == Spec => Lock!PromiseSpec /\ []Promised
<1> USE DEF Lock!promiseVars
<1>1. Init => Lock!PromiseInit /\ Promised
  BY DEF Promised, Init, Lock!PromiseInit
<1>2. Promised /\ [Next]_vars => Promised' /\ [Lock!PromiseNext]_(Lock!promiseVars)
  <2> SUFFICES ASSUME Promised, [Next]_vars
               PROVE  Promised' /\ [Lock!PromiseNext]_(Lock!promiseVars)
    OBVIOUS
  <2>1. CASE CleanLocks
    BY <2>1 DEF Promised, CleanLocks, Lock!PromiseNext, Lock!Withdraw
  <2>2. CASE UNCHANGED vars
    BY <2>2 DEF Promised, vars, lock
  <2>3. CASE \E p \in Proc : Step(p)
    BY <2>3, BuilderKeepsPromise
  <2> QED BY <2>1, <2>2, <2>3 DEF Next
<1> QED
  BY <1>1, <1>2, PTL DEF Spec, Lock!PromiseSpec
===========================================================================
