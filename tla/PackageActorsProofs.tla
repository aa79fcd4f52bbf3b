------------------------ MODULE PackageActorsProofs ------------------------
(***************************************************************************)
(* Proofs about PackageInstall and PackageActors, for any set of processes,*)
(* any modes and any bounds.  First: the dirty flag, metadata.json and the *)
(* package lock keep the package folder usable, whoever is interrupted     *)
(* where.  Then: what download, export-pkg and remove leave of a package   *)
(* that installations evaluate, fill and use beside them.                  *)
(***************************************************************************)
EXTENDS PackageActors, TLAPS
----------------------------------------------------------------------------
(* Installations alone. *)

\* TypeOK, by what it is about: the cache and the bounds, or the processes; and
\* what it says of the lock.
CacheType ==
    /\ recipe \in 1..MaxRecipes
    /\ server \in [Revision -> 0..made] /\ made \in Nat
    /\ folder \in Folder \union {NoFolder} /\ dirty \in BOOLEAN
    /\ meta \in [prev : 0..made, rrev : 0..MaxRecipes]
    /\ {installs, published, accidents} \subseteq Nat
ProcType ==
    /\ lock \in Proc \union {NoProc}
    /\ mode \in [Proc -> Mode] /\ rrev \in [Proc -> Revision]
    /\ binary \in [Proc -> {"none", "build", "cache", "download", "update"}]
    /\ prev \in [Proc -> 0..made]
    /\ outcome \in [Proc -> {"none", "used", "failed", "asserted", "crashed"}]
    /\ used \in [Proc -> Folder \union {NoFolder}]
    /\ pc \in [Proc -> Deciding \union Inside]
LockFits == \A p \in Proc : lock = p <=> pc[p] \in Inside

\* What the node of a process says, by the place it has come to.
NodeFits ==
    \A p \in Proc :
        /\ binary[p] \in {"download", "update"} => prev[p] # 0
        /\ pc[p] \in {"pack", "record", "clean"} => prev[p] # 0
        /\ pc[p] = "use" /\ binary[p] = "build" => prev[p] # 0
        /\ pc[p] \in {"clear", "remove", "record"} =>
               binary[p] \in {"build", "download", "update"}
        /\ pc[p] \in {"build", "pack"} => binary[p] = "build"
        /\ pc[p] \in {"fetch", "receive", "unzip"} =>
               binary[p] \in {"download", "update"}

TypeInv == CacheType /\ ProcType /\ NodeFits

\* From set_dirty to clean_dirty the flag is up.
MarkedWhileFilling ==
    \A p \in Proc : pc[p] \in Inside \ {"purge", "locked", "use"} => dirty

\* What the holder of the package lock knows of the folder and of its record.
RecordOf(p) == [prev |-> prev[p], rrev |-> rrev[p]]
HolderKnows ==
    \A p \in Proc :
        /\ pc[p] = "record" /\ binary[p] = "build" => folder = Holding(p, TRUE, TRUE)
        /\ pc[p] = "unzip" => meta = RecordOf(p)
        /\ pc[p] = "clean" => folder = Holding(p, TRUE, TRUE) /\ meta = RecordOf(p)
        /\ pc[p] = "use" /\ binary[p] = "build" => folder = Holding(p, TRUE, TRUE)

\* Without an accident a part of a package is there only while somebody fills it or
\* removes it.
PartIsBeingFilled ==
    accidents = 0 /\ Partial(folder) =>
        \E p \in Proc : pc[p] \in {"purge", "remove", "pack", "receive", "record", "unzip"}

FolderInv ==
    PartialIsDirty /\ RecordedIsStored /\ MarkedWhileFilling /\ HolderKnows
UseInv == PartIsBeingFilled /\ UsedIsWhole

IInv == TypeInv /\ LockFits /\ FolderInv /\ UseInv
---------------------------------------------------------------------------
\* What a process leaves in the folder is a folder.
LEMMA HoldingIsFolder ==
    ASSUME ProcType, CacheType, NEW p \in Proc, prev[p] # 0, NEW a \in BOOLEAN, NEW b \in BOOLEAN
    PROVE  Holding(p, a, b) \in Folder
BY DEF ProcType, CacheType, Holding, Folder, PackageRevision, Revision

\* What rmdir has left of a folder is one, and not whole.
LEMMA RemainsAreFolders ==
    ASSUME folder \in Folder, dirty \in BOOLEAN
    PROVE  \A f \in Remains(folder) :
             f \in Folder /\ f.prev = folder.prev /\ f.rrev = folder.rrev
             /\ ~f.whole /\ (f.torn \/ dirty)
BY DEF Remains, Folder

\* The three parts are all of it.
LEMMA TypeParts == TypeOK <=> CacheType /\ ProcType /\ LockFits
BY DEF TypeOK, CacheType, ProcType, LockFits

\* The end of a command, in whatever way, leaves the processes in order.
LEMMA EndKeepsTypes ==
    ASSUME CacheType, ProcType, NodeFits, NEW p \in Proc,
           NEW how \in {"none", "used", "failed", "asserted", "crashed"},
           NEW with \in Folder \union {NoFolder},
           End(p, how, with), UNCHANGED made
    PROVE  ProcType' /\ NodeFits'
<1> USE InstallConstants DEF ProcType, NodeFits, End, Decide, Inside, Deciding, Mode, Revision
<1>0. 0 \in 0..made /\ 1 \in 1..MaxRecipes
  BY DEF CacheType
<1>1. ProcType'
  BY <1>0
<1>2. NodeFits'
  OBVIOUS
<1> QED BY <1>1, <1>2

\* Revisions made so far stay so when one more is made.
LEMMA OneMore == ASSUME NEW n \in Nat PROVE n + 1 \in Nat /\ 0..n \subseteq 0..(n + 1)
OBVIOUS

\* A revision that others publish is newer than all that the processes know.
LEMMA PublishKeepsTypes == TypeInv /\ Publish => TypeInv'
<1> SUFFICES ASSUME TypeInv, Publish PROVE TypeInv'
  OBVIOUS
<1> USE InstallConstants DEF TypeInv, Publish, node
<1>1. made' = made + 1 /\ made \in Nat /\ made' \in Nat /\ 0..made \subseteq 0..made'
      /\ made' \in 0..made'
  BY OneMore DEF CacheType
<1>2. server' \in [Revision -> 0..made']
  <2>1. server \in [Revision -> 0..made'] /\ server' = [server EXCEPT ![recipe] = made']
    BY <1>1 DEF CacheType
  <2> QED BY <1>1, <2>1
<1>3. prev' \in [Proc -> 0..made']
  BY <1>1 DEF CacheType, ProcType
<1>4. meta' \in [prev : 0..made', rrev : 0..MaxRecipes]
  BY <1>1 DEF CacheType, ProcType
<1>5. NodeFits'
  BY DEF NodeFits
<1>6. {installs, published, accidents}' \subseteq Nat
  BY DEF CacheType, ProcType
<1> QED BY <1>1, <1>2, <1>3, <1>4, <1>5, <1>6 DEF CacheType, ProcType

\* So is the revision that a build makes, of which the folder then is a part.
LEMMA PackagingKeepsTypes ==
    ASSUME TypeInv, NEW p \in Proc, StartPackaging(p) PROVE TypeInv'
<1> USE InstallConstants, NoFolderIsNone DEF TypeInv, StartPackaging, At
<1>1. made' = made + 1 /\ made \in Nat /\ made' \in Nat /\ 0..made \subseteq 0..made'
      /\ made' # 0 /\ made' \in 0..made'
  BY OneMore DEF CacheType, ProcType
<1>2. server' \in [Revision -> 0..made']
  BY <1>1 DEF CacheType, ProcType
<1>3. prev' \in [Proc -> 0..made'] /\ prev'[p] = made'
  BY <1>1 DEF CacheType, ProcType
<1>4. meta' \in [prev : 0..made', rrev : 0..MaxRecipes]
  BY <1>1 DEF CacheType, ProcType
<1>5. folder' \in Folder \union {NoFolder}
  BY <1>1 DEF CacheType, ProcType, Folder, PackageRevision
<1>6. NodeFits'
  BY <1>1, <1>3 DEF NodeFits, CacheType, ProcType, Inside, Deciding
<1>7. pc' \in [Proc -> Deciding \union Inside]
  BY DEF CacheType, ProcType, Inside, Deciding
<1>8. {installs, published, accidents}' \subseteq Nat
  BY DEF CacheType, ProcType, bounds
<1> QED BY <1>1, <1>2, <1>3, <1>4, <1>5, <1>6, <1>7, <1>8 DEF CacheType, ProcType

\* Start puts a node together.
LEMMA StartKeepsTypes ==
    ASSUME TypeInv, NEW p \in Proc, Start(p) PROVE TypeInv'
<1> USE InstallConstants, NoFolderIsNone DEF TypeInv, Start, Decide, cache
<1>1. CacheType'
  BY DEF CacheType, CacheType, ProcType
<1>2. PICK m \in Modes :
         /\ mode' = [mode EXCEPT ![p] = m]
         /\ pc' = [pc EXCEPT ![p] = IF m = "build" THEN "lock" ELSE "check"]
         /\ Decide(p, IF m = "build" THEN "build" ELSE "none", 0)
  OBVIOUS
<1>3. mode' \in [Proc -> Mode] /\ rrev' \in [Proc -> Revision]
  BY <1>2 DEF CacheType, ProcType, Revision
<1>4. 0 \in 0..made /\ made' = made
  BY DEF CacheType, ProcType
<1>5. /\ binary' \in [Proc -> {"none", "build", "cache", "download", "update"}]
      /\ prev' \in [Proc -> 0..made'] /\ binary'[p] \in {"none", "build"}
  BY <1>2, <1>4 DEF CacheType, ProcType
<1>6. /\ pc' \in [Proc -> Deciding \union Inside] /\ pc'[p] \in {"lock", "check"}
      /\ \A q \in Proc \ {p} : pc'[q] = pc[q]
      /\ pc[p] = "idle"
  BY <1>2 DEF CacheType, ProcType, Deciding, Inside
<1>7. lock' \in Proc \union {NoProc}
  BY DEF ProcType
<1>8. /\ outcome' \in [Proc -> {"none", "used", "failed", "asserted", "crashed"}]
      /\ used' \in [Proc -> Folder \union {NoFolder}]
  BY DEF CacheType, ProcType
<1>9. NodeFits'
  BY <1>2, <1>5, <1>6 DEF NodeFits, CacheType, ProcType
<1> QED BY <1>1, <1>3, <1>5, <1>6, <1>7, <1>8, <1>9 DEF ProcType

\* Every action keeps the types, and leaves the node as its next place needs it.
LEMMA TypeInvStep == TypeInv /\ [Next]_vars => TypeInv'
<1> SUFFICES ASSUME TypeInv, [Next]_vars PROVE TypeInv'
  OBVIOUS
<1>0. CacheType /\ ProcType /\ NodeFits
  BY DEF TypeInv
<1>n. NoFolder \in Folder \union {NoFolder} /\ folder \in Folder \union {NoFolder}
  BY <1>0 DEF CacheType
<1>r. folder # NoFolder => Remains(folder) \subseteq Folder
  BY <1>0, <1>n, RemainsAreFolders DEF CacheType
<1>1. CASE Publish
  BY <1>1, PublishKeepsTypes
<1>2. CASE ChangeRecipe
  <2>1. CacheType'
    BY <1>0, <1>2, InstallConstants DEF ChangeRecipe, CacheType, bounds, Revision
  <2>2. ProcType' /\ NodeFits'
    BY <1>0, <1>2 DEF ChangeRecipe, ProcType, NodeFits, node
  <2> QED BY <2>1, <2>2 DEF TypeInv
<1>3. CASE UNCHANGED vars
  <2>1. CacheType' /\ ProcType' /\ NodeFits'
    BY <1>0, <1>3 DEF vars, cache, node, bounds, CacheType, ProcType, NodeFits
  <2> QED BY <2>1 DEF TypeInv
<1>4. ASSUME NEW p \in Proc, Start(p) PROVE TypeInv'
  BY <1>4, StartKeepsTypes
<1>5. ASSUME NEW p \in Proc, FailLeavingPart(p) PROVE TypeInv'
  <2>1. CacheType'
    <3>1. pc[p] = "receive" => Holding(p, TRUE, FALSE) \in Folder
      BY <1>0, HoldingIsFolder DEF NodeFits
    <3>2. folder' \in Folder \union {NoFolder}
      BY <1>5, <1>r, <1>n, <3>1 DEF FailLeavingPart
    <3>3. accidents' = accidents + 1 /\ {installs, published, accidents}' \subseteq Nat
      BY <1>0, <1>5 DEF FailLeavingPart, CacheType
    <3>4. UNCHANGED <<recipe, server, made, dirty, meta>>
      BY <1>5 DEF FailLeavingPart
    <3> QED BY <1>0, <3>2, <3>3, <3>4 DEF CacheType
  <2>2. End(p, "failed", NoFolder) /\ UNCHANGED made
    BY <1>5 DEF FailLeavingPart
  <2> QED BY <1>0, <1>n, <2>1, <2>2, EndKeepsTypes DEF TypeInv
<1>6. ASSUME NEW p \in Proc, Crash(p) PROVE TypeInv'
  <2>1. CacheType'
    BY <1>0, <1>6 DEF Crash, CacheType, cache
  <2>2. End(p, "crashed", NoFolder) /\ UNCHANGED made
    BY <1>6 DEF Crash, cache
  <2> QED BY <1>0, <1>n, <2>1, <2>2, EndKeepsTypes DEF TypeInv
<1>7. ASSUME NEW p \in Proc, Progress(p) PROVE TypeInv'
  <2> USE DEF TypeInv
  <2>k. \A a, b \in BOOLEAN : prev[p] # 0 => Holding(p, a, b) \in Folder
    BY <1>0, HoldingIsFolder
  <2>1. CASE CheckFolder(p)
    BY <2>1, <1>0, <2>k, InstallConstants, NoFolderIsNone
    DEF CheckFolder, CacheType, ProcType, NodeFits, Inside, Deciding,
        cache, node, bounds, At, Decide, Revision
  <2>2. CASE Look(p)
    BY <2>2, <1>0, <2>k, InstallConstants, NoFolderIsNone
    DEF Look, CacheType, ProcType, NodeFits, Inside, Deciding,
        cache, node, bounds, At, Decide, Revision
  <2>3. CASE FindUpdate(p)
    <3>1. CacheType' /\ UNCHANGED made
      BY <2>3, <1>0 DEF FindUpdate, CacheType, cache, bounds
    <3>2. server[rrev[p]] \in 0..made /\ server[rrev[p]] # 0
      <4>1. folder \in Folder
        BY <2>3, <1>0 DEF FindUpdate, Listed, CacheType
      <4>2. folder.prev \in Nat \ {0} /\ made \in Nat
        BY <1>0, <4>1 DEF CacheType, Folder, PackageRevision
      <4>3. server[rrev[p]] \in 0..made /\ server[rrev[p]] > folder.prev
        BY <2>3, <1>0 DEF FindUpdate, CacheType, ProcType
      <4> QED BY <4>2, <4>3
    <3> QED BY <2>3, <1>0, <3>1, <3>2
        DEF FindUpdate, ProcType, NodeFits, Inside, Deciding, At, Decide
  <2>4. CASE FindCached(p)
    BY <2>4, <1>0, <2>k, InstallConstants, NoFolderIsNone
    DEF FindCached, CacheType, ProcType, NodeFits, Inside, Deciding,
        cache, node, bounds, At, Decide, Revision
  <2>5. CASE FindRemote(p)
    BY <2>5, <1>0, <2>k, InstallConstants, NoFolderIsNone
    DEF FindRemote, CacheType, ProcType, NodeFits, Inside, Deciding,
        cache, node, bounds, At, Decide, Revision
  <2>6. CASE LockPackage(p)
    BY <2>6, <1>0, <2>k, InstallConstants, NoFolderIsNone
    DEF LockPackage, CacheType, ProcType, NodeFits, Inside, Deciding,
        cache, node, bounds, At, Decide, Revision
  <2>7. CASE Skip(p)
    <3>1. /\ pc[p] = "locked" /\ pc' = [pc EXCEPT ![p] = "use"] /\ binary[p] # "build"
          /\ UNCHANGED <<cache, lock, node, outcome, used, bounds>>
      BY <2>7 DEF Skip, At, ConcurrentlyInstalled
    <3>2. CacheType' /\ UNCHANGED <<made, node, lock, outcome, used>>
      BY <1>0, <3>1 DEF CacheType, cache, bounds
    <3>3. ProcType'
      BY <1>0, <3>1, <3>2 DEF ProcType, node, Inside, Deciding
    <3>4. NodeFits'
      BY <1>0, <3>1, <3>2 DEF ProcType, NodeFits, node
    <3> QED BY <3>2, <3>3, <3>4
  <2>8. CASE SetDirty(p)
    BY <2>8, <1>0, <2>k, InstallConstants, NoFolderIsNone
    DEF SetDirty, CacheType, ProcType, NodeFits, Inside, Deciding,
        cache, node, bounds, At, Decide, Revision
  <2>9. CASE FinishPackaging(p)
    BY <2>9, <1>0, <2>k, InstallConstants, NoFolderIsNone
    DEF FinishPackaging, CacheType, ProcType, NodeFits, Inside, Deciding,
        cache, node, bounds, At, Decide, Revision
  <2>10. CASE StartReceiving(p)
    BY <2>10, <1>0, <2>k, InstallConstants, NoFolderIsNone
    DEF StartReceiving, CacheType, ProcType, NodeFits, Inside, Deciding,
        cache, node, bounds, At, Decide, Revision
  <2>11. CASE FinishReceiving(p)
    BY <2>11, <1>0, <2>k, InstallConstants, NoFolderIsNone
    DEF FinishReceiving, CacheType, ProcType, NodeFits, Inside, Deciding,
        cache, node, bounds, At, Decide, Revision
  <2>12. CASE Unzip(p)
    BY <2>12, <1>0, <2>k, InstallConstants, NoFolderIsNone
    DEF Unzip, CacheType, ProcType, NodeFits, Inside, Deciding,
        cache, node, bounds, At, Decide, Revision
  <2>13. CASE CleanDirty(p)
    BY <2>13, <1>0, <2>k, InstallConstants, NoFolderIsNone
    DEF CleanDirty, CacheType, ProcType, NodeFits, Inside, Deciding,
        cache, node, bounds, At, Decide, Revision
  <2>14. CASE StartPackaging(p)
    BY <2>14, <1>0, PackagingKeepsTypes DEF TypeInv
  <2>15. CASE UseFolder(p)
    <3>1. CacheType' /\ UNCHANGED made
      BY <2>15, <1>0 DEF UseFolder, CacheType, cache, bounds
    <3> QED BY <2>15, <1>0, <1>n, <3>1, EndKeepsTypes DEF UseFolder
  <2>16. CASE FindNothingReadable(p)
    <3>1. CacheType' /\ UNCHANGED made
      BY <2>16, <1>0 DEF FindNothingReadable, CacheType, cache, bounds
    <3>2. End(p, "asserted", NoFolder) \/ End(p, "failed", NoFolder)
      BY <2>16 DEF FindNothingReadable
    <3> QED BY <1>0, <1>n, <3>1, <3>2, EndKeepsTypes
  <2>17. CASE FindNowhere(p)
    <3>1. CacheType' /\ UNCHANGED made
      BY <2>17, <1>0 DEF FindNowhere, CacheType, cache, bounds
    <3>2. CASE mode[p] # "missing"
      BY <2>17, <1>0, <1>n, <3>1, <3>2, EndKeepsTypes DEF FindNowhere
    <3>3. CASE mode[p] = "missing"
      BY <2>17, <1>0, <3>1, <3>3, InstallConstants
      DEF FindNowhere, ProcType, CacheType, NodeFits, Inside, Deciding, At, Decide
    <3> QED BY <3>2, <3>3
  <2>18. CASE Fail(p)
    <3>1. CacheType' /\ UNCHANGED made
      BY <2>18, <1>0, <1>n DEF Fail, CacheType, bounds
    <3> QED BY <2>18, <1>0, <1>n, <3>1, EndKeepsTypes DEF Fail
  <2>19. CASE RemoveFolder(p)
    <3>1. CacheType' /\ UNCHANGED made
      BY <2>19, <1>0 DEF RemoveFolder, CacheType, ProcType, bounds, Revision
    <3>2. CASE binary[p] = "build"
      BY <2>19, <1>0, <3>1, <3>2
      DEF RemoveFolder, ProcType, NodeFits, Inside, Deciding, node, At
    <3>3. CASE binary[p] # "build"
      BY <2>19, <1>0, <3>1, <3>3
      DEF RemoveFolder, ProcType, NodeFits, Inside, Deciding, node, At
    <3> QED BY <3>2, <3>3
  <2>20. CASE RecordRevision(p)
    <3>1. CacheType' /\ UNCHANGED made
      BY <2>20, <1>0 DEF RecordRevision, CacheType, ProcType, bounds, Revision
    <3>2. CASE binary[p] = "build"
      BY <2>20, <1>0, <3>1, <3>2
      DEF RecordRevision, ProcType, NodeFits, Inside, Deciding, node, At
    <3>3. CASE binary[p] # "build"
      BY <2>20, <1>0, <3>1, <3>3
      DEF RecordRevision, ProcType, NodeFits, Inside, Deciding, node, At
    <3> QED BY <3>2, <3>3
  <2>21. CASE StartPurge(p) \/ FinishPurge(p) \/ StartRemoving(p)
    <3>1. /\ folder' \in Folder \union {NoFolder}
          /\ UNCHANGED <<recipe, server, made, dirty, meta, node, outcome, used, bounds>>
      BY <2>21, <1>r DEF StartPurge, FinishPurge, StartRemoving, MustGo
    <3>2. CacheType'
      BY <1>0, <3>1 DEF CacheType, bounds
    <3>3. lock' \in Proc \union {NoProc}
      BY <2>21, <1>0 DEF StartPurge, FinishPurge, StartRemoving, ProcType
    <3>4. ProcType'
      BY <2>21, <1>0, <3>1, <3>3
      DEF StartPurge, FinishPurge, StartRemoving, ProcType, node, At, Inside, Deciding
    <3>5. NodeFits'
      BY <2>21, <1>0, <3>1
      DEF StartPurge, FinishPurge, StartRemoving, ProcType, NodeFits, node, At
    <3> QED BY <3>2, <3>4, <3>5
  <2> QED
    BY <1>7, <2>1, <2>2, <2>3, <2>4, <2>5, <2>6, <2>7, <2>8, <2>9, <2>10, <2>11, <2>12, <2>13, <2>14, <2>15, <2>16, <2>17, <2>18, <2>19, <2>20, <2>21 DEF Progress
<1> QED BY <1>1, <1>2, <1>3, <1>4, <1>5, <1>6, <1>7 DEF Next, Rest
---------------------------------------------------------------------------
\* The package lock: one process is inside at a time, and whoever takes the folder away
\* in an evaluation finds nobody there.
LEMMA OneInside ==
    ASSUME LockFits, NEW p \in Proc, NEW q \in Proc, pc[p] \in Inside, pc[q] \in Inside
    PROVE  p = q /\ lock = p
BY DEF LockFits

\* An evaluation that removes the folder and LockPackage take it, and whoever leaves the places under it gives it back.
LEMMA LockFitsStep == ASSUME TypeInv, LockFits, [Next]_vars PROVE LockFits'
<1>0. ProcType
  BY DEF TypeInv
<1> USE <1>0, InstallConstants DEF ProcType, LockFits, Inside, Deciding, At, End
<1>1. CASE Publish \/ ChangeRecipe \/ UNCHANGED vars
  BY <1>1 DEF Publish, ChangeRecipe, vars
<1>2. ASSUME NEW p \in Proc, Start(p) PROVE LockFits'
  BY <1>2 DEF Start
<1>3. ASSUME NEW p \in Proc, FailLeavingPart(p) \/ Crash(p) PROVE LockFits'
  <2>1. End(p, "failed", NoFolder) \/ End(p, "crashed", NoFolder)
    BY <1>3 DEF FailLeavingPart, Crash
  <2> QED BY <2>1
<1>4. ASSUME NEW p \in Proc, Progress(p) PROVE LockFits'
  <2>1. CASE CheckFolder(p) \/ Look(p) \/ FindUpdate(p) \/ FindCached(p) \/ FindRemote(p)
    BY <2>1 DEF CheckFolder, Look, FindUpdate, FindCached, FindRemote
  <2>2. CASE FindNothingReadable(p) \/ UseFolder(p) \/ Fail(p)
    BY <2>2 DEF FindNothingReadable, UseFolder, Fail
  <2>3. CASE FindNowhere(p)
    BY <2>3 DEF FindNowhere
  <2>4. CASE LockPackage(p)
    BY <2>4 DEF LockPackage
  <2>5. CASE Skip(p) \/ SetDirty(p) \/ StartRemoving(p) \/ StartPackaging(p)
    BY <2>5 DEF Skip, SetDirty, StartRemoving, StartPackaging
  <2>6. CASE FinishPackaging(p) \/ StartReceiving(p) \/ FinishReceiving(p)
    <3>1. CASE FinishPackaging(p)
      BY <3>1 DEF FinishPackaging
    <3>2. CASE StartReceiving(p)
      BY <3>2 DEF StartReceiving
    <3>3. CASE FinishReceiving(p)
      BY <3>3 DEF FinishReceiving
    <3> QED BY <2>6, <3>1, <3>2, <3>3
  <2>7. CASE RecordRevision(p)
    <3>1. /\ pc[p] = "record" /\ lock' = lock /\ pc'[p] \in {"clean", "unzip"}
          /\ \A q \in Proc \ {p} : pc'[q] = pc[q]
      BY <2>7 DEF RecordRevision
    <3> QED BY <3>1
  <2>8. CASE Unzip(p)
    BY <2>8 DEF Unzip
  <2>9. CASE CleanDirty(p)
    BY <2>9 DEF CleanDirty
  <2>10. CASE StartPurge(p) \/ FinishPurge(p)
    BY <2>10 DEF StartPurge, FinishPurge
  <2>11. CASE RemoveFolder(p)
    <3>1. /\ pc[p] \in Inside /\ lock' = lock /\ pc'[p] \in {"build", "fetch"}
          /\ \A q \in Proc \ {p} : pc'[q] = pc[q]
      BY <2>11 DEF RemoveFolder
    <3> QED BY <3>1
  <2> QED BY <1>4, <2>1, <2>2, <2>3, <2>4, <2>5, <2>6, <2>7, <2>8, <2>9, <2>10, <2>11
      DEF Progress
<1> QED BY <1>1, <1>2, <1>3, <1>4 DEF Next, Rest

\* No step disturbs what the dirty flag, the metadata and the holder of the lock say of
\* the folder.
LEMMA FolderInvStep == ASSUME TypeInv, LockFits, FolderInv, [Next]_vars PROVE FolderInv'
<1>0. CacheType /\ ProcType /\ NodeFits
  BY DEF TypeInv
<1>i. \A p, q \in Proc : pc[p] \in Inside /\ pc[q] \in Inside => p = q
  BY OneInside
<1>l. lock = NoProc => \A p \in Proc : pc[p] \notin Inside
  BY InstallConstants DEF LockFits
<1>r. folder # NoFolder =>
        \A f \in Remains(folder) : /\ f # NoFolder /\ ~f.whole /\ (f.torn \/ dirty)
                                   /\ f.prev = folder.prev /\ f.rrev = folder.rrev
  BY <1>0, RemainsAreFolders, NoFolderIsNone DEF CacheType
<1> USE NoFolderIsNone DEF FolderInv, PartialIsDirty, RecordedIsStored, MarkedWhileFilling,
        HolderKnows, Partial, Holding, RecordOf, Inside,
        cache, node, bounds, At, End, Decide
<1>1. CASE Publish
  BY <1>1 DEF Publish
<1>2. CASE ChangeRecipe
  BY <1>2 DEF ChangeRecipe
<1>3. CASE UNCHANGED vars
  BY <1>3 DEF vars
<1>4. ASSUME NEW p \in Proc, Start(p) PROVE FolderInv'
  BY <1>4, <1>0 DEF Start, ProcType
<1>5. ASSUME NEW p \in Proc, FailLeavingPart(p) PROVE FolderInv'
  BY <1>5, <1>0, <1>i, <1>r DEF FailLeavingPart, ProcType, NodeFits, CacheType
<1>6. ASSUME NEW p \in Proc, Crash(p) PROVE FolderInv'
  BY <1>6, <1>0, <1>i DEF Crash, ProcType, CacheType
<1>7. ASSUME NEW p \in Proc, Progress(p) PROVE FolderInv'
  <2>1. CASE CheckFolder(p)
    BY <2>1, <1>0, <1>i, <1>l DEF CheckFolder, ProcType, NodeFits, CacheType
  <2>2. CASE Look(p)
    BY <2>2, <1>0, <1>i, <1>l DEF Look, ProcType, NodeFits, CacheType
  <2>3. CASE FindUpdate(p)
    BY <2>3, <1>0, <1>i, <1>l DEF FindUpdate, ProcType, NodeFits, CacheType
  <2>4. CASE FindCached(p)
    BY <2>4, <1>0, <1>i, <1>l DEF FindCached, ProcType, NodeFits, CacheType
  <2>5. CASE FindNothingReadable(p)
    BY <2>5, <1>0, <1>i, <1>l DEF FindNothingReadable, ProcType, NodeFits, CacheType
  <2>6. CASE FindRemote(p)
    BY <2>6, <1>0, <1>i, <1>l DEF FindRemote, ProcType, NodeFits, CacheType
  <2>7. CASE FindNowhere(p)
    BY <2>7, <1>0, <1>i, <1>l DEF FindNowhere, ProcType, NodeFits, CacheType
  <2>8. CASE LockPackage(p)
    BY <2>8, <1>0, <1>i, <1>l DEF LockPackage, ProcType, NodeFits, CacheType
  <2>9. CASE Skip(p)
    <3>1. /\ UNCHANGED <<folder, dirty, meta, accidents, outcome, used, prev, rrev, binary>>
          /\ binary[p] # "build" /\ pc[p] = "locked" /\ pc' = [pc EXCEPT ![p] = "use"]
      BY <2>9 DEF Skip, ConcurrentlyInstalled
    <3>2. PartialIsDirty' /\ RecordedIsStored'
      BY <3>1
    <3>3. MarkedWhileFilling' /\ HolderKnows'
      BY <1>0, <3>1 DEF ProcType
    <3> QED BY <3>2, <3>3
  <2>10. CASE SetDirty(p)
    BY <2>10, <1>0, <1>i, <1>l DEF SetDirty, ProcType, NodeFits, CacheType
  <2>11. CASE RemoveFolder(p)
    BY <2>11, <1>0, <1>i, <1>l DEF RemoveFolder, ProcType, NodeFits, CacheType
  <2>12. CASE StartPackaging(p)
    BY <2>12, <1>0, <1>i, <1>l DEF StartPackaging, ProcType, NodeFits, CacheType
  <2>13. CASE FinishPackaging(p)
    <3>1. /\ folder' = Holding(p, TRUE, TRUE) /\ folder'.whole /\ dirty
          /\ UNCHANGED <<dirty, meta, accidents, outcome, used, prev, rrev, binary>>
      BY <2>13, <1>0, <1>i DEF FinishPackaging, ProcType, NodeFits
    <3>2. PartialIsDirty' /\ RecordedIsStored'
      BY <3>1
    <3>3. MarkedWhileFilling'
      BY <2>13, <1>0, <1>i, <3>1 DEF FinishPackaging, ProcType, NodeFits
    <3>4. HolderKnows'
      BY <2>13, <1>0, <1>i, <3>1 DEF FinishPackaging, ProcType, NodeFits
    <3> QED BY <3>2, <3>3, <3>4
  <2>14. CASE StartReceiving(p)
    BY <2>14, <1>0, <1>i, <1>l DEF StartReceiving, ProcType, NodeFits, CacheType
  <2>15. CASE FinishReceiving(p)
    BY <2>15, <1>0, <1>i, <1>l DEF FinishReceiving, ProcType, NodeFits, CacheType
  <2>16. CASE RecordRevision(p)
    BY <2>16, <1>0, <1>i, <1>l DEF RecordRevision, ProcType, NodeFits, CacheType
  <2>17. CASE Unzip(p)
    <3>1. /\ folder' = Holding(p, TRUE, TRUE) /\ folder'.whole /\ dirty
          /\ UNCHANGED <<dirty, meta, accidents, outcome, used, prev, rrev, binary>>
      BY <2>17, <1>0, <1>i DEF Unzip, ProcType, NodeFits
    <3>2. PartialIsDirty' /\ RecordedIsStored'
      BY <3>1
    <3>3. MarkedWhileFilling'
      BY <2>17, <1>0, <1>i, <3>1 DEF Unzip, ProcType, NodeFits
    <3>4. HolderKnows'
      <4>1. /\ pc[p] = "unzip" /\ pc' = [pc EXCEPT ![p] = "clean"]
            /\ pc'[p] = "clean" /\ \A q \in Proc \ {p} : pc'[q] = pc[q]
        BY <2>17, <1>0 DEF Unzip, ProcType
      <4>2. \A q \in Proc \ {p} : pc'[q] \notin Inside
        BY <4>1, <1>i
      <4>3. meta' = RecordOf(p)' /\ folder' = Holding(p, TRUE, TRUE)'
        BY <4>1, <3>1
      <4> QED BY <4>1, <4>2, <4>3
    <3> QED BY <3>2, <3>3, <3>4
  <2>18. CASE CleanDirty(p)
    BY <2>18, <1>0, <1>i, <1>l DEF CleanDirty, ProcType, NodeFits, CacheType
  <2>19. CASE UseFolder(p)
    BY <2>19, <1>0, <1>i, <1>l DEF UseFolder, ProcType, NodeFits, CacheType
  <2>20. CASE Fail(p)
    BY <2>20, <1>0, <1>i, <1>l DEF Fail, ProcType, NodeFits, CacheType
  \* An evaluation that removes the package is alone inside; who replaces it has set the
  \* flag before.
  <2>21. CASE StartPurge(p)
    BY <2>21, <1>0, <1>l, <1>r DEF StartPurge, MustGo, ProcType
  <2>22. CASE FinishPurge(p)
    BY <2>22, <1>0, <1>i DEF FinishPurge, ProcType
  <2>23. CASE StartRemoving(p)
    BY <2>23, <1>0, <1>i, <1>r DEF StartRemoving, ProcType
  <2> QED
    BY <1>7, <2>1, <2>2, <2>3, <2>4, <2>5, <2>6, <2>7, <2>8, <2>9, <2>10, <2>11, <2>12, <2>13, <2>14, <2>15, <2>16, <2>17, <2>18, <2>19, <2>20, <2>21, <2>22, <2>23 DEF Progress
<1> QED BY <1>1, <1>2, <1>3, <1>4, <1>5, <1>6, <1>7 DEF Next, Rest

\* A part is left behind only by accident, and without one what is handed on is whole.
LEMMA UseInvStep == ASSUME IInv, [Next]_vars PROVE UseInv'
<1>0. TypeInv /\ LockFits /\ FolderInv /\ UseInv /\ CacheType /\ ProcType /\ NodeFits
  BY DEF IInv, TypeInv
<1>i. \A p, q \in Proc : pc[p] \in Inside /\ pc[q] \in Inside => p = q
  BY <1>0, OneInside
<1>l. lock = NoProc => \A p \in Proc : pc[p] \notin Inside
  BY <1>0, InstallConstants DEF LockFits
<1> USE <1>0, NoFolderIsNone DEF UseInv, PartIsBeingFilled, UsedIsWhole, Partial, Holding,
        Inside, cache, node, bounds, At, End, Decide, ProcType
<1>1. CASE Publish \/ ChangeRecipe \/ UNCHANGED vars
  BY <1>1 DEF Publish, ChangeRecipe, vars
<1>2. ASSUME NEW p \in Proc, Start(p) PROVE UseInv'
  BY <1>2 DEF Start
<1>3. ASSUME NEW p \in Proc, FailLeavingPart(p) \/ Crash(p) PROVE UseInv'
  BY <1>3 DEF FailLeavingPart, Crash, CacheType
<1>4. ASSUME NEW p \in Proc, Progress(p) PROVE UseInv'
  <2>1. CASE CheckFolder(p) \/ Look(p) \/ FindUpdate(p) \/ FindCached(p) \/ FindRemote(p)
    BY <2>1, <1>i DEF CheckFolder, Look, FindUpdate, FindCached, FindRemote
  <2>2. CASE FindNothingReadable(p) \/ FindNowhere(p)
    BY <2>2 DEF FindNothingReadable, FindNowhere
  <2>3. CASE LockPackage(p) \/ Skip(p) \/ SetDirty(p) \/ RemoveFolder(p)
    BY <2>3 DEF LockPackage, Skip, SetDirty, RemoveFolder
  <2>4. CASE StartPackaging(p) \/ FinishPackaging(p) \/ StartReceiving(p)
             \/ FinishReceiving(p)
    BY <2>4 DEF StartPackaging, FinishPackaging, StartReceiving, FinishReceiving
  <2>5. CASE RecordRevision(p)
    <3>1. /\ pc[p] = "record" /\ pc'[p] \in {"clean", "unzip"}
          /\ \A q \in Proc \ {p} : pc'[q] = pc[q]
          /\ UNCHANGED <<folder, accidents, outcome, used>>
      BY <2>5 DEF RecordRevision
    <3>2. ASSUME pc'[p] = "clean" PROVE ~Partial(folder)
      <4>1. binary[p] = "build"
        BY <2>5, <3>2 DEF RecordRevision
      <4> QED BY <3>1, <4>1 DEF FolderInv, HolderKnows
    <3>3. CASE pc'[p] = "clean"
      BY <3>1, <3>2, <3>3
    <3>4. CASE pc'[p] = "unzip"
      BY <3>1, <3>4
    <3> QED BY <3>1, <3>3, <3>4
  <2>6. CASE Unzip(p) \/ CleanDirty(p)
    BY <2>6 DEF Unzip, CleanDirty
  <2>7. CASE UseFolder(p)
    <3>1. pc[p] = "use" /\ UNCHANGED <<folder, accidents>>
      BY <2>7 DEF UseFolder
    <3>2. accidents = 0 => ~Partial(folder)
      BY <1>i, <3>1
    <3> QED BY <2>7, <3>1, <3>2 DEF UseFolder
  <2>8. CASE Fail(p)
    BY <2>8, <1>i, <1>l DEF Fail, NodeFits, FolderInv, HolderKnows
  <2>9. CASE StartPurge(p) \/ FinishPurge(p) \/ StartRemoving(p)
    BY <2>9 DEF StartPurge, FinishPurge, StartRemoving
  <2> QED BY <1>4, <2>1, <2>2, <2>3, <2>4, <2>5, <2>6, <2>7, <2>8, <2>9 DEF Progress
<1> QED BY <1>1, <1>2, <1>3, <1>4 DEF Next, Rest
---------------------------------------------------------------------------
\* Nothing is in the cache, and nobody at work.
LEMMA InitEstablishes == Init => IInv
<1> SUFFICES ASSUME Init PROVE IInv
  OBVIOUS
<1> USE InstallConstants, NoFolderIsNone DEF Init
<1>1. CacheType
  <2>1. 0 \in 0..0 /\ 0 \in Nat /\ 1 \in 1..MaxRecipes /\ 0 \in 0..MaxRecipes
    OBVIOUS
  <2>2. server \in [Revision -> 0..made]
    BY <2>1
  <2>3. meta \in [prev : 0..made, rrev : 0..MaxRecipes]
    BY <2>1
  <2> QED BY <2>1, <2>2, <2>3 DEF CacheType
<1>2. ProcType
  BY DEF ProcType, Mode, Revision, Deciding, Inside
<1>3. NodeFits
  BY DEF NodeFits
<1>4. LockFits /\ FolderInv /\ UseInv
  BY DEF LockFits, FolderInv, PartialIsDirty, RecordedIsStored, MarkedWhileFilling, HolderKnows,
         UseInv, PartIsBeingFilled, UsedIsWhole, Partial, Inside
<1> QED BY <1>1, <1>2, <1>3, <1>4 DEF IInv, TypeInv

\* The inductive invariant: from set_dirty to clean_dirty the flag is up, and who
\* holds the package lock knows what is in the folder and in its record.
THEOREM FolderInvariance == Spec => []IInv
<1>1. IInv /\ [Next]_vars => IInv'
  BY TypeInvStep, LockFitsStep, FolderInvStep, UseInvStep DEF IInv
<1> QED BY InitEstablishes, <1>1, PTL DEF Spec

\* Every variable keeps its type, and the holder of the package lock is the one process
\* that is where the lock is needed.
THEOREM InstallTypeCorrect == Spec => []TypeOK
<1>1. IInv => TypeOK
  BY TypeParts DEF IInv, TypeInv
<1> QED BY <1>1, FolderInvariance, PTL

\* A package folder with something missing carries the dirty flag, for any number of
\* processes, failures and kills, wherever they are interrupted: unless an evaluation has
\* begun to remove an unflagged package of another recipe revision, and not ended it.
THEOREM PartIsMarked == Spec => []PartialIsDirty
<1>1. IInv => PartialIsDirty
  BY DEF IInv, FolderInv
<1> QED BY <1>1, FolderInvariance, PTL

\* A folder that is not marked is the one that metadata.json names.
THEOREM RecordIsTrue == Spec => []RecordedIsStored
<1>1. IInv => RecordedIsStored
  BY DEF IInv, FolderInv
<1> QED BY <1>1, FolderInvariance, PTL

\* Without an accident no process hands on a folder with something missing.
THEOREM WholeIsUsed == Spec => []UsedIsWhole
<1>1. IInv => UsedIsWhole
  BY DEF IInv, UseInv
<1> QED BY <1>1, FolderInvariance, PTL

\* A process that built the package hands on its own build, whatever others do.
THEOREM OwnBuildIsUsed == Spec => []OwnInstallIsUsed
<1>1. IInv => OwnInstallIsUsed
  <2> SUFFICES ASSUME IInv, NEW p \in Proc, pc[p] = "use", binary[p] = "build"
               PROVE  /\ folder # NoFolder /\ folder.whole
                      /\ folder.prev = prev[p] /\ folder.rrev = rrev[p]
    BY DEF OwnInstallIsUsed
  <2>1. folder = Holding(p, TRUE, TRUE)
    BY DEF IInv, FolderInv, HolderKnows
  <2>2. Holding(p, TRUE, TRUE) \in Folder
    BY HoldingIsFolder DEF IInv, TypeInv, NodeFits
  <2> QED BY <2>1, <2>2, NoFolderIsNone DEF Holding
<1> QED BY <1>1, FolderInvariance, PTL
----------------------------------------------------------------------------
(* Download, export-pkg and remove beside them. *)

\* The steps of download, of export-pkg and of remove.
Downloads == {"clear", "receive", "record", "unzip"}
Exports == {"empty", "package", "sign", "revise"}
Removes == {"folder", "flag", "metadata"}

JobType ==
    /\ job \in [Proc -> [step : {"none"} \union Downloads \union Exports \union Removes,
                         rrev : 0..MaxRecipes, prev : 0..made]]
    /\ exported \in 0..made
    /\ \A p \in Proc :
         /\ job[p].step = "none" <=> job[p] = NoJob
         /\ job[p].step \in Downloads \union Exports => job[p].prev # 0 /\ job[p].rrev # 0

\* What the process at work alone knows of the folder and of its record.
RecordOfJob(p) == [prev |-> job[p].prev, rrev |-> job[p].rrev]
JobKnows(p) ==
    /\ job[p].step # "none" => exported = 0
    /\ job[p].step \in Downloads \union Exports => job[p].rrev = recipe
    /\ job[p].step = "clear" => PartialIsDirty /\ RecordedIsStored
    /\ job[p].step \in {"receive", "package", "flag"} => folder = NoFolder
    /\ job[p].step = "unzip" => meta = RecordOfJob(p)
    /\ job[p].step = "revise" => folder = InFolder(p, TRUE, TRUE)
    /\ job[p].step = "metadata" => folder = NoFolder /\ ~dirty

\* What export-pkg has recorded is whole, of the recipe in the cache, and nobody is
\* about to fill the folder or thinks of another recipe.
ExportKept ==
    exported # 0 =>
        /\ folder # NoFolder /\ folder.whole /\ folder.prev = exported /\ ~dirty
        /\ meta.rrev = recipe
        /\ \A p \in Proc :
             /\ pc[p] \notin Inside \ {"locked", "use"}
             /\ pc[p] # "idle" => rrev[p] = recipe

Alone(p) == \A q \in Proc \ {p} : ~Working(q)
JobsInv ==
    Stands({"overlap", "cut"}) =>
        /\ LockFits
        /\ \A p \in Proc : job[p].step # "none" => pc[p] = "idle" /\ Alone(p) /\ JobKnows(p)
        /\ (\A p \in Proc : job[p].step = "none") => FolderInv
ExportInv ==
    Stands({"overlap", "cut", "flagged"}) =>
        /\ ExportKept
        /\ \A p \in Proc : job[p].step \in Exports => ~dirty

ActorsInv == TypeInv /\ JobType /\ JobsInv /\ ExportInv
---------------------------------------------------------------------------
\* The actions of PackageInstall are its own steps.
InstallStep(p) ==
    \/ InstallBegins(p) \/ InstallGoesOn(p)
    \/ InstallBreaks(p) /\ UNCHANGED jobVars
JobStep(p) ==
    \/ StartDownload(p) \/ ClearForDownload(p) \/ ReceivePackage(p)
    \/ RecordDownload(p) \/ UnzipPackage(p) \/ FailDownload(p)
    \/ StartExport(p) \/ EmptyForExport(p) \/ MakePackage(p) \/ SignPackage(p)
    \/ RecordExport(p) \/ FailExport(p)
    \/ StartRemove(p) \/ RemovePackage(p) \/ RemoveFlag(p) \/ ClearPackage(p)
    \/ RemoveLocks(p) \/ FailRemoval(p) \/ Kill(p)

LEMMA StepCases ==
    ASSUME [ActorsNext]_allVars
    PROVE  \/ World \/ UNCHANGED allVars
           \/ \E p \in Proc : InstallStep(p) \/ JobStep(p)
BY DEF ActorsNext, InstallStep, JobStep

LEMMA InstallIsNext ==
    /\ World => [Next]_vars
    /\ UNCHANGED allVars => [Next]_vars
    /\ \A p \in Proc : InstallStep(p) => [Next]_vars
BY DEF World, InstallStep, InstallBegins, InstallGoesOn, InstallBreaks, Next, allVars

\* Revisions are counted up.
LEMMA MadeGrows ==
    ASSUME TypeInv, [Next]_vars
    PROVE  made \in Nat /\ made' \in Nat /\ 0..made \subseteq 0..made'
<1>1. made \in Nat
  BY DEF TypeInv, CacheType
<1>2. made' = made \/ made' = made + 1
  <2>1. CASE Publish \/ ChangeRecipe \/ UNCHANGED vars
    BY <2>1 DEF Publish, ChangeRecipe, vars, cache
  <2>2. ASSUME NEW p \in Proc, Start(p) \/ FailLeavingPart(p) \/ Crash(p)
        PROVE  made' = made
    BY <2>2 DEF Start, FailLeavingPart, Crash, cache
  <2>3. ASSUME NEW p \in Proc, Progress(p) PROVE made' = made \/ made' = made + 1
    <3>1. CASE \/ CheckFolder(p) \/ StartPurge(p) \/ FinishPurge(p) \/ Look(p)
               \/ FindUpdate(p) \/ FindCached(p)
               \/ FindNothingReadable(p) \/ FindRemote(p) \/ FindNowhere(p)
      BY <3>1 DEF CheckFolder, StartPurge, FinishPurge, Look, FindUpdate, FindCached,
              FindNothingReadable, FindRemote, FindNowhere, cache
    <3>2. CASE \/ LockPackage(p) \/ Skip(p) \/ SetDirty(p) \/ StartRemoving(p)
               \/ RemoveFolder(p) \/ StartPackaging(p) \/ FinishPackaging(p)
      BY <3>2 DEF LockPackage, Skip, SetDirty, StartRemoving, RemoveFolder,
              StartPackaging, FinishPackaging, cache
    <3>3. CASE \/ StartReceiving(p) \/ FinishReceiving(p) \/ RecordRevision(p)
               \/ Unzip(p) \/ CleanDirty(p) \/ UseFolder(p) \/ Fail(p)
      BY <3>3 DEF StartReceiving, FinishReceiving, RecordRevision, Unzip, CleanDirty,
              UseFolder, Fail, cache
    <3> QED BY <2>3, <3>1, <3>2, <3>3 DEF Progress
  <2> QED BY <2>1, <2>2, <2>3 DEF Next, Rest
<1> QED BY <1>1, <1>2, OneMore

\* What a command leaves in the folder is a folder.
LEMMA InFolderIsFolder ==
    ASSUME JobType, TypeInv, NEW p \in Proc, job[p].step \in Downloads \union Exports,
           NEW a \in BOOLEAN, NEW b \in BOOLEAN
    PROVE  InFolder(p, a, b) \in Folder
<1>1. /\ job[p].prev \in 0..made /\ job[p].prev # 0 /\ made \in Nat
      /\ job[p].rrev \in 0..MaxRecipes /\ job[p].rrev # 0
  BY DEF JobType, TypeInv, CacheType
<1> QED BY <1>1, InstallConstants DEF InFolder, Folder, PackageRevision, Revision

\* Processes keep their types where these commands leave them alone; the removal of the
\* lock files takes the lock from whoever has it.
LEMMA OthersKeepTypes ==
    ASSUME TypeInv, CacheType', 0..made \subseteq 0..made',
           UNCHANGED <<pc, node, outcome, used>>, lock' \in {lock, NoProc}
    PROVE  TypeInv'
<1>1. ProcType'
  BY DEF TypeInv, ProcType, node
<1>2. NodeFits'
  BY DEF TypeInv, NodeFits, node
<1> QED BY <1>1, <1>2 DEF TypeInv

\* One step of a command keeps the types, if what it writes has them.
LEMMA NextStepTypes ==
    ASSUME TypeInv, JobType, NEW p \in Proc, NEW from, NEW to,
           NextStep(p, from, to), UNCHANGED <<made, exported>>,
           \/ from \in Downloads /\ to \in Downloads
           \/ from \in Exports /\ to \in Exports
           \/ from \in Removes /\ to \in Removes,
           folder' \in Folder \union {NoFolder}, dirty' \in BOOLEAN,
           meta' \in [prev : 0..made, rrev : 0..MaxRecipes]
    PROVE  TypeInv' /\ JobType'
<1>1. CacheType'
  BY DEF TypeInv, CacheType, NextStep, bounds
<1>2. TypeInv'
  BY <1>1, OthersKeepTypes DEF NextStep, install
<1>3. JobType'
  BY DEF JobType, NextStep, NoJob, Downloads, Exports, Removes
<1> QED BY <1>2, <1>3

LEMMA EndJobTypes ==
    ASSUME TypeInv, JobType, NEW p \in Proc, NEW from, EndJob(p, from), UNCHANGED made,
           folder' \in Folder \union {NoFolder}, dirty' \in BOOLEAN,
           meta' \in [prev : 0..made, rrev : 0..MaxRecipes],
           exported' \in 0..made, {installs, published, accidents}' \subseteq Nat
    PROVE  TypeInv' /\ JobType'
<1>1. CacheType'
  BY DEF TypeInv, CacheType, EndJob
<1>2. TypeInv'
  BY <1>1, OthersKeepTypes DEF EndJob, install
<1>3. NoJob \in [step : {"none"} \union Downloads \union Exports \union Removes,
                 rrev : 0..MaxRecipes, prev : 0..made]
  BY InstallConstants DEF NoJob, TypeInv, CacheType
<1>4. JobType'
  <2>1. job' \in [Proc -> [step : {"none"} \union Downloads \union Exports \union Removes,
                           rrev : 0..MaxRecipes, prev : 0..made']]
    BY <1>3 DEF JobType, EndJob
  <2>2. \A q \in Proc : job'[q] = job[q] \/ job'[q] = NoJob
    BY DEF JobType, EndJob
  <2>3. \A q \in Proc : /\ job'[q].step = "none" <=> job'[q] = NoJob
                        /\ job'[q].step \in Downloads \union Exports =>
                               job'[q].prev # 0 /\ job'[q].rrev # 0
    BY <2>2 DEF JobType, NoJob, Downloads, Exports
  <2> QED BY <2>1, <2>3 DEF JobType
<1> QED BY <1>2, <1>4

LEMMA StartJobTypes ==
    ASSUME TypeInv, JobType, NEW p \in Proc,
           NEW step \in Downloads \union Exports \union Removes, NEW revision \in 0..made',
           StartJob(p, step, revision), UNCHANGED <<pc, node, outcome, used>>, lock' \in {lock, NoProc},
           step \in Downloads \union Exports => revision # 0,
           CacheType', 0..made \subseteq 0..made', exported' = 0
    PROVE  TypeInv' /\ JobType'
<1>1. TypeInv'
  BY OthersKeepTypes
<1>2. job' = [job EXCEPT ![p] = [step |-> step, rrev |-> recipe, prev |-> revision]]
  BY DEF StartJob
<1>3. recipe \in 0..MaxRecipes /\ recipe # 0 /\ 0 \in 0..made'
  BY InstallConstants DEF TypeInv, CacheType
<1>4. job' \in [Proc -> [step : {"none"} \union Downloads \union Exports \union Removes,
                         rrev : 0..MaxRecipes, prev : 0..made']]
  BY <1>2, <1>3 DEF JobType
<1>5. \A q \in Proc : /\ job'[q].step = "none" <=> job'[q] = NoJob
                      /\ job'[q].step \in Downloads \union Exports =>
                             job'[q].prev # 0 /\ job'[q].rrev # 0
  BY <1>2, <1>3 DEF JobType, NoJob, Downloads, Exports, Removes
<1> QED BY <1>1, <1>3, <1>4, <1>5 DEF JobType

\* The types hold, whatever meets and is cut short.
LEMMA TypesStep ==
    ASSUME TypeInv, JobType, [ActorsNext]_allVars
    PROVE  TypeInv' /\ JobType'
<1>t. /\ CacheType /\ ProcType
      /\ recipe \in Revision /\ server \in [Revision -> 0..made] /\ made \in Nat
      /\ folder \in Folder \union {NoFolder} /\ dirty \in BOOLEAN
      /\ meta \in [prev : 0..made, rrev : 0..MaxRecipes] /\ 0 \in 0..made
      /\ {installs, published, accidents} \subseteq Nat
  BY DEF TypeInv, CacheType, Revision
<1>m. /\ 0 \in 0..MaxRecipes /\ [prev |-> 0, rrev |-> 0] \in [prev : 0..made, rrev : 0..MaxRecipes]
  BY <1>t, InstallConstants
<1>1. CASE World \/ UNCHANGED allVars
  <2>1. TypeInv'
    BY <1>1, InstallIsNext, TypeInvStep
  <2>2. 0..made \subseteq 0..made'
    BY <1>1, InstallIsNext, MadeGrows
  <2>3. job' = job /\ exported' \in {0, exported}
    BY <1>1 DEF World, allVars, jobVars
  <2> QED BY <1>t, <2>1, <2>2, <2>3 DEF JobType
<1>2. ASSUME NEW p \in Proc, InstallStep(p) PROVE TypeInv' /\ JobType'
  <2>1. TypeInv'
    BY <1>2, InstallIsNext, TypeInvStep
  <2>2. 0..made \subseteq 0..made'
    BY <1>2, InstallIsNext, MadeGrows
  <2>3. job' = job /\ exported' \in {0, exported}
    BY <1>2 DEF InstallStep, InstallBegins, InstallGoesOn, jobVars
  <2> QED BY <1>t, <2>1, <2>2, <2>3 DEF JobType
<1>3. ASSUME NEW p \in Proc, JobStep(p) PROVE TypeInv' /\ JobType'
  <2>f. \A a, b \in BOOLEAN : job[p].step \in Downloads \union Exports => InFolder(p, a, b) \in Folder
    BY InFolderIsFolder
  <2>j. job[p].step \in Downloads \union Exports =>
            job[p].prev \in 0..made /\ job[p].rrev \in 0..MaxRecipes
    BY DEF JobType
  <2>s. \A r \in Revision : server[r] \in 0..made
    BY <1>t
  <2>1. CASE StartDownload(p)
    <3>1. CacheType'
      BY <2>1, <1>t DEF StartDownload, cache, bounds, CacheType
    <3>2. made' = made /\ server[recipe] \in 0..made /\ server[recipe] # 0
      BY <2>1, <1>t, <2>s DEF StartDownload, cache
    <3> QED BY <2>1, <3>1, <3>2, StartJobTypes DEF StartDownload, Downloads, install
  <2>2. CASE ClearForDownload(p)
    BY <2>2, <1>t, NextStepTypes DEF ClearForDownload, Downloads
  <2>3. CASE ReceivePackage(p)
    <3>1. job[p].step = "receive" /\ job[p].step \in Downloads
      BY <2>3 DEF ReceivePackage, NextStep, Downloads
    <3> QED BY <2>3, <2>f, <3>1, <1>t, NextStepTypes DEF ReceivePackage, Downloads
  <2>4. CASE RecordDownload(p)
    <3>1. job[p].step = "record" /\ job[p].step \in Downloads
      BY <2>4 DEF RecordDownload, NextStep, Downloads
    <3>2. meta' \in [prev : 0..made, rrev : 0..MaxRecipes]
      BY <2>4, <2>j, <3>1 DEF RecordDownload
    <3> QED BY <2>4, <3>2, <1>t, NextStepTypes DEF RecordDownload, Downloads
  <2>5. CASE UnzipPackage(p)
    <3>1. job[p].step = "unzip" /\ job[p].step \in Downloads
      BY <2>5 DEF UnzipPackage, EndJob, Downloads
    <3> QED BY <2>5, <2>f, <3>1, <1>t, EndJobTypes DEF UnzipPackage, JobType, bounds
  <2>6. CASE FailDownload(p)
    <3>1. PICK from \in {"receive", "unzip"} : EndJob(p, from)
      BY <2>6 DEF FailDownload
    <3> QED BY <2>6, <3>1, <1>t, EndJobTypes DEF FailDownload, JobType, bounds
  <2>7. CASE StartExport(p)
    <3>1. made' = made + 1 /\ made' \in Nat /\ 0..made \subseteq 0..made' /\ made' # 0
          /\ made' \in 0..made'
      BY <2>7, <1>t, OneMore DEF StartExport
    <3>2. CacheType'
      BY <2>7, <1>t, <3>1 DEF StartExport, bounds, CacheType
    <3> QED BY <2>7, <3>1, <3>2, StartJobTypes DEF StartExport, Exports, install
  <2>8. CASE MakePackage(p)
    <3>1. job[p].step = "package" /\ job[p].step \in Exports
      BY <2>8 DEF MakePackage, NextStep, Exports
    <3> QED BY <2>8, <2>f, <3>1, <1>t, NextStepTypes DEF MakePackage, Exports
  <2>9. CASE SignPackage(p)
    <3>1. job[p].step = "sign" /\ job[p].step \in Exports
      BY <2>9 DEF SignPackage, NextStep, Exports
    <3> QED BY <2>9, <2>f, <3>1, <1>t, NextStepTypes DEF SignPackage, Exports
  <2>10. CASE RecordExport(p)
    <3>1. job[p].step = "revise" /\ job[p].step \in Exports
      BY <2>10 DEF RecordExport, EndJob, Exports
    <3>2. meta' \in [prev : 0..made, rrev : 0..MaxRecipes]
      BY <2>10, <2>j, <3>1, <1>t DEF RecordExport, Revision
    <3> QED BY <2>10, <2>j, <3>1, <3>2, <1>t, EndJobTypes DEF RecordExport, bounds
  <2>11. CASE FailExport(p)
    BY <2>11, <1>t, EndJobTypes DEF FailExport, JobType, bounds
  <2>12. CASE StartRemove(p)
    <3>1. CacheType'
      BY <2>12, <1>t DEF StartRemove, cache, bounds, CacheType
    <3>2. made' = made
      BY <2>12 DEF StartRemove, cache
    <3> QED BY <2>12, <1>t, <3>1, <3>2, StartJobTypes
        DEF StartRemove, Removes, Downloads, Exports, node
  <2>13. CASE RemovePackage(p)
    BY <2>13, <1>t, NextStepTypes DEF RemovePackage, Removes
  <2>14. CASE RemoveFlag(p)
    BY <2>14, <1>t, NextStepTypes DEF RemoveFlag, Removes
  <2>15. CASE ClearPackage(p)
    BY <2>15, <1>t, <1>m, EndJobTypes DEF ClearPackage, JobType, bounds
  <2>16. CASE RemoveLocks(p)
    <3>1. CacheType' /\ UNCHANGED <<made, job, exported>>
      BY <2>16, <1>t DEF RemoveLocks, cache, bounds, CacheType
    <3>2. TypeInv'
      BY <2>16, <3>1, OthersKeepTypes DEF RemoveLocks, node
    <3> QED BY <3>1, <3>2 DEF JobType
  <2>17. CASE Kill(p)
    <3>1. accidents + 1 \in Nat
      BY <1>t
    <3>2. {installs, published, accidents}' \subseteq Nat
      BY <2>17, <3>1, <1>t DEF Kill
    <3> QED BY <2>17, <1>t, <3>2, EndJobTypes DEF Kill, JobType
  <2>18. CASE EmptyForExport(p)
    BY <2>18, <1>t, NextStepTypes DEF EmptyForExport, Exports
  <2>19. CASE FailRemoval(p)
    <3>1. accidents + 1 \in Nat
      BY <1>t
    <3>2. {installs, published, accidents}' \subseteq Nat
      BY <2>19, <3>1, <1>t DEF FailRemoval
    <3>3. folder' \in Folder
      BY <2>19, <1>t, RemainsAreFolders DEF FailRemoval
    <3> QED BY <2>19, <1>t, <3>2, <3>3, EndJobTypes DEF FailRemoval, JobType
  <2> QED
    BY <1>3, <2>1, <2>2, <2>3, <2>4, <2>5, <2>6, <2>7, <2>8, <2>9, <2>10, <2>11, <2>12, <2>13, <2>14, <2>15, <2>16, <2>17, <2>18, <2>19 DEF JobStep
<1> QED BY <1>1, <1>2, <1>3, StepCases
---------------------------------------------------------------------------
\* While nothing has met or been cut short, a process with such a command works alone.
LEMMA OneAtWork ==
    ASSUME JobType, JobsInv, Stands({"overlap", "cut"}),
           NEW p \in Proc, job[p].step # "none"
    PROVE  /\ LockFits /\ JobKnows(p) /\ Alone(p)
           /\ \A q \in Proc : pc[q] = "idle"
           /\ \A q \in Proc \ {p} : job[q] = NoJob /\ job[q].step = "none"
BY DEF JobsInv, Alone, Working, JobType, NoJob

LEMMA NobodyAtWork ==
    ASSUME JobType, JobsInv, Stands({"overlap", "cut"}), NEW p \in Proc, pc[p] # "idle"
    PROVE  \A q \in Proc : job[q] = NoJob /\ job[q].step = "none"
BY DEF JobsInv, Alone, Working, JobType, NoJob

\* A command that begins where it stands begins alone.
LEMMA BeginsAlone ==
    ASSUME NEW p \in Proc, "overlap" \notin Overlap(p)
    PROVE  Alone(p) /\ Overlap(p) = {}
BY DEF Overlap, Alone

\* At rest the package lock is free, and nobody is filling the folder.
LEMMA AtRest ==
    ASSUME TypeInv, \A q \in Proc : pc[q] = "idle"
    PROVE  /\ LockFits <=> lock = NoProc
           /\ MarkedWhileFilling /\ HolderKnows
BY InstallConstants DEF TypeInv, ProcType, LockFits, Inside, MarkedWhileFilling, HolderKnows

\* The end of such a command leaves the package sound, if it was alone.
LEMMA EndsSound ==
    ASSUME TypeInv, JobType, JobType', TypeInv', JobsInv, NEW p \in Proc, NEW from,
           EndJob(p, from), from # "none",
           Stands({"overlap", "cut"}), PartialIsDirty', RecordedIsStored'
    PROVE  JobsInv'
<1>1. /\ LockFits /\ \A q \in Proc : pc[q] = "idle"
      /\ \A q \in Proc \ {p} : job[q] = NoJob /\ job[q].step = "none"
  BY OneAtWork DEF EndJob
<1>2. \A q \in Proc : job'[q].step = "none" /\ pc'[q] = "idle"
  BY <1>1 DEF EndJob, JobType, NoJob, install
<1>3. LockFits' /\ MarkedWhileFilling' /\ HolderKnows'
  <2>1. lock' = NoProc
    BY <1>1, AtRest DEF EndJob, install
  <2> QED BY <1>2, <2>1, InstallConstants
      DEF LockFits, Inside, MarkedWhileFilling, HolderKnows
<1> QED BY <1>2, <1>3 DEF JobsInv, FolderInv

\* A step in the middle of a command leaves it alone, and with what it then knows.
LEMMA GoesOnAlone ==
    ASSUME TypeInv, JobType, JobsInv, NEW p \in Proc, NEW from, NEW to,
           NextStep(p, from, to), from # "none", to # "none", to # "clear",
           Stands({"overlap", "cut"}), UNCHANGED exported,
           to \in {"receive", "package", "flag"} => folder' = NoFolder,
           to = "unzip" => meta' = RecordOfJob(p)',
           to = "revise" => folder' = InFolder(p, TRUE, TRUE)',
           to = "metadata" => folder' = NoFolder /\ ~dirty',
           to \in Downloads \union Exports => from \in Downloads \union Exports
    PROVE  JobsInv'
<1>1. /\ LockFits /\ JobKnows(p) /\ \A q \in Proc : pc[q] = "idle"
      /\ \A q \in Proc \ {p} : job[q] = NoJob /\ job[q].step = "none"
      /\ job[p].step = from
  BY OneAtWork DEF NextStep
<1>2. /\ \A q \in Proc : pc'[q] = "idle"
      /\ \A q \in Proc \ {p} : job'[q] = NoJob /\ job'[q].step = "none"
      /\ job'[p].step = to /\ job'[p].rrev = job[p].rrev /\ recipe' = recipe
  BY <1>1 DEF NextStep, JobType, NoJob, install
<1>3. LockFits'
  BY <1>1, <1>2 DEF NextStep, install, LockFits
<1>4. JobKnows(p)'
  BY <1>1, <1>2 DEF JobKnows
<1>5. Alone(p)'
  BY <1>2 DEF Alone, Working
<1> QED BY <1>2, <1>3, <1>4, <1>5 DEF JobsInv

\* Alone, or noted as met: JobsInv.
LEMMA JobsInvStep ==
    ASSUME TypeInv, JobType, JobsInv, [ActorsNext]_allVars
    PROVE  JobsInv'
<1>t. TypeInv' /\ JobType'
  BY TypesStep
<1>n. NoJob.step = "none" /\ "none" \notin Downloads \union Exports \union Removes
  BY DEF NoJob, Downloads, Exports, Removes
<1>s. SUFFICES ASSUME Stands({"overlap", "cut"})' PROVE JobsInv'
  BY DEF JobsInv
<1>1. CASE World
  <2>1. Stands({"overlap", "cut"}) /\ LockFits
    BY <1>1, <1>s DEF World, jobVars, Stands, JobsInv
  <2>2. LockFits'
    BY <1>1, <2>1, InstallIsNext, LockFitsStep
  <2>3. FolderInv => FolderInv'
    BY <1>1, <2>1, InstallIsNext, FolderInvStep
  <2>4. CASE Publish /\ UNCHANGED jobVars
    <3>1. UNCHANGED <<job, exported, recipe, folder, dirty, meta, pc>>
      BY <2>4 DEF Publish, jobVars
    <3>2. ASSUME NEW p \in Proc, job'[p].step # "none"
          PROVE  pc'[p] = "idle" /\ Alone(p)' /\ JobKnows(p)'
      <4>1. pc[p] = "idle" /\ Alone(p) /\ JobKnows(p)
        BY <2>1, <3>1, <3>2 DEF JobsInv
      <4> QED BY <3>1, <4>1 DEF Alone, Working, JobKnows, PartialIsDirty, Partial,
              RecordedIsStored, RecordOfJob, InFolder
    <3>3. ASSUME \A p \in Proc : job'[p].step = "none" PROVE FolderInv'
      BY <2>1, <2>3, <3>1, <3>3 DEF JobsInv
    <3> QED BY <2>2, <3>2, <3>3 DEF JobsInv
  <2>5. CASE ChangeRecipe /\ UNCHANGED job
    <3>1. \A p \in Proc : job[p] = NoJob
      BY <1>1, <1>s, <2>5 DEF World, Publish, ChangeRecipe, Stands
    <3> QED BY <1>n, <2>1, <2>2, <2>3, <2>5, <3>1 DEF JobsInv
  <2> QED BY <1>1, <2>4, <2>5 DEF World
<1>2. CASE UNCHANGED allVars
  <2>1. UNCHANGED <<job, exported, recipe, folder, dirty, meta, pc, lock, spoiled, prev, rrev, binary>>
    BY <1>2 DEF allVars, vars, cache, node, jobVars
  <2> QED BY <2>1
      DEF JobsInv, Stands, LockFits, Alone, Working, JobKnows, PartialIsDirty, Partial,
          RecordedIsStored, RecordOfJob, InFolder, FolderInv, MarkedWhileFilling,
          HolderKnows, Holding, RecordOf
<1>3. ASSUME NEW p \in Proc, InstallStep(p) PROVE JobsInv'
  <2>1. Stands({"overlap", "cut"}) /\ LockFits
    BY <1>3, <1>s DEF InstallStep, InstallBegins, InstallGoesOn, jobVars, Stands, JobsInv
  <2>2. \A q \in Proc : job[q] = NoJob
    <3>1. CASE InstallBegins(p)
      BY <1>s, <3>1 DEF InstallBegins, Stands
    <3>2. CASE InstallGoesOn(p) \/ InstallBreaks(p)
      <4>1. pc[p] # "idle"
        <5>1. CASE InstallBreaks(p)
          BY <5>1 DEF InstallBreaks, FailLeavingPart, Crash
        <5>2. CASE Progress(p)
          BY <5>2 DEF Progress, CheckFolder, StartPurge, FinishPurge, StartRemoving,
                 Look, FindUpdate, FindCached,
                 FindNothingReadable, FindRemote, FindNowhere, LockPackage, Skip, SetDirty,
                 RemoveFolder, StartPackaging, FinishPackaging, StartReceiving,
                 FinishReceiving, RecordRevision, Unzip, CleanDirty, UseFolder, Fail, At
        <5> QED BY <3>2, <5>1, <5>2 DEF InstallGoesOn
      <4> QED BY <2>1, <4>1, NobodyAtWork
    <3> QED BY <1>3, <3>1, <3>2 DEF InstallStep
  <2>3. job' = job
    BY <1>3 DEF InstallStep, InstallBegins, InstallGoesOn, jobVars
  <2>4. FolderInv
    BY <1>n, <2>1, <2>2 DEF JobsInv
  <2>5. LockFits' /\ FolderInv'
    BY <1>3, <2>1, <2>4, InstallIsNext, LockFitsStep, FolderInvStep
  <2> QED BY <1>n, <2>2, <2>3, <2>5 DEF JobsInv
<1>4. ASSUME NEW p \in Proc, JobStep(p) PROVE JobsInv'
  <2>k. ASSUME Stands({"overlap", "cut"}), job[p].step # "none"
        PROVE  JobKnows(p) /\ job[p].rrev \in 0..MaxRecipes
    BY <2>k, OneAtWork DEF JobType
  \* They begin alone: everybody is idle, and so they stay.
  <2>b. ASSUME NEW step \in {"clear", "empty", "folder"}, NEW revision,
               StartJob(p, step, revision), Alone(p), lock' \in {lock, NoProc},
               Stands({"overlap", "cut"}) \/ lock' = NoProc, UNCHANGED <<pc, recipe>>,
               exported' = 0,
               step = "clear" => Stands({"overlap", "cut"}) /\ UNCHANGED <<folder, dirty, meta>>
        PROVE  JobsInv'
    <3>1. job[p] = NoJob /\ \A q \in Proc : job[q] = NoJob /\ pc[q] = "idle" /\ pc'[q] = "idle"
      BY <2>b DEF StartJob, Working, Alone
    <3>2. LockFits'
      <4>1. lock' = NoProc
        BY <2>b, <3>1, AtRest DEF JobsInv
      <4> QED BY <3>1, <4>1, InstallConstants DEF LockFits, Inside
    <3>3. /\ job'[p].step = step /\ job'[p].rrev = recipe
          /\ \A q \in Proc \ {p} : job'[q] = NoJob /\ job'[q].step = "none"
      BY <1>n, <2>b, <3>1 DEF StartJob, JobType
    <3>4. step = "clear" => PartialIsDirty' /\ RecordedIsStored'
      <4>1. ASSUME step = "clear" PROVE FolderInv
        BY <1>n, <2>b, <3>1, <4>1 DEF JobsInv
      <4> QED BY <2>b, <4>1
          DEF FolderInv, PartialIsDirty, RecordedIsStored, Partial
    <3>5. JobKnows(p)'
      BY <2>b, <3>3, <3>4 DEF JobKnows, Downloads, Exports
    <3>6. Alone(p)'
      BY <3>1, <3>3 DEF Alone, Working
    <3> QED BY <2>b, <3>1, <3>2, <3>3, <3>5, <3>6 DEF JobsInv
  <2>1. CASE StartDownload(p)
    <3>1. Stands({"overlap", "cut"}) /\ Alone(p)
      BY <1>s, <2>1, BeginsAlone DEF StartDownload, Stands
    <3> QED BY <2>1, <2>b, <3>1 DEF StartDownload, cache, install
  <2>2. CASE ClearForDownload(p)
    <3>1. Stands({"overlap", "cut"})
      BY <1>s, <2>2 DEF ClearForDownload, NextStep, Stands
    <3> QED BY <2>2, <3>1, GoesOnAlone DEF ClearForDownload, Downloads
  <2>3. CASE ReceivePackage(p)
    <3>1. Stands({"overlap", "cut"})
      BY <1>s, <2>3 DEF ReceivePackage, NextStep, Stands
    <3> QED BY <2>3, <3>1, GoesOnAlone DEF ReceivePackage, Downloads
  <2>4. CASE RecordDownload(p)
    <3>1. Stands({"overlap", "cut"}) /\ meta' = RecordOfJob(p)'
      BY <1>s, <2>4 DEF RecordDownload, NextStep, Stands, RecordOfJob, JobType
    <3> QED BY <2>4, <3>1, GoesOnAlone DEF RecordDownload, Downloads
  <2>5. CASE UnzipPackage(p)
    <3>1. Stands({"overlap", "cut"}) /\ JobKnows(p) /\ job[p].step = "unzip"
      BY <1>s, <2>5, <2>k DEF UnzipPackage, EndJob, Stands
    <3>2. PartialIsDirty' /\ RecordedIsStored'
      BY <2>5, <3>1 DEF UnzipPackage, JobKnows, PartialIsDirty, Partial, RecordedIsStored,
             InFolder, RecordOfJob
    <3> QED BY <1>t, <2>5, <3>1, <3>2, EndsSound DEF UnzipPackage
  <2>6. CASE FailDownload(p)
    <3>1. PICK from \in {"receive", "unzip"} : EndJob(p, from)
      BY <2>6 DEF FailDownload
    <3>2. Stands({"overlap", "cut"}) /\ PartialIsDirty' /\ RecordedIsStored'
      BY <1>s, <2>6 DEF FailDownload, Stands, PartialIsDirty, Partial, RecordedIsStored
    <3> QED BY <1>t, <3>1, <3>2, EndsSound
  <2>7. CASE StartExport(p)
    <3>1. Stands({"overlap", "cut"}) /\ Alone(p)
      BY <1>s, <2>7, BeginsAlone DEF StartExport, Stands
    <3> QED BY <2>7, <2>b, <3>1 DEF StartExport, install
  <2>8. CASE MakePackage(p)
    <3>1. Stands({"overlap", "cut"})
      BY <1>s, <2>8 DEF MakePackage, NextStep, Stands
    <3> QED BY <2>8, <3>1, GoesOnAlone DEF MakePackage, Exports
  <2>9. CASE SignPackage(p)
    <3>1. Stands({"overlap", "cut"}) /\ folder' = InFolder(p, TRUE, TRUE)'
      BY <1>s, <2>9 DEF SignPackage, NextStep, Stands, InFolder, JobType
    <3> QED BY <2>9, <3>1, GoesOnAlone DEF SignPackage, Exports
  <2>10. CASE RecordExport(p)
    <3>1. Stands({"overlap", "cut"}) /\ JobKnows(p) /\ job[p].step = "revise"
      BY <1>s, <2>10, <2>k DEF RecordExport, EndJob, Stands
    <3>2. PartialIsDirty' /\ RecordedIsStored'
      BY <2>10, <3>1 DEF RecordExport, JobKnows, PartialIsDirty, Partial,
             RecordedIsStored, InFolder, Exports
    <3> QED BY <1>t, <2>10, <3>1, <3>2, EndsSound DEF RecordExport
  <2>11. CASE FailExport(p)
    BY <1>s, <2>11 DEF FailExport, Stands
  <2>12. CASE StartRemove(p)
    <3>1. Alone(p)
      BY <1>s, <2>12, BeginsAlone DEF StartRemove, Stands, Overlap
    <3> QED BY <2>12, <2>b, <3>1 DEF StartRemove, cache
  <2>13. CASE RemovePackage(p)
    <3>1. Stands({"overlap", "cut"})
      BY <1>s, <2>13 DEF RemovePackage, NextStep, Stands
    <3> QED BY <2>13, <3>1, GoesOnAlone DEF RemovePackage, Downloads, Exports
  <2>14. CASE RemoveFlag(p)
    <3>1. Stands({"overlap", "cut"}) /\ JobKnows(p) /\ job[p].step = "flag"
      BY <1>s, <2>14, <2>k DEF RemoveFlag, NextStep, Stands
    <3>2. folder' = NoFolder
      BY <2>14, <3>1 DEF RemoveFlag, JobKnows
    <3> QED BY <2>14, <3>1, <3>2, GoesOnAlone DEF RemoveFlag, Downloads, Exports
  <2>15. CASE ClearPackage(p)
    <3>1. Stands({"overlap", "cut"}) /\ JobKnows(p) /\ job[p].step = "metadata"
      BY <1>s, <2>15, <2>k DEF ClearPackage, EndJob, Stands
    <3>2. PartialIsDirty' /\ RecordedIsStored'
      BY <2>15, <3>1 DEF ClearPackage, JobKnows, PartialIsDirty, Partial, RecordedIsStored
    <3> QED BY <1>t, <2>15, <3>1, <3>2, EndsSound DEF ClearPackage
  <2>16. CASE RemoveLocks(p)
    <3>1. Stands({"overlap", "cut"}) /\ Alone(p)
      BY <1>s, <2>16, BeginsAlone DEF RemoveLocks, Stands
    <3>2. \A q \in Proc : job[q] = NoJob /\ pc[q] = "idle" /\ pc'[q] = "idle" /\ job'[q] = NoJob
      BY <2>16, <3>1 DEF RemoveLocks, Working, Alone
    <3>3. FolderInv
      BY <1>n, <3>1, <3>2 DEF JobsInv
    <3>4. UNCHANGED <<folder, dirty, meta, pc, prev, rrev, binary>> /\ lock' = NoProc
      BY <2>16 DEF RemoveLocks, cache, node
    <3>5. FolderInv'
      BY <3>3, <3>4 DEF FolderInv, PartialIsDirty, Partial, RecordedIsStored,
             MarkedWhileFilling, HolderKnows, Holding, RecordOf
    <3>6. LockFits'
      BY <3>2, <3>4, InstallConstants DEF LockFits, Inside
    <3> QED BY <1>n, <3>2, <3>5, <3>6 DEF JobsInv
  <2>17. CASE Kill(p)
    BY <1>s, <2>17 DEF Kill, Stands
  <2>18. CASE EmptyForExport(p)
    <3>1. Stands({"overlap", "cut"})
      BY <1>s, <2>18 DEF EmptyForExport, NextStep, Stands
    <3> QED BY <2>18, <3>1, GoesOnAlone DEF EmptyForExport, Exports
  <2>19. CASE FailRemoval(p)
    BY <1>s, <2>19 DEF FailRemoval, Stands
  <2> QED
    BY <1>4, <2>1, <2>2, <2>3, <2>4, <2>5, <2>6, <2>7, <2>8, <2>9, <2>10, <2>11, <2>12, <2>13, <2>14, <2>15, <2>16, <2>17, <2>18, <2>19 DEF JobStep
<1> QED BY <1>1, <1>2, <1>3, <1>4, StepCases

\* What export-pkg put there stays, whole and recorded, until it is replaced.
LEMMA ExportInvStep ==
    ASSUME TypeInv, JobType, JobsInv, ExportInv, [ActorsNext]_allVars
    PROVE  ExportInv'
<1>t. ProcType /\ CacheType
  BY DEF TypeInv
<1>n. NoJob.step = "none" /\ "none" \notin Downloads \union Exports \union Removes
  BY DEF NoJob, Downloads, Exports, Removes
<1>s. SUFFICES ASSUME Stands({"overlap", "cut", "flagged"})' PROVE ExportInv'
  BY DEF ExportInv
<1>1. CASE World
  <2>1. Stands({"overlap", "cut", "flagged"}) /\ UNCHANGED <<folder, dirty, meta, pc, rrev, job>>
    BY <1>1, <1>s DEF World, jobVars, Stands, Publish, ChangeRecipe, node
  <2>2. exported' = 0 \/ UNCHANGED <<exported, recipe>>
    BY <1>1 DEF World, Publish, jobVars
  <2> QED BY <2>1, <2>2 DEF ExportInv, ExportKept
<1>2. CASE UNCHANGED allVars
  BY <1>2 DEF allVars, vars, cache, node, jobVars, ExportInv, ExportKept, Stands
<1>3. ASSUME NEW p \in Proc, InstallStep(p) PROVE ExportInv'
  <2>1. /\ Stands({"overlap", "cut", "flagged"}) /\ Stands({"overlap", "cut"})
        /\ ExportKept
    BY <1>3, <1>s
    DEF InstallStep, InstallBegins, InstallGoesOn, jobVars, Stands, ExportInv
  <2>2. \A q \in Proc : job'[q].step = "none"
    <3>1. CASE InstallBegins(p)
      BY <1>n, <1>s, <3>1 DEF InstallBegins, Stands
    <3>2. CASE InstallGoesOn(p) \/ (InstallBreaks(p) /\ UNCHANGED jobVars)
      <4>1. pc[p] # "idle"
        <5>1. CASE InstallBreaks(p)
          BY <5>1 DEF InstallBreaks, FailLeavingPart, Crash
        <5>2. CASE Progress(p)
          BY <5>2 DEF Progress, CheckFolder, StartPurge, FinishPurge, StartRemoving,
                 Look, FindUpdate, FindCached,
                 FindNothingReadable, FindRemote, FindNowhere, LockPackage, Skip, SetDirty,
                 RemoveFolder, StartPackaging, FinishPackaging, StartReceiving,
                 FinishReceiving, RecordRevision, Unzip, CleanDirty, UseFolder, Fail, At
        <5> QED BY <3>2, <5>1, <5>2 DEF InstallGoesOn
      <4>2. job' = job
        BY <3>2 DEF InstallGoesOn, jobVars
      <4> QED BY <2>1, <4>1, <4>2, NobodyAtWork
    <3> QED BY <1>3, <3>1, <3>2 DEF InstallStep
  <2>e. exported' \in {0, exported}
    BY <1>3 DEF InstallStep, InstallBegins, InstallGoesOn, jobVars
  <2>3. ExportKept'
    <3> SUFFICES ASSUME exported' # 0 PROVE ExportKept'
      BY DEF ExportKept
    <3>0. /\ exported' = exported /\ exported # 0 /\ ~dirty /\ meta.rrev = recipe
          /\ folder # NoFolder
          /\ pc[p] \notin Inside \ {"locked", "use"}
          /\ pc[p] # "idle" => rrev[p] = recipe
      BY <2>1, <2>e DEF ExportKept
    <3> USE <1>t, <2>1, <3>0 DEF ExportKept, ProcType, Inside, cache, node, At, End, Decide
    <3>1. CASE InstallBegins(p)
      BY <3>1 DEF InstallBegins, Start
    <3>2. CASE InstallBreaks(p)
      <4>1. Crash(p)
        BY <3>2 DEF InstallBreaks, FailLeavingPart
      <4>2. /\ UNCHANGED <<recipe, folder, dirty, meta>>
            /\ pc' = [pc EXCEPT ![p] = "idle"] /\ rrev' = [rrev EXCEPT ![p] = 1]
        BY <4>1 DEF Crash
      <4> QED BY <4>2
    <3>3. CASE InstallGoesOn(p)
      <4>n. Progress(p) /\ ~SetDirty(p)
        BY <3>3 DEF InstallGoesOn
      <4>1. CASE CheckFolder(p)
        BY <4>1 DEF CheckFolder
      \* Neither flagged nor of another recipe, it does not have to go.
      <4>6. ASSUME StartPurge(p) PROVE FALSE
        BY <4>6 DEF StartPurge, MustGo
      <4>2. CASE Look(p) \/ FindUpdate(p) \/ FindCached(p) \/ FindRemote(p)
        BY <4>2 DEF Look, FindUpdate, FindCached, FindRemote
      <4>3. CASE FindNothingReadable(p) \/ FindNowhere(p)
        BY <4>3 DEF FindNothingReadable, FindNowhere
      <4>4. CASE LockPackage(p) \/ Skip(p) \/ UseFolder(p) \/ Fail(p)
        BY <4>4 DEF LockPackage, Skip, UseFolder, Fail
      <4>5. CASE \/ FinishPurge(p) \/ StartRemoving(p) \/ RemoveFolder(p)
                 \/ StartPackaging(p) \/ FinishPackaging(p) \/ StartReceiving(p)
                 \/ FinishReceiving(p) \/ RecordRevision(p) \/ Unzip(p) \/ CleanDirty(p)
        BY <4>5 DEF FinishPurge, StartRemoving, RemoveFolder, StartPackaging,
               FinishPackaging, StartReceiving, FinishReceiving, RecordRevision, Unzip,
               CleanDirty
      <4> QED BY <4>n, <4>1, <4>2, <4>3, <4>4, <4>5, <4>6 DEF Progress
    <3> QED BY <1>3, <3>1, <3>2, <3>3 DEF InstallStep
  <2> QED BY <1>n, <2>2, <2>3 DEF ExportInv
<1>4. ASSUME NEW p \in Proc, JobStep(p) PROVE ExportInv'
  \* In the middle of a command nothing counts as exported.
  <2>k. ASSUME Stands({"overlap", "cut", "flagged"}), job[p].step # "none"
        PROVE  /\ JobKnows(p) /\ exported = 0 /\ \A q \in Proc : pc[q] = "idle"
               /\ \A q \in Proc \ {p} : job[q].step = "none"
               /\ job[p].step \in Exports => ~dirty
    <3>1. Stands({"overlap", "cut"})
      BY <2>k DEF Stands
    <3> QED BY <2>k, <3>1, OneAtWork DEF JobKnows, ExportInv
  <2>g. ASSUME NEW from \in Downloads \union Exports \union Removes, NEW to,
               NextStep(p, from, to), UNCHANGED exported, dirty' \in {dirty, FALSE},
               to \in Exports => from \in Exports
        PROVE  ExportInv'
    <3>1. /\ Stands({"overlap", "cut", "flagged"}) /\ job[p].step = from /\ from # "none"
          /\ job'[p].step = to /\ \A q \in Proc \ {p} : job'[q] = job[q]
      BY <1>n, <1>s, <2>g DEF NextStep, Stands, JobType
    <3> QED BY <1>n, <2>g, <2>k, <3>1 DEF ExportInv, ExportKept
  <2>e. ASSUME NEW from \in Downloads \union Exports \union Removes,
               EndJob(p, from), UNCHANGED <<exported, spoiled>>
        PROVE  ExportInv'
    <3>1. /\ Stands({"overlap", "cut", "flagged"}) /\ job[p].step = from /\ from # "none"
          /\ job'[p].step = "none" /\ \A q \in Proc \ {p} : job'[q] = job[q]
      BY <1>n, <1>s, <2>e DEF EndJob, Stands, JobType, NoJob
    <3> QED BY <1>n, <2>e, <2>k, <3>1 DEF ExportInv, ExportKept
  <2>b. ASSUME NEW step \in Downloads \union Exports \union Removes, NEW revision,
               StartJob(p, step, revision), Alone(p), exported' = 0,
               step \in Exports => ~dirty'
        PROVE  ExportInv'
    <3>1. job'[p].step = step /\ \A q \in Proc \ {p} : job'[q].step = "none"
      BY <1>n, <2>b DEF StartJob, JobType, Alone, Working
    <3> QED BY <1>n, <2>b, <3>1 DEF ExportInv, ExportKept
  <2>1. CASE StartDownload(p)
    <3>1. Alone(p)
      BY <1>s, <2>1, BeginsAlone DEF StartDownload, Stands
    <3> QED BY <2>1, <2>b, <3>1 DEF StartDownload, Downloads, Exports
  <2>2. CASE ClearForDownload(p)
    BY <2>2, <2>g DEF ClearForDownload, Downloads, Exports
  <2>3. CASE ReceivePackage(p)
    BY <2>3, <2>g DEF ReceivePackage, Downloads, Exports
  <2>4. CASE RecordDownload(p)
    BY <2>4, <2>g DEF RecordDownload, Downloads, Exports
  <2>5. CASE UnzipPackage(p)
    BY <2>5, <2>e DEF UnzipPackage, Downloads
  <2>6. CASE FailDownload(p)
    BY <2>6, <2>e DEF FailDownload, Downloads
  <2>7. CASE StartExport(p)
    <3>1. Alone(p) /\ ~dirty'
      BY <1>s, <2>7, BeginsAlone DEF StartExport, Stands
    <3> QED BY <2>7, <2>b, <3>1 DEF StartExport, Exports
  <2>8. CASE MakePackage(p)
    BY <2>8, <2>g DEF MakePackage, Exports
  <2>9. CASE SignPackage(p)
    BY <2>9, <2>g DEF SignPackage, Exports
  <2>10. CASE RecordExport(p)
    <3>1. /\ Stands({"overlap", "cut", "flagged"}) /\ job[p].step = "revise"
          /\ job'[p].step = "none" /\ \A q \in Proc \ {p} : job'[q] = job[q]
      BY <1>n, <1>s, <2>10 DEF RecordExport, EndJob, Stands, JobType, NoJob
    <3>2. /\ JobKnows(p) /\ \A q \in Proc : pc[q] = "idle" /\ job'[q].step = "none"
          /\ ~dirty
      BY <2>k, <3>1 DEF Exports
    <3>3. InFolder(p, TRUE, TRUE) \in Folder
      BY <3>1, InFolderIsFolder DEF Exports
    <3>4. /\ folder' = InFolder(p, TRUE, TRUE) /\ folder' # NoFolder /\ ~dirty'
          /\ exported' = job[p].prev /\ meta' = [prev |-> job[p].prev, rrev |-> recipe]
          /\ UNCHANGED <<recipe, pc>>
      BY <2>10, <3>1, <3>2, <3>3, NoFolderIsNone DEF RecordExport, EndJob, JobKnows, install
    <3>5. ExportKept'
      BY <3>2, <3>4 DEF ExportKept, InFolder, Inside
    <3> QED BY <1>n, <3>2, <3>5 DEF ExportInv
  <2>11. CASE FailExport(p)
    BY <1>s, <2>11 DEF FailExport, Stands
  <2>12. CASE StartRemove(p)
    <3>1. Alone(p)
      BY <1>s, <2>12, BeginsAlone DEF StartRemove, Stands, Overlap
    <3> QED BY <2>12, <2>b, <3>1 DEF StartRemove, Removes, Exports
  <2>13. CASE RemovePackage(p)
    BY <2>13, <2>g DEF RemovePackage, Removes, Exports
  <2>14. CASE RemoveFlag(p)
    BY <2>14, <2>g DEF RemoveFlag, Removes, Exports
  <2>15. CASE ClearPackage(p)
    BY <2>15, <2>e DEF ClearPackage, Removes
  <2>16. CASE RemoveLocks(p)
    <3>1. Stands({"overlap", "cut", "flagged"})
      BY <1>s, <2>16 DEF RemoveLocks, Stands
    <3>2. UNCHANGED <<exported, folder, dirty, meta, recipe, pc, rrev, job>>
      BY <2>16 DEF RemoveLocks, cache, node
    <3> QED BY <3>1, <3>2 DEF ExportInv, ExportKept
  <2>17. CASE Kill(p)
    BY <1>s, <2>17 DEF Kill, Stands
  <2>18. CASE EmptyForExport(p)
    BY <2>18, <2>g DEF EmptyForExport, Exports
  <2>19. CASE FailRemoval(p)
    BY <1>s, <2>19 DEF FailRemoval, Stands
  <2> QED
    BY <1>4, <2>1, <2>2, <2>3, <2>4, <2>5, <2>6, <2>7, <2>8, <2>9, <2>10, <2>11, <2>12, <2>13, <2>14, <2>15, <2>16, <2>17, <2>18, <2>19 DEF JobStep
<1> QED BY <1>1, <1>2, <1>3, <1>4, StepCases
---------------------------------------------------------------------------
\* Nobody is at work, and nothing there.
LEMMA ActorsInitEstablishes == ActorsInit => ActorsInv
<1> SUFFICES ASSUME ActorsInit PROVE ActorsInv
  OBVIOUS
<1>1. TypeInv /\ LockFits /\ FolderInv /\ made \in Nat
  BY InitEstablishes DEF ActorsInit, IInv, TypeInv, CacheType
<1>2. JobType
  <2>1. NoJob \in [step : {"none"} \union Downloads \union Exports \union Removes,
                   rrev : 0..MaxRecipes, prev : 0..made]
    BY <1>1, InstallConstants DEF NoJob
  <2> QED BY <1>1, <2>1 DEF ActorsInit, JobType, NoJob, Downloads, Exports
<1>3. JobsInv /\ ExportInv
  BY <1>1 DEF ActorsInit, JobsInv, ExportInv, ExportKept, NoJob, Exports
<1> QED BY <1>1, <1>2, <1>3 DEF ActorsInv

\* The inductive invariant: the types, whatever happens; and while commands do not meet
\* and are not cut short, what the one at work knows of folder, flag and record.
THEOREM ActorsInvariance == ActorsSpec => []ActorsInv
<1>1. ActorsInv /\ [ActorsNext]_allVars => ActorsInv'
  BY TypesStep, JobsInvStep, ExportInvStep DEF ActorsInv
<1> QED BY ActorsInitEstablishes, <1>1, PTL DEF ActorsSpec

\* At rest a part carries the flag and the record is true, for any number of
\* installations that meet, fail and are killed, and of downloads, exports and removals
\* that meet nobody and are not cut short: a part of an unflagged package of another
\* recipe revision, whose removal an evaluation has not ended, excepted.
THEOREM RestIsSound == ActorsSpec => []SoundAtRest
<1>1. ActorsInv => SoundAtRest
  BY DEF ActorsInv, SoundAtRest, JobsInv, Quiet, Working, FolderInv, NoJob
<1> QED BY <1>1, ActorsInvariance, PTL

\* No evaluation takes away what export-pkg has put in the cache.
THEOREM ExportIsKept == ActorsSpec => []ExportedStays
<1>1. ActorsInv => ExportedStays
  BY DEF ActorsInv, ExportedStays, ExportInv, ExportKept
<1> QED BY <1>1, ActorsInvariance, PTL

\* A removal that nobody disturbs leaves neither folder nor flag nor record.
THEOREM RemovalHeals == ActorsSpec => RemoveHeals
<1> DEFINE Heals == \A p \in Proc :
         job[p].step = "metadata" /\ job'[p] = NoJob /\ spoiled' = {} =>
             folder' = NoFolder /\ ~dirty' /\ meta'.prev = 0
<1>1. ActorsInv /\ [ActorsNext]_allVars => [Heals]_allVars
  <2> SUFFICES ASSUME TypeInv, JobType, JobsInv, ActorsNext, NEW p \in Proc,
                      job[p].step = "metadata", job'[p] = NoJob, spoiled' = {}
               PROVE  folder' = NoFolder /\ ~dirty' /\ meta'.prev = 0
    BY DEF ActorsInv
  <2>1. job[p] # NoJob
    BY DEF NoJob
  <2>2. CASE World \/ UNCHANGED allVars
    BY <2>1, <2>2 DEF World, allVars, jobVars
  <2>3. ASSUME NEW q \in Proc, InstallStep(q) PROVE FALSE
    BY <2>1, <2>3 DEF InstallStep, InstallBegins, InstallGoesOn, jobVars
  <2>4. ASSUME NEW q \in Proc, JobStep(q) PROVE q = p
    BY <2>1, <2>4 DEF JobType, JobStep, StartDownload, ClearForDownload, ReceivePackage,
           RecordDownload, UnzipPackage, FailDownload, StartExport, EmptyForExport,
           MakePackage, SignPackage, RecordExport, FailExport, StartRemove, RemovePackage,
           RemoveFlag, ClearPackage, RemoveLocks, FailRemoval, Kill, StartJob, NextStep,
           EndJob
  <2>5. ASSUME JobStep(p) PROVE ClearPackage(p)
    <3>1. Working(p)
      BY <2>1 DEF Working
    <3>2. ~Kill(p) /\ ~FailExport(p) /\ ~FailRemoval(p)
      BY DEF Kill, FailExport, FailRemoval
    <3>3. ~RemoveLocks(p) /\ ~StartDownload(p) /\ ~StartExport(p) /\ ~StartRemove(p)
      BY <3>1 DEF RemoveLocks, StartDownload, StartExport, StartRemove, StartJob
    <3>4. /\ ~ClearForDownload(p) /\ ~ReceivePackage(p) /\ ~RecordDownload(p)
          /\ ~UnzipPackage(p) /\ ~FailDownload(p) /\ ~EmptyForExport(p) /\ ~MakePackage(p)
          /\ ~SignPackage(p) /\ ~RecordExport(p) /\ ~RemovePackage(p) /\ ~RemoveFlag(p)
      BY DEF ClearForDownload, ReceivePackage, RecordDownload, UnzipPackage, FailDownload,
             EmptyForExport, MakePackage, SignPackage, RecordExport, RemovePackage,
             RemoveFlag, NextStep, EndJob
    <3> QED BY <2>5, <3>2, <3>3, <3>4 DEF JobStep
  <2>6. ASSUME ClearPackage(p) PROVE folder' = NoFolder /\ ~dirty' /\ meta'.prev = 0
    <3>1. Stands({"overlap", "cut"})
      BY <2>6 DEF ClearPackage, Stands
    <3>2. JobKnows(p)
      BY <3>1, OneAtWork
    <3> QED BY <2>6, <3>2 DEF ClearPackage, JobKnows
  <2> QED BY <2>2, <2>3, <2>4, <2>5, <2>6, StepCases
<1> QED BY <1>1, ActorsInvariance, PTL DEF ActorsSpec, RemoveHeals
===========================================================================
