--------------------------- MODULE BuildFolders ---------------------------
(***************************************************************************)
(* Building packages of one recipe from source, in several conan processes *)
(* (_PackageBuilder.build_package, config_source).  The packages share the *)
(* source folder, and, where the recipe has a build_id(), build folders.   *)
(* The recipe lock, with the promise of LockPromise, is taken to write     *)
(* while the sources are prepared and to read while a package is built.    *)
(***************************************************************************)
EXTENDS Naturals, FiniteSets

CONSTANTS
    Proc,
    Package,        \* package ids of the recipe
    BuildId,        \* the package id whose build folder each one uses
    Recipes,        \* recipes to consider: see Recipe
    MaxCrashes      \* bound: processes killed

\* no_copy_source: build without a copy of the sources;
\* build_policy = "always": fetch them every time, as an `auto' scm does whose local
\* folder is still there.
Recipe == [noCopySource : BOOLEAN, buildAlways : BOOLEAN]

ASSUME BuildConstants ==
    /\ IsFiniteSet(Proc) /\ IsFiniteSet(Package)
    /\ BuildId \in [Package -> Package]
    /\ Recipes \subseteq Recipe
    /\ MaxCrashes \in Nat

VARIABLES
    recipe,        \* the recipe in the cache
    source,        \* "none", "partial" or "whole"
    sourceDirty,   \* its .dirty flag
    build,         \* of each build folder: as source, or "built" or "spoilt"
    buildDirty,
    package,       \* what came of each package: "none", "good" or "bad"
    pc,
    at,            \* the package each process builds
    skip,          \* will it use the build folder as it is?
    readers, writers, intact,   \* the recipe lock
    overlapped,    \* have two processes ever used one build folder at a time?
    crashes

Lock == INSTANCE LockPromise

folders == <<recipe, source, sourceDirty, build, buildDirty, package>>
lock == <<readers, writers, intact>>
vars == <<folders, pc, at, skip, lock, overlapped, crashes>>

Init ==
    /\ recipe \in Recipes
    /\ source = "none" /\ sourceDirty = FALSE
    /\ build = [k \in Package |-> "none"]
    /\ buildDirty = [k \in Package |-> FALSE]
    /\ package = [k \in Package |-> "none"]
    /\ pc = [p \in Proc |-> "idle"]
    /\ at \in [Proc -> Package]
    /\ skip = [p \in Proc |-> FALSE]
    /\ Lock!PromiseInit
    /\ overlapped = FALSE /\ crashes = 0

Busy == {p \in Proc : pc[p] \notin {"idle", "dead"}}
Dead == {p \in Proc : pc[p] = "dead"}
Folder(p) == BuildId[at[p]]
At(p, from, to) == pc[p] = from /\ pc' = [pc EXCEPT ![p] = to]

\* The installer has the package lock of the package from here to the end.
Begin(p, k) ==
    /\ At(p, "idle", "look")
    /\ \A q \in Busy : at[q] # k
    /\ at' = [at EXCEPT ![p] = k]
    /\ overlapped' = (overlapped \/ \E q \in Busy : Folder(q) = BuildId[k])
    /\ UNCHANGED <<folders, skip, lock, crashes>>

LookTrustingFolder(p) ==
    /\ skip' = [skip EXCEPT ![p] =
                  Folder(p) # at[p] /\ build[Folder(p)] # "none"]
    /\ At(p, "look", IF skip'[p] THEN "toBuild" ELSE "toPrepare")
    /\ UNCHANGED <<folders, at, lock, overlapped, crashes>>
\* _get_build_folder, without the recipe lock: a dirty build folder goes; one
\* that belongs to another package by build_id() is used if it is there.
Look(p) ==
    LET b == Folder(p) IN
    /\ build' = IF buildDirty[b] THEN [build EXCEPT ![b] = "none"] ELSE build
    /\ skip' = [skip EXCEPT ![p] = b # at[p] /\ build'[b] # "none"]
    /\ At(p, "look", IF skip'[p] THEN "toBuild" ELSE "toPrepare")
    /\ UNCHANGED <<recipe, source, sourceDirty, buildDirty, package, at, lock,
                   overlapped, crashes>>

---------------------------------------------------------------------------
(* Under the write lock: _prepare_sources. *)

PrepareUnlocked(p) ==
    /\ At(p, "toPrepare", "mark")
    /\ writers' = writers \union {p}
    /\ UNCHANGED <<folders, readers, intact, at, skip, overlapped, crashes>>
LockToPrepare(p) ==
    /\ At(p, "toPrepare", "mark")
    /\ Lock!AdmitWriter(p)
    /\ UNCHANGED <<folders, at, skip, overlapped, crashes>>

MarkBuildFolder(p) ==
    /\ At(p, "mark", "clear")
    /\ buildDirty' = [buildDirty EXCEPT ![Folder(p)] = TRUE]
    /\ UNCHANGED <<recipe, source, sourceDirty, build, package, at, skip, lock,
                   overlapped, crashes>>

ClearBuildFolder(p) ==
    /\ At(p, "clear", "source")
    /\ build' = [build EXCEPT ![Folder(p)] = "none"]
    /\ UNCHANGED <<recipe, source, sourceDirty, buildDirty, package, at, skip, lock,
                   overlapped, crashes>>

\* config_source: the sources that are there, unless they are dirty.
KeepSource(p) ==
    /\ At(p, "source", "copy")
    /\ source # "none" /\ ~sourceDirty /\ ~recipe.buildAlways
    /\ UNCHANGED <<folders, at, skip, lock, overlapped, crashes>>

\* remove_source: rmdir has begun on sources that are dirty, or are to be fetched anew
\* and carry no flag.
DropSource(p) ==
    /\ At(p, "source", "drop")
    /\ source # "none" /\ (sourceDirty \/ recipe.buildAlways)
    /\ source' = "partial"
    /\ UNCHANGED <<recipe, sourceDirty, build, buildDirty, package, at, skip, lock,
                   overlapped, crashes>>

\* It has ended, or there was nothing to remove.
SourceDropped(p) ==
    /\ pc[p] = "drop" \/ (pc[p] = "source" /\ source = "none")
    /\ At(p, pc[p], "fetch")
    /\ source' = "none"
    /\ UNCHANGED <<recipe, sourceDirty, build, buildDirty, package, at, skip, lock,
                   overlapped, crashes>>

FetchUnmarked(p) ==
    /\ At(p, "fetch", "fetching")
    /\ source' = "partial"
    /\ UNCHANGED <<recipe, sourceDirty, build, buildDirty, package, at, skip, lock,
                   overlapped, crashes>>
\* set_dirty, mkdir; the exported files, the scm checkout and source() follow.
Fetch(p) ==
    /\ At(p, "fetch", "fetching")
    /\ sourceDirty' = TRUE /\ source' = "partial"
    /\ UNCHANGED <<recipe, build, buildDirty, package, at, skip, lock, overlapped,
                   crashes>>

Fetched(p) ==
    /\ At(p, "fetching", "copy")
    /\ source' = "whole" /\ sourceDirty' = FALSE
    /\ UNCHANGED <<recipe, build, buildDirty, package, at, skip, lock, overlapped,
                   crashes>>

\* copytree creates the build folder, and fails if there is one.
Copy(p) ==
    /\ ~recipe.noCopySource
    /\ At(p, "copy", "copying")
    /\ build[Folder(p)] = "none"
    /\ build' = [build EXCEPT ![Folder(p)] = "partial"]
    /\ UNCHANGED <<recipe, source, sourceDirty, buildDirty, package, at, skip, lock,
                   overlapped, crashes>>

Copied(p) ==
    /\ At(p, "copying", "prepared")
    /\ build[Folder(p)] # "none"
    /\ build' = [build EXCEPT ![Folder(p)] = source]
    /\ UNCHANGED <<recipe, source, sourceDirty, buildDirty, package, at, skip, lock,
                   overlapped, crashes>>

NothingToCopy(p) ==
    /\ recipe.noCopySource
    /\ At(p, "copy", "prepared")
    /\ UNCHANGED <<folders, at, skip, lock, overlapped, crashes>>

Unlocked(p) ==
    /\ readers' = readers \ {p} /\ writers' = writers \ {p}
    /\ UNCHANGED intact

UnlockPrepared(p) ==
    /\ At(p, "prepared", "toBuild")
    /\ Unlocked(p)
    /\ UNCHANGED <<folders, at, skip, overlapped, crashes>>

---------------------------------------------------------------------------
(* Under the read lock: build and package. *)

LockToBuild(p) ==
    /\ At(p, "toBuild", "enter")
    /\ Lock!AdmitReader(p)
    /\ UNCHANGED <<folders, at, skip, overlapped, crashes>>

\* The old package goes, and the build folder is made if it is not there.
EnterBuildFolder(p) ==
    /\ At(p, "enter", IF skip[p] THEN "pack" ELSE "build")
    /\ package' = [package EXCEPT ![at[p]] = "none"]
    /\ build' = IF build[Folder(p)] = "none"
                THEN [build EXCEPT ![Folder(p)] = "partial"] ELSE build
    /\ UNCHANGED <<recipe, source, sourceDirty, buildDirty, at, skip, lock,
                   overlapped, crashes>>

Inputs(p) == IF recipe.noCopySource THEN source ELSE build[Folder(p)]

\* build() may well succeed on sources that are not all there.
Build(p) ==
    /\ At(p, "build", "clean")
    /\ build' = [build EXCEPT ![Folder(p)] =
                   IF Inputs(p) = "whole" THEN "built" ELSE "spoilt"]
    /\ UNCHANGED <<recipe, source, sourceDirty, buildDirty, package, at, skip, lock,
                   overlapped, crashes>>

CleanBuildFolder(p) ==
    /\ At(p, "clean", "pack")
    /\ buildDirty[Folder(p)]
    /\ buildDirty' = [buildDirty EXCEPT ![Folder(p)] = FALSE]
    /\ UNCHANGED <<recipe, source, sourceDirty, build, package, at, skip, lock,
                   overlapped, crashes>>

Pack(p) ==
    /\ At(p, "pack", "idle")
    /\ package' = [package EXCEPT ![at[p]] =
                     IF build[Folder(p)] = "built" THEN "good" ELSE "bad"]
    /\ Unlocked(p)
    /\ skip' = [skip EXCEPT ![p] = FALSE]
    /\ UNCHANGED <<recipe, source, sourceDirty, build, buildDirty, at, overlapped,
                   crashes>>

\* complete_recipe_sources, source(), build() or package() raises, or copytree, or
\* the removal of a flag that is gone.  Both `with' statements release the lock.
Fail(p) ==
    /\ pc[p] \in {"clear", "fetching", "copy", "copying", "build", "clean", "pack"}
    /\ pc' = [pc EXCEPT ![p] = "idle"]
    /\ skip' = [skip EXCEPT ![p] = FALSE]
    /\ Unlocked(p)
    /\ UNCHANGED <<folders, at, overlapped, crashes>>

\* rmdir of the sources raises: what is left of them is marked, and the build fails.
DropRefused(p) ==
    /\ At(p, "drop", "idle")
    /\ sourceDirty' = TRUE
    /\ skip' = [skip EXCEPT ![p] = FALSE]
    /\ Unlocked(p)
    /\ UNCHANGED <<recipe, source, build, buildDirty, package, at, overlapped, crashes>>

\* A killed process leaves its mark in the count file of the recipe lock, ...
Crash(p) ==
    /\ p \in Busy /\ crashes < MaxCrashes
    /\ crashes' = crashes + 1
    /\ pc' = [pc EXCEPT ![p] = "dead"]
    /\ UNCHANGED <<folders, at, skip, lock, overlapped>>

\* ... until somebody runs `conan remove --locks'.
CleanLocks ==
    /\ readers \union writers # {} /\ readers \union writers \subseteq Dead
    /\ readers' = {} /\ writers' = {}
    /\ UNCHANGED <<folders, pc, at, skip, intact, overlapped, crashes>>

Step(p) ==
    \/ \E k \in Package : Begin(p, k)
    \/ Look(p) \/ LockToPrepare(p) \/ MarkBuildFolder(p) \/ ClearBuildFolder(p)
    \/ KeepSource(p) \/ DropSource(p) \/ SourceDropped(p) \/ DropRefused(p)
    \/ Fetch(p) \/ Fetched(p)
    \/ Copy(p) \/ Copied(p) \/ NothingToCopy(p) \/ UnlockPrepared(p)
    \/ LockToBuild(p) \/ EnterBuildFolder(p) \/ Build(p)
    \/ CleanBuildFolder(p) \/ Pack(p) \/ Fail(p) \/ Crash(p)

Next == CleanLocks \/ \E p \in Proc : Step(p)
Spec == Init /\ [][Next]_vars

---------------------------------------------------------------------------
\* Where a process has the recipe lock, to write and to read.
Preparing == {"mark", "clear", "source", "drop", "fetch", "fetching", "copy",
              "copying", "prepared"}
Building == {"enter", "build", "clean", "pack"}

\* Every variable holds what the code keeps, and who changes a folder has the
\* lock it needs.
TypeOK ==
    /\ recipe \in Recipe
    /\ source \in {"none", "partial", "whole"} /\ sourceDirty \in BOOLEAN
    /\ build \in [Package -> {"none", "partial", "whole", "built", "spoilt"}]
    /\ buildDirty \in [Package -> BOOLEAN]
    /\ package \in [Package -> {"none", "good", "bad"}]
    /\ at \in [Proc -> Package] /\ skip \in [Proc -> BOOLEAN]
    /\ pc \in [Proc -> {"idle", "look", "toPrepare", "toBuild", "dead"}
                     \union Preparing \union Building]
    /\ readers \subseteq Proc /\ writers \subseteq Proc
    /\ overlapped \in BOOLEAN /\ crashes \in Nat
    /\ writers \ Dead = {p \in Proc : pc[p] \in Preparing}
    /\ readers \ Dead = {p \in Proc : pc[p] \in Building}

\* A source folder that was not filled, or not removed, to the end carries its dirty flag,
\* for the next build to take it away (source.py 125): but for the recipes whose
\* sources every build removes, flag or none (128, 131).
PartialSourceIsDirty == source = "partial" => sourceDirty \/ recipe.buildAlways

\* While anyone builds, nobody touches the sources, which a no_copy_source
\* recipe is building in.
SourcesStayWhileBuilding == [][readers \ Dead # {} => source' = source]_vars

\* No package is made of a build that did not end, or that began without its
\* sources: not of what a failed or killed build left in a build folder.
PackageIsGood == \A k \in Package : package[k] # "bad"
PackageIsGoodAlone == ~overlapped => PackageIsGood
===========================================================================
