-------------------------- MODULE PackageInstall --------------------------
(***************************************************************************)
(* One binary package of one recipe in the local cache, and the conan      *)
(* processes that install it at the same time.  Each first evaluates the   *)
(* graph (GraphBinariesAnalyzer), which decides what to do, and later,     *)
(* under the package lock, does it (BinaryInstaller).  What was decided    *)
(* may no longer fit the folder when it is done.                           *)
(***************************************************************************)
EXTENDS Integers, FiniteSets

CONSTANTS
    Proc,              \* conan processes
    Modes,             \* how `conan install' is run: see Mode
    RevisionsEnabled,  \* cache.config.revisions_enabled
    NoProc, NoFolder,
    MaxRecipes,        \* bound: recipe revisions the cache changes between
    MaxPublished,      \* bound: packages other people upload
    MaxInstalls,       \* bound: commands run
    MaxAccidents       \* bound: kills and other ends that leave a partial folder

Mode == {"plain",     \* `conan install'
         "missing",   \* --build missing
         "update",    \* --update
         "build"}     \* --build <name>

ASSUME InstallConstants ==
    /\ IsFiniteSet(Proc) /\ Modes \subseteq Mode
    /\ RevisionsEnabled \in BOOLEAN
    /\ NoProc \notin Proc
    /\ {MaxPublished, MaxInstalls, MaxAccidents} \subseteq Nat
    /\ MaxRecipes \in Nat \ {0}

Revision == 1..MaxRecipes
\* A package revision is named by its age: its manifest's time, later is newer.
PackageRevision == Nat \ {0}
\* `listed': its conaninfo.txt and manifest are there; `whole': so is the rest.
\* `torn' is history: an evaluation has begun to remove it, without a flag.
Folder == [prev : PackageRevision, rrev : Revision,
           listed : BOOLEAN, whole : BOOLEAN, torn : BOOLEAN]
ASSUME NoFolderIsNone == NoFolder \notin Folder
Partial(f) == f # NoFolder /\ ~f.whole
\* What FileTreeManifest.load and ConanInfo.load_from_package can read.
Listed(f) == f # NoFolder /\ f.listed

VARIABLES
    recipe,     \* the recipe revision in the cache
    server,     \* the newest package of each recipe revision, 0 for none
    made,       \* package revisions made so far
    folder,     \* the package folder
    dirty,      \* its .dirty flag
    meta,       \* revision and recipe_revision in metadata.json, 0 for None
    lock,       \* holder of the package lock
    pc, mode, rrev, binary, prev,  \* the processes, and their graph node
    outcome,    \* how each one's last command ended
    used,       \* the folder it handed to package_info
    installs, published, accidents

cache == <<recipe, server, made, folder, dirty, meta>>
node == <<mode, rrev, binary, prev>>
bounds == <<installs, published, accidents>>
vars == <<cache, lock, pc, node, outcome, used, bounds>>

Init ==
    /\ recipe = 1 /\ server = [r \in Revision |-> 0] /\ made = 0
    /\ folder = NoFolder /\ dirty = FALSE /\ meta = [prev |-> 0, rrev |-> 0]
    /\ lock = NoProc
    /\ pc = [p \in Proc |-> "idle"]
    /\ mode = [p \in Proc |-> "plain"]
    /\ rrev = [p \in Proc |-> 1]
    /\ binary = [p \in Proc |-> "none"]
    /\ prev = [p \in Proc |-> 0]
    /\ outcome = [p \in Proc |-> "none"]
    /\ used = [p \in Proc |-> NoFolder]
    /\ installs = 0 /\ published = 0 /\ accidents = 0

\* What p leaves in the package folder when it has got that far.
Holding(p, listed, whole) ==
    [prev |-> prev[p], rrev |-> rrev[p], listed |-> listed, whole |-> whole,
     torn |-> FALSE]

\* What is there when rmdir (shutil.rmtree) has begun: something is gone, be it
\* conaninfo.txt or the manifest, or not.
Remains(f) ==
    {[f EXCEPT !.whole = FALSE, !.listed = l, !.torn = @ \/ ~dirty] : l \in {FALSE, f.listed}}

At(p, from, to) == pc[p] = from /\ pc' = [pc EXCEPT ![p] = to]

Decide(p, what, revision) ==
    /\ binary' = [binary EXCEPT ![p] = what]
    /\ prev' = [prev EXCEPT ![p] = revision]

\* The command ends here, and its graph with it: the `with' statement, if any, releases
\* the lock.
End(p, how, with) ==
    /\ pc' = [pc EXCEPT ![p] = "idle"]
    /\ mode' = [mode EXCEPT ![p] = "plain"]
    /\ rrev' = [rrev EXCEPT ![p] = 1]
    /\ Decide(p, "none", 0)
    /\ outcome' = [outcome EXCEPT ![p] = how]
    /\ used' = [used EXCEPT ![p] = with]
    /\ lock' = IF lock = p THEN NoProc ELSE lock

---------------------------------------------------------------------------
(* The world around: other people upload, other commands change the recipe. *)

Publish ==
    /\ published < MaxPublished
    /\ published' = published + 1 /\ made' = made + 1
    /\ server' = [server EXCEPT ![recipe] = made + 1]
    /\ UNCHANGED <<recipe, folder, dirty, meta, lock, pc, node, outcome, used,
                   installs, accidents>>

ChangeRecipe ==
    /\ recipe' \in Revision \ {recipe}
    /\ UNCHANGED <<server, made, folder, dirty, meta, lock, pc, node, outcome,
                   used, bounds>>

---------------------------------------------------------------------------
(* Graph evaluation. *)

\* The graph is loaded with the recipe now in the cache; a forced build
\* (_evaluate_node 58-62) looks no further.
Start(p) ==
    /\ pc[p] = "idle" /\ installs < MaxInstalls
    /\ \E m \in Modes :
         /\ mode' = [mode EXCEPT ![p] = m]
         /\ pc' = [pc EXCEPT ![p] = IF m = "build" THEN "lock" ELSE "check"]
         /\ Decide(p, IF m = "build" THEN "build" ELSE "none", 0)
    /\ rrev' = [rrev EXCEPT ![p] = recipe]
    /\ outcome' = [outcome EXCEPT ![p] = "none"]
    /\ used' = [used EXCEPT ![p] = NoFolder]
    /\ installs' = installs + 1
    /\ UNCHANGED <<cache, lock, published, accidents>>

\* A dirty folder has to go (its flag stays), and so has the package of another recipe
\* revision, which carries no flag.
MustGo(p) ==
    /\ folder # NoFolder
    /\ dirty \/ (RevisionsEnabled /\ meta.rrev \notin {0, rrev[p]})

\* Under the package lock: the folder may stay, ...
CheckFolder(p) ==
    /\ lock = NoProc /\ ~MustGo(p)
    /\ At(p, "check", "look")
    /\ UNCHANGED <<cache, lock, node, outcome, used, bounds>>

StartPurgeUnlocked(p) ==
    /\ MustGo(p)
    /\ At(p, "check", "purge")
    /\ folder' \in Remains(folder)
    /\ UNCHANGED <<recipe, server, made, dirty, meta, lock, node, outcome, used, bounds>>
\* ... or it goes, file by file.
StartPurge(p) ==
    /\ lock = NoProc /\ MustGo(p)
    /\ At(p, "check", "purge")
    /\ lock' = p
    /\ folder' \in Remains(folder)
    /\ UNCHANGED <<recipe, server, made, dirty, meta, node, outcome, used, bounds>>

FinishPurge(p) ==
    /\ At(p, "purge", "look")
    /\ folder' = NoFolder
    /\ lock' = IF lock = p THEN NoProc ELSE lock
    /\ UNCHANGED <<recipe, server, made, dirty, meta, node, outcome, used, bounds>>

\* The lock is gone when os.path.exists(package_folder) is asked.
Look(p) ==
    /\ At(p, "look", IF folder = NoFolder THEN "absent" ELSE "found")
    /\ UNCHANGED <<cache, lock, node, outcome, used, bounds>>

\* --update, and the server has a newer one than the folder's manifest.
FindUpdate(p) ==
    /\ At(p, "found", "lock")
    /\ mode[p] = "update" /\ Listed(folder)
    /\ server[rrev[p]] > folder.prev
    /\ Decide(p, "update", server[rrev[p]])
    /\ UNCHANGED <<cache, lock, mode, rrev, outcome, used, bounds>>

UpdateRefused(p) ==
    \/ mode[p] # "update"
    \/ server[rrev[p]] = 0
    \/ Listed(folder) /\ server[rrev[p]] <= folder.prev

\* BINARY_CACHE: its revision comes from the metadata, its recipe hash from
\* the conaninfo.txt in the folder.
FindCached(p) ==
    /\ At(p, "found", "lock")
    /\ UpdateRefused(p) /\ meta.prev # 0 /\ Listed(folder)
    /\ Decide(p, "cache", meta.prev)
    /\ UNCHANGED <<cache, lock, mode, rrev, outcome, used, bounds>>

FindNothingReadable(p) ==
    /\ pc[p] = "found"
    /\ IF UpdateRefused(p)
       THEN \/ meta.prev = 0 /\ End(p, "asserted", NoFolder)
            \/ meta.prev # 0 /\ ~Listed(folder) /\ End(p, "failed", NoFolder)
       ELSE ~Listed(folder) /\ End(p, "failed", NoFolder)
    /\ UNCHANGED <<cache, bounds>>

FindRemote(p) ==
    /\ At(p, "absent", "lock")
    /\ server[rrev[p]] # 0
    /\ Decide(p, "download", server[rrev[p]])
    /\ UNCHANGED <<cache, lock, mode, rrev, outcome, used, bounds>>

FindNowhere(p) ==
    /\ pc[p] = "absent" /\ server[rrev[p]] = 0
    /\ IF mode[p] = "missing"
       THEN /\ At(p, "absent", "lock") /\ Decide(p, "build", 0)
            /\ UNCHANGED <<lock, mode, rrev, outcome, used>>
       ELSE End(p, "failed", NoFolder)   \* BINARY_MISSING
    /\ UNCHANGED <<cache, bounds>>

---------------------------------------------------------------------------
(* Installation: _handle_node_cache. *)

LockPackageUnguarded(p) ==
    /\ At(p, "lock", "locked")
    /\ lock' = p
    /\ UNCHANGED <<cache, node, outcome, used, bounds>>
LockPackage(p) ==
    /\ lock = NoProc
    /\ At(p, "lock", "locked")
    /\ lock' = p
    /\ UNCHANGED <<cache, node, outcome, used, bounds>>

\* _node_concurrently_installed
ConcurrentlyInstalled(p) ==
    \/ binary[p] = "download" /\ folder # NoFolder
    \/ binary[p] = "update" /\ Listed(folder) /\ folder.prev = prev[p]

\* `Already installed!', or `Download skipped. Probable concurrent download'.
Skip(p) ==
    /\ At(p, "locked", "use")
    /\ binary[p] = "cache" \/ ConcurrentlyInstalled(p)
    /\ UNCHANGED <<cache, lock, node, outcome, used, bounds>>

SetDirtyForBuildsOnly(p) ==
    /\ At(p, "locked", "clear")
    /\ ~ConcurrentlyInstalled(p)
    /\ \/ binary[p] \in {"build", "download"}
       \/ binary[p] = "update" /\ Listed(folder)
    /\ dirty' = (dirty \/ binary[p] = "build")
    /\ UNCHANGED <<recipe, server, made, folder, meta, lock, node, outcome,
                   used, bounds>>
SetDirty(p) ==
    /\ At(p, "locked", "clear")
    /\ ~ConcurrentlyInstalled(p)
    /\ \/ binary[p] \in {"build", "download"}
       \/ binary[p] = "update" /\ Listed(folder)
    /\ dirty' = TRUE
    /\ UNCHANGED <<recipe, server, made, folder, meta, lock, node, outcome,
                   used, bounds>>

\* build_package, once the sources are there, and get_package begin alike: what is in
\* the folder is removed, now under the flag.
StartRemoving(p) ==
    /\ At(p, "clear", "remove")
    /\ folder # NoFolder /\ folder' \in Remains(folder)
    /\ UNCHANGED <<recipe, server, made, dirty, meta, lock, node, outcome,
                   used, bounds>>

RemoveFolder(p) ==
    /\ pc[p] = "remove" \/ (pc[p] = "clear" /\ folder = NoFolder)
    /\ At(p, pc[p], IF binary[p] = "build" THEN "build" ELSE "fetch")
    /\ folder' = NoFolder
    /\ UNCHANGED <<recipe, server, made, dirty, meta, lock, node, outcome,
                   used, bounds>>

\* build() is done; create_package makes the folder and package() fills it.
StartPackaging(p) ==
    /\ At(p, "build", "pack")
    /\ made' = made + 1
    /\ prev' = [prev EXCEPT ![p] = made + 1]
    /\ folder' = [prev |-> made + 1, rrev |-> rrev[p],
                  listed |-> FALSE, whole |-> FALSE, torn |-> FALSE]
    /\ UNCHANGED <<recipe, server, dirty, meta, lock, mode, rrev, binary,
                   outcome, used, bounds>>

FinishPackaging(p) ==
    /\ At(p, "pack", "record")
    /\ folder' = Holding(p, TRUE, TRUE)
    /\ UNCHANGED <<recipe, server, made, dirty, meta, lock, node, outcome,
                   used, bounds>>

\* The tgz, conaninfo.txt and the manifest are downloaded into the folder.
StartReceiving(p) ==
    /\ At(p, "fetch", "receive")
    /\ folder' = Holding(p, FALSE, FALSE)
    /\ UNCHANGED <<recipe, server, made, dirty, meta, lock, node, outcome,
                   used, bounds>>

FinishReceiving(p) ==
    /\ At(p, "receive", "record")
    /\ folder' = Holding(p, TRUE, FALSE)
    /\ UNCHANGED <<recipe, server, made, dirty, meta, lock, node, outcome,
                   used, bounds>>

RecordBuiltRevision(p) ==
    /\ At(p, "record", IF binary[p] = "build" THEN "clean" ELSE "unzip")
    /\ meta' = IF binary[p] # "build" THEN meta
               ELSE [prev |-> prev[p], rrev |-> rrev[p]]
    /\ UNCHANGED <<recipe, server, made, folder, dirty, lock, node, outcome,
                   used, bounds>>
\* update_metadata: after packaging, but before unzipping.
RecordRevision(p) ==
    /\ At(p, "record", IF binary[p] = "build" THEN "clean" ELSE "unzip")
    /\ meta' = [prev |-> prev[p], rrev |-> rrev[p]]
    /\ UNCHANGED <<recipe, server, made, folder, dirty, lock, node, outcome,
                   used, bounds>>

Unzip(p) ==
    /\ At(p, "unzip", "clean")
    /\ folder' = Holding(p, TRUE, TRUE)
    /\ UNCHANGED <<recipe, server, made, dirty, meta, lock, node, outcome,
                   used, bounds>>

CleanDirty(p) ==
    /\ At(p, "clean", "use")
    /\ dirty' = FALSE
    /\ UNCHANGED <<recipe, server, made, folder, meta, lock, node, outcome,
                   used, bounds>>

\* package_info runs with the package folder as working directory.
UseFolder(p) ==
    /\ pc[p] = "use"
    /\ End(p, IF folder = NoFolder THEN "failed" ELSE "used", folder)
    /\ UNCHANGED <<cache, bounds>>

FailKeepingLock(p) ==
    /\ pc[p] \in {"clear", "build", "pack", "fetch", "receive", "unzip"}
    /\ pc' = [pc EXCEPT ![p] = "idle"]
    /\ UNCHANGED <<cache, lock, node, outcome, used, bounds>>
FailLeavingFolder(p) ==
    /\ pc[p] \in {"build", "pack"}
    /\ End(p, "failed", NoFolder)
    /\ UNCHANGED <<cache, bounds>>
\* An exception: no sources, build() or package() or a hook fails, the remote
\* does not answer or no longer has the package, no manifest to compare, rmdir of an
\* evaluation is refused its first file.
\* package() and get_package take the folder away; nobody cleans the flag.
Fail(p) ==
    /\ \/ pc[p] \in {"clear", "build", "pack", "fetch", "receive", "unzip"}
       \/ pc[p] = "record" /\ binary[p] = "build"
       \/ pc[p] = "locked" /\ binary[p] = "update" /\ ~Listed(folder)
       \/ pc[p] = "check" /\ lock = NoProc /\ MustGo(p)
    /\ folder' = IF pc[p] \in {"pack", "receive", "unzip"} THEN NoFolder
                 ELSE folder
    /\ End(p, "failed", NoFolder)
    /\ UNCHANGED <<recipe, server, made, dirty, meta, bounds>>

\* Exceptions that leave a part behind: a NotFoundException of the download, when the
\* remote loses the package half-way, one in _create_aux_files, and an OSError of rmdir,
\* wherever it removes the folder: in an evaluation, before it is filled, or after one
\* of the failures above.
FailLeavingPart(p) ==
    /\ pc[p] \in {"purge", "remove", "pack", "receive", "unzip"}
    /\ accidents < MaxAccidents
    /\ accidents' = accidents + 1
    /\ \/ UNCHANGED folder
       \/ pc[p] = "receive" /\ folder' = Holding(p, TRUE, FALSE)
       \/ pc[p] = "unzip" /\ folder # NoFolder /\ folder' \in Remains(folder)
    /\ End(p, "failed", NoFolder)
    /\ UNCHANGED <<recipe, server, made, dirty, meta, installs, published>>

\* The process is killed; the system drops the lock of its open file.
Crash(p) ==
    /\ pc[p] # "idle" /\ accidents < MaxAccidents
    /\ accidents' = accidents + 1
    /\ End(p, "crashed", NoFolder)
    /\ UNCHANGED <<cache, installs, published>>

Progress(p) ==
    \/ CheckFolder(p) \/ StartPurge(p) \/ FinishPurge(p)
    \/ Look(p) \/ FindUpdate(p) \/ FindCached(p)
    \/ FindNothingReadable(p) \/ FindRemote(p) \/ FindNowhere(p)
    \/ LockPackage(p) \/ Skip(p) \/ SetDirty(p) \/ StartRemoving(p) \/ RemoveFolder(p)
    \/ StartPackaging(p) \/ FinishPackaging(p)
    \/ StartReceiving(p) \/ FinishReceiving(p)
    \/ RecordRevision(p) \/ Unzip(p) \/ CleanDirty(p) \/ UseFolder(p)
    \/ Fail(p)

Rest == (\A p \in Proc : pc[p] = "idle") /\ UNCHANGED vars

Next ==
    \/ Publish \/ ChangeRecipe \/ Rest
    \/ \E p \in Proc : Start(p) \/ Progress(p) \/ FailLeavingPart(p) \/ Crash(p)

Fairness == \A p \in Proc : WF_vars(Progress(p))
Spec == Init /\ [][Next]_vars
FairSpec == Spec /\ Fairness

---------------------------------------------------------------------------
\* Where a process is before it has the package lock, and under it.
Deciding == {"idle", "check", "look", "found", "absent", "lock"}
Inside == {"purge", "locked", "clear", "remove", "build", "pack", "fetch", "receive",
           "record", "unzip", "clean", "use"}

\* The variables hold what the code keeps, and the lock's holder is inside.
TypeOK ==
    /\ recipe \in 1..MaxRecipes
    /\ server \in [Revision -> 0..made] /\ made \in Nat
    /\ folder \in Folder \union {NoFolder} /\ dirty \in BOOLEAN
    /\ meta \in [prev : 0..made, rrev : 0..MaxRecipes]
    /\ lock \in Proc \union {NoProc}
    /\ mode \in [Proc -> Mode] /\ rrev \in [Proc -> Revision]
    /\ binary \in [Proc -> {"none", "build", "cache", "download", "update"}]
    /\ prev \in [Proc -> 0..made]
    /\ outcome \in [Proc -> {"none", "used", "failed", "asserted", "crashed"}]
    /\ used \in [Proc -> Folder \union {NoFolder}]
    /\ {installs, published, accidents} \subseteq Nat
    /\ pc \in [Proc -> Deciding \union Inside]
    /\ \A p \in Proc : lock = p <=> pc[p] \in Inside

\* A package folder with something missing carries the dirty flag, by which the next
\* evaluation can tell (installer.py 388, 396), whoever was interrupted where, but for
\* one place: the removal of an unflagged package of another recipe revision
\* (graph_binaries.py 80), from its first file on.
PartialIsDirty == Partial(folder) => dirty \/ folder.torn

\* A package that is not marked dirty is the one metadata.json names: neither
\* updates, rebuilds, failures nor kills leave the two apart.
RecordedIsStored ==
    folder # NoFolder /\ ~dirty =>
        meta = [prev |-> folder.prev, rrev |-> folder.rrev]

\* As long as nobody was killed, or failed in one of the ways that leave a part
\* behind, nobody hands package_info a folder with something missing, however
\* stale the decision it took before it had the package lock.
UsedIsWhole ==
    accidents = 0 => \A p \in Proc : outcome[p] = "used" => used[p].whole

\* A process that built the package hands on its own build, whole and with the
\* revision it reports (node.prev): no evaluation or installation of another,
\* at whatever moment, removes or replaces it before package_info has run.
OwnInstallIsUsed ==
    \A p \in Proc : pc[p] = "use" /\ binary[p] = "build" =>
        /\ folder # NoFolder /\ folder.whole
        /\ folder.prev = prev[p] /\ folder.rrev = rrev[p]

\* "Check if dirty, to remove it" (graph_binaries.py 67): what an interrupted command has
\* left behind is not used by the next one.
InterruptedIsNotUsed == \A p \in Proc : outcome[p] = "used" => used[p].whole

\* The assertion `PREV for %s is None' of _evaluate_node never fires.
CachedHasRevision == \A p \in Proc : outcome[p] # "asserted"

\* A process that waits for the package lock gets it and ends its command:
\* no failure or kill of another leaves the lock behind.
InstallEnds == \A p \in Proc : pc[p] = "lock" ~> pc[p] = "idle"
===========================================================================
