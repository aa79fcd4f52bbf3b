--------------------------- MODULE PackageActors ---------------------------
(***************************************************************************)
(* The package of PackageInstall, and the commands that write its folder   *)
(* without its lock and its dirty flag: `conan download' (cmd/download.py, *)
(* RemoteManager.get_package), `conan export-pkg' (cmd/export_pkg.py), and *)
(* `conan remove -p' (remover.py), which deletes the lock file as well, as *)
(* `conan remove --locks' does.                                            *)
(***************************************************************************)
EXTENDS PackageInstall

CONSTANTS MaxJobs   \* bound: such commands
ASSUME JobsBound == MaxJobs \in Nat

VARIABLES
    job,        \* what each process does of them: its step and what it knows
    jobs,
    exported,   \* the package export-pkg made last, 0 once it may be replaced (history)
    spoiled     \* what has happened that these commands do not stand (history)

jobVars == <<job, jobs, exported, spoiled>>
allVars == <<vars, jobVars>>
install == <<lock, pc, node, outcome, used>>

NoJob == [step |-> "none", rrev |-> 0, prev |-> 0]
Working(p) == pc[p] # "idle" \/ job[p] # NoJob
Quiet == \A p \in Proc : ~Working(p)
Stands(events) == spoiled \cap events = {}

ActorsInit ==
    /\ Init
    /\ job = [p \in Proc |-> NoJob] /\ jobs = 0
    /\ exported = 0 /\ spoiled = {}

Overlap(p) == IF \E q \in Proc \ {p} : Working(q) THEN {"overlap"} ELSE {}

\* A command begins, alone or beside others.
StartJob(p, step, revision) ==
    /\ ~Working(p) /\ jobs < MaxJobs /\ jobs' = jobs + 1
    /\ job' = [job EXCEPT ![p] = [step |-> step, rrev |-> recipe, prev |-> revision]]

NextStep(p, from, to) ==
    /\ job[p].step = from
    /\ job' = [job EXCEPT ![p].step = to]
    /\ UNCHANGED <<recipe, server, install, bounds, jobs, spoiled>>
EndJob(p, from) ==
    /\ job[p].step = from
    /\ job' = [job EXCEPT ![p] = NoJob]
    /\ UNCHANGED <<recipe, server, install, jobs>>

InFolder(p, listed, whole) ==
    [prev |-> job[p].prev, rrev |-> job[p].rrev, listed |-> listed, whole |-> whole,
     torn |-> FALSE]
----------------------------------------------------------------------------
(* conan download: get_package into the folder, as it is. *)

StartDownload(p) ==
    /\ server[recipe] # 0
    /\ StartJob(p, "clear", server[recipe])
    /\ spoiled' = spoiled \union Overlap(p)
    /\ exported' = 0
    /\ UNCHANGED <<cache, install, bounds>>

ClearForDownload(p) ==
    /\ NextStep(p, "clear", "receive")
    /\ folder' = NoFolder
    /\ UNCHANGED <<made, dirty, meta, exported>>

ReceivePackage(p) ==
    /\ NextStep(p, "receive", "record")
    /\ folder' = InFolder(p, TRUE, FALSE)
    /\ UNCHANGED <<made, dirty, meta, exported>>

RecordNothing(p) ==
    /\ NextStep(p, "record", "unzip")
    /\ UNCHANGED <<made, folder, dirty, meta, exported>>
RecordDownload(p) ==
    /\ NextStep(p, "record", "unzip")
    /\ meta' = [prev |-> job[p].prev, rrev |-> job[p].rrev]
    /\ UNCHANGED <<made, folder, dirty, exported>>

UnzipPackage(p) ==
    /\ EndJob(p, "unzip")
    /\ folder' = InFolder(p, TRUE, TRUE)
    /\ UNCHANGED <<made, dirty, meta, exported, spoiled, bounds>>

\* An exception takes the folder away.
FailDownload(p) ==
    /\ EndJob(p, "receive") \/ EndJob(p, "unzip")
    /\ folder' = NoFolder
    /\ UNCHANGED <<made, dirty, meta, exported, spoiled, bounds>>
----------------------------------------------------------------------------
(* conan export-pkg, once it has exported the recipe and loaded the graph with *)
(* build_mode=[ref.name], which passes over the check of the folder.           *)

\* With --force, or where there is no package.  Whether a dirty flag is there it does
\* not ask.
StartExport(p) ==
    /\ StartJob(p, "empty", made + 1)
    /\ made' = made + 1
    /\ exported' = 0
    /\ spoiled' = spoiled \union Overlap(p) \union (IF dirty THEN {"flagged"} ELSE {})
    /\ UNCHANGED <<recipe, server, folder, dirty, meta, install, bounds>>

EmptyForExport(p) ==
    /\ NextStep(p, "empty", "package")
    /\ folder' = NoFolder
    /\ UNCHANGED <<made, dirty, meta, exported>>

MakePackage(p) ==
    /\ NextStep(p, "package", "sign")
    /\ folder' = InFolder(p, FALSE, FALSE)
    /\ UNCHANGED <<made, dirty, meta, exported>>

SignPackage(p) ==
    /\ NextStep(p, "sign", "revise")
    /\ folder' = InFolder(p, TRUE, TRUE)
    /\ UNCHANGED <<made, dirty, meta, exported>>

RecordExportedRevision(p) ==
    /\ EndJob(p, "revise")
    /\ meta' = [meta EXCEPT !.prev = job[p].prev]
    /\ exported' = job[p].prev
    /\ UNCHANGED <<made, folder, dirty, spoiled, bounds>>
\* The recipe revision is the one the metadata has by now.
RecordExport(p) ==
    /\ EndJob(p, "revise")
    /\ meta' = [prev |-> job[p].prev, rrev |-> recipe]
    /\ exported' = job[p].prev
    /\ UNCHANGED <<made, folder, dirty, spoiled, bounds>>

\* package() or the copy fails: what was copied stays, without a flag.
FailExport(p) ==
    /\ EndJob(p, "sign")
    /\ spoiled' = spoiled \union {"cut"}
    /\ UNCHANGED <<made, folder, dirty, meta, exported, bounds>>
----------------------------------------------------------------------------
(* conan remove *)

\* -p: the locks of all packages go first, whoever holds one.  Beside nobody, it
\* puts an end to whatever was wrong with the package.
StartRemove(p) ==
    /\ folder # NoFolder
    /\ StartJob(p, "folder", 0)
    /\ lock' = NoProc
    /\ spoiled' = IF Overlap(p) = {} THEN {} ELSE spoiled \union Overlap(p)
    /\ exported' = 0
    /\ UNCHANGED <<cache, pc, node, outcome, used, bounds>>

RemovePackage(p) ==
    /\ NextStep(p, "folder", "flag")
    /\ folder' = NoFolder
    /\ UNCHANGED <<made, dirty, meta, exported>>

KeepFlag(p) ==
    /\ NextStep(p, "flag", "metadata")
    /\ UNCHANGED <<made, folder, dirty, meta, exported>>
RemoveFlag(p) ==
    /\ NextStep(p, "flag", "metadata")
    /\ dirty' = FALSE
    /\ UNCHANGED <<made, folder, meta, exported>>

ClearPackage(p) ==
    /\ EndJob(p, "metadata")
    /\ meta' = [prev |-> 0, rrev |-> 0]
    /\ UNCHANGED <<made, folder, dirty, exported, spoiled, bounds>>

\* --locks, or -p of a package that is not there: only the lock files go.
RemoveLocks(p) ==
    /\ ~Working(p) /\ jobs < MaxJobs /\ jobs' = jobs + 1
    /\ lock' = NoProc
    /\ spoiled' = spoiled \union Overlap(p)
    /\ UNCHANGED <<cache, pc, node, outcome, used, bounds, job, exported>>

----------------------------------------------------------------------------
(* What cuts one of them short. *)

\* The removal of what is in the folder, by any of the three or after a failed download,
\* ends half-way: an OSError, or a kill.
FailRemoval(p) ==
    /\ job[p].step \in {"clear", "receive", "unzip", "empty", "folder"}
    /\ EndJob(p, job[p].step)
    /\ accidents < MaxAccidents /\ accidents' = accidents + 1
    /\ folder # NoFolder /\ folder' \in Remains(folder)
    /\ spoiled' = spoiled \union {"cut"}
    /\ UNCHANGED <<made, dirty, meta, exported, installs, published>>

Kill(p) ==
    /\ job[p] # NoJob /\ accidents < MaxAccidents /\ accidents' = accidents + 1
    /\ EndJob(p, job[p].step)
    /\ spoiled' = spoiled \union {"cut"}
    /\ UNCHANGED <<made, folder, dirty, meta, exported, installs, published>>
----------------------------------------------------------------------------
(* The commands of PackageInstall beside them. *)

InstallBegins(p) ==
    /\ job[p] = NoJob /\ Start(p)
    /\ spoiled' = spoiled
         \union (IF \E q \in Proc : job[q] # NoJob THEN {"overlap"} ELSE {})
    /\ UNCHANGED <<job, jobs, exported>>

\* An installation that builds, downloads or updates replaces what was exported.
InstallGoesOn(p) ==
    /\ Progress(p)
    /\ exported' = IF SetDirty(p) THEN 0 ELSE exported
    /\ UNCHANGED <<job, jobs, spoiled>>

InstallBreaks(p) ==
    FailLeavingPart(p) \/ Crash(p)

\* Another recipe: its packages are others.
World ==
    \/ Publish /\ UNCHANGED jobVars
    \/ /\ ChangeRecipe
       /\ exported' = 0
       /\ spoiled' = spoiled
            \union (IF \E p \in Proc : job[p] # NoJob THEN {"overlap"} ELSE {})
       /\ UNCHANGED <<job, jobs>>

ActorsNext ==
    \/ World
    \/ Quiet /\ UNCHANGED allVars
    \/ \E p \in Proc :
         \/ InstallBegins(p) \/ InstallGoesOn(p)
         \/ InstallBreaks(p) /\ UNCHANGED jobVars
         \/ StartDownload(p) \/ ClearForDownload(p) \/ ReceivePackage(p)
         \/ RecordDownload(p) \/ UnzipPackage(p) \/ FailDownload(p)
         \/ StartExport(p) \/ EmptyForExport(p) \/ MakePackage(p) \/ SignPackage(p)
         \/ RecordExport(p) \/ FailExport(p)
         \/ StartRemove(p) \/ RemovePackage(p) \/ RemoveFlag(p) \/ ClearPackage(p)
         \/ RemoveLocks(p) \/ FailRemoval(p) \/ Kill(p)

ActorsSpec == ActorsInit /\ [][ActorsNext]_allVars
----------------------------------------------------------------------------
\* At rest, a package with something missing carries the dirty flag, though download and
\* export-pkg never set it, unless it is what an interrupted evaluation left of another
\* recipe's package (see PartialIsDirty); and a package without the flag is the one
\* metadata.json names, whichever of the five commands wrote folder and metadata last:
\* unless two commands met, or download, export-pkg or remove was cut short, and nobody
\* removed the package since.
SoundAtRest ==
    Quiet /\ Stands({"overlap", "cut"}) => PartialIsDirty /\ RecordedIsStored

\* What export-pkg has put in the cache is there until a command replaces or removes it:
\* evaluating a graph does not delete it.
ExportedStays ==
    Quiet /\ Stands({"overlap", "cut", "flagged"}) /\ exported # 0 =>
        folder # NoFolder /\ folder.whole /\ folder.prev = exported

\* uploader.py 315: "Package is corrupted ... Remove it with conan remove -p".  A removal
\* beside nobody leaves neither folder nor flag nor record to be taken for corrupted.
RemoveHeals ==
    [][\A p \in Proc :
         job[p].step = "metadata" /\ job'[p] = NoJob /\ spoiled' = {} =>
             folder' = NoFolder /\ ~dirty' /\ meta'.prev = 0]_allVars

\* command.py 820: export-pkg "creates a package from local source and build folders".
\* It is still there after the next command, if nothing met or was cut short.
ExportedIsThere ==
    Quiet /\ Stands({"overlap", "cut"}) /\ exported # 0 => folder # NoFolder
=============================================================================
