---------------------------- MODULE RecipeCache ----------------------------
(***************************************************************************)
(* One recipe in the local cache: its export folder, its exported sources, *)
(* its metadata and the remote it came from, while conan processes install *)
(* and update it (ConanProxy), fetch its sources, export, download and     *)
(* remove it, and other commands change the remotes (RemoteRegistry).      *)
(* ConanProxy works under the recipe lock, whose promise is LockPromise;   *)
(* export takes it late, download, remove and the registry never.          *)
(***************************************************************************)
EXTENDS RemoteRegistry, FiniteSets, FiniteSetsExt

CONSTANTS
    InitialRemotes,   \* what remotes.json may be at the beginning
    MaxRevisions,     \* bound: recipe revisions ever made
    MaxCommands,      \* bound: commands, on the recipe and on the remotes
    MaxFailures,      \* bound: transfers that break off, and kills
    MaxMishaps        \* bound: kinds of mishap after which new commands still begin

ASSUME RecipeBounds == {MaxRevisions, MaxCommands, MaxFailures, MaxMishaps} \subseteq Nat
ASSUME InitialRemotesAreTables == \A table \in InitialRemotes : IsTable(table)

VARIABLES
    server,     \* the recipe revisions each server has
    made,       \* revisions made so far; a revision is named by its age
    export,     \* the export folder
    sources,    \* the export_sources folder
    origin,     \* the server its recorded remote stood for when it was recorded (history)
    readers, writers, intact,   \* the recipe lock
    answer,     \* the revision the last command of each process answered, 0 for none
    spoiled,    \* what has happened that the code does not stand (history)
    commands, failures

Lock == INSTANCE LockPromise

folders == <<export, sources>>
lock == <<readers, writers, intact>>
bounds == <<commands, failures>>
vars == <<remotes, meta, session, server, made, folders, origin, lock, answer, spoiled,
          bounds>>

NoFolder == [rev |-> 0, manifest |-> FALSE, conanfile |-> FALSE, whole |-> FALSE]
Whole(r) == [rev |-> r, manifest |-> TRUE, conanfile |-> TRUE, whole |-> TRUE]

Init ==
    /\ remotes \in InitialRemotes /\ meta = NoMeta
    /\ session = [p \in Proc |-> Idle]
    /\ server = [u \in Url |-> {}] /\ made = 0
    /\ export = NoFolder /\ sources = NoFolder /\ origin = None
    /\ Lock!PromiseInit
    /\ answer = [p \in Proc |-> 0]
    /\ spoiled = {}
    /\ commands = 0 /\ failures = 0

HasRecipe == export.conanfile
InCache == export # NoFolder \/ sources # NoFolder \/ meta # NoMeta
Recorded == IF meta = NoMeta THEN None ELSE meta.remote
Latest(u) == IF server[u] = {} THEN 0 ELSE Max(server[u])

\* At work on the recipe: a command that waits for the lock has not begun, but one
\* that waits for the sources knows the recipe already.
Inside(p) == session[p].step \notin {"idle", "enter", "save", "sweep"}
Others(p, Q(_)) == \E q \in Proc \ {p} : Q(q)
Overlap(p) == IF Others(p, Inside) THEN {"overlap"} ELSE {}
Busy(q) == session[q] # Idle

Step(p, to) == session' = [session EXCEPT ![p].step = to]
Unlock(p) == readers' = readers /\ writers' = writers \ {p} /\ UNCHANGED intact

\* The command ends, and the `with' statement, if any, gives the lock back.
End(p, rev) ==
    /\ Finish(p)
    /\ Unlock(p)
    /\ answer' = [answer EXCEPT ![p] = rev]
Fail(p) == End(p, 0)

MayBegin(p) ==
    /\ session[p] = Idle /\ Cardinality(spoiled) <= MaxMishaps
    /\ commands < MaxCommands /\ commands' = commands + 1

\* A command on the recipe begins: it loads the remotes it will use.
Begin(p, s) ==
    /\ MayBegin(p)
    /\ session' = [session EXCEPT ![p] = s]
    /\ answer' = [answer EXCEPT ![p] = 0]
    /\ spoiled' = spoiled
         \union (IF s.step = "enter" THEN {} ELSE Overlap(p))
         \union (IF Others(p, InRegistry) THEN {"race"} ELSE {})
    /\ UNCHANGED <<remotes, server, made, failures>>

Command(op, step, table, selected, want) ==
    [op |-> op, step |-> step, table |-> table, selected |-> selected, want |-> want,
     update |-> FALSE, todo |-> <<>>, rev |-> 0, found |-> 0]
----------------------------------------------------------------------------
(* The world around. *)

Publish ==
    /\ made < MaxRevisions /\ made' = made + 1
    /\ \E u \in Url : server' = [server EXCEPT ![u] = @ \union {made + 1}]
    /\ UNCHANGED <<remotes, meta, session, folders, origin, lock, answer, spoiled, bounds>>

\* What a change of the remotes undoes: names that lead elsewhere, and two names of one
\* URL that a third replaces.
Moves(table) ==
    \E n \in Names(remotes) \cap Names(table) : UrlOf(remotes, n) # UrlOf(table, n)
Drops(table) ==
    \E m, n \in Names(remotes) \ Names(table) :
        m # n /\ UrlOf(remotes, m) = UrlOf(remotes, n) /\ HasUrl(table, UrlOf(remotes, n))

ChangeRemotes(p) ==
    /\ MayBegin(p)
    /\ RegistryCommand(p)
    /\ spoiled' = spoiled
         \union (IF Others(p, Busy) THEN {"race"} ELSE {})
         \union (IF Moves(session'[p].table) THEN {"moved"} ELSE {})
         \union (IF Drops(session'[p].table) THEN {"dropped"} ELSE {})
    /\ UNCHANGED <<remotes, meta, server, made, folders, origin, lock, answer, failures>>

Registry(p) ==
    /\ SaveRemotes(p) \/ SweepMetadata(p, InCache)
    /\ UNCHANGED <<server, made, folders, origin, lock, answer, spoiled, bounds>>
----------------------------------------------------------------------------
(* ConanProxy.get_recipe, under the write lock. *)

\* `conan install', with --update or not, a remote (-r) or none, a revision or none.
StartInstall(p) ==
    /\ \E selected \in Names(remotes) \union {None}, update \in BOOLEAN, want \in 0..made :
         Begin(p, [Command("install", "enter", remotes, selected, want)
                     EXCEPT !.update = update])
    /\ UNCHANGED <<meta, folders, origin, lock>>

\* A build needs the exported sources of the recipe it was told of.
StartSources(p) ==
    /\ HasRecipe /\ meta # NoMeta
    /\ Begin(p, [Command("sources", "await", remotes, None, 0) EXCEPT !.rev = meta.rev])
    /\ UNCHANGED <<meta, folders, origin, lock>>

\* Once the promise is lost the lock may admit anyone.
TakeLock(p) ==
    IF intact THEN Lock!AdmitWriter(p)
    ELSE writers' = writers \union {p} /\ UNCHANGED <<readers, intact>>
Enter(p) ==
    /\ session[p].step \in {"enter", "await"}
    /\ TakeLock(p)
    /\ session' = [session EXCEPT
         ![p].step = IF @ = "await" THEN "complete" ELSE "look",
         ![p].found = IF session[p].update /\ session[p].want = 0 /\ HasRecipe
                      THEN export.rev ELSE 0]
    /\ spoiled' = spoiled \union Overlap(p)
    /\ UNCHANGED <<remotes, meta, server, made, folders, origin, answer, bounds>>

Chosen(s) == IF s.selected # None THEN s.selected ELSE Recorded
Different(s) == meta # NoMeta /\ s.want \notin {0, meta.rev}
\* Recorded in the metadata, but gone from the remotes: NoRemoteAvailable.
UnknownRemote(s) == Recorded \notin Names(s.table) \union {None}

Fetch(p, names, rev) ==
    session' = [session EXCEPT ![p].step = "clear", ![p].todo = names, ![p].want = rev]

\* From the remote given, else the one recorded, else the first that has it.
Candidates(s) ==
    IF Chosen(s) # None THEN <<Chosen(s)>> ELSE [i \in DOMAIN s.table |-> s.table[i].name]

\* _download_recipe, since there is none in the cache, ...
Seek(p) ==
    LET s == session[p]
    IN  /\ s.step = "look"
        /\ ~HasRecipe
        /\ s.selected # None \/ ~UnknownRemote(s)
        /\ Candidates(s) # <<>>
        /\ Fetch(p, Candidates(s), s.want)
        /\ UNCHANGED <<remotes, meta, server, made, folders, origin, lock, answer, spoiled,
                       bounds>>

\* ... or another revision than the one asked for with --update.
SeekDifferent(p) ==
    LET s == session[p]
    IN  /\ s.step = "look"
        /\ HasRecipe /\ meta # NoMeta /\ ~UnknownRemote(s)
        /\ Different(s) /\ s.update /\ Candidates(s) # <<>>
        /\ Fetch(p, Candidates(s), s.want)
        /\ UNCHANGED <<remotes, meta, server, made, folders, origin, lock, answer, spoiled,
                       bounds>>

\* RECIPE_INCACHE, RECIPE_NO_REMOTE: what is there is used.
UseCached(p) ==
    LET s == session[p]
    IN  /\ s.step = "look"
        /\ HasRecipe /\ meta # NoMeta /\ ~UnknownRemote(s)
        /\ ~Different(s)
        /\ ~s.update \/ Chosen(s) = None
        /\ End(p, meta.rev)
        /\ UNCHANGED <<remotes, meta, server, made, folders, origin, spoiled, bounds>>

\* --update: ask the remote for its manifest; RECIPE_NOT_IN_REMOTE is no error.
AskManifest(p) ==
    LET s == session[p]
        u == UrlOf(s.table, Chosen(s))
        r == IF s.want = 0 THEN Latest(u) ELSE s.want
    IN  /\ s.step = "look"
        /\ HasRecipe /\ meta # NoMeta /\ ~UnknownRemote(s)
        /\ ~Different(s) /\ s.update /\ Chosen(s) # None
        /\ IF r \in server[u]
           THEN /\ session' = [session EXCEPT ![p].step = "compare", ![p].rev = r,
                                             ![p].todo = <<Chosen(s)>>]
                /\ UNCHANGED <<lock, answer>>
           ELSE End(p, meta.rev)
        /\ UNCHANGED <<remotes, meta, server, made, folders, origin, spoiled, bounds>>

CompareForDifference(p) ==
    LET s == session[p]
    IN  /\ s.step = "compare" /\ export.manifest
        /\ IF s.rev # export.rev
           THEN Step(p, "remove") /\ UNCHANGED <<lock, answer>>
           ELSE End(p, meta.rev)
        /\ UNCHANGED <<remotes, meta, server, made, folders, origin, spoiled, bounds>>
\* A newer one is fetched; an older or the same one is RECIPE_NEWER or RECIPE_INCACHE.
Compare(p) ==
    LET s == session[p]
    IN  /\ s.step = "compare" /\ export.manifest
        /\ IF s.rev > export.rev
           THEN Step(p, "remove") /\ UNCHANGED <<lock, answer>>
           ELSE End(p, meta.rev)
        /\ UNCHANGED <<remotes, meta, server, made, folders, origin, spoiled, bounds>>

KeepExportSources(p) ==
    /\ session[p].step = "remove"
    /\ export' = NoFolder
    /\ Fetch(p, session[p].todo, session[p].rev)
    /\ UNCHANGED <<remotes, meta, server, made, sources, origin, lock, answer, spoiled,
                   bounds>>
\* DiskRemover.remove_recipe: folders and lock files go, under the lock.
RemoveOld(p) ==
    /\ session[p].step = "remove"
    /\ export' = NoFolder /\ sources' = NoFolder
    /\ Lock!Lose /\ UNCHANGED <<readers, writers>>
    /\ Fetch(p, session[p].todo, session[p].rev)
    /\ UNCHANGED <<remotes, meta, server, made, origin, answer, spoiled, bounds>>

\* No such revision and no --update; no metadata, or no remote of the recorded name;
\* no remotes at all; no manifest to compare with.
CannotSeek(s) ==
    s.selected = None /\ (UnknownRemote(s) \/ Candidates(s) = <<>>)
CannotUse(s) ==
    \/ meta = NoMeta \/ UnknownRemote(s)
    \/ Different(s) /\ (~s.update \/ Candidates(s) = <<>>)
Refuse(p) ==
    LET s == session[p]
    IN  /\ \/ s.step = "look" /\ ~HasRecipe /\ CannotSeek(s)
           \/ s.step = "look" /\ HasRecipe /\ CannotUse(s)
           \/ s.step = "compare" /\ ~export.manifest
        /\ Fail(p)
        /\ UNCHANGED <<remotes, meta, server, made, folders, origin, spoiled, bounds>>
----------------------------------------------------------------------------
(* RemoteManager.get_recipe. *)

FromUrl(s) == UrlOf(s.table, Head(s.todo))

\* The export folder goes before the remote is asked what it has.
Clear(p) ==
    LET s == session[p]
        r == IF s.want = 0 THEN Latest(FromUrl(s)) ELSE s.want
    IN  /\ s.step = "clear"
        /\ export' = NoFolder
        /\ CASE r \in server[FromUrl(s)] ->
                  /\ session' = [session EXCEPT ![p].step = "receive", ![p].rev = r]
                  /\ UNCHANGED <<lock, answer>>
             [] r \notin server[FromUrl(s)] /\ Len(s.todo) > 1 ->
                  /\ session' = [session EXCEPT ![p].todo = Tail(@)]
                  /\ UNCHANGED <<lock, answer>>
             [] OTHER -> Fail(p)
        /\ UNCHANGED <<remotes, meta, server, made, sources, origin, spoiled, bounds>>

\* conanmanifest.txt, conanfile.py and conan_export.tgz come, in this order ...
Receive(p) ==
    /\ session[p].step = "receive"
    /\ export' = [Whole(session[p].rev) EXCEPT !.whole = FALSE]
    /\ Step(p, "unzip")
    /\ UNCHANGED <<remotes, meta, server, made, sources, origin, lock, answer, spoiled,
                   bounds>>

\* ... and the last is unzipped.  Exported sources of another revision stay, which only
\* --update has seen to before.
Unzip(p) ==
    /\ session[p].step = "unzip"
    /\ export' = Whole(session[p].rev)
    /\ spoiled' = IF session[p].found = 0 /\ sources \notin {NoFolder, Whole(session[p].rev)}
                  THEN spoiled \union {"switched"} ELSE spoiled
    /\ Step(p, "record")
    /\ UNCHANGED <<remotes, meta, server, made, sources, origin, lock, answer, bounds>>

RecordNothing(p) ==
    /\ session[p].step = "record"
    /\ meta' = IF meta = NoMeta THEN [rev |-> session[p].rev, remote |-> None] ELSE meta
    /\ Step(p, "remote")
    /\ UNCHANGED <<remotes, server, made, folders, origin, lock, answer, spoiled, bounds>>
Record(p) ==
    /\ session[p].step = "record"
    /\ meta' = [rev |-> session[p].rev, remote |-> Recorded]
    /\ Step(p, "remote")
    /\ UNCHANGED <<remotes, server, made, folders, origin, lock, answer, spoiled, bounds>>

\* A second section writes the name of the remote (into new metadata, if another
\* process has deleted it).
RecordRemote(p) ==
    LET s == session[p]
    IN  /\ s.step = "remote"
        /\ meta' = [rev |-> IF meta = NoMeta THEN 0 ELSE meta.rev, remote |-> Head(s.todo)]
        /\ origin' = FromUrl(s)
        /\ IF s.op = "download"
           THEN Step(p, "complete") /\ UNCHANGED <<lock, answer>>
           ELSE End(p, s.rev)
        /\ UNCHANGED <<remotes, server, made, folders, spoiled, bounds>>

\* A transfer breaks off, or the process is killed (its mark in the lock is RWLock's
\* subject): what came stays.  Only a failure to unzip takes the folder away.
Break(p) ==
    LET s == session[p]
    IN  /\ failures < MaxFailures /\ failures' = failures + 1
        /\ \/ /\ s.step = "receive"
              /\ \E conanfile \in BOOLEAN :
                   export' = [Whole(s.rev) EXCEPT !.conanfile = conanfile, !.whole = FALSE]
              /\ spoiled' = spoiled \union {"part"} /\ UNCHANGED sources
           \/ s.step = "unzip" /\ export' = NoFolder /\ UNCHANGED <<sources, spoiled>>
           \/ s.step \in {"record", "remote", "base"}
              /\ spoiled' = spoiled \union {"part"} /\ UNCHANGED folders
           \/ /\ s.step = "complete" /\ sources = NoFolder
              /\ sources' = [Whole(s.rev) EXCEPT !.whole = FALSE]
              /\ spoiled' = spoiled \union {"part"} /\ UNCHANGED export
           \/ s.step \in {"look", "clear", "complete"} /\ UNCHANGED <<folders, spoiled>>
        /\ Fail(p)
        /\ UNCHANGED <<remotes, meta, server, made, origin, commands>>
----------------------------------------------------------------------------
(* complete_recipe_sources: a folder that is there is taken for the sources. *)

SourcesThere(p) ==
    /\ session[p].step = "complete"
    /\ sources # NoFolder
    /\ End(p, session[p].rev)
    /\ UNCHANGED <<remotes, meta, server, made, folders, origin, spoiled, bounds>>

FetchSources(p) ==
    LET s == session[p]
        known == Recorded # None /\ ~UnknownRemote(s)
    IN  /\ s.step = "complete" /\ sources = NoFolder
        /\ IF known /\ s.rev \in server[UrlOf(s.table, Recorded)]
           THEN sources' = Whole(s.rev) /\ End(p, s.rev)
           ELSE Fail(p) /\ UNCHANGED sources
        /\ UNCHANGED <<remotes, meta, server, made, export, origin, spoiled, bounds>>
----------------------------------------------------------------------------
(* Commands that take the lock late or never. *)

\* `conan export' of new contents, or of the same as before, whose manifest is kept:
\* both folders are emptied first.
StartExport(p) ==
    /\ \E same \in BOOLEAN :
         /\ IF same THEN export.manifest /\ made' = made
                    ELSE made < MaxRevisions /\ made' = made + 1
         /\ LET r == IF same THEN export.rev ELSE made + 1
            IN  /\ session' = [session EXCEPT ![p] =
                      [Command("export", "wait", <<>>, None, 0) EXCEPT !.rev = r]]
                /\ sources' = [NoFolder EXCEPT !.rev = r]
    /\ MayBegin(p)
    /\ export' = NoFolder
    /\ answer' = [answer EXCEPT ![p] = 0]
    /\ spoiled' = spoiled \union Overlap(p)
    /\ UNCHANGED <<remotes, meta, server, origin, lock, failures>>

EnterExport(p) ==
    /\ session[p].step = "wait"
    /\ TakeLock(p)
    /\ Step(p, "copy")
    /\ UNCHANGED <<remotes, meta, server, made, folders, origin, answer, spoiled, bounds>>

CopyRecipe(p) ==
    /\ session[p].step = "copy"
    /\ export' = [Whole(session[p].rev) EXCEPT !.manifest = FALSE]
    /\ sources' = Whole(session[p].rev)
    /\ Step(p, "sign")
    /\ UNCHANGED <<remotes, meta, server, made, origin, lock, answer, spoiled, bounds>>

\* The manifest is written and the lock given back; the metadata follows.
SignRecipe(p) ==
    /\ session[p].step = "sign"
    /\ export' = [export EXCEPT !.manifest = TRUE]
    /\ Unlock(p)
    /\ Step(p, "revise")
    /\ UNCHANGED <<remotes, meta, server, made, sources, origin, answer, spoiled, bounds>>

ReviseOnce(p) ==
    /\ session[p].step = "revise"
    /\ meta' = IF meta = NoMeta THEN [rev |-> session[p].rev, remote |-> None] ELSE meta
    /\ End(p, session[p].rev)
    /\ UNCHANGED <<remotes, server, made, folders, origin, spoiled, bounds>>
ReviseMetadata(p) ==
    /\ session[p].step = "revise"
    /\ meta' = [rev |-> session[p].rev, remote |-> Recorded]
    /\ End(p, session[p].rev)
    /\ UNCHANGED <<remotes, server, made, folders, origin, spoiled, bounds>>

\* `conan download': get_recipe, then the sources, all without the lock.
StartDownload(p) ==
    /\ remotes # <<>>
    /\ \E selected \in Names(remotes) :
         Begin(p, [Command("download", "clear", remotes, selected, 0)
                     EXCEPT !.todo = <<selected>>])
    /\ UNCHANGED <<meta, folders, origin, lock>>

\* `conan remove': the files of the lock, the folders, then the folder above them.
StartRemove(p) ==
    /\ export # NoFolder
    /\ MayBegin(p)
    /\ session' = [session EXCEPT ![p] = Command("remove", "base", <<>>, None, 0)]
    /\ export' = NoFolder /\ sources' = NoFolder
    /\ intact' = (intact /\ writers = {})
    /\ answer' = [answer EXCEPT ![p] = 0]
    /\ spoiled' = spoiled \union Overlap(p)
    /\ UNCHANGED <<remotes, meta, server, made, origin, readers, writers, failures>>

RemoveBase(p) ==
    /\ session[p].step = "base"
    /\ export' = NoFolder /\ sources' = NoFolder /\ meta' = NoMeta /\ origin' = None
    /\ End(p, 0)
    /\ UNCHANGED <<remotes, server, made, spoiled, bounds>>

Next ==
    \/ Publish
    \/ \E p \in Proc :
        \/ ChangeRemotes(p) \/ Registry(p)
        \/ StartInstall(p) \/ StartSources(p) \/ Enter(p) \/ Seek(p) \/ SeekDifferent(p)
        \/ UseCached(p) \/ AskManifest(p) \/ Compare(p) \/ RemoveOld(p) \/ Refuse(p)
        \/ Clear(p) \/ Receive(p) \/ Unzip(p) \/ Record(p) \/ RecordRemote(p) \/ Break(p)
        \/ SourcesThere(p) \/ FetchSources(p)
        \/ StartExport(p) \/ EnterExport(p) \/ CopyRecipe(p) \/ SignRecipe(p)
        \/ ReviseMetadata(p) \/ StartDownload(p) \/ StartRemove(p) \/ RemoveBase(p)
    \/ (\A p \in Proc : session[p] = Idle) /\ UNCHANGED vars   \* nobody at work

Spec == Init /\ [][Next]_vars
----------------------------------------------------------------------------
AtRest == \A p \in Proc : ~Inside(p)
Stands(events) == spoiled \cap events = {}

TypeOK ==
    LET Folder == [rev : 0..MaxRevisions, manifest : BOOLEAN, conanfile : BOOLEAN,
                   whole : BOOLEAN]
    IN  /\ IsTable(remotes)
        /\ meta \in [rev : 0..MaxRevisions, remote : Name \union {None}] \union {NoMeta}
        /\ made \in 0..MaxRevisions /\ server \in [Url -> SUBSET (1..made)]
        /\ export \in Folder /\ sources \in Folder
        /\ origin \in Url \union {None}
        /\ readers = {} /\ writers \subseteq Proc
        /\ spoiled \subseteq {"overlap", "race", "moved", "dropped", "switched", "part"}

\* proxy.py 60, export.py 119: the revision in metadata.json, which names the recipe to
\* everybody else, is the one of the export folder, whatever command brought it there
\* and whichever failed, as long as nobody worked on the recipe beside another and no
\* transfer broke off in the middle.
RecordFitsRecipe ==
    AtRest /\ Stands({"overlap", "part"}) /\ HasRecipe =>
        /\ export.whole /\ export.manifest
        /\ meta # NoMeta /\ meta.rev = export.rev

Answers(p, op) ==
    Inside(p) /\ session[p].op = op /\ session'[p] = Idle /\ answer'[p] # 0

\* What the proxy answers is what is in the export folder at that moment, whole, even
\* though its answer comes from metadata, manifests and remotes that were read before.
InstallGivesRecipe ==
    [][Stands({"overlap", "part"}) =>
         \A p \in Proc : Answers(p, "install") => export' = Whole(answer'[p])]_vars

\* `conan install --update' without a revision never leaves an older recipe than it
\* found: not when remotes disagree, nor when one changes between manifest and download.
UpdateNeverGoesBack ==
    [][Stands({"overlap", "part"}) =>
         \A p \in Proc : Answers(p, "install") => answer'[p] >= session[p].found]_vars

\* The remote recorded for a recipe exists: remotes[cur_remote] (proxy.py 56) finds it,
\* after any sequence of changes, unless the registry was changed beside another
\* command, or add --force dropped two remotes of one URL.  And it leads to the server
\* the recipe was fetched from, through every renaming, removal and forced replacement,
\* unless the user gave its name another URL.
RecordedRemoteIsOrigin ==
    Stands({"race", "dropped"}) =>
        /\ (\A p \in Proc : ~InRegistry(p)) => Recorded \in Names(remotes) \union {None}
        /\ Stands({"moved"}) /\ (\A p \in Proc : ~Busy(p)) /\ Recorded \in Names(remotes) =>
              UrlOf(remotes, Recorded) = origin

\* The exported sources are those of the recipe beside them, except after a download
\* over another revision.
SourcesFitRecipe ==
    AtRest /\ Stands({"overlap", "part", "switched"}) /\ HasRecipe /\ sources # NoFolder =>
        sources = Whole(export.rev)

\* download.py 21: "Download the sources too, don't be lazy".  A `conan download' that
\* went well leaves the exported sources of the recipe it brought.
DownloadBringsSources ==
    [][Stands({"overlap", "part"}) =>
         \A p \in Proc : Answers(p, "download") => sources' = Whole(answer'[p])]_vars
=============================================================================
