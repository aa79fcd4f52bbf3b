---------------------------- MODULE ServerStore ----------------------------
(***************************************************************************)
(* The storage of conan_server for one reference name/version@user/channel *)
(* (conans/server/store/server_store.py) and the requests that change it   *)
(* (services v1 and v2).  A revision is a folder; which revisions there    *)
(* are, and which is the latest, is told by an index file: one for the     *)
(* recipe revisions, and one per recipe revision for the revisions of its  *)
(* package.  Requests run concurrently under a threaded WSGI server.  The  *)
(* file lock covers each read and each write of an index, not the two      *)
(* together, and never the folders.                                        *)
(***************************************************************************)
EXTENDS RevisionList, FiniteSets

CONSTANTS
    Worker,       \* requests (or client commands) that can be in flight at once
    RRev, PRev,   \* recipe and package revisions that v2 clients upload
    Zero,         \* DEFAULT_REVISION_V1, the revision of everything from v1 clients
    Root,         \* names the index of the recipe revisions
    NoIndex,      \* there is no index file
    V1Clients,    \* whether v1 clients upload too
    MaxUploads, MaxDeletes, MaxTicks   \* bounds

ASSUME ZeroIsReserved == Zero \notin RRev \union PRev
ASSUME RootIsNoRevision == Root \notin RRev \union {Zero}
ASSUME NoIndexIsNoList ==
    NoIndex \notin Seq([revision : RRev \union PRev \union {Zero}, time : Nat])
ASSUME BoundsAreNatural == {MaxUploads, MaxDeletes, MaxTicks} \subseteq Nat
ASSUME V1ClientsIsBoolean == V1Clients \in BOOLEAN

AllRRev == RRev \union {Zero}
AllPRev == PRev \union {Zero}

VARIABLES
    recipe,    \* recipe revisions whose export folder has files
    packages,  \* for each recipe revision, the package revisions with files
    index,     \* the index files: index[Root], and index[r] inside r's folder
    job,       \* what each worker is doing
    clock,     \* the server's clock, in seconds
    spoiled,   \* what has happened that the store does not stand (history)
    aborted,   \* a `conan remove' was told 404 for a revision the server listed
    uploads, deletes

files == <<recipe, packages, index>>
vars == <<recipe, packages, index, job, clock, spoiled, aborted, uploads, deletes>>

Idle == [step |-> "idle"]
IsIdle(w) == job[w].step = "idle"
Quiet == \A w \in Worker : IsIdle(w)

Init ==
    /\ recipe = {} /\ packages = [r \in AllRRev |-> {}]
    /\ index = [i \in {Root} \union AllRRev |-> NoIndex]
    /\ job = [w \in Worker |-> Idle]
    /\ clock = 0 /\ spoiled = {} /\ aborted = FALSE
    /\ uploads = 0 /\ deletes = 0

\* The folder of a recipe revision: its export folder, its packages, their index.
FolderExists(r) == r \in recipe \/ packages[r] # {} \/ index[r] # NoIndex

\* _get_latest_revision followed by the `default 0' of CommonService.
LatestOrZero(i) ==
    IF index[i] = NoIndex \/ index[i] = <<>> THEN Zero ELSE Last(index[i]).revision

\* A job knows the index it will update (at), the entry it adds or removes (rev), the
\* recipe revision and, for a package, the package revision whose folder it touches;
\* whether it is an upload of a v1 client (v1) or a removal of all revisions (all), and
\* then which are left to do.
Job(step, kind, at, rev, rrev, prev) ==
    [step |-> step, kind |-> kind, at |-> at, rev |-> rev, rrev |-> rrev, prev |-> prev,
     list |-> <<>>, v1 |-> FALSE, all |-> FALSE, todo |-> <<>>]
RecipeRemoval(r) == Job("drop", "recipe", Root, r, r, Zero)
V1Upload(kind, at) == [Job("urls", kind, at, Zero, Zero, Zero) EXCEPT !.v1 = TRUE]

Begin(w, j) ==
    /\ IsIdle(w)
    /\ job' = [job EXCEPT ![w] = j]
    /\ spoiled' = IF Quiet THEN spoiled ELSE spoiled \union {"race"}
BeginUpload(w, j) ==
    /\ uploads < MaxUploads /\ uploads' = uploads + 1
    /\ Begin(w, j)
    /\ UNCHANGED <<files, clock, aborted, deletes>>
BeginDelete(w, j) ==
    /\ deletes < MaxDeletes /\ deletes' = deletes + 1
    /\ Begin(w, j)
    /\ UNCHANGED <<files, clock, aborted, uploads>>

Step(w, step) == job' = [job EXCEPT ![w].step = step]
Finish(w) == job' = [job EXCEPT ![w] = Idle]
Rest == <<clock, aborted, uploads, deletes>>
----------------------------------------------------------------------------
(* Requests that add: PUT of a file of a recipe or of a package (v2). *)

\* upload_recipe_file: the file is stored, then the index is updated.
PutRecipe(w) ==
    \E r \in RRev : BeginUpload(w, Job("store", "recipe", Root, r, r, Zero))

PutPackageAnywhere(w) ==
    \E r \in RRev, b \in PRev : BeginUpload(w, Job("store", "package", r, b, r, b))
\* upload_package_file: 404 unless the recipe's export folder exists.
PutPackage(w) ==
    \E r \in RRev, b \in PRev :
        /\ r \in recipe
        /\ BeginUpload(w, Job("store", "package", r, b, r, b))

\* The v1 client first asks for upload URLs.  They lead to the folder of the LATEST
\* revision, while the index gets the entry Zero, before any file arrives.
V1PutRecipe(w) ==
    /\ V1Clients
    /\ BeginUpload(w, V1Upload("recipe", Root))
V1PutPackage(w) ==
    /\ V1Clients
    /\ BeginUpload(w, V1Upload("package", Zero))

V1Urls(w) ==
    /\ job[w].step = "urls"
    /\ LET r == LatestOrZero(Root)
           b == LatestOrZero(r)
       IN  IF job[w].kind = "package" /\ r \notin recipe
           THEN Finish(w) /\ UNCHANGED spoiled   \* PackageNotFoundException
           ELSE /\ job' = [job EXCEPT ![w].step = "look", ![w].rrev = r, ![w].prev = b]
                /\ spoiled' = IF r = Zero /\ (job[w].kind = "package" => b = Zero)
                              THEN spoiled ELSE spoiled \union {"mixed"}
    /\ UNCHANGED <<files, Rest>>

\* The files themselves: _upload_to_path (v2) or put_file (v1) make the folder.
StoreFile(w) ==
    /\ job[w].step = "store"
    /\ IF job[w].kind = "recipe"
       THEN recipe' = recipe \union {job[w].rrev} /\ UNCHANGED packages
       ELSE /\ packages' = [packages EXCEPT ![job[w].rrev] = @ \union {job[w].prev}]
            /\ UNCHANGED recipe
    /\ IF job[w].v1 THEN Finish(w) ELSE Step(w, "look")
    /\ UNCHANGED <<index, spoiled, Rest>>

\* _update_last_revision: is there an index file?
LookForIndex(w) ==
    /\ job[w].step = "look"
    /\ IF index[job[w].at] = NoIndex
       THEN job' = [job EXCEPT ![w].step = "write",
                               ![w].list = AddRevision(<<>>, job[w].rev, clock)]
       ELSE Step(w, "read")
    /\ UNCHANGED <<files, spoiled, Rest>>

\* Read it under its lock, and add the revision to what was read.  If it was removed
\* since, open() fails and so does the request.
ReadIndex(w) ==
    /\ job[w].step = "read"
    /\ LET list == index[job[w].at]
       IN  IF list = NoIndex
           THEN Finish(w) /\ UNCHANGED spoiled
           ELSE /\ job' = [job EXCEPT ![w].step = "write",
                                      ![w].list = AddRevision(list, job[w].rev, clock)]
                /\ spoiled' = IF AddsSecondEntry(list, job[w].rev)
                              THEN spoiled \union {"relisted"} ELSE spoiled
    /\ UNCHANGED <<files, Rest>>

\* Write it under its lock, over whatever is there by now.  The lock file's folder is
\* made if it is gone.
WriteIndex(w) ==
    /\ job[w].step = "write"
    /\ index' = [index EXCEPT ![job[w].at] = job[w].list]
    /\ IF job[w].v1 THEN Step(w, "store") ELSE Finish(w)
    /\ UNCHANGED <<recipe, packages, spoiled, Rest>>

\* A v1 client that got its URLs, and the index its entry, never sends the files.
V1Abandon(w) ==
    /\ job[w].step = "store" /\ job[w].v1
    /\ Finish(w)
    /\ spoiled' = spoiled \union {"abandoned"}
    /\ UNCHANGED <<files, Rest>>
----------------------------------------------------------------------------
(* Requests that remove. *)

\* DELETE of one recipe revision (v2), sent by `conan remove ref#rev -r'.
DeleteRecipe(w) ==
    \E r \in AllRRev : BeginDelete(w, RecipeRemoval(r))

\* `conan remove ref -r' of a v2 client asks for the revisions, and then sends a
\* DELETE for each, newest first.
DeleteAllRRevs(w) ==
    /\ index[Root] \notin {NoIndex, <<>>}
    /\ LET revs == AsList(index[Root])
       IN  BeginDelete(w, [RecipeRemoval(Head(revs))
                           EXCEPT !.all = TRUE, !.todo = Tail(revs)])

\* DELETE of one package revision.
DeletePackage(w) ==
    \E r \in AllRRev, b \in AllPRev :
        BeginDelete(w, Job("drop", "package", r, b, r, b))

\* `conan remove ref -p ids' of a v1 client: the packages of every listed revision.  A
\* revision without them ends the request (404) with the earlier ones done.  What is
\* deleted are folders package/<id>; the folder `package' above them stays, at which the
\* _delete_empty_dirs that follows stops, with nothing swept.
V1RemovePackages(w) ==
    /\ V1Clients /\ index[Root] \notin {NoIndex, <<>>}
    /\ BeginDelete(w, [Job("purge", "package", Zero, Zero, Zero, Zero)
                       EXCEPT !.todo = AsList(index[Root])])
V1PurgePackages(w) ==
    /\ job[w].step = "purge"
    /\ LET r == Head(job[w].todo)
       IN  IF packages[r] # {} \/ index[r] # NoIndex
           THEN /\ packages' = [packages EXCEPT ![r] = {}]
                /\ index' = [index EXCEPT ![r] = NoIndex]
                /\ IF Len(job[w].todo) = 1 THEN Finish(w)
                   ELSE job' = [job EXCEPT ![w].todo = Tail(@)]
           ELSE Finish(w) /\ UNCHANGED <<packages, index>>
    /\ UNCHANGED <<recipe, spoiled, Rest>>

\* DELETE of all the packages of a recipe revision: one folder, with the index in it.
RemoveAllPackages(w) ==
    \E r \in AllRRev :
        /\ packages[r] # {} \/ index[r] # NoIndex
        /\ IsIdle(w) /\ deletes < MaxDeletes /\ deletes' = deletes + 1
        /\ packages' = [packages EXCEPT ![r] = {}]
        /\ index' = [index EXCEPT ![r] = NoIndex]
        /\ spoiled' = IF Quiet THEN spoiled ELSE spoiled \union {"race"}
        /\ UNCHANGED <<recipe, job, clock, aborted, uploads>>

\* DELETE of the reference (v1, or v2 without revision): the folder above them all.
RemoveReference(w) ==
    /\ \E r \in AllRRev : FolderExists(r) \/ index[Root] # NoIndex
    /\ IsIdle(w) /\ deletes < MaxDeletes /\ deletes' = deletes + 1
    /\ recipe' = {} /\ packages' = [r \in AllRRev |-> {}]
    /\ index' = [i \in DOMAIN index |-> NoIndex]
    /\ spoiled' = IF Quiet THEN spoiled ELSE spoiled \union {"race"}
    /\ UNCHANGED <<job, clock, aborted, uploads>>

\* delete_folder, which answers 404 if there is no such folder.
DropFolder(w) ==
    /\ job[w].step = "drop"
    /\ LET r == job[w].rrev
           b == job[w].prev
       IN  IF job[w].kind = "recipe"
           THEN IF FolderExists(r)
                THEN /\ recipe' = recipe \ {r}
                     /\ packages' = [packages EXCEPT ![r] = {}]
                     /\ index' = [index EXCEPT ![r] = NoIndex]
                     /\ Step(w, "unread") /\ UNCHANGED aborted
                ELSE /\ Finish(w) /\ UNCHANGED files
                     /\ aborted' = (aborted \/ job[w].all)
           ELSE IF b \in packages[r]
                THEN /\ packages' = [packages EXCEPT ![r] = @ \ {b}]
                     /\ Step(w, "unread") /\ UNCHANGED <<recipe, index, aborted>>
                ELSE Finish(w) /\ UNCHANGED <<files, aborted>>
    /\ UNCHANGED <<spoiled, clock, uploads, deletes>>

\* _remove_revision_from_index: load; if the file is not there, the request fails
\* with the folder already gone.
UnlistRead(w) ==
    /\ job[w].step = "unread"
    /\ LET list == index[job[w].at]
       IN  IF list = NoIndex
           THEN Finish(w)
           ELSE job' = [job EXCEPT ![w].step = "unwrite",
                                   ![w].list = RemoveRevision(list, job[w].rev)]
    /\ UNCHANGED <<files, spoiled, Rest>>

\* ... and save.
UnlistWrite(w) ==
    /\ job[w].step = "unwrite"
    /\ index' = [index EXCEPT ![job[w].at] = job[w].list]
    /\ IF job[w].kind = "recipe" THEN Step(w, "sweep") ELSE Finish(w)
    /\ UNCHANGED <<recipe, packages, spoiled, Rest>>

\* _delete_empty_dirs: the index goes when it is alone in the folder.  The client of a
\* DeleteAllRRevs then sends the next DELETE.
SweepUnguarded(w) ==
    /\ job[w].step = "sweep"
    /\ index' = [index EXCEPT ![Root] = NoIndex]
    /\ IF job[w].todo = <<>>
       THEN Finish(w)
       ELSE job' = [job EXCEPT ![w] = [RecipeRemoval(Head(@.todo))
                                        EXCEPT !.all = TRUE, !.todo = Tail(job[w].todo)]]
    /\ UNCHANGED <<recipe, packages, spoiled, Rest>>
Sweep(w) ==
    /\ job[w].step = "sweep"
    /\ index' = IF \E r \in AllRRev : FolderExists(r) THEN index
                ELSE [index EXCEPT ![Root] = NoIndex]
    /\ IF job[w].todo = <<>>
       THEN Finish(w)
       ELSE job' = [job EXCEPT ![w] = [RecipeRemoval(Head(@.todo))
                                        EXCEPT !.all = TRUE, !.todo = Tail(job[w].todo)]]
    /\ UNCHANGED <<recipe, packages, spoiled, Rest>>

Tick == clock < MaxTicks /\ clock' = clock + 1
        /\ UNCHANGED <<files, job, spoiled, aborted, uploads, deletes>>

\* No request is in flight: the server waits.
AtRest == Quiet /\ UNCHANGED vars

Next ==
    \/ Tick \/ AtRest
    \/ \E w \in Worker :
        \/ PutRecipe(w) \/ PutPackage(w) \/ V1PutRecipe(w) \/ V1PutPackage(w)
        \/ V1Urls(w) \/ StoreFile(w) \/ LookForIndex(w) \/ ReadIndex(w) \/ WriteIndex(w)
        \/ V1Abandon(w)
        \/ DeleteRecipe(w) \/ DeleteAllRRevs(w) \/ DeletePackage(w)
        \/ V1RemovePackages(w) \/ V1PurgePackages(w)
        \/ RemoveAllPackages(w) \/ RemoveReference(w)
        \/ DropFolder(w) \/ UnlistRead(w) \/ UnlistWrite(w) \/ Sweep(w)

Spec == Init /\ [][Next]_vars
----------------------------------------------------------------------------
Lists == {index[i] : i \in {i \in DOMAIN index : index[i] # NoIndex}}
Listed(i) == IF index[i] = NoIndex THEN {} ELSE Revisions(index[i])

TypeOK ==
    /\ recipe \subseteq AllRRev /\ packages \in [AllRRev -> SUBSET AllPRev]
    /\ DOMAIN index = {Root} \union AllRRev
    /\ Listed(Root) \subseteq AllRRev
    /\ \A r \in AllRRev : Listed(r) \subseteq AllPRev
    /\ \A list \in Lists : \A i \in DOMAIN list : list[i].time \in 0..MaxTicks
    /\ \A w \in Worker : job[w].step \in {"idle", "urls", "store", "look", "read",
          "write", "drop", "unread", "unwrite", "sweep", "purge"}
    /\ spoiled \subseteq {"race", "mixed", "abandoned", "relisted"}

\* Whatever requests overlap, and whichever of them overwrites another's index, the
\* entries of an index stay in the order of their times, so that `revisions', newest
\* first, never presents an older one before a newer one; and a revision is listed once,
\* unless the oldest one was uploaded again.
IndexStaysInOrder ==
    \A list \in Lists : \A i, j \in DOMAIN list :
        /\ i < j => list[i].time <= list[j].time
        /\ "relisted" \notin spoiled /\ list[i].revision = list[j].revision => i = j

\* At rest, every revision in the store is listed: no upload is forgotten as long as
\* requests for the reference do not overlap.
StoredIsListed ==
    Quiet /\ "race" \notin spoiled =>
        /\ recipe \subseteq Listed(Root)
        /\ "mixed" \notin spoiled => \A r \in AllRRev : packages[r] \subseteq Listed(r)

\* At rest, what is listed can be fetched: nothing removed is still offered.  When the
\* last revision goes its index goes too, and the reference is new again; even if an
\* index that listed a revision twice still names it.
ListedIsStored ==
    Quiet =>
        /\ spoiled = {} =>
             /\ Listed(Root) \subseteq recipe
             /\ \A r \in AllRRev : Listed(r) \subseteq packages[r]
        /\ spoiled \subseteq {"relisted"} =>
             (index[Root] = NoIndex <=> recipe = {})

\* Packages are stored only beside their recipe, whatever clients mix or give up, as
\* long as requests do not overlap.
PackagesHaveRecipe ==
    "race" \notin spoiled =>
        \A r \in AllRRev : packages[r] # {} => r \in recipe

\* `conan remove' of all revisions reaches its end: the server never answers 404 for
\* a revision that it listed.
RemoveAllGetsThrough == spoiled = {} => ~aborted

\* The order of a list, from its oldest entry on, and what of it a client can have: the
\* revisions that are listed and stored.
ArrivalOrder(list) ==
    UNION {{<<list[m].revision, list[n].revision>> : n \in m..Len(list)} :
             m \in DOMAIN list}
Offered(i, there) ==
    IF index[i] = NoIndex THEN {} ELSE ArrivalOrder(index[i]) \cap (there \X there)

\* Folder and index change one after the other, in several files and, for a removal of
\* all, over several requests.  A client sees each request take effect at once, and the
\* latest revision is the one that arrived last: the store implements RevisionStore.
Promise == INSTANCE RevisionStore
    WITH RRev <- AllRRev, PRev <- AllPRev,
         offered <- Offered(Root, recipe),
         offers <- [r \in AllRRev |-> Offered(r, packages[r])]
KeepsPromise ==
    /\ Promise!PromiseInit
    /\ [][spoiled' = {} => Promise!PromiseNext]_(Promise!promiseVars)

\* "If we have two RREVs in the server and we remove the second one, the first is now
\* the latest": when one revision is left, it is the latest.
TheOneLeftIsLatest ==
    Quiet => \A r \in RRev :
                recipe = {r} => LatestOrZero(Root) = r
=============================================================================
