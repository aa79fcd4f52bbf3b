# Conan's shared state, in TLA+

The repository packages Conan (`src/conan/conans`, client and server), together
with the recipe of freeglut that it builds. The recipe itself (`src/conanfile.py`,
`src/test_package`) is a straight line of build steps. What is hard to get right,
and hard to test, is in the tool: several `conan` processes share one local cache on
disk, several clients share one server, and both are held together by small files:
counts, dirty flags, `metadata.json`, `remotes.json`, indexes of revisions, manifests,
a database of logins. This project models that shared state, and the graph of
dependencies that every command computes first.

## 1. Inventory

### Components modelled

| Component | State | Operations | Modules |
|---|---|---|---|
| Recipe lock, `util/locks.py` | `.count` (readers, or -1), the gate file `.count.lock` | enter/leave as reader or writer, `Lock.clean`, deletion by a recipe update | `LockPromise`, `RWLock`, `RWLockProofs` |
| Server store, `server/store/server_store.py`, `server/revision_list.py` and the services v1/v2 over them | folders of revisions, one `revisions.txt` per recipe and per recipe revision | put of recipe/package files (v2), URLs then put (v1), removal of a revision, of all revisions, of packages, of the reference | `RevisionStore`, `RevisionList`, `ServerStore`, `ServerStoreProofs` |
| Graph builder and range resolver, `graph/graph_builder.py`, `model/requires.py`, `model/options.py`, `graph/graph.py`, `graph/range_resolver.py` | the graph, and at every node its ancestors, scope, closure and options | expand, override, ask for an option, resolve a range, add a node, close a diamond, refuse | `GraphBuilder`, `GraphProofs` |
| What is done with the graph, `graph/graph_manager.py`, `graph/graph_binaries.py`, `model/info.py` | at every node the package id and the decision; the graphs of build requirements | evaluate, skip what is private, freeze options, extend by build requirements | `GraphBinaries`, over `GraphBuilder` |
| Binary evaluation and installer, `graph/graph_binaries.py`, `installer.py`, `remote_manager.py` | the package folder, its dirty flag, `metadata.json`, the package lock | evaluate, download, update, build, use | `PackageInstall`, `PackageActorsProofs` |
| `conan download`, `export-pkg`, `remove -p`, `remove --locks` on the same package, `cmd/download.py`, `cmd/export_pkg.py`, `remover.py`, `cache.py` | the same, without lock and flag | clear, receive, record, unzip; package, sign, record; remove folder, flag, record, lock files | `PackageActors`, `PackageActorsProofs` |
| Builder and sources, `installer.py`, `source.py` | source folder, build folders, their dirty flags, the recipe lock | choose the build folder, prepare sources, copy, build, package | `BuildFolders`, `BuildFoldersProofs` |
| Recipe proxy, `graph/proxy.py`, with `remote_manager.py`, `source.py`, `cmd/export.py`, `cmd/download.py`, `remover.py` | the export folder, `export_sources`, the recipe's metadata, the recipe lock | install (with `--update`, `-r`, a pinned revision, or none of them), fetch sources, export, download, remove | `RecipeCache`, `RecipeCacheProofs` |
| Remote registry, `cache/remote_registry.py` | `remotes.json` and the remote named in metadata | add, `add --force`, update, remove, rename, clear, define | `RemoteRegistry`, composed in `RecipeCache` |
| Upload, `cmd/uploader.py`, `rest/rest_client_v2.py` | the files of recipe and package on the server | date check, snapshot, manifest, policy, sending, retry | `Upload`, `UploadProofs` |
| Downloads of what is being uploaded, `rest_client_v2.py`, `remote_manager.py`, `service_v2.py` | what each reader has of recipe and package | list, get file after file, unzip, check the snapshot, build | `Fetch`, over `Upload` |
| Transfer and client authentication, `rest/uploader_downloader.py`, `rest/auth_manager.py`, `store/localdb.py`, `cmd/user.py` | sessions, tokens, the stored login, files on both sides | attempts at a file, repetition of a call, login, `conan user` | `RestClient`, `RestClientProofs` |
| Server authentication and permissions | tokens | its three answers: served, 401, 403 | in `RestClient` |

### Components not modelled

`PROJECT.json` lists every component with its sources. Section 6 says why the following
are left out: the rules for texts in package identity, the recipe loader, search, the server's routing, configuration and profiles, the file copier, generators,
build helpers and tools, hooks, recorder and tracer, migrations, editable packages and
workspaces, and the command line.

### How they interact

- A command evaluates a graph (proxy, then binary evaluation), then installs it node by
  node. The two phases share no lock: what is decided is held in the node, and what it was
  decided from is in the cache, which other processes change.
- The installer takes the *package lock* (an exclusive file lock per package id) and
  inside it, for a build, the *recipe lock*: as writer while it prepares sources, then,
  after giving it up, as reader while it builds and packages.
- The proxy takes the recipe lock as writer around the download or update of a recipe.
  An update calls `DiskRemover().remove_recipe`, which deletes the lock's files. `conan
  export` takes it when it has emptied the folders; `download` and `remove` never do.
- `download`, `export-pkg` and `remove -p` take neither the package lock nor the dirty
  flag, and `remove` deletes the files the locks are held on.
- Every command loads `remotes.json` once and uses that table to its end. Commands that
  change the remotes write it, then the metadata of every recipe, without a lock.
- An upload sends file after file; each `PUT` makes the server store a file and rewrite
  an index of revisions. Downloads resolve "latest" through that index, ask for a list of
  files, and then for each file.
- Every call to a remote goes through one wrapper that logs in and repeats the call when
  the server answers 401, and through another that repeats each file when the connection
  breaks. The login is in a database that all processes share.

### What is hard

- *Interleaving.* Readers and writers of one recipe, two installs of one package, two
  builds in one build folder, two uploads of one reference, an upload and a removal, an
  upload and a download, a command and a change of the remotes.
- *Decisions that go stale.* Evaluation precedes the package lock; an upload checks
  date and manifest before it sends; an update compares manifests before it downloads;
  the server checks that a recipe exists before it stores its package; an index is read
  and written in two sections; a table of remotes is used long after it was read.
- *Crashes and errors.* A killed process leaves its mark in the count file, a torn
  count, a partial folder, an index entry without files. Errors leave some of the same.
- *Partial success.* A file that fails does not stop the others; the removal of all
  revisions stops at the first that is not there; a folder is emptied before the remote
  is asked.
- *Retries inside retries.* A file is tried again within a call that is repeated after a
  login that asks several times; each level starts from what the last one left.
- *A graph computed while it is walked.* Who is reached first is expanded first; what
  comes later changes what is known of the nodes that are there, in several places. Build
  requirements come when the rest has been evaluated and frozen, in graphs of their own
  that share nodes with it.
- *Two protocols on one store.* v1 clients know no revisions, and what they send lands
  in revision 0, or in the latest one.

`PROJECT.json` has the hazards one by one, each at its line, with the properties that
cover it, or the reason why none does.

### What makes each component correct

- Recipe lock: a writer is alone; the number in the file is the truth; who waits is
  admitted when nobody holds the lock, who leaves gets out.
- Graph: a loop is refused, and nothing else is for a loop; the consumer's versions and
  options win; what a node asks for it gets, or the command ends; what a node links has
  each package once; what is skipped is not needed.
- Server store: files and index agree when no request is in flight; the latest is the
  newest; removal of everything ends; every request takes effect at once.
- Installer: a folder that is not whole is marked dirty, unless an evaluation is removing
  it; the recorded revision is that
  of the folder; what a process uses is whole, and is its own if it has just made it;
  every install ends. The same of the folder once the other commands have been there.
- Builder: partial sources are marked; sources do not change under a build; a package
  comes from a finished build.
- Proxy: metadata, export folder and exported sources tell of one revision; an answer is
  what is in the folder; an update never goes back; the recorded remote is where the
  recipe came from.
- Upload: a manifest on the server vouches for the other files; "done" means complete;
  repeating the upload gets there; who reads meanwhile gets something whole or an error.
- Transfer and login: success means every file whole; a request speaks for the user whose
  token it carries; what was learnt of a login is remembered; every call ends.

## 2. Modules and the code

### LockPromise and RWLock (`conans/util/locks.py`)

`LockPromise` is what the lock's users rely on: any number of readers or one writer.
It is conditional on `intact`, because the code cannot keep it when its files are
deleted in use. `RWLock` is the code:

| RWLock | code |
|---|---|
| `count`, `Unreadable`, `ReadersInFile` | the content of `.count`; missing or empty reads as 0 (`_readers`) |
| `gate`, `fd`, `OpenGate`, `ReadCount` | `fasteners.InterProcessLock(.count.lock)`: opens what the path names *now*, then locks that file, so that two processes can hold two different files |
| `Admit`, `Refuse` | `__enter__` of `ReadLock` and `WriteLock`: read, save, or sleep and retry |
| `Exit`, `OpenGate`, `ReadCount`, `Leave` | `__exit__`, which passes through the same gate |
| `Crash` | a kill anywhere; inside `save()` it leaves an empty file |
| `DropCount`, `DropGate` | the two `unlink`s of `Lock.clean` and of `DiskRemover.remove_recipe`, from outside and by the writer inside |

`readers` and `writers` are who is inside the `with` block. They include the dead until
their mark is deleted: this is what the file says of them. `intact` is a history
variable. It becomes false when a save is torn, when the count is deleted while a live
process is inside or is between reading and saving, or when the gate is deleted while
somebody is at it. The properties that need it say `intact =>`.

### RevisionStore, RevisionList and ServerStore

`RevisionStore` is the server as its clients want to see it: the recipe revisions and the
package revisions of each, in order of arrival, changed by each request in one step. The
order is a set of pairs, the first of which arrived no later than the second, so that
"goes from wherever it was to the end" is set algebra. `RevisionList` translates `revision_list.py`, including `if index:` on line 43,
which treats the entry at index 0 as absent (`AddsSecondEntry`). `ServerStore` has one
reference and one package id. `index[Root]` is the index of recipe revisions and
`index[r]` that of the package in revision `r`. Each request is a job that passes
through the code's steps: *store* the file, *look* for the index, *read* it under its
lock, *write* it under its lock; or *drop* the folder, read, write, and *sweep* the
empty folder. The two index sections are separate actions, as in the code. `spoiled` is
a history variable that names what has happened: two requests overlapped (`race`), a v1
client was sent to the folder of a v2 revision (`mixed`), a v1 client got its index
entry and sent nothing (`abandoned`), the oldest revision was uploaded again
(`relisted`). Each invariant excludes exactly those that break it, so that the run
also tells which histories the store survives. Letting one more of them into a
property's guard makes TLC find a counterexample.

The refinement mapping takes a revision for offered when it is listed *and* stored: this
is what a client can fetch. Then the several writes of a request have one that counts,
and the others stutter: the write of the index for an upload, the removal of the folder
for a removal.

### GraphBuilder and GraphBinaries

`_load_deps` calls itself, so its calls in progress are a `stack`; each is a node, what
downstream wants (`reqs`) and asks for (`asks`), and the requirements still to handle.
`Configure` is `_config_node` with `_resolve_deps`: `Overridden` is `Requirements.update`,
`Resolved` the `RangeResolver`, `NewOption`, `NewAsks` and `RefusesOption` are
`Options.propagate_upstream` and `validate`, `Upstream` what is passed on. Then
`_handle_require` for one requirement after the other: `DetectLoop`, `MissRecipe`,
`AddNode`, `Conflict`, `RefuseOption`, `MissNode`, or `CloseDiamond`, which expands the
node again if `_recurse` says so (`MustRecurse`). A node has the fields of `Node` in
`graph.py`: `ancestors`, `deps` (`public_deps`, the scope in which names are looked up),
`closure` (`public_closure`), `inverse` (`inverse_closure`), `private`, `build`, `edges`.

What a recipe requires is not known before it is loaded: `AddNode` takes any recipe that
the world has for the package and keeps it for that name and version, so that one run
checks every combination of the lists. A version is a number and a range the set of
versions in it. `method` tells recipes with `requirements()`, whose requirements are made
anew at every evaluation, from those with the attribute, which keep what was overridden. A
package has at most one option, of numbers: a recipe says which are `allowed`, which is
the `default`, what it `asks` of others by name or of all (`any`, the `*` of the code), and
what more it requires when the option is 2. `changed` is what `_modified` and the
`_reqs_options` note of who asked first.

`GraphBinaries` is the rest of `load_graph`. `Evaluate` begins `evaluate_graph` on the
nodes that are new; `EvaluateNode` is `_compute_package_id`, `_evaluate_node` and
`_handle_private` for a node whose dependencies have been through it, in the order of
`ordered_iterate` (nodes of a level in any order). Which binary there is, is any
(`Decisions`), but two nodes with the same package id get the same. A private node is
skipped when who requires it is not built (`Hidden`), the options are frozen. Then
`_recurse_build_requires`: `PassBy` for what needs no tools, `ExtendBuildRequires` for what
does, which makes a new graph from that node; `LeaveGraph` returns to the one below.
`outside` are the nodes that the new graph does not have, though its nodes may be linked
with them: there `MissNode` is the assertion in `DepsGraph.add_edge`.

Left out: what `configure()` and `config_options()` do to options, aliases, conflicts of
recipe revisions, packages in editable mode, `CONAN_ERROR_ON_OVERRIDE`, build requirements
of profiles, ranges in build requirements, settings, `package_id()` and the modes of
package ids other than the default one.

The model was compared with what the classes themselves (`DepsGraphBuilder`,
`GraphBinariesAnalyzer`, `GraphManager`) make of the same recipes, node by node and field
by field: the 34 020 end states of the world `free` and the 15 390 of the world `options`
agree, so do the 918 outcomes of 12 sets of recipes of the world `optionTools`. Of 1 766
outcomes of 200 sets of recipes of `tools` the model has all; it has 16 more, where nodes
with the same reference are of one level and the code visits them in one order.

### PackageInstall and PackageActors

One package id of one recipe. `Start` reads the graph. Then comes the evaluation under the
package lock: `CheckFolder` leaves the folder, `StartPurge` and `FinishPurge` remove one
that has to go (`MustGo`). `Look` is the existence check after that lock is released, the
`Find...` actions are the decisions, and the rest is `_handle_node_cache` and what it
calls under the lock: `SetDirty`, then `StartRemoving`, `RemoveFolder`, `StartPackaging`,
`FinishPackaging` for a build, or `StartReceiving`, `FinishReceiving`, `Unzip` for a
download or update, `RecordRevision` at the code's place in each, `CleanDirty`,
`UseFolder`. `Publish` and `ChangeRecipe` are other people and other commands; the recipe
they put into the cache may be an older one.

A removal is two steps, as `rmdir` takes one file after the other: what is left after the
first (`Remains`) is not whole, and may or may not have lost what makes the package
readable. Between the two a process may be killed or get an error (`FailLeavingPart`), and
another one look. A folder that the dirty flag does not mark has then a history: `torn`.

A package revision is a number, newer is greater; a folder is its revision, its recipe
revision, and how much of it is there. `accidents` bounds what leaves a folder behind
that is not whole: a kill, a `NotFoundException` half-way through a download
(`remote_manager.py:154`, which alone skips the clean-up), a failure after `package()`, an
error in the middle of a removal. An ordinary `Fail` is unbounded.

`PackageActors` extends the module by the commands that write the same folder outside its
protocol. Each is a `job` of a few steps in the code's order: `download` clears the
folder, receives the files, records them, unzips the last; `export-pkg` looks, clears the
folder, packages, signs, records; `remove -p` takes the lock files first, then the folder,
its flag and its entry
in the metadata. `exported` (what export-pkg made last) and `spoiled` are history:
`overlap` when two commands were at the package at once, `cut` when one of these was
killed or failed and left a part (`Kill`, `FailExport`, and `FailRemoval` wherever one of
them removes the folder), `flagged` when export-pkg put its package beside a
dirty flag that was already there. A later removal, alone, heals all of it, and the
variable says so by becoming empty.

Left out: `--build outdated` and `--keep-build`, more than one remote, editable
packages, skipped private nodes.

### BuildFolders

One recipe, several packages, some of which share a build folder (`BuildId`). The recipe
lock is `LockPromise` used as a component: `Lock!AdmitReader` and `Lock!AdmitWriter` are
conjuncts of the actions, so `RWLock`'s refinement is what licenses it. `Look` is
`_get_build_folder` outside the recipe lock; `LockToPrepare` to `UnlockPrepared` is
`_prepare_sources` with `config_source`, in which the removal of old sources begins
(`DropSource`), and ends (`SourceDropped`) or fails and marks what is left
(`DropRefused`); `LockToBuild` to `Pack` is the build. A killed
process leaves its mark in the recipe lock until `CleanLocks`, which is `conan remove
--locks` run by a person who has checked that only dead processes are inside.
`overlapped` is a history variable: two processes have used one build folder at a time.

`MCBuildFolders` takes `no_copy_source` together with `build_policy = "always"` out of
the passing run (`MostRecipes`). With both, each build fetches the sources anew under the
write lock, gives it up, and builds *in* the source folder under the read lock; between
the two another build of the same recipe may start to fetch, fail, and leave nothing or a
part. It is listed as a hazard.

### RemoteRegistry and RecipeCache

`RemoteRegistry` is `remote_registry.py`: each command loads the table, changes it in
memory (`AddRemote`, `ForceRemote`, `UpdateRemote`, `RemoveRemote`, `RenameRemote`,
`ClearRemotes`, `DefineRemotes`), and then makes its writes (`SaveRemotes`,
`SweepMetadata`) one after the other, in the order the code has them: `remove`, `rename`,
`clear` and `define` rewrite the metadata first and save last, `add --force` saves first
and rewrites after, the others only save. `move` says what becomes of each recorded name.
What the code keeps of a table is given by its places (`Entries`), not by a predicate on
its entries: `SelectSeq` is recursive, and nothing could be proved of it. `MCRecipeCache`
assumes, and TLC evaluates, that on short tables both are the same (`EntriesAreSelected`).

`RecipeCache` has one recipe in the cache and composes the registry with everything that
writes the recipe:

| RecipeCache | code |
|---|---|
| `StartInstall`, `Enter` | `ConanProxy.get_recipe`: the remotes are loaded, then the write lock is taken |
| `Seek`, `UseCached`, `SeekDifferent`, `AskManifest`, `Compare`, `RemoveOld`, `Refuse` | the outcomes of `_get_recipe`, each with its conditions |
| `Clear`, `Receive`, `Unzip`, `Record`, `RecordRemote` | `_download_recipe`, `RemoteManager.get_recipe`: the folder is emptied before the remote is asked; the metadata is written in two sections |
| `StartSources`, `SourcesThere`, `FetchSources` | `complete_recipe_sources` under the lock |
| `StartExport` ... `ReviseMetadata` | `cmd_export`: folders emptied, lock, copy, manifest, lock given back, metadata |
| `StartDownload` | `cmd/download.py`, the same path without the lock |
| `StartRemove`, `RemoveBase` | `ConanRemover`: the files of the lock and the folders, then the base folder |
| `Break` | a transfer that breaks off, or a kill, at any of these places |

The recipe lock is `LockPromise`. When an update or a removal deletes its files under a
holder (`Lock!Lose`) the promise ends, and `TakeLock` admits anyone. `spoiled` names what
a history contains: `overlap` (somebody worked on the recipe beside another, which the lock
prevents only among its users), `race` (the remotes changed beside another command),
`moved` (a name got another URL), `dropped` (`add --force` made two remotes of one URL
into one, of which only the last is renamed in the metadata), `switched` (a download put
another revision beside exported sources), `part` (something was cut short). `origin` is
history too: the server that the recorded name stood for when it was recorded.

### Upload

Two clients and one server, REST v2, one recipe revision and one package. `CheckDate`,
`TakeSnapshot`, `GetManifest`, `Compare` are the answers of the server before the upload,
`PutUnlink` and `PutSave` the two halves of `_upload_to_path`, one file at a time in the
order of `Files`. `PutFail` and the lost answer in `PutSave` set `failed` and go on with
the next file, as `_upload_files` does. `PutForbidden` and `Crash` end the command.

### Fetch

Extends `Upload` by clients that install. The server offers a revision from its first file
on, so a reader may come at any time: `ListRecipe`, `GetRecipeFile`, `UnzipRecipe` are the
recipe (files in reverse alphabetical order, as `_download_and_save_files` sorts them);
`AskInfo` is the evaluation of the package; `CheckSnapshot`, `ListPackage`,
`GetPackageFile`, `UnzipPackage` the package, with its two separate lists; `ListSources`,
`GetSources`, `UnzipSources`, `Build` the build from sources. A file that the server is
writing (`OpenFile`) can be read as `Cut`; the compressed ones then fail to unzip, the
others are taken as they are.

`resent` is history: a file was sent again while it was there. The configuration explores
only histories without that and without a failed request (`CONSTRAINT Undisturbed`);
both, once they have happened, stay, and both properties have the same condition as
their premise, so that nothing they speak of is cut off.

### RestClient

Processes that share the login of one remote. A call is a session: *ask* for the list of
files (downloads), *transfer* file after file, *login*. `Receive`, `Store`, `Break`,
`TryAgain`, `SendRest`, `RefuseFile` are `call_with_retry` and what it repeats;
`SendRest` is an attempt whose file was read by the attempt before. `ForgetToken`,
`AskUser`, `WrongPassword`, `LogIn`, `Forbid`, `GiveUp` are
`input_credentials_if_unauthorized`; `Afresh` is the repetition of the whole call from
its first file. The server is `Refused`, `Forbidden`, `Admitted`, and `Expire`. A token is
the number of its issue. `ChangeUser` is `conan user` of another process. `alone` is
history: nobody else used the remote during the call. Without it `LoginRemembered` fails,
since a process that has just been refused forgets the token another one has just stored.

## 3. Runs

| Run | Instance | Shows |
|---|---|---|
| `rwlock` | 3 processes, 1 crash, 1 clean, 1 update | `ExclusionWhileIntact`, `CountIsTrue`, and that every step is one of `LockPromise` (`KeepsPromise`) |
| `rwlock_live` | 3 processes, 1 crash, fair | `WaiterIsAdmitted`, `LeaverGetsOut` |
| `server_store` | 2 workers, 2 recipe revisions and 0, 1 package revision and 0, 3 uploads, 2 removals, 2 seconds | `IndexStaysInOrder`, `StoredIsListed`, `ListedIsStored`, `PackagesHaveRecipe`, `RemoveAllGetsThrough`, and that the store implements `RevisionStore` (`KeepsPromise`) |
| `graph_builder` | a consumer and 4 packages, one of them in 2 versions, lists of 0 to 3 requirements: exact, in a range, private, overriding, missing; with and without `requirements()`, `--update`, a cached version; options of 2 or 3 values asked for by name and of all; build requirements of what is built, also in other graphs; binaries that are there, to be built, or missing | `LoopsAreExact`, `ClosureIsWhatIsLinked`, `BaseDecides`, `NeededIsInstalled` |
| `package_install` | 2 processes, 3 modes, 3 installs, 2 recipe revisions, 1 published package, 1 accident, fair | `PartialIsDirty`, `RecordedIsStored`, `UsedIsWhole`, `OwnInstallIsUsed`, `InstallEnds` |
| `package_actors` | 2 processes, 1 install (`--build missing`), 2 other commands, 2 recipe revisions, 1 published package, 1 accident | `SoundAtRest`, `ExportedStays`, `RemoveHeals` |
| `recipe_cache` | 2 processes, 3 names of remotes, 2 servers, one of them under two names at first, 2 revisions, 3 commands, 1 failure | `RecordFitsRecipe`, `RecordedRemoteIsOrigin`, `SourcesFitRecipe`, `InstallGivesRecipe`, `UpdateNeverGoesBack` |
| `rest_client` | 2 processes, 2 users of whom 1 is allowed, 2 files, 1 retry, 2 passwords, 2 calls, 2 broken connections, 1 expired token, 1 `conan user`, fair | `SpeaksForItsUser`, `DoneIsWhole`, `LoginRemembered`, `CallEnds` |
| `upload` | 2 clients with different contents, all policies, 1 failure, 1 stop, fair | `ManifestLast`, `DoneIsComplete`, `PackageGetsThrough` |
| `upload_again` | 1 client, 1 failure, fair | **violated:** `RecipeGetsThrough` |
| `fetch` | the clients of `upload`, 1 reader, 3 installs, 1 stop, no file sent again | `InstalledIsWhole`, `BuiltFromItsSources` |
| `build_folders` | 2 processes, 3 packages (2 in one build folder), 3 kinds of recipe, 1 kill | `PartialSourceIsDirty`, `SourcesStayWhileBuilding`, `PackageIsGoodAlone` |

To repeat one: `tlc -workers 2 -config RWLock.cfg RWLock`. Each takes between a few
seconds and a little over two minutes (`PackageInstall`). No run turns the deadlock check
off. `PackageInstall`, `PackageActors`, `RecipeCache`, `RestClient` and `ServerStore` have
an explicit step of rest for the time when no command runs and the bounds are used up;
`GraphBinaries` has `Ended` for a command that has its graph, or an error.

Each property of a passing run has a *mutant* in `PROJECT.json`: a plausible bug in one
mapped definition, under which TLC finds the property violated with the same
configuration. They stand before the definition they change (`LeaveWritingZero` before
`Leave`).

### The bounds, and why they are enough

- *Lock.* Three processes are the least for two at the gate while a third is inside, and
  for two readers beside a writer. One crash, one clean and one update give each of them
  in every combination; the second of a kind meets a promise that is lost, or a lock with
  nobody alive inside, which is the state it had before. The theorems remove these
  bounds, and those of all other parts; of the graph those that section 5 names.
- *Server.* The interesting histories are made by two requests in flight. Two recipe
  revisions and revision 0 are the least for an index with an oldest, a middle and a
  newest entry; three uploads fill it, or repeat one. Two seconds of the clock tell equal
  times from different ones.
- *Graph.* Four packages under a consumer make a diamond with something behind it that is
  reached a third time, and loops of every length up to four through it. Only one package
  has two versions: a conflict is about one name, and which one is settled by the lists.
  What the code does with versions, ranges, options and tools meets in few places, so each
  has a world of its own: `free` (every shape of graph), `ranged` (the cache and
  `--update`), `options` (a diamond and what is behind it, with wishes of everyone),
  `tools` (what is linked is a tool as well, at two depths), `optionTools` (a tool's
  wishes against frozen options). The two last are evaluated.
- *Installer.* Two processes under one exclusive lock; three installs let one of them
  meet what the other two left; two recipe revisions make a package that belongs to
  another recipe, and its own again when the first comes back; one published package
  makes an update. A `conan install` without options decides like `--update` when the
  server has nothing newer, which is why it is no mode of the run.
- *Other actors on the package.* Two commands beside an install let it evaluate what one
  has exported or downloaded and a second disturb or remove it; or one is cut short, and
  the other cleans up. `--build missing` is the mode that can download, build and
  find a folder; `PackageInstall` has the others. Processes are symmetric.
- *Recipe.* Three commands are enough for one that makes a state, one that disturbs it and
  one that meets it, the changes of remotes included; two servers make remotes disagree;
  three names make a renaming into a free name while two are taken. The table begins with
  one server under two names, from which commands reach the tables with one or none.
  `MaxMishaps = 0` lets commands in flight go on after a mishap, but starts no new one:
  what follows a mishap that a property excludes is not of interest to it.
- *REST client.* A second file is what a repeated call finds already there; one retry and
  two breaks lose an attempt and then the whole file; one token that expires meets each
  place of a call; two calls are a pair of processes, or a call and the one after it.
  The code asks for a password three times; two tell "again" from "too many" as well.
- *Upload, fetch.* The two contents make one client the older one. One failed request and
  one stop are each enough for every partial state; uploads are repeated without limit.
  Three installs: one that leaves a partial recipe, one that goes on from it, one after.
- *Build folders.* Two processes fill the recipe lock's cases (writer alone, two readers);
  three packages give a shared build folder and one beside it. The number of builds is
  not bounded, nor is that of failures.

### Fairness

- `RWLock`: weak fairness of a process's own next step, as the operating system schedules
  it; of `Exit`, because the body of a `with` block ends; strong fairness of
  `ReadCount`, as the gate is polled and its holders keep it for two file accesses, then
  sleep or leave. Nothing is assumed of `Enter`, `Crash`, `DropCount`. No fairness
  *between* readers and writers is assumed and none follows: a stream of readers starves
  a writer, so `WaiterIsAdmitted` only promises admission to a lock that stays empty.
- `PackageInstall`: weak fairness of a process's progress, a failure of the step being
  progress too. A process may wait for the package lock as long as others hold it, and
  `InstallEnds` holds because commands are finite in number and all of them release it.
- `Upload`: the client is run again and again, and the server answers. Failures are
  bounded; the properties say what happens once they stop.
- `RestClient`: weak fairness of a busy process's steps: the server answers, and whoever is
  asked for a password types something or gives up. Nothing makes a call begin, a
  connection break, or a token expire. `CallEnds` is not obvious: a login sets the count
  of passwords back and starts the call anew, and a refusal follows a login if the token
  expires at once; it holds because tokens do not expire for ever.

The other runs check safety only and assume no fairness.

## 4. Where the code and its promises part

One run is expected to be violated, by a property that quotes a comment of the code.

1. `upload_again`. One file of a recipe fails; the manifest, which is last, is sent all
   the same (`rest_client_v2.py:185-203`). The user is told to execute the upload again.
   Every later upload finds the remote manifest equal to its own (`uploader.py:363`),
   says the recipe is up to date and goes on. The file never arrives. Packages are spared
   by `is_package_snapshot_complete`; `PackageGetsThrough` shows it.

The others have a configuration beside the modules, or a change to one, that makes TLC
show them (`tlc -workers 2 -config X.cfg M`; TLC stops at the counterexample):

2. `ServerStoreAgain.cfg`, `ServerStore`. `r1` and `r2` are uploaded, then `r1` again:
   `if index:` (`revision_list.py:43`) fails for index 0, so `r1` is listed twice. Removing
   `r1` takes one entry out, and the other still says that the removed `r1` is the latest,
   though `r2` is stored.
3. `RWLockUpdate.cfg`, `RWLock`. `conan install --update` holds the write lock
   (`proxy.py:32`) when it deletes `.count` and `.count.lock` (`proxy.py:93`,
   `remover.py:35-39`). The next process finds nobody inside and is admitted: two writers
   in the export folder.
4. `PackageInstallAssert.cfg`, `PackageInstall`. One process is building; another looks
   for the folder outside the package lock (`graph_binaries.py:91`), sees the one that
   `package()` has begun to fill, finds no revision in the metadata, and the `assert` on
   line 116 fails.
5. `BuildFoldersShared.cfg`, `MCBuildFolders`. Two package ids with the same `build_id()`
   are built at once: the second finds the shared build folder dirty, since the first is
   building in it, and removes it before it takes any lock on the recipe
   (`installer.py:60`).
6. `PackageActorsExport.cfg`, `PackageActors`. After a failed build, which leaves the dirty
   flag, `conan export-pkg` succeeds without a look at the flag (`export_pkg.py:39`), and
   the next `conan install` deletes what was exported.
7. `RecipeCacheDownload.cfg`, `MCRecipeCache`. `conan download` of another revision than
   the one in the cache leaves the old exported sources beside the new recipe: the folder
   exists, so they are not fetched (`source.py:23`), although `download.py:21` says not to
   be lazy. The same happens to `install --update` with a pinned revision.
8. `RestClientAgain.cfg`, `RestClient`. A token expires between two files of a download.
   The call is repeated (`auth_manager.py:56`) and refuses the file it has downloaded
   itself (`uploader_downloader.py:155-162`).
9. `RestClientRetry.cfg`, `RestClient`. A connection breaks in the body of an upload. The
   second attempt goes on in the same iterator (`uploader_downloader.py:49-54`) and sends
   the rest of the file under the length of the whole.
10. `Fetch.cfg`, `MCFetch`, without `~resent` in `Undisturbed`. `get_package` checks one
    list of files (`remote_manager.py:136-137`) and downloads what a second one has
    (`rest_client_v2.py:112-114`). If an upload has unlinked the `.tgz` between the two,
    what is installed is two text files, and is taken for a package.

11. `GraphBuilderPrivate.cfg`, `MCGraphBuilder`. `c` requires `d/1`; `a` requires `b`,
    privately, and `d/2`, and so does `b`; the consumer requires `c`, and `a` privately.
    What `b` requires is entered into the closure of `a` over what `a` has
    (`graph_builder.py:168-170`), so that `a`'s own `d/2` is no conflict, and closing that
    diamond puts it into the consumer's closure over `d/1` (204-212). Without `b` the same
    graph ends in a conflict.

12. `GraphBinariesSkip.cfg`, `MCGraphBuilder`. The consumer requires `a`, which is in the
    cache and requires `c` privately, so that `c` is skipped (`graph_binaries.py:202-212`).
    The consumer, or what is to be built, build-requires `c`, too: this second node of the
    same package gets the binary of the first, `skip` (`graph_binaries.py:44`), and there
    is no tool. In the same run: a node that is private itself, and in the cache, skips
    what it requires privately although something else it links requires it publicly and
    may be built (`graph_binaries.py:206`). `GraphBinariesTaken.cfg`: it need not be a build
    requirement. `c` is private to `a`, and `b` requires it publicly with other options of
    what is behind it; by the default mode both are the same package, all binaries are
    there, and the second `c`, which the consumer links, is skipped as the first was.
13. `GraphBinariesFrozen.cfg`, `MCGraphBuilder`. "An option conflict while expanding the
    build_requires is impossible", says `graph_builder.py:49`, because the true options go
    upstream. What goes upstream includes the options of packages that are private to a
    requirement, and the last one wins (`options.py:607-611`): a tool is asked for an
    option of a package that is frozen with another, and the command is refused.
14. `GraphBinariesAssert.cfg`, `MCGraphBuilder`. A tool links what its user links, too, and
    build-requires it. The node is in the scope of the tool but not in its graph, and the
    assertion of `graph.py:182` ends the command.
15. `GraphBuilderLoop.cfg`, `MCGraphBuilder`. Closing a diamond brings the ancestors up to
    date in the closure of the node it is closed with (`graph_builder.py:193-196`), so not
    behind its private requirements. In the graph of `Loop`, `d` is reached there, and
    again, publicly, after `c` was overridden; it then requires `c`, which leads to it, and
    no loop is detected. The code, too, makes this graph and ends without an error. Two
    nodes of `c` are needed for that: without them it cannot happen (`LoopsAreFound`).

16. `PackageInstallTorn.cfg`, `PackageInstall`. "Check if dirty, to remove it", says
    `graph_binaries.py:67` of what an interrupted command has left. The package in the cache
    is one of another recipe revision, and carries no flag; an evaluation removes it
    (`graph_binaries.py:80`) and is interrupted after some files. Metadata and flag are as
    before. When the first recipe revision is in the cache again, the part that is left
    is taken for its package, `Already installed!`, and used. What an interrupted build
    or download leaves cannot be taken so (`PartialIsDirty`): both set the flag first.

Two more no run checks. The repair of missing indexes in `server_store.py:294` is never
reached, for the object it tests is always true. And a value that somebody asks for which
is the default is not noted as asked (`options.py:469`): the one who comes later and asks
for another gets it, without the error that the other order gives (`AskedIsGiven` says
so).

What the histories that properties exclude come to is worth knowing too. Each can be seen
by taking its name out of the property's guard:

- A transfer that breaks off while a recipe is fetched leaves a recipe without metadata if
  `conanfile.py` has come (`remote_manager.py:80-94` does not clean up): later installs
  find it, and fail, until `conan remove`.
- `conan remote add --force` of a URL that two remotes have drops both and renames the
  recorded name of one (`remote_registry.py:200-204`): recipes of the other keep a name
  that does not exist, and cannot be used with their remote any more.
- A reader that comes between `conanfile.py` and `conanmanifest.txt` of an upload keeps a
  recipe without a manifest. Its builds fail at their very end (`installer.py:140`), and
  it is never fetched again.
- `conan download`, `export-pkg` and `remove -p` that are killed leave a partial package that
  no flag marks; the next command takes it.
- Two processes that are refused at the same time lose one of two updates of the stored
  login.

- A package that is behind a private requirement and is required in another way, too:
  nodes of the private scope replace others in the closures downstream, or are missing
  from them (`PrivateApart`).

## 5. Proofs

TLAPS proves, for every value of the constants that the assumptions allow:

| Module | Theorem | States |
|---|---|---|
| `RWLockProofs` | `TypeCorrect` | `Spec => []TypeOK` |
| | `LockExcludes` | `Spec => []ExclusionWhileIntact` |
| | `CountTellsTheTruth` | `Spec => []CountIsTrue` |
| | `LockKeepsPromise` | `Spec => KeepsPromise`: `RWLock` implements `LockPromise` |
| `PackageActorsProofs` | `InstallTypeCorrect` | `Spec => []TypeOK` |
| | `PartIsMarked` | `Spec => []PartialIsDirty` |
| | `RecordIsTrue` | `Spec => []RecordedIsStored` |
| | `WholeIsUsed` | `Spec => []UsedIsWhole` |
| | `OwnBuildIsUsed` | `Spec => []OwnInstallIsUsed` |
| | `RestIsSound` | `ActorsSpec => []SoundAtRest` |
| | `ExportIsKept` | `ActorsSpec => []ExportedStays` |
| | `RemovalHeals` | `ActorsSpec => RemoveHeals` |
| `BuildFoldersProofs` | `FoldersTypeCorrect` | `Spec => []TypeOK` |
| | `PartialSourceIsMarked` | `Spec => []PartialSourceIsDirty` |
| | `SourcesStay` | `Spec => SourcesStayWhileBuilding` |
| | `GoodPackages` | `Spec => [](SourcesAreKept => PackageIsGoodAlone)` |
| | `BuildersKeepThePromise` | `Spec => Lock!PromiseSpec /\ []Promised`: `BuildFolders` keeps to `LockPromise` |
| `RecipeCacheProofs` | `RecordFits` | `Spec => []RecordFitsRecipe` |
| | `SourcesFitTheRecipe` | `Spec => []SourcesFitRecipe` |
| | `InstallAnswersWell` | `Spec => InstallGivesRecipe` |
| | `TypesAreKept` | `Spec => []TypeOK` |
| | `RecordedRemoteLeadsBack` | `Spec => []RecordedRemoteIsOrigin` |
| | `UpdatesGoForward` | `Spec => UpdateNeverGoesBack` |
| | `CommandsKeepThePromise` | `Spec => Lock!PromiseSpec`: so does `RecipeCache` |
| `RestClientProofs` | `TypeCorrect` | `Spec => []TypeOK` |
| | `NeverSpeaksForAnother` | `Spec => []SpeaksForItsUser` |
| | `SuccessIsWhole` | `Spec => DoneIsWhole` |
| | `SuccessKeepsLogin` | `Spec => LoginRemembered` |
| `UploadProofs` | `UploadTypeCorrect` | `Spec => []TypeOK` |
| | `ManifestVouches` | `Spec => []ManifestLast` |
| | `DoneIsTrue` | `Spec => []DoneIsComplete` |
| | `InstallsAreWhole` | `FetchSpec => []InstalledIsWhole` |
| | `BuildsFitSources` | `FetchSpec => []BuiltFromItsSources` |
| `ServerStoreProofs` | `PackagesStayBesideRecipe` | `Spec => []PackagesHaveRecipe` |
| | `IndexesStayInOrder` | `Spec => []IndexStaysInOrder` |
| | `NoUploadIsForgotten` | `Spec => []StoredIsListed` |
| | `NothingGoneIsListed` | `Spec => []ListedIsStored` |
| | `RemovalOfAllEnds` | `Spec => []RemoveAllGetsThrough` |
| | `StoreKeepsPromise` | `Spec => KeepsPromise`: `ServerStore` implements `RevisionStore` |
| `GraphProofs` | `ShapeHolds` | `Spec => []Shape` |
| | `RealHolds` | `Spec => []Real`: what is noted at the nodes is in the graph |
| | `NeverAFalseLoop` | `Spec => []NoFalseLoop` |
| | `RequirementsAreKept` | `Spec => []RequiresAreTheRecipes` |
| | `LoopsAreFound` | `Spec => [](Unevaluated /\ OnceEach => LoopsAreExact)` |
| | `ClosuresAreExact` | `Spec => [](AllPublic => OnceEach /\ LoopsAreExact /\ ClosureIsWhatIsLinked)` |
| | `ConsumerDecides` | `Spec => [](AllPublic => BaseDecides)` |

### The recipe lock

*Assumptions.* `ProcFinite` (a machine runs finitely many processes; needed because the
count is a cardinality), `UnreadableIsNoNumber` and `BoundsAreNaturals`.

*Argument.* Neither exclusion nor the truth of the count is inductive. A writer is
admitted because it *read* 0 some steps ago, and it matters that nobody has saved since.
The invariant `IInv` therefore says, while `intact`: whoever is at the gate has the file
open that the path names now (`GateIsCurrent`); so at most one process holds it
(`OneInGate`); so what it read is still what the file says (`SeenIsTrue`). Together with
"the count is the number of readers, or -1" and with the bookkeeping of who is inside
(`WantMatches`, `InsideIsHolder`, `IdleIsOutside`), each step preserves it:

- `Admit` finds the truth in `seen` (`AdmitFindsRoom`), so a reader finds no writer and a
  writer finds nobody; the number of readers grows by one (`CardinalityOfReaders`).
- `Leave` subtracts from the truth (`LeaveKeepsStrong`).
- `DropCount` keeps `intact` only when those inside are dead and nobody is between its
  read and its save, so that "no number" is the truth (`DropCountKeepsStrong`).
- The others leave count and holders alone (`OtherStepsKeepStrong`).
- `intact` never comes back (`PromiseIsNotRestored`).

The refinement then needs no new invariant: `Admit` is `AdmitReader` or `AdmitWriter`,
`Leave` and the sweep of the dead in `DropCount` are `Withdraw`, what ends `intact` is
`Lose`, and everything else stutters.

The modules that use the lock are held to the same promise from the other side:
`BuildersKeepThePromise` and `CommandsKeepThePromise` say that every step of `BuildFolders`
and of `RecipeCache` is one that `LockPromise` allows. In `BuildFolders` the promise is
never lost; in `RecipeCache` it is, when an update or a removal deletes the files, and is
not restored.

### The package folder

*Assumptions.* `InstallConstants` and `NoFolderIsNone` (the marker of "no folder" is not
a folder).

*What is not true.* `PartialIsDirty`, and with it `PartIsMarked` and `RestIsSound`, except
the part of a folder whose removal began while it had no flag (`torn`). There is one place
for that in `PackageInstall`, `StartPurge` of another recipe revision's package, and
finding 16 shows that the code has nothing to tell such a part by.

*Argument.* That a partial folder is dirty, and a clean one recorded, says nothing of the
moment at which `clean_dirty` takes the flag away: it needs to be known that the folder
is whole and recorded *then*. `HolderKnows` carries that knowledge from the step that
established it to the one that uses it: after `FinishPackaging` and `Unzip` the folder
is what the process made, after `RecordRevision` the record is its own, and both are
still true when it is done. `MarkedWhileFilling` says that the flag is up from `SetDirty`
to `CleanDirty`, so that no removal in between needs `torn`. No other process disturbs
this, for one process at a time is inside the package lock (`OneInside`, from `LockFits`),
an evaluation that removes a folder included. `FolderInv` is all of that. `UseInv` adds
`PartIsBeingFilled`, which `UsedIsWhole` needs: without an accident a part is there only
while somebody fills or removes it, so that whoever has the lock and skips finds none.
`NodeFits` says what decision leads to which place; the type of the folder rests on it.

### Other commands on the package folder

*Assumptions.* Those of the package folder.

*Argument.* `download`, `export-pkg` and `remove -p` break `FolderInv` at every step, and
without a lock: nothing is left of it while they run. What can be proved is that they
*restore* it, as long as nobody else is at the package (`overlap`) and none of them has
been killed and left a part (`cut`). `JobsInv` says so: while no job is under way
`FolderInv` holds; a process with a job is alone, and knows what its own steps have made
of folder, flag and record (`JobKnows`), so that its last step finds all it needs
(`EndsSound`). The installations beside them are the ones of `PackageInstall`: their
lemmas (`FolderInvStep`, `LockFitsStep`) are used as they are. `RemovalHeals` follows from
the same: a removal that ends while it is alone has left no folder, flag or record, and
`spoiled` becomes empty. `ExportInv` adds what makes an exported package stay: the folder
is whole and recorded for the recipe in the cache, and nobody who is in the middle of an
installation thinks of another recipe or is about to fill the folder.

### The build folders

*Assumption.* `BuildConstants`; nothing about how build folders are shared.

*Argument.* `HoldersFit` ties the places of the processes to the holders of the recipe
lock, and `LockExcludes` is what every step of `LockPromise` leaves: a writer is alone,
the dead included. While a live process builds it is a reader, so there is no writer, so
nobody is at a place from which the sources change (`StepKeepsSources`).

`PartialSourceIsMarked` excepts recipes with `build_policy` `always` (or an `auto` scm):
`config_source` removes their sources at every build, flag or none, and a kill in that
removal leaves a part without a flag. No build uses it, for the next one removes it again.

`GoodPackages` needs more, because the lock does not cover the build folder: it is looked
at and marked before any lock is taken, filled under one and used under another. As long
as no two processes have used one folder at a time (`OneInFolder`), `MadeSure` carries
what each has made sure of from there to its package: its folder is marked from the look
to the end of the build, what it copied is whole, a build it skips has been finished. The
sources are the one thing that others may still change between its two holdings of the
lock. They do so only if they are not whole, or if the recipe fetches them at every build.
The latter with `no_copy_source` is the case that `SourcesAreKept` excludes
(section 2): there the theorem would be false. `SourcesAreKept` speaks of the recipe,
which is chosen in `Init` and never changes.

### The recipe proxy

*Assumptions.* The first three theorems and `CommandsKeepThePromise` use none of those that
`RecipeCache` and `RemoteRegistry` declare; the others use `RecipeBounds`, `InitialRemotesAreTables` (a
remote is in `remotes.json` once) and `NoneIsNoName`.

*Argument for the recipe.* `Sound` (the metadata name the revision of the export folder,
which is whole) and `SourcesFit` are broken by every command on its way: the folder is emptied before the
remote is asked, the metadata come last. `RecipeInv` says that both hold whenever nobody
works on the recipe, and for whoever does, what of them it has left and what it has put in
their place (`Work`), as long as there was no overlap and no transfer was cut short. The
process that works is then alone, whether the lock or mere luck has kept the others away.
This part uses neither the lock nor what is in the tables of remotes: commands that
change remotes touch the recipe's metadata only in the name of the remote, and its three
theorems do not speak of it. `ShapeOK` says which fields things have, not what is in
them.

*Argument for the registry.* A table is a sequence without a name twice, and the lemmas on
tables of any length say what its entries are once some are left out (`EntriesAre`, which
rests on `RankIs`: places are numbered without a gap), one is added (`OneMore`) or replaced
(`OneReplaced`). From them `RegistryChanges` gives what every command that changes remotes
begins with: a table and moves that fit each other, so that each name that leads somewhere
today is moved to one that leads to the same place, unless the user has said otherwise
(`moved`) or two remotes became one (`dropped`).

`RegistryInv` is inductive. `TypeInv` is `TypeOK` with what a process has in memory: a
command looks for its recipe only in remotes it has loaded (`CommandOK`), a change has a
table and its moves (`ChangeOK`). `Linked` says, as long as no command ran beside a change,
that the recorded name leads to the origin of the recipe whenever no change is under way
(`Fits`); that while one is, its writes that are left will make it so (`Pending`, which is
where the order of the two writes counts); and that a command on the recipe knows the
remotes as they are. `NoOlder` says what an update that found a recipe knows at each place:
what it found is still in the folder while it compares, and from then on the revision it
will fetch is the one whose manifest it has compared (`want`), whatever the server gets
meanwhile. `NoOlder` needs `Work`: an answer comes from the metadata, which must name the
revision of the folder.

### The REST client

*Assumptions.* `SomeFiles`, `RestBounds`.

*Argument.* A token is the number of its issue, `issued` says to whom, and it only grows:
a token keeps its owner for ever, whether it is still good or not. `TypeOK` says that
every token in a session or in the database has been issued. User and token go together
wherever they go: `LogIn` writes both to session and database, `Begin` copies both from
there, what clears the token leaves none, and the repetition of a call and every other
step keep both (`AfreshIsSession`, `MovingOn`). What makes this more than bookkeeping is
that it holds although any number of processes write the database between any two steps.

`DoneIsWhole` and `LoginRemembered` are action properties of the step that ends a call.
`HasTransferred` says that the files before the next one are whole, unless one of them was
given up; a repeated call begins with the first again, which is why nothing needs to be
known of what a former attempt has left. `HasLogin` says that a process that was alone
with the remote has the login of the database, from its first step on: whatever it learns
or loses it writes to both (`AdvanceKeeps`, `TryAgainKeeps`).

### Upload, and those who install meanwhile

*Assumptions.* `UploadConstants`, and of `Fetch` none.

*Argument.* `ManifestLast` is not inductive: that the manifest is written says nothing of
the files before it, which this client sent some steps ago and others may have unlinked
since. One fact carries the proof: a file that is `There`, on the server or being
replaced, stays so whatever anybody does (`StepKeeps`), because a server that unlinks has
the new file already and writes it even when the client dies. So what a client has sent
remains sent (`Sent`: as long as none of its own requests failed, all files before the
next one are there), and when it writes the manifest, the last of them, all are
(`ManifestStep`). `IInv` adds what else a client relies on when it says "done": the
manifest of a package is looked at only when no file is missing (`Judged`), that of a
recipe was read when its files were beside it (`Relied`, which needs `ManifestLast` and
therefore that no request has failed), and a client in a run without failures has none of
its own (`Untroubled`). `OthersSound` and `ActorSound` show that each step preserves this
for those who watch and for the one who acts.

For the readers of `Fetch` (`FetchInv`) that is not enough: they ask for a file now and for
the next one later, and what they have got must still fit what is there. The two properties
say `Undisturbed`, and under it `SentOnce` holds: the files of an item are of one content,
come in the order of `Files`, and only one client is under way with them. It is so because
who begins with the first file of an item finds nothing there and nobody at it, and who
goes on has sent what is there itself (`SentOnceStep`). Then what is on the server stays,
and what is whole there stays as it is (`UploadKeepsServer`), so that whatever a reader
knows it knows later, too (`KnownStays`). `Known` says, place by place, what that is: what
it has of a file is the server's or cut; its sources are whole; from `list_package` on,
the server has every file of the package. What makes it true is the order (`BehindThem`):
behind a `conanfile.py`, even a cut one, are the sources, whole, and behind a manifest the
library and its information. So a list that lacks the sources never reaches a reader that
has a recipe (`ListSourcesMoves`), and a reader that gets past `CheckSnapshot` can get only
the manifest cut. Each step of a reader has a lemma that says it `MovesWell`.

### The server store

*Assumptions.* `RootIsNoRevision` and `NoIndexIsNoList` (the markers are no values). The
first theorem uses neither.

*Argument.* Four invariants, each of which rests on the ones before.

- `IInv`, for `PackagesHaveRecipe`. A request looks for the recipe once, when it begins
  (v2) or when it asks for URLs (v1), and stores files of the package some steps later.
  `StoresBesideRecipe` says that the recipe is there yet, from that look to the last file,
  the index updates of a v1 client between them included. It needs `OneAtATime`: as long
  as requests have not overlapped, no other worker has a job. Nothing is assumed of the
  indexes. `BusyStep`, `BeginStep` and `AtOnce` say once what a step has to show; the
  lemma of each request shows it.
- `ShapeInv`, for `IndexStaysInOrder`, which holds whatever overlaps. Not only the indexes
  are in order, but also the lists that workers have read and are about to write
  (`JobShape`): a stale list is still an ordered one, and none of its times is to come. It
  has no revision twice until the oldest one is uploaded again.
- `StoreInv`, for `StoredIsListed`, `ListedIsStored` and `RemoveAllGetsThrough`. While
  requests do not overlap, folders and indexes differ by what the request in flight has
  stored and not listed yet (`Unlisted`) or has listed, or left listed, and does not have
  stored (`Unstored`). `RequestKnows` carries what it has seen: that its index was there,
  what the list in its hands lists, and, for the removal of all, that every revision still
  to come is there, and comes once.
- `OrderInv`, for `KeepsPromise`: what the list about to be written makes of the order,
  and that a v1 client, which lists before it stores, finds its entry last.

The refinement is then a matter of which step of a request counts (`StepKeepsPromise`).
Of an upload it is `WriteIndex` (`WriteOffers`), of a v1 client `StoreFile` (`StoredSeen`;
of the others that is unseen, as the revision is not listed yet: `StoredUnseen`), of a
removal `DropFolder`, `V1PurgePackages` or the removal of all at once, because what is
listed and not stored is not offered (`DropWithdraws`, `PurgeWithdraws`,
`AtOnceWithdraws`). `UnlistWrite` and `Sweep`, which tidy the indexes, are unseen.

What `RevisionList` computes is stated once, as lemmas on lists of any length: `AddKeeps`,
`AddLists`, `RemoveKeeps`, `RemoveLists`, `AsListIs`; in terms of the order,
`AddArrives` and `RemoveWithdraws`. The first entry of a revision
(`FindRevisionIndex`) exists because a set of numbers has a least one (`LeastNumber`, from
the well-foundedness of `<` on the naturals).

### The graph

*Assumptions.* Those of `GraphBuilder`: `RootIsNoPackage`, `AllIsNoPackage`,
`VersionsAreNumbers`, and `RecipesAreSound`, which says what the code checks of a recipe or
cannot read otherwise (a package is required once, by a version or a range; an option adds
requirements in the method; nobody asks for options of himself). Nothing is assumed of the number
of packages, versions, recipes and nodes, nor that any of these is finite.

*The condition of each theorem.* The first four have none: they hold with private
requirements, overrides, options, `--update`, and in all graphs of build requirements.
`Unevaluated` means before `evaluate_graph`: the whole expansion of what the command
depends on, up to its finished graph. Of the graphs of build requirements that come after
it the properties speak, too; there they are only checked. `OnceEach` (no package has two
nodes) is a condition in `LoopsAreFound` and a result in `ClosuresAreExact`. `NothingPrivate`
says of the recipes that are in the graph that none requires anything privately; for
private requirements findings 11 and 15 show that the stronger statements are false.

*Argument.* A step changes the fields of many nodes at once, so the work is in saying what
it does to *ways*: `Leading` gives what each node leads to, by the nodes that a way may
pass through (Warshall), a function on the naturals. That it is reflexive, transitive and
the least such (`Closed`, `Least`) is proved from the well-foundedness of `<`, and from
that what is reached once a graph has one more node (`MoreNode`), or one more edge
(`MoreEdge`). Everything else uses ways by these facts.

- `Shape` says what the state is made of. Most of it is that a name in a scope leads to a
  node of that name, and that nodes are only added. With it come the lemmas that say of
  each action which node gets which fields (`AddNodeDoes`, `CloseDiamondDoes`, ...).
- `Real`: a closure, an `inverse`, the ancestors name only what the graph has a way to, or
  from. It is inductive with `Shape`, as ways are never lost (`NeverAFalseLoop`).
- `Evaluations` carries that a node has the requirements of its recipe through the times
  it is configured (`RequirementsAreKept`).
- `Ordered`, for the other half of `LoopsAreExact`. Ancestors are complete only for who is
  expanded for the first time (`IsFirst`: all that leads to it is on the stack); a node
  that is expanded again has edges for all it requires (`IsAgain`), so that what it meets
  is no loop because the graph has none (`Acyclic`), and the path on the stack is one
  (`PathHolds`). Who is not on the stack has an edge, in the right version, for each
  requirement (`Finished`); this is what `ClosureIsWhatIsLinked` later says of versions.
- `Neatness`: with nothing private, closures and inverses have *all* there is, and a node
  that is expanded for the first time has all names of the graph in scope (`Full`), which
  is why no second node is made. The step to see is `CloseDiamond`: what the closed node
  links is entered at all that depend on the one that requires it (`CloseDiamondNeat`).
- `BaseKept`: on every call at work, what the consumer requires is either on its way
  (`Carries`) or has been met above it on the stack. So what is configured obeys
  (`Obeys`), and whoever has been configured before the consumer's wish came past has the
  version, or the command is in a conflict.
- `AsksKept`: every wish of a node is granted, or a call that will bring it to the package
  is still pending (`Answered`, `Pending`): the one that `MustRecurse` adds, or a
  requirement still to be handled by a node on the stack, through which the wish will
  pass (`Passes`). When the stack is empty nothing is pending.

*What failed.* Two properties that TLC had found true on four packages were not: the
attempt to prove them gave the graphs of seven packages which `GraphBuilderLoop.cfg` and
`GraphBinariesTaken.cfg` keep. `LoopsAreExact` and `NeededIsInstalled` now say what is true
of them, and findings 12 and 15 what the code does there.

### What is only model-checked

- Liveness under fairness, and anything about ENABLED: `WaiterIsAdmitted`,
  `LeaverGetsOut`, `InstallEnds`, `CallEnds`, `PackageGetsThrough` and their like.
- `NeededIsInstalled`. What a node finds depends on what was decided on everything behind
  it, level by level (`Levels`): a function of the whole graph, defined by recursion over
  it, about which nothing can be said without induction over the graph. Where something
  is private it is not even proved that the graph has no circle (`GraphBuilderLoop.cfg`).
- Graphs in which something is private: beyond what `LoopsAreFound` says, `PrivateApart` is
  only checked. So are the graphs of build requirements, after the first evaluation.
- Recursion in the standard modules: a theorem on `SelectSeq` needs induction over the
  sequence, which is why `RemoteRegistry` does without it (section 2). That its `Entries`
  are what `SelectSeq` gives is evaluated by TLC for tables of up to three entries.

## 6. Not modelled

What the models of the parts above leave out is in section 2 and in the notes of
`PROJECT.json`. Across them:

- The server's index has a file lock of its own; it serialises single reads and writes,
  which the model has as atomic steps, so the lock is not a variable. Its file is
  deleted by nobody while requests for the reference are in flight, except with its
  folder, in which case the next writer makes it anew, as `WriteIndex` does.
- The listing of an empty folder and its deletion (`_delete_empty_dirs`) are one step. The
  deletion of a folder tree is two steps, between which it can be interrupted and seen,
  where a package is evaluated, built, downloaded or updated and where the sources of a
  build are prepared. `download`, `export-pkg` and `remove -p` may be cut short in it
  (`FailRemoval`), but another process does not see it half done: it would meet them,
  which is `overlap`. It is one step after a failed `package()` or download, where the flag
  is up, and of build folders, which are marked; of the folders of a recipe, which
  `RecipeCache` describes by the files that are looked for; and on the server, whose
  requests do not look into a folder that is being deleted, but for the races that its
  properties exclude.
- A v1 client that removes all packages of a reference, with no ids: the server then
  deletes the folder `package` of each revision, and `_delete_empty_dirs` sweeps what
  above it is empty. With ids (`V1PurgePackages`) it finds that folder and does nothing.
- An `auto` scm whose local folder is gone when the removal of its sources has been
  interrupted: in `BuildFolders` a recipe is of one kind from beginning to end.
- Contents of files are numbers. Compression, checksums and the texts themselves are not
  modelled; `Cut` is what a reader of a file gets that is being written.
- Removal of builds and sources alone (`remove -b`, `-s`), of the packages of other
  revisions after an export, and remote removal of single files.

Parts with no module:

- *Settings, `package_id()`, versions, references* (`model/`). Functions from names and
  values to a hash of texts. They share nothing and keep nothing; their difficulty is in
  the rules for texts, which a model would have to copy. Options, and which packages are
  the same in the default mode, are in `GraphBuilder` and `GraphBinaries`.
- *Recipe loader, `python_requires`, generators, build helpers, tools*. They run or write
  the text of programs: Python recipes, CMake and Make files, shells. What they do that
  others can see is inside `Build`, `Package`, `Fetch` of the modules above.
- *Search, `conan info`, recorder, tracer, hooks.* They read, or tell.
- *Command line and `conan_api.py`.* Parsing of arguments and the dispatch to commands
  whose steps are modelled one by one.
- *Server front end.* The routes to the services of `ServerStore`.
- *Configuration, profiles, `conan config install`.* Parsing and copying of files; the one
  shared file that is written, `remotes.json`, is in `RemoteRegistry` (`DefineRemotes`).
- *File copier, importer, editable packages, workspaces.* Copies and user folders, outside
  the protection of the cache.
- *Migrations.* Run once, when the version changes, before any command works.

The source these modules stand for is a small part of the repository's 38 000 lines, and
cannot be a large one. The longest files are a list of certificates (`cacert.py`, 5 700
lines), the declaration of command line arguments (1 900), the wrappers of
`conan_api.py`, generators of text, detection of compilers, wrappers of operating system
tools, and the texts of default settings. They hold no state that two steps, processes or
machines could disagree about, and no order that could go wrong; translating them would
give a second copy of the text and nothing to check.

## 7. Plan

What the modules above leave, in the order of its weight:

1. In `GraphBuilder`: aliases, what `configure()` does to options; in `GraphBinaries`: build
   requirements of profiles, which apply to tools of tools, and the other modes of package
   ids, in which an id may become unknown.
2. Proofs: `ClosureIsWhatIsLinked` for graphs in which what is private is apart; what the
   graphs of build requirements keep of the first.
3. Several packages of a recipe in one install, in the order of the graph, and the
   packages of other revisions that an export removes.
4. `remove -b`, `-s` beside a build.
