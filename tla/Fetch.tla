------------------------------- MODULE Fetch -------------------------------
(***************************************************************************)
(* Other clients that install, with --build missing, what the clients of   *)
(* Upload are uploading.  A revision can be resolved as soon as its first  *)
(* file is stored (service_v2.py 42, 113), and every request of a reader   *)
(* sees the server as it is by then: the list of files, asked for anew by  *)
(* each call, and then file after file.                                    *)
(***************************************************************************)
EXTENDS Upload

CONSTANTS
    Reader,
    MaxFetches   \* bound: installations

ASSUME FetchConstants ==
    IsFiniteSet(Reader) /\ Reader \cap Client = {} /\ MaxFetches \in Nat

VARIABLES
    step,      \* where each reader is
    todo,      \* the listed files it has still to get
    got,       \* the files in its cache: a content, 0, Cut or NoSources
    ended,     \* how its last installation ended
    fetches,
    opened,    \* uploads whose file the server has made, and is writing
    resent     \* a file has been sent again while it was there (history)

reading == <<step, todo, got, ended, fetches>>
allVars == <<vars, reading, opened, resent>>

Cut == -1         \* read while the server was writing it
NoSources == -2   \* the empty folder made for a recipe that lists no sources

FetchInit ==
    /\ Init
    /\ step = [r \in Reader |-> "idle"]
    /\ todo = [r \in Reader |-> {}]
    /\ got = [r \in Reader |-> [i \in Item |-> [f \in FileNames(i) |-> 0]]]
    /\ ended = [r \in Reader |-> "none"]
    /\ fetches = 0 /\ opened = {} /\ resent = FALSE

\* What a request finds: a file that is being written is there, and cut.
OnServer(i, f) ==
    IF stored[i][f] = 0 /\ \E c \in opened : item[c] = i /\ Current(c) = f
    THEN Cut ELSE stored[i][f]
Listing(i) == {f \in FileNames(i) : OnServer(i, f) # 0}
\* _download_and_save_files: sorted by name, in reverse.
NextFile(i, left) ==
    LET n == CHOOSE n \in DOMAIN Files(i) :
               Files(i)[n] \in left /\ \A m \in DOMAIN Files(i) : Files(i)[m] \in left => m <= n
    IN  Files(i)[n]

Goes(r, from, to) == step[r] = from /\ step' = [step EXCEPT ![r] = to]
Ends(r, how) ==
    /\ step' = [step EXCEPT ![r] = "idle"]
    /\ ended' = [ended EXCEPT ![r] = how]
    /\ todo' = [todo EXCEPT ![r] = {}]
WithoutFiles(r, i) ==
    [got EXCEPT ![r][i] = [f \in FileNames(i) |-> IF f = "sources" THEN @[f] ELSE 0]]
----------------------------------------------------------------------------
\* `conan install --build missing'.  ConanProxy: a conanfile.py in the cache will do; for
\* a download the export folder is emptied.
Install(r) ==
    /\ step[r] = "idle" /\ fetches < MaxFetches /\ fetches' = fetches + 1
    /\ ended' = [ended EXCEPT ![r] = "none"]
    /\ IF got[r]["recipe"]["conanfile"] # 0
       THEN Goes(r, "idle", "info") /\ UNCHANGED got
       ELSE Goes(r, "idle", "list_recipe") /\ got' = WithoutFiles(r, "recipe")
    /\ UNCHANGED todo

\* get_recipe, get_package, get_recipe_sources: the list of files; 404 for an empty one.
List(r, i, from, to, wanted) ==
    /\ step[r] = from
    /\ IF Listing(i) = {}
       THEN Ends(r, "failed")
       ELSE /\ todo' = [todo EXCEPT ![r] = Listing(i) \cap wanted]
            /\ Goes(r, from, to)
            /\ UNCHANGED ended
    /\ UNCHANGED <<got, fetches>>
ListRecipe(r) ==
    List(r, "recipe", "list_recipe", "get_recipe", FileNames("recipe") \ {"sources"})
ListPackage(r) ==
    List(r, "package", "list_package", "get_package", FileNames("package"))

\* A file that is no longer there (404) ends the command; what has come stays.
GetFile(r, i, at) ==
    /\ step[r] = at /\ todo[r] # {}
    /\ LET file == NextFile(i, todo[r])
           content == OnServer(i, file)
       IN  IF content = 0
           THEN Ends(r, "failed") /\ UNCHANGED got
           ELSE /\ got' = [got EXCEPT ![r][i][file] = content]
                /\ todo' = [todo EXCEPT ![r] = @ \ {file}]
                /\ UNCHANGED <<step, ended>>
    /\ UNCHANGED fetches
GetRecipeFile(r) == GetFile(r, "recipe", "get_recipe")
GetPackageFile(r) == GetFile(r, "package", "get_package")
GetSources(r) == GetFile(r, "recipe", "get_sources")

\* unzip_and_get_files removes the folder if the tgz is cut, and asks for none.
UnzipRecipe(r) ==
    /\ step[r] = "get_recipe" /\ todo[r] = {}
    /\ CASE got[r]["recipe"]["export"] = Cut ->
              Ends(r, "failed") /\ got' = WithoutFiles(r, "recipe")
         [] got[r]["recipe"]["conanfile"] = 0 -> Ends(r, "failed") /\ UNCHANGED got
         [] OTHER -> Goes(r, "get_recipe", "info") /\ UNCHANGED <<todo, got, ended>>
    /\ UNCHANGED fetches

\* GraphBinariesAnalyzer: is the conaninfo.txt of the package there?
AskInfo(r) ==
    /\ Goes(r, "info", IF OnServer("package", "info") = 0 THEN "list_sources"
                       ELSE "snapshot")
    /\ UNCHANGED <<todo, got, ended, fetches>>

AskNothing(r) ==
    /\ Goes(r, "snapshot", "list_package")
    /\ got' = WithoutFiles(r, "package")
    /\ UNCHANGED <<todo, ended, fetches>>
\* RemoteManager.get_package empties the folder and asks for a first list, to see that
\* nothing is missing; get_package of the client will ask for another.
CheckSnapshot(r) ==
    /\ step[r] = "snapshot"
    /\ got' = WithoutFiles(r, "package")
    /\ IF Listing("package") = FileNames("package")
       THEN Goes(r, "snapshot", "list_package") /\ UNCHANGED <<todo, ended>>
       ELSE Ends(r, "failed")
    /\ UNCHANGED fetches

UnzipPackage(r) ==
    /\ step[r] = "get_package" /\ todo[r] = {}
    /\ IF got[r]["package"]["package"] = Cut
       THEN Ends(r, "failed") /\ got' = WithoutFiles(r, "package")
       ELSE Ends(r, "installed") /\ UNCHANGED got
    /\ UNCHANGED fetches

\* complete_recipe_sources trusts the folder, if there is one.
SourcesThere(r) ==
    /\ got[r]["recipe"]["sources"] # 0
    /\ Goes(r, "list_sources", "build")
    /\ UNCHANGED <<todo, got, ended, fetches>>
ListSources(r) ==
    /\ step[r] = "list_sources" /\ got[r]["recipe"]["sources"] = 0
    /\ CASE Listing("recipe") = {} -> Ends(r, "failed") /\ UNCHANGED got
         [] Listing("recipe") # {} /\ "sources" \notin Listing("recipe") ->
              /\ got' = [got EXCEPT ![r]["recipe"]["sources"] = NoSources]
              /\ Goes(r, "list_sources", "build") /\ UNCHANGED <<todo, ended>>
         [] OTHER -> /\ todo' = [todo EXCEPT ![r] = {"sources"}]
                     /\ Goes(r, "list_sources", "get_sources")
                     /\ UNCHANGED <<got, ended>>
    /\ UNCHANGED fetches
UnzipSources(r) ==
    /\ step[r] = "get_sources" /\ todo[r] = {}
    /\ IF got[r]["recipe"]["sources"] = Cut
       THEN Ends(r, "failed") /\ got' = [got EXCEPT ![r]["recipe"]["sources"] = 0]
       ELSE Goes(r, "get_sources", "build") /\ UNCHANGED <<todo, got, ended>>
    /\ UNCHANGED fetches

\* build_package reads the recipe's manifest at its end.
Build(r) ==
    /\ step[r] = "build"
    /\ Ends(r, IF got[r]["recipe"]["manifest"] = 0 THEN "failed" ELSE "built")
    /\ UNCHANGED <<got, fetches>>

Read(r) ==
    \/ Install(r)
    \/ ListRecipe(r) \/ GetRecipeFile(r) \/ UnzipRecipe(r) \/ AskInfo(r)
    \/ CheckSnapshot(r) \/ ListPackage(r) \/ GetPackageFile(r) \/ UnzipPackage(r)
    \/ SourcesThere(r) \/ ListSources(r) \/ GetSources(r) \/ UnzipSources(r) \/ Build(r)

\* A client begins to write a file that is there, or that another one is writing.
SendsAgain ==
    \E c \in Client :
        /\ pc[c] = "send" /\ pc'[c] = "put"
        /\ stored[item[c]][Current(c)] # 0 \/ BeingReplaced(item[c], Current(c))

\* FileUpload.save: the server has made the file, and it grows.
OpenFile(c) ==
    /\ pc[c] = "put" /\ c \notin opened
    /\ opened' = opened \union {c}
    /\ UNCHANGED <<vars, reading, resent>>

UploadGoesOn ==
    /\ Next
    /\ opened' = {c \in opened : pc'[c] = "put"}
    /\ resent' = (resent \/ SendsAgain)
    /\ UNCHANGED reading

FetchNext ==
    \/ UploadGoesOn
    \/ \E c \in Client : OpenFile(c)
    \/ \E r \in Reader : Read(r) /\ UNCHANGED <<vars, opened, resent>>

FetchSpec == FetchInit /\ [][FetchNext]_allVars
----------------------------------------------------------------------------
Undisturbed == failures = 0 /\ ~resent

\* Although a revision can be resolved when its first file is there, whoever installs
\* its package gets the library and the information about it, whole, and a manifest (cut
\* short, if the server was writing it).
InstalledIsWhole ==
    Undisturbed => \A r \in Reader : ended[r] = "installed" =>
        /\ got[r]["package"]["package"] > 0 /\ got[r]["package"]["info"] > 0
        /\ got[r]["package"]["manifest"] # 0

\* ... and whoever builds it has the sources of the recipe it has: complete_recipe_sources
\* never takes a recipe that is being uploaded for one without sources.
BuiltFromItsSources ==
    Undisturbed => \A r \in Reader : ended[r] = "built" =>
        /\ got[r]["recipe"]["sources"] > 0
        /\ got[r]["recipe"]["conanfile"] \in {Cut, got[r]["recipe"]["sources"]}
=============================================================================
