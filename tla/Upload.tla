------------------------------ MODULE Upload ------------------------------
(***************************************************************************)
(* Clients that run `conan upload' of the same recipe revision and of one  *)
(* of its packages to the same server, over REST v2.  Every answer of the  *)
(* server is a step; the files are sent one by one, in the order of their  *)
(* names, and a file that could not be sent does not stop the others.      *)
(***************************************************************************)
EXTENDS Integers, Sequences, FiniteSets

CONSTANTS
    Client,
    Content,      \* the content of each client's recipe, newer is greater
    Policy,       \* the options each client may be run with, see Policies
    MaxFailures,  \* bound: requests that fail
    MaxStops      \* bound: clients killed, or refused, half-way

Policies == {"none", "force", "no-overwrite", "no-overwrite-recipe", "skip"}

ASSUME UploadConstants ==
    /\ IsFiniteSet(Client)
    /\ Content \in [Client -> Nat \ {0}] /\ Policy \in [Client -> SUBSET Policies]
    /\ {MaxFailures, MaxStops} \subseteq Nat

Item == {"recipe", "package"}
FilesReversed(i) ==
    IF i = "recipe" THEN <<"manifest", "conanfile", "sources", "export">>
                    ELSE <<"manifest", "info", "package">>
\* conan_export.tgz, conan_sources.tgz, conanfile.py, conanmanifest.txt;
\* conan_package.tgz, conaninfo.txt, conanmanifest.txt: as sorted() puts them.
Files(i) ==
    IF i = "recipe" THEN <<"export", "sources", "conanfile", "manifest">>
                    ELSE <<"package", "info", "manifest">>
FileNames(i) == {Files(i)[n] : n \in DOMAIN Files(i)}

VARIABLES
    stored,    \* the content of each file on the server, 0 for no file
    pc,
    policy,    \* the policy of the command that runs
    item,      \* what the client uploads now: the recipe, then the package
    seen,      \* the remote manifest it has read, 0 for None
    next,      \* the file to send next
    failed,    \* has it failed to send one?
    outcome,   \* how its last upload of each item ended
    failures, stops

vars == <<stored, pc, policy, item, seen, next, failed, outcome, failures,
          stops>>

Init ==
    /\ stored = [i \in Item |-> [f \in FileNames(i) |-> 0]]
    /\ pc = [c \in Client |-> "idle"]
    /\ policy = [c \in Client |-> "none"]
    /\ item = [c \in Client |-> "recipe"]
    /\ seen = [c \in Client |-> 0]
    /\ next = [c \in Client |-> 1]
    /\ failed = [c \in Client |-> FALSE]
    /\ outcome = [c \in Client |-> [i \in Item |-> "none"]]
    /\ failures = 0 /\ stops = 0

\* A package revision is the hash of its manifest: its content is given.
Local(c) == IF item[c] = "recipe" THEN Content[c] ELSE 1
Manifest(i) == stored[i]["manifest"]
NothingStored(i) == \A f \in FileNames(i) : stored[i][f] = 0
AllStored(i) == \A f \in FileNames(i) : stored[i][f] # 0

GoTo(c, to) == pc' = [pc EXCEPT ![c] = to]

\* The command ends; every local of it is gone.
Stop(c, how) ==
    /\ GoTo(c, "idle")
    /\ policy' = [policy EXCEPT ![c] = "none"]
    /\ item' = [item EXCEPT ![c] = "recipe"]
    /\ seen' = [seen EXCEPT ![c] = 0]
    /\ next' = [next EXCEPT ![c] = 1]
    /\ failed' = [failed EXCEPT ![c] = FALSE]
    /\ outcome' = [outcome EXCEPT ![c][item[c]] = how]

\* The item is on the server, for all the client knows: on to the next one.
Done(c) ==
    IF item[c] = "package" THEN Stop(c, "done")
    ELSE /\ GoTo(c, "snapshot")
         /\ item' = [item EXCEPT ![c] = "package"]
         /\ seen' = [seen EXCEPT ![c] = 0]
         /\ next' = [next EXCEPT ![c] = 1]
         /\ failed' = [failed EXCEPT ![c] = FALSE]
         /\ outcome' = [outcome EXCEPT ![c]["recipe"] = "done"]
         /\ UNCHANGED policy

SendAll(c) ==
    /\ GoTo(c, "send")
    /\ UNCHANGED <<policy, item, seen, next, failed, outcome>>

Begin(c) ==
    /\ pc[c] = "idle"
    /\ GoTo(c, "date")
    /\ \E how \in Policy[c] : policy' = [policy EXCEPT ![c] = how]
    /\ outcome' = [outcome EXCEPT ![c] = [i \in Item |-> "none"]]
    /\ UNCHANGED <<stored, item, seen, next, failed, failures, stops>>

\* _check_recipe_date, and the end of it all for --skip-upload.
CheckDate(c) ==
    /\ pc[c] = "date"
    /\ LET there == IF policy[c] = "force" THEN 0 ELSE Manifest("recipe")
       IN  CASE there > Content[c] -> Stop(c, "failed")
             [] there <= Content[c] /\ policy[c] = "skip" -> Stop(c, "none")
             [] OTHER -> /\ GoTo(c, "snapshot")
                         /\ seen' = [seen EXCEPT ![c] = there]
                         /\ UNCHANGED <<policy, item, next, failed, outcome>>
    /\ UNCHANGED <<stored, failures, stops>>

NothingIsIncomplete(c) == FALSE
\* is_package_snapshot_complete; a recipe's snapshot has no such test.
Incomplete(c) == item[c] = "package" /\ ~AllStored("package")

\* _recipe_files_to_upload, _package_files_to_upload: what is there already?
TakeSnapshot(c) ==
    /\ pc[c] = "snapshot"
    /\ IF policy[c] = "force" \/ NothingStored(item[c]) \/ Incomplete(c)
       THEN SendAll(c)
       ELSE /\ GoTo(c, IF seen[c] = 0 THEN "manifest" ELSE "compare")
            /\ UNCHANGED <<policy, item, seen, next, failed, outcome>>
    /\ UNCHANGED <<stored, failures, stops>>

\* `The weird scenario': a snapshot with files in it, but no manifest yet.
\* There is none now either: upload everything; a package gives up.
GetManifest(c) ==
    /\ pc[c] = "manifest"
    /\ IF Manifest(item[c]) # 0
       THEN /\ seen' = [seen EXCEPT ![c] = Manifest(item[c])]
            /\ GoTo(c, "compare")
            /\ UNCHANGED <<policy, item, next, failed, outcome>>
       ELSE IF item[c] = "recipe" THEN SendAll(c) ELSE Stop(c, "failed")
    /\ UNCHANGED <<stored, failures, stops>>

ForbiddenOverwrite(c) ==
    \/ policy[c] = "no-overwrite"
    \/ policy[c] = "no-overwrite-recipe" /\ item[c] = "recipe"

Compare(c) ==
    /\ pc[c] = "compare"
    /\ CASE seen[c] = Local(c) -> Done(c)   \* `up to date, upload skipped'
         [] seen[c] # Local(c) /\ ForbiddenOverwrite(c) -> Stop(c, "failed")
         [] OTHER -> SendAll(c)
    /\ UNCHANGED <<stored, failures, stops>>

---------------------------------------------------------------------------
(* _upload_files, and _upload_to_path in the server. *)

Current(c) == Files(item[c])[next[c]]
Sending(c) == pc[c] = "send" /\ next[c] <= Len(Files(item[c]))

PutUnlinkFolder(c) ==
    /\ Sending(c)
    /\ stored' = [stored EXCEPT ![item[c]] = [f \in FileNames(item[c]) |-> 0]]
    /\ GoTo(c, "put")
    /\ UNCHANGED <<policy, item, seen, next, failed, outcome, failures, stops>>
\* The request is there, body and all: the server unlinks the old file.  It
\* takes a package's file only when the recipe has a folder.
PutUnlink(c) ==
    /\ Sending(c)
    /\ item[c] = "package" => ~NothingStored("recipe")
    /\ stored' = [stored EXCEPT ![item[c]][Current(c)] = 0]
    /\ GoTo(c, "put")
    /\ UNCHANGED <<policy, item, seen, next, failed, outcome, failures, stops>>

\* It writes the new one; its answer may still be lost on the way.
PutSave(c) ==
    /\ pc[c] = "put"
    /\ stored' = [stored EXCEPT ![item[c]][Current(c)] = Local(c)]
    /\ GoTo(c, "send")
    /\ next' = [next EXCEPT ![c] = next[c] + 1]
    /\ \/ UNCHANGED <<failed, failures>>
       \/ /\ failures < MaxFailures
          /\ failures' = failures + 1
          /\ failed' = [failed EXCEPT ![c] = TRUE]
    /\ UNCHANGED <<policy, item, seen, outcome, stops>>

\* Every retry of this file fails: it is noted, and the next one is sent.
PutFail(c) ==
    /\ Sending(c)
    /\ failures < MaxFailures
    /\ failures' = failures + 1
    /\ failed' = [failed EXCEPT ![c] = TRUE]
    /\ next' = [next EXCEPT ![c] = next[c] + 1]
    /\ UNCHANGED <<stored, pc, policy, item, seen, outcome, stops>>

\* Not authorised any more: this one ends the command at once.
PutForbidden(c) ==
    /\ Sending(c) /\ stops < MaxStops
    /\ stops' = stops + 1
    /\ Stop(c, "failed")
    /\ UNCHANGED <<stored, failures>>

FinishIgnoringFailures(c) ==
    /\ pc[c] = "send" /\ ~Sending(c)
    /\ Done(c)
    /\ UNCHANGED <<stored, failures, stops>>
\* All files tried.  `Execute upload again to retry upload the failed files'.
Finish(c) ==
    /\ pc[c] = "send" /\ ~Sending(c)
    /\ IF failed[c] THEN Stop(c, "failed") ELSE Done(c)
    /\ UNCHANGED <<stored, failures, stops>>

\* The client is killed; the server still finishes what it has received.
Crash(c) ==
    /\ pc[c] # "idle" /\ stops < MaxStops
    /\ stops' = stops + 1
    /\ stored' = IF pc[c] = "put"
                 THEN [stored EXCEPT ![item[c]][Current(c)] = Local(c)]
                 ELSE stored
    /\ Stop(c, "failed")
    /\ UNCHANGED failures

Upload(c) ==
    \/ CheckDate(c) \/ TakeSnapshot(c) \/ GetManifest(c) \/ Compare(c)
    \/ PutUnlink(c) \/ PutSave(c) \/ Finish(c)

Next ==
    \E c \in Client :
        Begin(c) \/ Upload(c) \/ PutFail(c) \/ PutForbidden(c) \/ Crash(c)

\* Every client is run again and again, and the server answers.
Fairness == \A c \in Client : WF_vars(Begin(c)) /\ WF_vars(Upload(c))
Spec == Init /\ [][Next]_vars
FairSpec == Spec /\ Fairness

---------------------------------------------------------------------------
\* Every variable holds what the code keeps in it.
TypeOK ==
    LET Contents == {0, 1} \union {Content[c] : c \in Client}
    IN  /\ DOMAIN stored = Item
        /\ \A i \in Item : stored[i] \in [FileNames(i) -> Contents]
        /\ pc \in [Client -> {"idle", "date", "snapshot", "manifest", "compare", "send", "put"}]
        /\ policy \in [Client -> Policies]
        /\ item \in [Client -> Item] /\ seen \in [Client -> Contents]
        /\ next \in [Client -> 1..5]
        /\ \A c \in Client : next[c] \in 1..(Len(Files(item[c])) + 1)
        /\ \A c \in Client : pc[c] = "put" => next[c] \in DOMAIN Files(item[c])
        /\ failed \in [Client -> BOOLEAN]
        /\ outcome \in [Client -> [Item -> {"none", "done", "failed"}]]
        /\ {failures, stops} \subseteq Nat

\* A file that is being replaced at this moment will be there again.
BeingReplaced(i, f) ==
    \E c \in Client : pc[c] = "put" /\ item[c] = i /\ Current(c) = f
Complete(i) == \A f \in FileNames(i) : stored[i][f] # 0 \/ BeingReplaced(i, f)

\* rest_client_v2.py 178: the other files are uploaded before the manifest, so
\* that a manifest on the server vouches for them, whatever clients overlap or
\* die.  A request that fails breaks it (see RecipeGetsThrough).
ManifestLast ==
    failures = 0 => \A i \in Item : Manifest(i) # 0 => Complete(i)

\* A client that was told its recipe is uploaded, or up to date, can rely on
\* all of its files being there, as long as no request has failed; of a package
\* even after failed requests of any client, because its snapshot is tested for
\* missing files before its manifest is trusted.
DoneIsComplete ==
    \A c \in Client :
        /\ outcome[c]["recipe"] = "done" /\ failures = 0 => Complete("recipe")
        /\ outcome[c]["package"] = "done" => Complete("package")

\* `Execute upload again to retry upload the failed files' (rest_client_v2.py
\* 202): clients that keep uploading get a package whole, once failures stop.
PackageGetsThrough == <>[]Complete("package")

\* The same of the recipe: does not hold, see the README.
RecipeGetsThrough == <>[]Complete("recipe")
===========================================================================
