--------------------------- MODULE RemoteRegistry ---------------------------
(***************************************************************************)
(* The remotes of the local cache (conans/client/cache/remote_registry.py) *)
(* and the name of a remote in the metadata of a recipe.  A command loads  *)
(* remotes.json, changes the table in memory, and rewrites the file and    *)
(* the metadata of every recipe, one after the other and without a lock.   *)
(* RecipeCache runs these commands beside those that use the remotes.      *)
(***************************************************************************)
EXTENDS Naturals, Sequences, FiniteSets

CONSTANTS
    Proc,    \* conan processes
    Name,    \* names a remote may have
    Url,     \* servers
    None     \* no remote

ASSUME NoneIsNoName == None \notin Name

VARIABLES
    remotes,   \* remotes.json: a sequence of names with their URL
    meta,      \* metadata.json of the recipe: revision (0 for None) and remote
    session    \* what each process has in memory

NoMeta == [file |-> "none"]   \* there is no metadata.json

Remote(n, u) == [name |-> n, url |-> u]
Names(table) == {table[i].name : i \in DOMAIN table}
UrlOf(table, n) == (CHOOSE r \in {table[i] : i \in DOMAIN table} : r.name = n).url
HasUrl(table, u) == \E i \in DOMAIN table : table[i].url = u

\* What remotes.json holds: a name is there once.
Entry == [name : Name, url : Url]
IsTable(table) ==
    /\ table \in Seq(Entry)
    /\ \A i, j \in DOMAIN table : table[i].name = table[j].name => i = j

\* The entries at these places, in their order.
UpTo(places, i) == {j \in places : j <= i}
Entries(table, places) ==
    [n \in 1..Cardinality(places) |->
       table[CHOOSE i \in places : Cardinality(UpTo(places, i)) = n]]
Without(table, n) == Entries(table, {i \in DOMAIN table : table[i].name # n})

Idle == [step |-> "idle"]
Finish(p) == session' = [session EXCEPT ![p] = Idle]

\* Every recorded name stays, except as given.
Keep == [n \in Name |-> n]

\* A command has its new table; `todo' are the writes left, in the order of the code,
\* and `move' tells what becomes of a name in the metadata.
Change(p, table, move, todo) ==
    session' = [session EXCEPT ![p] =
                  [step |-> Head(todo), rest |-> Tail(todo), table |-> table, move |-> move]]
----------------------------------------------------------------------------
(* add, update: the same URL twice is refused, unless a position is given. *)

Placed(table, r, inFront) ==
    IF inFront THEN <<r>> \o Without(table, r.name)
    ELSE IF r.name \in Names(table)
         THEN [i \in DOMAIN table |-> IF table[i].name = r.name THEN r ELSE table[i]]
         ELSE Append(table, r)

AddRemote(p) ==
    \E n \in Name \ Names(remotes), u \in Url, inFront \in BOOLEAN :
        /\ inFront \/ ~HasUrl(remotes, u)
        /\ Change(p, Placed(remotes, Remote(n, u), inFront), Keep, <<"save">>)
UpdateRemote(p) ==
    \E n \in Names(remotes), u \in Url, inFront \in BOOLEAN :
        /\ inFront \/ ~HasUrl(remotes, u)
        /\ Change(p, Placed(remotes, Remote(n, u), inFront), Keep, <<"save">>)

ForceForAll(p) ==
    \E n \in Name, u \in Url :
        LET left == {i \in DOMAIN remotes : remotes[i].name # n /\ remotes[i].url # u}
        IN  Change(p, Append(Entries(remotes, left), Remote(n, u)), [m \in Name |-> n],
                   <<"save", "sweep">>)
\* add --force (_upsert): every other remote with this URL goes; the recipes of the
\* last of them, the only one it remembers, are of the new remote now.
ForceRemote(p) ==
    \E n \in Name, u \in Url :
        LET others == {i \in DOMAIN remotes : remotes[i].name # n}
            sameUrl == {i \in others : remotes[i].url = u}
            last == CHOOSE i \in sameUrl : \A j \in sameUrl : j <= i
            table == Append(Entries(remotes, others \ sameUrl), Remote(n, u))
        IN  IF sameUrl = {}
            THEN Change(p, table, Keep, <<"save">>)
            ELSE Change(p, table, [Keep EXCEPT ![remotes[last].name] = n],
                        <<"save", "sweep">>)
----------------------------------------------------------------------------
(* remove, rename, clear, define: the metadata first, then the file. *)

RemoveRemote(p) ==
    \E n \in Names(remotes) :
        Change(p, Without(remotes, n), [Keep EXCEPT ![n] = None], <<"sweep", "save">>)

RenameRemote(p) ==
    \E from \in Names(remotes), to \in Name \ Names(remotes) :
        Change(p, [i \in DOMAIN remotes |->
                     IF remotes[i].name = from THEN [remotes[i] EXCEPT !.name = to]
                     ELSE remotes[i]],
               [Keep EXCEPT ![from] = to], <<"sweep", "save">>)

ClearRemotes(p) ==
    Change(p, <<>>, [n \in Name |-> None], <<"sweep", "save">>)

\* `conan config install' of a remotes.txt.
DefineRemotes(p) ==
    \E n \in Name, u \in Url :
        Change(p, <<Remote(n, u)>>, [m \in Name |-> IF m = n THEN n ELSE None],
               <<"sweep", "save">>)

RegistryCommand(p) ==
    \/ AddRemote(p) \/ UpdateRemote(p) \/ ForceRemote(p)
    \/ RemoveRemote(p) \/ RenameRemote(p) \/ ClearRemotes(p) \/ DefineRemotes(p)

Continue(p) ==
    IF session[p].rest = <<>> THEN Finish(p)
    ELSE session' = [session EXCEPT ![p].step = Head(session[p].rest), ![p].rest = Tail(@)]

SaveRemotes(p) ==
    /\ session[p].step = "save"
    /\ remotes' = session[p].table
    /\ Continue(p)
    /\ UNCHANGED meta

\* update_metadata of the recipe, if it has a folder in the cache: it makes a
\* metadata.json where there is none.
SweepMetadata(p, inCache) ==
    /\ session[p].step = "sweep"
    /\ meta' = CASE ~inCache -> meta
                 [] inCache /\ meta = NoMeta -> [rev |-> 0, remote |-> None]
                 [] OTHER -> [meta EXCEPT !.remote =
                                IF @ = None THEN None ELSE session[p].move[@]]
    /\ Continue(p)
    /\ UNCHANGED remotes

InRegistry(p) == session[p].step \in {"save", "sweep"}
=============================================================================
