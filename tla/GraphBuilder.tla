---------------------------- MODULE GraphBuilder ----------------------------
(***************************************************************************)
(* How one command computes the graph of its dependencies                  *)
(* (client/graph/graph_builder.py, model/requires.py, model/options.py,    *)
(* range_resolver.py): depth first, one requirement after the other, in    *)
(* the order of the recipes.  What is where in the graph is kept at every  *)
(* node and updated on the way: the ancestors, which detect loops, the     *)
(* names in scope, which detect conflicts, and the closure, which is what  *)
(* the node links.  A package has at most one option, which whoever        *)
(* requires it may ask for, by its name or for all packages.  Build        *)
(* requirements are expanded here, too; GraphBinaries says when.  What     *)
(* recipes do to options in configure(), aliases, recipe revisions and     *)
(* packages in editable mode are left out.                                 *)
(***************************************************************************)
EXTENDS Naturals, Sequences, SequencesExt, FiniteSetsExt, Functions, TLC

CONSTANTS
    Name,        \* packages
    Root,        \* the consumer: a conanfile, a reference, nobody's requirement
    Published,   \* the versions there are of each package in the remotes
    Worlds,      \* by name: the recipes each package may have, the versions there may be
                 \* in the cache at first, and whether the command may be given --update
    All          \* "*", which asks for an option of all packages

ASSUME RootIsNoPackage == Root \notin Name
ASSUME AllIsNoPackage == All \notin Name \union {Root}
Requirements ==
    [name : Name, version : Nat, range : SUBSET (Nat \ {0}), private : BOOLEAN,
     override : BOOLEAN, build : {FALSE}]
\* A recipe requires a package once, in a version or a range; what it requires for an
\* option it requires in the method; and it asks for options of others.
SoundRecipe(n, recipe) ==
    /\ {recipe.requires, recipe.optional, recipe.tools} \subseteq Seq(Requirements)
    /\ LET all == recipe.requires \o recipe.optional
       IN  \A i, j \in DOMAIN all : /\ all[i].version = 0 => all[i].range # {}
                                    /\ all[i].name = all[j].name => i = j
    /\ recipe.method \/ recipe.optional = <<>>
    /\ DOMAIN recipe.asks \subseteq (Name \union {All}) \ {n}
ASSUME RecipesAreSound ==
    \A w \in DOMAIN Worlds : \A n \in Name \union {Root} :
        \A recipe \in Worlds[w].recipes[n] : SoundRecipe(n, recipe)
ASSUME VersionsAreNumbers == Published \in [Name -> SUBSET (Nat \ {0})]

VARIABLES
    world,       \* which of them it is
    update,      \* whether the command was given --update
    cached,      \* versions in the cache
    recipes,     \* the recipes loaded so far, of each name and version
    nodes,       \* the graph: its nodes in the order they were made
    stack,       \* calls of _load_deps in progress, the last one on top
    outside,     \* nodes that are not in the DepsGraph at work
    outcome      \* "loading", "done", or why the command ended

loadVars == <<world, update, cached, recipes, nodes, stack, outside, outcome>>

\* Version 0: a range, not resolved yet.  An exact requirement has no range.
Requirement(n, v, range, private, override) ==
    [name |-> n, version |-> v, range |-> range, private |-> private,
     override |-> override, build |-> FALSE]

Empty == [n \in {} |-> 0]
\* Functions from names, some of which are replaced.
With(f, n, x) == [m \in DOMAIN f \union {n} |-> IF m = n THEN x ELSE f[m]]
Merge(f, g) == [m \in DOMAIN f \union DOMAIN g |-> IF m \in DOMAIN g THEN g[m] ELSE f[m]]

\* Requirements by name, in the order of the recipe; those in the attribute `requires',
\* or those that the method requirements() adds, which may add more for the option.
Requires(recipe, option) ==
    recipe.requires \o IF option = 2 THEN recipe.optional ELSE <<>>

\* Option 0: it has no value, or there is no such option, when it may have none.  What
\* it asks of others is a function; `changed' are the names for which downstream has
\* changed that.
Node(n, v, recipe, ancestors) ==
    [name |-> n, version |-> v, recipe |-> recipe, requires |-> recipe.requires,
     option |-> recipe.default, modified |-> FALSE, asks |-> recipe.asks, changed |-> {},
     frozen |-> FALSE, evaluated |-> FALSE, ancestors |-> ancestors, deps |-> Empty,
     closure |-> Empty, inverse |-> {}, private |-> FALSE, build |-> FALSE, edges |-> <<>>]

\* Before a node is configured; and while its requirements are expanded, with what goes
\* upstream from it.
Call(id, down) == [step |-> "config", node |-> id, reqs |-> down]
Expansion(id, reqs, asks, left) ==
    [step |-> "expand", node |-> id, reqs |-> reqs, asks |-> asks, left |-> left]

LoadInit ==
    /\ world \in DOMAIN Worlds
    /\ update \in Worlds[world].update
    /\ cached \in Worlds[world].caches
    /\ \E r \in Worlds[world].recipes[Root] :
         /\ recipes = With(Empty, <<Root, 0>>, r)
         /\ nodes = <<[Node(Root, 0, r, {}) EXCEPT !.deps = With(Empty, Root, 1),
                                                  !.closure = With(Empty, Root, 1)]>>
    /\ stack = <<Call(1, Empty)>>
    /\ outside = {}
    /\ outcome = "loading"

Top == stack[Len(stack)]
Here == nodes[Top.node]
Parent == {Here.name}
\* What is on the way to the node, and what it requires gets for ancestors.
Ancestry == Here.ancestors \union {Here.name}
At(id) == {nodes[id].closure[n] : n \in DOMAIN nodes[id].closure}
Stop(how) == outcome' = how /\ UNCHANGED <<world, update, cached, recipes, nodes, stack, outside>>
----------------------------------------------------------------------------
(* _config_node and _resolve_deps. *)

\* Requirements.update: what downstream wants of a public requirement overrides it.
Overridden(r, down) ==
    IF ~r.private /\ r.name \in DOMAIN down THEN [r EXCEPT !.version = down[r.name].version]
    ELSE r

\* RangeResolver.resolve: a version that came from downstream must be in the range;
\* else the greatest in the range, of the cache if it has one, or of the remotes first
\* with --update.
Best(versions) == IF versions = {} THEN 0 ELSE Max(versions)
Resolved(r) ==
    LET local == Best(cached[r.name] \cap r.range)
        remote == Best(Published[r.name] \cap r.range)
        first == IF update THEN remote ELSE local
        second == IF update THEN local ELSE remote
    IN  IF r.range = {} \/ r.version # 0 THEN r
        ELSE [r EXCEPT !.version = IF first # 0 THEN first ELSE second]
InRange(r) == r.range = {} \/ r.version \in r.range

\* Options.propagate_upstream: what the node that led here asks for.  For all packages
\* is for those that have the option; by its name comes first.
Asking == IF Len(stack) = 1 THEN Empty ELSE stack[Len(stack) - 1].asks
Asked ==
    IF Here.name \in DOMAIN Asking THEN Asking[Here.name]
    ELSE IF All \in DOMAIN Asking /\ Here.recipe.allowed # {} THEN Asking[All]
    ELSE 0
\* What is so already is not noted as modified.
NewOption == IF Asked # 0 /\ Here.recipe.allowed # {} THEN Asked ELSE Here.option
Changed == {n \in DOMAIN Asking \ {Here.name} :
              n \in DOMAIN Here.asks => Here.asks[n] # Asking[n]}
NewAsks == Merge(Here.asks, [n \in DOMAIN Asking \ {Here.name} |-> Asking[n]])

\* An evaluated node is frozen: nothing may ask for another value, and what is asked of
\* all packages must be there.
AgainstFrozen ==
    /\ Here.frozen
    /\ \/ /\ {Here.name, All} \intersect DOMAIN Asking # {}
          /\ NewOption # Here.option \/ Here.recipe.allowed = {}
       \/ Changed \intersect DOMAIN Here.asks # {}
\* No such option, unless it is asked for of all packages, too; not a valid value, or
\* none; "already assigned", here or in what the node asks of others; or frozen.
RefusesOption ==
    \/ AgainstFrozen
    \/ Here.recipe.allowed = {} /\ Asked # 0 /\ All \notin DOMAIN Asking
    \/ Here.recipe.allowed # {} /\ NewOption \notin Here.recipe.allowed
    \/ Here.modified /\ NewOption # Here.option
    \/ Changed \intersect Here.changed # {}

\* requirements() is called again with the requirements it began with; the attribute
\* keeps what has been overridden.
Wanted(down) ==
    LET reqs == IF Here.recipe.method THEN Requires(Here.recipe, NewOption)
                ELSE Here.requires
    IN  [i \in DOMAIN reqs |-> Resolved(Overridden(reqs[i], down))]

UpstreamOwn(down, reqs) ==
    [n \in {reqs[i].name : i \in DOMAIN reqs} |->
       reqs[CHOOSE i \in DOMAIN reqs : reqs[i].name = n]]
\* From the first that does not only override another.
Handled(reqs) ==
    LET required == {i \in DOMAIN reqs : ~reqs[i].override}
    IN  IF required = {} THEN <<>> ELSE SubSeq(reqs, Min(required), Len(reqs))
\* What goes upstream: what came from downstream, and the public requirements.
Upstream(down, reqs) ==
    LET public == {i \in DOMAIN reqs : ~reqs[i].private}
    IN  Merge([n \in DOMAIN down \ {Here.name} |-> down[n]],
              [n \in {reqs[i].name : i \in public} |->
                 reqs[CHOOSE i \in public : reqs[i].name = n]])

Calling == outcome = "loading" /\ stack # <<>> /\ Top.step = "config"

Incompatible(reqs) == Here.recipe.method /\ Here.evaluated /\ reqs # Here.requires

Configure ==
    LET reqs == Wanted(Top.reqs)
    IN  /\ Calling
        /\ ~RefusesOption
        /\ \A i \in DOMAIN reqs : InRange(reqs[i])
        /\ ~Incompatible(reqs)
        /\ nodes' = [nodes EXCEPT
               ![Top.node] = [Here EXCEPT !.requires = reqs, !.evaluated = TRUE,
                                          !.option = NewOption, !.asks = NewAsks,
                                          !.modified = @ \/ NewOption # Here.option,
                                          !.changed = @ \union Changed]]
        /\ stack' = [stack EXCEPT ![Len(stack)] =
                       Expansion(Top.node, Upstream(Top.reqs, reqs), NewAsks,
                                 Handled(reqs))]
        /\ UNCHANGED <<world, update, cached, recipes, outside, outcome>>

\* An option, a range, or "Incompatible requirements obtained in different evaluations".
RefuseRequirements ==
    LET reqs == Wanted(Top.reqs)
    IN  /\ Calling
        /\ RefusesOption \/ Incompatible(reqs) \/ \E i \in DOMAIN reqs : ~InRange(reqs[i])
        /\ Stop("refused")
----------------------------------------------------------------------------
(* _handle_require, for the next requirement of the node. *)

Expanding == outcome = "loading" /\ stack # <<>> /\ Top.step = "expand"
Next1 == Head(Top.left)
IsLoop(r) == r.name \in Ancestry
\* A private or a build requirement that is not in the closure has a scope of its own.
Aside(r) == r.private \/ r.build
IsNew(r) ==
    \/ r.name \notin DOMAIN Here.deps
    \/ Aside(r) /\ r.name \notin DOMAIN Here.closure

UsersOne(r) == {Top.node}
\* Who gets a new node into its closure: the dependents too, unless it has its own scope.
Users(r) == {Top.node} \union IF Aside(r) THEN {} ELSE Here.inverse
\* Some remote has it, or the cache.
Exists(r) == r.version \in Published[r.name] \union cached[r.name]

EdgeTo(id, r) == [to |-> id, private |-> r.private, build |-> r.build]
Popped == [stack EXCEPT ![Len(stack)].left = Handled(Tail(@))]

DetectLoop ==
    /\ Expanding /\ Top.left # <<>>
    /\ IsLoop(Next1)
    /\ Stop("loop")

\* No remote has it.
MissRecipe ==
    /\ Expanding /\ Top.left # <<>>
    /\ ~IsLoop(Next1) /\ IsNew(Next1) /\ ~Exists(Next1)
    /\ Stop("missing")

\* A new node, in the scope and the closure of the node and of all that depend on it;
\* one that is private or to build with has the closure of the node for its scope.
AddNode ==
    /\ Expanding /\ Top.left # <<>>
    /\ ~IsLoop(Next1) /\ IsNew(Next1)
    /\ LET r == Next1
           at == Top.node
           id == Len(nodes) + 1
           users == Users(r)
           ref == <<r.name, r.version>>
       IN  /\ Exists(r)
           /\ \E recipe \in IF ref \in DOMAIN recipes THEN {recipes[ref]}
                         ELSE Worlds[world].recipes[r.name] :
             /\ recipes' = With(recipes, ref, recipe)
             /\ cached' = [cached EXCEPT ![r.name] = @ \union {r.version}]
             /\ nodes' = Append(
                  [i \in DOMAIN nodes |->
                     IF i \notin users THEN nodes[i]
                     ELSE [nodes[i] EXCEPT !.closure = With(@, r.name, id),
                                           !.deps = With(@, r.name, id),
                                           !.edges = IF i = at THEN Append(@, EdgeTo(id, r))
                                                     ELSE @]],
                  [Node(r.name, r.version, recipe, Ancestry)
                     EXCEPT !.closure = With(@, r.name, id),
                            !.deps = With(IF Aside(r) THEN Here.closure ELSE Here.deps,
                                          r.name, id),
                            !.inverse = users,
                            !.private = Here.private \/ r.private,
                            !.build = Here.build \/ r.build])
             /\ stack' = Append(Popped, Call(id, Top.reqs))
    /\ UNCHANGED <<world, update, outside, outcome>>

Previous == Here.deps[Next1.name]
Conflicting(r, id) == nodes[id].version # r.version

Conflict ==
    /\ Expanding /\ Top.left # <<>>
    /\ ~IsLoop(Next1) /\ ~IsNew(Next1)
    /\ Conflicting(Next1, Previous)
    /\ Stop("conflict")

\* Edge.__eq__: a second edge to the same node is not added.
Linked1(edges, id, r) ==
    IF \E e \in Range(edges) : e.to = id THEN edges ELSE Append(edges, EdgeTo(id, r))

EdgesOf(i) == Range(nodes[i].edges)
\* What each of n nodes leads to, itself included, when a step from i is to one of
\* step[i]: by ways that pass through the first k nodes only (Warshall).
Leading(n, step) ==
    LET leads[k \in 0 .. n] ==
          IF k = 0 THEN [i \in 1 .. n |-> {i} \union step[i]]
          ELSE LET before == leads[k - 1]
               IN  [i \in 1 .. n |-> before[i] \union IF k \in before[i] THEN before[k] ELSE {}]
    IN  leads[n]
\* Over edges of a kind.
Paths(Follow(_)) ==
    Leading(Len(nodes), [i \in DOMAIN nodes |-> {e.to : e \in {f \in EdgesOf(i) : Follow(f)}}])
\* make_public.
FreedFrom(id) == Paths(LAMBDA e : ~e.private)[id]

\* _recurse: something upstream of the node is not what is wanted from here.  What is
\* asked of all packages is not looked at.
OtherVersion(id) ==
    \E n \in DOMAIN Top.reqs \cap DOMAIN nodes[id].closure :
        Conflicting(Top.reqs[n], nodes[id].closure[n])
OtherOption(id) ==
    \E n \in DOMAIN Top.asks \cap DOMAIN nodes[id].closure :
        LET j == nodes[id].closure[n]
        IN  Top.asks[n] \in nodes[j].recipe.allowed \ {nodes[j].option}
MustRecurse(id) == OtherVersion(id) \/ OtherOption(id)
\* A comparison fails when there is no such option, or not with this value.
BadOption(id) ==
    \E n \in DOMAIN Top.asks \cap DOMAIN nodes[id].closure :
        Top.asks[n] \notin nodes[nodes[id].closure[n]].recipe.allowed

Diamond ==
    /\ Expanding /\ Top.left # <<>>
    /\ ~IsLoop(Next1) /\ ~IsNew(Next1)
    /\ ~Conflicting(Next1, Previous)

\* DepsGraph.add_edge asserts that both nodes are in the graph: a tool, or what it
\* requires, that is to be built with something its user links, has a graph of its own.
MissNode ==
    /\ Diamond
    /\ {Top.node, Previous} \intersect outside # {}
    /\ Stop("assertion")

\* The options are compared in no order, until one is found that differs.
RefuseOption ==
    /\ Diamond
    /\ {Top.node, Previous} \intersect outside = {}
    /\ ~OtherVersion(Previous) /\ BadOption(Previous)
    /\ Stop("refused")

\* A diamond: the node that is there, and what it links, get new ancestors; the closure
\* of the one becomes part of the closure of the other and of all that depend on it.
CloseDiamond ==
    /\ Diamond
    /\ {Top.node, Previous} \intersect outside = {}
    /\ BadOption(Previous) => MustRecurse(Previous)
    /\ LET r == Next1
           at == Top.node
           id == Previous
           freed == IF nodes[id].private /\ ~r.private THEN FreedFrom(id) ELSE {}
           IsPrivate(i) == nodes[i].private /\ i \notin freed
           shared == {n \in DOMAIN nodes[id].closure :
                        LET j == nodes[id].closure[n] IN ~nodes[j].build /\ ~IsPrivate(j)}
           gained == [n \in shared |-> nodes[id].closure[n]]
           Own(i, f) == IF i = at THEN With(f, r.name, id) ELSE f
       IN  /\ nodes' = [i \in DOMAIN nodes |->
                [nodes[i] EXCEPT
                   !.ancestors = IF i \in At(id)
                                 THEN @ \union Ancestry ELSE @,
                   !.private = IsPrivate(i),
                   !.edges = IF i = at THEN Linked1(@, id, r) ELSE @,
                   !.closure = IF i \in {at} \union Here.inverse
                               THEN Merge(Own(i, @), gained) ELSE @,
                   !.deps = IF i \in Here.inverse THEN Merge(Own(i, @), gained) ELSE Own(i, @),
                   !.inverse = @ \union (IF i = id THEN {at} ELSE {})
                                 \union (IF i \in {gained[n] : n \in shared}
                                         THEN {at} \union Here.inverse ELSE {})]]
           /\ stack' = IF MustRecurse(id) THEN Append(Popped, Call(id, Top.reqs)) ELSE Popped
    /\ UNCHANGED <<world, update, cached, recipes, outside, outcome>>

Return ==
    /\ Expanding /\ Top.left = <<>>
    /\ stack' = Front(stack)
    /\ outcome' = IF Len(stack) = 1 THEN "done" ELSE outcome
    /\ UNCHANGED <<world, update, cached, recipes, outside, nodes>>

Load ==
    \/ Configure \/ RefuseRequirements
    \/ DetectLoop \/ MissRecipe \/ AddNode \/ Conflict
    \/ MissNode \/ RefuseOption \/ CloseDiamond \/ Return
----------------------------------------------------------------------------
Done == outcome = "done"
AllPaths == Paths(LAMBDA e : TRUE)
PublicPaths == Paths(LAMBDA e : ~e.private /\ ~e.build)
\* What a node links: its requirements, and theirs, as far as they are public.
LinkedBy(i, paths) == UNION {paths[e.to] : e \in EdgesOf(i)}
Linked(i) == LinkedBy(i, PublicPaths)

\* What a private requirement leads to is required in no other way.
PrivateApart ==
    LET paths == AllPaths
    IN  \A i \in DOMAIN nodes : \A e \in EdgesOf(i) : e.private =>
            LET behind == paths[e.to]
                names == {nodes[j].name : j \in behind}
            IN  \A k \in DOMAIN nodes \ behind :
                    /\ \A f \in EdgesOf(k) : nodes[f.to].name \in names => k = i /\ f = e
                    /\ \A r \in Range(nodes[k].recipe.tools) : r.name \notin names

\* No package has two nodes.
OnceEach == \A i, j \in DOMAIN nodes : nodes[i].name = nodes[j].name => i = j

\* A requirement is refused as a loop exactly when what it names is already on the way
\* to the node that requires it: the ancestors noted at a node, and brought up to date
\* when a diamond is closed (graph_builder.py:134, 193), are what the graph says.  Some
\* are missing when what is behind a private requirement is required in another way, too
\* (GraphBuilderLoop.cfg).
IsOnTheWay(name) ==
    LET paths == AllPaths
    IN  \E i \in DOMAIN nodes : nodes[i].name = name /\ Top.node \in paths[i]
NoFalseLoop == Expanding /\ Top.left # <<>> /\ IsLoop(Next1) => IsOnTheWay(Next1.name)
NoMissedLoop ==
    Expanding /\ Top.left # <<>> /\ ~IsLoop(Next1) /\ IsOnTheWay(Next1.name) =>
        ~OnceEach /\ ~PrivateApart
LoopsAreExact == NoFalseLoop /\ NoMissedLoop

\* A requirement that names what is on the way to the node is refused, whatever else
\* there is in the graph (GraphBuilderLoop.cfg; violated).
EveryLoopIsFound ==
    Expanding /\ Top.left # <<>> /\ IsOnTheWay(Next1.name) => IsLoop(Next1)

\* A node in a finished graph requires what its recipe has for the option it ended up
\* with, whatever was asked of it in between, and how often it was configured.
NamesOf(reqs) == {r.name : r \in Range(reqs)}
RequiresItsOwn(i) ==
    NamesOf(nodes[i].requires) = NamesOf(Requires(nodes[i].recipe, nodes[i].option))
RequiresAreTheRecipes == Done => \A i \in DOMAIN nodes : RequiresItsOwn(i)

\* In a finished graph what is noted as a node's closure (graph.py:41-43), in three
\* places and one requirement at a time, is what the node links: its own requirements,
\* in the versions and ranges asked for, and theirs, with no name twice; and its
\* requirements are those that its recipe has for the option it ended up with.
ClosureIsWhatIsLinked ==
    Done /\ PrivateApart =>
        LET paths == PublicPaths
        IN  \A i \in DOMAIN nodes :
              /\ At(i) = LinkedBy(i, paths) \union {i}
              /\ \A r \in Range(nodes[i].requires) : ~r.override =>
                   LET v == nodes[nodes[i].closure[r.name]].version
                   IN  v = r.version /\ (r.range # {} => v \in r.range)
              /\ RequiresItsOwn(i)

\* What a node asks of a package it links, by name, the package is given, whoever else
\* requires it and in whatever order they come, or the command ends ("incompatibilities
\* will be raised as usually", graph_builder.py:235): always for the consumer, and for
\* the others unless they ask for the value the package has by default, which is not
\* noted.
AskedIsGiven ==
    \A i \in DOMAIN nodes : \A n \in DOMAIN nodes[i].asks \cap DOMAIN nodes[i].closure :
        LET j == nodes[i].closure[n]
        IN  \/ nodes[i].asks[n] = nodes[j].option
            \/ nodes[i].asks[n] = 0 \/ nodes[j].recipe.allowed = {}
            \/ i # 1 /\ nodes[i].asks[n] = nodes[j].recipe.default

\* What the consumer requires or overrides decides for everything it links, however
\* deep, and in whatever order it is reached: that is the way out of a conflict which
\* graph_builder.py:190 names, "override it in your base requirements".  So do the
\* options it asks for.
BaseDecides ==
    Done =>
        /\ \A r \in Range(nodes[1].requires) : \A j \in Linked(1) :
              ~r.private /\ ~nodes[j].build /\ nodes[j].name = r.name =>
                nodes[j].version = r.version
        /\ AskedIsGiven

\* What the consumer links has one node of each name: "the dependencies that will be
\* part of deps_cpp_info, can't conflict" (graph.py:42).  Not so when what is behind a
\* private requirement is reached in another way, too.
OneVersion ==
    Done => \A j, k \in Linked(1) : nodes[j].name = nodes[k].name => j = k
=============================================================================
