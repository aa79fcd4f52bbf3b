---------------------------- MODULE GraphBinaries ----------------------------
(***************************************************************************)
(* What a command does with the graph of its dependencies before it        *)
(* installs anything (client/graph/graph_manager.py, graph_binaries.py,    *)
(* extend_build_requires of graph_builder.py): for every node, those it    *)
(* depends on first, the package id and what is to happen with the binary; *)
(* then the build requirements of what is to be built, which make graphs   *)
(* of their own to evaluate, and so on.  Which binary there is (see        *)
(* PackageInstall) is any.  Build requirements of profiles, ranges in      *)
(* build requirements, settings, package_id() and package id modes other   *)
(* than the default are left out.                                          *)
(***************************************************************************)
EXTENDS GraphBuilder

CONSTANT Binaries    \* "have": in the cache or a remote; "build"; or "missing"

VARIABLES
    found,     \* what has been computed of the nodes, by node
    graphs     \* the graphs at work, the last one on top: their nodes, the levels of
               \* those that were new, and which of these are still to evaluate and still to
               \* look at for build requirements

vars == <<loadVars, found, graphs>>

Init == LoadInit /\ found = Empty /\ graphs = <<>>

Loading == Load /\ UNCHANGED <<found, graphs>>

Graph == graphs[Len(graphs)]

\* ordered_iterate: what has no dependency in the graph, then what depends on that...
Levels(ids) ==
    LET level[i \in ids] ==
          LET below == {e.to : e \in EdgesOf(i)} \intersect ids
          IN  IF below = {} THEN 0 ELSE 1 + Max({level[j] : j \in below})
    IN  level
Lowest(ids) == {i \in ids : \A j \in ids : Graph.levels[i] <= Graph.levels[j]}

\* The graph is loaded, or what a node needs to be built: the nodes that are new.
Evaluate ==
    /\ Done
    /\ Worlds[world].evaluates
    /\ LET new == DOMAIN nodes \ DOMAIN found
       IN  graphs' = Append(graphs,
                            [nodes |-> new, levels |-> Levels(new), todo |-> new, left |-> new])
    /\ outcome' = "evaluating"
    /\ UNCHANGED <<world, update, cached, recipes, nodes, stack, outside, found>>
----------------------------------------------------------------------------
(* _compute_package_id, _evaluate_node, _handle_private. *)

NameOf(ref) == ref[1]
RefOf(i) == <<nodes[i].name, nodes[i].version>>
Dependencies(i) == [k \in DOMAIN nodes[i].edges |-> nodes[i].edges[k].to]

\* propagate_downstream, for one requirement after the other: its option, 0 if none, and
\* those of what it depends on itself, private or not.
TrueOptions(i) ==
    FoldLeft(LAMBDA f, j : Merge(With(f, nodes[j].name, nodes[j].option), found[j].options),
             nodes[i].asks, Dependencies(i))

\* Direct requirements by version; of the others it matters how many there are, for the
\* options are joined, though they have been cleared.
PackageId(i, refs) ==
    [ref |-> RefOf(i), option |-> nodes[i].option,
     direct |-> {RefOf(j) : j \in Range(Dependencies(i))},
     names |-> Cardinality({NameOf(ref) : ref \in refs})]

\* The same package was evaluated before: its binary.
SamePackage(id) == {j \in DOMAIN found : found[j].id = id}
Decisions(id) ==
    IF SamePackage(id) = {} THEN Binaries
    ELSE {found[found[j].first].binary : j \in SamePackage(id)}

\* With that which the node links in another way, too.
BehindAll(i) == UNION {At(e.to) : e \in {f \in EdgesOf(i) : f.private}}
\* What a private requirement of a node brings, itself private, is behind the node.
Behind(i) ==
    UNION {{j \in At(e.to) : nodes[j].private} :
             e \in {f \in EdgesOf(i) : f.private /\ nodes[f.to].private}}
\* _handle_private: it is skipped when the node is not built, and what is behind it.
Hidden(i, binary) ==
    LET behind == Leading(Len(nodes), [j \in DOMAIN nodes |-> Behind(j)])
    IN  IF binary \in {"have", "skip"} THEN UNION {behind[j] : j \in Behind(i)} ELSE {}

\* What a node depends on, and of their options those it links.
Refs(i) == UNION {{RefOf(j)} \union found[j].refs : j \in Range(Dependencies(i))}
LinkedOptions(i) ==
    LET all == TrueOptions(i)
    IN  Restrict(all, DOMAIN all \intersect {NameOf(ref) : ref \in Refs(i)})
\* What is computed of a node; and that beside the rest, some of which it skips.
FactOf(i, binary) ==
    LET id == PackageId(i, Refs(i))
    IN  [id |-> id, refs |-> Refs(i), options |-> LinkedOptions(i), binary |-> binary,
         toBuild |-> TrueOptions(i),
         first |-> IF SamePackage(id) = {} THEN i
                   ELSE found[CHOOSE j \in SamePackage(id) : TRUE].first]
FoundWith(i, binary) ==
    LET facts == With(found, i, FactOf(i, binary))
        hidden == Hidden(i, binary)
    IN  [j \in DOMAIN facts |->
           IF j \in hidden THEN [facts[j] EXCEPT !.binary = "skip"] ELSE facts[j]]

EvaluateNode ==
    /\ outcome = "evaluating"
    /\ \E i \in Lowest(Graph.todo) :
         /\ \E binary \in IF i = 1 THEN {"none"} ELSE Decisions(PackageId(i, Refs(i))) :
              found' = FoundWith(i, binary)
         /\ nodes' = [nodes EXCEPT ![i].asks = LinkedOptions(i), ![i].changed = {},
                                   ![i].frozen = TRUE]
         /\ graphs' = [graphs EXCEPT ![Len(graphs)].todo = @ \ {i}]
    /\ UNCHANGED <<world, update, cached, recipes, stack, outside, outcome>>
----------------------------------------------------------------------------
(* _recurse_build_requires, extend_build_requires. *)

ToBuild(i) == i = 1 \/ found[i].binary = "build"

\* What is not built, or with no tools: those of a level at once, for nothing happens.
Idle == {i \in Lowest(Graph.left) : ~ToBuild(i) \/ nodes[i].recipe.tools = <<>>}
PassBy ==
    /\ outcome = "evaluating" /\ Graph.todo = {}
    /\ Idle # {}
    /\ graphs' = [graphs EXCEPT ![Len(graphs)].left = @ \ Idle]
    /\ UNCHANGED <<loadVars, found>>

\* The requirements of a tool cannot be overridden; the true options go upstream.
ExtendBuildRequires ==
    /\ outcome = "evaluating" /\ Graph.todo = {}
    /\ \E i \in Lowest(Graph.left) \ Idle :
         LET tools == nodes[i].recipe.tools
             options == found[i].toBuild
         IN  /\ graphs' = [graphs EXCEPT ![Len(graphs)].left = @ \ {i}]
             /\ stack' = <<Expansion(i, Empty,
                                     Restrict(options, {n \in DOMAIN options : options[n] # 0}),
                                     [k \in DOMAIN tools |-> [tools[k] EXCEPT !.build = TRUE]])>>
    /\ outside' = DOMAIN nodes \ Graph.nodes
    /\ outcome' = "loading"
    /\ UNCHANGED <<world, update, cached, recipes, nodes, found>>

\* The nodes of the graph are part of the one that it extends.
LeaveGraph ==
    /\ outcome = "evaluating"
    /\ Graph.todo = {} /\ Graph.left = {}
    /\ graphs' = LET n == Len(graphs)
                 IN  IF n = 1 THEN <<>>
                     ELSE [Front(graphs) EXCEPT ![n - 1].nodes = @ \union Graph.nodes]
    /\ outcome' = IF Len(graphs) = 1 THEN "evaluated" ELSE outcome
    /\ UNCHANGED <<world, update, cached, recipes, nodes, stack, outside, found>>

Ended ==
    /\ outcome \notin {"loading", "evaluating"}
    /\ Done => ~Worlds[world].evaluates
    /\ UNCHANGED vars

Next == Loading \/ Evaluate \/ EvaluateNode \/ PassBy \/ ExtendBuildRequires \/ LeaveGraph \/ Ended

Spec == Init /\ [][Next]_vars
----------------------------------------------------------------------------
AllEvaluated == outcome = "evaluated"
\* What the consumer, or a package that is to be built, links or builds with is skipped.
SkippedFor(i) ==
    IF ToBuild(i) THEN {j \in At(i) \ {i} : found[j].binary = "skip"} ELSE {}

\* A package is required privately here, and publicly there.
BothWays ==
    \E i, k \in DOMAIN nodes : \E e \in EdgesOf(i), f \in EdgesOf(k) :
        e.private /\ ~f.private /\ e.to = f.to
\* A node took its decision from another node of the same package.
TookDecision(j) == found[j].first # j

\* A private requirement, and what is behind it, is not installed when the package that
\* requires it is not built (graph_binaries.py:203): yet the consumer, and what is to be
\* built, find everything they link, and everything they build with, whatever was found
\* and however the graphs were evaluated one after the other.  Not so in two cases: a
\* package that is required both ways (GraphBinariesSkip.cfg), and a node that is given
\* the binary of another node of the same package, which was skipped: a build requirement
\* (GraphBinariesSkip.cfg), or any (GraphBinariesTaken.cfg).
NeededIsInstalled ==
    AllEvaluated /\ ~BothWays =>
        \A i \in DOMAIN nodes : \A j \in SkippedFor(i) : TookDecision(j)

\* "skipped" is what nobody needs (GraphBinariesSkip.cfg, GraphBinariesTaken.cfg;
\* violated).
LinkedIsInstalled == AllEvaluated => \A i \in DOMAIN nodes : SkippedFor(i) = {}

\* "an option conflict while expanding the build_requires is impossible", for the true
\* options go upstream (graph_builder.py:49; GraphBinariesFrozen.cfg; violated).
NoConflictWithFrozen == Calling => ~AgainstFrozen

\* "assert src in self.nodes and dst in self.nodes" (graph.py:182;
\* GraphBinariesAssert.cfg; violated).
EdgesStayInGraph == outcome # "assertion"
=============================================================================
