--------------------------- MODULE MCGraphBuilder ---------------------------
(* Small instances of GraphBuilder and GraphBinaries. *)
EXTENDS GraphBinaries

CONSTANTS root, a, b, c, d, e, f, g, any

Exact(n, v) == Requirement(n, v, {}, FALSE, FALSE)
Private(n, v) == Requirement(n, v, {}, TRUE, FALSE)
Override(n, v) == Requirement(n, v, {}, FALSE, TRUE)
Between(n, vs) == Requirement(n, 0, vs, FALSE, FALSE)

\* Two versions of d are published, and a third is asked for; one may be in the cache.
Versions == [n \in {a, b, c, d} |-> IF n = d THEN {1, 2} ELSE {1}]
OneCached == {[n \in {a, b, c, d} |-> {}], [n \in {a, b, c, d} |-> IF n = d THEN {1} ELSE {}]}
\* Recipes without an option.
Without(lists, methods) ==
    [requires : lists, method : methods, optional : {<<>>}, allowed : {{}}, default : {0},
     asks : {Empty}, tools : {<<>>}]
Recipes(lists) == Without(lists, BOOLEAN)

\* The consumer and packages that may require each other, privately or not.
Free ==
    root :> Without({<<Exact(a, 1), Exact(b, 1)>>,
                         <<Exact(a, 1), Exact(b, 1), Override(d, 2)>>,
                         <<Private(a, 1), Exact(b, 1)>>, <<Exact(b, 1), Private(a, 1)>>}, {FALSE})
    @@ a :> Recipes({<<>>, <<Exact(c, 1)>>, <<Exact(d, 1), Exact(c, 1)>>,
                     <<Private(d, 2), Exact(c, 1)>>, <<Exact(c, 1), Private(d, 2)>>,
                     <<Exact(d, 2), Exact(c, 1)>>})
    @@ b :> Recipes({<<>>, <<Exact(c, 1)>>, <<Exact(d, 2)>>, <<Exact(a, 1), Exact(d, 2)>>,
                     <<Exact(d, 1), Exact(a, 1)>>, <<Exact(d, 3)>>,
                     <<Private(c, 1), Exact(d, 2)>>, <<Private(a, 1)>>})
    @@ c :> Recipes({<<>>, <<Exact(d, 2)>>, <<Private(d, 1)>>, <<Exact(d, 1)>>,
                     <<Exact(b, 1)>>, <<Exact(a, 1)>>})
    @@ d :> Without({<<>>, <<Exact(b, 1)>>}, {FALSE})

\* Ranges, where it matters what is in the cache, and --update.
Ranged ==
    root :> Without({<<Exact(a, 1), Exact(b, 1)>>,
                         <<Exact(a, 1), Exact(b, 1), Override(d, 2)>>}, {FALSE})
    @@ a :> Recipes({<<Exact(c, 1)>>, <<Between(d, {1, 2}), Exact(c, 1)>>})
    @@ b :> Recipes({<<>>, <<Exact(d, 2)>>, <<Exact(d, 1), Exact(a, 1)>>, <<Exact(d, 3)>>})
    @@ c :> Recipes({<<>>, <<Between(d, {1})>>, <<Between(d, {1, 2})>>})
    @@ d :> Recipes({<<>>})

\* c links d in one version; a in another, which it has from its private b as well.
Secret ==
    root :> Without({<<Exact(c, 1), Private(a, 1)>>}, {FALSE})
    @@ a :> Recipes({<<Private(b, 1), Exact(d, 2)>>})
    @@ b :> Recipes({<<Exact(d, 2)>>})
    @@ c :> Recipes({<<Exact(d, 1)>>})
    @@ d :> Recipes({<<>>})

\* Recipes that have an option with the values `allowed', or none, and ask for those of
\* others.
Optioned(lists, more, allowed, default, wishes) ==
    [requires : lists, method : {TRUE}, optional : more, allowed : allowed, default : default,
     asks : wishes, tools : {<<>>}]

\* a, b and what they share, which requires d when its option is 2.
Options ==
    root :> Optioned({<<Exact(a, 1), Exact(b, 1)>>, <<Private(a, 1), Exact(b, 1)>>},
                     {<<>>}, {{}}, {0}, {Empty, c :> 1, c :> 2, any :> 2, b :> 2})
    @@ a :> Optioned({<<Exact(c, 1)>>, <<Exact(b, 1)>>}, {<<>>}, {{}}, {0},
                     {Empty, c :> 1, c :> 2, any :> 2, any :> 3 @@ c :> 2})
    @@ b :> Optioned({<<Exact(c, 1)>>, <<Exact(a, 1)>>, <<Private(d, 1), Exact(c, 1)>>},
                     {<<>>}, {{1, 2}}, {1},
                     {Empty, c :> 1, c :> 2, c :> 3, any :> 2 @@ d :> 3})
    @@ c :> (Optioned({<<>>}, {<<>>, <<Exact(d, 1)>>}, {{1, 2, 3}}, {0, 1}, {Empty, d :> 2})
             \union Without({<<>>}, {TRUE}))
    @@ d :> (Optioned({<<>>}, {<<>>}, {{1, 2}}, {1}, {Empty})
             \union Without({<<>>}, {TRUE}))

\* What is to be built, with tools that are linked, too, or not.
Tooled(lists, tools) ==
    [requires : lists, method : {TRUE}, optional : {<<>>}, allowed : {{}}, default : {0},
     asks : {Empty}, tools : tools]
Tools ==
    root :> Tooled({<<Exact(a, 1)>>, <<Exact(a, 1), Exact(b, 1)>>}, {<<>>, <<Exact(c, 1)>>})
    @@ a :> Tooled({<<Private(c, 1)>>, <<Exact(d, 1), Private(c, 1)>>, <<Exact(c, 1), Private(d, 1)>>}, {<<>>, <<Exact(b, 1)>>})
    @@ b :> Tooled({<<>>, <<Exact(d, 1)>>}, {<<>>})
    @@ c :> Tooled({<<>>, <<Exact(d, 1)>>}, {<<>>, <<Exact(d, 1)>>})
    @@ d :> Tooled({<<>>}, {<<>>})
OptionTools ==
    root :> Tooled({<<Exact(a, 1), Exact(b, 1)>>}, {<<Exact(c, 1)>>})
    @@ a :> Optioned({<<Exact(d, 1)>>}, {<<>>}, {{}}, {0}, {Empty, d :> 2})
    @@ b :> Tooled({<<Private(d, 1)>>, <<Exact(d, 1)>>}, {<<>>})
    @@ c :> Optioned({<<Exact(d, 1)>>}, {<<>>}, {{}}, {0}, {Empty, d :> 1, any :> 1})
    @@ d :> Optioned({<<>>}, {<<>>}, {{1, 2}}, {1}, {Empty})

NothingCached == {[n \in {a, b, c, d} |-> {}]}
World(of, caches, updates) ==
    [recipes |-> of, caches |-> caches, update |-> updates, evaluates |-> FALSE]
Evaluated(of) == [World(of, NothingCached, {FALSE}) EXCEPT !.evaluates = TRUE]
FreeWorlds == [free |-> World(Free, NothingCached, {FALSE}),
               ranged |-> World(Ranged, OneCached, BOOLEAN),
               options |-> World(Options, NothingCached, {FALSE}),
               tools |-> Evaluated(Tools),
               optionTools |-> Evaluated(OptionTools)]
SecretWorlds == [secret |-> World(Secret, OneCached, BOOLEAN)]
ToolWorlds == [tools |-> Evaluated(Tools), optionTools |-> Evaluated(OptionTools)]

\* Seven packages.  d is required privately, and publicly behind g, once c is overridden;
\* what it requires is on the way to it then, but behind a private requirement.
Seven == {a, b, c, d, e, f, g}
Only(lists) == Without({lists}, {TRUE})
Loop ==
    root :> Only(<<Exact(b, 1), Exact(g, 1)>>)
    @@ b :> Only(<<Private(e, 1), Private(f, 1), Private(c, 1)>>)
    @@ e :> Only(<<Exact(d, 1), Exact(f, 1)>>)
    @@ f :> Only(<<Private(d, 1), Private(a, 1)>>)
    @@ a :> Only(<<Exact(d, 1)>>)
    @@ d :> Only(<<Private(c, 2)>>)
    @@ g :> Only(<<Override(c, 1), Exact(d, 1)>>)
    @@ c :> Without({<<>>, <<Exact(e, 1)>>}, {TRUE})
LoopVersions == [n \in Seven |-> IF n = c THEN {1, 2} ELSE {1}]
LoopWorlds == [loop |-> World(Loop, {[n \in Seven |-> {}]}, {FALSE})]

\* c is required privately by a, and publicly by b, which asks for the options of e and
\* f: with these they require one another, yet c and d are the same packages as before.
Optional(n) == Optioned({<<>>}, {<<Exact(n, 1)>>}, {{1, 2}}, {1}, {Empty})
Taken ==
    root :> Only(<<Exact(a, 1), Exact(b, 1)>>)
    @@ a :> Only(<<Private(c, 1)>>)
    @@ b :> Optioned({<<Exact(c, 1)>>}, {<<>>}, {{}}, {0}, {e :> 2 @@ f :> 2})
    @@ c :> Only(<<Exact(d, 1)>>)
    @@ d :> Only(<<Exact(e, 1), Exact(f, 1), Exact(g, 1)>>)
    @@ e :> Optional(f)
    @@ f :> Optional(g)
    @@ g :> Only(<<>>)
OneEach == [n \in Seven |-> {1}]
TakenWorlds ==
    [taken |-> [World(Taken, {[n \in Seven |-> {}]}, {FALSE}) EXCEPT !.evaluates = TRUE]]
=============================================================================
