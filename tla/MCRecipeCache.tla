--------------------------- MODULE MCRecipeCache ---------------------------
(* Small instances of RecipeCache. *)
EXTENDS RecipeCache, TLC

CONSTANTS a, b, c, url1, url2

Symmetry == Permutations(Proc)

\* One server under two names, which `conan remote add --insert' makes.
Tables == {<<Remote(a, url1), Remote(b, url1)>>}

\* `Entries' keeps what SelectSeq keeps, whose recursion a proof cannot use.
ASSUME EntriesAreSelected ==
    \A table \in UNION {[1..n -> Entry] : n \in 0..3}, kept \in SUBSET Entry :
        Entries(table, {i \in DOMAIN table : table[i] \in kept}) =
            SelectSeq(table, LAMBDA r : r \in kept)
=============================================================================
