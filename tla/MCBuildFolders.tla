-------------------------- MODULE MCBuildFolders --------------------------
(* Small instances of BuildFolders: release and debug share a build folder. *)
EXTENDS BuildFolders, TLC

CONSTANTS release, debug, shared

OneBuildFolder == release :> release @@ debug :> release @@ shared :> shared

PlainRecipe == {[noCopySource |-> FALSE, buildAlways |-> FALSE]}
\* Both options together are a hazard of their own: see the README.
MostRecipes == Recipe \ {[noCopySource |-> TRUE, buildAlways |-> TRUE]}
===========================================================================
