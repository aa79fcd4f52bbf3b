------------------------------ MODULE MCFetch ------------------------------
(* A small instance of Fetch: two clients upload, one installs. *)
EXTENDS Fetch, TLC

CONSTANTS c1, c2

TwoContents == c1 :> 1 @@ c2 :> 2
TwoPolicies == c1 :> {"none"} @@ c2 :> {"none", "force"}
=============================================================================
