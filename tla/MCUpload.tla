----------------------------- MODULE MCUpload -----------------------------
(* Small instances of Upload: the recipe of each client, and its options. *)
EXTENDS Upload, TLC

CONSTANTS c1, c2

\* c2 has exported the recipe later: another content of the same revision.
TwoContents == c1 :> 1 @@ c2 :> 2
\* The newer recipe may always be uploaded; skipping it for ever would not do.
TwoPolicies == c1 :> Policies @@ c2 :> {"none", "force"}

OneContent == c1 :> 1
OnePolicy == c1 :> {"none"}
===========================================================================
