--------------------------- MODULE RevisionStore ---------------------------
(***************************************************************************)
(* What the server promises its clients about the revisions of one         *)
(* reference: it offers recipe revisions, and packages of each, in the     *)
(* order in which they arrived, and every request that changes what is     *)
(* offered does so in one step.  ServerStore keeps the promise as long as  *)
(* nothing happens that it does not stand.                                 *)
(* An offer is that order: the pairs of revisions the first of which       *)
(* arrived no later than the second, and thus <<r, r>> for each of them.   *)
(***************************************************************************)
CONSTANTS RRev, PRev

VARIABLES
    offered,  \* the recipe revisions
    offers    \* the package revisions of each

promiseVars == <<offered, offers>>

PromiseInit == offered = {} /\ offers = [r \in RRev |-> {}]

Those(offer) == {pair[1] : pair \in offer}
Without(offer, rev) == {pair \in offer : rev \notin {pair[1], pair[2]}}
\* A revision that arrives is the latest from then on, wherever it was before.
Arrived(offer, rev) ==
    Without(offer, rev) \union {<<r, rev>> : r \in Those(offer) \union {rev}}

OfferRecipe ==
    /\ \E r \in RRev : offered' = Arrived(offered, r)
    /\ UNCHANGED offers

\* A package arrives where its recipe is offered.
OfferPackage ==
    /\ \E r \in Those(offered), b \in PRev :
         offers' = [offers EXCEPT ![r] = Arrived(@, b)]
    /\ UNCHANGED offered

\* A recipe goes with its packages.
WithdrawRecipe ==
    \E r \in Those(offered) :
        /\ offered' = Without(offered, r)
        /\ offers' = [offers EXCEPT ![r] = {}]

WithdrawPackage ==
    /\ \E r \in RRev : \E b \in Those(offers[r]) :
         offers' = [offers EXCEPT ![r] = Without(@, b)]
    /\ UNCHANGED offered

WithdrawPackages ==
    /\ \E r \in RRev : offers' = [offers EXCEPT ![r] = {}]
    /\ UNCHANGED offered

WithdrawAll == offered' = {} /\ offers' = [r \in RRev |-> {}]

PromiseNext ==
    \/ OfferRecipe \/ OfferPackage
    \/ WithdrawRecipe \/ WithdrawPackage \/ WithdrawPackages \/ WithdrawAll

PromiseSpec == PromiseInit /\ [][PromiseNext]_promiseVars
=============================================================================
