----------------------------- MODULE GraphProofs -----------------------------
(***************************************************************************)
(* The graph that a command computes, for any recipes, versions, ranges,   *)
(* options and number of packages: what is noted at the nodes is so in the *)
(* graph, and a requirement is never refused for a loop that is not there. *)
(* While there is one node of each name, before the graphs of build        *)
(* requirements, a loop is found exactly when there is one.  When nothing  *)
(* is private, a package has one node, its closure is what it links, and   *)
(* what the consumer wants decides.                                        *)
(* Shape says what the state is made of, Real that what is noted is in the *)
(* graph; Ordered that nodes are made and left depth first; Neatness that  *)
(* closures and scopes are all there is to note; BaseKept and AsksKept say *)
(* how versions and options wanted downstream get to where they decide.    *)
(***************************************************************************)
EXTENDS GraphBinaries, TLAPS, WellFoundedInduction

\* Every non-empty set of numbers has a least one.
LEMMA LeastNumber ==
    ASSUME NEW T \in SUBSET Nat, T # {}
    PROVE  \E n \in T : \A m \in T : n <= m
<1> DEFINE R == {pair \in Nat \X Nat : pair[1] < pair[2]}
<1>1. IsWellFoundedOn(R, Nat)
  BY NatLessThanWellFounded DEF OpToRel
<1> HIDE DEF R
<1>2. PICK n \in T : \A m \in T : ~(<<m, n>> \in R)
  BY <1>1, WFMin
<1>3. ASSUME NEW m \in T PROVE n <= m
  <2>1. ~(<<m, n>> \in R) /\ m \in Nat /\ n \in Nat
    BY <1>2
  <2>2. <<m, n>> \in Nat \X Nat /\ <<m, n>>[1] = m /\ <<m, n>>[2] = n
    BY <2>1
  <2>3. ~(m < n)
    BY <2>1, <2>2 DEF R
  <2> QED BY <2>1, <2>3
<1> QED BY <1>3

\* The ways of at most n nodes that Leading is about: what each leads to through the
\* first k nodes only is the least that is closed in this sense.
Closed(n, step, k) ==
    {R \in [1 .. n -> SUBSET (1 .. n)] :
       \A i \in 1 .. n : /\ {i} \union step[i] \subseteq R[i]
                         /\ \A m \in 1 .. k : m \in R[i] => R[m] \subseteq R[i]}
Least(n, step, k) ==
    [i \in 1 .. n |-> {j \in 1 .. n : \A R \in Closed(n, step, k) : j \in R[i]}]

LEMMA LeastIsClosed ==
    ASSUME NEW n \in Nat, NEW step \in [1 .. n -> SUBSET (1 .. n)], NEW k \in 0 .. n
    PROVE  /\ Least(n, step, k) \in Closed(n, step, k)
           /\ \A R \in Closed(n, step, k), i \in 1 .. n : Least(n, step, k)[i] \subseteq R[i]
<1> DEFINE L == Least(n, step, k)
<1>1. L \in [1 .. n -> SUBSET (1 .. n)]
  BY DEF Least
<1>2. ASSUME NEW R \in Closed(n, step, k), NEW i \in 1 .. n PROVE L[i] \subseteq R[i]
  BY DEF Least
<1>3. ASSUME NEW i \in 1 .. n PROVE {i} \union step[i] \subseteq L[i]
  BY DEF Least, Closed
<1>4. ASSUME NEW i \in 1 .. n, NEW m \in 1 .. k, m \in L[i] PROVE L[m] \subseteq L[i]
  BY <1>4 DEF Least, Closed
<1> QED BY <1>1, <1>2, <1>3, <1>4 DEF Closed

LEMMA LeastOfNone ==
    ASSUME NEW n \in Nat, NEW step \in [1 .. n -> SUBSET (1 .. n)]
    PROVE  Least(n, step, 0) = [i \in 1 .. n |-> {i} \union step[i]]
<1> DEFINE T == [i \in 1 .. n |-> {i} \union step[i]]
<1>1. T \in Closed(n, step, 0)
  BY DEF Closed
<1>2. 0 \in 0 .. n
  OBVIOUS
<1>3. ASSUME NEW i \in 1 .. n PROVE Least(n, step, 0)[i] = T[i]
  <2>1. Least(n, step, 0)[i] \subseteq T[i]
    BY <1>1, <1>2, LeastIsClosed
  <2>2. T[i] \subseteq Least(n, step, 0)[i]
    BY <1>2, LeastIsClosed DEF Closed
  <2> QED BY <2>1, <2>2
<1> QED BY <1>3 DEF Least

LEMMA LeastOfMore ==
    ASSUME NEW n \in Nat, NEW step \in [1 .. n -> SUBSET (1 .. n)], NEW k \in 1 .. n
    PROVE  LET before == Least(n, step, k - 1)
           IN  Least(n, step, k) =
                 [i \in 1 .. n |-> before[i] \union IF k \in before[i] THEN before[k] ELSE {}]
<1> DEFINE B == Least(n, step, k - 1)
           L == Least(n, step, k)
           T == [i \in 1 .. n |-> B[i] \union IF k \in B[i] THEN B[k] ELSE {}]
<1>0. k - 1 \in 0 .. n /\ k \in 0 .. n
  OBVIOUS
<1>1. B \in Closed(n, step, k - 1) /\ L \in Closed(n, step, k)
  BY <1>0, LeastIsClosed
<1>a. 1 .. k = (1 .. k - 1) \union {k}
  OBVIOUS
<1>2. T \in Closed(n, step, k)
  <2>1. T \in [1 .. n -> SUBSET (1 .. n)]
    BY <1>1 DEF Closed
  <2>2. ASSUME NEW i \in 1 .. n PROVE {i} \union step[i] \subseteq T[i]
    BY <1>1 DEF Closed
  <2>3. ASSUME NEW i \in 1 .. n, NEW m \in 1 .. k, m \in T[i] PROVE T[m] \subseteq T[i]
    <3> DEFINE Shut(m1) == \A i1 \in 1 .. n : m1 \in B[i1] => B[m1] \subseteq B[i1]
    <3>1. \A m1 \in 1 .. k - 1 : Shut(m1)
      BY <1>1 DEF Closed
    <3>2. CASE m = k
      <4>1. k \in B[i]
        BY <2>3, <3>2
      <4> QED BY <4>1, <3>2
    <3>3. CASE m # k
      <4>1. Shut(m)
        BY <3>1, <3>3, <1>a
      <4> HIDE DEF B
      <4>2. CASE m \in B[i]
        BY <4>1, <4>2
      <4>3. CASE m \notin B[i]
        <5>1. k \in B[i] /\ m \in B[k]
          BY <2>3, <4>3
        <5>2. B[m] \subseteq B[k]
          BY <4>1, <5>1
        <5>3. T[m] \subseteq B[k]  \union B[m]
          BY <5>1
        <5> QED BY <5>1, <5>2, <5>3
      <4> QED BY <4>2, <4>3
    <3> QED BY <3>2, <3>3
  <2> QED BY <2>1, <2>2, <2>3 DEF Closed
<1>3. L \in Closed(n, step, k - 1)
  BY <1>1, <1>a DEF Closed
<1>4. ASSUME NEW i \in 1 .. n PROVE L[i] = T[i]
  <2>1. L[i] \subseteq T[i]
    BY <1>0, <1>2, LeastIsClosed
  <2>2. B[i] \subseteq L[i] /\ B[k] \subseteq L[k]
    BY <1>0, <1>3, LeastIsClosed
  <2>3. k \in L[i] => L[k] \subseteq L[i]
    BY <1>1, <1>a DEF Closed
  <2> QED BY <2>1, <2>2, <2>3
<1> QED BY <1>4 DEF Least

\* What the recursion of Leading computes.
LEMMA LeadingIsLeast ==
    ASSUME NEW n \in Nat, NEW step \in [1 .. n -> SUBSET (1 .. n)]
    PROVE  Leading(n, step) = Least(n, step, n)
<1> DEFINE F(f) == [k \in 0 .. n |->
                      IF k = 0 THEN [i \in 1 .. n |-> {i} \union step[i]]
                      ELSE [i \in 1 .. n |->
                              f[k - 1][i] \union IF k \in f[k - 1][i] THEN f[k - 1][k] ELSE {}]]
           D == [k \in 0 .. n |-> Least(n, step, k)]
           f == CHOOSE g : g = F(g)
<1>1. D = F(D)
  <2>1. ASSUME NEW k \in 0 .. n PROVE D[k] = F(D)[k]
    <3>1. CASE k = 0
      BY <3>1, LeastOfNone
    <3>2. CASE k # 0
      <4>1. k \in 1 .. n /\ k - 1 \in 0 .. n
        BY <3>2
      <4>2. D[k - 1] = Least(n, step, k - 1) /\ D[k] = Least(n, step, k)
        BY <4>1
      <4> QED BY <4>1, <4>2, <3>2, LeastOfMore
    <3> QED BY <3>1, <3>2
  <2> QED BY <2>1
<1>2. f = F(f)
  BY <1>1
<1>3. \A k \in 0 .. n : f[k] = D[k]
  <2> DEFINE S == {k \in 0 .. n : f[k] # D[k]}
  <2>1. SUFFICES ASSUME S # {} PROVE FALSE
    OBVIOUS
  <2>a. S \in SUBSET Nat
    OBVIOUS
  <2> HIDE DEF f, D, S
  <2>2. PICK k \in S : \A m \in S : k <= m
    BY <2>1, <2>a, LeastNumber
  <2> USE DEF S
  <2>3. CASE k = 0
    BY <1>1, <1>2, <2>2, <2>3
  <2>4. CASE k # 0
    <3>1. k - 1 \in 0 .. n /\ k - 1 \notin S
      BY <2>2, <2>4
    <3>2. f[k - 1] = D[k - 1]
      BY <3>1
    <3>3. f[k] = F(f)[k] /\ D[k] = F(D)[k]
      BY <1>1, <1>2
    <3> QED BY <2>2, <2>4, <3>2, <3>3
  <2> QED BY <2>3, <2>4
<1>4. Leading(n, step) = f[n]
  BY DEF Leading
<1> QED BY <1>3, <1>4
----------------------------------------------------------------------------
(* What leads where. *)

\* Where the edges of the nodes of a graph go, and all that a node leads to.
NextOf(graph) == [i \in DOMAIN graph |-> {e.to : e \in Range(graph[i].edges)}]
WaysOf(graph) == Leading(Len(graph), NextOf(graph))
IsStep(n, step) == step \in [1 .. n -> SUBSET (1 .. n)]

LEMMA LeadingIsClosed ==
    ASSUME NEW n \in Nat, NEW step, IsStep(n, step)
    PROVE  /\ Leading(n, step) \in [1 .. n -> SUBSET (1 .. n)]
           /\ \A i \in 1 .. n : i \in Leading(n, step)[i] /\ step[i] \subseteq Leading(n, step)[i]
           /\ \A i \in 1 .. n : \A j \in Leading(n, step)[i] :
                Leading(n, step)[j] \subseteq Leading(n, step)[i]
<1>1. n \in 0 .. n
  OBVIOUS
<1>2. Leading(n, step) \in Closed(n, step, n)
  BY <1>1, LeadingIsLeast, LeastIsClosed DEF IsStep
<1> QED BY <1>2 DEF Closed

\* What is closed under the steps holds all that its members lead to.
LEMMA LeadingStaysIn ==
    ASSUME NEW n \in Nat, NEW step, IsStep(n, step), NEW X \in SUBSET (1 .. n), NEW i \in X,
           \A k \in X : step[k] \subseteq X
    PROVE  Leading(n, step)[i] \subseteq X
<1> DEFINE R == [k \in 1 .. n |-> IF k \in X THEN X ELSE 1 .. n]
<1>1. n \in 0 .. n /\ i \in 1 .. n
  OBVIOUS
<1>2. R \in Closed(n, step, n)
  BY DEF Closed, IsStep
<1>3. Leading(n, step)[i] \subseteq R[i]
  BY <1>1, <1>2, LeadingIsLeast, LeastIsClosed DEF IsStep
<1> QED BY <1>3

\* The first and the last step of a way.
LEMMA FirstStep ==
    ASSUME NEW n \in Nat, NEW step, IsStep(n, step), NEW i \in 1 .. n,
           NEW j \in Leading(n, step)[i], j # i
    PROVE  \E k \in step[i] : j \in Leading(n, step)[k]
<1> DEFINE L == Leading(n, step)
           X == {i} \union {m \in 1 .. n : \E k \in step[i] : m \in L[k]}
<1>1. /\ L \in [1 .. n -> SUBSET (1 .. n)]
      /\ \A k \in 1 .. n : k \in L[k] /\ step[k] \subseteq L[k]
      /\ \A k \in 1 .. n : \A m \in L[k] : L[m] \subseteq L[k]
  BY LeadingIsClosed
<1> HIDE DEF L
<1>2. ASSUME NEW k \in X PROVE step[k] \subseteq X
  <2>1. CASE k = i
    BY <2>1, <1>1 DEF IsStep
  <2>2. CASE k # i
    <3>1. PICK f \in step[i] : k \in L[f]
      BY <2>2
    <3>2. f \in 1 .. n /\ k \in 1 .. n
      BY <3>1 DEF IsStep
    <3>3. step[k] \subseteq L[k] /\ L[k] \subseteq L[f]
      BY <3>1, <3>2, <1>1
    <3> QED BY <3>1, <3>2, <3>3, <1>1
  <2> QED BY <2>1, <2>2
<1>3. X \in SUBSET (1 .. n) /\ i \in X
  OBVIOUS
<1>4. L[i] \subseteq X
  <2> HIDE DEF X
  <2> QED BY <1>2, <1>3, LeadingStaysIn DEF L
<1> QED BY <1>4 DEF L

LEMMA LastStep ==
    ASSUME NEW n \in Nat, NEW step, IsStep(n, step), NEW i \in 1 .. n,
           NEW j \in Leading(n, step)[i], j # i
    PROVE  \E k \in Leading(n, step)[i] : j \in step[k]
<1> DEFINE L == Leading(n, step)
           X == {i} \union {m \in 1 .. n : \E k \in L[i] : m \in step[k]}
<1>1. /\ L \in [1 .. n -> SUBSET (1 .. n)]
      /\ \A k \in 1 .. n : k \in L[k] /\ step[k] \subseteq L[k]
      /\ \A k \in 1 .. n : \A m \in L[k] : L[m] \subseteq L[k]
  BY LeadingIsClosed
<1> HIDE DEF L
<1>2. ASSUME NEW k \in X PROVE step[k] \subseteq X
  <2>1. k \in L[i]
    BY <1>1 DEF IsStep
  <2> QED BY <2>1, <1>1 DEF IsStep
<1>3. X \in SUBSET (1 .. n) /\ i \in X
  OBVIOUS
<1>4. L[i] \subseteq X
  <2> HIDE DEF X
  <2> QED BY <1>2, <1>3, LeadingStaysIn DEF L
<1> QED BY <1>4 DEF L

\* More steps, and more nodes, lead to more.
LEMMA LeadingGrows ==
    ASSUME NEW n \in Nat, NEW m \in Nat, n <= m, NEW step, NEW more,
           IsStep(n, step), IsStep(m, more), \A i \in 1 .. n : step[i] \subseteq more[i],
           NEW i \in 1 .. n
    PROVE  Leading(n, step)[i] \subseteq Leading(m, more)[i]
<1> DEFINE L == Leading(m, more)
           X == L[i] \intersect (1 .. n)
<1>1. /\ L \in [1 .. m -> SUBSET (1 .. m)]
      /\ \A k \in 1 .. m : k \in L[k] /\ more[k] \subseteq L[k]
      /\ \A k \in 1 .. m : \A j \in L[k] : L[j] \subseteq L[k]
  BY LeadingIsClosed
<1>0. i \in 1 .. m
  OBVIOUS
<1> HIDE DEF L
<1>2. ASSUME NEW k \in X PROVE step[k] \subseteq X
  <2>1. k \in 1 .. m /\ k \in 1 .. n /\ k \in L[i]
    OBVIOUS
  <2>2. step[k] \subseteq 1 .. n
    BY <2>1 DEF IsStep
  <2>3. step[k] \subseteq L[k] /\ L[k] \subseteq L[i]
    BY <2>1, <1>0, <1>1
  <2> QED BY <2>2, <2>3
<1>3. X \in SUBSET (1 .. n) /\ i \in X
  BY <1>0, <1>1
<1>4. Leading(n, step)[i] \subseteq X
  <2> HIDE DEF X
  <2> QED BY <1>2, <1>3, LeadingStaysIn
<1> QED BY <1>4 DEF L

\* One more step leads on from what led to it.
LEMMA LeadingThrough ==
    ASSUME NEW n \in Nat, NEW step, NEW more, IsStep(n, step), IsStep(n, more),
           NEW a \in 1 .. n, NEW b \in 1 .. n,
           more[a] = step[a] \union {b}, \A k \in 1 .. n : k # a => more[k] = step[k]
    PROVE  \A i \in 1 .. n : \A j : j \in Leading(n, more)[i] <=>
             j \in Leading(n, step)[i] \/ (a \in Leading(n, step)[i] /\ j \in Leading(n, step)[b])
<1> TAKE i \in 1 .. n
<1> DEFINE L == Leading(n, step)
           M == Leading(n, more)
           X == {j \in 1 .. n : j \in L[i] \/ (a \in L[i] /\ j \in L[b])}
<1>1. /\ L \in [1 .. n -> SUBSET (1 .. n)]
      /\ \A k \in 1 .. n : k \in L[k] /\ step[k] \subseteq L[k]
      /\ \A k \in 1 .. n : \A j \in L[k] : L[j] \subseteq L[k]
  BY LeadingIsClosed
<1>2. /\ M \in [1 .. n -> SUBSET (1 .. n)]
      /\ \A k \in 1 .. n : k \in M[k] /\ more[k] \subseteq M[k]
      /\ \A k \in 1 .. n : \A j \in M[k] : M[j] \subseteq M[k]
  BY LeadingIsClosed
<1>3. \A k \in 1 .. n : L[k] \subseteq M[k]
  <2>1. ASSUME NEW k \in 1 .. n PROVE step[k] \subseteq more[k]
    <3> HIDE DEF L, M
    <3> QED BY k = a \/ k # a
  <2>2. n <= n
    OBVIOUS
  <2> QED BY <2>1, <2>2, LeadingGrows
<1> HIDE DEF L, M
<1>4. ASSUME NEW k \in X PROVE more[k] \subseteq X
  <2>1. k \in 1 .. n
    BY <1>1
  <2>2. step[k] \subseteq X
    <3>1. CASE k \in L[i]
      BY <3>1, <2>1, <1>1
    <3>2. CASE k \notin L[i]
      BY <3>2, <2>1, <1>1
    <3> QED BY <3>1, <3>2
  <2>3. k = a => b \in X
    BY <1>1
  <2> QED BY <2>1, <2>2, <2>3
<1>5. X \in SUBSET (1 .. n) /\ i \in X
  <2>1. X \subseteq 1 .. n
    OBVIOUS
  <2>2. i \in L[i]
    BY <1>1
  <2>3. i \in X
    BY <2>2
  <2> HIDE DEF X
  <2> QED BY <2>1, <2>3
<1>6. M[i] \subseteq X
  <2> HIDE DEF X
  <2> QED BY <1>4, <1>5, LeadingStaysIn DEF M
<1>7. X \subseteq M[i]
  <2>1. a \in L[i] => b \in M[i]
    BY <1>2, <1>3
  <2> QED BY <2>1, <1>2, <1>3
<1>8. M[i] = X
  BY <1>6, <1>7
<1>9. ASSUME NEW j PROVE j \in M[i] <=> j \in L[i] \/ (a \in L[i] /\ j \in L[b])
  BY <1>8, <1>1
<1> QED BY <1>9 DEF L, M

\* One more node, which a node leads to: so does what leads to that.
LEMMA LeadingToNew ==
    ASSUME NEW n \in Nat, NEW step, NEW more, IsStep(n, step), IsStep(n + 1, more),
           NEW a \in 1 .. n, more[n + 1] = {},
           more[a] = step[a] \union {n + 1}, \A k \in 1 .. n : k # a => more[k] = step[k]
    PROVE  /\ Leading(n + 1, more)[n + 1] = {n + 1}
           /\ \A i \in 1 .. n : \A j : j \in Leading(n + 1, more)[i] <=>
                j \in Leading(n, step)[i] \/ (a \in Leading(n, step)[i] /\ j = n + 1)
<1> DEFINE L == Leading(n, step)
           M == Leading(n + 1, more)
<1>0. n + 1 \in Nat /\ n <= n + 1 /\ 1 .. n \subseteq 1 .. (n + 1) /\ n + 1 \in 1 .. (n + 1)
      /\ n + 1 \notin 1 .. n /\ 1 .. (n + 1) = (1 .. n) \union {n + 1}
  OBVIOUS
<1>1. /\ L \in [1 .. n -> SUBSET (1 .. n)]
      /\ \A k \in 1 .. n : k \in L[k] /\ step[k] \subseteq L[k]
      /\ \A k \in 1 .. n : \A j \in L[k] : L[j] \subseteq L[k]
  BY LeadingIsClosed
<1>2. /\ M \in [1 .. (n + 1) -> SUBSET (1 .. (n + 1))]
      /\ \A k \in 1 .. (n + 1) : k \in M[k] /\ more[k] \subseteq M[k]
      /\ \A k \in 1 .. (n + 1) : \A j \in M[k] : M[j] \subseteq M[k]
  BY <1>0, LeadingIsClosed
<1>3. \A k \in 1 .. n : L[k] \subseteq M[k]
  <2>1. \A k \in 1 .. n : step[k] \subseteq more[k]
    OBVIOUS
  <2> QED BY <1>0, <2>1, LeadingGrows
<1>4. M[n + 1] = {n + 1}
  <2>1. {n + 1} \in SUBSET (1 .. (n + 1)) /\ \A k \in {n + 1} : more[k] \subseteq {n + 1}
    BY <1>0
  <2>2. M[n + 1] \subseteq {n + 1}
    BY <1>0, <2>1, LeadingStaysIn
  <2> QED BY <2>2, <1>0, <1>2
<1>5. ASSUME NEW i \in 1 .. n, NEW j
      PROVE  j \in M[i] <=> j \in L[i] \/ (a \in L[i] /\ j = n + 1)
  <2> DEFINE X == {m \in 1 .. (n + 1) : m \in L[i] \/ (a \in L[i] /\ m = n + 1)}
  <2> HIDE DEF L, M
  <2>1. ASSUME NEW k \in X PROVE more[k] \subseteq X
    <3>1. CASE k = n + 1
      BY <3>1
    <3>2. CASE k # n + 1
      <4>1. k \in 1 .. n /\ k \in L[i]
        BY <3>2, <1>1
      <4>2. step[k] \subseteq L[i] /\ L[i] \subseteq X
        BY <4>1, <1>1, <1>0
      <4>3. k = a => n + 1 \in X
        BY <4>1, <1>0
      <4>4. more[k] \subseteq step[k] \union (IF k = a THEN {n + 1} ELSE {})
        BY <4>1
      <4> HIDE DEF X
      <4> QED BY <4>2, <4>3, <4>4
    <3> QED BY <3>1, <3>2
  <2>2. X \in SUBSET (1 .. (n + 1)) /\ i \in X
    <3>1. X \subseteq 1 .. (n + 1)
      OBVIOUS
    <3>2. i \in L[i] /\ i \in 1 .. (n + 1)
      BY <1>0, <1>1
    <3>3. i \in X
      BY <3>2
    <3> HIDE DEF X
    <3> QED BY <3>1, <3>3
  <2>3. M[i] \subseteq X
    <3> HIDE DEF X
    <3> QED BY <1>0, <2>1, <2>2, LeadingStaysIn DEF M
  <2>4. a \in L[i] => n + 1 \in M[i]
    <3>1. n + 1 \in more[a] /\ a \in 1 .. (n + 1) /\ i \in 1 .. (n + 1)
      BY <1>0
    <3>2. n + 1 \in M[a]
      BY <3>1, <1>2
    <3>3. a \in L[i] => M[a] \subseteq M[i]
      BY <3>1, <1>2, <1>3
    <3> QED BY <3>2, <3>3
  <2>5. X \subseteq M[i]
    BY <2>4, <1>3
  <2> QED BY <2>3, <2>5, <1>0, <1>1
<1> QED BY <1>4, <1>5
----------------------------------------------------------------------------
(* Lists. *)

IsList(s) == s \in Seq(Range(s))

LEMMA ListFacts ==
    ASSUME NEW s, IsList(s)
    PROVE  /\ Len(s) \in Nat /\ DOMAIN s = 1 .. Len(s) /\ s = [i \in 1 .. Len(s) |-> s[i]]
           /\ \A i \in 1 .. Len(s) : s[i] \in Range(s)
           /\ s # <<>> => Len(s) \in 1 .. Len(s)
           /\ Len(s) = 0 => s = <<>>
BY DEF IsList, Range

LEMMA ListMade ==
    ASSUME NEW n \in Nat, NEW s, s = [i \in 1 .. n |-> s[i]]
    PROVE  IsList(s) /\ Len(s) = n /\ DOMAIN s = 1 .. n
<1>1. s \in [1 .. n -> Range(s)]
  BY DEF Range
<1> QED BY <1>1 DEF IsList

LEMMA ListAppended ==
    ASSUME NEW s, NEW x, IsList(s)
    PROVE  /\ IsList(Append(s, x)) /\ Len(Append(s, x)) = Len(s) + 1
           /\ DOMAIN Append(s, x) = 1 .. (Len(s) + 1)
           /\ \A i \in 1 .. Len(s) : Append(s, x)[i] = s[i]
           /\ Append(s, x)[Len(s) + 1] = x
           /\ Range(Append(s, x)) = Range(s) \union {x}
<1> DEFINE S == Range(s) \union {x}
<1>1. s \in Seq(S) /\ x \in S
  BY DEF IsList
<1>2. Append(s, x) \in Seq(S) /\ Len(Append(s, x)) = Len(s) + 1
      /\ DOMAIN Append(s, x) = 1 .. (Len(s) + 1)
  BY <1>1
<1>3. \A i \in 1 .. Len(s) : Append(s, x)[i] = s[i]
  BY <1>1
<1>4. Append(s, x)[Len(s) + 1] = x
  BY <1>1
<1>5. Len(s) \in Nat /\ DOMAIN s = 1 .. Len(s)
  BY <1>1
<1>6. Range(Append(s, x)) = S
  <2>1. S \subseteq Range(Append(s, x))
    BY <1>2, <1>3, <1>4, <1>5 DEF Range
  <2>2. ASSUME NEW i \in 1 .. (Len(s) + 1) PROVE Append(s, x)[i] \in S
    BY <1>3, <1>4, <1>5 DEF Range
  <2> QED BY <2>1, <2>2, <1>2 DEF Range
<1> QED BY <1>2, <1>3, <1>4, <1>6 DEF IsList

LEMMA ListFront ==
    ASSUME NEW s, IsList(s), s # <<>>
    PROVE  /\ IsList(Front(s)) /\ Len(Front(s)) = Len(s) - 1
           /\ DOMAIN Front(s) = 1 .. (Len(s) - 1)
           /\ \A i \in 1 .. (Len(s) - 1) : Front(s)[i] = s[i]
<1>1. Len(s) \in Nat \ {0} /\ DOMAIN s = 1 .. Len(s)
  BY DEF IsList
<1>2. Front(s) = [i \in 1 .. (Len(s) - 1) |-> s[i]]
  BY <1>1 DEF Front, IsList
<1>3. Len(s) - 1 \in Nat
  BY <1>1
<1>4. \A i \in 1 .. (Len(s) - 1) : Front(s)[i] = s[i]
  BY <1>2
<1>5. Front(s) = [i \in 1 .. (Len(s) - 1) |-> Front(s)[i]]
  BY <1>2
<1> QED BY <1>3, <1>4, <1>5, ListMade

LEMMA ListReplaced ==
    ASSUME NEW s, IsList(s), NEW k \in 1 .. Len(s), NEW x
    PROVE  /\ IsList([s EXCEPT ![k] = x]) /\ Len([s EXCEPT ![k] = x]) = Len(s)
           /\ DOMAIN [s EXCEPT ![k] = x] = 1 .. Len(s)
           /\ \A i \in 1 .. Len(s) : [s EXCEPT ![k] = x][i] = IF i = k THEN x ELSE s[i]
<1>1. Len(s) \in Nat /\ DOMAIN s = 1 .. Len(s)
  BY DEF IsList
<1>2. [s EXCEPT ![k] = x] = [i \in 1 .. Len(s) |-> [s EXCEPT ![k] = x][i]]
  BY <1>1
<1> QED BY <1>1, <1>2, ListMade

LEMMA ListTail ==
    ASSUME NEW s, IsList(s), s # <<>>
    PROVE  /\ IsList(Tail(s)) /\ Len(Tail(s)) = Len(s) - 1
           /\ \A i \in 1 .. (Len(s) - 1) : Tail(s)[i] = s[i + 1]
           /\ Range(s) = {Head(s)} \union Range(Tail(s))
           /\ Head(s) = s[1] /\ Head(s) \in Range(s)
<1>1. Tail(s) \in Seq(Range(s)) /\ Len(Tail(s)) = Len(s) - 1 /\ Head(s) = s[1]
      /\ \A i \in 1 .. (Len(s) - 1) : Tail(s)[i] = s[i + 1]
  BY DEF IsList
<1>2. Len(s) \in Nat \ {0} /\ DOMAIN s = 1 .. Len(s) /\ DOMAIN Tail(s) = 1 .. (Len(s) - 1)
  BY <1>1 DEF IsList
<1>3. Tail(s) = [i \in 1 .. (Len(s) - 1) |-> Tail(s)[i]] /\ Len(s) - 1 \in Nat
  <2> DEFINE t == Tail(s)
  <2>1. t \in Seq(Range(s)) /\ Len(t) = Len(s) - 1 /\ Len(s) - 1 \in Nat
    BY <1>1, <1>2
  <2> HIDE DEF t
  <2>2. t = [i \in 1 .. Len(t) |-> t[i]]
    BY <2>1
  <2> QED BY <2>1, <2>2 DEF t
<1>4. Range(s) = {Head(s)} \union Range(Tail(s))
  <2>1. Range(Tail(s)) \subseteq Range(s) /\ Head(s) \in Range(s)
    BY <1>1, <1>2 DEF Range
  <2>2. ASSUME NEW i \in 1 .. Len(s) PROVE s[i] \in {Head(s)} \union Range(Tail(s))
    <3>1. i = 1 \/ (i - 1 \in 1 .. (Len(s) - 1) /\ (i - 1) + 1 = i)
      BY <1>2
    <3> QED BY <3>1, <1>1, <1>2 DEF Range
  <2> QED BY <2>1, <2>2, <1>2 DEF Range
<1> QED BY <1>1, <1>2, <1>3, <1>4, ListMade DEF Range

\* The requirements that are handled: none that only overrides another comes first, and
\* none that does not is left out.
LEMMA HandledIs ==
    ASSUME NEW reqs, IsList(reqs)
    PROVE  /\ IsList(Handled(reqs)) /\ Range(Handled(reqs)) \subseteq Range(reqs)
           /\ Handled(reqs) # <<>> => ~Head(Handled(reqs)).override
           /\ \A r \in Range(reqs) : ~r.override => r \in Range(Handled(reqs))
<1> DEFINE required == {i \in DOMAIN reqs : ~reqs[i].override}
           n == Len(reqs)
           m == Min(required)
<1>1. n \in Nat /\ DOMAIN reqs = 1 .. n /\ \A i \in 1 .. n : reqs[i] \in Range(reqs)
  BY ListFacts
<1>2. CASE required = {}
  <2>1. Handled(reqs) = <<>>
    BY <1>2 DEF Handled
  <2>2. IsList(<<>>) /\ Range(<<>>) = {}
    BY DEF IsList, Range
  <2> QED BY <2>1, <2>2, <1>2 DEF Range
<1>3. CASE required # {}
  <2>1. required \in SUBSET Nat
    BY <1>1
  <2>2. m \in required /\ \A i \in required : m <= i
    <3> HIDE DEF required
    <3> QED BY <2>1, <1>3, LeastNumber DEF Min
  <2> DEFINE h == SubSeq(reqs, m, n)
  <2>3. Handled(reqs) = h
    BY <1>3 DEF Handled
  <2>4. m \in 1 .. n
    BY <1>1, <2>2
  <2> HIDE DEF m, required
  <2>5. h = [i \in 1 .. (n - m + 1) |-> reqs[m + i - 1]] /\ n - m + 1 \in Nat
    BY <1>1, <2>4 DEF IsList
  <2>6. IsList(h) /\ Len(h) = n - m + 1 /\ DOMAIN h = 1 .. (n - m + 1)
    <3>1. h = [i \in 1 .. (n - m + 1) |-> h[i]]
      BY <2>5
    <3> QED BY <2>5, <3>1, ListMade
  <2>7. \A i \in DOMAIN h : h[i] = reqs[m + i - 1] /\ m + i - 1 \in 1 .. n
    BY <2>5, <2>6, <2>4, <1>1
  <2>8. Head(h) = reqs[m]
    BY <2>6, <2>7, <2>4, <1>1 DEF IsList
  <2>9. ASSUME NEW r \in Range(reqs), ~r.override PROVE r \in Range(h)
    <3>1. PICK i \in 1 .. n : reqs[i] = r
      BY <1>1 DEF Range
    <3>2. m <= i
      BY <3>1, <2>9, <2>2, <1>1 DEF required
    <3>3. i - m + 1 \in DOMAIN h /\ m + (i - m + 1) - 1 = i
      BY <3>2, <2>4, <2>6, <1>1
    <3> QED BY <3>1, <3>3, <2>7 DEF Range
  <2>10. ~reqs[m].override
    BY <2>2 DEF required
  <2>11. Range(h) \subseteq Range(reqs)
    BY <2>7, <1>1 DEF Range
  <2> QED BY <2>3, <2>6, <2>8, <2>9, <2>10, <2>11
<1> QED BY <1>2, <1>3
----------------------------------------------------------------------------
(* What leads where in a graph, and in one that grows. *)

IsGraph(graph) ==
    IsList(graph) /\ \A i \in DOMAIN graph : \A e \in Range(graph[i].edges) : e.to \in DOMAIN graph
Targets(edges) == {e.to : e \in Range(edges)}
Leads(graph, i, j) == j \in WaysOf(graph)[i]

LEMMA GraphSteps ==
    ASSUME NEW graph, IsGraph(graph)
    PROVE  /\ Len(graph) \in Nat /\ DOMAIN graph = 1 .. Len(graph)
           /\ IsStep(Len(graph), NextOf(graph))
BY ListFacts DEF IsGraph, IsStep, NextOf

LEMMA GraphWays ==
    ASSUME NEW graph, IsGraph(graph)
    PROVE  /\ \A i \in DOMAIN graph : Leads(graph, i, i)
           /\ \A i \in DOMAIN graph : \A j : Leads(graph, i, j) => j \in DOMAIN graph
           /\ \A i \in DOMAIN graph : \A e \in Range(graph[i].edges) : Leads(graph, i, e.to)
           /\ \A i \in DOMAIN graph : \A j, k :
                Leads(graph, i, j) /\ Leads(graph, j, k) => Leads(graph, i, k)
<1>1. /\ WaysOf(graph) \in [DOMAIN graph -> SUBSET DOMAIN graph]
      /\ \A i \in DOMAIN graph : i \in WaysOf(graph)[i] /\ NextOf(graph)[i] \subseteq WaysOf(graph)[i]
      /\ \A i \in DOMAIN graph : \A j \in WaysOf(graph)[i] : WaysOf(graph)[j] \subseteq WaysOf(graph)[i]
  BY GraphSteps, LeadingIsClosed DEF WaysOf
<1>2. \A i \in DOMAIN graph : NextOf(graph)[i] = {e.to : e \in Range(graph[i].edges)}
  BY DEF NextOf
<1> QED BY <1>1, <1>2 DEF Leads

LEMMA FirstEdge ==
    ASSUME NEW graph, IsGraph(graph), NEW i \in DOMAIN graph, NEW j, Leads(graph, i, j), j # i
    PROVE  \E e \in Range(graph[i].edges) : Leads(graph, e.to, j)
<1>1. NextOf(graph)[i] = {e.to : e \in Range(graph[i].edges)}
  BY DEF NextOf
<1>2. \E k \in NextOf(graph)[i] : j \in Leading(Len(graph), NextOf(graph))[k]
  BY GraphSteps, FirstStep DEF Leads, WaysOf
<1> QED BY <1>1, <1>2 DEF Leads, WaysOf

LEMMA LastEdge ==
    ASSUME NEW graph, IsGraph(graph), NEW i \in DOMAIN graph, NEW j, Leads(graph, i, j), j # i
    PROVE  \E k \in DOMAIN graph :
             Leads(graph, i, k) /\ \E e \in Range(graph[k].edges) : e.to = j
<1>1. \A k \in DOMAIN graph : NextOf(graph)[k] = {e.to : e \in Range(graph[k].edges)}
  BY DEF NextOf
<1>2. \E k \in Leading(Len(graph), NextOf(graph))[i] : j \in NextOf(graph)[k]
  BY GraphSteps, LastStep DEF Leads, WaysOf
<1>3. \A k : Leads(graph, i, k) => k \in DOMAIN graph
  BY GraphWays
<1> QED BY <1>1, <1>2, <1>3 DEF Leads, WaysOf

\* What is closed under the edges.
LEMMA WaysStayIn ==
    ASSUME NEW graph, IsGraph(graph), NEW X \in SUBSET DOMAIN graph, NEW i \in X,
           \A k \in X : \A e \in Range(graph[k].edges) : e.to \in X
    PROVE  \A j : Leads(graph, i, j) => j \in X
<1>1. \A k \in X : NextOf(graph)[k] \subseteq X
  BY DEF NextOf
<1>2. Leading(Len(graph), NextOf(graph))[i] \subseteq X
  BY <1>1, GraphSteps, LeadingStaysIn
<1> QED BY <1>2 DEF Leads, WaysOf

LEMMA WaysOfSame ==
    ASSUME NEW graph, NEW other, IsGraph(graph), IsList(other), Len(other) = Len(graph),
           \A k \in DOMAIN graph : other[k].edges = graph[k].edges
    PROVE  IsGraph(other) /\ DOMAIN other = DOMAIN graph /\ WaysOf(other) = WaysOf(graph)
<1>1. DOMAIN other = DOMAIN graph
  BY ListFacts DEF IsGraph
<1>2. NextOf(other) = NextOf(graph)
  BY <1>1 DEF NextOf
<1> QED BY <1>1, <1>2 DEF IsGraph, WaysOf

\* The same graph, but for one more edge.
MoreEdge(graph, other, a, b) ==
    /\ IsGraph(graph) /\ a \in DOMAIN graph /\ b \in DOMAIN graph
    /\ IsList(other) /\ Len(other) = Len(graph)
    /\ \A k \in DOMAIN graph : k # a => other[k].edges = graph[k].edges
    /\ Targets(other[a].edges) = Targets(graph[a].edges) \union {b}

LEMMA WaysOfLinked ==
    ASSUME NEW graph, NEW other, NEW a, NEW b, MoreEdge(graph, other, a, b)
    PROVE  /\ IsGraph(other) /\ DOMAIN other = DOMAIN graph
           /\ \A i \in DOMAIN graph : \A j : Leads(other, i, j) <=>
                Leads(graph, i, j) \/ (Leads(graph, i, a) /\ Leads(graph, b, j))
<1> USE DEF MoreEdge
<1>1. DOMAIN other = DOMAIN graph
  BY ListFacts DEF IsGraph
<1>2. /\ NextOf(other)[a] = NextOf(graph)[a] \union {b}
      /\ \A k \in DOMAIN graph : k # a => NextOf(other)[k] = NextOf(graph)[k]
  BY <1>1 DEF NextOf, Targets
<1>3. IsGraph(other)
  <2>1. ASSUME NEW k \in DOMAIN graph PROVE Targets(other[k].edges) \subseteq DOMAIN graph
    <3>1. Targets(graph[k].edges) \subseteq DOMAIN graph
      BY DEF IsGraph, Targets
    <3> QED BY <3>1
  <2> QED BY <1>1, <2>1 DEF IsGraph, Targets
<1>4. \A i \in DOMAIN graph : \A j : j \in WaysOf(other)[i] <=>
        j \in WaysOf(graph)[i] \/ (a \in WaysOf(graph)[i] /\ j \in WaysOf(graph)[b])
  <2> DEFINE n == Len(graph)
             step == NextOf(graph)
             more == NextOf(other)
  <2>1. n \in Nat /\ IsStep(n, step) /\ IsStep(n, more) /\ a \in 1 .. n /\ b \in 1 .. n
        /\ DOMAIN graph = 1 .. n
    BY <1>3, GraphSteps
  <2>2. more[a] = step[a] \union {b} /\ \A k \in 1 .. n : k # a => more[k] = step[k]
    BY <1>2, <2>1
  <2> HIDE DEF n, step, more
  <2>3. \A i \in 1 .. n : \A j : j \in Leading(n, more)[i] <=>
          j \in Leading(n, step)[i] \/ (a \in Leading(n, step)[i] /\ j \in Leading(n, step)[b])
    BY <2>1, <2>2, LeadingThrough
  <2> QED BY <2>1, <2>3 DEF WaysOf, n, step, more
<1> QED BY <1>1, <1>3, <1>4 DEF Leads

\* The same graph, but for one more node, and an edge to it.
MoreNode(graph, other, a) ==
    /\ IsGraph(graph) /\ a \in DOMAIN graph
    /\ IsList(other) /\ Len(other) = Len(graph) + 1
    /\ Range(other[Len(graph) + 1].edges) = {}
    /\ \A k \in DOMAIN graph : k # a => other[k].edges = graph[k].edges
    /\ Targets(other[a].edges) = Targets(graph[a].edges) \union {Len(graph) + 1}

LEMMA WaysToNew ==
    ASSUME NEW graph, NEW other, NEW a, MoreNode(graph, other, a)
    PROVE  /\ IsGraph(other) /\ DOMAIN other = DOMAIN graph \union {Len(graph) + 1}
           /\ Len(graph) + 1 \notin DOMAIN graph
           /\ \A i \in DOMAIN graph : \A j : Leads(other, i, j) <=>
                Leads(graph, i, j) \/ (Leads(graph, i, a) /\ j = Len(graph) + 1)
           /\ \A j : Leads(other, Len(graph) + 1, j) <=> j = Len(graph) + 1
<1> DEFINE n == Len(graph)
           step == NextOf(graph)
           more == NextOf(other)
<1>0. /\ IsGraph(graph) /\ a \in DOMAIN graph /\ IsList(other) /\ Len(other) = Len(graph) + 1
      /\ Range(other[Len(graph) + 1].edges) = {}
      /\ \A k \in DOMAIN graph : k # a => other[k].edges = graph[k].edges
      /\ Targets(other[a].edges) = Targets(graph[a].edges) \union {Len(graph) + 1}
  BY DEF MoreNode
<1>1. n \in Nat /\ DOMAIN graph = 1 .. n /\ DOMAIN other = 1 .. (n + 1)
      /\ 1 .. (n + 1) = (1 .. n) \union {n + 1} /\ n + 1 \notin 1 .. n /\ n + 1 \in Nat
  BY <1>0, ListFacts DEF IsGraph
<1>2. more[a] = step[a] \union {n + 1} /\ \A k \in 1 .. n : k # a => more[k] = step[k]
  BY <1>0, <1>1 DEF NextOf, Targets
<1>3. more[n + 1] = {}
  BY <1>0, <1>1 DEF NextOf
<1>4. IsGraph(other)
  <2>1. ASSUME NEW k \in DOMAIN graph
        PROVE  Targets(other[k].edges) \subseteq DOMAIN other
    <3>1. Targets(graph[k].edges) \subseteq DOMAIN graph
      BY <1>0 DEF IsGraph, Targets
    <3> QED BY <3>1, <1>0, <1>1
  <2>2. ASSUME NEW k \in DOMAIN other, NEW e \in Range(other[k].edges) PROVE e.to \in DOMAIN other
    <3>1. k \in DOMAIN graph
      BY <1>0, <1>1
    <3> QED BY <2>1, <3>1 DEF Targets
  <2> QED BY <1>0, <2>2 DEF IsGraph
<1>5. IsStep(n, step) /\ IsStep(n + 1, more) /\ a \in 1 .. n
  BY <1>0, <1>1, <1>4, GraphSteps
<1> HIDE DEF n, step, more
<1>6. /\ Leading(n + 1, more)[n + 1] = {n + 1}
      /\ \A i \in 1 .. n : \A j : j \in Leading(n + 1, more)[i] <=>
                j \in Leading(n, step)[i] \/ (a \in Leading(n, step)[i] /\ j = n + 1)
  BY <1>1, <1>2, <1>3, <1>5, LeadingToNew, SMTT(60)
<1>7. WaysOf(other) = Leading(n + 1, more) /\ WaysOf(graph) = Leading(n, step)
  BY <1>0 DEF WaysOf, n, step, more
<1>8. ASSUME NEW i \in DOMAIN graph, NEW j
      PROVE  Leads(other, i, j) <=> Leads(graph, i, j) \/ (Leads(graph, i, a) /\ j = n + 1)
  BY <1>1, <1>6, <1>7 DEF Leads
<1>9. \A j : Leads(other, n + 1, j) <=> j = n + 1
  BY <1>6, <1>7 DEF Leads
<1> QED BY <1>1, <1>4, <1>8, <1>9 DEF n
----------------------------------------------------------------------------
(* What the state is made of. *)

IsRecord(r, fields) == r = [f \in fields |-> r[f]]

RequirementFields == {"name", "version", "range", "private", "override", "build"}
IsRequirement(r) == IsRecord(r, RequirementFields) /\ r.name \in Name
AreRequirements(reqs) == IsList(reqs) /\ \A r \in Range(reqs) : IsRequirement(r)
IsTable(reqs) == \A n \in DOMAIN reqs : IsRequirement(reqs[n]) /\ reqs[n].name = n

NodeFields ==
    {"name", "version", "recipe", "requires", "option", "modified", "asks", "changed",
     "frozen", "evaluated", "ancestors", "deps", "closure", "inverse", "private", "build",
     "edges"}
NodeShape(i) ==
    /\ IsRecord(nodes[i], NodeFields)
    /\ nodes[i].name \in Name \union {Root}
    /\ nodes[i].recipe \in Worlds[world].recipes[nodes[i].name]
    /\ AreRequirements(nodes[i].requires)
    /\ IsList(nodes[i].edges)
    /\ \A e \in Range(nodes[i].edges) : e.to \in DOMAIN nodes
    /\ \A n \in DOMAIN nodes[i].deps :
         nodes[i].deps[n] \in DOMAIN nodes /\ nodes[nodes[i].deps[n]].name = n
    /\ \A n \in DOMAIN nodes[i].closure :
         nodes[i].closure[n] \in DOMAIN nodes /\ nodes[nodes[i].closure[n]].name = n
    /\ nodes[i].inverse \subseteq DOMAIN nodes

CallFields == {"step", "node", "reqs"}
ExpansionFields == {"step", "node", "reqs", "asks", "left"}
FrameShape(k) ==
    /\ stack[k].node \in DOMAIN nodes
    /\ IsTable(stack[k].reqs)
    /\ \/ /\ stack[k].step = "config" /\ k = Len(stack)
          /\ IsRecord(stack[k], CallFields)
       \/ /\ stack[k].step = "expand"
          /\ IsRecord(stack[k], ExpansionFields) /\ AreRequirements(stack[k].left)

RecipesShape ==
    \A ref \in DOMAIN recipes :
        ref[1] \in Name \union {Root} /\ recipes[ref] \in Worlds[world].recipes[ref[1]]

GraphFields == {"nodes", "levels", "todo", "left"}
GraphsShape ==
    /\ IsList(graphs)
    /\ \A k \in DOMAIN graphs :
         IsRecord(graphs[k], GraphFields) /\ graphs[k].left \subseteq DOMAIN nodes

NodesShape == IsList(nodes) /\ 1 \in DOMAIN nodes /\ \A i \in DOMAIN nodes : NodeShape(i)
StackShape == IsList(stack) /\ \A k \in DOMAIN stack : FrameShape(k)

Shape ==
    /\ world \in DOMAIN Worlds
    /\ NodesShape /\ StackShape /\ RecipesShape /\ GraphsShape
    /\ outcome \in {"done", "evaluating", "evaluated"} => stack = <<>>
    /\ outcome = "evaluating" => graphs # <<>>

\* What only making a node or closing a diamond changes.
SameLinks(i) ==
    /\ nodes'[i].name = nodes[i].name /\ nodes'[i].version = nodes[i].version
    /\ nodes'[i].recipe = nodes[i].recipe /\ nodes'[i].ancestors = nodes[i].ancestors
    /\ nodes'[i].deps = nodes[i].deps /\ nodes'[i].closure = nodes[i].closure
    /\ nodes'[i].inverse = nodes[i].inverse /\ nodes'[i].private = nodes[i].private
    /\ nodes'[i].build = nodes[i].build /\ nodes'[i].edges = nodes[i].edges
\* What only configuring or evaluating a node changes.
SameWishes(i) ==
    /\ nodes'[i].name = nodes[i].name /\ nodes'[i].version = nodes[i].version
    /\ nodes'[i].recipe = nodes[i].recipe /\ nodes'[i].requires = nodes[i].requires
    /\ nodes'[i].option = nodes[i].option /\ nodes'[i].modified = nodes[i].modified
    /\ nodes'[i].asks = nodes[i].asks /\ nodes'[i].changed = nodes[i].changed
    /\ nodes'[i].frozen = nodes[i].frozen /\ nodes'[i].evaluated = nodes[i].evaluated

LEMMA RecipeIs ==
    ASSUME NEW w \in DOMAIN Worlds, NEW n \in Name \union {Root},
           NEW recipe \in Worlds[w].recipes[n]
    PROVE  SoundRecipe(n, recipe)
BY RecipesAreSound

LEMMA RequirementsAre ==
    ASSUME NEW reqs \in Seq(Requirements)
    PROVE  AreRequirements(reqs)
<1>1. ASSUME NEW r \in Requirements PROVE IsRequirement(r)
  BY DEF Requirements, IsRequirement, IsRecord, RequirementFields
<1>2. IsList(reqs) /\ Range(reqs) \subseteq Requirements
  BY DEF IsList, Range
<1> QED BY <1>1, <1>2 DEF AreRequirements

\* The requirements of a recipe, with an option or without.
LEMMA RequiresOfRecipe ==
    ASSUME NEW n, NEW recipe, SoundRecipe(n, recipe), NEW option
    PROVE  /\ AreRequirements(recipe.requires) /\ AreRequirements(recipe.tools)
           /\ Requires(recipe, option) \in Seq(Requirements)
           /\ AreRequirements(Requires(recipe, option))
           /\ ~recipe.method => Range(Requires(recipe, option)) = Range(recipe.requires)
<1>1. recipe.requires \in Seq(Requirements) /\ recipe.optional \in Seq(Requirements)
      /\ recipe.tools \in Seq(Requirements)
  BY DEF SoundRecipe
<1>2. Requires(recipe, option) \in Seq(Requirements)
  <2>1. option = 2 \/ option # 2
    OBVIOUS
  <2> QED BY <1>1, <2>1 DEF Requires
<1>3. ASSUME ~recipe.method
      PROVE  Range(Requires(recipe, option)) = Range(recipe.requires)
  <2>1. recipe.optional = <<>>
    BY <1>3 DEF SoundRecipe
  <2>2. Requires(recipe, option) = recipe.requires
    BY <2>1, <1>1 DEF Requires
  <2> QED BY <2>2
<1> QED BY <1>1, <1>2, <1>3, RequirementsAre

\* The same requirement, but for its version.
SameRequirement(r, s) ==
    /\ IsRequirement(s) /\ s.name = r.name /\ s.range = r.range
    /\ s.private = r.private /\ s.override = r.override /\ s.build = r.build

LEMMA ResolvedIs ==
    ASSUME NEW r, IsRequirement(r), NEW down
    PROVE  SameRequirement(r, Resolved(Overridden(r, down)))
<1>1. ASSUME NEW q, IsRequirement(q), NEW v
      PROVE  SameRequirement(q, [q EXCEPT !.version = v])
  BY <1>1 DEF SameRequirement, IsRequirement, IsRecord, RequirementFields
<1>2. ASSUME NEW q, IsRequirement(q) PROVE SameRequirement(q, q)
  BY <1>2 DEF SameRequirement
<1> DEFINE q == Overridden(r, down)
<1>3. SameRequirement(r, q)
  <2>1. CASE ~r.private /\ r.name \in DOMAIN down
    <3>1. q = [r EXCEPT !.version = down[r.name].version]
      BY <2>1 DEF Overridden
    <3> QED BY <3>1, <1>1
  <2>2. CASE ~(~r.private /\ r.name \in DOMAIN down)
    <3>1. q = r
      BY <2>2 DEF Overridden
    <3> QED BY <3>1, <1>2
  <2> QED BY <2>1, <2>2
<1> HIDE DEF q
<1>4. SameRequirement(q, Resolved(q))
  <2>1. CASE q.range = {} \/ q.version # 0
    <3>1. Resolved(q) = q
      BY <2>1 DEF Resolved
    <3> QED BY <3>1, <1>3, <1>2 DEF SameRequirement
  <2>2. CASE ~(q.range = {} \/ q.version # 0)
    <3>1. PICK w : Resolved(q) = [q EXCEPT !.version = w]
      BY <2>2 DEF Resolved
    <3> QED BY <3>1, <1>3, <1>1 DEF SameRequirement
  <2> QED BY <2>1, <2>2
<1> QED BY <1>3, <1>4 DEF q, SameRequirement

\* What a node requires when it is configured.
LEMMA WantedIs ==
    ASSUME Shape, Top.node \in DOMAIN nodes, NEW down
    PROVE  LET before == IF Here.recipe.method THEN Requires(Here.recipe, NewOption)
                         ELSE Here.requires
           IN  /\ AreRequirements(Wanted(down)) /\ Len(Wanted(down)) = Len(before)
               /\ AreRequirements(before)
               /\ \A i \in DOMAIN before : i \in DOMAIN Wanted(down)
                    /\ Wanted(down)[i] = Resolved(Overridden(before[i], down))
                    /\ SameRequirement(before[i], Wanted(down)[i])
               /\ DOMAIN Wanted(down) = DOMAIN before
<1> DEFINE before == IF Here.recipe.method THEN Requires(Here.recipe, NewOption)
                     ELSE Here.requires
<1>1. AreRequirements(before)
  <2>1. NodeShape(Top.node)
    BY DEF Shape, NodesShape
  <2>2. SoundRecipe(Here.name, Here.recipe)
    BY <2>1, RecipeIs DEF Shape, NodeShape, Here
  <2>3. AreRequirements(Requires(Here.recipe, NewOption))
    BY <2>2, RequiresOfRecipe
  <2> QED BY <2>1, <2>3 DEF NodeShape, Here
<1>2. Wanted(down) = [i \in DOMAIN before |-> Resolved(Overridden(before[i], down))]
  BY DEF Wanted
<1> HIDE DEF before
<1>3. Len(before) \in Nat /\ DOMAIN before = 1 .. Len(before)
      /\ \A i \in DOMAIN before : before[i] \in Range(before)
  BY <1>1, ListFacts DEF AreRequirements
<1>4. ASSUME NEW i \in DOMAIN before
      PROVE  /\ Wanted(down)[i] = Resolved(Overridden(before[i], down))
             /\ SameRequirement(before[i], Wanted(down)[i])
  BY <1>1, <1>2, <1>3, ResolvedIs DEF AreRequirements
<1>5. IsList(Wanted(down)) /\ Len(Wanted(down)) = Len(before) /\ DOMAIN Wanted(down) = DOMAIN before
  <2>1. Wanted(down) = [i \in 1 .. Len(before) |-> Wanted(down)[i]]
    BY <1>2, <1>3
  <2> QED BY <2>1, <1>3, ListMade
<1>6. AreRequirements(Wanted(down))
  BY <1>4, <1>5 DEF AreRequirements, Range, SameRequirement
<1> QED BY <1>1, <1>4, <1>5, <1>6 DEF before

\* Where a node is configured, and what is left to require for another.
LEMMA CallIs ==
    ASSUME Shape, Calling
    PROVE  /\ Len(stack) \in DOMAIN stack /\ FrameShape(Len(stack))
           /\ Top.node \in DOMAIN nodes /\ NodeShape(Top.node) /\ IsTable(Top.reqs)
BY ListFacts DEF Shape, NodesShape, StackShape, Calling, Top, FrameShape

LEMMA ExpansionIs ==
    ASSUME Shape, Expanding
    PROVE  /\ Len(stack) \in DOMAIN stack /\ FrameShape(Len(stack))
           /\ Top.node \in DOMAIN nodes /\ NodeShape(Top.node) /\ IsTable(Top.reqs)
           /\ IsRecord(Top, ExpansionFields) /\ AreRequirements(Top.left)
           /\ Top.left # <<>> => IsRequirement(Next1) /\ Next1 \in Range(Top.left)
<1>1. Len(stack) \in DOMAIN stack /\ FrameShape(Len(stack)) /\ Top = stack[Len(stack)]
      /\ Top.step = "expand"
  BY ListFacts DEF Shape, StackShape, Expanding, Top
<1>2. IsRecord(Top, ExpansionFields) /\ AreRequirements(Top.left) /\ IsTable(Top.reqs)
      /\ Top.node \in DOMAIN nodes
  BY <1>1 DEF FrameShape
<1>3. NodeShape(Top.node)
  BY <1>2 DEF Shape, NodesShape
<1>4. Top.left # <<>> => Next1 \in Range(Top.left)
  BY <1>2, ListTail DEF AreRequirements, Next1
<1> QED BY <1>1, <1>2, <1>3, <1>4 DEF AreRequirements
----------------------------------------------------------------------------
(* What the actions do. *)

LEMMA WithIs ==
    ASSUME NEW f, NEW n, NEW x
    PROVE  /\ DOMAIN With(f, n, x) = DOMAIN f \union {n} /\ With(f, n, x)[n] = x
           /\ \A m \in DOMAIN f : m # n => With(f, n, x)[m] = f[m]
BY DEF With

LEMMA MergeIs ==
    ASSUME NEW f, NEW g
    PROVE  /\ DOMAIN Merge(f, g) = DOMAIN f \union DOMAIN g
           /\ \A m \in DOMAIN g : Merge(f, g)[m] = g[m]
           /\ \A m \in DOMAIN f \ DOMAIN g : Merge(f, g)[m] = f[m]
BY DEF Merge

\* What goes upstream.
LEMMA UpstreamIs ==
    ASSUME NEW down, IsTable(down), NEW reqs, AreRequirements(reqs)
    PROVE  LET up == Upstream(down, reqs)
           IN  /\ IsTable(up)
               /\ \A n \in DOMAIN up :
                    \/ up[n] \in Range(reqs) /\ ~up[n].private
                    \/ n \in DOMAIN down \ {Here.name} /\ up[n] = down[n]
               /\ \A n \in DOMAIN down : n = Here.name \/ n \in DOMAIN up
               /\ \A r \in Range(reqs) : r.private \/ r.name \in DOMAIN up
<1> DEFINE public == {i \in DOMAIN reqs : ~reqs[i].private}
           own == [n \in {reqs[i].name : i \in public} |->
                     reqs[CHOOSE i \in public : reqs[i].name = n]]
           rest == [n \in DOMAIN down \ {Here.name} |-> down[n]]
           up == Merge(rest, own)
<1>1. Upstream(down, reqs) = up
  BY DEF Upstream
<1>2. \A i \in DOMAIN reqs : IsRequirement(reqs[i]) /\ reqs[i] \in Range(reqs)
  BY DEF AreRequirements, Range
<1>3. ASSUME NEW n \in DOMAIN own
      PROVE  /\ own[n] \in Range(reqs) /\ ~own[n].private /\ IsRequirement(own[n])
             /\ own[n].name = n
  <2>1. \E i \in public : reqs[i].name = n
    OBVIOUS
  <2>2. (CHOOSE i \in public : reqs[i].name = n) \in public
        /\ reqs[CHOOSE i \in public : reqs[i].name = n].name = n
    BY <2>1
  <2>3. own[n] = reqs[CHOOSE i \in public : reqs[i].name = n]
    OBVIOUS
  <2> QED BY <2>2, <2>3, <1>2
<1>4. /\ DOMAIN up = DOMAIN rest \union DOMAIN own
      /\ \A n \in DOMAIN own : up[n] = own[n]
      /\ \A n \in DOMAIN rest \ DOMAIN own : up[n] = rest[n]
  <2> HIDE DEF own, rest
  <2> QED BY MergeIs
<1>5. DOMAIN rest = DOMAIN down \ {Here.name} /\ \A n \in DOMAIN rest : rest[n] = down[n]
  OBVIOUS
<1>6. \A r \in Range(reqs) : r.private \/ r.name \in DOMAIN own
  BY DEF Range
<1> HIDE DEF own, rest, up
<1>7. IsTable(up)
  BY <1>3, <1>4, <1>5 DEF IsTable
<1> QED BY <1>1, <1>3, <1>4, <1>5, <1>6, <1>7

LEMMA PoppedIs ==
    ASSUME Shape, Expanding, Top.left # <<>>
    PROVE  /\ IsList(Popped) /\ Len(Popped) = Len(stack) /\ DOMAIN Popped = DOMAIN stack
           /\ \A k \in 1 .. Len(stack) : k # Len(stack) => Popped[k] = stack[k]
           /\ IsRecord(Popped[Len(stack)], ExpansionFields)
           /\ Popped[Len(stack)].step = "expand" /\ Popped[Len(stack)].node = Top.node
           /\ Popped[Len(stack)].reqs = Top.reqs /\ Popped[Len(stack)].asks = Top.asks
           /\ Popped[Len(stack)].left = Handled(Tail(Top.left))
           /\ AreRequirements(Handled(Tail(Top.left)))
           /\ Range(Handled(Tail(Top.left))) \subseteq Range(Top.left)
           /\ \A r \in Range(Top.left) :
                r = Next1 \/ r.override \/ r \in Range(Handled(Tail(Top.left)))
<1> DEFINE rest == Handled(Tail(Top.left))
           frame == [Top EXCEPT !.left = rest]
<1>1. /\ IsRecord(Top, ExpansionFields) /\ AreRequirements(Top.left)
      /\ Len(stack) \in 1 .. Len(stack) /\ DOMAIN stack = 1 .. Len(stack)
      /\ Top = stack[Len(stack)] /\ IsList(stack) /\ Top.step = "expand"
  BY ExpansionIs, ListFacts DEF Shape, StackShape, Top, Expanding
<1>2. Popped = [stack EXCEPT ![Len(stack)] = frame]
  BY <1>1 DEF Popped
<1>3. /\ IsRecord(frame, ExpansionFields) /\ frame.step = "expand" /\ frame.node = Top.node
      /\ frame.reqs = Top.reqs /\ frame.asks = Top.asks /\ frame.left = rest
  <2> HIDE DEF rest
  <2> QED BY <1>1 DEF IsRecord, ExpansionFields
<1> HIDE DEF frame
<1>4. /\ IsList(Popped) /\ Len(Popped) = Len(stack) /\ DOMAIN Popped = 1 .. Len(stack)
      /\ \A k \in 1 .. Len(stack) : Popped[k] = IF k = Len(stack) THEN frame ELSE stack[k]
  BY <1>1, <1>2, ListReplaced
<1>5. /\ IsList(Tail(Top.left)) /\ Next1 \in Range(Top.left)
      /\ Range(Top.left) = {Next1} \union Range(Tail(Top.left))
  BY <1>1, ListTail DEF AreRequirements, Next1
<1>6. /\ IsList(rest) /\ Range(rest) \subseteq Range(Tail(Top.left))
      /\ \A r \in Range(Tail(Top.left)) : ~r.override => r \in Range(rest)
  BY <1>5, HandledIs
<1> HIDE DEF rest
<1>7. AreRequirements(rest) /\ Range(rest) \subseteq Range(Top.left)
  BY <1>1, <1>5, <1>6 DEF AreRequirements
<1>8. Popped[Len(stack)] = frame /\ \A k \in 1 .. Len(stack) : k # Len(stack) => Popped[k] = stack[k]
  BY <1>1, <1>4
<1> QED BY <1>1, <1>3, <1>4, <1>5, <1>6, <1>7, <1>8 DEF rest

\* A node is configured.
Configured ==
    /\ IsList(nodes') /\ Len(nodes') = Len(nodes) /\ DOMAIN nodes' = DOMAIN nodes
    /\ \A i \in DOMAIN nodes : IsRecord(nodes'[i], NodeFields) /\ SameLinks(i)
    /\ \A i \in DOMAIN nodes : i # Top.node => nodes'[i] = nodes[i]
    /\ nodes'[Top.node].requires = Wanted(Top.reqs) /\ nodes'[Top.node].evaluated
    /\ nodes'[Top.node].option = NewOption /\ nodes'[Top.node].asks = NewAsks
    /\ nodes'[Top.node].modified = (Here.modified \/ NewOption # Here.option)
    /\ IsList(stack') /\ Len(stack') = Len(stack) /\ DOMAIN stack' = DOMAIN stack
    /\ \A k \in DOMAIN stack : k # Len(stack) => stack'[k] = stack[k]
    /\ stack'[Len(stack)] = Expansion(Top.node, Upstream(Top.reqs, Wanted(Top.reqs)), NewAsks,
                                      Handled(Wanted(Top.reqs)))

LEMMA ConfigureDoes ==
    ASSUME Shape, Configure
    PROVE  Configured
<1> DEFINE node == [Here EXCEPT !.requires = Wanted(Top.reqs), !.evaluated = TRUE,
                                !.option = NewOption, !.asks = NewAsks,
                                !.modified = @ \/ NewOption # Here.option,
                                !.changed = @ \union Changed]
           frame == Expansion(Top.node, Upstream(Top.reqs, Wanted(Top.reqs)), NewAsks,
                              Handled(Wanted(Top.reqs)))
<1>1. /\ Len(stack) \in 1 .. Len(stack) /\ Top.node \in DOMAIN nodes /\ NodeShape(Top.node)
      /\ DOMAIN stack = 1 .. Len(stack) /\ DOMAIN nodes = 1 .. Len(nodes)
      /\ IsList(nodes) /\ IsList(stack)
  BY CallIs, ListFacts DEF Configure, Shape, NodesShape, StackShape
<1>2. nodes' = [nodes EXCEPT ![Top.node] = node] /\ stack' = [stack EXCEPT ![Len(stack)] = frame]
  <2>1. nodes' = [nodes EXCEPT ![Top.node] = node]
    BY DEF Configure
  <2>2. stack' = [stack EXCEPT ![Len(stack)] = frame]
    BY DEF Configure
  <2> QED BY <2>1, <2>2
<1>3. /\ IsRecord(node, NodeFields) /\ node.requires = Wanted(Top.reqs) /\ node.evaluated
      /\ node.option = NewOption /\ node.asks = NewAsks
      /\ node.modified = (Here.modified \/ NewOption # Here.option)
      /\ node.name = Here.name /\ node.version = Here.version /\ node.recipe = Here.recipe
      /\ node.ancestors = Here.ancestors /\ node.deps = Here.deps /\ node.closure = Here.closure
      /\ node.inverse = Here.inverse /\ node.private = Here.private /\ node.build = Here.build
      /\ node.edges = Here.edges
  BY <1>1 DEF NodeShape, IsRecord, NodeFields, Here
<1> HIDE DEF node, frame
<1>4. /\ IsList(nodes') /\ Len(nodes') = Len(nodes) /\ DOMAIN nodes' = DOMAIN nodes
      /\ \A i \in DOMAIN nodes : nodes'[i] = IF i = Top.node THEN node ELSE nodes[i]
  BY <1>1, <1>2, ListReplaced
<1>5. /\ IsList(stack') /\ Len(stack') = Len(stack) /\ DOMAIN stack' = DOMAIN stack
      /\ \A k \in DOMAIN stack : stack'[k] = IF k = Len(stack) THEN frame ELSE stack[k]
  BY <1>1, <1>2, ListReplaced
<1>6. \A i \in DOMAIN nodes : IsRecord(nodes'[i], NodeFields) /\ SameLinks(i)
  BY <1>3, <1>4 DEF Shape, NodesShape, NodeShape, SameLinks, Here
<1>7. stack'[Len(stack)] = frame /\ nodes'[Top.node] = node
  BY <1>1, <1>4, <1>5
<1> QED BY <1>3, <1>4, <1>5, <1>6, <1>7 DEF Configured, frame

NewId == Len(nodes) + 1
NewScope(r) == IF Aside(r) THEN Here.closure ELSE Here.deps
\* A node is added, and linked from another.
Added(recipe) ==
    /\ recipe \in Worlds[world].recipes[Next1.name]
    /\ <<Next1.name, Next1.version>> \in DOMAIN recipes =>
         recipe = recipes[<<Next1.name, Next1.version>>]
    /\ recipes' = With(recipes, <<Next1.name, Next1.version>>, recipe)
    /\ IsList(nodes') /\ Len(nodes') = NewId
    /\ DOMAIN nodes' = DOMAIN nodes \union {NewId} /\ NewId \notin DOMAIN nodes
    /\ \A i \in DOMAIN nodes :
         /\ IsRecord(nodes'[i], NodeFields) /\ SameWishes(i)
         /\ nodes'[i].ancestors = nodes[i].ancestors /\ nodes'[i].inverse = nodes[i].inverse
         /\ nodes'[i].private = nodes[i].private /\ nodes'[i].build = nodes[i].build
         /\ i \notin Users(Next1) => nodes'[i] = nodes[i]
         /\ i \in Users(Next1) =>
              /\ nodes'[i].closure = With(nodes[i].closure, Next1.name, NewId)
              /\ nodes'[i].deps = With(nodes[i].deps, Next1.name, NewId)
         /\ i # Top.node => nodes'[i].edges = nodes[i].edges
         /\ i = Top.node => nodes'[i].edges = Append(nodes[i].edges, EdgeTo(NewId, Next1))
    /\ LET new == nodes'[NewId]
       IN  /\ IsRecord(new, NodeFields)
           /\ new.name = Next1.name /\ new.version = Next1.version /\ new.recipe = recipe
           /\ new.requires = recipe.requires /\ new.option = recipe.default
           /\ ~new.modified /\ new.asks = recipe.asks /\ ~new.evaluated
           /\ new.ancestors = Ancestry
           /\ new.deps = With(NewScope(Next1), Next1.name, NewId)
           /\ new.closure = With(Empty, Next1.name, NewId)
           /\ new.inverse = Users(Next1) /\ new.edges = <<>>
           /\ new.private = (Here.private \/ Next1.private)
           /\ new.build = (Here.build \/ Next1.build)
    /\ stack' = Append(Popped, Call(NewId, Top.reqs))

LEMMA AddNodeDoes ==
    ASSUME Shape, AddNode
    PROVE  \E recipe : Added(recipe)
<1> DEFINE r == Next1
           ref == <<r.name, r.version>>
           Changed1(i) == [nodes[i] EXCEPT !.closure = With(@, r.name, NewId),
                                           !.deps = With(@, r.name, NewId),
                                           !.edges = IF i = Top.node
                                                     THEN Append(@, EdgeTo(NewId, r)) ELSE @]
           Old(i) == IF i \notin Users(r) THEN nodes[i] ELSE Changed1(i)
           old == [i \in DOMAIN nodes |-> Old(i)]
           New(recipe) == [Node(r.name, r.version, recipe, Ancestry)
                             EXCEPT !.closure = With(@, r.name, NewId),
                                    !.deps = With(NewScope(r), r.name, NewId),
                                    !.inverse = Users(r),
                                    !.private = Here.private \/ r.private,
                                    !.build = Here.build \/ r.build]
<1>1. PICK recipe \in IF ref \in DOMAIN recipes THEN {recipes[ref]}
                      ELSE Worlds[world].recipes[r.name] :
        /\ recipes' = With(recipes, ref, recipe)
        /\ nodes' = Append(old, New(recipe))
        /\ stack' = Append(Popped, Call(NewId, Top.reqs))
  BY DEF AddNode, NewId, NewScope
<1>2. /\ Top.node \in DOMAIN nodes /\ NodeShape(Top.node) /\ IsRequirement(r)
  BY ExpansionIs DEF AddNode
<1>3. recipe \in Worlds[world].recipes[r.name]
  <2>1. ref[1] = r.name
    OBVIOUS
  <2> QED BY <1>1, <2>1 DEF Shape, RecipesShape
<1>4. /\ Len(nodes) \in Nat /\ DOMAIN nodes = 1 .. Len(nodes)
      /\ IsList(nodes) /\ \A i \in DOMAIN nodes : IsRecord(nodes[i], NodeFields)
  BY ListFacts DEF Shape, NodesShape, NodeShape
<1>5. IsList(old) /\ Len(old) = Len(nodes) /\ DOMAIN old = DOMAIN nodes
  <2>1. old = [i \in 1 .. Len(nodes) |-> old[i]]
    BY <1>4
  <2> HIDE DEF old
  <2> QED BY <2>1, <1>4, ListMade
<1>6. /\ IsList(nodes') /\ Len(nodes') = NewId /\ DOMAIN nodes' = 1 .. NewId
      /\ \A i \in 1 .. Len(nodes) : nodes'[i] = old[i]
      /\ nodes'[NewId] = New(recipe)
  <2> HIDE DEF old, New
  <2> QED BY <1>1, <1>4, <1>5, ListAppended DEF NewId
<1>7. DOMAIN nodes' = DOMAIN nodes \union {NewId} /\ NewId \notin DOMAIN nodes
  <2>1. DOMAIN nodes' = 1 .. NewId
    BY <1>6
  <2> QED BY <1>4, <2>1 DEF NewId
<1>8. ASSUME NEW i \in DOMAIN nodes
      PROVE  /\ IsRecord(nodes'[i], NodeFields) /\ SameWishes(i)
             /\ nodes'[i].ancestors = nodes[i].ancestors /\ nodes'[i].inverse = nodes[i].inverse
             /\ nodes'[i].private = nodes[i].private /\ nodes'[i].build = nodes[i].build
             /\ i \notin Users(r) => nodes'[i] = nodes[i]
             /\ i \in Users(r) =>
                  /\ nodes'[i].closure = With(nodes[i].closure, r.name, NewId)
                  /\ nodes'[i].deps = With(nodes[i].deps, r.name, NewId)
             /\ i # Top.node => nodes'[i].edges = nodes[i].edges
             /\ i = Top.node => nodes'[i].edges = Append(nodes[i].edges, EdgeTo(NewId, r))
  <2>1. nodes'[i] = Old(i)
    BY <1>4, <1>6
  <2>2. Top.node \in Users(r)
    BY DEF Users
  <2>3. CASE i \notin Users(r)
    <3>1. nodes'[i] = nodes[i]
      BY <2>1, <2>3
    <3> HIDE DEF Old
    <3> QED BY <3>1, <2>2, <2>3, <1>4 DEF SameWishes
  <2>4. CASE i \in Users(r)
    <3>1. nodes'[i] = Changed1(i)
      BY <2>1, <2>4
    <3>2. IsRecord(nodes[i], NodeFields)
      BY <1>4
    <3> HIDE DEF Old, old
    <3>3. IsRecord(Changed1(i), NodeFields)
      BY <3>2 DEF IsRecord, NodeFields
    <3>4. SameWishes(i)
      BY <3>1, <3>2 DEF SameWishes, IsRecord, NodeFields
    <3>5. /\ nodes'[i].ancestors = nodes[i].ancestors /\ nodes'[i].inverse = nodes[i].inverse
          /\ nodes'[i].private = nodes[i].private /\ nodes'[i].build = nodes[i].build
      BY <3>1, <3>2 DEF IsRecord, NodeFields
    <3>6. /\ nodes'[i].closure = With(nodes[i].closure, r.name, NewId)
          /\ nodes'[i].deps = With(nodes[i].deps, r.name, NewId)
      BY <3>1, <3>2 DEF IsRecord, NodeFields
    <3>7. /\ i # Top.node => nodes'[i].edges = nodes[i].edges
          /\ i = Top.node => nodes'[i].edges = Append(nodes[i].edges, EdgeTo(NewId, r))
      BY <3>1, <3>2 DEF IsRecord, NodeFields
    <3> QED BY <2>4, <3>1, <3>3, <3>4, <3>5, <3>6, <3>7
  <2> QED BY <2>3, <2>4
<1>9. LET new == nodes'[NewId]
      IN  /\ IsRecord(new, NodeFields)
          /\ new.name = r.name /\ new.version = r.version /\ new.recipe = recipe
          /\ new.requires = recipe.requires /\ new.option = recipe.default
          /\ ~new.modified /\ new.asks = recipe.asks /\ ~new.evaluated
          /\ new.ancestors = Ancestry
          /\ new.deps = With(NewScope(r), r.name, NewId)
          /\ new.closure = With(Empty, r.name, NewId)
          /\ new.inverse = Users(r) /\ new.edges = <<>>
          /\ new.private = (Here.private \/ r.private)
          /\ new.build = (Here.build \/ r.build)
  <2>1. nodes'[NewId] = New(recipe)
    BY <1>6
  <2> QED BY <2>1 DEF Node, IsRecord, NodeFields
<1>10. ref \in DOMAIN recipes => recipe = recipes[ref]
  BY <1>1
<1>11. /\ recipes' = With(recipes, ref, recipe)
       /\ stack' = Append(Popped, Call(NewId, Top.reqs))
  BY <1>1
<1> HIDE DEF old, New, Old, Changed1
<1> QED BY <1>3, <1>6, <1>7, <1>8, <1>9, <1>10, <1>11 DEF Added

\* What becomes public, and what goes from the closure of a node to others, when a diamond
\* is closed.
Freed ==
    IF nodes[Previous].private /\ ~Next1.private THEN FreedFrom(Previous) ELSE {}
StaysPrivate(i) == nodes[i].private /\ i \notin Freed
Shared ==
    {n \in DOMAIN nodes[Previous].closure :
       /\ ~nodes[nodes[Previous].closure[n]].build
       /\ ~StaysPrivate(nodes[Previous].closure[n])}
Gained == [n \in Shared |-> nodes[Previous].closure[n]]
WithOwn(i, f) == IF i = Top.node THEN With(f, Next1.name, Previous) ELSE f
DiamondClosed ==
    /\ IsList(nodes') /\ Len(nodes') = Len(nodes) /\ DOMAIN nodes' = DOMAIN nodes
    /\ \A i \in DOMAIN nodes :
         /\ IsRecord(nodes'[i], NodeFields) /\ SameWishes(i)
         /\ nodes'[i].build = nodes[i].build
         /\ nodes'[i].private = StaysPrivate(i)
         /\ i \in At(Previous) => nodes'[i].ancestors = nodes[i].ancestors \union Ancestry
         /\ i \notin At(Previous) => nodes'[i].ancestors = nodes[i].ancestors
         /\ i = Top.node => nodes'[i].edges = Linked1(nodes[i].edges, Previous, Next1)
         /\ i # Top.node => nodes'[i].edges = nodes[i].edges
         /\ i = Top.node \/ i \in Here.inverse =>
              nodes'[i].closure = Merge(WithOwn(i, nodes[i].closure), Gained)
         /\ ~(i = Top.node \/ i \in Here.inverse) => nodes'[i].closure = nodes[i].closure
         /\ i \in Here.inverse => nodes'[i].deps = Merge(WithOwn(i, nodes[i].deps), Gained)
         /\ i \notin Here.inverse => nodes'[i].deps = WithOwn(i, nodes[i].deps)
         /\ nodes[i].inverse \subseteq nodes'[i].inverse
         /\ \A j \in nodes'[i].inverse :
              \/ j \in nodes[i].inverse
              \/ i = Previous /\ j = Top.node
              \/ i \in {Gained[n] : n \in Shared} /\ j \in {Top.node} \union Here.inverse
         /\ i = Previous => Top.node \in nodes'[i].inverse
         /\ i \in {Gained[n] : n \in Shared} => {Top.node} \union Here.inverse \subseteq nodes'[i].inverse
    /\ stack' = IF MustRecurse(Previous) THEN Append(Popped, Call(Previous, Top.reqs))
                ELSE Popped

LEMMA CloseDiamondDoes ==
    ASSUME Shape, CloseDiamond
    PROVE  DiamondClosed
<1> DEFINE at == Top.node
           id == Previous
           Replaced(i) ==
             [nodes[i] EXCEPT
                   !.ancestors = IF i \in At(id) THEN @ \union Ancestry ELSE @,
                   !.private = StaysPrivate(i),
                   !.edges = IF i = at THEN Linked1(@, id, Next1) ELSE @,
                   !.closure = IF i \in {at} \union Here.inverse
                               THEN Merge(WithOwn(i, @), Gained) ELSE @,
                   !.deps = IF i \in Here.inverse THEN Merge(WithOwn(i, @), Gained)
                            ELSE WithOwn(i, @),
                   !.inverse = @ \union (IF i = id THEN {at} ELSE {})
                                 \union (IF i \in {Gained[n] : n \in Shared}
                                         THEN {at} \union Here.inverse ELSE {})]
<1>1. /\ nodes' = [i \in DOMAIN nodes |-> Replaced(i)]
      /\ stack' = IF MustRecurse(id) THEN Append(Popped, Call(id, Top.reqs)) ELSE Popped
  BY DEF CloseDiamond, StaysPrivate, Freed, Gained, Shared, WithOwn
<1>2. /\ Len(nodes) \in Nat /\ DOMAIN nodes = 1 .. Len(nodes)
      /\ \A i \in DOMAIN nodes : IsRecord(nodes[i], NodeFields)
  BY ListFacts DEF Shape, NodesShape, NodeShape
<1>3. IsList(nodes') /\ Len(nodes') = Len(nodes) /\ DOMAIN nodes' = DOMAIN nodes
  <2> HIDE DEF Replaced
  <2>1. nodes' = [i \in 1 .. Len(nodes) |-> nodes'[i]]
    BY <1>1, <1>2
  <2> QED BY <2>1, <1>2, ListMade
<1>4. ASSUME NEW i \in DOMAIN nodes
      PROVE  /\ IsRecord(nodes'[i], NodeFields) /\ SameWishes(i)
             /\ nodes'[i].build = nodes[i].build
             /\ nodes'[i].private = StaysPrivate(i)
             /\ i \in At(id) => nodes'[i].ancestors = nodes[i].ancestors \union Ancestry
             /\ i \notin At(id) => nodes'[i].ancestors = nodes[i].ancestors
             /\ i = Top.node => nodes'[i].edges = Linked1(nodes[i].edges, Previous, Next1)
             /\ i # Top.node => nodes'[i].edges = nodes[i].edges
             /\ i = Top.node \/ i \in Here.inverse =>
                  nodes'[i].closure = Merge(WithOwn(i, nodes[i].closure), Gained)
             /\ ~(i = Top.node \/ i \in Here.inverse) => nodes'[i].closure = nodes[i].closure
             /\ i \in Here.inverse => nodes'[i].deps = Merge(WithOwn(i, nodes[i].deps), Gained)
             /\ i \notin Here.inverse => nodes'[i].deps = WithOwn(i, nodes[i].deps)
             /\ nodes[i].inverse \subseteq nodes'[i].inverse
             /\ \A j \in nodes'[i].inverse :
                  \/ j \in nodes[i].inverse
                  \/ i = Previous /\ j = Top.node
                  \/ i \in {Gained[n] : n \in Shared} /\ j \in {Top.node} \union Here.inverse
             /\ i = Previous => Top.node \in nodes'[i].inverse
             /\ i \in {Gained[n] : n \in Shared} => {Top.node} \union Here.inverse \subseteq nodes'[i].inverse
  <2>1. nodes'[i] = Replaced(i) /\ IsRecord(nodes[i], NodeFields)
    BY <1>1, <1>2
  <2>2. IsRecord(nodes'[i], NodeFields) /\ SameWishes(i) /\ nodes'[i].build = nodes[i].build
    BY <2>1 DEF IsRecord, NodeFields, SameWishes
  <2>3. /\ nodes'[i].private = StaysPrivate(i)
        /\ nodes'[i].ancestors = IF i \in At(id) THEN nodes[i].ancestors \union Ancestry
                                 ELSE nodes[i].ancestors
        /\ nodes'[i].edges = IF i = at THEN Linked1(nodes[i].edges, id, Next1)
                             ELSE nodes[i].edges
    BY <2>1 DEF IsRecord, NodeFields
  <2>4. nodes'[i].closure = IF i \in {at} \union Here.inverse
                            THEN Merge(WithOwn(i, nodes[i].closure), Gained)
                            ELSE nodes[i].closure
    BY <2>1 DEF IsRecord, NodeFields
  <2>5. nodes'[i].deps = IF i \in Here.inverse THEN Merge(WithOwn(i, nodes[i].deps), Gained)
                         ELSE WithOwn(i, nodes[i].deps)
    BY <2>1 DEF IsRecord, NodeFields
  <2>6. nodes'[i].inverse = nodes[i].inverse \union (IF i = id THEN {at} ELSE {})
                              \union (IF i \in {Gained[n] : n \in Shared}
                                      THEN {at} \union Here.inverse ELSE {})
    BY <2>1 DEF IsRecord, NodeFields
  <2> HIDE DEF Replaced
  <2>7. /\ i \in At(id) => nodes'[i].ancestors = nodes[i].ancestors \union Ancestry
        /\ i \notin At(id) => nodes'[i].ancestors = nodes[i].ancestors
        /\ i = at => nodes'[i].edges = Linked1(nodes[i].edges, id, Next1)
        /\ i # at => nodes'[i].edges = nodes[i].edges
    BY <2>3
  <2>8. /\ i = at \/ i \in Here.inverse =>
             nodes'[i].closure = Merge(WithOwn(i, nodes[i].closure), Gained)
        /\ ~(i = at \/ i \in Here.inverse) => nodes'[i].closure = nodes[i].closure
        /\ i \in Here.inverse => nodes'[i].deps = Merge(WithOwn(i, nodes[i].deps), Gained)
        /\ i \notin Here.inverse => nodes'[i].deps = WithOwn(i, nodes[i].deps)
    BY <2>4, <2>5
  <2> DEFINE G == {Gained[n] : n \in Shared}
  <2> HIDE DEF G
  <2>9. /\ nodes[i].inverse \subseteq nodes'[i].inverse
        /\ \A j \in nodes'[i].inverse :
              \/ j \in nodes[i].inverse
              \/ i = id /\ j = at
              \/ i \in G /\ j \in {at} \union Here.inverse
        /\ i = id => at \in nodes'[i].inverse
        /\ i \in G => {at} \union Here.inverse \subseteq nodes'[i].inverse
    BY <2>6 DEF G
  <2> QED BY <2>2, <2>3, <2>7, <2>8, <2>9 DEF G
<1> QED BY <1>1, <1>3, <1>4 DEF DiamondClosed

LEMMA InitShape ==
    ASSUME Init
    PROVE  Shape
<1>1. PICK r \in Worlds[world].recipes[Root] :
        /\ recipes = With(Empty, <<Root, 0>>, r)
        /\ nodes = <<[Node(Root, 0, r, {}) EXCEPT !.deps = With(Empty, Root, 1),
                                                 !.closure = With(Empty, Root, 1)]>>
  BY DEF Init, LoadInit
<1>2. /\ world \in DOMAIN Worlds /\ stack = <<Call(1, Empty)>> /\ outcome = "loading"
      /\ graphs = <<>>
  BY DEF Init, LoadInit
<1>3. /\ IsList(nodes) /\ Len(nodes) = 1 /\ DOMAIN nodes = {1}
      /\ IsRecord(nodes[1], NodeFields) /\ nodes[1].name = Root /\ nodes[1].recipe = r
      /\ nodes[1].requires = r.requires /\ nodes[1].edges = <<>> /\ nodes[1].inverse = {}
      /\ nodes[1].deps = With(Empty, Root, 1)
      /\ nodes[1].closure = With(Empty, Root, 1)
  <2>1. \A x : IsList(<<x>>) /\ Len(<<x>>) = 1 /\ DOMAIN <<x>> = {1} /\ <<x>>[1] = x
    BY DEF IsList, Range
  <2>2. nodes[1] = [Node(Root, 0, r, {}) EXCEPT !.deps = With(Empty, Root, 1),
                                             !.closure = With(Empty, Root, 1)]
    BY <1>1, <2>1
  <2>3. IsList(nodes) /\ Len(nodes) = 1 /\ DOMAIN nodes = {1}
    BY <1>1, <2>1
  <2> DEFINE x == With(Empty, Root, 1)
  <2> HIDE DEF x
  <2>4. nodes[1] = [Node(Root, 0, r, {}) EXCEPT !.deps = x, !.closure = x]
    BY <2>2 DEF x
  <2>5. /\ IsRecord(nodes[1], NodeFields) /\ nodes[1].name = Root /\ nodes[1].recipe = r
        /\ nodes[1].requires = r.requires /\ nodes[1].edges = <<>> /\ nodes[1].inverse = {}
        /\ nodes[1].deps = x /\ nodes[1].closure = x
    BY <2>4 DEF Node, IsRecord, NodeFields
  <2> QED BY <2>3, <2>5 DEF x
<1>4. SoundRecipe(Root, r)
  BY <1>1, <1>2, RecipeIs
<1>5. DOMAIN With(Empty, Root, 1) = {Root} /\ With(Empty, Root, 1)[Root] = 1
  BY DEF With, Empty
<1>6. IsList(<<>>) /\ Range(<<>>) = {} /\ DOMAIN <<>> = {}
  BY DEF IsList, Range
<1>7. NodesShape
  <2>1. AreRequirements(nodes[1].requires)
    BY <1>3, <1>4, RequiresOfRecipe
  <2>2. NodeShape(1)
    <3> HIDE DEF With
    <3> QED BY <1>1, <1>2, <1>3, <1>5, <1>6, <2>1 DEF NodeShape
  <2> QED BY <1>3, <2>2 DEF NodesShape
<1>8. StackShape
  <2>1. IsList(stack) /\ Len(stack) = 1 /\ DOMAIN stack = {1} /\ stack[1] = Call(1, Empty)
    BY <1>2 DEF IsList, Range
  <2>2. FrameShape(1)
    BY <2>1, <1>3 DEF FrameShape, Call, IsRecord, CallFields, IsTable, Empty
  <2> QED BY <2>1, <2>2 DEF StackShape
<1>9. RecipesShape
  <2>1. DOMAIN recipes = {<<Root, 0>>} /\ recipes[<<Root, 0>>] = r
    BY <1>1 DEF With, Empty
  <2>2. <<Root, 0>>[1] = Root
    OBVIOUS
  <2> QED BY <2>1, <2>2, <1>1 DEF RecipesShape
<1>10. GraphsShape
  BY <1>2, <1>6 DEF GraphsShape
<1> QED BY <1>2, <1>7, <1>8, <1>9, <1>10 DEF Shape

\* Nothing of the graph or of the calls changes.
Still == UNCHANGED <<world, recipes, nodes, stack>>

LEMMA StillShape ==
    ASSUME Shape, Still, outcome' \in {"done", "evaluating", "evaluated"} => stack = <<>>,
           GraphsShape', outcome' = "evaluating" => graphs' # <<>>
    PROVE  Shape'
<1>1. NodesShape'
  BY DEF Shape, Still, NodesShape, NodeShape
<1>2. StackShape'
  BY DEF Shape, Still, StackShape, FrameShape
<1>3. RecipesShape'
  BY DEF Shape, Still, RecipesShape
<1> QED BY <1>1, <1>2, <1>3 DEF Shape, Still

LEMMA ConfigureShape ==
    ASSUME Shape, Configure, UNCHANGED graphs
    PROVE  Shape'
<1>1. Configured
  BY ConfigureDoes
<1>2. /\ Len(stack) \in DOMAIN stack /\ Top.node \in DOMAIN nodes
      /\ NodeShape(Top.node) /\ IsTable(Top.reqs)
  BY CallIs DEF Configure
<1>3. world' = world /\ recipes' = recipes /\ outcome' = outcome /\ graphs' = graphs
      /\ outcome = "loading"
  BY DEF Configure, Calling
<1>4. AreRequirements(Wanted(Top.reqs))
  BY <1>2, WantedIs
<1>5. NodesShape'
  <2>1. ASSUME NEW i \in DOMAIN nodes PROVE AreRequirements(nodes'[i].requires)
    BY <1>1, <1>4 DEF Configured, Shape, NodesShape, NodeShape
  <2>2. ASSUME NEW i \in DOMAIN nodes PROVE NodeShape(i)'
    <3>1. NodeShape(i) /\ \A j \in DOMAIN nodes : nodes'[j].name = nodes[j].name
      BY <1>1 DEF Shape, NodesShape, Configured, SameLinks
    <3>2. IsRecord(nodes'[i], NodeFields) /\ SameLinks(i) /\ DOMAIN nodes' = DOMAIN nodes
      BY <1>1 DEF Configured
    <3> QED BY <2>1, <3>1, <3>2, <1>3 DEF NodeShape, SameLinks
  <2> QED BY <1>1, <2>2 DEF NodesShape, Shape, Configured
<1>6. StackShape'
  <2>1. AreRequirements(Handled(Wanted(Top.reqs)))
    BY <1>4, HandledIs DEF AreRequirements
  <2>2. IsTable(Upstream(Top.reqs, Wanted(Top.reqs)))
    BY <1>2, <1>4, UpstreamIs
  <2>3. ASSUME NEW k \in DOMAIN stack PROVE FrameShape(k)'
    <3>1. CASE k = Len(stack)
      <4>1. stack'[k] = Expansion(Top.node, Upstream(Top.reqs, Wanted(Top.reqs)), NewAsks,
                                  Handled(Wanted(Top.reqs)))
        BY <3>1, <1>1 DEF Configured
      <4>2. DOMAIN nodes' = DOMAIN nodes
        BY <1>1 DEF Configured
      <4>3. /\ stack'[k].node = Top.node /\ stack'[k].step = "expand"
            /\ stack'[k].reqs = Upstream(Top.reqs, Wanted(Top.reqs))
            /\ stack'[k].left = Handled(Wanted(Top.reqs))
            /\ IsRecord(stack'[k], ExpansionFields)
        BY <4>1 DEF Expansion, IsRecord, ExpansionFields
      <4> QED BY <1>2, <2>1, <2>2, <4>2, <4>3 DEF FrameShape
    <3>2. CASE k # Len(stack)
      <4>1. stack'[k] = stack[k] /\ Len(stack') = Len(stack) /\ DOMAIN nodes' = DOMAIN nodes
        BY <3>2, <1>1 DEF Configured
      <4> QED BY <4>1 DEF Shape, StackShape, FrameShape
    <3> QED BY <3>1, <3>2
  <2> QED BY <1>1, <2>3 DEF StackShape, Configured
<1>7. RecipesShape' /\ GraphsShape'
  BY <1>1, <1>3 DEF Shape, RecipesShape, GraphsShape, Configured
<1> QED BY <1>3, <1>5, <1>6, <1>7 DEF Shape

\* The calls in progress, after one requirement and perhaps with one more.
LEMMA PoppedShape ==
    ASSUME Shape, Expanding, Top.left # <<>>,
           NEW id, stack' = Popped \/ stack' = Append(Popped, Call(id, Top.reqs)),
           DOMAIN nodes \subseteq DOMAIN nodes', id \in DOMAIN nodes'
    PROVE  StackShape'
<1>1. /\ Top.node \in DOMAIN nodes /\ IsTable(Top.reqs)
  BY ExpansionIs
<1>2. /\ IsList(Popped) /\ Len(Popped) = Len(stack) /\ DOMAIN Popped = DOMAIN stack
      /\ \A k \in 1 .. Len(stack) : k # Len(stack) => Popped[k] = stack[k]
      /\ IsRecord(Popped[Len(stack)], ExpansionFields)
      /\ Popped[Len(stack)].step = "expand" /\ Popped[Len(stack)].node = Top.node
      /\ Popped[Len(stack)].reqs = Top.reqs
      /\ Popped[Len(stack)].left = Handled(Tail(Top.left))
      /\ AreRequirements(Handled(Tail(Top.left)))
  BY PoppedIs
<1>3. DOMAIN stack = 1 .. Len(stack) /\ Len(stack) \in Nat /\ IsList(Popped)
  BY <1>2, ListFacts DEF Shape, StackShape
<1>4. ASSUME NEW k \in 1 .. Len(stack), stack'[k] = Popped[k] PROVE FrameShape(k)'
  <2>1. CASE k = Len(stack)
    BY <2>1, <1>1, <1>2, <1>4 DEF FrameShape
  <2>2. CASE k # Len(stack)
    <3>1. stack'[k] = stack[k] /\ stack[k].step = "expand" /\ FrameShape(k)
      BY <2>2, <1>2, <1>3, <1>4 DEF Shape, StackShape, FrameShape
    <3> QED BY <3>1 DEF FrameShape
  <2> QED BY <2>1, <2>2
<1>5. CASE stack' = Popped
  BY <1>2, <1>3, <1>4, <1>5 DEF StackShape
<1>6. CASE stack' = Append(Popped, Call(id, Top.reqs))
  <2> DEFINE x == Call(id, Top.reqs)
  <2>0. x.step = "config" /\ x.node = id /\ x.reqs = Top.reqs /\ IsRecord(x, CallFields)
    BY DEF Call, IsRecord, CallFields
  <2> HIDE DEF x
  <2>1. /\ IsList(Append(Popped, x)) /\ Len(Append(Popped, x)) = Len(Popped) + 1
        /\ \A k \in 1 .. Len(Popped) : Append(Popped, x)[k] = Popped[k]
        /\ Append(Popped, x)[Len(Popped) + 1] = x
        /\ DOMAIN Append(Popped, x) = 1 .. (Len(Popped) + 1)
    BY <1>3, ListAppended
  <2>2. PICK top : top = Len(stack) + 1
    OBVIOUS
  <2>3. stack' = Append(Popped, x)
    BY <1>6 DEF x
  <2>4. FrameShape(top)'
    <3>1. stack'[top] = x /\ top = Len(stack')
      BY <1>2, <2>1, <2>2, <2>3
    <3> QED BY <1>1, <2>0, <3>1 DEF FrameShape
  <2>5. \A k \in 1 .. Len(stack) : FrameShape(k)'
    BY <1>2, <1>4, <2>1, <2>3
  <2>6. DOMAIN stack' = (1 .. Len(stack)) \union {top} /\ IsList(stack')
    <3>1. 1 .. (Len(stack) + 1) = (1 .. Len(stack)) \union {top}
      BY <1>3, <2>2
    <3>2. DOMAIN stack' = 1 .. (Len(stack) + 1) /\ IsList(stack')
      BY <1>2, <2>1, <2>3
    <3> QED BY <3>1, <3>2
  <2> QED BY <2>4, <2>5, <2>6 DEF StackShape
<1> QED BY <1>5, <1>6

LEMMA AddNodeShape ==
    ASSUME Shape, AddNode, UNCHANGED graphs
    PROVE  Shape'
<1>1. PICK recipe : Added(recipe)
  BY AddNodeDoes
<1>2. /\ Len(stack) \in DOMAIN stack /\ Top.node \in DOMAIN nodes /\ IsRequirement(Next1)
      /\ NodeShape(Top.node) /\ IsTable(Top.reqs) /\ Expanding /\ Top.left # <<>>
  BY ExpansionIs DEF AddNode
<1>3. world' = world /\ outcome' = outcome /\ outcome = "loading" /\ graphs' = graphs
  BY DEF AddNode, Expanding
<1>0. PICK id : id = NewId
  OBVIOUS
<1>4. /\ DOMAIN nodes' = DOMAIN nodes \union {NewId} /\ NewId \notin DOMAIN nodes
      /\ \A i \in DOMAIN nodes : SameWishes(i) /\ IsRecord(nodes'[i], NodeFields)
      /\ recipe \in Worlds[world].recipes[Next1.name] /\ nodes'[NewId].name = Next1.name
      /\ IsList(nodes')
  BY <1>1 DEF Added
<1>5. \A i \in DOMAIN nodes : nodes'[i].name = nodes[i].name
  BY <1>4 DEF SameWishes
<1>6. Users(Next1) \subseteq DOMAIN nodes
  BY <1>2 DEF NodeShape, Users, Here
<1>7. ASSUME NEW f, \A n \in DOMAIN f : f[n] \in DOMAIN nodes /\ nodes[f[n]].name = n,
             NEW g, g = f \/ g = With(f, Next1.name, NewId)
      PROVE  \A n \in DOMAIN g : g[n] \in DOMAIN nodes' /\ nodes'[g[n]].name = n
  <2>1. CASE g = f
    BY <2>1, <1>4, <1>5, <1>7
  <2>2. CASE g = With(f, Next1.name, NewId)
    <3>1. DOMAIN g = DOMAIN f \union {Next1.name} /\ g[Next1.name] = NewId
          /\ \A n1 \in DOMAIN f : n1 # Next1.name => g[n1] = f[n1]
      BY <2>2 DEF With
    <3> QED BY <3>1, <1>4, <1>5, <1>7
  <2> QED BY <1>7, <2>1, <2>2
<1>8. ASSUME NEW i \in DOMAIN nodes PROVE NodeShape(i)'
  <2>1. NodeShape(i) /\ SameWishes(i) /\ IsRecord(nodes'[i], NodeFields)
    BY <1>4 DEF Shape, NodesShape
  <2>2. /\ nodes'[i].name \in Name \union {Root}
        /\ nodes'[i].recipe \in Worlds[world'].recipes[nodes'[i].name]
        /\ AreRequirements(nodes'[i].requires)
    BY <1>3, <2>1 DEF NodeShape, SameWishes
  <2>3. IsList(nodes'[i].edges) /\ \A e \in Range(nodes'[i].edges) : e.to \in DOMAIN nodes'
    <3>1. CASE i = Top.node
      <4>1. nodes'[i].edges = Append(nodes[i].edges, EdgeTo(NewId, Next1))
        BY <3>1, <1>1 DEF Added
      <4>2. IsList(nodes'[i].edges)
            /\ Range(nodes'[i].edges) = Range(nodes[i].edges) \union {EdgeTo(NewId, Next1)}
        BY <4>1, <2>1, ListAppended DEF NodeShape
      <4>3. EdgeTo(NewId, Next1).to = NewId
        BY DEF EdgeTo
      <4> QED BY <4>2, <4>3, <1>4, <2>1 DEF NodeShape
    <3>2. CASE i # Top.node
      <4>1. nodes'[i].edges = nodes[i].edges
        BY <3>2, <1>1 DEF Added
      <4> QED BY <4>1, <1>4, <2>1 DEF NodeShape
    <3> QED BY <3>1, <3>2
  <2>4. /\ nodes'[i].deps = nodes[i].deps \/ nodes'[i].deps = With(nodes[i].deps, Next1.name, NewId)
        /\ nodes'[i].closure = nodes[i].closure
             \/ nodes'[i].closure = With(nodes[i].closure, Next1.name, NewId)
        /\ nodes'[i].inverse = nodes[i].inverse
    BY <1>1 DEF Added
  <2>5. /\ \A n \in DOMAIN nodes'[i].deps :
             nodes'[i].deps[n] \in DOMAIN nodes' /\ nodes'[nodes'[i].deps[n]].name = n
        /\ \A n \in DOMAIN nodes'[i].closure :
             nodes'[i].closure[n] \in DOMAIN nodes' /\ nodes'[nodes'[i].closure[n]].name = n
    <3>1. /\ \A n \in DOMAIN nodes[i].deps :
               nodes[i].deps[n] \in DOMAIN nodes /\ nodes[nodes[i].deps[n]].name = n
          /\ \A n \in DOMAIN nodes[i].closure :
               nodes[i].closure[n] \in DOMAIN nodes /\ nodes[nodes[i].closure[n]].name = n
      BY <2>1 DEF NodeShape
    <3>2. \A n \in DOMAIN nodes'[i].deps :
            nodes'[i].deps[n] \in DOMAIN nodes' /\ nodes'[nodes'[i].deps[n]].name = n
      BY <1>7, <3>1, <2>4
    <3>3. \A n \in DOMAIN nodes'[i].closure :
            nodes'[i].closure[n] \in DOMAIN nodes' /\ nodes'[nodes'[i].closure[n]].name = n
      BY <1>7, <3>1, <2>4
    <3> QED BY <3>2, <3>3
  <2> QED BY <1>4, <2>1, <2>2, <2>3, <2>4, <2>5 DEF NodeShape
<1>9. NodeShape(id)'
  <2> DEFINE new == nodes'[id]
  <2>1. /\ IsRecord(new, NodeFields) /\ new.name = Next1.name /\ new.recipe = recipe
        /\ new.requires = recipe.requires /\ new.inverse = Users(Next1) /\ new.edges = <<>>
        /\ new.deps = With(NewScope(Next1), Next1.name, NewId)
        /\ new.closure = With(Empty, Next1.name, NewId)
    BY <1>0, <1>1 DEF Added
  <2>2. AreRequirements(new.requires)
    <3>1. Next1.name \in Name \union {Root}
      BY <1>2 DEF IsRequirement
    <3>2. SoundRecipe(Next1.name, recipe)
      BY <3>1, <1>4, RecipeIs DEF Shape
    <3> QED BY <2>1, <3>2, RequiresOfRecipe
  <2>3. IsList(new.edges) /\ Range(new.edges) = {}
    BY <2>1 DEF IsList, Range
  <2>4. \A n \in DOMAIN new.deps : new.deps[n] \in DOMAIN nodes' /\ nodes'[new.deps[n]].name = n
    <3>1. \A n \in DOMAIN NewScope(Next1) :
            NewScope(Next1)[n] \in DOMAIN nodes /\ nodes[NewScope(Next1)[n]].name = n
      BY <1>2 DEF NewScope, NodeShape, Here
    <3> QED BY <3>1, <2>1, <1>7
  <2>5. \A n \in DOMAIN new.closure :
          new.closure[n] \in DOMAIN nodes' /\ nodes'[new.closure[n]].name = n
    <3>1. \A n \in DOMAIN Empty : Empty[n] \in DOMAIN nodes /\ nodes[Empty[n]].name = n
      BY DEF Empty
    <3> QED BY <3>1, <2>1, <1>7
  <2>6. /\ new.name \in Name \union {Root} /\ new.recipe \in Worlds[world'].recipes[new.name]
        /\ new.inverse \subseteq DOMAIN nodes'
    BY <1>2, <1>3, <1>4, <1>6, <2>1 DEF IsRequirement
  <2> HIDE DEF new
  <2>7. nodes'[id] = new
    BY DEF new
  <2> QED BY <2>7, <2>1, <2>2, <2>3, <2>4, <2>5, <2>6 DEF NodeShape
<1>10. NodesShape'
  BY <1>0, <1>4, <1>8, <1>9 DEF NodesShape, Shape
<1>11. StackShape'
  <2>1. stack' = Append(Popped, Call(id, Top.reqs))
    BY <1>0, <1>1 DEF Added
  <2>2. id \in DOMAIN nodes' /\ DOMAIN nodes \subseteq DOMAIN nodes'
    BY <1>0, <1>4
  <2> QED BY <2>1, <2>2, <1>2, PoppedShape
<1>12. RecipesShape'
  <2> DEFINE ref == <<Next1.name, Next1.version>>
  <2>1. recipes' = With(recipes, ref, recipe) /\ ref[1] = Next1.name
    BY <1>1 DEF Added
  <2>2. DOMAIN recipes' = DOMAIN recipes \union {ref} /\ recipes'[ref] = recipe
        /\ \A x \in DOMAIN recipes : x # ref => recipes'[x] = recipes[x]
    BY <2>1 DEF With
  <2> HIDE DEF ref
  <2> QED BY <1>2, <1>3, <1>4, <2>1, <2>2 DEF RecipesShape, Shape, IsRequirement
<1>13. GraphsShape'
  BY <1>3, <1>4 DEF Shape, GraphsShape
<1> QED BY <1>3, <1>10, <1>11, <1>12, <1>13 DEF Shape

\* The node that a diamond is closed with.
LEMMA PreviousIs ==
    ASSUME Shape, CloseDiamond
    PROVE  /\ Expanding /\ Top.left # <<>> /\ ~IsLoop(Next1) /\ ~IsNew(Next1)
           /\ Top.node \in DOMAIN nodes /\ NodeShape(Top.node) /\ IsRequirement(Next1)
           /\ Next1.name \in DOMAIN Here.deps /\ Previous = Here.deps[Next1.name]
           /\ Previous \in DOMAIN nodes /\ nodes[Previous].name = Next1.name
           /\ NodeShape(Previous)
<1>1. Expanding /\ Top.left # <<>> /\ ~IsLoop(Next1) /\ ~IsNew(Next1)
  BY DEF CloseDiamond, Diamond
<1>2. Top.node \in DOMAIN nodes /\ NodeShape(Top.node) /\ IsRequirement(Next1)
  BY <1>1, ExpansionIs
<1>3. Next1.name \in DOMAIN Here.deps /\ Previous = Here.deps[Next1.name]
  BY <1>1 DEF IsNew, Previous
<1>4. Previous \in DOMAIN nodes /\ nodes[Previous].name = Next1.name
  BY <1>2, <1>3 DEF NodeShape, Here
<1> QED BY <1>1, <1>2, <1>3, <1>4 DEF Shape, NodesShape

\* The edges after a diamond is closed.
LEMMA LinkedIs ==
    ASSUME NEW edges, IsList(edges), NEW id, NEW r
    PROVE  /\ IsList(Linked1(edges, id, r))
           /\ {e.to : e \in Range(Linked1(edges, id, r))} = {e.to : e \in Range(edges)} \union {id}
           /\ Range(Linked1(edges, id, r)) \subseteq Range(edges) \union {EdgeTo(id, r)}
           /\ Range(edges) \subseteq Range(Linked1(edges, id, r))
           /\ \A e \in Range(edges) : e.to = id => Linked1(edges, id, r) = edges
<1>1. CASE \E e \in Range(edges) : e.to = id
  <2>1. Linked1(edges, id, r) = edges
    BY <1>1 DEF Linked1
  <2> QED BY <2>1, <1>1
<1>2. CASE ~\E e \in Range(edges) : e.to = id
  <2> DEFINE x == EdgeTo(id, r)
  <2>0. x.to = id
    BY DEF EdgeTo
  <2> HIDE DEF x
  <2>1. Linked1(edges, id, r) = Append(edges, x)
    BY <1>2 DEF Linked1, x
  <2>2. IsList(Append(edges, x)) /\ Range(Append(edges, x)) = Range(edges) \union {x}
    BY ListAppended
  <2>3. {e.to : e \in Range(edges) \union {x}} = {e.to : e \in Range(edges)} \union {id}
    BY <2>0
  <2> QED BY <2>1, <2>2, <2>3, <1>2 DEF x
<1> QED BY <1>1, <1>2

LEMMA GainedIs ==
    ASSUME Shape, CloseDiamond
    PROVE  \A n \in Shared : /\ n \in DOMAIN Gained /\ Gained[n] = nodes[Previous].closure[n]
                             /\ n \in DOMAIN nodes[Previous].closure
                             /\ Gained[n] \in DOMAIN nodes /\ nodes[Gained[n]].name = n
BY PreviousIs DEF NodeShape, Gained, Shared

LEMMA CloseDiamondShape ==
    ASSUME Shape, CloseDiamond, UNCHANGED graphs
    PROVE  Shape'
<1>1. DiamondClosed
  BY CloseDiamondDoes
<1>2. /\ Expanding /\ Top.left # <<>>
      /\ Top.node \in DOMAIN nodes /\ NodeShape(Top.node) /\ IsRequirement(Next1)
      /\ Previous \in DOMAIN nodes /\ nodes[Previous].name = Next1.name
  BY PreviousIs
<1>3. /\ world' = world /\ outcome' = outcome /\ outcome = "loading" /\ graphs' = graphs
      /\ recipes' = recipes
  BY <1>2 DEF CloseDiamond, Expanding
<1>4. /\ DOMAIN nodes' = DOMAIN nodes /\ IsList(nodes')
      /\ \A i \in DOMAIN nodes : SameWishes(i) /\ IsRecord(nodes'[i], NodeFields)
  BY <1>1 DEF DiamondClosed
<1>5. \A i \in DOMAIN nodes : nodes'[i].name = nodes[i].name
  BY <1>4 DEF SameWishes
<1>6. DOMAIN Gained = Shared /\ \A n \in Shared : Gained[n] \in DOMAIN nodes /\ nodes[Gained[n]].name = n
  BY GainedIs DEF Gained
<1>7. ASSUME NEW f, \A n \in DOMAIN f : f[n] \in DOMAIN nodes /\ nodes[f[n]].name = n, NEW i
      PROVE  \A n \in DOMAIN WithOwn(i, f) :
               WithOwn(i, f)[n] \in DOMAIN nodes /\ nodes[WithOwn(i, f)[n]].name = n
  BY <1>2, <1>7 DEF WithOwn, With
<1>8. ASSUME NEW f, \A n \in DOMAIN f : f[n] \in DOMAIN nodes /\ nodes[f[n]].name = n
      PROVE  \A n \in DOMAIN Merge(f, Gained) :
               Merge(f, Gained)[n] \in DOMAIN nodes /\ nodes[Merge(f, Gained)[n]].name = n
  <2> HIDE DEF Gained
  <2> QED BY <1>6, <1>8 DEF Merge
<1>9. ASSUME NEW i \in DOMAIN nodes PROVE NodeShape(i)'
  <2>1. NodeShape(i) /\ SameWishes(i) /\ IsRecord(nodes'[i], NodeFields)
    BY <1>4 DEF Shape, NodesShape
  <2>2. /\ nodes'[i].name \in Name \union {Root}
        /\ nodes'[i].recipe \in Worlds[world'].recipes[nodes'[i].name]
        /\ AreRequirements(nodes'[i].requires)
    BY <1>3, <2>1 DEF NodeShape, SameWishes
  <2>3. IsList(nodes'[i].edges) /\ \A e \in Range(nodes'[i].edges) : e.to \in DOMAIN nodes'
    <3>1. CASE i = Top.node
      <4>1. nodes'[i].edges = Linked1(nodes[i].edges, Previous, Next1)
        BY <3>1, <1>1 DEF DiamondClosed
      <4>2. /\ IsList(nodes'[i].edges)
            /\ Range(nodes'[i].edges) \subseteq Range(nodes[i].edges) \union {EdgeTo(Previous, Next1)}
        BY <4>1, <2>1, LinkedIs DEF NodeShape
      <4>3. EdgeTo(Previous, Next1).to = Previous
        BY DEF EdgeTo
      <4> QED BY <4>2, <4>3, <1>2, <1>4, <2>1 DEF NodeShape
    <3>2. CASE i # Top.node
      <4>1. nodes'[i].edges = nodes[i].edges
        BY <3>2, <1>1 DEF DiamondClosed
      <4> QED BY <4>1, <1>4, <2>1 DEF NodeShape
    <3> QED BY <3>1, <3>2
  <2>4. /\ nodes'[i].closure = nodes[i].closure
             \/ nodes'[i].closure = Merge(WithOwn(i, nodes[i].closure), Gained)
        /\ nodes'[i].deps = WithOwn(i, nodes[i].deps)
             \/ nodes'[i].deps = Merge(WithOwn(i, nodes[i].deps), Gained)
        /\ \A j \in nodes'[i].inverse :
             j \in nodes[i].inverse \/ j = Top.node \/ j \in Here.inverse
    BY <1>1 DEF DiamondClosed
  <2>5. \A n \in DOMAIN nodes'[i].closure :
          nodes'[i].closure[n] \in DOMAIN nodes' /\ nodes'[nodes'[i].closure[n]].name = n
    <3>1. \A n \in DOMAIN nodes[i].closure :
            nodes[i].closure[n] \in DOMAIN nodes /\ nodes[nodes[i].closure[n]].name = n
      BY <2>1 DEF NodeShape
    <3> DEFINE f == nodes'[i].closure
    <3>2. \A n \in DOMAIN f : f[n] \in DOMAIN nodes /\ nodes[f[n]].name = n
      BY <1>7, <1>8, <2>4, <3>1
    <3> QED BY <3>2, <1>4, <1>5
  <2>6. \A n \in DOMAIN nodes'[i].deps :
          nodes'[i].deps[n] \in DOMAIN nodes' /\ nodes'[nodes'[i].deps[n]].name = n
    <3>1. \A n \in DOMAIN nodes[i].deps :
            nodes[i].deps[n] \in DOMAIN nodes /\ nodes[nodes[i].deps[n]].name = n
      BY <2>1 DEF NodeShape
    <3> DEFINE f == nodes'[i].deps
    <3>2. \A n \in DOMAIN f : f[n] \in DOMAIN nodes /\ nodes[f[n]].name = n
      BY <1>7, <1>8, <2>4, <3>1
    <3> QED BY <3>2, <1>4, <1>5
  <2>7. nodes'[i].inverse \subseteq DOMAIN nodes'
    BY <1>2, <1>4, <2>1, <2>4 DEF NodeShape, Here
  <2> QED BY <2>1, <2>2, <2>3, <2>5, <2>6, <2>7 DEF NodeShape
<1>10. NodesShape'
  BY <1>4, <1>9 DEF NodesShape, Shape
<1>11. StackShape'
  <2>1. stack' = Popped \/ stack' = Append(Popped, Call(Previous, Top.reqs))
    BY <1>1 DEF DiamondClosed
  <2> QED BY <2>1, <1>2, <1>4, PoppedShape
<1>12. RecipesShape' /\ GraphsShape'
  BY <1>3, <1>4 DEF Shape, RecipesShape, GraphsShape
<1> QED BY <1>3, <1>10, <1>11, <1>12 DEF Shape

LEMMA ReturnShape ==
    ASSUME Shape, Return, UNCHANGED graphs
    PROVE  Shape'
<1>1. /\ UNCHANGED <<world, recipes, nodes, graphs>> /\ stack' = Front(stack)
      /\ outcome = "loading" /\ outcome' \in {"loading", "done"}
      /\ outcome' = "done" => Len(stack) = 1
      /\ IsList(stack) /\ stack # <<>>
  BY DEF Return, Expanding, Shape, StackShape
<1>2. /\ IsList(stack') /\ Len(stack') = Len(stack) - 1 /\ DOMAIN stack' = 1 .. (Len(stack) - 1)
      /\ \A k \in 1 .. (Len(stack) - 1) : stack'[k] = stack[k]
      /\ Len(stack) \in Nat /\ DOMAIN stack = 1 .. Len(stack)
  BY <1>1, ListFront, ListFacts
<1>3. outcome' = "done" => stack' = <<>>
  BY <1>1, <1>2, ListFacts
<1>4. StackShape'
  <2>1. ASSUME NEW k \in 1 .. (Len(stack) - 1) PROVE FrameShape(k)'
    <3>1. k \in DOMAIN stack /\ k # Len(stack)
      BY <1>2
    <3>2. stack'[k] = stack[k] /\ stack[k].step = "expand" /\ FrameShape(k)
      BY <3>1, <1>2 DEF Shape, StackShape, FrameShape
    <3> QED BY <3>2, <1>1 DEF FrameShape
  <2> QED BY <2>1, <1>2 DEF StackShape
<1>5. NodesShape'
  BY <1>1 DEF Shape, NodesShape, NodeShape
<1>6. RecipesShape' /\ GraphsShape'
  BY <1>1 DEF Shape, RecipesShape, GraphsShape
<1> QED BY <1>1, <1>3, <1>4, <1>5, <1>6 DEF Shape

\* What evaluating a node leaves alone.
EvaluatedNode ==
    /\ IsList(nodes') /\ Len(nodes') = Len(nodes) /\ DOMAIN nodes' = DOMAIN nodes
    /\ \A i \in DOMAIN nodes :
         /\ IsRecord(nodes'[i], NodeFields) /\ SameLinks(i)
         /\ nodes'[i].requires = nodes[i].requires /\ nodes'[i].option = nodes[i].option
         /\ nodes'[i].evaluated = nodes[i].evaluated /\ nodes'[i].modified = nodes[i].modified
    /\ found' # Empty

LEMMA EvaluateNodeDoes ==
    ASSUME Shape, EvaluateNode
    PROVE  EvaluatedNode /\ \E i \in Lowest(Graph.todo) :
                              graphs' = [graphs EXCEPT ![Len(graphs)].todo = @ \ {i}]
<1>1. PICK i \in Lowest(Graph.todo) :
        /\ \E binary : found' = FoundWith(i, binary)
        /\ nodes' = [nodes EXCEPT ![i].asks = LinkedOptions(i), ![i].changed = {},
                                  ![i].frozen = TRUE]
        /\ graphs' = [graphs EXCEPT ![Len(graphs)].todo = @ \ {i}]
  BY DEF EvaluateNode
<1>2. found' # Empty
  <2>1. PICK binary : found' = FoundWith(i, binary)
    BY <1>1
  <2>2. i \in DOMAIN With(found, i, FactOf(i, binary))
    BY DEF With
  <2>3. i \in DOMAIN found'
    BY <2>1, <2>2 DEF FoundWith
  <2> QED BY <2>3 DEF Empty
<1>3. /\ Len(nodes) \in Nat /\ DOMAIN nodes = 1 .. Len(nodes) /\ IsList(nodes)
      /\ \A j \in DOMAIN nodes : IsRecord(nodes[j], NodeFields)
  BY ListFacts DEF Shape, NodesShape, NodeShape
<1>4. CASE i \notin DOMAIN nodes
  <2>1. nodes' = nodes
    BY <1>1, <1>3, <1>4, ListFacts
  <2> QED BY <1>1, <1>2, <1>3, <2>1 DEF EvaluatedNode, SameLinks
<1>5. CASE i \in DOMAIN nodes
  <2> DEFINE node == [nodes[i] EXCEPT !.asks = LinkedOptions(i), !.changed = {}, !.frozen = TRUE]
  <2>1. nodes' = [nodes EXCEPT ![i] = node]
    BY <1>1, <1>3, <1>5
  <2>0. IsRecord(nodes[i], NodeFields)
    BY <1>3, <1>5
  <2>2. /\ IsRecord(node, NodeFields)
        /\ node.name = nodes[i].name /\ node.version = nodes[i].version
        /\ node.recipe = nodes[i].recipe /\ node.ancestors = nodes[i].ancestors
        /\ node.deps = nodes[i].deps /\ node.closure = nodes[i].closure
        /\ node.inverse = nodes[i].inverse /\ node.private = nodes[i].private
        /\ node.build = nodes[i].build /\ node.edges = nodes[i].edges
        /\ node.requires = nodes[i].requires /\ node.option = nodes[i].option
        /\ node.evaluated = nodes[i].evaluated /\ node.modified = nodes[i].modified
    BY <2>0 DEF IsRecord, NodeFields
  <2> HIDE DEF node
  <2>3. /\ IsList(nodes') /\ Len(nodes') = Len(nodes) /\ DOMAIN nodes' = DOMAIN nodes
        /\ \A j \in DOMAIN nodes : nodes'[j] = IF j = i THEN node ELSE nodes[j]
    BY <1>3, <1>5, <2>1, ListReplaced
  <2> QED BY <1>1, <1>2, <1>3, <2>2, <2>3 DEF EvaluatedNode, SameLinks
<1> QED BY <1>4, <1>5

LEMMA EvaluateNodeShape ==
    ASSUME Shape, EvaluateNode
    PROVE  Shape'
<1>1. EvaluatedNode
  BY EvaluateNodeDoes
<1>2. PICK i : graphs' = [graphs EXCEPT ![Len(graphs)].todo = @ \ {i}]
  BY EvaluateNodeDoes
<1>3. world' = world /\ recipes' = recipes /\ stack' = stack /\ outcome' = outcome
      /\ outcome = "evaluating"
  BY DEF EvaluateNode
<1>4. NodesShape'
  <2>1. ASSUME NEW j \in DOMAIN nodes PROVE NodeShape(j)'
    <3>1. NodeShape(j) /\ \A k \in DOMAIN nodes : nodes'[k].name = nodes[k].name
      BY <1>1 DEF Shape, NodesShape, EvaluatedNode, SameLinks
    <3>2. /\ IsRecord(nodes'[j], NodeFields) /\ SameLinks(j) /\ DOMAIN nodes' = DOMAIN nodes
          /\ nodes'[j].requires = nodes[j].requires
      BY <1>1 DEF EvaluatedNode
    <3> QED BY <3>1, <3>2, <1>3 DEF NodeShape, SameLinks
  <2> QED BY <1>1, <2>1 DEF NodesShape, Shape, EvaluatedNode
<1>5. StackShape'
  BY <1>1, <1>3 DEF Shape, StackShape, FrameShape, EvaluatedNode
<1>6. RecipesShape'
  BY <1>3 DEF Shape, RecipesShape
<1>7. GraphsShape' /\ graphs' # <<>>
  <2> DEFINE n == Len(graphs)
             g == [graphs[n] EXCEPT !.todo = @ \ {i}]
  <2>1. /\ IsList(graphs) /\ n \in Nat /\ n \in 1 .. n /\ DOMAIN graphs = 1 .. n
        /\ IsRecord(graphs[n], GraphFields) /\ graphs[n].left \subseteq DOMAIN nodes
    BY <1>3, ListFacts DEF Shape, GraphsShape
  <2>2. graphs' = [graphs EXCEPT ![n] = g]
    BY <1>2, <2>1
  <2>3. IsRecord(g, GraphFields) /\ g.left = graphs[n].left
    BY <2>1 DEF IsRecord, GraphFields
  <2> HIDE DEF g
  <2>4. /\ IsList(graphs') /\ Len(graphs') = n /\ DOMAIN graphs' = 1 .. n
        /\ \A k \in 1 .. n : graphs'[k] = IF k = n THEN g ELSE graphs[k]
    BY <2>1, <2>2, ListReplaced
  <2>5. DOMAIN nodes' = DOMAIN nodes
    BY <1>1 DEF EvaluatedNode
  <2>6. GraphsShape'
    BY <2>1, <2>3, <2>4, <2>5 DEF GraphsShape, Shape
  <2>7. Len(graphs') # 0
    <3>1. Len(graphs') = n
      BY <2>4
    <3>2. n # 0
      BY <1>3, ListFacts DEF Shape, GraphsShape
    <3> QED BY <3>1, <3>2
  <2> QED BY <2>6, <2>7
<1> QED BY <1>3, <1>4, <1>5, <1>6, <1>7 DEF Shape

LEMMA EvaluateShape ==
    ASSUME Shape, Evaluate
    PROVE  Shape'
<1>1. PICK g : graphs' = Append(graphs, g) /\ IsRecord(g, GraphFields) /\ g.left \subseteq DOMAIN nodes
  <2> DEFINE new == DOMAIN nodes \ DOMAIN found
             x == [nodes |-> new, levels |-> Levels(new), todo |-> new, left |-> new]
  <2>1. graphs' = Append(graphs, x)
    BY DEF Evaluate
  <2>2. IsRecord(x, GraphFields) /\ x.left \subseteq DOMAIN nodes
    BY DEF IsRecord, GraphFields
  <2> QED BY <2>1, <2>2
<1>2. outcome' = "evaluating" /\ outcome = "done" /\ Still
  BY DEF Evaluate, Done, Still
<1>3. IsList(graphs)
  BY DEF Shape, GraphsShape
<1>4. /\ IsList(Append(graphs, g)) /\ Len(Append(graphs, g)) = Len(graphs) + 1
      /\ DOMAIN Append(graphs, g) = 1 .. (Len(graphs) + 1)
      /\ \A k \in 1 .. Len(graphs) : Append(graphs, g)[k] = graphs[k]
      /\ Append(graphs, g)[Len(graphs) + 1] = g
  BY <1>3, ListAppended
<1>5. Len(graphs) \in Nat /\ DOMAIN graphs = 1 .. Len(graphs)
  BY <1>3, ListFacts
<1>6. graphs' # <<>>
  <2>1. Len(graphs') # 0 
    BY <1>1, <1>4, <1>5
  <2> QED BY <2>1
<1>7. GraphsShape'
  <2>1. ASSUME NEW k \in 1 .. (Len(graphs) + 1)
        PROVE  IsRecord(graphs'[k], GraphFields) /\ graphs'[k].left \subseteq DOMAIN nodes
    <3>1. k = Len(graphs) + 1 \/ k \in 1 .. Len(graphs)
      BY <1>5
    <3> QED BY <3>1, <1>1, <1>4, <1>5 DEF Shape, GraphsShape
  <2> QED BY <1>1, <1>2, <1>4, <2>1 DEF GraphsShape, Still
<1> QED BY <1>2, <1>6, <1>7, StillShape DEF Shape

\* One of the nodes of the last graph, or several, are looked at for build requirements.
LookedAt(ids) == graphs' = [graphs EXCEPT ![Len(graphs)].left = @ \ ids]

LEMMA LookedAtShape ==
    ASSUME Shape, outcome = "evaluating", nodes' = nodes, NEW ids, LookedAt(ids)
    PROVE  GraphsShape' /\ graphs' # <<>>
<1> DEFINE n == Len(graphs)
           g == [graphs[n] EXCEPT !.left = @ \ ids]
<1>1. /\ IsList(graphs) /\ n \in Nat /\ n \in 1 .. n /\ DOMAIN graphs = 1 .. n
      /\ IsRecord(graphs[n], GraphFields) /\ graphs[n].left \subseteq DOMAIN nodes
  BY ListFacts DEF Shape, GraphsShape
<1>2. graphs' = [graphs EXCEPT ![n] = g]
  BY <1>1 DEF LookedAt
<1>3. IsRecord(g, GraphFields) /\ g.left \subseteq graphs[n].left
  BY <1>1 DEF IsRecord, GraphFields
<1> HIDE DEF g
<1>4. /\ IsList(graphs') /\ Len(graphs') = n /\ DOMAIN graphs' = 1 .. n
      /\ \A k \in 1 .. n : graphs'[k] = IF k = n THEN g ELSE graphs[k]
  BY <1>1, <1>2, ListReplaced
<1>5. ASSUME NEW k \in 1 .. n
      PROVE  IsRecord(graphs'[k], GraphFields) /\ graphs'[k].left \subseteq DOMAIN nodes
  <2>1. IsRecord(graphs[k], GraphFields) /\ graphs[k].left \subseteq DOMAIN nodes
    BY <1>1 DEF Shape, GraphsShape
  <2>2. graphs'[k] = g \/ graphs'[k] = graphs[k]
    BY <1>4
  <2> QED BY <2>1, <2>2, <1>1, <1>3
<1>6. GraphsShape'
  BY <1>4, <1>5 DEF GraphsShape
<1>7. Len(graphs') # 0
  <2>1. Len(graphs') = n
    BY <1>4
  <2>2. n # 0
    BY ListFacts DEF Shape, GraphsShape
  <2> QED BY <2>1, <2>2
<1> QED BY <1>6, <1>7

LEMMA ExtendShape ==
    ASSUME Shape, ExtendBuildRequires
    PROVE  Shape'
<1>1. PICK i \in Lowest(Graph.left) :
        /\ LookedAt({i})
        /\ \E asks : stack' = <<Expansion(i, Empty, asks,
               [k \in DOMAIN nodes[i].recipe.tools |->
                  [nodes[i].recipe.tools[k] EXCEPT !.build = TRUE]])>>
  BY DEF ExtendBuildRequires, LookedAt
<1>2. /\ world' = world /\ recipes' = recipes /\ nodes' = nodes /\ outcome = "evaluating"
      /\ outcome' = "loading"
  BY DEF ExtendBuildRequires
<1>3. GraphsShape'
  BY <1>1, <1>2, LookedAtShape
<1>4. i \in DOMAIN nodes /\ NodeShape(i)
  <2>1. i \in Graph.left
    BY DEF Lowest
  <2>2. Len(graphs) \in DOMAIN graphs
    BY <1>2, ListFacts DEF Shape, GraphsShape
  <2> QED BY <2>1, <2>2 DEF Graph, Shape, GraphsShape, NodesShape
<1> DEFINE tools == nodes[i].recipe.tools
           left == [k \in DOMAIN tools |-> [tools[k] EXCEPT !.build = TRUE]]
<1>5. AreRequirements(tools)
  <2>1. SoundRecipe(nodes[i].name, nodes[i].recipe)
    BY <1>4, RecipeIs DEF NodeShape, Shape
  <2> QED BY <2>1, RequiresOfRecipe
<1> HIDE DEF tools
<1>6. AreRequirements(left)
  <2>1. DOMAIN tools = 1 .. Len(tools) /\ Len(tools) \in Nat
        /\ \A k \in DOMAIN tools : IsRequirement(tools[k])
    BY <1>5, ListFacts DEF AreRequirements
  <2>2. \A k \in DOMAIN tools : IsRequirement([tools[k] EXCEPT !.build = TRUE])
    BY <2>1 DEF IsRequirement, IsRecord, RequirementFields
  <2>3. left = [k \in 1 .. Len(tools) |-> left[k]]
    BY <2>1
  <2>4. IsList(left)
    <3> HIDE DEF left
    <3> QED BY <2>1, <2>3, ListMade
  <2> QED BY <2>2, <2>4 DEF AreRequirements, Range
<1> HIDE DEF left
<1>7. StackShape'
  <2>0. PICK asks : stack' = <<Expansion(i, Empty, asks, left)>>
    BY <1>1 DEF left, tools
  <2> DEFINE x == Expansion(i, Empty, asks, left)
  <2>1. IsRecord(x, ExpansionFields) /\ x.step = "expand" /\ x.node = i /\ x.left = left
        /\ x.reqs = Empty
    BY DEF Expansion, IsRecord, ExpansionFields
  <2>2. stack' = <<x>>
    BY <2>0
  <2> HIDE DEF x
  <2>3. IsList(stack') /\ Len(stack') = 1 /\ DOMAIN stack' = {1} /\ stack'[1] = x
    BY <2>2 DEF IsList, Range
  <2>4. FrameShape(1)'
    BY <1>2, <1>4, <1>6, <2>1, <2>3 DEF FrameShape, IsTable, Empty
  <2> QED BY <2>3, <2>4 DEF StackShape
<1>8. NodesShape' /\ RecipesShape'
  BY <1>2 DEF Shape, NodesShape, NodeShape, RecipesShape
<1> QED BY <1>2, <1>3, <1>7, <1>8 DEF Shape

LEMMA LeaveGraphShape ==
    ASSUME Shape, LeaveGraph
    PROVE  Shape'
<1> DEFINE n == Len(graphs)
           f == Front(graphs)
<1>1. /\ IsList(graphs) /\ graphs # <<>> /\ n \in 1 .. n /\ DOMAIN graphs = 1 .. n
      /\ outcome = "evaluating" /\ Still
      /\ \A k \in 1 .. n : IsRecord(graphs[k], GraphFields) /\ graphs[k].left \subseteq DOMAIN nodes
  BY ListFacts DEF LeaveGraph, Shape, GraphsShape, Still
<1>2. CASE n = 1
  <2>1. graphs' = <<>> /\ outcome' = "evaluated" /\ IsList(<<>>) /\ DOMAIN <<>> = {}
    BY <1>2 DEF LeaveGraph, IsList
  <2>2. GraphsShape'
    BY <2>1 DEF GraphsShape
  <2> QED BY <1>1, <2>1, <2>2, StillShape DEF Shape
<1>3. CASE n # 1
  <2>1. /\ IsList(f) /\ Len(f) = n - 1 /\ DOMAIN f = 1 .. (n - 1)
        /\ \A k \in 1 .. (n - 1) : f[k] = graphs[k]
    BY <1>1, ListFront
  <2> DEFINE g == [f[n - 1] EXCEPT !.nodes = @ \union Graph.nodes]
  <2>2. n - 1 \in 1 .. (n - 1) /\ n - 1 \in 1 .. n
    BY <1>1, <1>3
  <2>3. graphs' = [f EXCEPT ![n - 1] = g] /\ outcome' = "evaluating"
    BY <1>1, <1>3, <2>1, <2>2 DEF LeaveGraph
  <2>4. IsRecord(g, GraphFields) /\ g.left = graphs[n - 1].left
    BY <1>1, <2>1, <2>2 DEF IsRecord, GraphFields
  <2> HIDE DEF g, f
  <2>5. /\ IsList(graphs') /\ Len(graphs') = n - 1 /\ DOMAIN graphs' = 1 .. (n - 1)
        /\ \A k \in 1 .. (n - 1) : graphs'[k] = IF k = n - 1 THEN g ELSE f[k]
    <3>1. IsList(f) /\ n - 1 \in 1 .. Len(f) /\ Len(f) = n - 1
      BY <2>1, <2>2
    <3> QED BY <3>1, <2>3, ListReplaced
  <2>6. ASSUME NEW k \in 1 .. (n - 1)
        PROVE  IsRecord(graphs'[k], GraphFields) /\ graphs'[k].left \subseteq DOMAIN nodes
    <3>1. k \in 1 .. n
      BY <1>1
    <3> QED BY <3>1, <1>1, <2>1, <2>2, <2>4, <2>5
  <2>7. GraphsShape' /\ graphs' # <<>>
    <3>1. Len(graphs') # 0
      BY <2>2, <2>5
    <3>2. nodes' = nodes
      BY <1>1 DEF Still
    <3>3. GraphsShape'
      BY <2>5, <2>6, <3>2 DEF GraphsShape
    <3> QED BY <3>1, <3>3
  <2> QED BY <1>1, <2>3, <2>7, StillShape DEF Shape
<1> QED BY <1>2, <1>3

\* The command ends without more ado.
Stops == RefuseRequirements \/ DetectLoop \/ MissRecipe \/ Conflict \/ MissNode \/ RefuseOption

LEMMA StopsIs ==
    ASSUME Stops
    PROVE  /\ Still /\ UNCHANGED <<update, cached, outside>> /\ outcome = "loading"
           /\ outcome' \notin {"loading", "done", "evaluating", "evaluated"}
<1>1. outcome = "loading"
  BY DEF Stops, RefuseRequirements, DetectLoop, MissRecipe, Conflict, MissNode, RefuseOption,
         Diamond, Calling, Expanding
<1>2. \E how \in {"refused", "loop", "missing", "conflict", "assertion"} : Stop(how)
  BY DEF Stops, RefuseRequirements, DetectLoop, MissRecipe, Conflict, MissNode, RefuseOption
<1> QED BY <1>1, <1>2 DEF Stop, Still

LEMMA StopsShape ==
    ASSUME Shape, Stops, UNCHANGED graphs
    PROVE  Shape'
<1>1. GraphsShape'
  BY StopsIs DEF Shape, GraphsShape, Still
<1> QED BY <1>1, StopsIs, StillShape

LEMMA NextShape ==
    ASSUME Shape, [Next]_vars
    PROVE  Shape'
<1>1. CASE Loading
  <2>1. UNCHANGED graphs /\ (Stops \/ Configure \/ AddNode \/ CloseDiamond \/ Return)
    BY <1>1 DEF Loading, Load, Stops
  <2> QED BY <2>1, StopsShape, ConfigureShape, AddNodeShape, CloseDiamondShape, ReturnShape
<1>2. CASE Evaluate
  BY <1>2, EvaluateShape
<1>3. CASE EvaluateNode
  BY <1>3, EvaluateNodeShape
<1>4. CASE PassBy
  <2>1. /\ Still /\ outcome = "evaluating" /\ outcome' = outcome /\ nodes' = nodes
        /\ LookedAt(Idle)
    BY <1>4 DEF PassBy, Still, loadVars, LookedAt
  <2> QED BY <2>1, LookedAtShape, StillShape DEF Shape
<1>5. CASE ExtendBuildRequires
  BY <1>5, ExtendShape
<1>6. CASE LeaveGraph
  BY <1>6, LeaveGraphShape
<1>7. CASE UNCHANGED vars
  <2>1. Still /\ graphs' = graphs /\ outcome' = outcome
    BY <1>7 DEF vars, loadVars, Still
  <2>2. GraphsShape'
    BY <2>1 DEF Shape, GraphsShape, Still
  <2> QED BY <2>1, <2>2, StillShape DEF Shape
<1>8. CASE Ended
  BY <1>8, <1>7 DEF Ended
<1> QED BY <1>1, <1>2, <1>3, <1>4, <1>5, <1>6, <1>7, <1>8 DEF Next
----------------------------------------------------------------------------
(* What is noted at the nodes is so in the graph. *)

ClosureIsReal(i) == \A n \in DOMAIN nodes[i].closure : Leads(nodes, i, nodes[i].closure[n])
InverseIsReal(i) == \A j \in nodes[i].inverse : Leads(nodes, j, i)
AncestorsAreReal(i) ==
    \A n \in nodes[i].ancestors : \E k \in DOMAIN nodes : nodes[k].name = n /\ Leads(nodes, k, i)
Real ==
    \A i \in DOMAIN nodes : ClosureIsReal(i) /\ InverseIsReal(i) /\ AncestorsAreReal(i)

LEMMA NodesAreGraph ==
    ASSUME Shape
    PROVE  /\ IsGraph(nodes) /\ AllPaths = WaysOf(nodes)
           /\ \A i \in DOMAIN nodes : NodeShape(i)
           /\ Len(nodes) \in Nat /\ DOMAIN nodes = 1 .. Len(nodes)
<1>1. \A i \in DOMAIN nodes : {e.to : e \in {f \in EdgesOf(i) : TRUE}} = {e.to : e \in Range(nodes[i].edges)}
  BY DEF EdgesOf
<1>2. [i \in DOMAIN nodes |-> {e.to : e \in {f \in EdgesOf(i) : TRUE}}] = NextOf(nodes)
  BY <1>1 DEF NextOf
<1>3. AllPaths = WaysOf(nodes)
  BY <1>2 DEF AllPaths, Paths, WaysOf
<1> QED BY <1>3, ListFacts DEF Shape, NodesShape, NodeShape, IsGraph

LEMMA InitReal ==
    ASSUME Init
    PROVE  Real
<1>1. Shape
  BY InitShape
<1>2. PICK r \in Worlds[world].recipes[Root] :
        nodes = <<[Node(Root, 0, r, {}) EXCEPT !.deps = With(Empty, Root, 1),
                                               !.closure = With(Empty, Root, 1)]>>
  BY DEF Init, LoadInit
<1> DEFINE x == With(Empty, Root, 1)
           node == [Node(Root, 0, r, {}) EXCEPT !.deps = x, !.closure = x]
<1>3. x[Root] = 1 /\ DOMAIN x = {Root}
  BY DEF With, Empty
<1> HIDE DEF x
<1>4. node.closure = x /\ node.inverse = {} /\ node.ancestors = {}
  BY DEF Node
<1>5. DOMAIN nodes = {1} /\ nodes[1] = node
  BY <1>2 DEF x
<1>6. Leads(nodes, 1, 1)
  BY <1>1, <1>5, NodesAreGraph, GraphWays
<1> HIDE DEF node
<1> QED BY <1>3, <1>4, <1>5, <1>6 DEF Real, ClosureIsReal, InverseIsReal, AncestorsAreReal

LEMMA SameReal ==
    ASSUME Shape, Real, IsList(nodes'), Len(nodes') = Len(nodes), \A i \in DOMAIN nodes : SameLinks(i)
    PROVE  Real'
<1>1. IsGraph(nodes) /\ \A i \in DOMAIN nodes : nodes'[i].edges = nodes[i].edges
  BY NodesAreGraph DEF SameLinks
<1>2. DOMAIN nodes' = DOMAIN nodes /\ WaysOf(nodes') = WaysOf(nodes)
  BY <1>1, WaysOfSame
<1>3. \A i, j : Leads(nodes', i, j) <=> Leads(nodes, i, j)
  BY <1>2 DEF Leads
<1> QED BY <1>2, <1>3 DEF Real, ClosureIsReal, InverseIsReal, AncestorsAreReal, SameLinks

\* What leads where after a node is added, or a diamond closed.
LEMMA AddNodeWays ==
    ASSUME Shape, NEW recipe, Added(recipe), Top.node \in DOMAIN nodes
    PROVE  /\ IsGraph(nodes') /\ DOMAIN nodes' = DOMAIN nodes \union {NewId} /\ NewId \notin DOMAIN nodes
           /\ \A i \in DOMAIN nodes : \A j : Leads(nodes', i, j) <=>
                Leads(nodes, i, j) \/ (Leads(nodes, i, Top.node) /\ j = NewId)
           /\ \A j : Leads(nodes', NewId, j) <=> j = NewId
<1>1. IsGraph(nodes) /\ IsList(nodes') /\ Len(nodes') = Len(nodes) + 1
  BY NodesAreGraph DEF Added, NewId
<1>2. Range(nodes'[Len(nodes) + 1].edges) = {}
  BY DEF Added, NewId, Range
<1>3. /\ \A k \in DOMAIN nodes : k # Top.node => nodes'[k].edges = nodes[k].edges
      /\ Targets(nodes'[Top.node].edges) = Targets(nodes[Top.node].edges) \union {Len(nodes) + 1}
  <2> DEFINE x == EdgeTo(NewId, Next1)
  <2>1. x.to = Len(nodes) + 1
    BY DEF EdgeTo, NewId
  <2> HIDE DEF x
  <2>2. nodes'[Top.node].edges = Append(nodes[Top.node].edges, x) /\ IsList(nodes[Top.node].edges)
    BY DEF Added, x, Shape, NodesShape, NodeShape
  <2>3. Range(nodes'[Top.node].edges) = Range(nodes[Top.node].edges) \union {x}
    BY <2>2, ListAppended
  <2> QED BY <2>1, <2>3 DEF Added, Targets
<1>4. MoreNode(nodes, nodes', Top.node)
  BY <1>1, <1>2, <1>3 DEF MoreNode
<1> QED BY <1>4, WaysToNew DEF NewId

LEMMA CloseDiamondWays ==
    ASSUME Shape, DiamondClosed, Top.node \in DOMAIN nodes, Previous \in DOMAIN nodes
    PROVE  /\ IsGraph(nodes') /\ DOMAIN nodes' = DOMAIN nodes
           /\ \A i \in DOMAIN nodes : \A j : Leads(nodes', i, j) <=>
                Leads(nodes, i, j) \/ (Leads(nodes, i, Top.node) /\ Leads(nodes, Previous, j))
<1>1. IsGraph(nodes) /\ IsList(nodes') /\ Len(nodes') = Len(nodes)
  BY NodesAreGraph DEF DiamondClosed
<1>2. /\ \A k \in DOMAIN nodes : k # Top.node => nodes'[k].edges = nodes[k].edges
      /\ Targets(nodes'[Top.node].edges) = Targets(nodes[Top.node].edges) \union {Previous}
  <2>1. nodes'[Top.node].edges = Linked1(nodes[Top.node].edges, Previous, Next1)
        /\ IsList(nodes[Top.node].edges)
    BY DEF DiamondClosed, Shape, NodesShape, NodeShape
  <2>2. Targets(nodes'[Top.node].edges) = Targets(nodes[Top.node].edges) \union {Previous}
    BY <2>1, LinkedIs DEF Targets
  <2> QED BY <2>2 DEF DiamondClosed
<1>3. MoreEdge(nodes, nodes', Top.node, Previous)
  BY <1>1, <1>2 DEF MoreEdge
<1> QED BY <1>3, WaysOfLinked

LEMMA AddNodeReal ==
    ASSUME Shape, Real, AddNode
    PROVE  Real'
<1>1. PICK recipe : Added(recipe)
  BY AddNodeDoes
<1>2. Top.node \in DOMAIN nodes /\ NodeShape(Top.node) /\ Here = nodes[Top.node]
  BY ExpansionIs DEF AddNode, Here
<1>3. /\ IsGraph(nodes') /\ DOMAIN nodes' = DOMAIN nodes \union {NewId} /\ NewId \notin DOMAIN nodes
      /\ \A i \in DOMAIN nodes : \A j : Leads(nodes', i, j) <=>
           Leads(nodes, i, j) \/ (Leads(nodes, i, Top.node) /\ j = NewId)
      /\ \A j : Leads(nodes', NewId, j) <=> j = NewId
  BY <1>1, <1>2, AddNodeWays
<1>4. /\ \A i \in DOMAIN nodes : SameWishes(i) /\ nodes'[i].ancestors = nodes[i].ancestors
             /\ nodes'[i].inverse = nodes[i].inverse
             /\ (i \notin Users(Next1) => nodes'[i].closure = nodes[i].closure)
             /\ (i \in Users(Next1) => nodes'[i].closure = With(nodes[i].closure, Next1.name, NewId))
      /\ nodes'[NewId].closure = With(Empty, Next1.name, NewId)
      /\ nodes'[NewId].inverse = Users(Next1) /\ nodes'[NewId].ancestors = Ancestry
  BY <1>1 DEF Added
<1>5. \A i \in Users(Next1) : i \in DOMAIN nodes /\ Leads(nodes, i, Top.node)
  <2>1. Leads(nodes, Top.node, Top.node)
    BY <1>2, NodesAreGraph, GraphWays
  <2>2. \A i \in Here.inverse : i \in DOMAIN nodes /\ Leads(nodes, i, Top.node)
    BY <1>2 DEF Real, InverseIsReal, NodeShape
  <2> QED BY <1>2, <2>1, <2>2 DEF Users
<1>6. PICK id : id = NewId
  OBVIOUS
<1>7. ASSUME NEW i \in DOMAIN nodes
      PROVE  ClosureIsReal(i)' /\ InverseIsReal(i)' /\ AncestorsAreReal(i)'
  <2>1. ClosureIsReal(i) /\ InverseIsReal(i) /\ AncestorsAreReal(i) /\ NodeShape(i)
    BY NodesAreGraph DEF Real
  <2>2. ClosureIsReal(i)'
    <3>1. CASE i \notin Users(Next1)
      BY <3>1, <1>3, <1>4, <2>1 DEF ClosureIsReal
    <3>2. CASE i \in Users(Next1)
      <4>1. nodes'[i].closure = With(nodes[i].closure, Next1.name, NewId)
        BY <3>2, <1>4
      <4>2. \A n \in DOMAIN nodes'[i].closure :
              \/ nodes'[i].closure[n] = NewId
              \/ n \in DOMAIN nodes[i].closure /\ nodes'[i].closure[n] = nodes[i].closure[n]
        BY <4>1 DEF With
      <4> QED BY <3>2, <4>2, <1>3, <1>5, <2>1 DEF ClosureIsReal
    <3> QED BY <3>1, <3>2
  <2>3. InverseIsReal(i)'
    BY <1>3, <1>4, <2>1 DEF InverseIsReal, NodeShape
  <2>4. AncestorsAreReal(i)'
    <3>1. \A k \in DOMAIN nodes : nodes'[k].name = nodes[k].name
      BY <1>4 DEF SameWishes
    <3> QED BY <3>1, <1>3, <1>4, <2>1 DEF AncestorsAreReal
  <2> QED BY <2>2, <2>3, <2>4
<1>8. ClosureIsReal(id)' /\ InverseIsReal(id)' /\ AncestorsAreReal(id)'
  <2>1. ClosureIsReal(id)'
    <3>1. \A n \in DOMAIN With(Empty, Next1.name, NewId) : With(Empty, Next1.name, NewId)[n] = NewId
      BY DEF With, Empty
    <3> QED BY <3>1, <1>3, <1>4, <1>6 DEF ClosureIsReal
  <2>2. InverseIsReal(id)'
    BY <1>3, <1>4, <1>5, <1>6 DEF InverseIsReal
  <2>3. AncestorsAreReal(id)'
    <3>1. ASSUME NEW n \in Ancestry
          PROVE  \E k \in DOMAIN nodes : nodes[k].name = n /\ Leads(nodes, k, Top.node)
      <4>1. Leads(nodes, Top.node, Top.node)
        BY <1>2, NodesAreGraph, GraphWays
      <4> QED BY <4>1, <1>2 DEF Ancestry, Real, AncestorsAreReal
    <3>2. \A k \in DOMAIN nodes : nodes'[k].name = nodes[k].name
      BY <1>4 DEF SameWishes
    <3> QED BY <3>1, <3>2, <1>3, <1>4, <1>6 DEF AncestorsAreReal
  <2> QED BY <2>1, <2>2, <2>3
<1> QED BY <1>3, <1>6, <1>7, <1>8 DEF Real

LEMMA CloseDiamondReal ==
    ASSUME Shape, Real, CloseDiamond
    PROVE  Real'
<1>1. DiamondClosed
  BY CloseDiamondDoes
<1>2. /\ Top.node \in DOMAIN nodes /\ NodeShape(Top.node) /\ Here = nodes[Top.node]
      /\ Previous \in DOMAIN nodes /\ NodeShape(Previous)
  BY PreviousIs DEF Here
<1>3. /\ IsGraph(nodes') /\ DOMAIN nodes' = DOMAIN nodes
      /\ \A i \in DOMAIN nodes : \A j : Leads(nodes', i, j) <=>
           Leads(nodes, i, j) \/ (Leads(nodes, i, Top.node) /\ Leads(nodes, Previous, j))
  BY <1>1, <1>2, CloseDiamondWays
<1>4. /\ \A i \in DOMAIN nodes : Leads(nodes, i, i)
      /\ \A i \in DOMAIN nodes : \A j, k : Leads(nodes, i, j) /\ Leads(nodes, j, k) => Leads(nodes, i, k)
  BY NodesAreGraph, GraphWays
<1>5. \A i \in DOMAIN nodes : i = Top.node \/ i \in Here.inverse => Leads(nodes, i, Top.node)
  BY <1>2, <1>4 DEF Real, InverseIsReal
<1>6. \A n \in Shared : n \in DOMAIN Gained /\ Leads(nodes, Previous, Gained[n])
                        /\ Gained[n] \in DOMAIN nodes
  BY <1>2, GainedIs DEF Real, ClosureIsReal
<1>7. DOMAIN Gained = Shared
  BY DEF Gained
<1>8. ASSUME NEW i \in DOMAIN nodes
      PROVE  ClosureIsReal(i)' /\ InverseIsReal(i)' /\ AncestorsAreReal(i)'
  <2>1. ClosureIsReal(i) /\ InverseIsReal(i) /\ AncestorsAreReal(i) /\ NodeShape(i)
    BY NodesAreGraph DEF Real
  <2>2. ClosureIsReal(i)'
    <3>1. CASE ~(i = Top.node \/ i \in Here.inverse)
      <4>1. nodes'[i].closure = nodes[i].closure
        BY <3>1, <1>1 DEF DiamondClosed
      <4> QED BY <4>1, <1>3, <2>1 DEF ClosureIsReal
    <3>2. CASE i = Top.node \/ i \in Here.inverse
      <4>1. nodes'[i].closure = Merge(WithOwn(i, nodes[i].closure), Gained)
        BY <3>2, <1>1 DEF DiamondClosed
      <4>2. \A n \in DOMAIN WithOwn(i, nodes[i].closure) :
              \/ WithOwn(i, nodes[i].closure)[n] = Previous
              \/ /\ n \in DOMAIN nodes[i].closure
                 /\ WithOwn(i, nodes[i].closure)[n] = nodes[i].closure[n]
        BY DEF WithOwn, With
      <4> HIDE DEF Gained
      <4>3. \A n \in DOMAIN nodes'[i].closure :
              \/ n \in Shared /\ nodes'[i].closure[n] = Gained[n]
              \/ nodes'[i].closure[n] = Previous
              \/ n \in DOMAIN nodes[i].closure /\ nodes'[i].closure[n] = nodes[i].closure[n]
        BY <4>1, <4>2, <1>7 DEF Merge
      <4>4. Leads(nodes', i, Previous) /\ \A n \in Shared : Leads(nodes', i, Gained[n])
        BY <3>2, <1>2, <1>3, <1>4, <1>5, <1>6
      <4> QED BY <4>3, <4>4, <1>3, <2>1 DEF ClosureIsReal
    <3> QED BY <3>1, <3>2
  <2>3. InverseIsReal(i)'
    <3>1. ASSUME NEW j \in nodes'[i].inverse PROVE j \in DOMAIN nodes /\ Leads(nodes', j, i)
      <4>1. \/ j \in nodes[i].inverse
            \/ i = Previous /\ j = Top.node
            \/ i \in {Gained[n] : n \in Shared} /\ j \in {Top.node} \union Here.inverse
        BY <1>1 DEF DiamondClosed
      <4>2. CASE j \in nodes[i].inverse
        BY <4>2, <1>3, <2>1 DEF InverseIsReal, NodeShape
      <4>3. CASE i = Previous /\ j = Top.node
        BY <4>3, <1>2, <1>3, <1>4
      <4>4. CASE i \in {Gained[n] : n \in Shared} /\ j \in {Top.node} \union Here.inverse
        <5>1. Leads(nodes, Previous, i) /\ j \in DOMAIN nodes
          BY <4>4, <1>2, <1>6 DEF NodeShape
        <5> QED BY <4>4, <5>1, <1>3, <1>5
      <4> QED BY <4>1, <4>2, <4>3, <4>4
    <3> QED BY <3>1 DEF InverseIsReal
  <2>4. AncestorsAreReal(i)'
    <3>1. \A k \in DOMAIN nodes : nodes'[k].name = nodes[k].name
      BY <1>1 DEF DiamondClosed, SameWishes
    <3>2. CASE i \notin At(Previous)
      <4>1. nodes'[i].ancestors = nodes[i].ancestors
        BY <3>2, <1>1 DEF DiamondClosed
      <4> QED BY <4>1, <3>1, <1>3, <2>1 DEF AncestorsAreReal
    <3>3. CASE i \in At(Previous)
      <4>1. nodes'[i].ancestors = nodes[i].ancestors \union Ancestry
        BY <3>3, <1>1 DEF DiamondClosed
      <4>2. Leads(nodes, Previous, i)
        BY <3>3, <1>2 DEF At, Real, ClosureIsReal
      <4>3. ASSUME NEW n \in Ancestry
            PROVE  \E k \in DOMAIN nodes : nodes[k].name = n /\ Leads(nodes, k, Top.node)
        BY <1>2, <1>4 DEF Ancestry, Real, AncestorsAreReal
      <4> QED BY <4>1, <4>2, <4>3, <3>1, <1>3, <2>1 DEF AncestorsAreReal
    <3> QED BY <3>2, <3>3
  <2> QED BY <2>2, <2>3, <2>4
<1> QED BY <1>3, <1>8 DEF Real

LEMMA NextReal ==
    ASSUME Shape, Real, [Next]_vars
    PROVE  Real'
<1>1. CASE AddNode
  BY <1>1, AddNodeReal
<1>2. CASE CloseDiamond
  BY <1>2, CloseDiamondReal
<1>3. CASE nodes' = nodes
  <2>1. \A i \in DOMAIN nodes : SameLinks(i)
    BY <1>3 DEF SameLinks
  <2> QED BY <1>3, <2>1, SameReal DEF Shape, NodesShape
<1>4. CASE Configure
  BY <1>4, ConfigureDoes, SameReal DEF Configured
<1>5. CASE EvaluateNode
  BY <1>5, EvaluateNodeDoes, SameReal DEF EvaluatedNode
<1>6. CASE Stops
  BY <1>3, <1>6, StopsIs DEF Still
<1> QED BY <1>1, <1>2, <1>3, <1>4, <1>5, <1>6
        DEF Next, Loading, Load, Stops, Return, Evaluate, PassBy, ExtendBuildRequires, LeaveGraph,
            Ended, vars, loadVars
----------------------------------------------------------------------------
(* What the nodes require. *)

\* A node has been configured, or is about to be.
Awaited(i) == stack # <<>> /\ Top.step = "config" /\ Top.node = i
Evaluated(i) ==
    /\ nodes[i].evaluated \/ Awaited(i)
    /\ nodes[i].evaluated => RequiresItsOwn(i) /\ \A r \in Range(nodes[i].requires) : InRange(r)
    /\ ~nodes[i].evaluated => nodes[i].requires = nodes[i].recipe.requires
Evaluations == \A i \in DOMAIN nodes : Evaluated(i)

LEMMA InitEvaluations ==
    ASSUME Init
    PROVE  Evaluations
<1>1. PICK r \in Worlds[world].recipes[Root] :
        nodes = <<[Node(Root, 0, r, {}) EXCEPT !.deps = With(Empty, Root, 1),
                                               !.closure = With(Empty, Root, 1)]>>
  BY DEF Init, LoadInit
<1> DEFINE x == With(Empty, Root, 1)
           node == [Node(Root, 0, r, {}) EXCEPT !.deps = x, !.closure = x]
<1>2. DOMAIN nodes = {1} /\ nodes[1] = node
  BY <1>1
<1> HIDE DEF x
<1>3. ~node.evaluated /\ node.requires = node.recipe.requires
  BY DEF Node
<1>4. stack = <<Call(1, Empty)>>
  BY DEF Init, LoadInit
<1>5. Awaited(1)
  BY <1>4 DEF Awaited, Top, Call
<1> QED BY <1>2, <1>3, <1>5 DEF Evaluations, Evaluated

\* What a node requires by name, after it was configured.
LEMMA WantedNames ==
    ASSUME Shape, Calling, Evaluated(Top.node)
    PROVE  NamesOf(Wanted(Top.reqs)) = NamesOf(Requires(Here.recipe, NewOption))
<1> DEFINE before == IF Here.recipe.method THEN Requires(Here.recipe, NewOption)
                     ELSE Here.requires
<1>1. /\ DOMAIN Wanted(Top.reqs) = DOMAIN before
      /\ \A i \in DOMAIN before : Wanted(Top.reqs)[i].name = before[i].name
  BY CallIs, WantedIs DEF SameRequirement
<1>2. NamesOf(Wanted(Top.reqs)) = NamesOf(before)
  <2> HIDE DEF before
  <2> QED BY <1>1 DEF NamesOf, Range
<1>3. NamesOf(before) = NamesOf(Requires(Here.recipe, NewOption))
  <2>1. CASE Here.recipe.method
    BY <2>1
  <2>2. CASE ~Here.recipe.method
    <3>1. SoundRecipe(Here.name, Here.recipe)
      BY CallIs, RecipeIs DEF Shape, NodeShape, Here
    <3>2. /\ Range(Requires(Here.recipe, NewOption)) = Range(Here.recipe.requires)
          /\ Range(Requires(Here.recipe, Here.option)) = Range(Here.recipe.requires)
      BY <2>2, <3>1, RequiresOfRecipe
    <3>3. NamesOf(Here.requires) = NamesOf(Here.recipe.requires)
      <4>1. CASE Here.evaluated
        BY <4>1, <3>2 DEF Evaluated, RequiresItsOwn, NamesOf, Here
      <4>2. CASE ~Here.evaluated
        BY <4>2 DEF Evaluated, Here
      <4> QED BY <4>1, <4>2
    <3>4. before = Here.requires
      BY <2>2
    <3> QED BY <3>2, <3>3, <3>4 DEF NamesOf
  <2> QED BY <2>1, <2>2
<1> QED BY <1>2, <1>3

LEMMA ConfigureEvaluations ==
    ASSUME Shape, Evaluations, Configure
    PROVE  Evaluations'
<1>1. Configured
  BY ConfigureDoes
<1>2. Calling /\ Top.node \in DOMAIN nodes
  BY CallIs DEF Configure
<1>3. NamesOf(Wanted(Top.reqs)) = NamesOf(Requires(Here.recipe, NewOption))
  BY <1>2, WantedNames DEF Evaluations
<1>4. ASSUME NEW i \in DOMAIN nodes PROVE Evaluated(i)'
  <2>1. CASE i = Top.node
    <3>1. /\ nodes'[i].evaluated /\ nodes'[i].requires = Wanted(Top.reqs)
          /\ nodes'[i].option = NewOption /\ nodes'[i].recipe = Here.recipe
      BY <2>1, <1>1 DEF Configured, SameLinks, Here
    <3>2. \A r \in Range(Wanted(Top.reqs)) : InRange(r)
      BY DEF Configure, Range
    <3> QED BY <3>1, <3>2, <1>3 DEF Evaluated, RequiresItsOwn
  <2>2. CASE i # Top.node
    <3>1. nodes'[i] = nodes[i] /\ ~Awaited(i)
      BY <2>2, <1>1 DEF Configured, Awaited
    <3> QED BY <3>1 DEF Evaluations, Evaluated, RequiresItsOwn
  <2> QED BY <2>1, <2>2
<1> QED BY <1>1, <1>4 DEF Evaluations, Configured

\* Nodes that are not configured require what they did.
LEMMA SameEvaluations ==
    ASSUME Evaluations, NEW i \in DOMAIN nodes, ~Awaited(i),
           nodes'[i].requires = nodes[i].requires, nodes'[i].option = nodes[i].option,
           nodes'[i].recipe = nodes[i].recipe, nodes'[i].evaluated = nodes[i].evaluated
    PROVE  Evaluated(i)'
BY DEF Evaluations, Evaluated, RequiresItsOwn

LEMMA AddNodeEvaluations ==
    ASSUME Shape, Evaluations, AddNode
    PROVE  Evaluations'
<1>1. PICK recipe : Added(recipe)
  BY AddNodeDoes
<1>2. Expanding /\ Top.left # <<>>
  BY DEF AddNode
<1>3. PICK id : id = NewId
  OBVIOUS
<1>4. ASSUME NEW i \in DOMAIN nodes PROVE Evaluated(i)'
  BY <1>1, <1>2, SameEvaluations DEF Added, SameWishes, Awaited, Expanding
<1>5. Evaluated(id)'
  <2>1. ~nodes'[id].evaluated /\ nodes'[id].requires = nodes'[id].recipe.requires
    BY <1>1, <1>3 DEF Added
  <2>2. stack' # <<>> /\ Top' = Call(id, Top.reqs)
    <3>1. IsList(Popped)
      BY <1>2, PoppedIs
    <3> DEFINE x == Call(id, Top.reqs)
    <3>2. stack' = Append(Popped, x)
      BY <1>1, <1>3 DEF Added
    <3> HIDE DEF x
    <3>3. /\ Append(Popped, x)[Len(Popped) + 1] = x /\ Len(Append(Popped, x)) = Len(Popped) + 1
          /\ Len(Popped) \in Nat
      BY <3>1, ListAppended, ListFacts
    <3>4. stack' # <<>>
      <4>1. Len(stack') # 0
        BY <3>2, <3>3
      <4> QED BY <4>1
    <3> QED BY <3>2, <3>3, <3>4 DEF Top, x
  <2> QED BY <2>1, <2>2 DEF Evaluated, Awaited, Call
<1> QED BY <1>1, <1>3, <1>4, <1>5 DEF Evaluations, Added

LEMMA NextEvaluations ==
    ASSUME Shape, Evaluations, [Next]_vars
    PROVE  Evaluations'
<1>1. CASE Configure
  BY <1>1, ConfigureEvaluations
<1>2. CASE AddNode
  BY <1>2, AddNodeEvaluations
<1>3. CASE CloseDiamond
  <2>1. DiamondClosed /\ Expanding
    BY <1>3, CloseDiamondDoes DEF CloseDiamond, Diamond
  <2>2. ASSUME NEW i \in DOMAIN nodes PROVE Evaluated(i)'
    BY <2>1, SameEvaluations DEF DiamondClosed, SameWishes, Awaited, Expanding
  <2> QED BY <2>1, <2>2 DEF Evaluations, DiamondClosed
<1>4. CASE EvaluateNode
  <2>1. EvaluatedNode /\ stack = <<>>
    BY <1>4, EvaluateNodeDoes DEF EvaluateNode, Shape
  <2>2. ASSUME NEW i \in DOMAIN nodes PROVE Evaluated(i)'
    BY <2>1, SameEvaluations DEF EvaluatedNode, SameLinks, Awaited
  <2> QED BY <2>1, <2>2 DEF Evaluations, EvaluatedNode
<1>5. CASE nodes' = nodes /\ stack' = stack
  BY <1>5 DEF Evaluations, Evaluated, RequiresItsOwn, Awaited, Top
<1>6. CASE nodes' = nodes /\ (stack = <<>> \/ Expanding)
  <2>1. ASSUME NEW i \in DOMAIN nodes PROVE Evaluated(i)'
    BY <1>6, SameEvaluations DEF Awaited, Expanding
  <2> QED BY <1>6, <2>1 DEF Evaluations
<1>7. CASE Return
  BY <1>6, <1>7 DEF Return
<1>8. CASE ExtendBuildRequires
  BY <1>6, <1>8 DEF ExtendBuildRequires, Shape
<1>9. CASE Stops
  BY <1>5, <1>9, StopsIs DEF Still
<1> QED BY <1>1, <1>2, <1>3, <1>4, <1>5, <1>7, <1>8, <1>9
        DEF Next, Loading, Load, Stops, Evaluate, PassBy, LeaveGraph, Ended, vars, loadVars
----------------------------------------------------------------------------
\* The nodes of a graph and the calls at work on it are what the code takes them for,
\* whatever the recipes, and however many graphs: the names in scope lead to nodes of
\* these names, a frame is of a node that there is, and there are calls only while the
\* command loads.
THEOREM ShapeHolds == Spec => []Shape
<1>1. Init => Shape
  BY InitShape
<1>2. Shape /\ [Next]_vars => Shape'
  BY NextShape
<1> QED BY <1>1, <1>2, PTL DEF Spec

\* What is noted at a node of what is above it, of what it links and of what depends on
\* it, in AddNode and CloseDiamond, is in the graph.
THEOREM RealHolds == Spec => []Real
<1>1. Init => Real
  BY InitReal
<1>2. Shape /\ Real /\ [Next]_vars => Real'
  BY NextReal
<1> QED BY <1>1, <1>2, ShapeHolds, PTL DEF Spec

\* A requirement that the command refuses as a loop (graph_builder.py:134) would have
\* closed one: what it names is on the way to the node that requires it.
THEOREM NeverAFalseLoop == Spec => []NoFalseLoop
<1>1. Shape /\ Real => NoFalseLoop
  <2> SUFFICES ASSUME Shape, Real, Expanding, Top.left # <<>>, IsLoop(Next1)
               PROVE  IsOnTheWay(Next1.name)
    BY DEF NoFalseLoop
  <2>1. Top.node \in DOMAIN nodes /\ Here = nodes[Top.node]
    BY ExpansionIs DEF Here
  <2>2. \E k \in DOMAIN nodes : nodes[k].name = Next1.name /\ Leads(nodes, k, Top.node)
    <3>1. CASE Next1.name = Here.name
      BY <2>1, <3>1, NodesAreGraph, GraphWays
    <3>2. CASE Next1.name \in Here.ancestors
      BY <2>1, <3>2 DEF Real, AncestorsAreReal
    <3> QED BY <3>1, <3>2 DEF IsLoop, Ancestry
  <2> QED BY <2>2, NodesAreGraph DEF IsOnTheWay, Leads
<1> QED BY <1>1, ShapeHolds, RealHolds, PTL

\* A node of a finished graph requires what its recipe has for the option that it ended
\* up with, though it may have been configured more than once, for other options.
THEOREM RequirementsAreKept == Spec => []RequiresAreTheRecipes
<1>1. Init => Evaluations
  BY InitEvaluations
<1>2. Shape /\ Evaluations /\ [Next]_vars => Evaluations'
  BY NextEvaluations
<1>3. Shape /\ Evaluations => RequiresAreTheRecipes
  BY DEF RequiresAreTheRecipes, Shape, Done, Evaluations, Evaluated, Awaited
<1> QED BY <1>1, <1>2, <1>3, ShapeHolds, PTL DEF Spec
----------------------------------------------------------------------------
(* The order in which a graph without a second node of a name is made. *)

On(k) == stack[k].node
HasEdge(i, n) == \E e \in Range(nodes[i].edges) : nodes[e.to].name = n
Fits(i, r) == \E e \in Range(nodes[i].edges) : nodes[e.to].name = r.name /\ nodes[e.to].version = r.version
\* A node is linked to whatever it requires, and in the version that it requires.
Fulfilled(i) == \A r \in Range(nodes[i].requires) : r.override \/ Fits(i, r)
Complete(i) == \A r \in Range(nodes[i].requires) : r.override \/ HasEdge(i, r.name)
\* A node for which there is a call for the first time, or again.
IsFirst(k) ==
    \A i \in DOMAIN nodes : Leads(nodes, i, On(k)) =>
        \E j \in 1 .. k : On(j) = i /\ (j # k => nodes[i].name \in nodes[On(k)].ancestors)
IsAgain(k) == nodes[On(k)].evaluated /\ Complete(On(k))
\* What is still left to require is required, and there is an edge for the rest.
Leaves(k) ==
    stack[k].step = "expand" =>
        /\ Range(stack[k].left) \subseteq Range(nodes[On(k)].requires)
        /\ stack[k].left # <<>> => ~Head(stack[k].left).override
        /\ \A r \in Range(nodes[On(k)].requires) :
             r.override \/ r \in Range(stack[k].left) \/ Fits(On(k), r)

PathHolds ==
    \A k \in DOMAIN stack : \A j \in 1 .. k :
        j # k => On(j) # On(k) /\ Leads(nodes, On(j), On(k))
Acyclic == \A i \in DOMAIN nodes : \A e \in Range(nodes[i].edges) : ~Leads(nodes, e.to, i)
Finished == \A i \in DOMAIN nodes : (\A k \in DOMAIN stack : On(k) # i) => Fulfilled(i)
InOrder ==
    /\ PathHolds /\ Acyclic /\ Finished
    /\ \A k \in DOMAIN stack : Leaves(k) /\ (IsFirst(k) \/ IsAgain(k))

\* Before the evaluation of the graph, and of those of build requirements after it, the
\* above holds while no package has two nodes.
Unevaluated == found = Empty
Ordered ==
    /\ (Unevaluated /\ OnceEach) => InOrder
    /\ (Unevaluated /\ outcome = "evaluating") => Graph.todo # {}

LEMMA StackIs ==
    ASSUME Shape
    PROVE  /\ Len(stack) \in Nat /\ DOMAIN stack = 1 .. Len(stack) /\ IsList(stack)
           /\ stack # <<>> => Len(stack) \in 1 .. Len(stack) /\ On(Len(stack)) = Top.node
           /\ \A k \in DOMAIN stack : On(k) \in DOMAIN nodes
BY ListFacts DEF Shape, StackShape, FrameShape, On, Top

\* A step that leaves what nodes require, and adds edges at most, leaves them complete.
EdgesKept ==
    /\ DOMAIN nodes \subseteq DOMAIN nodes'
    /\ \A i \in DOMAIN nodes :
         /\ SameWishes(i) /\ Range(nodes[i].edges) \subseteq Range(nodes'[i].edges)

LEMMA CompleteStays ==
    ASSUME Shape, EdgesKept, NEW i \in DOMAIN nodes
    PROVE  /\ \A n : HasEdge(i, n) => HasEdge(i, n)'
           /\ \A r : Fits(i, r) => Fits(i, r)'
           /\ Complete(i) => Complete(i)'
           /\ Fulfilled(i) => Fulfilled(i)'
           /\ Fulfilled(i) => Complete(i)
<1>1. \A e \in Range(nodes[i].edges) : e.to \in DOMAIN nodes
  BY DEF Shape, NodesShape, NodeShape
<1>2. \A n : HasEdge(i, n) => HasEdge(i, n)'
  BY <1>1 DEF EdgesKept, SameWishes, HasEdge
<1>3. \A r : Fits(i, r) => Fits(i, r)'
  BY <1>1 DEF EdgesKept, SameWishes, Fits
<1>4. nodes'[i].requires = nodes[i].requires
  BY DEF EdgesKept, SameWishes
<1>5. Fulfilled(i) => Complete(i)
  BY DEF Fulfilled, Complete, Fits, HasEdge
<1> QED BY <1>2, <1>3, <1>4, <1>5 DEF Complete, Fulfilled

LEMMA InitOrdered ==
    ASSUME Init
    PROVE  Ordered
<1>1. Shape /\ stack = <<Call(1, Empty)>> /\ outcome = "loading"
  BY InitShape DEF Init, LoadInit
<1>2. PICK r : nodes = <<[Node(Root, 0, r, {}) EXCEPT !.deps = With(Empty, Root, 1),
                                                    !.closure = With(Empty, Root, 1)]>>
  BY DEF Init, LoadInit
<1>3. DOMAIN nodes = {1} /\ nodes[1].edges = <<>>
  <2> DEFINE x == With(Empty, Root, 1)
  <2> HIDE DEF x
  <2>1. nodes = <<[Node(Root, 0, r, {}) EXCEPT !.deps = x, !.closure = x]>>
    BY <1>2 DEF x
  <2>2. DOMAIN nodes = {1} /\ nodes[1] = [Node(Root, 0, r, {}) EXCEPT !.deps = x, !.closure = x]
    BY <2>1
  <2>3. nodes[1].edges = <<>>
    BY <2>2 DEF Node
  <2> QED BY <2>2, <2>3
<1>4. DOMAIN stack = {1} /\ On(1) = 1 /\ stack[1].step = "config"
  BY <1>1 DEF On, Call
<1>5. \A e \in Range(nodes[1].edges) : FALSE
  BY <1>3 DEF Range
<1>6. IsFirst(1)
  BY <1>3, <1>4 DEF IsFirst
<1>7. PathHolds
  BY <1>4 DEF PathHolds
<1>8. Acyclic /\ Finished /\ Leaves(1)
  BY <1>3, <1>4, <1>5 DEF Acyclic, Finished, Leaves
<1> QED BY <1>1, <1>4, <1>6, <1>7, <1>8 DEF Ordered, InOrder

\* A node that is configured again requires what it did before, perhaps in other versions.
LEMMA RequiredAgain ==
    ASSUME Shape, Configure, Here.evaluated \/ ~Here.recipe.method
    PROVE  /\ \A r \in Range(Wanted(Top.reqs)) :
                \E q \in Range(Here.requires) : q.name = r.name /\ q.override = r.override
           /\ \A q \in Range(Here.requires) :
                \E r \in Range(Wanted(Top.reqs)) : q.name = r.name /\ q.override = r.override
<1>1. Calling /\ Top.node \in DOMAIN nodes
  BY CallIs DEF Configure
<1>2. CASE Here.recipe.method
  <2>1. Wanted(Top.reqs) = Here.requires
    BY <1>2 DEF Configure, Incompatible
  <2> QED BY <2>1
<1>3. CASE ~Here.recipe.method
  <2>1. /\ DOMAIN Wanted(Top.reqs) = DOMAIN Here.requires
        /\ \A i \in DOMAIN Here.requires : SameRequirement(Here.requires[i], Wanted(Top.reqs)[i])
    BY <1>1, <1>3, WantedIs
  <2> QED BY <2>1 DEF SameRequirement, Range
<1> QED BY <1>2, <1>3

LEMMA ConfigureComplete ==
    ASSUME Shape, Configure, Here.evaluated, NEW at, at = Top.node, Complete(at)
    PROVE  Complete(at)'
<1>1. Configured /\ at \in DOMAIN nodes /\ NodeShape(at) /\ Here = nodes[at]
  BY ConfigureDoes, CallIs DEF Configure, Here
<1>2. /\ nodes'[at].edges = nodes[at].edges /\ nodes'[at].requires = Wanted(Top.reqs)
      /\ \A i \in DOMAIN nodes : nodes'[i].name = nodes[i].name
  BY <1>1 DEF Configured, SameLinks
<1>3. \A n : HasEdge(at, n) => HasEdge(at, n)'
  BY <1>1, <1>2 DEF HasEdge, NodeShape
<1>4. ASSUME NEW r \in Range(Wanted(Top.reqs)) PROVE r.override \/ HasEdge(at, r.name)
  BY <1>1, RequiredAgain DEF Complete
<1> QED BY <1>2, <1>3, <1>4 DEF Complete

\* The calls to do something again remain.
AgainStays == \A k \in DOMAIN stack : (k \in DOMAIN stack' /\ IsAgain(k)) => IsAgain(k)'

LEMMA ConfigureInOrder ==
    ASSUME Shape, InOrder, Configure
    PROVE  InOrder' /\ AgainStays
<1> DEFINE n == Len(stack)
           at == Top.node
<1>1. /\ Configured /\ Calling /\ at \in DOMAIN nodes /\ Top.step = "config" /\ stack # <<>>
      /\ Here = nodes[at] /\ Top = stack[n]
  BY ConfigureDoes, CallIs DEF Configure, Calling, Here, Top
<1>2. /\ n \in Nat /\ DOMAIN stack = 1 .. n /\ n \in 1 .. n /\ On(n) = at
      /\ \A k \in DOMAIN stack : On(k) \in DOMAIN nodes
  BY <1>1, StackIs
<1>3. /\ DOMAIN nodes' = DOMAIN nodes /\ DOMAIN stack' = DOMAIN stack
      /\ \A k \in DOMAIN stack : k # n => stack'[k] = stack[k]
      /\ stack'[n] = Expansion(at, Upstream(Top.reqs, Wanted(Top.reqs)), NewAsks,
                               Handled(Wanted(Top.reqs)))
      /\ \A i \in DOMAIN nodes : i # at => nodes'[i] = nodes[i]
      /\ nodes'[at].requires = Wanted(Top.reqs) /\ nodes'[at].evaluated
      /\ \A i \in DOMAIN nodes : /\ nodes'[i].name = nodes[i].name
                                 /\ nodes'[i].version = nodes[i].version
                                 /\ nodes'[i].edges = nodes[i].edges
                                 /\ nodes'[i].ancestors = nodes[i].ancestors
  BY <1>1 DEF Configured, SameLinks
<1>4. WaysOf(nodes') = WaysOf(nodes)
  BY <1>1, <1>3, NodesAreGraph, WaysOfSame DEF Configured
<1>5. \A i, j : Leads(nodes', i, j) <=> Leads(nodes, i, j)
  BY <1>4 DEF Leads
<1> HIDE DEF n, at
<1>6. \A k \in DOMAIN stack : On(k)' = On(k)
  BY <1>2, <1>3 DEF On, Expansion
<1>7. \A k \in DOMAIN stack : k # n => On(k) # at
  BY <1>2 DEF InOrder, PathHolds
<1>8. /\ \A i \in DOMAIN nodes : \A m : HasEdge(i, m)' <=> HasEdge(i, m)
      /\ \A i \in DOMAIN nodes : \A r : Fits(i, r)' <=> Fits(i, r)
  BY <1>3 DEF HasEdge, Fits, Shape, NodesShape, NodeShape
<1>9. \A i \in DOMAIN nodes : i # at => (Complete(i)' <=> Complete(i)) /\ (Fulfilled(i)' <=> Fulfilled(i))
  BY <1>3, <1>8 DEF Complete, Fulfilled
<1>10. PathHolds' /\ Acyclic'
  <2>1. PathHolds'
    <3>1. \A k \in DOMAIN stack : \A j \in 1 .. k : j \in DOMAIN stack
      BY <1>2
    <3> QED BY <3>1, <1>3, <1>5, <1>6 DEF InOrder, PathHolds
  <2>2. Acyclic'
    BY <1>3, <1>5 DEF InOrder, Acyclic
  <2> QED BY <2>1, <2>2
<1>11. Finished'
  <2>1. ASSUME NEW i \in DOMAIN nodes, \A k \in DOMAIN stack : On(k) # i PROVE Fulfilled(i)'
    <3>1. i # at /\ Fulfilled(i)
      BY <1>2, <2>1 DEF InOrder, Finished
    <3> QED BY <3>1, <1>9
  <2> QED BY <2>1, <1>3, <1>6 DEF Finished
<1>12. ASSUME NEW k \in DOMAIN stack PROVE Leaves(k)'
  <2>1. CASE k = n
    <3>1. AreRequirements(Wanted(Top.reqs))
      BY <1>1, WantedIs DEF at
    <3>2. IsList(Wanted(Top.reqs))
      BY <3>1 DEF AreRequirements
    <3>3. stack'[k].left = Handled(Wanted(Top.reqs)) /\ nodes'[On(k)'].requires = Wanted(Top.reqs)
      BY <2>1, <1>2, <1>3, <1>6 DEF Expansion
    <3>4. LET w == Wanted(Top.reqs)
          IN  /\ Range(Handled(w)) \subseteq Range(w)
              /\ Handled(w) # <<>> => ~Head(Handled(w)).override
              /\ \A r \in Range(w) : ~r.override => r \in Range(Handled(w))
      BY <3>2, HandledIs
    <3> QED BY <3>3, <3>4 DEF Leaves
  <2>2. CASE k # n
    <3>1. stack'[k] = stack[k] /\ On(k)' = On(k) /\ On(k) \in DOMAIN nodes /\ On(k) # at
      BY <2>2, <1>2, <1>3, <1>6, <1>7
    <3>2. nodes'[On(k)] = nodes[On(k)]
      BY <3>1, <1>3
    <3> QED BY <3>1, <3>2, <1>8 DEF InOrder, Leaves
  <2> QED BY <2>1, <2>2
<1>13. ASSUME NEW k \in DOMAIN stack PROVE IsFirst(k) => IsFirst(k)'
  <2>1. On(k) \in DOMAIN nodes /\ \A j \in 1 .. k : j \in DOMAIN stack
    BY <1>2
  <2> QED BY <2>1, <1>3, <1>5, <1>6 DEF IsFirst
<1>14. ASSUME NEW k \in DOMAIN stack, IsAgain(k) PROVE IsAgain(k)'
  <2>1. PICK i \in DOMAIN nodes : i = On(k)
    BY <1>2
  <2>2. CASE k # n
    <3>1. nodes'[i].evaluated /\ Complete(i)'
      BY <2>1, <2>2, <1>3, <1>7, <1>9, <1>14 DEF IsAgain
    <3> QED BY <2>1, <3>1, <1>6 DEF IsAgain
  <2>3. CASE k = n
    <3>1. i = at
      BY <2>1, <2>3, <1>2
    <3>2. Complete(i)'
      BY <2>1, <3>1, <1>1, <1>14, ConfigureComplete DEF IsAgain, at
    <3> QED BY <2>1, <3>1, <3>2, <1>3, <1>6 DEF IsAgain
  <2> QED BY <2>2, <2>3
<1> QED BY <1>3, <1>10, <1>11, <1>12, <1>13, <1>14 DEF InOrder, AgainStays

\* The calls after a requirement has been dealt with, and perhaps a node called for.
LEMMA FramesAfter ==
    ASSUME Shape, Expanding, Top.left # <<>>, NEW id,
           stack' = Popped \/ stack' = Append(Popped, Call(id, Top.reqs))
    PROVE  /\ Len(stack) \in Nat /\ DOMAIN stack = 1 .. Len(stack) /\ Len(stack) \in DOMAIN stack
           /\ DOMAIN stack' = DOMAIN stack
                \/ /\ DOMAIN stack' = DOMAIN stack \union {Len(stack) + 1}
                   /\ stack'[Len(stack) + 1] = Call(id, Top.reqs)
           /\ stack' = Append(Popped, Call(id, Top.reqs)) =>
                /\ DOMAIN stack' = DOMAIN stack \union {Len(stack) + 1}
                /\ stack'[Len(stack) + 1] = Call(id, Top.reqs)
           /\ Len(stack) + 1 \notin DOMAIN stack
           /\ \A k \in DOMAIN stack :
                /\ stack'[k].node = stack[k].node /\ stack'[k].step = stack[k].step
                /\ stack'[k].reqs = stack[k].reqs /\ stack'[k].asks = stack[k].asks
                /\ k # Len(stack) => stack'[k] = stack[k]
                /\ k = Len(stack) => stack'[k].left = Handled(Tail(Top.left))
<1> DEFINE n == Len(stack)
           x == Call(id, Top.reqs)
<1>1. /\ n \in Nat /\ DOMAIN stack = 1 .. n /\ n \in 1 .. n /\ n + 1 \notin 1 .. n
      /\ 1 .. (n + 1) = (1 .. n) \union {n + 1}
      /\ Top = stack[n] /\ Top.step = "expand"
  BY StackIs DEF Expanding, Top
<1>2. /\ IsList(Popped) /\ Len(Popped) = n /\ DOMAIN Popped = 1 .. n
      /\ \A k \in 1 .. n : k # n => Popped[k] = stack[k]
      /\ Popped[n].step = "expand" /\ Popped[n].node = Top.node
      /\ Popped[n].reqs = Top.reqs /\ Popped[n].asks = Top.asks
      /\ Popped[n].left = Handled(Tail(Top.left))
  BY <1>1, PoppedIs
<1>3. /\ DOMAIN Append(Popped, x) = 1 .. (n + 1) /\ Append(Popped, x)[n + 1] = x
      /\ \A k \in 1 .. n : Append(Popped, x)[k] = Popped[k]
  <2> HIDE DEF x, n
  <2>1. /\ DOMAIN Append(Popped, x) = 1 .. (Len(Popped) + 1)
        /\ \A i \in 1 .. Len(Popped) : Append(Popped, x)[i] = Popped[i]
        /\ Append(Popped, x)[Len(Popped) + 1] = x
    BY <1>2, ListAppended
  <2> QED BY <1>2, <2>1
<1>4. \A k \in 1 .. n : stack'[k] = Popped[k]
  BY <1>3
<1>5. \/ stack' = Popped /\ DOMAIN stack' = DOMAIN stack
      \/ /\ stack' = Append(Popped, x) /\ DOMAIN stack' = DOMAIN stack \union {n + 1}
         /\ stack'[n + 1] = x
  BY <1>1, <1>2, <1>3
<1>6. stack' = Append(Popped, x) => DOMAIN stack' = DOMAIN stack \union {n + 1} /\ stack'[n + 1] = x
  BY <1>1, <1>3
<1> HIDE DEF n, x
<1>7. ASSUME NEW k \in DOMAIN stack
      PROVE  /\ stack'[k].node = stack[k].node /\ stack'[k].step = stack[k].step
             /\ stack'[k].reqs = stack[k].reqs /\ stack'[k].asks = stack[k].asks
             /\ k # n => stack'[k] = stack[k]
             /\ k = n => stack'[k].left = Handled(Tail(Top.left))
  <2>1. CASE k = n
    BY <2>1, <1>1, <1>2, <1>4
  <2>2. CASE k # n
    BY <2>2, <1>1, <1>2, <1>4
  <2> QED BY <2>1, <2>2
<1> QED BY <1>1, <1>5, <1>6, <1>7 DEF n, x

\* What is in order below the calls stays so, when there is an edge for the requirement.
LEMMA FramesStay ==
    ASSUME Shape, InOrder, Expanding, Top.left # <<>>, NEW id,
           stack' = Popped \/ stack' = Append(Popped, Call(id, Top.reqs)),
           EdgesKept, NEW at, at = Top.node,
           NEW r, r = Next1, Fits(at, r)'
    PROVE  \A k \in DOMAIN stack : /\ On(k)' = On(k) /\ Leaves(k)'
                                   /\ IsAgain(k) => IsAgain(k)'
<1> DEFINE n == Len(stack)
<1>1. /\ n \in DOMAIN stack /\ On(n) = at
      /\ \A k \in DOMAIN stack :
           /\ stack'[k].node = stack[k].node /\ stack'[k].step = stack[k].step
           /\ k # n => stack'[k] = stack[k]
           /\ k = n => stack'[k].left = Handled(Tail(Top.left))
      /\ \A k \in DOMAIN stack : On(k) \in DOMAIN nodes
  BY FramesAfter, StackIs DEF On, Top
<1> HIDE DEF n
<1>2. ASSUME NEW k \in DOMAIN stack PROVE On(k)' = On(k)
  BY <1>1 DEF On
<1>3. ASSUME NEW k \in DOMAIN stack, IsAgain(k) PROVE IsAgain(k)'
  <2>1. PICK i \in DOMAIN nodes : i = On(k)
    BY <1>1
  <2>2. nodes'[i].evaluated /\ Complete(i)'
    BY <1>3, <2>1, CompleteStays DEF IsAgain, EdgesKept, SameWishes
  <2> QED BY <2>1, <2>2, <1>2 DEF IsAgain
<1>4. ASSUME NEW k \in DOMAIN stack PROVE Leaves(k)'
  <2>1. PICK i \in DOMAIN nodes : i = On(k)
    BY <1>1
  <2>2. nodes'[i].requires = nodes[i].requires /\ \A q : Fits(i, q) => Fits(i, q)'
    BY CompleteStays DEF EdgesKept, SameWishes
  <2>3. CASE k # n
    <3>1. stack'[k] = stack[k] /\ On(k)' = i
      BY <2>1, <2>3, <1>1, <1>2
    <3> QED BY <2>1, <2>2, <3>1 DEF InOrder, Leaves
  <2>4. CASE k = n
    <3>1. /\ stack[k] = Top /\ stack[k].step = "expand" /\ i = at
          /\ stack'[k].left = Handled(Tail(Top.left)) /\ On(k)' = i
      BY <2>1, <2>4, <1>1, <1>2 DEF Expanding, Top, n
    <3>2. IsList(Top.left)
      BY ExpansionIs DEF AreRequirements
    <3>3. /\ IsList(Tail(Top.left))
          /\ Range(Top.left) = {Next1} \union Range(Tail(Top.left))
      BY <3>2, ListTail DEF Next1
    <3> DEFINE rest == Handled(Tail(Top.left))
    <3>4. /\ Range(rest) \subseteq Range(Tail(Top.left))
          /\ rest # <<>> => ~Head(rest).override
          /\ \A q \in Range(Tail(Top.left)) : ~q.override => q \in Range(rest)
      BY <3>3, HandledIs
    <3> HIDE DEF rest
    <3>5. /\ Range(Top.left) \subseteq Range(nodes[i].requires)
          /\ \A q \in Range(nodes[i].requires) :
               q.override \/ q \in Range(Top.left) \/ Fits(i, q)
      BY <2>1, <3>1 DEF InOrder, Leaves
    <3>6. ASSUME NEW q \in Range(nodes[i].requires)
          PROVE  q.override \/ q \in Range(rest) \/ Fits(i, q)'
      <4>1. CASE q = Next1
        BY <4>1, <3>1
      <4>2. CASE q # Next1
        BY <4>2, <2>2, <3>3, <3>4, <3>5
      <4> QED BY <4>1, <4>2
    <3>7. stack'[k].left = rest
      BY <3>1 DEF rest
    <3> QED BY <2>2, <3>1, <3>3, <3>4, <3>5, <3>6, <3>7 DEF Leaves
  <2> QED BY <2>3, <2>4
<1> QED BY <1>2, <1>3, <1>4

\* What is required again has its node already.
LEMMA AgainHasEdge ==
    ASSUME Shape, InOrder, Expanding, Top.left # <<>>, IsAgain(Len(stack))
    PROVE  \E e \in Range(nodes[Top.node].edges) :
              e.to \in DOMAIN nodes /\ nodes[e.to].name = Next1.name
<1>1. Len(stack) \in DOMAIN stack /\ On(Len(stack)) = Top.node /\ Top = stack[Len(stack)]
  BY FramesAfter, StackIs DEF On, Top, Expanding
<1>2. Next1 \in Range(Top.left) /\ NodeShape(Top.node)
  BY ExpansionIs
<1>3. Next1 \in Range(nodes[Top.node].requires) /\ ~Next1.override
  BY <1>1, <1>2 DEF InOrder, Leaves, Expanding, Next1
<1>4. HasEdge(Top.node, Next1.name)
  BY <1>1, <1>3 DEF IsAgain, Complete
<1> QED BY <1>2, <1>4 DEF HasEdge, NodeShape

LEMMA AddNodeInOrder ==
    ASSUME Shape, InOrder, AddNode, OnceEach'
    PROVE  InOrder' /\ AgainStays
<1> DEFINE n == Len(stack)
<1>1. PICK recipe : Added(recipe)
  BY AddNodeDoes
<1>2. PICK id : id = NewId
  OBVIOUS
<1>3. PICK at : at = Top.node
  OBVIOUS
<1>4. PICK m, r : m = Next1.name /\ r = Next1
  OBVIOUS
<1>5. /\ Expanding /\ Top.left # <<>> /\ at \in DOMAIN nodes /\ Here = nodes[at]
      /\ at = On(n) /\ n \in DOMAIN stack
  BY <1>3, ExpansionIs, FramesAfter, StackIs DEF AddNode, Here, On, Top, Expanding
<1>6. stack' = Append(Popped, Call(id, Top.reqs))
  BY <1>1, <1>2 DEF Added
<1>7. /\ n \in Nat /\ DOMAIN stack = 1 .. n /\ n + 1 \notin DOMAIN stack
      /\ DOMAIN stack' = DOMAIN stack \union {n + 1} /\ stack'[n + 1] = Call(id, Top.reqs)
  BY <1>5, <1>6, FramesAfter
<1>8. /\ IsGraph(nodes') /\ DOMAIN nodes' = DOMAIN nodes \union {id} /\ id \notin DOMAIN nodes
      /\ \A i \in DOMAIN nodes : \A j : Leads(nodes', i, j) <=>
           Leads(nodes, i, j) \/ (Leads(nodes, i, at) /\ j = id)
      /\ \A j : Leads(nodes', id, j) <=> j = id
  BY <1>1, <1>2, <1>3, <1>5, AddNodeWays
<1>9. /\ \A i \in DOMAIN nodes :
           /\ SameWishes(i) /\ nodes'[i].ancestors = nodes[i].ancestors
           /\ (i # at => nodes'[i].edges = nodes[i].edges)
      /\ nodes'[at].edges = Append(nodes[at].edges, EdgeTo(id, Next1))
      /\ nodes'[id].name = m /\ nodes'[id].version = r.version /\ nodes'[id].ancestors = Ancestry /\ nodes'[id].edges = <<>>
  BY <1>1, <1>2, <1>3, <1>4, <1>5 DEF Added
<1>10. Range(nodes'[at].edges) = Range(nodes[at].edges) \union {EdgeTo(id, Next1)}
  <2> DEFINE x == EdgeTo(id, Next1)
  <2>1. IsList(nodes[at].edges)
    BY <1>5 DEF Shape, NodesShape, NodeShape
  <2> HIDE DEF x
  <2>2. nodes'[at].edges = Append(nodes[at].edges, x)
    BY <1>9 DEF x
  <2> QED BY <2>1, <2>2, ListAppended DEF x
<1>11. EdgeTo(id, Next1).to = id
  BY DEF EdgeTo
<1>12. EdgesKept
  BY <1>8, <1>9, <1>10 DEF EdgesKept, SameWishes
<1>13. Fits(at, r)'
  <2>1. nodes'[EdgeTo(id, Next1).to].name = r.name /\ nodes'[EdgeTo(id, Next1).to].version = r.version
    BY <1>4, <1>9, <1>11
  <2> QED BY <1>10, <2>1 DEF Fits
<1>14. \A k \in DOMAIN stack : /\ On(k)' = On(k) /\ Leaves(k)'
                               /\ IsAgain(k) => IsAgain(k)'
  BY <1>3, <1>4, <1>5, <1>6, <1>12, <1>13, FramesStay
<1>15. IsFirst(n)
  <2>1. SUFFICES ASSUME IsAgain(n) PROVE FALSE
    BY <1>5 DEF InOrder
  <2>2. PICK e \in Range(nodes[at].edges) : e.to \in DOMAIN nodes /\ nodes[e.to].name = m
    BY <2>1, <1>3, <1>4, <1>5, AgainHasEdge
  <2>3. nodes'[e.to].name = nodes'[id].name /\ e.to \in DOMAIN nodes' /\ id \in DOMAIN nodes'
    BY <2>2, <1>8, <1>9 DEF SameWishes
  <2> QED BY <2>2, <2>3, <1>8 DEF OnceEach
<1>16. PICK new : new = n + 1
  OBVIOUS
<1>17. On(new)' = id /\ stack'[new].step = "config"
  BY <1>7, <1>16 DEF On, Call
<1> HIDE DEF n
<1>18. \A k \in DOMAIN stack : On(k) \in DOMAIN nodes /\ On(k) # id
  BY <1>8, StackIs
<1>19. \A k \in DOMAIN stack : Leads(nodes, On(k), at)
  <2>1. Leads(nodes, at, at)
    BY <1>5, NodesAreGraph, GraphWays
  <2>2. \A k \in DOMAIN stack : k = n \/ (k \in 1 .. n /\ k # n)
    BY <1>7
  <2> QED BY <1>5, <2>1, <2>2 DEF InOrder, PathHolds
<1>20. PathHolds'
  <2>1. ASSUME NEW k \in DOMAIN stack', NEW j \in 1 .. k, j # k
        PROVE  On(j)' # On(k)' /\ Leads(nodes', On(j)', On(k)')
    <3>1. CASE k = new
      <4>1. j \in DOMAIN stack
        BY <1>7, <1>16, <2>1, <3>1
      <4> QED BY <3>1, <4>1, <1>8, <1>14, <1>17, <1>18, <1>19
    <3>2. CASE k # new
      <4>1. k \in DOMAIN stack /\ j \in DOMAIN stack
        BY <1>7, <1>16, <2>1, <3>2
      <4>2. On(j) # On(k) /\ Leads(nodes, On(j), On(k))
        BY <4>1, <2>1 DEF InOrder, PathHolds
      <4> QED BY <4>1, <4>2, <1>8, <1>14, <1>18
    <3> QED BY <3>1, <3>2
  <2> QED BY <2>1 DEF PathHolds
<1>21. Acyclic'
  <2>1. ASSUME NEW i \in DOMAIN nodes', NEW e \in Range(nodes'[i].edges)
        PROVE  ~Leads(nodes', e.to, i)
    <3>1. CASE i = id
      BY <3>1, <1>9 DEF Range
    <3>2. CASE i # id /\ e \in Range(nodes[i].edges)
      <4>1. i \in DOMAIN nodes /\ e.to \in DOMAIN nodes /\ ~Leads(nodes, e.to, i)
        BY <3>2, <1>8 DEF InOrder, Acyclic, Shape, NodesShape, NodeShape
      <4> QED BY <4>1, <3>2, <1>8
    <3>3. CASE i # id /\ e \notin Range(nodes[i].edges)
      <4>1. e.to = id
        BY <3>3, <1>8, <1>9, <1>10, <1>11
      <4> QED BY <4>1, <3>3, <1>8
    <3> QED BY <3>1, <3>2, <3>3
  <2> QED BY <2>1 DEF Acyclic
<1>22. Finished'
  <2>1. ASSUME NEW i \in DOMAIN nodes', \A k \in DOMAIN stack' : On(k)' # i PROVE Fulfilled(i)'
    <3>1. i # id
      BY <2>1, <1>7, <1>16, <1>17
    <3>2. i \in DOMAIN nodes /\ \A k \in DOMAIN stack : On(k) # i
      BY <2>1, <3>1, <1>7, <1>8, <1>14
    <3>3. Fulfilled(i)
      BY <3>2 DEF InOrder, Finished
    <3> QED BY <3>2, <3>3, <1>12, CompleteStays
  <2> QED BY <2>1 DEF Finished
<1>23. ASSUME NEW k \in DOMAIN stack PROVE IsFirst(k)' \/ IsAgain(k)'
  <2>1. CASE IsAgain(k)
    BY <2>1, <1>14
  <2>2. CASE IsFirst(k)
    <3>1. ASSUME NEW i \in DOMAIN nodes', Leads(nodes', i, On(k))
          PROVE  \E j \in 1 .. k : /\ On(j)' = i
                                   /\ j # k => nodes'[i].name \in nodes'[On(k)].ancestors
      <4>1. i \in DOMAIN nodes /\ Leads(nodes, i, On(k))
        BY <3>1, <1>8, <1>18
      <4>2. PICK j \in 1 .. k : On(j) = i /\ (j # k => nodes[i].name \in nodes[On(k)].ancestors)
        BY <2>2, <4>1 DEF IsFirst
      <4>3. j \in DOMAIN stack
        BY <1>7
      <4> QED BY <4>1, <4>2, <4>3, <1>9, <1>14, <1>18 DEF SameWishes
    <3>2. IsFirst(k)'
      BY <3>1, <1>14 DEF IsFirst
    <3> QED BY <3>2
  <2> QED BY <2>1, <2>2 DEF InOrder
<1>24. IsFirst(new)'
  <2>1. ASSUME NEW i \in DOMAIN nodes', Leads(nodes', i, id)
        PROVE  \E j \in 1 .. new : /\ On(j)' = i
                                   /\ j # new => nodes'[i].name \in nodes'[id].ancestors
    <3>1. CASE i = id
      BY <3>1, <1>7, <1>16, <1>17
    <3>2. CASE i # id
      <4>1. i \in DOMAIN nodes /\ Leads(nodes, i, at)
        BY <2>1, <3>2, <1>8, NodesAreGraph, GraphWays
      <4>2. PICK j \in 1 .. n : On(j) = i /\ (j # n => nodes[i].name \in nodes[at].ancestors)
        BY <1>5, <1>15, <4>1 DEF IsFirst
      <4>3. j \in DOMAIN stack /\ j \in 1 .. new
        BY <1>7, <1>16
      <4>4. nodes[i].name \in Ancestry
        BY <4>2, <1>5 DEF Ancestry
      <4> QED BY <4>1, <4>2, <4>3, <4>4, <1>9, <1>14 DEF SameWishes
    <3> QED BY <3>1, <3>2
  <2> QED BY <2>1, <1>17 DEF IsFirst
<1>25. Leaves(new)'
  BY <1>17 DEF Leaves
<1>26. DOMAIN stack' = DOMAIN stack \union {new}
  BY <1>7, <1>16
<1> QED BY <1>14, <1>20, <1>21, <1>22, <1>23, <1>24, <1>25, <1>26 DEF InOrder, AgainStays

LEMMA CloseDiamondInOrder ==
    ASSUME Shape, Evaluations, InOrder, OnceEach, CloseDiamond
    PROVE  /\ InOrder' /\ AgainStays
           /\ ~Leads(nodes, Previous, Top.node)
           /\ \A k \in DOMAIN stack' \ DOMAIN stack : IsAgain(k)'
<1> DEFINE n == Len(stack)
<1>1. DiamondClosed
  BY CloseDiamondDoes
<1>2. PICK id : id = Previous
  OBVIOUS
<1>3. PICK at : at = Top.node
  OBVIOUS
<1>4. PICK m, r : m = Next1.name /\ r = Next1
  OBVIOUS
<1>5. /\ Expanding /\ Top.left # <<>> /\ at \in DOMAIN nodes /\ Here = nodes[at]
      /\ at = On(n) /\ n \in DOMAIN stack /\ id \in DOMAIN nodes /\ nodes[id].name = m
      /\ nodes[id].version = r.version /\ ~IsLoop(Next1)
  BY <1>2, <1>3, <1>4, PreviousIs, FramesAfter, StackIs
     DEF Here, On, Top, Expanding, CloseDiamond, Diamond, Conflicting
<1>6. stack' = Popped \/ stack' = Append(Popped, Call(id, Top.reqs))
  BY <1>1, <1>2 DEF DiamondClosed
<1>7. /\ n \in Nat /\ DOMAIN stack = 1 .. n /\ n + 1 \notin DOMAIN stack
      /\ \/ DOMAIN stack' = DOMAIN stack
         \/ DOMAIN stack' = DOMAIN stack \union {n + 1} /\ stack'[n + 1] = Call(id, Top.reqs)
  BY <1>5, <1>6, FramesAfter
<1>8. /\ IsGraph(nodes') /\ DOMAIN nodes' = DOMAIN nodes
      /\ \A i \in DOMAIN nodes : \A j : Leads(nodes', i, j) <=>
           Leads(nodes, i, j) \/ (Leads(nodes, i, at) /\ Leads(nodes, id, j))
  BY <1>1, <1>2, <1>3, <1>5, CloseDiamondWays
<1>9. \A i \in DOMAIN nodes :
        /\ SameWishes(i) /\ nodes[i].ancestors \subseteq nodes'[i].ancestors
        /\ (i # at => nodes'[i].edges = nodes[i].edges)
        /\ (i = at => nodes'[i].edges = Linked1(nodes[i].edges, id, Next1))
  BY <1>1, <1>2, <1>3 DEF DiamondClosed
<1>10. /\ Targets(nodes'[at].edges) = Targets(nodes[at].edges) \union {id}
       /\ Range(nodes[at].edges) \subseteq Range(nodes'[at].edges)
  <2>1. IsList(nodes[at].edges)
    BY <1>5 DEF Shape, NodesShape, NodeShape
  <2>2. nodes'[at].edges = Linked1(nodes[at].edges, id, Next1)
    BY <1>5, <1>9
  <2> QED BY <2>1, <2>2, LinkedIs DEF Targets
<1>11. EdgesKept
  BY <1>8, <1>9, <1>10 DEF EdgesKept, SameWishes
<1>12. Fits(at, r)'
  <2>1. PICK e \in Range(nodes'[at].edges) : e.to = id
    BY <1>10 DEF Targets
  <2> QED BY <2>1, <1>4, <1>5, <1>9 DEF Fits, SameWishes
<1>13. \A k \in DOMAIN stack : /\ On(k)' = On(k) /\ Leaves(k)'
                               /\ IsAgain(k) => IsAgain(k)'
  BY <1>3, <1>4, <1>5, <1>6, <1>11, <1>12, FramesStay
<1>14. /\ \A i \in DOMAIN nodes : Leads(nodes, i, i)
       /\ \A i \in DOMAIN nodes : \A j, k : Leads(nodes, i, j) /\ Leads(nodes, j, k) => Leads(nodes, i, k)
       /\ \A i \in DOMAIN nodes : \A e \in Range(nodes[i].edges) :
            e.to \in DOMAIN nodes /\ Leads(nodes, i, e.to)
  BY NodesAreGraph, GraphWays DEF IsGraph
<1>15. ~Leads(nodes, id, at)
  <2>1. CASE IsFirst(n)
    <3>1. SUFFICES ASSUME Leads(nodes, id, at) PROVE IsLoop(Next1)
      BY <1>5
    <3>2. m = Here.name \/ m \in Here.ancestors
      BY <2>1, <3>1, <1>5 DEF IsFirst
    <3> QED BY <3>2, <1>4 DEF IsLoop, Ancestry
  <2>2. CASE IsAgain(n)
    <3>1. PICK e \in Range(nodes[at].edges) : e.to \in DOMAIN nodes /\ nodes[e.to].name = m
      BY <2>2, <1>3, <1>4, <1>5, AgainHasEdge
    <3>2. e.to = id
      BY <3>1, <1>5 DEF OnceEach
    <3> QED BY <3>1, <3>2, <1>5 DEF InOrder, Acyclic
  <2> QED BY <2>1, <2>2, <1>5 DEF InOrder
<1>16. PICK new : new = n + 1
  OBVIOUS
<1>17. new \in DOMAIN stack' => On(new)' = id /\ stack'[new].step = "config"
  BY <1>7, <1>16 DEF On, Call
<1> HIDE DEF n
<1>18. \A k \in DOMAIN stack : On(k) \in DOMAIN nodes /\ Leads(nodes, On(k), at)
  <2>1. \A k \in DOMAIN stack : k = n \/ (k \in 1 .. n /\ k # n)
    BY <1>7
  <2> QED BY <1>5, <1>14, <2>1, StackIs DEF InOrder, PathHolds
<1>19. \A k \in DOMAIN stack : On(k) # id /\ ~Leads(nodes, id, On(k))
  BY <1>5, <1>14, <1>15, <1>18
<1>20. DOMAIN stack \subseteq DOMAIN stack' /\ DOMAIN stack' \subseteq DOMAIN stack \union {new}
  BY <1>7, <1>16
<1>21. PathHolds'
  <2>1. ASSUME NEW k \in DOMAIN stack', NEW j \in 1 .. k, j # k
        PROVE  On(j)' # On(k)' /\ Leads(nodes', On(j)', On(k)')
    <3>1. CASE k = new
      <4>1. j \in DOMAIN stack /\ On(k)' = id
        BY <1>7, <1>16, <1>17, <2>1, <3>1
      <4> QED BY <4>1, <1>5, <1>8, <1>13, <1>14, <1>18, <1>19
    <3>2. CASE k # new
      <4>1. k \in DOMAIN stack /\ j \in DOMAIN stack
        BY <1>7, <1>16, <1>20, <2>1, <3>2
      <4>2. On(j) # On(k) /\ Leads(nodes, On(j), On(k))
        BY <4>1, <2>1 DEF InOrder, PathHolds
      <4> QED BY <4>1, <4>2, <1>8, <1>13, <1>18
    <3> QED BY <3>1, <3>2
  <2> QED BY <2>1 DEF PathHolds
<1>22. Acyclic'
  <2>1. ASSUME NEW i \in DOMAIN nodes, NEW e \in Range(nodes'[i].edges)
        PROVE  ~Leads(nodes', e.to, i)
    <3>1. e.to \in Targets(nodes[i].edges) \/ (i = at /\ e.to = id)
      BY <1>9, <1>10 DEF Targets
    <3>2. CASE e.to \in Targets(nodes[i].edges)
      <4>1. PICK f \in Range(nodes[i].edges) : f.to = e.to
        BY <3>2 DEF Targets
      <4>2. e.to \in DOMAIN nodes /\ ~Leads(nodes, e.to, i) /\ Leads(nodes, i, e.to)
        BY <4>1, <1>14 DEF InOrder, Acyclic
      <4>3. ~(Leads(nodes, e.to, at) /\ Leads(nodes, id, i))
        BY <4>2, <1>5, <1>14, <1>15
      <4> QED BY <4>2, <4>3, <1>8
    <3>3. CASE i = at /\ e.to = id
      BY <3>3, <1>5, <1>8, <1>15
    <3> QED BY <3>1, <3>2, <3>3
  <2> QED BY <2>1, <1>8 DEF Acyclic
<1>23. Finished'
  <2>1. ASSUME NEW i \in DOMAIN nodes', \A k \in DOMAIN stack' : On(k)' # i PROVE Fulfilled(i)'
    <3>1. i \in DOMAIN nodes /\ \A k \in DOMAIN stack : On(k) # i
      BY <2>1, <1>8, <1>13, <1>20
    <3>2. Fulfilled(i)
      BY <3>1 DEF InOrder, Finished
    <3> QED BY <3>1, <3>2, <1>11, CompleteStays
  <2> QED BY <2>1 DEF Finished
<1>24. ASSUME NEW k \in DOMAIN stack PROVE IsFirst(k)' \/ IsAgain(k)'
  <2>1. CASE IsAgain(k)
    BY <2>1, <1>13
  <2>2. CASE IsFirst(k)
    <3>1. ASSUME NEW i \in DOMAIN nodes', Leads(nodes', i, On(k))
          PROVE  \E j \in 1 .. k : /\ On(j)' = i
                                   /\ j # k => nodes'[i].name \in nodes'[On(k)].ancestors
      <4>1. i \in DOMAIN nodes /\ Leads(nodes, i, On(k))
        BY <3>1, <1>8, <1>19
      <4>2. PICK j \in 1 .. k : On(j) = i /\ (j # k => nodes[i].name \in nodes[On(k)].ancestors)
        BY <2>2, <4>1 DEF IsFirst
      <4>3. j \in DOMAIN stack
        BY <1>7
      <4> QED BY <4>1, <4>2, <4>3, <1>9, <1>13, <1>18 DEF SameWishes
    <3>2. IsFirst(k)'
      BY <3>1, <1>13 DEF IsFirst
    <3> QED BY <3>2
  <2> QED BY <2>1, <2>2 DEF InOrder
<1>25. ASSUME new \in DOMAIN stack' PROVE IsAgain(new)' /\ Leaves(new)'
  <2>1. Complete(id)
    BY <1>5, <1>11, <1>19, CompleteStays DEF InOrder, Finished
  <2>2. nodes[id].evaluated
    BY <1>5 DEF Evaluations, Evaluated, Awaited, Expanding
  <2>3. Complete(id)' /\ nodes'[id].evaluated
    BY <2>1, <2>2, <1>5, <1>11, CompleteStays DEF EdgesKept, SameWishes
  <2> QED BY <2>3, <1>17, <1>25 DEF IsAgain, Leaves
<1> QED BY <1>2, <1>3, <1>13, <1>15, <1>20, <1>21, <1>22, <1>23, <1>24, <1>25 DEF InOrder, AgainStays

LEMMA ReturnInOrder ==
    ASSUME Shape, InOrder, Return
    PROVE  InOrder' /\ AgainStays
<1> DEFINE n == Len(stack)
<1>1. /\ nodes' = nodes /\ stack' = Front(stack) /\ Expanding /\ Top.left = <<>>
      /\ IsList(stack) /\ stack # <<>> /\ Top.step = "expand" /\ Top = stack[n]
      /\ n \in Nat /\ DOMAIN stack = 1 .. n /\ n \in 1 .. n
  BY StackIs DEF Return, Expanding, Top
<1>2. /\ DOMAIN stack' = 1 .. (n - 1)
      /\ \A k \in 1 .. (n - 1) : stack'[k] = stack[k]
  BY <1>1, ListFront
<1>3. PICK at : at = On(n)
  OBVIOUS
<1> HIDE DEF n
<1>4. /\ DOMAIN stack' \subseteq DOMAIN stack /\ DOMAIN stack \subseteq DOMAIN stack' \union {n}
      /\ \A k \in DOMAIN stack' : \A j \in 1 .. k : j \in DOMAIN stack'
  BY <1>1, <1>2
<1>5. \A k \in DOMAIN stack' : On(k)' = On(k) /\ stack'[k] = stack[k]
  BY <1>2 DEF On
<1>6. Fulfilled(at)
  <2>1. \A r \in Range(nodes[at].requires) :
          r.override \/ r \in Range(Top.left) \/ Fits(at, r)
    BY <1>1, <1>3 DEF InOrder, Leaves
  <2> QED BY <2>1, <1>1 DEF Fulfilled, Range
<1>7. \A i \in DOMAIN nodes : Fulfilled(i)' <=> Fulfilled(i)
  BY <1>1 DEF Fulfilled, Fits
<1>8. PathHolds' /\ Acyclic'
  BY <1>1, <1>4, <1>5 DEF InOrder, PathHolds, Acyclic
<1>9. Finished'
  <2>1. ASSUME NEW i \in DOMAIN nodes, \A k \in DOMAIN stack' : On(k)' # i PROVE Fulfilled(i)
    BY <2>1, <1>3, <1>4, <1>5, <1>6 DEF InOrder, Finished
  <2> QED BY <2>1, <1>1, <1>7 DEF Finished
<1>10. ASSUME NEW k \in DOMAIN stack' PROVE Leaves(k)' /\ (IsFirst(k)' \/ IsAgain(k)')
  <2>1. k \in DOMAIN stack /\ Leaves(k) /\ (IsFirst(k) \/ IsAgain(k))
    BY <1>4 DEF InOrder
  <2>2. Leaves(k)'
    BY <2>1, <1>1, <1>5 DEF Leaves, Fits
  <2>3. IsFirst(k) => IsFirst(k)'
    BY <1>1, <1>4, <1>5 DEF IsFirst
  <2>4. IsAgain(k) => IsAgain(k)'
    BY <1>1, <1>5 DEF IsAgain, Complete, HasEdge
  <2> QED BY <2>1, <2>2, <2>3, <2>4
<1>11. ASSUME NEW k \in DOMAIN stack', IsAgain(k) PROVE IsAgain(k)'
  BY <1>11, <1>1, <1>5 DEF IsAgain, Complete, HasEdge
<1> QED BY <1>8, <1>9, <1>10, <1>11 DEF InOrder, AgainStays

LEMMA NextInOrder ==
    ASSUME Shape, Evaluations, Ordered, [Next]_vars
    PROVE  Unevaluated' /\ OnceEach' => InOrder'
<1> SUFFICES ASSUME Unevaluated', OnceEach' PROVE InOrder'
  OBVIOUS
<1>1. CASE nodes' = nodes /\ stack' = stack /\ Unevaluated
  <2>1. InOrder
    BY <1>1 DEF Ordered, OnceEach
  <2>2. PathHolds' /\ Acyclic' /\ Finished'
    BY <1>1, <2>1 DEF InOrder, PathHolds, Acyclic, Finished, Fulfilled, Fits, On
  <2>3. \A k \in DOMAIN stack : Leaves(k)' <=> Leaves(k)
    BY <1>1 DEF Leaves, Fits, On
  <2>4. \A k \in DOMAIN stack : IsFirst(k)' <=> IsFirst(k)
    BY <1>1 DEF IsFirst, On
  <2>5. \A k \in DOMAIN stack : IsAgain(k)' <=> IsAgain(k)
    BY <1>1 DEF IsAgain, Complete, HasEdge, On
  <2> QED BY <1>1, <2>1, <2>2, <2>3, <2>4, <2>5 DEF InOrder
<1>2. CASE Loading
  <2>1. Unevaluated
    BY <1>2 DEF Loading, Unevaluated
  <2>2. CASE Stops
    BY <1>1, <2>1, <2>2, StopsIs DEF Still
  <2>3. OnceEach
    <3>1. CASE Configure
      BY <3>1, ConfigureDoes DEF Configured, SameLinks, OnceEach
    <3>2. CASE AddNode
      BY <3>2, AddNodeDoes DEF Added, SameWishes, OnceEach
    <3>3. CASE CloseDiamond
      BY <3>3, CloseDiamondDoes DEF DiamondClosed, SameWishes, OnceEach
    <3>4. CASE nodes' = nodes
      BY <3>4 DEF OnceEach
    <3> QED BY <1>2, <3>1, <3>2, <3>3, <3>4, StopsIs DEF Loading, Load, Stops, Return, Still
  <2>4. InOrder
    BY <2>1, <2>3 DEF Ordered
  <2> QED BY <1>2, <2>2, <2>3, <2>4, ConfigureInOrder, AddNodeInOrder, CloseDiamondInOrder,
             ReturnInOrder DEF Loading, Load, Stops
<1>3. CASE EvaluateNode
  BY <1>3, EvaluateNodeDoes DEF EvaluatedNode, Unevaluated
<1>4. CASE ExtendBuildRequires
  BY <1>4 DEF ExtendBuildRequires, Ordered, Unevaluated
<1>5. CASE Evaluate \/ PassBy \/ LeaveGraph \/ UNCHANGED vars
  BY <1>1, <1>5 DEF Evaluate, PassBy, LeaveGraph, vars, loadVars, Unevaluated
<1> QED BY <1>2, <1>3, <1>4, <1>5 DEF Next, Ended

LEMMA NextOrdered ==
    ASSUME Shape, Evaluations, Ordered, [Next]_vars
    PROVE  Ordered'
<1>1. ASSUME Unevaluated', outcome' = "evaluating" PROVE (Graph.todo # {})'
  <2>1. CASE Loading
    BY <1>1, <2>1, StopsIs DEF Loading, Load, Configure, AddNode, CloseDiamond, Diamond, Return, Calling,
       Expanding, Stops
  <2>2. CASE Evaluate
    <3> DEFINE new == DOMAIN nodes \ DOMAIN found
               x == [nodes |-> new, levels |-> Levels(new), todo |-> new, left |-> new]
    <3>1. graphs' = Append(graphs, x) /\ IsList(graphs) /\ Unevaluated
      BY <1>1, <2>2 DEF Evaluate, Shape, GraphsShape, Unevaluated
    <3>2. x.todo # {}
      BY <3>1 DEF Unevaluated, Empty, Shape, NodesShape
    <3> HIDE DEF x
    <3>3. graphs'[Len(graphs')] = x
      BY <3>1, ListAppended
    <3> QED BY <3>2, <3>3 DEF Graph
  <2>3. CASE EvaluateNode
    BY <1>1, <2>3, EvaluateNodeDoes DEF EvaluatedNode, Unevaluated
  <2>4. CASE PassBy \/ LeaveGraph
    BY <1>1, <2>4 DEF PassBy, LeaveGraph, Ordered, Unevaluated
  <2>5. CASE ExtendBuildRequires
    BY <1>1, <2>5 DEF ExtendBuildRequires
  <2>6. CASE UNCHANGED vars
    BY <1>1, <2>6 DEF vars, loadVars, Ordered, Unevaluated, Graph
  <2> QED BY <2>1, <2>2, <2>3, <2>4, <2>5, <2>6 DEF Next, Ended
<1> QED BY <1>1, NextInOrder DEF Ordered

\* Before the graph of any build requirements, a requirement that would close a loop is
\* refused as one (graph_builder.py:134), so long as there is one node of each name:
\* with NeverAFalseLoop, a loop is found exactly when there is one.
THEOREM LoopsAreFound == Spec => [](Unevaluated /\ OnceEach => LoopsAreExact)
<1>1. Init => Shape /\ Evaluations /\ Ordered
  BY InitShape, InitEvaluations, InitOrdered
<1>2. Shape /\ Evaluations /\ Ordered /\ [Next]_vars => Shape' /\ Evaluations' /\ Ordered'
  BY NextShape, NextEvaluations, NextOrdered
<1>3. Shape /\ Ordered => (Unevaluated /\ OnceEach => NoMissedLoop)
  <2> SUFFICES ASSUME Shape, InOrder, OnceEach, Expanding, Top.left # <<>>,
                      ~IsLoop(Next1), IsOnTheWay(Next1.name)
               PROVE  FALSE
    BY DEF Ordered, NoMissedLoop
  <2>1. PICK i \in DOMAIN nodes : nodes[i].name = Next1.name /\ Leads(nodes, i, Top.node)
    BY NodesAreGraph DEF IsOnTheWay, Leads
  <2>2. /\ Len(stack) \in DOMAIN stack /\ On(Len(stack)) = Top.node
        /\ Top.node \in DOMAIN nodes /\ Here = nodes[Top.node]
    BY ExpansionIs, StackIs DEF On, Top, Here
  <2>3. CASE IsFirst(Len(stack))
    <3>1. Next1.name = Here.name \/ Next1.name \in Here.ancestors
      BY <2>1, <2>2, <2>3 DEF IsFirst
    <3> QED BY <3>1 DEF IsLoop, Ancestry
  <2>4. CASE IsAgain(Len(stack))
    <3>1. PICK e \in Range(nodes[Top.node].edges) :
            e.to \in DOMAIN nodes /\ nodes[e.to].name = Next1.name
      BY <2>4, AgainHasEdge
    <3>2. e.to = i
      BY <2>1, <3>1 DEF OnceEach
    <3> QED BY <2>1, <2>2, <3>1, <3>2 DEF InOrder, Acyclic
  <2> QED BY <2>2, <2>3, <2>4 DEF InOrder
<1>4. NoFalseLoop /\ (Unevaluated /\ OnceEach => NoMissedLoop) => (Unevaluated /\ OnceEach => LoopsAreExact)
  BY DEF LoopsAreExact
<1> QED BY <1>1, <1>2, <1>3, <1>4, NeverAFalseLoop, PTL DEF Spec
----------------------------------------------------------------------------
(* The first graph, when no recipe has anything private. *)

NothingPrivate ==
    \A i \in DOMAIN nodes :
        \A r \in Range(nodes[i].recipe.requires) \union Range(nodes[i].recipe.optional) : ~r.private
Public(r) == ~r.private /\ ~r.build
Plain(i) ==
    /\ ~nodes[i].private /\ ~nodes[i].build
    /\ \A e \in Range(nodes[i].edges) : Public(e)
    /\ \A r \in Range(nodes[i].requires) : Public(r)
\* What is noted at a node is all there is.
ClosureIsAll(i) ==
    \A j \in DOMAIN nodes : Leads(nodes, i, j) => nodes[j].name \in DOMAIN nodes[i].closure
InverseIsAll(i) ==
    \A j \in DOMAIN nodes : j # i /\ Leads(nodes, j, i) => j \in nodes[i].inverse
EdgesKnown(i) ==
    \A e \in Range(nodes[i].edges) : nodes[e.to].name \in DOMAIN nodes[i].deps
Known(i) == Plain(i) /\ ClosureIsAll(i) /\ InverseIsAll(i) /\ EdgesKnown(i)
\* Whoever is called for the first time has all names in scope.
Full(k) == \A j \in DOMAIN nodes : nodes[j].name \in DOMAIN nodes[On(k)].deps
FrameFull(k) == IsAgain(k) \/ Full(k)
Neat ==
    /\ OnceEach /\ \A i \in DOMAIN nodes : Known(i)
    /\ \A k \in DOMAIN stack : FrameFull(k)
AllPublic == Unevaluated /\ NothingPrivate
Neatness == AllPublic => Neat

\* What a step on the first graph is.
LEMMA FirstGraph ==
    ASSUME Shape, Ordered, [Next]_vars, Unevaluated'
    PROVE  /\ Unevaluated
           /\ \/ Configure \/ AddNode \/ CloseDiamond \/ Return
              \/ nodes' = nodes /\ stack' = stack
<1>1. CASE Loading
  <2>1. CASE Stops
    BY <1>1, <2>1, StopsIs DEF Still, Loading, Unevaluated
  <2> QED BY <1>1, <2>1 DEF Loading, Load, Stops, Unevaluated
<1>2. CASE EvaluateNode
  BY <1>2, EvaluateNodeDoes DEF EvaluatedNode, Unevaluated
<1>3. CASE ExtendBuildRequires
  BY <1>3 DEF ExtendBuildRequires, Ordered, Unevaluated
<1>4. CASE Evaluate \/ PassBy \/ LeaveGraph \/ UNCHANGED vars
  BY <1>4 DEF Evaluate, PassBy, LeaveGraph, vars, loadVars, Unevaluated
<1> QED BY <1>1, <1>2, <1>3, <1>4 DEF Next, Ended

\* Nodes keep their recipes.
LEMMA PublicBefore ==
    ASSUME Shape, Ordered, [Next]_vars, AllPublic'
    PROVE  AllPublic
<1>1. Unevaluated' /\ Unevaluated
  BY FirstGraph DEF AllPublic
<1>2. \A i \in DOMAIN nodes : i \in DOMAIN nodes' /\ nodes'[i].recipe = nodes[i].recipe
  <2>1. CASE Configure
    BY <2>1, ConfigureDoes DEF Configured, SameLinks
  <2>2. CASE AddNode
    BY <2>2, AddNodeDoes DEF Added, SameWishes
  <2>3. CASE CloseDiamond
    BY <2>3, CloseDiamondDoes DEF DiamondClosed, SameWishes
  <2>4. CASE nodes' = nodes
    BY <2>4
  <2> QED BY <1>1, <2>1, <2>2, <2>3, <2>4, FirstGraph DEF Return
<1> QED BY <1>1, <1>2 DEF AllPublic, NothingPrivate

\* Requirements of recipes are not for building with.
LEMMA PublicRecipe ==
    ASSUME Shape, NothingPrivate, NEW i \in DOMAIN nodes, NEW option
    PROVE  /\ \A r \in Range(nodes[i].recipe.requires) : Public(r)
           /\ \A r \in Range(Requires(nodes[i].recipe, option)) : Public(r)
<1> DEFINE recipe == nodes[i].recipe
<1>1. SoundRecipe(nodes[i].name, recipe)
  BY RecipeIs DEF Shape, NodesShape, NodeShape
<1> HIDE DEF recipe
<1>2. recipe.requires \in Seq(Requirements) /\ recipe.optional \in Seq(Requirements)
  BY <1>1 DEF SoundRecipe
<1>3. \A s \in Seq(Requirements) : \A r \in Range(s) : ~r.build
  <2> SUFFICES ASSUME NEW s \in Seq(Requirements), NEW k \in DOMAIN s PROVE ~s[k].build
    BY DEF Range
  <2>1. s[k] \in Requirements
    OBVIOUS
  <2> QED BY <2>1 DEF Requirements
<1>4. \A r \in Range(recipe.requires) \union Range(recipe.optional) : Public(r)
  BY <1>2, <1>3 DEF NothingPrivate, Public, recipe
<1>5. Range(Requires(recipe, option)) \subseteq Range(recipe.requires) \union Range(recipe.optional)
  <2>1. CASE option = 2
    <3>1. Requires(recipe, option) = recipe.requires \o recipe.optional
      BY <2>1 DEF Requires
    <3>2. \A a, b \in Seq(Requirements) : Range(a \o b) \subseteq Range(a) \union Range(b)
      BY DEF Range
    <3> QED BY <1>2, <3>1, <3>2
  <2>2. CASE option # 2
    <3>1. Requires(recipe, option) = recipe.requires \o <<>>
      BY <2>2 DEF Requires
    <3>2. \A a \in Seq(Requirements) : a \o <<>> = a
      OBVIOUS
    <3> QED BY <1>2, <3>1, <3>2
  <2> QED BY <2>1, <2>2
<1> QED BY <1>4, <1>5 DEF recipe

LEMMA InitNeat ==
    ASSUME Init, NothingPrivate
    PROVE  Neat
<1>1. Shape /\ stack = <<Call(1, Empty)>>
  BY InitShape DEF Init, LoadInit
<1>2. PICK r : nodes = <<[Node(Root, 0, r, {}) EXCEPT !.deps = With(Empty, Root, 1),
                                                    !.closure = With(Empty, Root, 1)]>>
  BY DEF Init, LoadInit
<1> DEFINE x == With(Empty, Root, 1)
<1> HIDE DEF x
<1>3. Root \in DOMAIN x
  BY DEF With, Empty, x
<1>4. nodes = <<[Node(Root, 0, r, {}) EXCEPT !.deps = x, !.closure = x]>>
  BY <1>2 DEF x
<1>5. DOMAIN nodes = {1} /\ nodes[1] = [Node(Root, 0, r, {}) EXCEPT !.deps = x, !.closure = x]
  BY <1>4
<1>6. /\ nodes[1].edges = <<>> /\ nodes[1].deps = x /\ nodes[1].closure = x /\ nodes[1].name = Root
      /\ ~nodes[1].private /\ ~nodes[1].build /\ nodes[1].requires = nodes[1].recipe.requires
  BY <1>5 DEF Node
<1>7. \A e \in Range(nodes[1].edges) : FALSE
  BY <1>6 DEF Range
<1>8. Plain(1)
  BY <1>1, <1>5, <1>6, <1>7, PublicRecipe DEF Plain
<1>9. ClosureIsAll(1) /\ InverseIsAll(1) /\ EdgesKnown(1)
  BY <1>3, <1>5, <1>6, <1>7 DEF ClosureIsAll, InverseIsAll, EdgesKnown
<1>10. DOMAIN stack = {1} /\ On(1) = 1
  BY <1>1 DEF On, Call
<1>11. Full(1)
  BY <1>3, <1>5, <1>6, <1>10 DEF Full
<1> QED BY <1>5, <1>8, <1>9, <1>10, <1>11 DEF Neat, Known, FrameFull, OnceEach

\* What the node on top requires next, when nothing is private.
LEMMA PublicNext ==
    ASSUME Shape, InOrder, Neat, Expanding, Top.left # <<>>
    PROVE  /\ Next1 \in Range(nodes[Top.node].requires) /\ ~Next1.override
           /\ Public(Next1) /\ ~Aside(Next1)
           /\ nodes[Top.node].evaluated \/ ~IsAgain(Len(stack))
<1>1. Len(stack) \in DOMAIN stack /\ On(Len(stack)) = Top.node /\ Top = stack[Len(stack)]
  BY FramesAfter, StackIs DEF On, Top, Expanding
<1>2. Next1 \in Range(Top.left) /\ Top.node \in DOMAIN nodes
  BY ExpansionIs
<1>3. Next1 \in Range(nodes[Top.node].requires) /\ ~Next1.override
  BY <1>1, <1>2 DEF InOrder, Leaves, Expanding, Next1
<1>4. Public(Next1)
  BY <1>2, <1>3 DEF Neat, Known, Plain
<1> QED BY <1>1, <1>3, <1>4 DEF Public, Aside, IsAgain

\* A new node has a new name.
LEMMA AddNodeOnce ==
    ASSUME Shape, InOrder, Neat, AddNode
    PROVE  OnceEach' /\ Full(Len(stack)) /\ ~IsAgain(Len(stack))
           /\ \A i \in DOMAIN nodes : nodes[i].name # Next1.name
<1>1. PICK recipe : Added(recipe)
  BY AddNodeDoes
<1>2. /\ Expanding /\ Top.left # <<>> /\ Top.node \in DOMAIN nodes /\ Here = nodes[Top.node]
      /\ On(Len(stack)) = Top.node /\ Len(stack) \in DOMAIN stack
  BY ExpansionIs, FramesAfter, StackIs DEF AddNode, Here, On, Top, Expanding
<1>3. Next1.name \notin DOMAIN Here.deps
  BY <1>2, PublicNext DEF AddNode, IsNew
<1>4. ~IsAgain(Len(stack))
  <2>1. SUFFICES ASSUME IsAgain(Len(stack)) PROVE FALSE
    OBVIOUS
  <2>2. PICK e \in Range(nodes[Top.node].edges) : e.to \in DOMAIN nodes /\ nodes[e.to].name = Next1.name
    BY <1>2, <2>1, AgainHasEdge
  <2>3. nodes[e.to].name \in DOMAIN nodes[Top.node].deps
    BY <1>2, <2>2 DEF Neat, Known, EdgesKnown
  <2> QED BY <1>2, <1>3, <2>2, <2>3
<1>5. Full(Len(stack))
  BY <1>2, <1>4 DEF Neat, FrameFull
<1>6. \A i \in DOMAIN nodes : nodes[i].name # Next1.name
  BY <1>2, <1>3, <1>5 DEF Full
<1>7. PICK id : id = NewId
  OBVIOUS
<1>8. /\ DOMAIN nodes' = DOMAIN nodes \union {id}
      /\ \A i \in DOMAIN nodes : nodes'[i].name = nodes[i].name
      /\ nodes'[id].name = Next1.name
  BY <1>1, <1>7 DEF Added, SameWishes
<1>9. OnceEach'
  <2>1. ASSUME NEW i \in DOMAIN nodes', NEW j \in DOMAIN nodes', nodes'[i].name = nodes'[j].name
        PROVE  i = j
    BY <2>1, <1>6, <1>8 DEF Neat, OnceEach
  <2> QED BY <2>1 DEF OnceEach
<1> QED BY <1>4, <1>5, <1>6, <1>9

LEMMA AddNodeNeat ==
    ASSUME Shape, InOrder, Neat, AddNode, NothingPrivate'
    PROVE  Neat'
<1> DEFINE n == Len(stack)
<1>1. PICK recipe : Added(recipe)
  BY AddNodeDoes
<1>2. PICK id : id = NewId
  OBVIOUS
<1>3. PICK at : at = Top.node
  OBVIOUS
<1>4. PICK m : m = Next1.name
  OBVIOUS
<1>5. /\ Expanding /\ Top.left # <<>> /\ at \in DOMAIN nodes /\ Here = nodes[at]
      /\ at = On(n) /\ n \in DOMAIN stack
  BY <1>3, ExpansionIs, FramesAfter, StackIs DEF AddNode, Here, On, Top, Expanding
<1>6. Public(Next1) /\ ~Aside(Next1)
  BY <1>5, PublicNext
<1>7. PICK users : users = {at} \union Here.inverse /\ users = Users(Next1)
  BY <1>3, <1>6 DEF Users
<1>8. Users(Next1) \subseteq DOMAIN nodes
  BY <1>5, <1>7 DEF Shape, NodesShape, NodeShape
<1>9. /\ IsGraph(nodes') /\ DOMAIN nodes' = DOMAIN nodes \union {id} /\ id \notin DOMAIN nodes
      /\ \A i \in DOMAIN nodes : \A j : Leads(nodes', i, j) <=>
           Leads(nodes, i, j) \/ (Leads(nodes, i, at) /\ j = id)
      /\ \A j : Leads(nodes', id, j) <=> j = id
  BY <1>1, <1>2, <1>3, <1>5, AddNodeWays
<1>10. \A i \in DOMAIN nodes :
         /\ SameWishes(i) /\ nodes'[i].inverse = nodes[i].inverse
         /\ nodes'[i].private = nodes[i].private /\ nodes'[i].build = nodes[i].build
         /\ i \notin users => nodes'[i] = nodes[i]
         /\ i \in users => /\ nodes'[i].closure = With(nodes[i].closure, m, id)
                           /\ nodes'[i].deps = With(nodes[i].deps, m, id)
         /\ i # at => nodes'[i].edges = nodes[i].edges
         /\ i = at => nodes'[i].edges = Append(nodes[i].edges, EdgeTo(id, Next1))
  BY <1>1, <1>2, <1>3, <1>4, <1>7 DEF Added
<1>11. /\ nodes'[id].name = m /\ nodes'[id].requires = recipe.requires /\ nodes'[id].recipe = recipe
       /\ nodes'[id].closure = With(Empty, m, id) /\ nodes'[id].deps = With(nodes[at].deps, m, id)
       /\ nodes'[id].inverse = users /\ nodes'[id].edges = <<>>
       /\ ~nodes'[id].private /\ ~nodes'[id].build
  <2>1. ~Here.private /\ ~Here.build
    BY <1>5 DEF Neat, Known, Plain
  <2>2. NewScope(Next1) = nodes[at].deps
    BY <1>5, <1>6 DEF NewScope
  <2> QED BY <1>1, <1>2, <1>4, <1>6, <1>7, <2>1, <2>2 DEF Added, Public
<1>12. /\ DOMAIN With(Empty, m, id) = {m}
       /\ \A f : DOMAIN With(f, m, id) = DOMAIN f \union {m}
  BY DEF With, Empty
<1>13. \A i \in DOMAIN nodes : Leads(nodes, i, at) => i \in users
  BY <1>5, <1>7 DEF Neat, Known, InverseIsAll
<1>14. \A e \in Range(nodes'[at].edges) : e \in Range(nodes[at].edges) \/ e = EdgeTo(id, Next1)
  <2> DEFINE x == EdgeTo(id, Next1)
  <2>1. IsList(nodes[at].edges)
    BY <1>5 DEF Shape, NodesShape, NodeShape
  <2> HIDE DEF x
  <2>2. nodes'[at].edges = Append(nodes[at].edges, x)
    BY <1>5, <1>10 DEF x
  <2> QED BY <2>1, <2>2, ListAppended DEF x
<1>15. EdgeTo(id, Next1).to = id /\ Public(EdgeTo(id, Next1))
  BY <1>6 DEF EdgeTo, Public
<1> HIDE DEF n
<1>16. ASSUME NEW i \in DOMAIN nodes PROVE Plain(i)'
  <2>1. \A e \in Range(nodes'[i].edges) : Public(e)
    BY <1>10, <1>14, <1>15 DEF Neat, Known, Plain
  <2>2. /\ nodes'[i].private = nodes[i].private /\ nodes'[i].build = nodes[i].build
        /\ nodes'[i].requires = nodes[i].requires
    BY <1>10 DEF SameWishes
  <2> QED BY <2>1, <2>2 DEF Neat, Known, Plain, Public
<1>17. Plain(id)'
  <2>1. \A r \in Range(recipe.requires) : Public(r)
    <3>1. SoundRecipe(m, recipe)
      <4>1. recipe \in Worlds[world].recipes[m] /\ m \in Name /\ world \in DOMAIN Worlds
        BY <1>1, <1>4, <1>5, ExpansionIs DEF Added, IsRequirement, Shape
      <4> QED BY <4>1, RecipeIs
    <3>2. \A r \in Range(recipe.requires) : ~r.build
      <4> SUFFICES ASSUME NEW k \in DOMAIN recipe.requires PROVE ~recipe.requires[k].build
        BY DEF Range
      <4>1. recipe.requires \in Seq(Requirements)
        BY <3>1 DEF SoundRecipe
      <4>2. recipe.requires[k] \in Requirements
        BY <4>1
      <4> QED BY <4>2 DEF Requirements
    <3>3. \A r \in Range(recipe.requires) : ~r.private
      BY <1>9, <1>11 DEF NothingPrivate
    <3> QED BY <3>2, <3>3 DEF Public
  <2>2. \A e \in Range(nodes'[id].edges) : FALSE
    BY <1>11 DEF Range
  <2> QED BY <2>1, <2>2, <1>11 DEF Plain, Public
<1>18. ASSUME NEW i \in DOMAIN nodes PROVE ClosureIsAll(i)'
  <2>1. ASSUME NEW j \in DOMAIN nodes', Leads(nodes', i, j)
        PROVE  nodes'[j].name \in DOMAIN nodes'[i].closure
    <3>1. CASE i \in users
      <4>1. DOMAIN nodes'[i].closure = DOMAIN nodes[i].closure \union {m}
        BY <3>1, <1>10, <1>12
      <4>2. CASE j = id
        BY <4>1, <4>2, <1>11
      <4>3. CASE j # id
        <5>1. j \in DOMAIN nodes /\ Leads(nodes, i, j) /\ nodes'[j].name = nodes[j].name
          BY <2>1, <4>3, <1>9, <1>10 DEF SameWishes
        <5> QED BY <4>1, <5>1 DEF Neat, Known, ClosureIsAll
      <4> QED BY <4>2, <4>3
    <3>2. CASE i \notin users
      <4>1. nodes'[i].closure = nodes[i].closure /\ ~Leads(nodes, i, at)
        BY <3>2, <1>10, <1>13
      <4>2. j \in DOMAIN nodes /\ Leads(nodes, i, j) /\ nodes'[j].name = nodes[j].name
        BY <2>1, <4>1, <1>9, <1>10, NodesAreGraph, GraphWays DEF SameWishes
      <4> QED BY <4>1, <4>2 DEF Neat, Known, ClosureIsAll
    <3> QED BY <3>1, <3>2
  <2> QED BY <2>1 DEF ClosureIsAll
<1>19. ClosureIsAll(id)'
  BY <1>9, <1>11, <1>12 DEF ClosureIsAll
<1>20. ASSUME NEW i \in DOMAIN nodes PROVE InverseIsAll(i)'
  <2>1. ASSUME NEW j \in DOMAIN nodes', j # i, Leads(nodes', j, i) PROVE j \in nodes'[i].inverse
    <3>1. j \in DOMAIN nodes /\ Leads(nodes, j, i)
      BY <2>1, <1>9
    <3> QED BY <2>1, <3>1, <1>10 DEF Neat, Known, InverseIsAll
  <2> QED BY <2>1 DEF InverseIsAll
<1>21. InverseIsAll(id)'
  <2>1. ASSUME NEW j \in DOMAIN nodes', j # id, Leads(nodes', j, id) PROVE j \in nodes'[id].inverse
    <3>1. j \in DOMAIN nodes /\ Leads(nodes, j, at)
      BY <2>1, <1>9, NodesAreGraph, GraphWays
    <3> QED BY <3>1, <1>11, <1>13
  <2> QED BY <2>1 DEF InverseIsAll
<1>22. \A i \in DOMAIN nodes : /\ DOMAIN nodes[i].deps \subseteq DOMAIN nodes'[i].deps
                               /\ i \in users => m \in DOMAIN nodes'[i].deps
  BY <1>10, <1>12
<1>23. ASSUME NEW i \in DOMAIN nodes PROVE EdgesKnown(i)'
  <2>1. ASSUME NEW e \in Range(nodes'[i].edges) PROVE nodes'[e.to].name \in DOMAIN nodes'[i].deps
    <3>1. CASE e \in Range(nodes[i].edges)
      <4>1. e.to \in DOMAIN nodes
        BY <3>1 DEF Shape, NodesShape, NodeShape
      <4> QED BY <3>1, <4>1, <1>10, <1>22 DEF Neat, Known, EdgesKnown, SameWishes
    <3>2. CASE e \notin Range(nodes[i].edges)
      <4>1. i = at /\ e = EdgeTo(id, Next1)
        BY <2>1, <3>2, <1>10, <1>14
      <4> QED BY <4>1, <1>7, <1>11, <1>15, <1>22
    <3> QED BY <3>1, <3>2
  <2> QED BY <2>1 DEF EdgesKnown
<1>24. EdgesKnown(id)'
  BY <1>11 DEF EdgesKnown, Range
<1>25. \A i \in DOMAIN nodes' : Known(i)'
  BY <1>9, <1>16, <1>17, <1>18, <1>19, <1>20, <1>21, <1>23, <1>24 DEF Known
<1>26. Full(n) /\ OnceEach'
  BY AddNodeOnce DEF n
<1>27. PICK new : new = n + 1
  OBVIOUS
<1>28. /\ n \in Nat /\ DOMAIN stack = 1 .. n /\ DOMAIN stack' = DOMAIN stack \union {new}
       /\ stack'[new] = Call(id, Top.reqs)
       /\ \A k \in DOMAIN stack : stack'[k].node = stack[k].node
  <2>1. stack' = Append(Popped, Call(id, Top.reqs))
    BY <1>1, <1>2 DEF Added
  <2> QED BY <2>1, <1>5, <1>27, FramesAfter DEF n
<1>29. /\ \A k \in DOMAIN stack : On(k)' = On(k) /\ On(k) \in DOMAIN nodes
       /\ On(new)' = id
  BY <1>28, StackIs DEF On, Call
<1>30. ASSUME NEW k \in DOMAIN stack PROVE FrameFull(k)'
  <2>1. CASE IsAgain(k)
    BY <2>1, <1>26, <1>28, AddNodeInOrder DEF AgainStays, FrameFull
  <2>2. CASE Full(k)
    <3>1. On(k) \in users
      <4>1. Leads(nodes, On(k), at)
        <5>1. CASE k = n
          BY <5>1, <1>5, NodesAreGraph, GraphWays
        <5>2. CASE k # n
          BY <5>2, <1>5, <1>28 DEF InOrder, PathHolds
        <5> QED BY <5>1, <5>2
      <4> QED BY <4>1, <1>13, <1>29
    <3>2. \A j \in DOMAIN nodes' : nodes'[j].name \in DOMAIN nodes'[On(k)].deps
      BY <2>2, <3>1, <1>9, <1>10, <1>11, <1>22, <1>29 DEF Full, SameWishes
    <3> QED BY <3>2, <1>29 DEF Full, FrameFull
  <2> QED BY <2>1, <2>2 DEF Neat, FrameFull
<1>31. FrameFull(new)'
  <2>1. \A j \in DOMAIN nodes' : nodes'[j].name \in DOMAIN nodes'[id].deps
    <3>1. DOMAIN nodes'[id].deps = DOMAIN nodes[at].deps \union {m}
      BY <1>11, <1>12
    <3>2. \A j \in DOMAIN nodes : nodes[j].name \in DOMAIN nodes[at].deps
      BY <1>5, <1>26 DEF Full, n
    <3> QED BY <3>1, <3>2, <1>9, <1>10, <1>11 DEF SameWishes
  <2> QED BY <2>1, <1>29 DEF Full, FrameFull
<1> QED BY <1>25, <1>26, <1>28, <1>30, <1>31 DEF Neat

LEMMA CloseDiamondNeat ==
    ASSUME Shape, Evaluations, InOrder, Neat, CloseDiamond
    PROVE  Neat'
<1> DEFINE n == Len(stack)
<1>1. DiamondClosed
  BY CloseDiamondDoes
<1>2. PICK id : id = Previous
  OBVIOUS
<1>3. PICK at : at = Top.node
  OBVIOUS
<1>4. PICK m : m = Next1.name
  OBVIOUS
<1>5. /\ Expanding /\ Top.left # <<>> /\ at \in DOMAIN nodes /\ Here = nodes[at]
      /\ id \in DOMAIN nodes /\ nodes[id].name = m
  BY <1>2, <1>3, <1>4, PreviousIs DEF Here
<1>6. Public(Next1)
  BY <1>5, PublicNext
<1>7. PICK users : users = {at} \union Here.inverse
  OBVIOUS
<1>8. /\ IsGraph(nodes') /\ DOMAIN nodes' = DOMAIN nodes
      /\ \A i \in DOMAIN nodes : \A j : Leads(nodes', i, j) <=>
           Leads(nodes, i, j) \/ (Leads(nodes, i, at) /\ Leads(nodes, id, j))
  BY <1>1, <1>2, <1>3, <1>5, CloseDiamondWays
<1>9. \A i \in DOMAIN nodes : Plain(i) /\ ClosureIsAll(i) /\ InverseIsAll(i) /\ EdgesKnown(i)
  BY DEF Neat, Known
<1>10. \A i \in DOMAIN nodes : Leads(nodes, i, at) => i \in users
  BY <1>5, <1>7, <1>9 DEF InverseIsAll
<1>11. DOMAIN nodes[id].closure \subseteq Shared /\ DOMAIN Gained = Shared
  <2>1. \A k \in DOMAIN nodes[id].closure : nodes[id].closure[k] \in DOMAIN nodes
    BY <1>5 DEF Shape, NodesShape, NodeShape
  <2> QED BY <2>1, <1>2, <1>9 DEF Shared, Gained, StaysPrivate, Plain
<1>12. \A i \in DOMAIN nodes : Leads(nodes, id, i) => nodes[i].name \in Shared /\ Gained[nodes[i].name] = i
  <2>1. ASSUME NEW i \in DOMAIN nodes, Leads(nodes, id, i)
        PROVE  nodes[i].name \in Shared /\ Gained[nodes[i].name] = i
    <3>1. nodes[i].name \in Shared
      BY <2>1, <1>5, <1>9, <1>11 DEF ClosureIsAll
    <3>2. Gained[nodes[i].name] \in DOMAIN nodes /\ nodes[Gained[nodes[i].name]].name = nodes[i].name
      BY <3>1, GainedIs
    <3> QED BY <3>1, <3>2 DEF Neat, OnceEach
  <2> QED BY <2>1
<1>13. \A i \in DOMAIN nodes :
         /\ SameWishes(i) /\ nodes'[i].build = nodes[i].build /\ nodes'[i].private = StaysPrivate(i)
         /\ i # at => nodes'[i].edges = nodes[i].edges
         /\ i = at => nodes'[i].edges = Linked1(nodes[i].edges, id, Next1)
         /\ nodes[i].inverse \subseteq nodes'[i].inverse
         /\ i \in {Gained[k] : k \in Shared} => users \subseteq nodes'[i].inverse
  BY <1>1, <1>2, <1>3, <1>7 DEF DiamondClosed
<1>14. \A i \in DOMAIN nodes :
         /\ i \notin users => nodes'[i].closure = nodes[i].closure
         /\ i \in users => nodes'[i].closure = Merge(WithOwn(i, nodes[i].closure), Gained)
         /\ i \in Here.inverse => nodes'[i].deps = Merge(WithOwn(i, nodes[i].deps), Gained)
         /\ i \notin Here.inverse => nodes'[i].deps = WithOwn(i, nodes[i].deps)
  BY <1>1, <1>3, <1>7 DEF DiamondClosed
<1>15. \A i : \A f : /\ DOMAIN f \subseteq DOMAIN WithOwn(i, f)
                     /\ i = at => m \in DOMAIN WithOwn(i, f)
  <2>1. \A i, f : i = at => DOMAIN WithOwn(i, f) = DOMAIN f \union {m}
    BY <1>3, <1>4, WithIs DEF WithOwn
  <2>2. \A i, f : i # at => WithOwn(i, f) = f
    BY <1>3 DEF WithOwn
  <2> QED BY <2>1, <2>2
<1>16. \A f : DOMAIN Merge(f, Gained) = DOMAIN f \union Shared
  BY <1>11 DEF Merge
<1>17. \A i \in DOMAIN nodes :
         /\ DOMAIN nodes[i].closure \subseteq DOMAIN nodes'[i].closure
         /\ i \in users => Shared \subseteq DOMAIN nodes'[i].closure
         /\ DOMAIN nodes[i].deps \subseteq DOMAIN nodes'[i].deps
         /\ i = at => m \in DOMAIN nodes'[i].deps
  <2>1. ASSUME NEW i \in DOMAIN nodes
        PROVE  /\ DOMAIN nodes[i].closure \subseteq DOMAIN nodes'[i].closure
               /\ i \in users => Shared \subseteq DOMAIN nodes'[i].closure
    <3>1. CASE i \in users
      <4>1. DOMAIN nodes'[i].closure = DOMAIN WithOwn(i, nodes[i].closure) \union Shared
        BY <3>1, <1>14, <1>16
      <4>2. DOMAIN nodes[i].closure \subseteq DOMAIN WithOwn(i, nodes[i].closure)
        BY <1>15
      <4> QED BY <4>1, <4>2
    <3>2. CASE i \notin users
      BY <3>2, <1>14
    <3> QED BY <3>1, <3>2
  <2>2. ASSUME NEW i \in DOMAIN nodes
        PROVE  /\ DOMAIN nodes[i].deps \subseteq DOMAIN nodes'[i].deps
               /\ i = at => m \in DOMAIN nodes'[i].deps
    <3>1. /\ DOMAIN nodes[i].deps \subseteq DOMAIN WithOwn(i, nodes[i].deps)
          /\ i = at => m \in DOMAIN WithOwn(i, nodes[i].deps)
      BY <1>15
    <3>2. CASE i \in Here.inverse
      <4>1. DOMAIN nodes'[i].deps = DOMAIN WithOwn(i, nodes[i].deps) \union Shared
        BY <3>2, <1>14, <1>16
      <4> QED BY <3>1, <4>1
    <3>3. CASE i \notin Here.inverse
      BY <3>1, <3>3, <1>14
    <3> QED BY <3>2, <3>3
  <2> QED BY <2>1, <2>2
<1> HIDE DEF n
<1>18. \A i \in DOMAIN nodes : \A e \in Range(nodes'[i].edges) :
         \/ e \in Range(nodes[i].edges)
         \/ i = at /\ e = EdgeTo(id, Next1)
  <2>1. IsList(nodes[at].edges)
    BY <1>5 DEF Shape, NodesShape, NodeShape
  <2>2. Range(Linked1(nodes[at].edges, id, Next1)) \subseteq Range(nodes[at].edges) \union {EdgeTo(id, Next1)}
    BY <2>1, LinkedIs
  <2> QED BY <2>2, <1>13
<1>19. EdgeTo(id, Next1).to = id /\ Public(EdgeTo(id, Next1))
  BY <1>6 DEF EdgeTo, Public
<1>20. ASSUME NEW i \in DOMAIN nodes PROVE Plain(i)'
  <2>1. \A e \in Range(nodes'[i].edges) : Public(e)
    BY <1>9, <1>18, <1>19 DEF Plain
  <2>2. ~nodes'[i].private /\ ~nodes'[i].build
    BY <1>9, <1>13 DEF Plain, StaysPrivate
  <2>3. nodes'[i].requires = nodes[i].requires
    BY <1>13 DEF SameWishes
  <2> QED BY <2>1, <2>2, <2>3, <1>9 DEF Plain, Public
<1>21. ASSUME NEW i \in DOMAIN nodes PROVE ClosureIsAll(i)'
  <2>1. ASSUME NEW j \in DOMAIN nodes', Leads(nodes', i, j)
        PROVE  nodes'[j].name \in DOMAIN nodes'[i].closure
    <3>1. nodes'[j].name = nodes[j].name /\ j \in DOMAIN nodes
      BY <1>8, <1>13 DEF SameWishes
    <3>2. CASE Leads(nodes, i, j)
      BY <3>1, <3>2, <1>9, <1>17 DEF ClosureIsAll
    <3>3. CASE Leads(nodes, i, at) /\ Leads(nodes, id, j)
      BY <3>1, <3>3, <1>10, <1>12, <1>17
    <3> QED BY <2>1, <3>2, <3>3, <1>8
  <2> QED BY <2>1 DEF ClosureIsAll
<1>22. ASSUME NEW i \in DOMAIN nodes PROVE InverseIsAll(i)'
  <2>1. ASSUME NEW j \in DOMAIN nodes', j # i, Leads(nodes', j, i) PROVE j \in nodes'[i].inverse
    <3>1. CASE Leads(nodes, j, i)
      BY <2>1, <3>1, <1>8, <1>9, <1>13 DEF InverseIsAll
    <3>2. CASE Leads(nodes, j, at) /\ Leads(nodes, id, i)
      <4>1. j \in users
        BY <2>1, <3>2, <1>8, <1>10
      <4>2. i \in {Gained[k] : k \in Shared}
        BY <3>2, <1>12
      <4> QED BY <4>1, <4>2, <1>13
    <3> QED BY <2>1, <3>1, <3>2, <1>8
  <2> QED BY <2>1 DEF InverseIsAll
<1>23. ASSUME NEW i \in DOMAIN nodes PROVE EdgesKnown(i)'
  <2>1. ASSUME NEW e \in Range(nodes'[i].edges) PROVE nodes'[e.to].name \in DOMAIN nodes'[i].deps
    <3>1. CASE e \in Range(nodes[i].edges)
      <4>1. e.to \in DOMAIN nodes /\ nodes'[e.to].name = nodes[e.to].name
        BY <3>1, <1>13 DEF Shape, NodesShape, NodeShape, SameWishes
      <4> QED BY <3>1, <4>1, <1>9, <1>17 DEF EdgesKnown
    <3>2. CASE i = at /\ e = EdgeTo(id, Next1)
      BY <3>2, <1>5, <1>13, <1>17, <1>19 DEF SameWishes
    <3> QED BY <2>1, <3>1, <3>2, <1>18
  <2> QED BY <2>1 DEF EdgesKnown
<1>24. OnceEach'
  BY <1>8, <1>13 DEF Neat, OnceEach, SameWishes
<1>25. \A k \in DOMAIN stack : k \in DOMAIN stack' /\ On(k)' = On(k) /\ On(k) \in DOMAIN nodes
  <2>1. stack' = Popped \/ stack' = Append(Popped, Call(id, Top.reqs))
    BY <1>1, <1>2 DEF DiamondClosed
  <2> QED BY <2>1, <1>5, FramesAfter, StackIs DEF On
<1>26. ASSUME NEW k \in DOMAIN stack' PROVE FrameFull(k)'
  <2>1. CASE k \notin DOMAIN stack
    BY <2>1, CloseDiamondInOrder DEF FrameFull, Neat
  <2>2. CASE k \in DOMAIN stack /\ IsAgain(k)
    BY <2>2, CloseDiamondInOrder DEF FrameFull, AgainStays, Neat
  <2>3. CASE k \in DOMAIN stack /\ Full(k)
    <3>1. \A j \in DOMAIN nodes' : nodes'[j].name \in DOMAIN nodes'[On(k)].deps
      BY <2>3, <1>8, <1>13, <1>17, <1>25 DEF Full, SameWishes
    <3> QED BY <2>3, <3>1, <1>25 DEF Full, FrameFull
  <2> QED BY <2>1, <2>2, <2>3 DEF Neat, FrameFull
<1> QED BY <1>8, <1>20, <1>21, <1>22, <1>23, <1>24, <1>26 DEF Neat, Known

LEMMA ConfigureNeat ==
    ASSUME Shape, InOrder, Neat, Configure, NothingPrivate
    PROVE  Neat'
<1> DEFINE at == Top.node
<1>1. /\ Configured /\ Calling /\ at \in DOMAIN nodes /\ Here = nodes[at] /\ stack # <<>>
  BY ConfigureDoes, CallIs DEF Configure, Here, Calling
<1>2. /\ DOMAIN nodes' = DOMAIN nodes /\ \A i \in DOMAIN nodes : SameLinks(i)
      /\ \A i \in DOMAIN nodes : i # at => nodes'[i] = nodes[i]
      /\ nodes'[at].requires = Wanted(Top.reqs)
      /\ DOMAIN stack' = DOMAIN stack
      /\ \A k \in DOMAIN stack : stack'[k].node = stack[k].node
  BY <1>1, StackIs DEF Configured, Expansion, Top
<1>3. \A r \in Range(Wanted(Top.reqs)) : Public(r)
  <2> DEFINE before == IF Here.recipe.method THEN Requires(Here.recipe, NewOption)
                       ELSE Here.requires
  <2>1. /\ DOMAIN Wanted(Top.reqs) = DOMAIN before
        /\ \A i \in DOMAIN before : SameRequirement(before[i], Wanted(Top.reqs)[i])
    BY <1>1, WantedIs
  <2>2. \A r \in Range(before) : Public(r)
    BY <1>1, PublicRecipe DEF Neat, Known, Plain
  <2> HIDE DEF before
  <2> QED BY <2>1, <2>2 DEF Range, Public, SameRequirement
<1> HIDE DEF at
<1>4. \A i, j : Leads(nodes', i, j) <=> Leads(nodes, i, j)
  <2>1. WaysOf(nodes') = WaysOf(nodes)
    BY <1>1, <1>2, NodesAreGraph, WaysOfSame DEF Configured, SameLinks
  <2> QED BY <2>1 DEF Leads
<1>5. ASSUME NEW i \in DOMAIN nodes PROVE Known(i)'
  <2>1. Known(i)
    BY DEF Neat
  <2>2. Plain(i)'
    <3>1. \A r \in Range(nodes'[i].requires) : Public(r)
      BY <2>1, <1>2, <1>3 DEF Known, Plain
    <3> QED BY <2>1, <3>1, <1>2 DEF Known, Plain, SameLinks, Public
  <2>3. ClosureIsAll(i)' /\ InverseIsAll(i)'
    BY <2>1, <1>2, <1>4 DEF Known, ClosureIsAll, InverseIsAll, SameLinks
  <2>4. EdgesKnown(i)'
    BY <2>1, <1>2 DEF Known, EdgesKnown, SameLinks, Shape, NodesShape, NodeShape
  <2> QED BY <2>2, <2>3, <2>4 DEF Known
<1>6. OnceEach'
  BY <1>2 DEF Neat, OnceEach, SameLinks
<1>7. ASSUME NEW k \in DOMAIN stack PROVE FrameFull(k)'
  <2>1. CASE IsAgain(k)
    BY <2>1, <1>2, ConfigureInOrder DEF FrameFull, AgainStays
  <2>2. CASE Full(k)
    <3>1. On(k)' = On(k) /\ On(k) \in DOMAIN nodes
      BY <1>2, StackIs DEF On
    <3> QED BY <2>2, <3>1, <1>2 DEF Full, FrameFull, SameLinks
  <2> QED BY <2>1, <2>2 DEF Neat, FrameFull
<1> QED BY <1>2, <1>5, <1>6, <1>7 DEF Neat

LEMMA ReturnNeat ==
    ASSUME Shape, InOrder, Neat, Return
    PROVE  Neat'
<1>1. /\ nodes' = nodes /\ stack' = Front(stack) /\ stack # <<>> /\ IsList(stack)
  BY StackIs DEF Return, Expanding
<1>2. \A k \in DOMAIN stack' : k \in DOMAIN stack /\ stack'[k] = stack[k]
  <2>1. DOMAIN stack = 1 .. Len(stack) /\ Len(stack) \in Nat
    BY <1>1, ListFacts
  <2> QED BY <1>1, <2>1, ListFront
<1>3. \A i \in DOMAIN nodes : Known(i)' <=> Known(i)
  BY <1>1 DEF Known, Plain, ClosureIsAll, InverseIsAll, EdgesKnown
<1>4. ASSUME NEW k \in DOMAIN stack' PROVE FrameFull(k)'
  <2>1. On(k)' = On(k) /\ k \in DOMAIN stack
    BY <1>2 DEF On
  <2>2. IsAgain(k) => IsAgain(k)'
    BY <2>1, ReturnInOrder DEF AgainStays
  <2>3. Full(k) => Full(k)'
    BY <2>1, <1>1 DEF Full
  <2> QED BY <2>1, <2>2, <2>3 DEF Neat, FrameFull
<1> QED BY <1>1, <1>3, <1>4 DEF Neat, OnceEach

LEMMA NextNeat ==
    ASSUME Shape, Evaluations, Ordered, Neatness, [Next]_vars
    PROVE  Neatness'
<1> SUFFICES ASSUME AllPublic' PROVE Neat'
  BY DEF Neatness
<1>1. AllPublic /\ Neat /\ InOrder
  BY PublicBefore DEF Neatness, Ordered, AllPublic, Neat
<1>2. CASE nodes' = nodes /\ stack' = stack
  <2>1. \A i \in DOMAIN nodes : Known(i)' <=> Known(i)
    BY <1>2 DEF Known, Plain, ClosureIsAll, InverseIsAll, EdgesKnown
  <2>2. \A k \in DOMAIN stack : FrameFull(k)' <=> FrameFull(k)
    BY <1>2 DEF FrameFull, Full, IsAgain, Complete, HasEdge, On
  <2> QED BY <1>1, <1>2, <2>1, <2>2 DEF Neat, OnceEach
<1> QED BY <1>1, <1>2, FirstGraph, ConfigureNeat, AddNodeNeat, CloseDiamondNeat, ReturnNeat DEF AllPublic

\* When all edges are public, what is linked is all that the edges lead to.
LEMMA PublicWays ==
    ASSUME Shape, \A i \in DOMAIN nodes : Plain(i)
    PROVE  PublicPaths = WaysOf(nodes)
<1>1. \A i \in DOMAIN nodes : {e.to : e \in {f \in EdgesOf(i) : ~f.private /\ ~f.build}}
                                = {e.to : e \in Range(nodes[i].edges)}
  BY DEF EdgesOf, Plain, Public
<1>2. [i \in DOMAIN nodes |-> {e.to : e \in {f \in EdgesOf(i) : ~f.private /\ ~f.build}}] = NextOf(nodes)
  BY <1>1 DEF NextOf
<1> QED BY <1>2 DEF PublicPaths, Paths, WaysOf

LEMMA LinkedIsLed ==
    ASSUME Shape, Real, Neat, InOrder, NEW i \in DOMAIN nodes
    PROVE  /\ LinkedBy(i, PublicPaths) \union {i} = {j \in DOMAIN nodes : Leads(nodes, i, j)}
           /\ At(i) = {j \in DOMAIN nodes : Leads(nodes, i, j)}
           /\ i \notin LinkedBy(i, PublicPaths)
<1>1. IsGraph(nodes) /\ PublicPaths = WaysOf(nodes)
  BY NodesAreGraph, PublicWays DEF Neat, Known
<1>2. LinkedBy(i, PublicPaths) = UNION {WaysOf(nodes)[e.to] : e \in Range(nodes[i].edges)}
  BY <1>1 DEF LinkedBy, EdgesOf
<1>3. \A j : j \in LinkedBy(i, PublicPaths) <=> \E e \in Range(nodes[i].edges) : Leads(nodes, e.to, j)
  BY <1>2 DEF Leads
<1>4. \A j : j \in LinkedBy(i, PublicPaths) => Leads(nodes, i, j) /\ j \in DOMAIN nodes
  BY <1>1, <1>3, GraphWays DEF IsGraph
<1>5. \A j : Leads(nodes, i, j) => j = i \/ j \in LinkedBy(i, PublicPaths)
  BY <1>1, <1>3, FirstEdge
<1>6. Leads(nodes, i, i)
  BY <1>1, GraphWays
<1>7. i \notin LinkedBy(i, PublicPaths)
  BY <1>3 DEF InOrder, Acyclic
<1>8. \A j \in At(i) : Leads(nodes, i, j) /\ j \in DOMAIN nodes
  BY DEF At, Real, ClosureIsReal, Shape, NodesShape, NodeShape
<1>9. ASSUME NEW j \in DOMAIN nodes, Leads(nodes, i, j) PROVE j \in At(i)
  <2>1. nodes[j].name \in DOMAIN nodes[i].closure
    BY <1>9 DEF Neat, Known, ClosureIsAll
  <2>2. nodes[i].closure[nodes[j].name] = j
    BY <2>1 DEF Shape, NodesShape, NodeShape, Neat, OnceEach
  <2> QED BY <2>1, <2>2 DEF At
<1> QED BY <1>4, <1>5, <1>6, <1>7, <1>8, <1>9

\* What a node requires it links, in the version that it requires.
LEMMA FulfilledLinks ==
    ASSUME Shape, Neat, NEW i \in DOMAIN nodes, Fulfilled(i),
           NEW r \in Range(nodes[i].requires), ~r.override
    PROVE  /\ r.name \in DOMAIN nodes[i].closure
           /\ nodes[nodes[i].closure[r.name]].version = r.version
<1>1. PICK e \in Range(nodes[i].edges) : nodes[e.to].name = r.name /\ nodes[e.to].version = r.version
  BY DEF Fulfilled, Fits
<1>2. e.to \in DOMAIN nodes /\ Leads(nodes, i, e.to)
  BY NodesAreGraph, GraphWays DEF IsGraph
<1>3. r.name \in DOMAIN nodes[i].closure
  BY <1>1, <1>2 DEF Neat, Known, ClosureIsAll
<1>4. nodes[i].closure[r.name] = e.to
  BY <1>1, <1>2, <1>3 DEF Shape, NodesShape, NodeShape, Neat, OnceEach
<1> QED BY <1>1, <1>3, <1>4

LEMMA NeatIsExact ==
    ASSUME Shape, Real, Evaluations, Neat, InOrder
    PROVE  ClosureIsWhatIsLinked
<1> SUFFICES ASSUME Done PROVE
      \A i \in DOMAIN nodes :
          /\ At(i) = LinkedBy(i, PublicPaths) \union {i}
          /\ \A r \in Range(nodes[i].requires) : ~r.override =>
               /\ nodes[nodes[i].closure[r.name]].version = r.version
               /\ r.range # {} => nodes[nodes[i].closure[r.name]].version \in r.range
          /\ RequiresItsOwn(i)
  BY DEF ClosureIsWhatIsLinked
<1> TAKE i \in DOMAIN nodes
<1>1. stack = <<>>
  BY DEF Done, Shape
<1>2. Fulfilled(i)
  BY <1>1 DEF InOrder, Finished
<1>3. At(i) = LinkedBy(i, PublicPaths) \union {i}
  BY LinkedIsLed
<1>4. RequiresItsOwn(i) /\ \A r \in Range(nodes[i].requires) : InRange(r)
  BY <1>1 DEF Evaluations, Evaluated, Awaited
<1>5. ASSUME NEW r \in Range(nodes[i].requires), ~r.override
      PROVE  /\ nodes[nodes[i].closure[r.name]].version = r.version
             /\ r.range # {} => nodes[nodes[i].closure[r.name]].version \in r.range
  BY <1>2, <1>4, <1>5, FulfilledLinks DEF InRange
<1> QED BY <1>3, <1>4, <1>5

\* When no recipe has anything private, a package has one node, a loop is found exactly
\* when there is one, and what is noted of a node as its closure is what it links, in
\* the versions that are required, and all of it (graph_builder.py:149-170, 193-219).
THEOREM ClosuresAreExact ==
    Spec => [](AllPublic => OnceEach /\ LoopsAreExact /\ ClosureIsWhatIsLinked)
<1>1. Init => Shape /\ Evaluations /\ Ordered /\ Neatness
  BY InitShape, InitEvaluations, InitOrdered, InitNeat DEF Neatness, AllPublic
<1>2. Shape /\ Evaluations /\ Ordered /\ Neatness /\ [Next]_vars
        => Shape' /\ Evaluations' /\ Ordered' /\ Neatness'
  BY NextShape, NextEvaluations, NextOrdered, NextNeat
<1>3. Shape /\ Real /\ Evaluations /\ Ordered /\ Neatness
        => (AllPublic => OnceEach /\ ClosureIsWhatIsLinked)
  BY NeatIsExact DEF Neatness, Neat, Ordered, AllPublic
<1>4. (Unevaluated /\ OnceEach => LoopsAreExact) /\ (AllPublic => OnceEach /\ ClosureIsWhatIsLinked)
        => (AllPublic => OnceEach /\ LoopsAreExact /\ ClosureIsWhatIsLinked)
  BY DEF AllPublic
<1> QED BY <1>1, <1>2, <1>3, <1>4, RealHolds, LoopsAreFound, PTL DEF Spec
----------------------------------------------------------------------------
(* What the consumer wants decides. *)

\* The consumer is the first node, and called for once.
Rooted ==
    /\ nodes[1].name = Root /\ (stack # <<>> => On(1) = 1)
    /\ ~nodes[1].evaluated => DOMAIN nodes = {1} /\ DOMAIN stack = {1} /\ stack[1].reqs = Empty
    /\ \A k \in DOMAIN stack : stack[k].step = "config" /\ On(k) = 1 => ~nodes[1].evaluated
\* A requirement without a version has a range, and none is of version 0 once resolved.
Meant(r) == 0 \notin r.range /\ (r.version = 0 => r.range # {})
Versions ==
    /\ \A i \in DOMAIN nodes : \A r \in Range(nodes[i].requires) : Meant(r)
    /\ \A k \in DOMAIN stack : \A n \in DOMAIN stack[k].reqs : stack[k].reqs[n].version # 0
Settled == Unevaluated => Rooted /\ Versions

LEMMA RecipeMeans ==
    ASSUME NEW n, NEW recipe, SoundRecipe(n, recipe), NEW option
    PROVE  /\ \A r \in Range(recipe.requires) : Meant(r)
           /\ \A r \in Range(Requires(recipe, option)) : Meant(r)
<1> DEFINE a == recipe.requires
           b == recipe.optional
<1>1. a \in Seq(Requirements) /\ b \in Seq(Requirements)
  BY DEF SoundRecipe
<1>2. \A i \in DOMAIN (a \o b) : (a \o b)[i].version = 0 => (a \o b)[i].range # {}
  <2> DEFINE all == a \o b
  <2>1. \A i, j \in DOMAIN all : /\ all[i].version = 0 => all[i].range # {}
                                 /\ all[i].name = all[j].name => i = j
    BY Zenon DEF SoundRecipe
  <2> HIDE DEF all
  <2>2. \A i \in DOMAIN all : all[i].version = 0 => all[i].range # {}
    <3> SUFFICES ASSUME NEW i \in DOMAIN all PROVE all[i].version = 0 => all[i].range # {}
      OBVIOUS
    <3>1. \A j \in DOMAIN all : /\ all[i].version = 0 => all[i].range # {}
                                /\ all[i].name = all[j].name => i = j
      BY <2>1
    <3> QED BY <3>1
  <2> QED BY <2>2 DEF all
<1> HIDE DEF a, b
<1>3. \A s \in Seq(Requirements) : \A i \in DOMAIN s : 0 \notin s[i].range
  <2> SUFFICES ASSUME NEW s \in Seq(Requirements), NEW i \in DOMAIN s PROVE 0 \notin s[i].range
    OBVIOUS
  <2>1. s[i] \in Requirements
    OBVIOUS
  <2> QED BY <2>1 DEF Requirements
<1>4. a \o b \in Seq(Requirements)
  BY <1>1
<1>5. \A r \in Range(a \o b) : Meant(r)
  BY <1>2, <1>3, <1>4 DEF Range, Meant
<1>6. Range(a) \subseteq Range(a \o b)
  <2>1. ASSUME NEW i \in DOMAIN a PROVE a[i] = (a \o b)[i] /\ i \in DOMAIN (a \o b)
    BY <1>1
  <2> QED BY <2>1 DEF Range
<1>7. Requires(recipe, option) = a \o b \/ Requires(recipe, option) = a
  <2>1. CASE option = 2
    BY <2>1 DEF Requires, a, b
  <2>2. CASE option # 2
    <3>1. Requires(recipe, option) = a \o <<>>
      BY <2>2 DEF Requires, a
    <3>2. a \o <<>> = a
      BY <1>1
    <3> QED BY <3>1, <3>2
  <2> QED BY <2>1, <2>2
<1> QED BY <1>5, <1>6, <1>7 DEF a

LEMMA InitSettled ==
    ASSUME Init
    PROVE  Rooted /\ Versions
<1>1. Shape /\ stack = <<Call(1, Empty)>>
  BY InitShape DEF Init, LoadInit
<1>2. PICK r : nodes = <<[Node(Root, 0, r, {}) EXCEPT !.deps = With(Empty, Root, 1),
                                                    !.closure = With(Empty, Root, 1)]>>
  BY DEF Init, LoadInit
<1> DEFINE x == With(Empty, Root, 1)
<1> HIDE DEF x
<1>3. nodes = <<[Node(Root, 0, r, {}) EXCEPT !.deps = x, !.closure = x]>>
  BY <1>2 DEF x
<1>4. DOMAIN nodes = {1} /\ nodes[1] = [Node(Root, 0, r, {}) EXCEPT !.deps = x, !.closure = x]
  BY <1>3
<1>5. nodes[1].name = Root /\ ~nodes[1].evaluated /\ nodes[1].requires = nodes[1].recipe.requires
  BY <1>4 DEF Node
<1>6. DOMAIN stack = {1} /\ On(1) = 1 /\ stack[1].reqs = Empty
  BY <1>1 DEF On, Call
<1>7. SoundRecipe(nodes[1].name, nodes[1].recipe)
  BY <1>1, RecipeIs DEF Shape, NodesShape, NodeShape
<1>8. \A q \in Range(nodes[1].requires) : Meant(q)
  BY <1>5, <1>7, RecipeMeans
<1> QED BY <1>4, <1>5, <1>6, <1>8 DEF Rooted, Versions, Empty

\* What a requirement becomes when a node is configured.
LEMMA WantedVersion ==
    ASSUME NEW r, IsRequirement(r), NEW down
    PROVE  /\ ~r.private /\ r.name \in DOMAIN down /\ down[r.name].version # 0
                => Resolved(Overridden(r, down)).version = down[r.name].version
           /\ Meant(r) /\ (r.name \in DOMAIN down => down[r.name].version # 0)
                       /\ InRange(Resolved(Overridden(r, down)))
                => Resolved(Overridden(r, down)).version # 0 /\ Meant(Resolved(Overridden(r, down)))
<1> DEFINE o == Overridden(r, down)
           w == Resolved(o)
<1>1. /\ o.range = r.range /\ o.name = r.name /\ o.private = r.private
      /\ ~r.private /\ r.name \in DOMAIN down => o.version = down[r.name].version
      /\ ~(~r.private /\ r.name \in DOMAIN down) => o.version = r.version
  BY DEF Overridden, IsRequirement, IsRecord, RequirementFields
<1>2. SameRequirement(r, w)
  BY ResolvedIs
<1>3. r.range = {} \/ o.version # 0 => w = o
  <2> HIDE DEF o
  <2> QED BY <1>1 DEF Resolved
<1> HIDE DEF o, w
<1>4. w.range = r.range
  BY <1>2 DEF SameRequirement
<1>5. ~r.private /\ r.name \in DOMAIN down /\ down[r.name].version # 0 => w.version = down[r.name].version
  BY <1>1, <1>3
<1>6. ASSUME Meant(r), r.name \in DOMAIN down => down[r.name].version # 0, InRange(w)
      PROVE  w.version # 0 /\ Meant(w)
  <2>1. w.version # 0
    <3>1. CASE r.range = {}
      BY <3>1, <1>1, <1>3, <1>6 DEF Meant
    <3>2. CASE r.range # {}
      BY <3>2, <1>4, <1>6 DEF Meant, InRange
    <3> QED BY <3>1, <3>2
  <2> QED BY <2>1, <1>4, <1>6 DEF Meant
<1> QED BY <1>5, <1>6 DEF w, o

LEMMA ConfigureVersions ==
    ASSUME Shape, Versions, Configure
    PROVE  /\ \A r \in Range(Wanted(Top.reqs)) : r.version # 0 /\ Meant(r)
           /\ Versions'
<1>1. /\ Configured /\ Calling /\ Top.node \in DOMAIN nodes /\ NodeShape(Top.node)
      /\ Here = nodes[Top.node] /\ Len(stack) \in DOMAIN stack /\ Top = stack[Len(stack)]
      /\ IsTable(Top.reqs)
  BY ConfigureDoes, CallIs DEF Configure, Here, Top
<1> DEFINE before == IF Here.recipe.method THEN Requires(Here.recipe, NewOption)
                     ELSE Here.requires
           wanted == Wanted(Top.reqs)
<1>2. /\ DOMAIN wanted = DOMAIN before /\ AreRequirements(before) /\ AreRequirements(wanted)
      /\ \A i \in DOMAIN before : wanted[i] = Resolved(Overridden(before[i], Top.reqs))
  BY <1>1, WantedIs
<1>3. \A r \in Range(before) : Meant(r)
  <2>1. SoundRecipe(Here.name, Here.recipe)
    BY <1>1, RecipeIs DEF NodeShape, Shape
  <2>2. CASE Here.recipe.method
    BY <2>1, <2>2, RecipeMeans
  <2>3. CASE ~Here.recipe.method
    BY <2>3, <1>1 DEF Versions
  <2> QED BY <2>2, <2>3
<1>4. \A i \in DOMAIN wanted : InRange(wanted[i])
  BY DEF Configure
<1>5. \A n \in DOMAIN Top.reqs : Top.reqs[n].version # 0
  BY <1>1 DEF Versions
<1> HIDE DEF before
<1>6. ASSUME NEW i \in DOMAIN wanted PROVE wanted[i].version # 0 /\ Meant(wanted[i])
  <2>1. before[i] \in Range(before) /\ i \in DOMAIN before
    BY <1>2 DEF Range
  <2>2. IsRequirement(before[i]) /\ Meant(before[i])
    BY <2>1, <1>2, <1>3 DEF AreRequirements
  <2>3. wanted[i] = Resolved(Overridden(before[i], Top.reqs)) /\ InRange(wanted[i])
    BY <2>1, <1>2, <1>4
  <2> HIDE DEF wanted
  <2> QED BY <2>2, <2>3, <1>5, WantedVersion
<1>7. \A r \in Range(wanted) : r.version # 0 /\ Meant(r)
  <2> HIDE DEF wanted
  <2> QED BY <1>6 DEF Range
<1> HIDE DEF wanted
<1>8. \A i \in DOMAIN nodes' : \A r \in Range(nodes'[i].requires) : Meant(r)
  BY <1>1, <1>7 DEF Configured, Versions, wanted
<1>9. ASSUME NEW k \in DOMAIN stack', NEW n \in DOMAIN stack'[k].reqs PROVE stack'[k].reqs[n].version # 0
  <2>1. CASE k = Len(stack)
    <3>1. stack'[k].reqs = Upstream(Top.reqs, wanted)
      BY <2>1, <1>1 DEF Configured, Expansion, wanted
    <3> DEFINE up == Upstream(Top.reqs, wanted)
    <3>2. \/ up[n] \in Range(wanted)
          \/ n \in DOMAIN Top.reqs /\ up[n] = Top.reqs[n]
      BY <3>1, <1>1, <1>2, <1>9, UpstreamIs
    <3> QED BY <3>1, <3>2, <1>5, <1>7
  <2>2. CASE k # Len(stack)
    BY <2>2, <1>1, <1>9 DEF Configured, Versions
  <2> QED BY <2>1, <2>2
<1> QED BY <1>7, <1>8, <1>9 DEF Versions, wanted

\* After a requirement has been dealt with, what was wanted upstream is the same.
LEMMA SameReqs ==
    ASSUME Shape, Expanding, Top.left # <<>>, NEW id,
           stack' = Popped \/ stack' = Append(Popped, Call(id, Top.reqs))
    PROVE  /\ \A k \in DOMAIN stack : k \in DOMAIN stack' /\ stack'[k].reqs = stack[k].reqs
           /\ \A k \in DOMAIN stack' : \/ k \in DOMAIN stack
                                       \/ /\ k = Len(stack) + 1 /\ stack'[k] = Call(id, Top.reqs)
                                          /\ stack'[k].reqs = stack[Len(stack)].reqs
<1>1. Top = stack[Len(stack)]
  BY DEF Top
<1> QED BY <1>1, FramesAfter DEF Call

LEMMA NextRooted ==
    ASSUME Shape, Evaluations, Ordered, [Next]_vars, Unevaluated', Rooted
    PROVE  Rooted'
<1>1. 1 \in DOMAIN nodes
  BY DEF Shape, NodesShape
<1>2. CASE Configure
  <2>1. /\ Configured /\ Calling /\ Len(stack) \in DOMAIN stack /\ On(Len(stack)) = Top.node
        /\ stack # <<>> /\ Top.step = "config"
    BY <1>2, ConfigureDoes, CallIs, StackIs DEF Configure, Calling
  <2>2. /\ DOMAIN nodes' = DOMAIN nodes /\ DOMAIN stack' = DOMAIN stack
        /\ nodes'[1].name = nodes[1].name
        /\ 1 # Top.node => nodes'[1] = nodes[1]
        /\ 1 = Top.node => nodes'[1].evaluated
        /\ \A k \in DOMAIN stack : k # Len(stack) => stack'[k] = stack[k]
        /\ stack'[Len(stack)].step = "expand" /\ stack'[Len(stack)].node = Top.node
    BY <1>1, <2>1 DEF Configured, SameLinks, Expansion
  <2>3. nodes[1].evaluated \/ Top.node = 1
    BY <1>1 DEF Evaluations, Evaluated, Awaited
  <2>4. nodes'[1].evaluated
    BY <2>2, <2>3
  <2>5. \A k \in DOMAIN stack' : stack'[k].step # "config"
    <3>1. \A k \in DOMAIN stack : k # Len(stack) => stack[k].step = "expand"
      BY DEF Shape, StackShape, FrameShape
    <3> QED BY <2>1, <2>2, <3>1
  <2>6. \A k \in DOMAIN stack : On(k)' = On(k)
    BY <2>1, <2>2 DEF On
  <2>7. 1 \in DOMAIN stack
    BY <2>1, StackIs
  <2> QED BY <2>1, <2>2, <2>4, <2>5, <2>6, <2>7 DEF Rooted
<1>3. ASSUME Expanding PROVE nodes[1].evaluated /\ 1 \in DOMAIN stack /\ stack # <<>>
  <2>1. nodes[1].evaluated
    BY <1>1, <1>3 DEF Evaluations, Evaluated, Awaited, Expanding
  <2>2. 1 \in DOMAIN stack
    BY <1>3, StackIs DEF Expanding
  <2> QED BY <2>1, <2>2, <1>3 DEF Expanding
<1>4. ASSUME NEW id, id # 1, Expanding, Top.left # <<>>,
             stack' = Popped \/ stack' = Append(Popped, Call(id, Top.reqs)),
             nodes'[1].name = nodes[1].name, nodes'[1].evaluated = nodes[1].evaluated
      PROVE  Rooted'
  <2>1. /\ \A k \in DOMAIN stack : stack'[k].node = stack[k].node /\ stack'[k].step = stack[k].step
        /\ \A k \in DOMAIN stack' : k \in DOMAIN stack \/ stack'[k] = Call(id, Top.reqs)
    BY <1>4, FramesAfter
  <2>2. \A k \in DOMAIN stack : On(k)' = On(k)
    BY <2>1 DEF On
  <2>3. On(1)' = 1
    BY <1>3, <1>4, <2>2 DEF Rooted
  <2>4. ASSUME NEW k \in DOMAIN stack', stack'[k].step = "config", On(k)' = 1 PROVE FALSE
    <3>1. CASE k \in DOMAIN stack
      BY <1>3, <1>4, <2>1, <2>2, <2>4, <3>1 DEF Rooted
    <3>2. CASE stack'[k] = Call(id, Top.reqs)
      BY <1>4, <2>4, <3>2 DEF On, Call
    <3> QED BY <2>1, <3>1, <3>2
  <2> QED BY <1>3, <1>4, <2>3, <2>4 DEF Rooted
<1>5. CASE AddNode
  <2>1. PICK recipe : Added(recipe)
    BY <1>5, AddNodeDoes
  <2>2. PICK id : id = NewId
    OBVIOUS
  <2>3. /\ id # 1 /\ stack' = Append(Popped, Call(id, Top.reqs))
        /\ nodes'[1].name = nodes[1].name /\ nodes'[1].evaluated = nodes[1].evaluated
    BY <1>1, <2>1, <2>2 DEF Added, SameWishes
  <2> QED BY <1>4, <1>5, <2>3 DEF AddNode
<1>6. CASE CloseDiamond
  <2>1. PICK id : id = Previous
    OBVIOUS
  <2>2. /\ Expanding /\ Top.left # <<>> /\ nodes[id].name = Next1.name /\ Next1.name \in Name
    BY <1>6, <2>1, PreviousIs DEF IsRequirement
  <2>3. id # 1
    BY <2>2, RootIsNoPackage DEF Rooted
  <2>4. /\ stack' = Popped \/ stack' = Append(Popped, Call(id, Top.reqs))
        /\ nodes'[1].name = nodes[1].name /\ nodes'[1].evaluated = nodes[1].evaluated
    BY <1>1, <1>6, <2>1, CloseDiamondDoes DEF DiamondClosed, SameWishes
  <2> QED BY <1>4, <2>2, <2>3, <2>4
<1>7. CASE Return
  <2>1. /\ nodes' = nodes /\ stack' = Front(stack) /\ Expanding /\ IsList(stack) /\ stack # <<>>
    BY <1>7, StackIs DEF Return, Expanding
  <2>2. DOMAIN stack = 1 .. Len(stack) /\ Len(stack) \in Nat
    BY <2>1, ListFacts
  <2>3. DOMAIN stack' = 1 .. (Len(stack) - 1) /\ \A k \in DOMAIN stack' : k \in DOMAIN stack /\ stack'[k] = stack[k]
    BY <2>1, <2>2, ListFront
  <2>4. stack' # <<>> => 1 \in DOMAIN stack'
    <3>1. IsList(stack')
      BY <2>1, ListFront
    <3> QED BY <2>3, <3>1, ListFacts
  <2>5. \A k \in DOMAIN stack' : On(k)' = On(k)
    BY <2>3 DEF On
  <2> QED BY <1>3, <2>1, <2>3, <2>4, <2>5 DEF Rooted
<1>8. CASE nodes' = nodes /\ stack' = stack
  BY <1>8 DEF Rooted, On
<1> QED BY <1>2, <1>5, <1>6, <1>7, <1>8, FirstGraph

LEMMA NextVersions ==
    ASSUME Shape, Ordered, [Next]_vars, Unevaluated', Versions
    PROVE  Versions'
<1>1. CASE Configure
  BY <1>1, ConfigureVersions
<1>2. ASSUME NEW id, Expanding, Top.left # <<>>,
             stack' = Popped \/ stack' = Append(Popped, Call(id, Top.reqs)),
             NEW k \in DOMAIN stack', NEW n \in DOMAIN stack'[k].reqs
      PROVE  stack'[k].reqs[n].version # 0
  <2>1. Len(stack) \in DOMAIN stack
    BY <1>2, FramesAfter
  <2> QED BY <1>2, <2>1, SameReqs DEF Versions
<1>3. CASE AddNode
  <2>1. PICK recipe : Added(recipe)
    BY <1>3, AddNodeDoes
  <2>2. PICK id : id = NewId
    OBVIOUS
  <2>3. /\ stack' = Append(Popped, Call(id, Top.reqs)) /\ Expanding /\ Top.left # <<>>
        /\ DOMAIN nodes' = DOMAIN nodes \union {id}
        /\ \A i \in DOMAIN nodes : nodes'[i].requires = nodes[i].requires
        /\ nodes'[id].requires = recipe.requires
    BY <1>3, <2>1, <2>2 DEF Added, SameWishes, AddNode
  <2>4. \A r \in Range(recipe.requires) : Meant(r)
    <3>1. recipe \in Worlds[world].recipes[Next1.name] /\ Next1.name \in Name /\ world \in DOMAIN Worlds
      BY <2>1, <2>3, ExpansionIs DEF Added, IsRequirement, Shape
    <3> QED BY <3>1, RecipeIs, RecipeMeans
  <2>5. \A i \in DOMAIN nodes' : \A r \in Range(nodes'[i].requires) : Meant(r)
    BY <2>3, <2>4 DEF Versions
  <2>6. \A k \in DOMAIN stack' : \A n \in DOMAIN stack'[k].reqs : stack'[k].reqs[n].version # 0
    BY <1>2, <2>3
  <2> QED BY <2>5, <2>6 DEF Versions
<1>4. CASE CloseDiamond
  <2>1. PICK id : id = Previous
    OBVIOUS
  <2>2. /\ stack' = Popped \/ stack' = Append(Popped, Call(id, Top.reqs))
        /\ DOMAIN nodes' = DOMAIN nodes
        /\ \A i \in DOMAIN nodes : nodes'[i].requires = nodes[i].requires
    BY <1>4, <2>1, CloseDiamondDoes DEF DiamondClosed, SameWishes
  <2>3. Expanding /\ Top.left # <<>>
    BY <1>4, PreviousIs
  <2>4. \A k \in DOMAIN stack' : \A n \in DOMAIN stack'[k].reqs : stack'[k].reqs[n].version # 0
    BY <1>2, <2>2, <2>3
  <2> QED BY <2>2, <2>4 DEF Versions
<1>5. CASE Return
  <2>1. /\ nodes' = nodes /\ stack' = Front(stack) /\ IsList(stack) /\ stack # <<>>
    BY <1>5, StackIs DEF Return, Expanding
  <2>2. DOMAIN stack = 1 .. Len(stack) /\ Len(stack) \in Nat
    BY <2>1, ListFacts
  <2>3. \A k \in DOMAIN stack' : k \in DOMAIN stack /\ stack'[k] = stack[k]
    BY <2>1, <2>2, ListFront
  <2> QED BY <2>1, <2>3 DEF Versions
<1>6. CASE nodes' = nodes /\ stack' = stack
  BY <1>6 DEF Versions
<1> QED BY <1>1, <1>3, <1>4, <1>5, <1>6, FirstGraph

LEMMA NextSettled ==
    ASSUME Shape, Evaluations, Ordered, Settled, [Next]_vars
    PROVE  Settled'
BY FirstGraph, NextRooted, NextVersions DEF Settled

\* What a requirement r of the consumer decides: the version of the packages of that
\* name, what goes upstream, and what is required there; but for what a package of that
\* name requires, which may be required further up.
Above(n, k) == \E j \in 1 .. k : nodes[On(j)].name = n
Below(k) == IF stack[k].step = "config" THEN k - 1 ELSE k
Carries(k, r) ==
    \/ r.name \in DOMAIN stack[k].reqs /\ stack[k].reqs[r.name].version = r.version
    \/ Above(r.name, Below(k))
Obeys(k, r) ==
    stack[k].step = "expand" =>
        \A q \in Range(nodes[On(k)].requires) :
            q.name = r.name => q.version = r.version \/ Above(r.name, k)
Decides(r) ==
    /\ \A j \in DOMAIN nodes : nodes[j].name = r.name => nodes[j].version = r.version
    /\ \A k \in DOMAIN stack : Carries(k, r) /\ Obeys(k, r)
BaseHolds == nodes[1].evaluated => \A r \in Range(nodes[1].requires) : Decides(r)
BaseKept == AllPublic => BaseHolds

\* No recipe names a package twice.
NamesOnce(reqs) == \A i, j \in DOMAIN reqs : reqs[i].name = reqs[j].name => i = j

LEMMA RecipeNamesOnce ==
    ASSUME NEW n, NEW recipe, SoundRecipe(n, recipe), NEW option
    PROVE  NamesOnce(recipe.requires) /\ NamesOnce(Requires(recipe, option))
<1> DEFINE a == recipe.requires
           b == recipe.optional
           all == a \o b
<1>1. a \in Seq(Requirements) /\ b \in Seq(Requirements)
  BY DEF SoundRecipe
<1>2. \A i, j \in DOMAIN all : /\ all[i].version = 0 => all[i].range # {}
                               /\ all[i].name = all[j].name => i = j
  BY Zenon DEF SoundRecipe
<1> HIDE DEF all
<1>3. NamesOnce(all)
  BY <1>2 DEF NamesOnce
<1> HIDE DEF a, b
<1>4. \A i \in DOMAIN a : a[i] = (a \o b)[i] /\ i \in DOMAIN (a \o b)
  BY <1>1
<1>5. NamesOnce(a)
  BY <1>3, <1>4 DEF NamesOnce, all
<1>6. Requires(recipe, option) = all \/ Requires(recipe, option) = a
  <2>1. CASE option = 2
    BY <2>1 DEF Requires, a, b, all
  <2>2. CASE option # 2
    <3>1. Requires(recipe, option) = a \o <<>>
      BY <2>2 DEF Requires, a
    <3>2. a \o <<>> = a
      BY <1>1
    <3> QED BY <3>1, <3>2
  <2> QED BY <2>1, <2>2
<1> QED BY <1>3, <1>5, <1>6 DEF a

\* The consumer is configured: it is alone, and names no package twice.
LEMMA ConfigureRoot ==
    ASSUME Shape, Evaluations, InOrder, Neat, Rooted, Versions, Configure, NothingPrivate, Top.node = 1
    PROVE  BaseHolds'
<1> DEFINE wanted == Wanted(Top.reqs)
<1>1. /\ Configured /\ Calling /\ NodeShape(1) /\ Here = nodes[1] /\ stack # <<>>
      /\ Top.step = "config" /\ Len(stack) \in DOMAIN stack /\ On(Len(stack)) = 1
      /\ Top = stack[Len(stack)] /\ IsTable(Top.reqs) /\ Top.node \in DOMAIN nodes
  BY ConfigureDoes, CallIs, StackIs DEF Configure, Here, Calling, Top
<1>2. ~nodes[1].evaluated
  BY <1>1 DEF Rooted
<1>3. DOMAIN nodes = {1} /\ DOMAIN stack = {1} /\ Top.reqs = Empty /\ Len(stack) = 1
  BY <1>1, <1>2 DEF Rooted
<1>4. SoundRecipe(Root, Here.recipe)
  BY <1>1, RecipeIs DEF NodeShape, Shape, Rooted
<1> DEFINE before == IF Here.recipe.method THEN Requires(Here.recipe, NewOption)
                     ELSE Here.requires
<1>5. /\ DOMAIN wanted = DOMAIN before /\ AreRequirements(wanted)
      /\ \A i \in DOMAIN before : wanted[i].name = before[i].name
  BY <1>1, WantedIs DEF SameRequirement
<1>6. NamesOnce(before)
  <2>1. Here.requires = Here.recipe.requires
    BY <1>1, <1>2, <1>3 DEF Evaluations, Evaluated
  <2> QED BY <2>1, <1>4, RecipeNamesOnce
<1>7. \A r \in Range(wanted) : Public(r) /\ r.name \in Name
  <2>1. Neat' /\ 1 \in DOMAIN nodes'
    BY <1>1, <1>3, ConfigureNeat DEF Configured
  <2>2. nodes'[1].requires = wanted
    BY <1>1, <1>3 DEF Configured
  <2>3. \A r \in Range(nodes'[1].requires) : Public(r)
    BY <2>1 DEF Neat, Known, Plain, Public
  <2> QED BY <2>2, <2>3, <1>5 DEF AreRequirements, IsRequirement
<1> HIDE DEF before
<1>8. \A q, r \in Range(wanted) : q.name = r.name => q = r
  <2> HIDE DEF wanted
  <2> QED BY <1>5, <1>6 DEF Range, NamesOnce
<1> HIDE DEF wanted
<1>9. /\ nodes'[1].requires = wanted /\ DOMAIN nodes' = {1} /\ nodes'[1].name = Root
      /\ DOMAIN stack' = {1} /\ stack'[1].step = "expand" /\ stack'[1].node = 1
      /\ stack'[1].reqs = Upstream(Top.reqs, wanted)
  BY <1>1, <1>3 DEF Configured, SameLinks, Expansion, wanted, Rooted
<1>10. ASSUME NEW r \in Range(wanted) PROVE Decides(r)'
  <2> DEFINE up == Upstream(Top.reqs, wanted)
  <2>1. r.name \in DOMAIN up
    BY <1>1, <1>5, <1>7, <1>10, UpstreamIs DEF Public
  <2>2. up[r.name] \in Range(wanted) /\ up[r.name].name = r.name
    <3>1. DOMAIN Top.reqs = {}
      BY <1>3 DEF Empty
    <3>2. IsTable(up) /\ (up[r.name] \in Range(wanted) \/ r.name \in DOMAIN Top.reqs)
      BY <2>1, <1>1, <1>5, UpstreamIs
    <3> QED BY <2>1, <3>1, <3>2 DEF IsTable
  <2>3. up[r.name] = r
    BY <2>2, <1>8
  <2> HIDE DEF up
  <2>4. Carries(1, r)'
    BY <2>1, <2>3, <1>9 DEF Carries, up
  <2>5. Obeys(1, r)'
    BY <1>8, <1>9 DEF Obeys, On
  <2>6. nodes'[1].name # r.name
    BY <1>7, <1>9, RootIsNoPackage
  <2> QED BY <2>4, <2>5, <2>6, <1>9 DEF Decides
<1> QED BY <1>9, <1>10 DEF BaseHolds

\* A node that is configured requires what is decided.
LEMMA WantedObeys ==
    ASSUME Shape, Versions, Calling, \A q \in Range(Wanted(Top.reqs)) : Public(q),
           NEW r, Carries(Len(stack), r)
    PROVE  /\ \A q \in Range(Wanted(Top.reqs)) :
                q.name = r.name => q.version = r.version \/ Above(r.name, Len(stack))
           /\ LET up == Upstream(Top.reqs, Wanted(Top.reqs))
              IN  \/ r.name \in DOMAIN up /\ up[r.name].version = r.version
                  \/ Above(r.name, Len(stack))
<1> DEFINE wanted == Wanted(Top.reqs)
           n == Len(stack)
           up == Upstream(Top.reqs, wanted)
<1>1. /\ n \in Nat /\ n \in 1 .. n /\ DOMAIN stack = 1 .. n /\ Top = stack[n] /\ Top.step = "config"
      /\ Top.node \in DOMAIN nodes /\ IsTable(Top.reqs) /\ Here = nodes[Top.node] /\ On(n) = Top.node
  BY StackIs, CallIs DEF Calling, Top, Here, On
<1>2. Above(r.name, n - 1) => Above(r.name, n)
  <2>1. \A j \in 1 .. (n - 1) : j \in 1 .. n
    BY <1>1
  <2> QED BY <2>1 DEF Above
<1>3. SUFFICES ASSUME ~Above(r.name, n) PROVE
        /\ \A q \in Range(wanted) : q.name = r.name => q.version = r.version
        /\ r.name \in DOMAIN up /\ up[r.name].version = r.version
  OBVIOUS
<1>4. r.name \in DOMAIN Top.reqs /\ Top.reqs[r.name].version = r.version /\ r.version # 0
  <2>1. Carries(n, r) /\ Below(n) = n - 1
    BY <1>1 DEF Below
  <2>2. r.name \in DOMAIN Top.reqs /\ Top.reqs[r.name].version = r.version
    BY <2>1, <1>1, <1>2, <1>3 DEF Carries
  <2> QED BY <2>2, <1>1 DEF Versions
<1>5. r.name # Here.name
  BY <1>1, <1>3 DEF Above
<1> DEFINE before == IF Here.recipe.method THEN Requires(Here.recipe, NewOption)
                     ELSE Here.requires
<1>6. /\ DOMAIN wanted = DOMAIN before /\ AreRequirements(before) /\ AreRequirements(wanted)
      /\ \A i \in DOMAIN before : /\ wanted[i] = Resolved(Overridden(before[i], Top.reqs))
                                  /\ SameRequirement(before[i], wanted[i])
  BY <1>1, WantedIs
<1> HIDE DEF before
<1>7. ASSUME NEW q \in Range(wanted), q.name = r.name PROVE q.version = r.version
  <2>1. PICK i \in DOMAIN wanted : wanted[i] = q
    BY DEF Range
  <2> HIDE DEF wanted
  <2>2. /\ q = Resolved(Overridden(before[i], Top.reqs)) /\ before[i].name = r.name
        /\ before[i].private = q.private /\ before[i] \in Range(before)
    BY <2>1, <1>6, <1>7 DEF SameRequirement, Range
  <2>3. IsRequirement(before[i]) /\ ~before[i].private
    BY <2>2, <1>6 DEF AreRequirements, Public, wanted
  <2> QED BY <2>2, <2>3, <1>4, WantedVersion
<1>8. r.name \in DOMAIN up /\ up[r.name].version = r.version
  <2> HIDE DEF wanted
  <2>1. /\ IsTable(up) /\ r.name \in DOMAIN up
        /\ up[r.name] \in Range(wanted) \/ up[r.name] = Top.reqs[r.name]
    BY <1>1, <1>4, <1>5, <1>6, UpstreamIs
  <2> HIDE DEF up
  <2> QED BY <2>1, <1>4, <1>7 DEF IsTable
<1> QED BY <1>7, <1>8

LEMMA ConfigureBase ==
    ASSUME Shape, Evaluations, InOrder, Neat, Rooted, Versions, BaseHolds, Configure,
           NothingPrivate, Top.node # 1
    PROVE  BaseHolds'
<1>0. PICK n : n = Len(stack)
  OBVIOUS
<1>1. /\ Configured /\ Calling /\ Top.node \in DOMAIN nodes
      /\ Top = stack[n] /\ Top.step = "config"
      /\ n \in Nat /\ n \in 1 .. n /\ DOMAIN stack = 1 .. n /\ On(n) = Top.node
  BY <1>0, ConfigureDoes, CallIs, StackIs DEF Configure, Calling, Top
<1>2. PICK at : at = Top.node
  OBVIOUS
<1>3. /\ DOMAIN nodes' = DOMAIN nodes /\ nodes'[1] = nodes[1]
      /\ \A i \in DOMAIN nodes : nodes'[i].name = nodes[i].name /\ nodes'[i].version = nodes[i].version
      /\ \A i \in DOMAIN nodes : i # at => nodes'[i] = nodes[i]
      /\ nodes'[at].requires = Wanted(Top.reqs)
      /\ DOMAIN stack' = DOMAIN stack /\ \A k \in DOMAIN stack : k # n => stack'[k] = stack[k]
      /\ stack'[n].step = "expand" /\ stack'[n].node = at
      /\ stack'[n].reqs = Upstream(Top.reqs, Wanted(Top.reqs))
  BY <1>0, <1>1, <1>2 DEF Configured, SameLinks, Expansion, Shape, NodesShape
<1>4. \A q \in Range(Wanted(Top.reqs)) : Public(q)
  <2>1. Neat'
    BY ConfigureNeat
  <2> QED BY <2>1, <1>1, <1>2, <1>3 DEF Neat, Known, Plain, Public
<1>5. \A k \in DOMAIN stack : On(k)' = On(k) /\ On(k) \in DOMAIN nodes
  BY <1>1, <1>2, <1>3, StackIs DEF On
<1>6. \A m : \A k \in DOMAIN stack : Above(m, k)' <=> Above(m, k)
  <2>1. \A k \in DOMAIN stack : \A j \in 1 .. k : j \in DOMAIN stack
    BY <1>1
  <2> QED BY <2>1, <1>3, <1>5 DEF Above
<1>7. ASSUME NEW r, Decides(r) PROVE Decides(r)'
  <2>1. \A j \in DOMAIN nodes' : nodes'[j].name = r.name => nodes'[j].version = r.version
    BY <1>3, <1>7 DEF Decides
  <2>2. ASSUME NEW k \in DOMAIN stack, k # n PROVE Carries(k, r)' /\ Obeys(k, r)'
    <3>1. stack'[k] = stack[k] /\ stack[k].step = "expand"
      BY <2>2, <1>0, <1>3 DEF Shape, StackShape, FrameShape
    <3>2. Carries(k, r)'
      BY <2>2, <3>1, <1>6, <1>7 DEF Decides, Carries, Below
    <3>3. On(k)' = On(k) /\ nodes'[On(k)].requires = nodes[On(k)].requires
      <4>1. On(k) # at
        BY <2>2, <1>1, <1>2 DEF InOrder, PathHolds
      <4> QED BY <2>2, <4>1, <1>3, <1>5
    <3>4. Obeys(k, r)'
      BY <2>2, <3>1, <3>3, <1>6, <1>7 DEF Decides, Obeys
    <3> QED BY <3>2, <3>4
  <2>3. Carries(n, r)' /\ Obeys(n, r)'
    <3>1. Carries(n, r)
      BY <1>1, <1>7 DEF Decides
    <3>2. /\ \A q \in Range(Wanted(Top.reqs)) :
               q.name = r.name => q.version = r.version \/ Above(r.name, n)
          /\ \/ /\ r.name \in DOMAIN stack'[n].reqs
                /\ stack'[n].reqs[r.name].version = r.version
             \/ Above(r.name, n)
      BY <3>1, <1>0, <1>1, <1>3, <1>4, WantedObeys
    <3>3. Below(n)' = n /\ (Above(r.name, n)' <=> Above(r.name, n)) /\ On(n)' = at
      BY <1>1, <1>2, <1>3, <1>5, <1>6 DEF Below
    <3> QED BY <3>2, <3>3, <1>3 DEF Carries, Obeys
  <2> QED BY <2>1, <2>2, <2>3, <1>3 DEF Decides
<1> QED BY <1>3, <1>7 DEF BaseHolds

\* After a requirement has been dealt with, what was decided still is.
LEMMA FramesDecide ==
    ASSUME Shape, Expanding, Top.left # <<>>, NEW id,
           stack' = Popped \/ stack' = Append(Popped, Call(id, Top.reqs)),
           EdgesKept, NEW r, Decides(r)
    PROVE  \A k \in DOMAIN stack' : Carries(k, r)' /\ Obeys(k, r)'
<1>0. PICK n : n = Len(stack)
  OBVIOUS
<1>1. /\ n \in Nat /\ n \in DOMAIN stack /\ DOMAIN stack = 1 .. n /\ Top = stack[n] /\ stack[n].step = "expand"
      /\ \A k \in DOMAIN stack : stack'[k].node = stack[k].node /\ stack'[k].step = stack[k].step
      /\ \A k \in DOMAIN stack : On(k) \in DOMAIN nodes
  BY <1>0, FramesAfter, StackIs DEF Expanding, Top
<1>2. /\ \A k \in DOMAIN stack : k \in DOMAIN stack' /\ stack'[k].reqs = stack[k].reqs
      /\ \A k \in DOMAIN stack' : \/ k \in DOMAIN stack
                                  \/ /\ k = n + 1 /\ stack'[k] = Call(id, Top.reqs)
                                     /\ stack'[k].reqs = stack[n].reqs
  BY <1>0, SameReqs
<1>3. \A k \in DOMAIN stack : On(k)' = On(k)
  BY <1>1 DEF On
<1>4. \A i \in DOMAIN nodes : nodes'[i].name = nodes[i].name /\ nodes'[i].requires = nodes[i].requires
  BY DEF EdgesKept, SameWishes
<1>5. \A m : \A k \in DOMAIN stack : \A l \in 0 .. k : Above(m, l)' <=> Above(m, l)
  <2>1. \A k \in DOMAIN stack : \A l \in 0 .. k : \A j \in 1 .. l : j \in DOMAIN stack
    BY <1>1
  <2> QED BY <2>1, <1>1, <1>3, <1>4 DEF Above
<1>6. ASSUME NEW k \in DOMAIN stack PROVE Carries(k, r)' /\ Obeys(k, r)'
  <2>1. Below(k)' = Below(k) /\ Below(k) \in 0 .. k /\ k \in 0 .. k
    BY <1>1 DEF Below
  <2>2. Carries(k, r)'
    BY <2>1, <1>2, <1>5 DEF Decides, Carries
  <2>3. Obeys(k, r)'
    BY <2>1, <1>1, <1>3, <1>4, <1>5 DEF Decides, Obeys
  <2> QED BY <2>2, <2>3
<1>7. ASSUME NEW k \in DOMAIN stack', k \notin DOMAIN stack PROVE Carries(k, r)' /\ Obeys(k, r)'
  <2>1. k = n + 1 /\ stack'[k].step = "config" /\ stack'[k].reqs = stack[n].reqs
    BY <1>2, <1>7 DEF Call
  <2>2. Below(k)' = n /\ Below(n) = n
    BY <2>1, <1>1 DEF Below
  <2>3. Above(r.name, n)' <=> Above(r.name, n)
    BY <1>1, <1>5
  <2> QED BY <2>1, <2>2, <2>3, <1>1 DEF Decides, Carries, Obeys
<1> QED BY <1>6, <1>7

LEMMA AddNodeKeeps ==
    ASSUME Shape, NEW recipe, Added(recipe), Top.node \in DOMAIN nodes
    PROVE  EdgesKept
<1> DEFINE x == EdgeTo(NewId, Next1)
<1>1. IsList(nodes[Top.node].edges)
  BY DEF Shape, NodesShape, NodeShape
<1>2. /\ DOMAIN nodes \subseteq DOMAIN nodes'
      /\ \A i \in DOMAIN nodes :
           /\ SameWishes(i)
           /\ i # Top.node => nodes'[i].edges = nodes[i].edges
           /\ i = Top.node => nodes'[i].edges = Append(nodes[i].edges, x)
  BY DEF Added
<1> HIDE DEF x
<1>3. Range(nodes[Top.node].edges) \subseteq Range(Append(nodes[Top.node].edges, x))
  BY <1>1, ListAppended
<1> QED BY <1>2, <1>3 DEF EdgesKept

LEMMA CloseDiamondKeeps ==
    ASSUME Shape, DiamondClosed, Top.node \in DOMAIN nodes
    PROVE  EdgesKept
<1>1. IsList(nodes[Top.node].edges)
  BY DEF Shape, NodesShape, NodeShape
<1>2. /\ DOMAIN nodes \subseteq DOMAIN nodes'
      /\ \A i \in DOMAIN nodes :
           /\ SameWishes(i)
           /\ i # Top.node => nodes'[i].edges = nodes[i].edges
           /\ i = Top.node => nodes'[i].edges = Linked1(nodes[i].edges, Previous, Next1)
  BY DEF DiamondClosed
<1>3. Range(nodes[Top.node].edges) \subseteq Range(Linked1(nodes[Top.node].edges, Previous, Next1))
  BY <1>1, LinkedIs
<1> QED BY <1>2, <1>3 DEF EdgesKept

LEMMA AddNodeBase ==
    ASSUME Shape, Evaluations, InOrder, Neat, BaseHolds, AddNode
    PROVE  BaseHolds'
<1>1. PICK recipe : Added(recipe)
  BY AddNodeDoes
<1>2. PICK id : id = NewId
  OBVIOUS
<1>3. /\ Expanding /\ Top.left # <<>> /\ Top.node \in DOMAIN nodes /\ 1 \in DOMAIN nodes
      /\ Len(stack) \in DOMAIN stack /\ On(Len(stack)) = Top.node /\ Top.step = "expand"
      /\ Top = stack[Len(stack)] /\ DOMAIN stack = 1 .. Len(stack)
      /\ \A k \in DOMAIN stack : On(k) \in DOMAIN nodes
  BY ExpansionIs, StackIs, FramesAfter DEF AddNode, Shape, NodesShape, Expanding, On, Top
<1>4. /\ stack' = Append(Popped, Call(id, Top.reqs)) /\ DOMAIN nodes' = DOMAIN nodes \union {id}
      /\ nodes'[id].name = Next1.name /\ nodes'[id].version = Next1.version
      /\ \A i \in DOMAIN nodes : SameWishes(i)
  BY <1>1, <1>2 DEF Added
<1>5. EdgesKept
  BY <1>1, <1>3, AddNodeKeeps
<1>6. ASSUME NEW r, Decides(r) PROVE Decides(r)'
  <2>1. \A k \in DOMAIN stack' : Carries(k, r)' /\ Obeys(k, r)'
    BY <1>3, <1>4, <1>5, <1>6, FramesDecide
  <2>2. ASSUME Next1.name = r.name PROVE Next1.version = r.version
    <3>1. Next1 \in Range(nodes[Top.node].requires)
      BY <1>3, PublicNext
    <3>2. Obeys(Len(stack), r)
      BY <1>3, <1>6 DEF Decides
    <3>3. Next1.version = r.version \/ Above(r.name, Len(stack))
      BY <2>2, <3>1, <3>2, <1>3 DEF Obeys
    <3>4. ~Above(r.name, Len(stack))
      BY <2>2, <1>3, AddNodeOnce DEF Above
    <3> QED BY <3>3, <3>4
  <2>3. ASSUME NEW j \in DOMAIN nodes', nodes'[j].name = r.name PROVE nodes'[j].version = r.version
    <3>1. CASE j = id
      BY <3>1, <2>2, <2>3, <1>4
    <3>2. CASE j # id
      BY <3>2, <2>3, <1>4, <1>6 DEF Decides, SameWishes
    <3> QED BY <3>1, <3>2
  <2> QED BY <2>1, <2>3 DEF Decides
<1>7. nodes'[1].requires = nodes[1].requires /\ nodes'[1].evaluated = nodes[1].evaluated
  BY <1>3, <1>4 DEF SameWishes
<1> QED BY <1>6, <1>7 DEF BaseHolds

LEMMA CloseDiamondBase ==
    ASSUME Shape, BaseHolds, CloseDiamond
    PROVE  BaseHolds'
<1>1. DiamondClosed
  BY CloseDiamondDoes
<1>2. PICK id : id = Previous
  OBVIOUS
<1>3. Expanding /\ Top.left # <<>> /\ Top.node \in DOMAIN nodes /\ 1 \in DOMAIN nodes
  BY PreviousIs DEF Shape, NodesShape
<1>4. /\ stack' = Popped \/ stack' = Append(Popped, Call(id, Top.reqs))
      /\ DOMAIN nodes' = DOMAIN nodes /\ \A i \in DOMAIN nodes : SameWishes(i)
  BY <1>1, <1>2 DEF DiamondClosed
<1>5. EdgesKept
  BY <1>1, <1>3, CloseDiamondKeeps
<1>6. ASSUME NEW r, Decides(r) PROVE Decides(r)'
  <2>1. \A k \in DOMAIN stack' : Carries(k, r)' /\ Obeys(k, r)'
    BY <1>3, <1>4, <1>5, <1>6, FramesDecide
  <2> QED BY <2>1, <1>4, <1>6 DEF Decides, SameWishes
<1>7. nodes'[1].requires = nodes[1].requires /\ nodes'[1].evaluated = nodes[1].evaluated
  BY <1>3, <1>4 DEF SameWishes
<1> QED BY <1>6, <1>7 DEF BaseHolds

LEMMA ReturnBase ==
    ASSUME Shape, BaseHolds, Return
    PROVE  BaseHolds'
<1>1. /\ nodes' = nodes /\ stack' = Front(stack) /\ IsList(stack) /\ stack # <<>>
      /\ DOMAIN stack = 1 .. Len(stack) /\ Len(stack) \in Nat
      /\ \A k \in DOMAIN stack : stack[k].step = "config" \/ stack[k].step = "expand"
  BY StackIs DEF Return, Expanding, Shape, StackShape, FrameShape
<1>2. /\ DOMAIN stack' = 1 .. (Len(stack) - 1)
      /\ \A k \in DOMAIN stack' : k \in DOMAIN stack /\ stack'[k] = stack[k]
  <2>1. /\ DOMAIN stack' = 1 .. (Len(stack) - 1)
        /\ \A k \in 1 .. (Len(stack) - 1) : stack'[k] = stack[k]
    BY <1>1, ListFront
  <2>2. \A k \in 1 .. (Len(stack) - 1) : k \in 1 .. Len(stack)
    BY <1>1
  <2> QED BY <1>1, <2>1, <2>2
<1>3. \A k \in DOMAIN stack' : \A l \in 0 .. k : \A j \in 1 .. l : j \in DOMAIN stack'
  BY <1>1, <1>2
<1>4. \A k \in DOMAIN stack' : /\ On(k)' = On(k) /\ Below(k)' = Below(k)
                               /\ Below(k) \in 0 .. k /\ k \in 0 .. k
  BY <1>1, <1>2 DEF On, Below
<1>5. \A m : \A k \in DOMAIN stack' : \A l \in 0 .. k : Above(m, l)' <=> Above(m, l)
  BY <1>1, <1>3, <1>4 DEF Above
<1>6. ASSUME NEW r, Decides(r) PROVE Decides(r)'
  <2>1. ASSUME NEW k \in DOMAIN stack' PROVE Carries(k, r)' /\ Obeys(k, r)'
    <3>1. Carries(k, r)'
      BY <1>2, <1>4, <1>5, <1>6 DEF Decides, Carries
    <3>2. Obeys(k, r)'
      BY <1>1, <1>2, <1>4, <1>5, <1>6 DEF Decides, Obeys
    <3> QED BY <3>1, <3>2
  <2> QED BY <2>1, <1>1, <1>6 DEF Decides
<1> QED BY <1>1, <1>6 DEF BaseHolds

LEMMA NextBase ==
    ASSUME Shape, Evaluations, Ordered, Neatness, Settled, BaseKept, [Next]_vars
    PROVE  BaseKept'
<1> SUFFICES ASSUME AllPublic' PROVE BaseHolds'
  BY DEF BaseKept
<1>1. AllPublic /\ Neat /\ InOrder /\ Rooted /\ Versions /\ BaseHolds /\ Unevaluated'
  BY PublicBefore DEF Neatness, Ordered, AllPublic, Neat, Settled, BaseKept
<1>2. CASE nodes' = nodes /\ stack' = stack
  BY <1>1, <1>2 DEF BaseHolds, Decides, Carries, Obeys, Above, Below, On
<1> QED BY <1>1, <1>2, FirstGraph, ConfigureRoot, ConfigureBase, AddNodeBase, CloseDiamondBase,
           ReturnBase DEF AllPublic

LEMMA InitBase ==
    ASSUME Init
    PROVE  BaseHolds
<1>1. \E r : nodes = <<[Node(Root, 0, r, {}) EXCEPT !.deps = With(Empty, Root, 1),
                                                   !.closure = With(Empty, Root, 1)]>>
  BY DEF Init, LoadInit
<1> DEFINE x == With(Empty, Root, 1)
<1>2. PICK r : nodes = <<[Node(Root, 0, r, {}) EXCEPT !.deps = x, !.closure = x]>>
  BY <1>1
<1> HIDE DEF x
<1>3. nodes[1] = [Node(Root, 0, r, {}) EXCEPT !.deps = x, !.closure = x]
  BY <1>2
<1>4. ~nodes[1].evaluated
  BY <1>3 DEF Node
<1> QED BY <1>4 DEF BaseHolds
----------------------------------------------------------------------------
(* What options are asked for is given. *)

EdgesRequired(i) ==
    \A e \in Range(nodes[i].edges) :
        \E r \in Range(nodes[i].requires) : ~r.override /\ r.name = nodes[e.to].name
\* A node links what it requires, once configured; its option is the default until it is
\* noted as modified; and it asks for nothing of itself.
Wishes(i) ==
    /\ EdgesRequired(i)
    /\ ~nodes[i].evaluated => nodes[i].edges = <<>>
    /\ nodes[i].modified \/ nodes[i].option = nodes[i].recipe.default
    /\ nodes[i].name \notin DOMAIN nodes[i].asks
\* What a node on the way asks for goes upstream, but for what the node itself is asked.
Expands(k) == stack[k].step = "expand"
Passed(k, l, m) ==
    \/ m \in DOMAIN stack[l].asks /\ stack[l].asks[m] = nodes[On(k)].asks[m]
    \/ \E h \in (k + 1) .. l : nodes[On(h)].name = m
Passes(l) ==
    Expands(l) => /\ stack[l].asks = nodes[On(l)].asks
                  /\ \A k \in 1 .. l : \A m \in DOMAIN nodes[On(k)].asks : Passed(k, l, m)
\* A call leads to a node again: in what it still has to require, or by its own node.
Reaches(l, j) ==
    \/ /\ Expands(l)
       /\ \E r \in Range(stack[l].left) : ~r.override
            /\ \E e \in Range(nodes[On(l)].edges) :
                 nodes[e.to].name = r.name /\ Leads(nodes, e.to, j)
    \/ stack[l].step = "config" /\ Leads(nodes, On(l), j)
Given(i, j) ==
    LET v == nodes[i].asks[nodes[j].name]
    IN  \/ v = nodes[j].option \/ v = 0 \/ nodes[j].recipe.allowed = {}
        \/ i # 1 /\ v = nodes[j].recipe.default
Pending(i, j) ==
    \E k, l \in DOMAIN stack : k <= l /\ On(k) = i /\ Expands(k) /\ Reaches(l, j)
Answered(i, j) ==
    Leads(nodes, i, j) /\ nodes[j].name \in DOMAIN nodes[i].asks => Given(i, j) \/ Pending(i, j)
Asks ==
    /\ \A i \in DOMAIN nodes : Wishes(i)
    /\ \A l \in DOMAIN stack : Passes(l)
    /\ \A i, j \in DOMAIN nodes : Answered(i, j)
AsksKept == AllPublic => Asks

LEMMA InitAsks ==
    ASSUME Init
    PROVE  Asks
<1>1. Shape /\ stack = <<Call(1, Empty)>>
  BY InitShape DEF Init, LoadInit
<1>2. PICK r : nodes = <<[Node(Root, 0, r, {}) EXCEPT !.deps = With(Empty, Root, 1),
                                                    !.closure = With(Empty, Root, 1)]>>
  BY DEF Init, LoadInit
<1> DEFINE x == With(Empty, Root, 1)
<1> HIDE DEF x
<1>3. nodes = <<[Node(Root, 0, r, {}) EXCEPT !.deps = x, !.closure = x]>>
  BY <1>2 DEF x
<1>4. DOMAIN nodes = {1} /\ nodes[1] = [Node(Root, 0, r, {}) EXCEPT !.deps = x, !.closure = x]
  BY <1>3
<1>5. /\ nodes[1].edges = <<>> /\ nodes[1].option = nodes[1].recipe.default
      /\ nodes[1].asks = nodes[1].recipe.asks
  BY <1>4 DEF Node
<1>6. nodes[1].name \notin DOMAIN nodes[1].asks
  <2>1. SoundRecipe(nodes[1].name, nodes[1].recipe)
    BY <1>1, RecipeIs DEF Shape, NodesShape, NodeShape
  <2> QED BY <2>1, <1>5 DEF SoundRecipe
<1>7. \A e \in Range(nodes[1].edges) : FALSE
  BY <1>5 DEF Range
<1>8. Wishes(1)
  BY <1>5, <1>6, <1>7 DEF Wishes, EdgesRequired
<1>9. DOMAIN stack = {1} /\ ~Expands(1)
  BY <1>1 DEF Expands, Call
<1>10. Answered(1, 1)
  BY <1>6 DEF Answered
<1> QED BY <1>4, <1>8, <1>9, <1>10 DEF Asks, Passes

\* What a node asks for, once configured.
LEMMA NewAsksIs ==
    ASSUME TRUE
    PROVE  /\ DOMAIN NewAsks = DOMAIN Here.asks \union (DOMAIN Asking \ {Here.name})
           /\ \A m \in DOMAIN Asking : m # Here.name => NewAsks[m] = Asking[m]
           /\ \A m \in DOMAIN Here.asks : m = Here.name \/ m \notin DOMAIN Asking
                => NewAsks[m] = Here.asks[m]
BY DEF NewAsks, Merge

\* A node that is configured is given the option that is asked of it by name.
LEMMA NewOptionIs ==
    ASSUME ~RefusesOption
    PROVE  /\ Here.name \in DOMAIN Asking =>
                \/ NewOption = Asking[Here.name] \/ Asking[Here.name] = 0
                \/ Here.recipe.allowed = {}
           /\ NewOption = Here.option \/ ~Here.modified
BY DEF RefusesOption, NewOption, Asked

LEMMA ConfigureWishes ==
    ASSUME Shape, Configure, NEW at, at = Top.node, Wishes(at)
    PROVE  Wishes(at)'
<1>1. Configured /\ at \in DOMAIN nodes /\ NodeShape(at) /\ Here = nodes[at] /\ ~RefusesOption
  BY ConfigureDoes, CallIs DEF Configure, Here
<1>2. /\ nodes'[at].edges = nodes[at].edges /\ nodes'[at].requires = Wanted(Top.reqs)
      /\ nodes'[at].evaluated /\ nodes'[at].asks = NewAsks /\ nodes'[at].option = NewOption
      /\ nodes'[at].modified = (Here.modified \/ NewOption # Here.option)
      /\ nodes'[at].recipe = nodes[at].recipe
      /\ \A i \in DOMAIN nodes : nodes'[i].name = nodes[i].name
  BY <1>1 DEF Configured, SameLinks
<1>3. ASSUME NEW e \in Range(nodes[at].edges)
      PROVE  \E r \in Range(Wanted(Top.reqs)) : ~r.override /\ r.name = nodes'[e.to].name
  <2>1. nodes[at].evaluated
    BY DEF Wishes, Range
  <2>2. e.to \in DOMAIN nodes /\ \E q \in Range(Here.requires) : ~q.override /\ q.name = nodes[e.to].name
    BY <1>1 DEF Wishes, EdgesRequired, NodeShape
  <2> QED BY <2>1, <2>2, <1>1, <1>2, RequiredAgain
<1>4. EdgesRequired(at)'
  BY <1>2, <1>3 DEF EdgesRequired
<1>5. nodes'[at].name \notin DOMAIN nodes'[at].asks
  BY <1>1, <1>2, NewAsksIs DEF Wishes
<1>6. nodes'[at].modified \/ nodes'[at].option = nodes'[at].recipe.default
  <2>1. CASE NewOption = Here.option
    BY <2>1, <1>1, <1>2 DEF Wishes
  <2>2. CASE NewOption # Here.option
    BY <2>2, <1>2
  <2> QED BY <2>1, <2>2
<1> QED BY <1>2, <1>4, <1>5, <1>6 DEF Wishes

LEMMA ConfigureAsks ==
    ASSUME Shape, Evaluations, InOrder, Neat, Rooted, Asks, Configure
    PROVE  Asks'
<1>0. PICK n : n = Len(stack)
  OBVIOUS
<1>1. PICK at : at = Top.node
  OBVIOUS
<1>2. /\ Configured /\ Calling /\ at \in DOMAIN nodes /\ Here = nodes[at] /\ ~RefusesOption
      /\ Top = stack[n] /\ Top.step = "config" /\ n \in Nat /\ n \in 1 .. n /\ DOMAIN stack = 1 .. n
      /\ On(n) = at /\ \A k \in DOMAIN stack : On(k) \in DOMAIN nodes
  BY <1>0, <1>1, ConfigureDoes, CallIs, StackIs DEF Configure, Calling, Top, Here
<1>3. /\ DOMAIN nodes' = DOMAIN nodes
      /\ \A i \in DOMAIN nodes : SameLinks(i)
      /\ \A i \in DOMAIN nodes : i # at => nodes'[i] = nodes[i]
      /\ nodes'[at].option = NewOption /\ nodes'[at].asks = NewAsks
      /\ nodes'[at].requires = Wanted(Top.reqs)
      /\ DOMAIN stack' = DOMAIN stack /\ \A k \in DOMAIN stack : k # n => stack'[k] = stack[k]
      /\ stack'[n].step = "expand" /\ stack'[n].node = at /\ stack'[n].asks = NewAsks
      /\ stack'[n].left = Handled(Wanted(Top.reqs))
  BY <1>0, <1>1, <1>2 DEF Configured, Expansion
<1>4. \A i, j : Leads(nodes', i, j) <=> Leads(nodes, i, j)
  <2>1. WaysOf(nodes') = WaysOf(nodes)
    BY <1>2, <1>3, NodesAreGraph, WaysOfSame DEF Configured, SameLinks
  <2> QED BY <2>1 DEF Leads
<1>5. \A i \in DOMAIN nodes : /\ nodes'[i].name = nodes[i].name /\ nodes'[i].edges = nodes[i].edges
                              /\ nodes'[i].recipe = nodes[i].recipe
  BY <1>3 DEF SameLinks
<1>6. \A k \in DOMAIN stack : On(k)' = On(k) /\ (k # n => On(k) # at)
  BY <1>2, <1>3 DEF On, InOrder, PathHolds
<1>7. \A k \in DOMAIN stack : /\ k # n => Expands(k) /\ (Expands(k)' <=> Expands(k))
                              /\ ~Expands(n) /\ Expands(n)'
  BY <1>0, <1>2, <1>3 DEF Shape, StackShape, FrameShape, Expands
\* Wishes.
<1>8. ASSUME NEW i \in DOMAIN nodes PROVE Wishes(i)'
  <2>1. CASE i = at
    BY <2>1, <1>1, ConfigureWishes DEF Asks
  <2>2. CASE i # at
    <3>1. nodes'[i] = nodes[i]
      BY <2>2, <1>3
    <3>2. \A e \in Range(nodes[i].edges) : nodes'[e.to].name = nodes[e.to].name
      BY <1>5 DEF Shape, NodesShape, NodeShape
    <3> QED BY <3>1, <3>2 DEF Asks, Wishes, EdgesRequired
  <2> QED BY <2>1, <2>2
\* What goes upstream.
<1>9. ASSUME NEW k \in 1 .. n, k # n, NEW m \in DOMAIN nodes[On(k)].asks
      PROVE  (m \in DOMAIN Asking /\ Asking[m] = nodes[On(k)].asks[m])
             \/ \E h \in (k + 1) .. (n - 1) : nodes[On(h)].name = m
  <2>1. n - 1 \in DOMAIN stack /\ n - 1 # n /\ k \in 1 .. (n - 1) /\ n # 1
    BY <1>2, <1>9
  <2>2. Passed(k, n - 1, m)
    BY <2>1, <1>7, <1>9 DEF Asks, Passes
  <2>3. Asking = stack[n - 1].asks
    BY <2>1, <1>0 DEF Asking
  <2> QED BY <2>2, <2>3 DEF Passed
<1>10. ASSUME NEW l \in DOMAIN stack PROVE Passes(l)'
  <2>1. CASE l # n
    <3>1. stack'[l] = stack[l] /\ Expands(l) /\ Passes(l)
      BY <2>1, <1>3, <1>7 DEF Asks
    <3>2. \A k \in 1 .. l : k \in DOMAIN stack /\ k # n
      BY <2>1, <1>2
    <3>3. \A k \in 1 .. l : On(k)' = On(k) /\ nodes'[On(k)] = nodes[On(k)]
      BY <3>2, <1>2, <1>3, <1>6
    <3>4. l \in 1 .. l /\ \A k \in 1 .. l : \A h \in (k + 1) .. l : h \in 1 .. l
      BY <2>1, <1>2
    <3>5. \A k \in 1 .. l : \A m : Passed(k, l, m)' <=> Passed(k, l, m)
      BY <3>1, <3>3, <3>4 DEF Passed
    <3> QED BY <3>1, <3>3, <3>4, <3>5 DEF Passes
  <2>2. CASE l = n
    <3>1. stack'[n].asks = nodes'[On(n)'].asks
      BY <1>2, <1>3, <1>6
    <3>2. ASSUME NEW k \in 1 .. n, NEW m \in DOMAIN nodes'[On(k)'].asks PROVE Passed(k, n, m)'
      <4>1. CASE k = n
        BY <4>1, <3>1, <3>2 DEF Passed
      <4>2. CASE k # n
        <5>1. On(k)' = On(k) /\ nodes'[On(k)] = nodes[On(k)] /\ k \in DOMAIN stack
          BY <4>2, <1>2, <1>3, <1>6
        <5>2. CASE m \in DOMAIN Asking /\ Asking[m] = nodes[On(k)].asks[m] /\ m # Here.name
          <6>1. m \in DOMAIN NewAsks /\ NewAsks[m] = Asking[m]
            BY <5>2, NewAsksIs
          <6> QED BY <5>1, <5>2, <6>1, <1>3 DEF Passed
        <5>3. CASE m = Here.name
          <6>1. n \in (k + 1) .. n /\ nodes'[On(n)'].name = m
            BY <4>2, <5>3, <1>2, <1>5, <1>6
          <6> QED BY <6>1 DEF Passed
        <5>4. CASE \E h \in (k + 1) .. (n - 1) : nodes[On(h)].name = m
          <6>1. PICK h \in (k + 1) .. (n - 1) : nodes[On(h)].name = m
            BY <5>4
          <6>2. h \in (k + 1) .. n /\ h \in DOMAIN stack
            BY <1>2
          <6>3. nodes'[On(h)'].name = m
            BY <6>1, <6>2, <1>2, <1>5, <1>6
          <6> QED BY <6>2, <6>3 DEF Passed
        <5> QED BY <3>2, <4>2, <5>1, <5>2, <5>3, <5>4, <1>9
      <4> QED BY <4>1, <4>2
    <3> QED BY <2>2, <3>1, <3>2 DEF Passes
  <2> QED BY <2>1, <2>2
\* The node has to be reached again when it leads somewhere.
<1>11. ASSUME NEW j \in DOMAIN nodes, Leads(nodes, at, j), j # at PROVE Reaches(n, j)'
  <2>1. PICK e \in Range(nodes[at].edges) : Leads(nodes, e.to, j)
    BY <1>2, <1>11, NodesAreGraph, FirstEdge
  <2>2. e \in Range(nodes'[at].edges) /\ e.to \in DOMAIN nodes /\ Leads(nodes', e.to, j)
    BY <2>1, <1>2, <1>4, <1>5 DEF Shape, NodesShape, NodeShape
  <2>3. PICK r \in Range(Wanted(Top.reqs)) : ~r.override /\ r.name = nodes'[e.to].name
    BY <2>2, <1>2, <1>3, <1>8 DEF Wishes, EdgesRequired
  <2>4. r \in Range(Handled(Wanted(Top.reqs)))
    <3>1. AreRequirements(Wanted(Top.reqs))
      BY <1>1, <1>2, WantedIs
    <3> QED BY <2>3, <3>1, HandledIs DEF AreRequirements
  <2>5. stack'[n].step = "expand" /\ On(n)' = at /\ r \in Range(stack'[n].left)
    BY <2>4, <1>2, <1>3, <1>6
  <2> QED BY <2>2, <2>3, <2>5 DEF Reaches, Expands
<1>12. ASSUME NEW i \in DOMAIN nodes, NEW j \in DOMAIN nodes, j # at, Pending(i, j) PROVE Pending(i, j)'
  <2>1. PICK k, l \in DOMAIN stack : k <= l /\ On(k) = i /\ Expands(k) /\ Reaches(l, j)
    BY <1>12 DEF Pending
  <2>2. k # n /\ Expands(k)' /\ On(k)' = i
    BY <2>1, <1>6, <1>7
  <2>3. CASE l = n
    <3>1. Leads(nodes, at, j)
      BY <2>1, <2>3, <1>2, <1>7 DEF Reaches
    <3>2. Reaches(n, j)'
      BY <3>1, <1>11, <1>12
    <3> QED BY <2>1, <2>2, <2>3, <3>2, <1>3 DEF Pending
  <2>4. CASE l # n
    <3>1. stack'[l] = stack[l] /\ On(l)' = On(l) /\ On(l) \in DOMAIN nodes /\ nodes'[On(l)].edges = nodes[On(l)].edges
      BY <2>4, <1>2, <1>3, <1>5, <1>6
    <3>2. \A e \in Range(nodes[On(l)].edges) : nodes'[e.to].name = nodes[e.to].name
      BY <3>1, <1>5 DEF Shape, NodesShape, NodeShape
    <3>3. Reaches(l, j)'
      BY <2>1, <3>1, <3>2, <1>4 DEF Reaches, Expands
    <3> QED BY <2>1, <2>2, <3>3, <1>3 DEF Pending
  <2> QED BY <2>3, <2>4
\* What a call that is on the way asks of the node it is given.
<1>13. ASSUME NEW k \in DOMAIN stack, k # n, Here.name \in DOMAIN nodes[On(k)].asks
       PROVE  Given(On(k), at)'
  <2>1. ~ \E h \in (k + 1) .. (n - 1) : nodes[On(h)].name = Here.name
    <3>1. ASSUME NEW h \in (k + 1) .. (n - 1) PROVE On(h) # at /\ On(h) \in DOMAIN nodes
      <4>1. h \in DOMAIN stack /\ h # n
        BY <1>2, <1>13
      <4> QED BY <4>1, <1>2, <1>6
    <3> QED BY <3>1, <1>2 DEF Neat, OnceEach
  <2>2. Here.name \in DOMAIN Asking /\ Asking[Here.name] = nodes[On(k)].asks[Here.name]
    BY <2>1, <1>2, <1>9, <1>13
  <2>3. /\ nodes'[On(k)] = nodes[On(k)] /\ nodes'[at].name = Here.name
        /\ nodes'[at].recipe = Here.recipe /\ nodes'[at].option = NewOption
        /\ On(k)' = On(k)
    BY <1>2, <1>3, <1>5, <1>6, <1>13
  <2>4. \/ NewOption = Asking[Here.name] \/ Asking[Here.name] = 0 \/ Here.recipe.allowed = {}
    BY <2>2, <1>2, NewOptionIs
  <2> QED BY <2>2, <2>3, <2>4 DEF Given
<1>14. ASSUME NEW i \in DOMAIN nodes, NEW j \in DOMAIN nodes PROVE Answered(i, j)'
  <2>1. SUFFICES ASSUME Leads(nodes, i, j), nodes[j].name \in DOMAIN nodes'[i].asks
                 PROVE  Given(i, j)' \/ Pending(i, j)'
    BY <1>4, <1>5 DEF Answered
  <2>2. CASE i = at
    <3>1. j # at
      BY <2>1, <2>2, <1>5, <1>8 DEF Wishes
    <3>2. Reaches(n, j)' /\ n \in DOMAIN stack' /\ On(n)' = at /\ Expands(n)' /\ n <= n
      BY <2>1, <2>2, <3>1, <1>2, <1>3, <1>6, <1>7, <1>11
    <3> QED BY <2>2, <3>2 DEF Pending
  <2>3. CASE i # at /\ j = at
    <3>1. nodes'[i] = nodes[i] /\ nodes[at].name \in DOMAIN nodes[i].asks
      BY <2>1, <2>3, <1>3
    <3>2. CASE \E k \in DOMAIN stack : k # n /\ On(k) = i
      BY <2>3, <3>1, <3>2, <1>2, <1>6, <1>13
    <3>3. CASE ~ \E k \in DOMAIN stack : k # n /\ On(k) = i
      <4>1. ~Pending(i, at)
        BY <2>3, <3>3, <1>2, <1>7 DEF Pending
      <4>2. Given(i, at) /\ i # 1
        <5>1. Answered(i, at)
          BY <1>2 DEF Asks
        <5>2. i # 1
          <6>1. On(1) = 1 /\ 1 \in DOMAIN stack /\ stack # <<>>
            BY <1>2 DEF Rooted, Calling
          <6> QED BY <2>3, <3>3, <6>1, <1>2
        <5> QED BY <2>1, <2>3, <3>1, <4>1, <5>1, <5>2 DEF Answered
      <4>3. CASE NewOption = Here.option
        BY <2>3, <3>1, <4>2, <4>3, <1>2, <1>3, <1>5 DEF Given
      <4>4. CASE NewOption # Here.option
        <5>1. Here.option = Here.recipe.default
          BY <4>4, <1>2, NewOptionIs DEF Asks, Wishes
        <5> QED BY <2>3, <3>1, <4>2, <5>1, <1>2, <1>3, <1>5 DEF Given
      <4> QED BY <4>3, <4>4
    <3> QED BY <3>2, <3>3
  <2>4. CASE i # at /\ j # at
    <3>1. nodes'[i] = nodes[i] /\ nodes'[j] = nodes[j] /\ nodes[j].name \in DOMAIN nodes[i].asks
      BY <2>1, <2>4, <1>3
    <3>2. Given(i, j) \/ Pending(i, j)
      BY <2>1, <3>1 DEF Asks, Answered
    <3>3. Given(i, j) => Given(i, j)'
      BY <3>1 DEF Given
    <3> QED BY <2>4, <3>2, <3>3, <1>12
  <2> QED BY <2>2, <2>3, <2>4
<1> QED BY <1>3, <1>8, <1>10, <1>14 DEF Asks

\* What was on the way to be answered still is, but for what is required now.
LEMMA StillPending ==
    ASSUME Shape, Expanding, Top.left # <<>>, NEW id,
           stack' = Popped \/ stack' = Append(Popped, Call(id, Top.reqs)), EdgesKept,
           \A i, j \in DOMAIN nodes : Leads(nodes, i, j) => Leads(nodes', i, j),
           NEW i \in DOMAIN nodes, NEW j \in DOMAIN nodes, Pending(i, j)
    PROVE  \/ Pending(i, j)'
           \/ \E k \in DOMAIN stack : On(k) = i
                /\ \E e \in Range(nodes[Top.node].edges) :
                     nodes[e.to].name = Next1.name /\ Leads(nodes, e.to, j)
<1>0. PICK n : n = Len(stack)
  OBVIOUS
<1>1. /\ n \in DOMAIN stack /\ Top = stack[n] /\ On(n) = Top.node
      /\ DOMAIN stack \subseteq DOMAIN stack'
      /\ \A k \in DOMAIN stack :
           /\ stack'[k].node = stack[k].node /\ stack'[k].step = stack[k].step
           /\ k # n => stack'[k] = stack[k]
           /\ k = n => stack'[k].left = Handled(Tail(Top.left))
      /\ \A k \in DOMAIN stack : On(k) \in DOMAIN nodes
      /\ \A r \in Range(Top.left) : r = Next1 \/ r.override \/ r \in Range(Handled(Tail(Top.left)))
  BY <1>0, FramesAfter, StackIs, PoppedIs DEF On, Top, Expanding
<1>2. \A k \in DOMAIN stack : On(k)' = On(k) /\ (Expands(k)' <=> Expands(k))
  BY <1>1 DEF On, Expands
<1>3. PICK k, l \in DOMAIN stack : k <= l /\ On(k) = i /\ Expands(k) /\ Reaches(l, j)
  BY DEF Pending
<1>4. On(l) \in DOMAIN nodes /\ Range(nodes[On(l)].edges) \subseteq Range(nodes'[On(l)].edges)
  BY <1>1 DEF EdgesKept
<1>5. Reaches(l, j)' => Pending(i, j)'
  BY <1>1, <1>2, <1>3 DEF Pending
<1>6. CASE Expands(l)
  <2>1. PICK r \in Range(stack[l].left) : ~r.override
             /\ \E e \in Range(nodes[On(l)].edges) : nodes[e.to].name = r.name /\ Leads(nodes, e.to, j)
    BY <1>3, <1>6 DEF Reaches, Expands
  <2>2. PICK e \in Range(nodes[On(l)].edges) : nodes[e.to].name = r.name /\ Leads(nodes, e.to, j)
    BY <2>1
  <2>3. /\ e.to \in DOMAIN nodes /\ nodes'[e.to].name = r.name /\ Leads(nodes', e.to, j)
        /\ e \in Range(nodes'[On(l)].edges)
    BY <1>4, <2>2 DEF Shape, NodesShape, NodeShape, EdgesKept, SameWishes
  <2>4. CASE l = n /\ r = Next1
    BY <2>2, <2>4, <1>1, <1>3
  <2>5. CASE l # n \/ r # Next1
    <3>1. r \in Range(stack'[l].left)
      BY <2>1, <2>5, <1>1
    <3>2. Reaches(l, j)'
      BY <3>1, <2>1, <2>3, <1>2, <1>6 DEF Reaches
    <3> QED BY <3>2, <1>5
  <2> QED BY <2>4, <2>5
<1>7. CASE ~Expands(l)
  <2>1. stack[l].step = "config" /\ Leads(nodes, On(l), j)
    BY <1>3, <1>7 DEF Reaches
  <2>2. stack'[l].step = "config" /\ Leads(nodes', On(l), j)
    BY <2>1, <1>1, <1>4
  <2> QED BY <2>2, <1>2, <1>5 DEF Reaches
<1> QED BY <1>6, <1>7

\* What a node leads to that is called for is answered to all who wait.
LEMMA CallPends ==
    ASSUME Shape, Expanding, Top.left # <<>>, NEW id, stack' = Append(Popped, Call(id, Top.reqs)),
           NEW k \in DOMAIN stack, NEW i, i = On(k), NEW j, Leads(nodes', id, j)
    PROVE  Pending(i, j)'
<1>0. PICK n : n = Len(stack)
  OBVIOUS
<1>1. PICK new : new = n + 1
  OBVIOUS
<1>2. PICK x : x = Call(id, Top.reqs) /\ x.step = "config" /\ x.node = id
  BY DEF Call
<1>3. /\ n \in Nat /\ DOMAIN stack = 1 .. n /\ DOMAIN stack' = DOMAIN stack \union {new}
      /\ stack'[new] = x
      /\ stack'[k].node = stack[k].node /\ stack'[k].step = stack[k].step
  BY <1>0, <1>1, <1>2, FramesAfter
<1>4. k \in DOMAIN stack' /\ new \in DOMAIN stack' /\ k <= new
  BY <1>1, <1>3
<1>5. stack[k].step = "expand"
  BY ExpansionIs DEF Shape, StackShape, FrameShape, Expanding, Top
<1>6. On(k)' = i /\ Expands(k)'
  BY <1>3, <1>5 DEF On, Expands
<1>7. Reaches(new, j)'
  <2>1. stack'[new].step = "config" /\ On(new)' = id
    BY <1>2, <1>3 DEF On
  <2> QED BY <2>1 DEF Reaches
<1> QED BY <1>4, <1>6, <1>7 DEF Pending

\* What goes upstream from a call still does.
LEMMA PassesOn ==
    ASSUME Shape, Expanding, Top.left # <<>>, NEW id,
           stack' = Popped \/ stack' = Append(Popped, Call(id, Top.reqs)), EdgesKept,
           \A l \in DOMAIN stack : Passes(l)
    PROVE  \A l \in DOMAIN stack' : Passes(l)'
<1>0. PICK n : n = Len(stack)
  OBVIOUS
<1>1. /\ n \in Nat /\ DOMAIN stack = 1 .. n
      /\ \/ DOMAIN stack' = DOMAIN stack
         \/ DOMAIN stack' = DOMAIN stack \union {n + 1} /\ stack'[n + 1] = Call(id, Top.reqs)
      /\ \A k \in DOMAIN stack :
           /\ stack'[k].node = stack[k].node /\ stack'[k].step = stack[k].step
           /\ stack'[k].asks = stack[k].asks
      /\ \A k \in DOMAIN stack : On(k) \in DOMAIN nodes
  BY <1>0, FramesAfter, StackIs
<1>2. \A k \in DOMAIN stack : On(k)' = On(k) /\ (Expands(k)' <=> Expands(k))
  BY <1>1 DEF On, Expands
<1>3. \A i \in DOMAIN nodes : nodes'[i].name = nodes[i].name /\ nodes'[i].asks = nodes[i].asks
  BY DEF EdgesKept, SameWishes
<1>4. ASSUME NEW l \in DOMAIN stack PROVE Passes(l)'
  <2>1. l \in 1 .. l /\ \A k \in 1 .. l : k \in DOMAIN stack
                     /\ \A h \in (k + 1) .. l : h \in DOMAIN stack
    BY <1>1
  <2>2. \A k \in 1 .. l : \A m : Passed(k, l, m)' <=> Passed(k, l, m)
    BY <2>1, <1>1, <1>2, <1>3 DEF Passed
  <2> QED BY <2>1, <2>2, <1>1, <1>2, <1>3 DEF Passes
<1>5. ASSUME NEW l \in DOMAIN stack', l \notin DOMAIN stack PROVE Passes(l)'
  BY <1>1, <1>5 DEF Passes, Expands, Call
<1> QED BY <1>4, <1>5

\* Nodes that have edges to what they require still do.
LEMMA WishesStay ==
    ASSUME Shape, Evaluations, InOrder, Neat, Expanding, Top.left # <<>>,
           NEW i \in DOMAIN nodes, Wishes(i), SameWishes(i),
           \A k \in DOMAIN nodes : nodes'[k].name = nodes[k].name,
           i # Top.node => nodes'[i].edges = nodes[i].edges,
           i = Top.node => \A e \in Range(nodes'[i].edges) :
               e \in Range(nodes[i].edges) \/ nodes'[e.to].name = Next1.name
    PROVE  Wishes(i)'
<1>1. Next1 \in Range(nodes[Top.node].requires) /\ ~Next1.override
  BY PublicNext
<1>2. \A e \in Range(nodes[i].edges) : nodes'[e.to].name = nodes[e.to].name
  BY DEF Shape, NodesShape, NodeShape
<1>3. nodes[i].evaluated
  BY DEF Evaluations, Evaluated, Awaited, Expanding
<1>4. nodes'[i].requires = nodes[i].requires
  BY DEF SameWishes
<1>5. ASSUME NEW e \in Range(nodes'[i].edges)
      PROVE  \E r \in Range(nodes'[i].requires) : ~r.override /\ r.name = nodes'[e.to].name
  <2>1. CASE e \in Range(nodes[i].edges)
    BY <2>1, <1>2, <1>4 DEF Wishes, EdgesRequired
  <2>2. CASE e \notin Range(nodes[i].edges)
    BY <2>2, <1>1, <1>4, <1>5
  <2> QED BY <2>1, <2>2
<1>6. EdgesRequired(i)'
  BY <1>5 DEF EdgesRequired
<1> QED BY <1>3, <1>6 DEF Wishes, SameWishes

LEMMA AddNodeAsks ==
    ASSUME Shape, Evaluations, InOrder, Neat, Asks, AddNode
    PROVE  Asks'
<1>0. PICK n : n = Len(stack)
  OBVIOUS
<1>1. PICK recipe : Added(recipe)
  BY AddNodeDoes
<1>2. PICK id, at : id = NewId /\ at = Top.node
  OBVIOUS
<1>3. /\ Expanding /\ Top.left # <<>> /\ at \in DOMAIN nodes /\ at = On(n) /\ n \in DOMAIN stack
      /\ n \in Nat /\ DOMAIN stack = 1 .. n
  BY <1>0, <1>2, ExpansionIs, FramesAfter, StackIs DEF AddNode, On, Top, Expanding
<1>4. /\ IsGraph(nodes') /\ DOMAIN nodes' = DOMAIN nodes \union {id} /\ id \notin DOMAIN nodes
      /\ \A i \in DOMAIN nodes : \A j : Leads(nodes', i, j) <=>
           Leads(nodes, i, j) \/ (Leads(nodes, i, at) /\ j = id)
      /\ \A j : Leads(nodes', id, j) <=> j = id
  BY <1>1, <1>2, <1>3, AddNodeWays
<1>5. /\ \A i \in DOMAIN nodes : SameWishes(i) /\ (i # at => nodes'[i].edges = nodes[i].edges)
      /\ nodes'[at].edges = Append(nodes[at].edges, EdgeTo(id, Next1))
      /\ nodes'[id].name = Next1.name /\ nodes'[id].recipe = recipe /\ nodes'[id].edges = <<>>
      /\ nodes'[id].option = recipe.default /\ nodes'[id].asks = recipe.asks
  BY <1>1, <1>2, <1>3 DEF Added
<1>6. stack' = Append(Popped, Call(id, Top.reqs))
  BY <1>1, <1>2 DEF Added
<1>7. EdgesKept
  BY <1>1, <1>2, <1>3, AddNodeKeeps
<1>8. ~IsAgain(n) /\ \A i \in DOMAIN nodes : nodes[i].name # Next1.name
  BY <1>0, AddNodeOnce
<1>9. \A e \in Range(nodes'[at].edges) : e \in Range(nodes[at].edges) \/ nodes'[e.to].name = Next1.name
  <2> DEFINE x == EdgeTo(id, Next1)
  <2>1. IsList(nodes[at].edges)
    BY <1>3 DEF Shape, NodesShape, NodeShape
  <2>2. x.to = id
    BY DEF EdgeTo
  <2>3. nodes'[at].edges = Append(nodes[at].edges, x)
    BY <1>5
  <2> HIDE DEF x
  <2>4. Range(nodes'[at].edges) = Range(nodes[at].edges) \union {x}
    BY <2>1, <2>3, ListAppended
  <2> QED BY <2>2, <2>4, <1>5
<1>10. ASSUME NEW i \in DOMAIN nodes' PROVE Wishes(i)'
  <2>1. CASE i \in DOMAIN nodes
    BY <2>1, <1>2, <1>3, <1>5, <1>9, WishesStay DEF Asks, SameWishes
  <2>2. CASE i = id
    <3>1. SoundRecipe(Next1.name, recipe)
      <4>1. recipe \in Worlds[world].recipes[Next1.name] /\ Next1.name \in Name /\ world \in DOMAIN Worlds
        BY <1>1, <1>3, ExpansionIs DEF Added, IsRequirement, Shape
      <4> QED BY <4>1, RecipeIs
    <3>2. nodes'[id].name \notin DOMAIN nodes'[id].asks
      BY <3>1, <1>5 DEF SoundRecipe
    <3>3. \A e \in Range(nodes'[id].edges) : FALSE
      BY <1>5 DEF Range
    <3> QED BY <2>2, <3>2, <3>3, <1>5 DEF Wishes, EdgesRequired
  <2> QED BY <2>1, <2>2, <1>4
<1>11. \A l \in DOMAIN stack' : Passes(l)'
  BY <1>3, <1>6, <1>7, PassesOn DEF Asks
<1>12. ASSUME NEW i \in DOMAIN nodes', NEW j \in DOMAIN nodes' PROVE Answered(i, j)'
  <2>1. SUFFICES ASSUME Leads(nodes', i, j), nodes'[j].name \in DOMAIN nodes'[i].asks
                 PROVE  Given(i, j)' \/ Pending(i, j)'
    BY DEF Answered
  <2>2. CASE i = id
    BY <2>1, <2>2, <1>4, <1>10 DEF Wishes
  <2>3. CASE i # id /\ j = id
    <3>1. i \in DOMAIN nodes /\ Leads(nodes, i, at)
      BY <2>1, <2>3, <1>4, NodesAreGraph, GraphWays
    <3>2. IsFirst(n)
      BY <1>3, <1>8 DEF InOrder
    <3>3. PICK k \in 1 .. n : On(k) = i
      BY <3>1, <3>2, <1>3 DEF IsFirst
    <3> QED BY <2>1, <2>3, <3>3, <1>3, <1>4, <1>6, CallPends
  <2>4. CASE i # id /\ j # id
    <3>1. i \in DOMAIN nodes /\ j \in DOMAIN nodes /\ Leads(nodes, i, j)
      BY <2>1, <2>4, <1>4
    <3>2. nodes[j].name \in DOMAIN nodes[i].asks
      BY <2>1, <3>1, <1>5 DEF SameWishes
    <3>3. Given(i, j) \/ Pending(i, j)
      BY <3>1, <3>2 DEF Asks, Answered
    <3>4. Given(i, j) => Given(i, j)'
      BY <3>1, <1>5 DEF Given, SameWishes
    <3>5. Pending(i, j) => Pending(i, j)'
      <4>1. \A e \in Range(nodes[at].edges) : nodes[e.to].name # Next1.name
        BY <1>3, <1>8 DEF Shape, NodesShape, NodeShape
      <4> QED BY <3>1, <4>1, <1>2, <1>3, <1>4, <1>6, <1>7, StillPending
    <3> QED BY <3>3, <3>4, <3>5
  <2> QED BY <2>2, <2>3, <2>4
<1> QED BY <1>10, <1>11, <1>12 DEF Asks

LEMMA CloseDiamondAsks ==
    ASSUME Shape, Evaluations, InOrder, Neat, Asks, CloseDiamond
    PROVE  Asks'
<1>0. PICK n : n = Len(stack)
  OBVIOUS
<1>1. DiamondClosed /\ (BadOption(Previous) => MustRecurse(Previous))
  BY CloseDiamondDoes DEF CloseDiamond
<1>2. PICK id, at : id = Previous /\ at = Top.node
  OBVIOUS
<1>3. /\ Expanding /\ Top.left # <<>> /\ at \in DOMAIN nodes /\ at = On(n) /\ n \in DOMAIN stack
      /\ n \in Nat /\ DOMAIN stack = 1 .. n /\ Top = stack[n] /\ Expands(n)
      /\ id \in DOMAIN nodes /\ nodes[id].name = Next1.name
      /\ \A k \in DOMAIN stack : On(k) \in DOMAIN nodes
  BY <1>0, <1>2, PreviousIs, FramesAfter, StackIs DEF On, Top, Expanding, Expands
<1>4. /\ IsGraph(nodes') /\ DOMAIN nodes' = DOMAIN nodes
      /\ \A i \in DOMAIN nodes : \A j : Leads(nodes', i, j) <=>
           Leads(nodes, i, j) \/ (Leads(nodes, i, at) /\ Leads(nodes, id, j))
  BY <1>1, <1>2, <1>3, CloseDiamondWays
<1>5. /\ \A i \in DOMAIN nodes : SameWishes(i) /\ (i # at => nodes'[i].edges = nodes[i].edges)
      /\ nodes'[at].edges = Linked1(nodes[at].edges, id, Next1)
  BY <1>1, <1>2, <1>3 DEF DiamondClosed
<1>6. stack' = IF MustRecurse(Previous) THEN Append(Popped, Call(id, Top.reqs)) ELSE Popped
  BY <1>1, <1>2 DEF DiamondClosed
<1>7. EdgesKept
  BY <1>1, <1>2, <1>3, CloseDiamondKeeps
<1>8. ~Leads(nodes, id, at)
  BY <1>2, CloseDiamondInOrder DEF Neat
<1>9. \A e \in Range(nodes'[at].edges) : e \in Range(nodes[at].edges) \/ nodes'[e.to].name = Next1.name
  <2> DEFINE x == EdgeTo(id, Next1)
  <2>1. IsList(nodes[at].edges)
    BY <1>3 DEF Shape, NodesShape, NodeShape
  <2>2. x.to = id
    BY DEF EdgeTo
  <2>3. Range(nodes'[at].edges) \subseteq Range(nodes[at].edges) \union {x}
    BY <2>1, <1>5, LinkedIs
  <2>4. nodes'[id].name = Next1.name
    BY <1>3, <1>5 DEF SameWishes
  <2> HIDE DEF x
  <2> QED BY <2>2, <2>3, <2>4
<1>10. ASSUME NEW i \in DOMAIN nodes PROVE Wishes(i)'
  BY <1>2, <1>3, <1>5, <1>9, WishesStay DEF Asks, SameWishes
<1>11. \A l \in DOMAIN stack' : Passes(l)'
  BY <1>3, <1>6, <1>7, PassesOn DEF Asks
\* Whoever is on the way is answered for what the node links.
<1>12. ASSUME NEW i \in DOMAIN nodes, NEW k \in DOMAIN stack, On(k) = i,
              NEW j \in DOMAIN nodes, Leads(nodes, id, j), nodes[j].name \in DOMAIN nodes[i].asks
       PROVE  Given(i, j) \/ Pending(i, j)'
  <2>1. CASE MustRecurse(Previous)
    <3>1. Leads(nodes', id, j)
      BY <1>3, <1>4, <1>12
    <3> QED BY <2>1, <3>1, <1>3, <1>6, <1>12, CallPends
  <2>2. CASE ~MustRecurse(Previous)
    <3>1. PICK m : m = nodes[j].name
      OBVIOUS
    <3>2. m \in DOMAIN nodes[id].closure /\ nodes[id].closure[m] = j
      <4>1. m \in DOMAIN nodes[id].closure
        BY <3>1, <1>3, <1>12 DEF Neat, Known, ClosureIsAll
      <4> QED BY <3>1, <4>1, <1>3 DEF Shape, NodesShape, NodeShape, Neat, OnceEach
    <3>3. Passed(k, n, m)
      BY <3>1, <1>3, <1>12 DEF Asks, Passes
    <3>4. ~ \E h \in (k + 1) .. n : nodes[On(h)].name = m
      <4>1. ASSUME NEW h \in (k + 1) .. n, nodes[On(h)].name = m PROVE FALSE
        <5>1. h \in DOMAIN stack /\ On(h) = j
          <6>1. h \in DOMAIN stack
            BY <1>3, <1>12
          <6> QED BY <3>1, <4>1, <6>1, <1>3 DEF Neat, OnceEach
        <5>2. Leads(nodes, On(h), at)
          <6>1. CASE h = n
            BY <6>1, <1>3, NodesAreGraph, GraphWays
          <6>2. CASE h # n
            BY <5>1, <6>2, <1>3 DEF InOrder, PathHolds
          <6> QED BY <6>1, <6>2
        <5>3. Leads(nodes, id, at)
          BY <5>1, <5>2, <1>3, <1>12, NodesAreGraph, GraphWays
        <5> QED BY <5>3, <1>8
      <4> QED BY <4>1
    <3>5. m \in DOMAIN Top.asks /\ Top.asks[m] = nodes[i].asks[m]
      BY <3>3, <3>4, <1>3, <1>12 DEF Passed
    <3>6. ~OtherOption(id) /\ ~BadOption(id)
      BY <2>2, <1>1, <1>2 DEF MustRecurse
    <3>7. Top.asks[m] = nodes[j].option
      <4>1. Top.asks[m] \in nodes[j].recipe.allowed
        BY <3>2, <3>5, <3>6 DEF BadOption
      <4>2. Top.asks[m] \notin nodes[j].recipe.allowed \ {nodes[j].option}
        BY <3>2, <3>5, <3>6 DEF OtherOption
      <4> QED BY <4>1, <4>2
    <3> QED BY <3>1, <3>5, <3>7 DEF Given
  <2> QED BY <2>1, <2>2
<1>13. ASSUME NEW i \in DOMAIN nodes, NEW j \in DOMAIN nodes PROVE Answered(i, j)'
  <2>1. SUFFICES ASSUME Leads(nodes', i, j), nodes'[j].name \in DOMAIN nodes'[i].asks
                 PROVE  Given(i, j)' \/ Pending(i, j)'
    BY DEF Answered
  <2>2. nodes[j].name \in DOMAIN nodes[i].asks
    BY <2>1, <1>5 DEF SameWishes
  <2>3. Given(i, j) => Given(i, j)'
    BY <1>5 DEF Given, SameWishes
  <2>4. CASE Leads(nodes, i, j)
    <3>1. Given(i, j) \/ Pending(i, j)
      BY <2>2, <2>4 DEF Asks, Answered
    <3>2. ASSUME Pending(i, j) PROVE Given(i, j) \/ Pending(i, j)'
      <4>1. ASSUME NEW k \in DOMAIN stack, On(k) = i, NEW e \in Range(nodes[at].edges),
                   nodes[e.to].name = Next1.name, Leads(nodes, e.to, j)
            PROVE  Given(i, j) \/ Pending(i, j)'
        <5>1. e.to = id
          BY <4>1, <1>3 DEF Shape, NodesShape, NodeShape, Neat, OnceEach
        <5> QED BY <4>1, <5>1, <2>2, <1>12
      <4>2. \/ Pending(i, j)'
            \/ \E k \in DOMAIN stack : On(k) = i
                 /\ \E e \in Range(nodes[at].edges) :
                      nodes[e.to].name = Next1.name /\ Leads(nodes, e.to, j)
        BY <3>2, <1>2, <1>3, <1>4, <1>6, <1>7, StillPending
      <4> QED BY <4>1, <4>2
    <3> QED BY <2>3, <3>1, <3>2
  <2>5. CASE ~Leads(nodes, i, j)
    <3>1. Leads(nodes, i, at) /\ Leads(nodes, id, j)
      BY <2>1, <2>5, <1>4
    <3>2. CASE IsAgain(n)
      <4>1. PICK e \in Range(nodes[at].edges) : e.to \in DOMAIN nodes /\ nodes[e.to].name = Next1.name
        BY <3>2, <1>0, <1>2, <1>3, AgainHasEdge
      <4>2. e.to = id
        BY <4>1, <1>3 DEF Neat, OnceEach
      <4>3. Leads(nodes, at, id)
        BY <4>2, <1>3, NodesAreGraph, GraphWays
      <4> QED BY <2>5, <3>1, <4>3, <1>3, NodesAreGraph, GraphWays
    <3>3. CASE IsFirst(n)
      <4>1. PICK k \in 1 .. n : On(k) = i
        BY <3>1, <3>3, <1>3 DEF IsFirst
      <4> QED BY <2>2, <2>3, <3>1, <4>1, <1>3, <1>12
    <3> QED BY <3>2, <3>3, <1>3 DEF InOrder
  <2> QED BY <2>4, <2>5
<1> QED BY <1>4, <1>10, <1>11, <1>13 DEF Asks

LEMMA ReturnAsks ==
    ASSUME Shape, Asks, Return
    PROVE  Asks'
<1>0. PICK n : n = Len(stack)
  OBVIOUS
<1>1. /\ nodes' = nodes /\ stack' = Front(stack) /\ IsList(stack) /\ stack # <<>>
      /\ DOMAIN stack = 1 .. n /\ n \in Nat
      /\ stack[n].step = "expand" /\ stack[n].left = <<>>
  BY <1>0, StackIs DEF Return, Expanding, Top
<1>2. /\ \A k \in DOMAIN stack' : k \in DOMAIN stack /\ stack'[k] = stack[k]
      /\ \A k \in DOMAIN stack : k # n => k \in DOMAIN stack'
  <2>1. /\ DOMAIN stack' = 1 .. (n - 1)
        /\ \A k \in 1 .. (n - 1) : stack'[k] = stack[k]
    BY <1>0, <1>1, ListFront
  <2>2. /\ \A k \in 1 .. (n - 1) : k \in 1 .. n
        /\ \A k \in 1 .. n : k # n => k \in 1 .. (n - 1)
    BY <1>1
  <2> QED BY <1>1, <2>1, <2>2
<1>3. \A k \in DOMAIN stack' : On(k)' = On(k) /\ (Expands(k)' <=> Expands(k))
  BY <1>2 DEF On, Expands
<1>4. \A k \in DOMAIN stack' : \A l \in 1 .. k : l \in DOMAIN stack'
  <2>1. DOMAIN stack' = 1 .. (n - 1)
    BY <1>0, <1>1, ListFront
  <2> QED BY <2>1, <1>1
<1>5. ASSUME NEW i \in DOMAIN nodes PROVE Wishes(i)'
  BY <1>1 DEF Asks, Wishes, EdgesRequired
<1>6. ASSUME NEW l \in DOMAIN stack' PROVE Passes(l)'
  <2>1. l \in 1 .. l /\ \A k \in 1 .. l : \A h \in (k + 1) .. l : h \in 1 .. l
    BY <1>1, <1>2
  <2>2. \A k \in 1 .. l : On(k)' = On(k)
    BY <1>3, <1>4, <1>6
  <2>3. \A k \in 1 .. l : \A m : Passed(k, l, m)' <=> Passed(k, l, m)
    BY <2>1, <2>2, <1>1, <1>2, <1>6 DEF Passed
  <2>4. Passes(l)
    BY <1>2, <1>6 DEF Asks
  <2> QED BY <2>1, <2>2, <2>3, <2>4, <1>1, <1>2, <1>3, <1>6 DEF Passes
<1>7. ASSUME NEW i, NEW j, Pending(i, j) PROVE Pending(i, j)'
  <2>1. PICK k, l \in DOMAIN stack : k <= l /\ On(k) = i /\ Expands(k) /\ Reaches(l, j)
    BY <1>7 DEF Pending
  <2>2. l # n
    <3>1. ~Reaches(n, j)
      BY <1>1 DEF Reaches, Expands, Range
    <3> QED BY <2>1, <3>1
  <2>3. l \in DOMAIN stack' /\ k \in DOMAIN stack'
    <3>1. l \in DOMAIN stack' /\ k \in 1 .. l
      BY <2>1, <2>2, <1>1, <1>2
    <3> QED BY <3>1, <1>4
  <2>4. Reaches(l, j)'
    BY <2>1, <2>3, <1>1, <1>2, <1>3 DEF Reaches
  <2> QED BY <2>1, <2>3, <2>4, <1>3 DEF Pending
<1>8. ASSUME NEW i \in DOMAIN nodes, NEW j \in DOMAIN nodes PROVE Answered(i, j)'
  <2>1. Answered(i, j)
    BY DEF Asks
  <2>2. Given(i, j) => Given(i, j)'
    BY <1>1 DEF Given
  <2> QED BY <2>1, <2>2, <1>1, <1>7 DEF Answered
<1> QED BY <1>1, <1>5, <1>6, <1>8 DEF Asks

LEMMA NextAsks ==
    ASSUME Shape, Evaluations, Ordered, Neatness, Settled, AsksKept, [Next]_vars
    PROVE  AsksKept'
<1> SUFFICES ASSUME AllPublic' PROVE Asks'
  BY DEF AsksKept
<1>1. AllPublic /\ Neat /\ InOrder /\ Rooted /\ Asks /\ Unevaluated'
  BY PublicBefore DEF Neatness, Ordered, AllPublic, Neat, Settled, AsksKept
<1>2. CASE nodes' = nodes /\ stack' = stack
  BY <1>1, <1>2 DEF Asks, Wishes, EdgesRequired, Passes, Passed, Answered, Given, Pending, Reaches,
                    Expands, On
<1> QED BY <1>1, <1>2, FirstGraph, ConfigureAsks, AddNodeAsks, CloseDiamondAsks, ReturnAsks

\* What is decided and asked for, when the graph is finished.
LEMMA DecidedIsGiven ==
    ASSUME Shape, Real, Evaluations, Ordered, Neatness, Settled, BaseKept, AsksKept, AllPublic, Done
    PROVE  BaseDecides
<1>1. /\ stack = <<>> /\ 1 \in DOMAIN nodes /\ DOMAIN stack = {}
      /\ Neat /\ InOrder /\ BaseHolds /\ Asks
  BY DEF Shape, NodesShape, Done, Neatness, AllPublic, Neat, Ordered, BaseKept, AsksKept
<1>2. nodes[1].evaluated
  BY <1>1 DEF Evaluations, Evaluated, Awaited
<1>3. \A r \in Range(nodes[1].requires) : ~r.private => Decides(r)
  BY <1>1, <1>2 DEF BaseHolds
<1>4. Linked(1) \subseteq DOMAIN nodes
  BY <1>1, LinkedIsLed DEF Linked
<1>5. ASSUME NEW r \in Range(nodes[1].requires), NEW j \in Linked(1),
             ~r.private, nodes[j].name = r.name
      PROVE  nodes[j].version = r.version
  BY <1>3, <1>4, <1>5 DEF Decides
<1>6. ASSUME NEW i \in DOMAIN nodes, NEW m \in DOMAIN nodes[i].asks \cap DOMAIN nodes[i].closure
      PROVE  LET j == nodes[i].closure[m]
             IN  \/ nodes[i].asks[m] = nodes[j].option
                 \/ nodes[i].asks[m] = 0 \/ nodes[j].recipe.allowed = {}
                 \/ i # 1 /\ nodes[i].asks[m] = nodes[j].recipe.default
  <2>1. PICK j : j = nodes[i].closure[m]
    OBVIOUS
  <2>2. j \in DOMAIN nodes /\ nodes[j].name = m
    BY <2>1 DEF Shape, NodesShape, NodeShape
  <2>3. Leads(nodes, i, j)
    BY <2>1 DEF Real, ClosureIsReal
  <2>4. ~Pending(i, j)
    BY <1>1 DEF Pending
  <2>5. Given(i, j)
    BY <2>2, <2>3, <2>4, <1>1 DEF Asks, Answered
  <2> QED BY <2>1, <2>2, <2>5 DEF Given
<1>7. AskedIsGiven
  BY <1>6 DEF AskedIsGiven
<1> QED BY <1>5, <1>7 DEF BaseDecides

\* When no recipe has anything private, what the consumer requires or overrides decides
\* for all it links, however deep, and in whatever order it is reached
\* (graph_builder.py:190, requires.py: update), and what a node asks of the options of a
\* package that it links, the package is given, or the command ends (options.py:
\* propagate_upstream, graph_builder.py:232-247): for any recipes.
THEOREM ConsumerDecides == Spec => [](AllPublic => BaseDecides)
<1> DEFINE Inv == /\ Shape /\ Evaluations /\ Ordered /\ Neatness
                  /\ Settled /\ BaseKept /\ AsksKept
<1>1. Init => Inv
  <2>1. Init => Shape /\ Evaluations /\ Ordered /\ Settled
    BY InitShape, InitEvaluations, InitOrdered, InitSettled DEF Settled
  <2>2. Init => Neatness
    BY InitNeat DEF Neatness, AllPublic
  <2>3. Init => BaseKept /\ AsksKept
    BY InitBase, InitAsks DEF BaseKept, AsksKept
  <2> QED BY <2>1, <2>2, <2>3
<1>2. Inv /\ [Next]_vars => Inv'
  BY NextShape, NextEvaluations, NextOrdered, NextNeat, NextSettled, NextBase, NextAsks
<1>3. Inv /\ Real => (AllPublic => BaseDecides)
  BY DecidedIsGiven DEF BaseDecides
<1> HIDE DEF Inv
<1> QED BY <1>1, <1>2, <1>3, RealHolds, PTL DEF Spec
==============================================================================
