-------------------------- MODULE ServerStoreProofs --------------------------
(***************************************************************************)
(* What the server keeps of its promises, for any number of workers and    *)
(* revisions, with v1 clients or without: packages only beside their       *)
(* recipe; indexes in order, whatever requests overlap; and, while they do *)
(* not, indexes that list what is stored, no less and no more.             *)
(* And clients see every request take effect at once (KeepsPromise).       *)
(* The first invariant (IInv) assumes nothing of the indexes, which other  *)
(* requests may have left in any state; the second (ShapeInv) is of their  *)
(* entries and of the lists that workers hold; the third (StoreInv) relates*)
(* folders, indexes and the request in flight; the fourth (OrderInv) is of *)
(* the order that a list about to be written makes.                        *)
(***************************************************************************)
EXTENDS ServerStore, TLAPS, WellFoundedInduction

\* The entries of an index are of revisions in S; they are in the order of their times,
\* none of which is to come; and no two are of one revision.
EntryOf(S) == [revision : S, time : Nat]
InOrder(list) == \A i, j \in DOMAIN list : i < j => list[i].time <= list[j].time
ByNow(list, now) == \A i \in DOMAIN list : list[i].time <= now
Distinct(list) ==
    \A i, j \in DOMAIN list : list[i].revision = list[j].revision => i = j
----------------------------------------------------------------------------
(* What RevisionList computes. *)

LEMMA LeastNumber ==
    ASSUME NEW T \in SUBSET Nat, T # {}
    PROVE  \E n \in T : \A m \in T : n <= m
<1> DEFINE R == {pair \in Nat \X Nat : pair[1] < pair[2]}
<1>1. IsWellFoundedOn(R, Nat)
  BY NatLessThanWellFounded DEF OpToRel
<1> HIDE DEF R
<1>2. PICK n \in T : \A m \in T : ~(<<m, n>> \in R)
  BY <1>1, WFMin
<1>3. ASSUME NEW m \in T PROVE n <= m
  <2>1. ~(<<m, n>> \in R) /\ m \in Nat /\ n \in Nat
    BY <1>2
  <2>2. <<m, n>> \in Nat \X Nat /\ <<m, n>>[1] = m /\ <<m, n>>[2] = n
    BY <2>1
  <2>3. ~(m < n)
    BY <2>1, <2>2 DEF R
  <2> QED BY <2>1, <2>3
<1> QED BY <1>3

\* Positions of a sequence after its element at n is gone.
LEMMA RemovedAt ==
    ASSUME NEW S, NEW list \in Seq(S), NEW n \in 1..Len(list)
    PROVE  /\ RemoveAt(list, n) \in Seq(S) /\ Len(RemoveAt(list, n)) = Len(list) - 1
           /\ \A i \in 1..(Len(list) - 1) :
                RemoveAt(list, n)[i] = IF i < n THEN list[i] ELSE list[i + 1]
<1> DEFINE front == SubSeq(list, 1, n - 1)
           back == SubSeq(list, n + 1, Len(list))
<1>1. front \in Seq(S) /\ Len(front) = n - 1 /\ \A i \in 1..(n - 1) : front[i] = list[i]
  OBVIOUS
<1>2. /\ back \in Seq(S) /\ Len(back) = Len(list) - n
      /\ \A i \in 1..(Len(list) - n) : back[i] = list[i + n]
  OBVIOUS
<1>3. RemoveAt(list, n) = front \o back
  BY DEF RemoveAt
<1> HIDE DEF front, back
<1>4. front \o back \in Seq(S) /\ Len(front \o back) = Len(list) - 1
  BY <1>1, <1>2
<1>5. ASSUME NEW i \in 1..(Len(list) - 1)
      PROVE  (front \o back)[i] = IF i < n THEN list[i] ELSE list[i + 1]
  <2>1. CASE i < n
    BY <1>1, <1>2, <2>1
  <2>2. CASE ~(i < n)
    <3>1. (front \o back)[i] = back[i - (n - 1)] /\ i - (n - 1) \in 1..(Len(list) - n)
      BY <1>1, <1>2, <2>2
    <3>2. back[i - (n - 1)] = list[(i - (n - 1)) + n] /\ (i - (n - 1)) + n = i + 1
      BY <1>2, <3>1
    <3> QED BY <2>2, <3>1, <3>2
  <2> QED BY <2>1, <2>2
<1> QED BY <1>3, <1>4, <1>5

\* _find_revision_index finds the first entry.
LEMMA FindsFirst ==
    ASSUME NEW S, NEW list \in Seq(EntryOf(S)), NEW rev,
           NEW n, n = FindRevisionIndex(list, rev)
    PROVE  /\ n \in 0..Len(list)
           /\ n = 0 <=> rev \notin Revisions(list)
           /\ n # 0 => list[n].revision = rev
<1> DEFINE I == {i \in 1..Len(list) : list[i].revision = rev}
<1>1. n = IF I # {} THEN Min(I) ELSE 0
  BY DEF FindRevisionIndex, SelectInSeq
<1>2. I \in SUBSET Nat /\ DOMAIN list = 1..Len(list)
  OBVIOUS
<1>3. rev \in Revisions(list) <=> I # {}
  BY <1>2 DEF Revisions
<1>4. CASE I = {}
  BY <1>1, <1>3, <1>4
<1>5. CASE I # {}
  <2> HIDE DEF I
  <2>1. PICK m \in I : \A k \in I : m <= k
    BY <1>2, <1>5, LeastNumber
  <2>2. Min(I) \in I
    BY <2>1 DEF Min
  <2> QED BY <1>1, <1>3, <1>5, <2>2 DEF I
<1> QED BY <1>4, <1>5

\* An entry less: the others stay as they were, in their order.
LEMMA RemovedEntries ==
    ASSUME NEW S, NEW list \in Seq(EntryOf(S)), NEW n \in 1..Len(list), NEW now \in Nat,
           NEW rest, rest = RemoveAt(list, n)
    PROVE  /\ rest \in Seq(EntryOf(S)) /\ Len(rest) = Len(list) - 1
           /\ Revisions(rest) \subseteq Revisions(list)
           /\ Revisions(list) \subseteq Revisions(rest) \union {list[n].revision}
           /\ InOrder(list) => InOrder(rest)
           /\ ByNow(list, now) => ByNow(rest, now)
           /\ Distinct(list) => Distinct(rest) /\ list[n].revision \notin Revisions(rest)
<1> DEFINE old(i) == IF i < n THEN i ELSE i + 1
<1>1. /\ rest \in Seq(EntryOf(S)) /\ Len(rest) = Len(list) - 1
      /\ DOMAIN list = 1..Len(list) /\ DOMAIN rest = 1..(Len(list) - 1)
      /\ Len(list) \in Nat
  BY RemovedAt
<1>2. \A i \in DOMAIN rest : old(i) \in DOMAIN list /\ old(i) # n /\ rest[i] = list[old(i)]
  <2>1. \A i \in 1..(Len(list) - 1) : rest[i] = IF i < n THEN list[i] ELSE list[i + 1]
    BY RemovedAt
  <2>2. \A i \in DOMAIN rest : old(i) \in DOMAIN list /\ old(i) # n
    BY <1>1
  <2> QED BY <1>1, <2>1, <2>2
<1>3. \A i, j \in DOMAIN rest : /\ i < j <=> old(i) < old(j)
                                /\ old(i) = old(j) => i = j
  BY <1>1
<1>4. \A k \in DOMAIN list : k # n => \E i \in DOMAIN rest : old(i) = k
  <2> SUFFICES ASSUME NEW k \in DOMAIN list, k # n PROVE \E i \in DOMAIN rest : old(i) = k
    OBVIOUS
  <2>1. CASE k < n
    <3>1. k \in DOMAIN rest /\ old(k) = k
      BY <1>1, <2>1
    <3> QED BY <3>1
  <2>2. CASE k > n
    <3>1. (k - 1) \in DOMAIN rest /\ old(k - 1) = k
      BY <1>1, <2>2
    <3> QED BY <3>1
  <2> QED BY <1>1, <2>1, <2>2
<1> HIDE DEF old
<1>5. Revisions(rest) \subseteq Revisions(list)
  BY <1>2 DEF Revisions
<1>6. Revisions(list) \subseteq Revisions(rest) \union {list[n].revision}
  BY <1>2, <1>4 DEF Revisions
<1>7. InOrder(list) => InOrder(rest)
  BY <1>2, <1>3 DEF InOrder
<1>8. ByNow(list, now) => ByNow(rest, now)
  BY <1>2 DEF ByNow
<1>9. ASSUME Distinct(list) PROVE Distinct(rest) /\ list[n].revision \notin Revisions(rest)
  <2>1. Distinct(rest)
    BY <1>2, <1>3, <1>9 DEF Distinct
  <2>2. \A i \in DOMAIN rest : rest[i].revision # list[n].revision
    BY <1>1, <1>2, <1>9 DEF Distinct
  <2> QED BY <2>1, <2>2 DEF Revisions
<1> QED BY <1>1, <1>5, <1>6, <1>7, <1>8, <1>9

\* An entry more, of now.
LEMMA AppendedEntry ==
    ASSUME NEW S, NEW list \in Seq(EntryOf(S)), NEW rev \in S, NEW now \in Nat
    PROVE  LET more == Append(list, Entry(rev, now))
           IN  /\ more \in Seq(EntryOf(S))
               /\ \A x : x \in Revisions(more) <=> x \in Revisions(list) \/ x = rev
               /\ InOrder(list) /\ ByNow(list, now) => InOrder(more) /\ ByNow(more, now)
               /\ Distinct(list) /\ rev \notin Revisions(list) => Distinct(more)
<1> DEFINE more == Append(list, Entry(rev, now))
<1>0. Entry(rev, now) \in EntryOf(S)
  BY DEF Entry, EntryOf
<1>1. /\ more \in Seq(EntryOf(S)) /\ Len(more) = Len(list) + 1 /\ Len(list) \in Nat
      /\ DOMAIN list = 1..Len(list) /\ DOMAIN more = 1..(Len(list) + 1)
      /\ \A i \in DOMAIN list : more[i] = list[i]
      /\ more[Len(list) + 1] = Entry(rev, now)
  BY <1>0
<1> HIDE DEF more
<1>2. \A i \in DOMAIN more : i \in DOMAIN list \/ i = Len(list) + 1
  BY <1>1
<1>3. DOMAIN list \subseteq DOMAIN more /\ Len(list) + 1 \in DOMAIN more
  BY <1>1
<1>4. \A x : x \in Revisions(more) <=> x \in Revisions(list) \/ x = rev
  BY <1>1, <1>2, <1>3 DEF Revisions, Entry
<1>5. ASSUME InOrder(list), ByNow(list, now) PROVE InOrder(more) /\ ByNow(more, now)
  <2>1. ByNow(more, now)
    BY <1>1, <1>2, <1>5 DEF ByNow, Entry
  <2>2. ASSUME NEW i \in DOMAIN more, NEW j \in DOMAIN more, i < j
        PROVE  more[i].time <= more[j].time
    <3>1. i \in DOMAIN list
      BY <1>1, <2>2
    <3>2. CASE j \in DOMAIN list
      BY <1>1, <1>5, <2>2, <3>1, <3>2 DEF InOrder
    <3>3. CASE j = Len(list) + 1
      BY <1>1, <1>5, <3>1, <3>3 DEF ByNow, Entry
    <3> QED BY <1>2, <3>2, <3>3
  <2> QED BY <2>1, <2>2 DEF InOrder
<1>6. ASSUME Distinct(list), rev \notin Revisions(list) PROVE Distinct(more)
  <2>1. \A i \in DOMAIN list : list[i].revision # rev
    BY <1>6 DEF Revisions
  <2>2. ASSUME NEW i \in DOMAIN more, NEW j \in DOMAIN more,
               more[i].revision = more[j].revision
        PROVE  i = j
    BY <1>1, <1>2, <1>6, <2>1, <2>2 DEF Distinct, Entry
  <2> QED BY <2>2 DEF Distinct
<1> QED BY <1>1, <1>4, <1>5, <1>6 DEF more

\* What add_revision keeps of a list.
LEMMA AddKeeps ==
    ASSUME NEW S, NEW list \in Seq(EntryOf(S)), NEW rev \in S, NEW now \in Nat,
           NEW more, more = AddRevision(list, rev, now)
    PROVE  /\ more \in Seq(EntryOf(S))
           /\ \A x : x \in Revisions(more) <=> x \in Revisions(list) \/ x = rev
           /\ InOrder(list) /\ ByNow(list, now) => InOrder(more) /\ ByNow(more, now)
           /\ Distinct(list) /\ ~AddsSecondEntry(list, rev) => Distinct(more)
<1>1. CASE IsLatest(list, rev)
  <2>1. more = list
    BY <1>1 DEF AddRevision
  <2>2. rev \in Revisions(list)
    <3>1. Len(list) \in DOMAIN list /\ list[Len(list)].revision = rev
      BY <1>1 DEF IsLatest, Last
    <3> QED BY <3>1 DEF Revisions
  <2> QED BY <2>1, <2>2
<1>2. CASE ~IsLatest(list, rev)
  <2> DEFINE n == FindRevisionIndex(list, rev)
             rest == IF n > 1 THEN RemoveAt(list, n) ELSE list
  <2>1. /\ n \in 0..Len(list) /\ (n = 0 <=> rev \notin Revisions(list))
        /\ n # 0 => list[n].revision = rev
    BY FindsFirst
  <2>2. more = Append(rest, Entry(rev, now))
    BY <1>2 DEF AddRevision
  <2>3. AddsSecondEntry(list, rev) <=> n = 1
    BY <1>2 DEF AddsSecondEntry
  <2> HIDE DEF n
  <2>4. /\ rest \in Seq(EntryOf(S))
        /\ Revisions(rest) \union {rev} = Revisions(list) \union {rev}
        /\ InOrder(list) => InOrder(rest)
        /\ ByNow(list, now) => ByNow(rest, now)
        /\ Distinct(list) /\ n # 1 => Distinct(rest) /\ rev \notin Revisions(rest)
    <3>1. CASE n > 1
      <4>1. rest = RemoveAt(list, n) /\ n \in 1..Len(list) /\ list[n].revision = rev
        BY <2>1, <3>1
      <4> HIDE DEF rest
      <4> QED BY <4>1, RemovedEntries
    <3>2. CASE ~(n > 1)
      BY <2>1, <3>2
    <3> QED BY <3>1, <3>2
  <2> HIDE DEF rest
  <2>5. rest \in Seq(EntryOf(S))
    BY <2>4
  <2>6. more \in Seq(EntryOf(S))
    BY <2>2, <2>5, AppendedEntry
  <2>7. \A x : x \in Revisions(more) <=> x \in Revisions(rest) \/ x = rev
    BY <2>2, <2>5, AppendedEntry
  <2>8. InOrder(rest) /\ ByNow(rest, now) => InOrder(more) /\ ByNow(more, now)
    BY <2>2, <2>5, AppendedEntry
  <2>9. Distinct(rest) /\ rev \notin Revisions(rest) => Distinct(more)
    BY <2>2, <2>5, AppendedEntry
  <2> QED BY <2>3, <2>4, <2>6, <2>7, <2>8, <2>9
<1> QED BY <1>1, <1>2

\* What remove_revision keeps.
LEMMA RemoveKeeps ==
    ASSUME NEW S, NEW list \in Seq(EntryOf(S)), NEW rev, NEW now \in Nat,
           NEW less, less = RemoveRevision(list, rev)
    PROVE  /\ less \in Seq(EntryOf(S))
           /\ Revisions(less) \subseteq Revisions(list)
           /\ Revisions(list) \subseteq Revisions(less) \union {rev}
           /\ InOrder(list) => InOrder(less)
           /\ ByNow(list, now) => ByNow(less, now)
           /\ Distinct(list) => Distinct(less) /\ rev \notin Revisions(less)
<1> DEFINE n == FindRevisionIndex(list, rev)
<1>1. /\ n \in 0..Len(list) /\ (n = 0 <=> rev \notin Revisions(list))
      /\ n # 0 => list[n].revision = rev
  BY FindsFirst
<1>2. less = IF n = 0 THEN list ELSE RemoveAt(list, n)
  BY DEF RemoveRevision
<1> HIDE DEF n
<1>3. CASE n = 0
  BY <1>1, <1>2, <1>3
<1>4. CASE n # 0
  <2>1. less = RemoveAt(list, n) /\ n \in 1..Len(list) /\ list[n].revision = rev
    BY <1>1, <1>2, <1>4
  <2> QED BY <2>1, RemovedEntries
<1> QED BY <1>3, <1>4

\* as_list: the revisions of the entries, and each once if no two are of one revision.
LEMMA AsListIs ==
    ASSUME NEW S, NEW list \in Seq(EntryOf(S)), NEW revs, revs = AsList(list)
    PROVE  /\ revs \in Seq(S) /\ Len(revs) = Len(list)
           /\ {revs[i] : i \in DOMAIN revs} = Revisions(list)
           /\ Distinct(list) => \A i, j \in DOMAIN revs : revs[i] = revs[j] => i = j
<1> DEFINE names == [i \in DOMAIN list |-> list[i].revision]
           turned(i) == (Len(list) - i) + 1
<1>1. DOMAIN list = 1..Len(list) /\ Len(list) \in Nat
      /\ \A i \in DOMAIN list : list[i] \in EntryOf(S)
  OBVIOUS
<1>2. names \in Seq(S) /\ Len(names) = Len(list)
  BY <1>1 DEF EntryOf
<1>3. revs = [i \in 1..Len(list) |-> names[turned(i)]]
  BY <1>2 DEF AsList, Reverse
<1>4. \A i \in DOMAIN list : turned(i) \in DOMAIN list /\ turned(turned(i)) = i
  BY <1>1
<1>5. \A i, j \in DOMAIN list : turned(i) = turned(j) => i = j
  BY <1>1
<1> HIDE DEF turned
<1>6. \A i \in DOMAIN list : revs[i] = list[turned(i)].revision
  BY <1>1, <1>3, <1>4
<1>7. DOMAIN revs = DOMAIN list
  BY <1>1, <1>3
<1>8. revs \in Seq(S) /\ Len(revs) = Len(list)
  <2>1. \A i \in 1..Len(list) : names[turned(i)] \in S
    BY <1>1, <1>4 DEF EntryOf
  <2>2. revs \in [1..Len(list) -> S]
    BY <1>3, <2>1
  <2> QED BY <1>1, <2>2
<1>9. {revs[i] : i \in DOMAIN revs} = Revisions(list)
  BY <1>4, <1>6, <1>7 DEF Revisions
<1>10. ASSUME Distinct(list) PROVE \A i, j \in DOMAIN revs : revs[i] = revs[j] => i = j
  BY <1>4, <1>5, <1>6, <1>7, <1>10 DEF Distinct
<1> QED BY <1>8, <1>9, <1>10
----------------------------------------------------------------------------
(* What workers do, and the packages beside their recipes. *)

Fields == {"step", "kind", "at", "rev", "rrev", "prev", "list", "v1", "all", "todo"}
\* A worker has nothing to do, or a job with all of its fields.
Fits(j) ==
    \/ j = Idle
    \/ j = [x \in Fields |-> j[x]] /\ j.kind \in {"recipe", "package"}
JobsFit ==
    /\ job = [w \in Worker |-> job[w]]
    /\ \A w \in Worker : Fits(job[w])
PackagesFit == packages = [r \in AllRRev |-> packages[r]]

\* Requests have not overlapped.
OneAtATime ==
    "race" \notin spoiled => \A w, v \in Worker : ~IsIdle(w) /\ ~IsIdle(v) => w = v
\* A request that stores files of a package has found the recipe, and it is there yet.
StoresPackage(j) == j.step \in {"store", "look", "read", "write"} /\ j.kind = "package"
StoresBesideRecipe ==
    "race" \notin spoiled =>
        \A w \in Worker : StoresPackage(job[w]) => job[w].rrev \in recipe

IInv == JobsFit /\ PackagesFit /\ OneAtATime /\ StoresBesideRecipe /\ PackagesHaveRecipe
----------------------------------------------------------------------------
(* Jobs begin, go on and end. *)

LEMMA JobFits ==
    ASSUME NEW step, NEW kind \in {"recipe", "package"}, NEW at, NEW rev, NEW rrev, NEW prev
    PROVE  /\ Fits(Job(step, kind, at, rev, rrev, prev))
           /\ Job(step, kind, at, rev, rrev, prev).step = step
           /\ Job(step, kind, at, rev, rrev, prev).kind = kind
           /\ Job(step, kind, at, rev, rrev, prev).rrev = rrev
BY DEF Job, Fields, Fits

\* A field gets another value.
LEMMA FieldSet ==
    ASSUME NEW j, Fits(j), j.step # "idle", NEW x \in Fields \ {"kind"}, NEW value
    PROVE  /\ Fits([j EXCEPT ![x] = value])
           /\ [j EXCEPT ![x] = value][x] = value
           /\ [j EXCEPT ![x] = value].kind = j.kind
           /\ x # "step" => [j EXCEPT ![x] = value].step = j.step
           /\ x # "rrev" => [j EXCEPT ![x] = value].rrev = j.rrev
BY DEF Fits, Idle, Fields

\* What a step has to show of the worker that takes it, when it is busy already.
LEMMA BusyStep ==
    ASSUME IInv, NEW w \in Worker, ~IsIdle(w), NEW j, Fits(j),
           job' = [job EXCEPT ![w] = j], spoiled \subseteq spoiled', PackagesFit',
           "race" \notin spoiled /\ StoresPackage(j) => j.rrev \in recipe',
           "race" \notin spoiled =>
               \A r \in AllRRev : packages'[r] # {} => r \in recipe'
    PROVE  IInv'
<1>1. JobsFit' /\ job'[w] = j /\ \A v \in Worker \ {w} : job'[v] = job[v]
  BY DEF IInv, JobsFit
<1>2. ASSUME "race" \notin spoiled', NEW v \in Worker, v # w
      PROVE  job'[v].step = "idle"
  BY <1>1, <1>2 DEF IInv, OneAtATime, IsIdle
<1>3. OneAtATime'
  BY <1>2 DEF OneAtATime, IsIdle
<1>4. StoresBesideRecipe'
  BY <1>1, <1>2 DEF StoresBesideRecipe, StoresPackage
<1>5. PackagesHaveRecipe'
  BY DEF PackagesHaveRecipe
<1> QED
  BY <1>1, <1>3, <1>4, <1>5 DEF IInv

\* A job begins.  When another is under way, requests overlap from then on.
LEMMA BeginStep ==
    ASSUME IInv, NEW w \in Worker, NEW j, Fits(j), Begin(w, j), UNCHANGED files,
           StoresPackage(j) => j.rrev \in recipe
    PROVE  IInv'
<1>1. JobsFit' /\ job'[w] = j /\ \A v \in Worker \ {w} : job'[v] = job[v]
  BY DEF IInv, JobsFit, Begin
<1>2. "race" \notin spoiled' => Quiet /\ spoiled' = spoiled
  BY DEF Begin
<1>3. OneAtATime'
  BY <1>1, <1>2 DEF OneAtATime, Quiet, IsIdle
<1>4. StoresBesideRecipe'
  BY <1>1, <1>2 DEF IInv, StoresBesideRecipe, files
<1>5. PackagesFit' /\ PackagesHaveRecipe'
  BY <1>2 DEF IInv, PackagesFit, PackagesHaveRecipe, files
<1> QED
  BY <1>1, <1>3, <1>4, <1>5 DEF IInv

\* A removal that is one step: nobody else has a job, or requests overlap.
LEMMA AtOnce ==
    ASSUME IInv, UNCHANGED job, PackagesFit',
           spoiled' = (IF Quiet THEN spoiled ELSE spoiled \union {"race"}),
           PackagesHaveRecipe => PackagesHaveRecipe'
    PROVE  IInv'
<1>1. JobsFit'
  BY DEF IInv, JobsFit
<1>2. "race" \notin spoiled' => Quiet /\ spoiled' = spoiled
  OBVIOUS
<1>3. OneAtATime' /\ StoresBesideRecipe'
  BY <1>2 DEF OneAtATime, StoresBesideRecipe, StoresPackage, Quiet, IsIdle
<1> QED
  BY <1>1, <1>3 DEF IInv

\* A busy worker that leaves folders alone, and looks for no other recipe.
LEMMA MoveOn ==
    ASSUME IInv, NEW w \in Worker, ~IsIdle(w), NEW j, Fits(j),
           job' = [job EXCEPT ![w] = j], spoiled \subseteq spoiled',
           UNCHANGED <<recipe, packages>>,
           "race" \notin spoiled /\ StoresPackage(j) => j.rrev \in recipe
    PROVE  IInv'
<1>1. PackagesFit'
  BY DEF IInv, PackagesFit
<1>2. "race" \notin spoiled => \A r \in AllRRev : packages'[r] # {} => r \in recipe'
  BY DEF IInv, PackagesHaveRecipe
<1> QED
  BY <1>1, <1>2, BusyStep

LEMMA EndsFit == Fits(Idle) /\ ~StoresPackage(Idle)
BY DEF Fits, Idle, StoresPackage
----------------------------------------------------------------------------
(* Requests that add. *)

LEMMA UploadsBegin ==
    ASSUME IInv, NEW w \in Worker,
           PutRecipe(w) \/ PutPackage(w) \/ V1PutRecipe(w) \/ V1PutPackage(w)
    PROVE  IInv'
<1>1. CASE PutRecipe(w)
  BY <1>1, JobFits, BeginStep DEF PutRecipe, BeginUpload, StoresPackage
<1>2. CASE PutPackage(w)
  BY <1>2, JobFits, BeginStep DEF PutPackage, BeginUpload, StoresPackage
<1>3. ASSUME NEW kind \in {"recipe", "package"}, NEW at
      PROVE  Fits(V1Upload(kind, at)) /\ ~StoresPackage(V1Upload(kind, at))
  BY DEF V1Upload, Job, Fits, Fields, StoresPackage
<1>4. CASE V1PutRecipe(w) \/ V1PutPackage(w)
  BY <1>3, <1>4, BeginStep DEF V1PutRecipe, V1PutPackage, BeginUpload
<1> QED
  BY <1>1, <1>2, <1>4

LEMMA V1UrlsKeeps ==
    ASSUME IInv, NEW w \in Worker, V1Urls(w)
    PROVE  IInv'
<1>0. ~IsIdle(w) /\ Fits(job[w]) /\ UNCHANGED <<recipe, packages>> /\ spoiled \subseteq spoiled'
  BY DEF V1Urls, IsIdle, IInv, JobsFit, files
<1>1. CASE Finish(w)
  BY <1>0, <1>1, EndsFit, MoveOn DEF Finish
<1>2. CASE ~Finish(w)
  <2> DEFINE r == LatestOrZero(Root)
             b == LatestOrZero(r)
             j1 == [job[w] EXCEPT !.step = "look"]
             j2 == [j1 EXCEPT !.rrev = r]
             j3 == [j2 EXCEPT !.prev = b]
  <2>1. job' = [job EXCEPT ![w] = j3] /\ ~(job[w].kind = "package" /\ r \notin recipe)
    BY <1>2 DEF V1Urls
  <2>2. Fits(j3) /\ j3.kind = job[w].kind /\ j3.rrev = r
    <3> "step" \in Fields /\ "kind" \in Fields /\ "rrev" \in Fields /\ "prev" \in Fields
      BY DEF Fields
    <3>1. Fits(j1) /\ j1.step = "look" /\ j1.kind = job[w].kind
      BY <1>0, FieldSet DEF IsIdle
    <3> HIDE DEF j1
    <3>2. Fits(j2) /\ j2.step = "look" /\ j2.kind = job[w].kind /\ j2.rrev = r
      BY <3>1, FieldSet
    <3> HIDE DEF j2
    <3>3. Fits(j3) /\ j3.kind = j2.kind /\ j3.rrev = j2.rrev
      BY <3>2, FieldSet
    <3> QED
      BY <3>2, <3>3
  <2>3. StoresPackage(j3) => j3.rrev \in recipe
    BY <2>1, <2>2 DEF StoresPackage
  <2> HIDE DEF j3
  <2> QED
    BY <1>0, <2>1, <2>2, <2>3, MoveOn
<1> QED
  BY <1>1, <1>2

\* A job with another step, and perhaps another list.
LEMMA NextStep ==
    ASSUME IInv, NEW w \in Worker, ~IsIdle(w), NEW step, NEW j, j = [job[w] EXCEPT !.step = step]
    PROVE  Fits(j) /\ j.step = step /\ j.kind = job[w].kind /\ j.rrev = job[w].rrev
<1>1. "step" \in Fields /\ "kind" \in Fields /\ "rrev" \in Fields
  BY DEF Fields
<1> QED
  BY <1>1, FieldSet DEF IInv, JobsFit, IsIdle

LEMMA NextStepWith ==
    ASSUME IInv, NEW w \in Worker, ~IsIdle(w), NEW step, step # "idle", NEW entries,
           NEW j, j = [job[w] EXCEPT !.step = step],
           NEW k, k = [j EXCEPT !.list = entries]
    PROVE  Fits(k) /\ k.step = step /\ k.kind = job[w].kind /\ k.rrev = job[w].rrev
<1>1. Fits(j) /\ j.step = step /\ j.kind = job[w].kind /\ j.rrev = job[w].rrev
  BY NextStep
<1>2. "list" \in Fields \ {"kind"} /\ j.step # "idle"
  BY <1>1 DEF Fields
<1>3. Fits(k)
  BY <1>1, <1>2, FieldSet
<1>4. k.step = j.step
  BY <1>1, <1>2, FieldSet
<1>5. k.kind = j.kind
  BY <1>1, <1>2, FieldSet
<1>6. k.rrev = j.rrev
  BY <1>1, <1>2, FieldSet
<1> QED
  BY <1>1, <1>2, <1>3, <1>4, <1>5, <1>6

LEMMA StoreFileKeeps ==
    ASSUME IInv, NEW w \in Worker, StoreFile(w)
    PROVE  IInv'
<1>0. ~IsIdle(w) /\ job[w].step = "store" /\ UNCHANGED spoiled
  BY DEF StoreFile, IsIdle
<1>1. PICK j : Fits(j) /\ job' = [job EXCEPT ![w] = j]
               /\ (StoresPackage(j) => StoresPackage(job[w]) /\ j.rrev = job[w].rrev)
  <2>1. CASE job[w].v1
    BY <2>1, EndsFit DEF StoreFile, Finish
  <2>2. CASE ~job[w].v1
    <3> DEFINE j == [job[w] EXCEPT !.step = "look"]
    <3>1. Fits(j) /\ j.kind = job[w].kind /\ j.rrev = job[w].rrev
      BY <1>0, NextStep
    <3>2. job' = [job EXCEPT ![w] = j]
      BY <2>2 DEF StoreFile, Step
    <3> HIDE DEF j
    <3> QED
      BY <1>0, <3>1, <3>2 DEF StoresPackage
  <2> QED
    BY <2>1, <2>2
<1>2. PackagesFit'
  BY DEF IInv, PackagesFit, StoreFile
<1>3. "race" \notin spoiled => \A r \in AllRRev : packages'[r] # {} => r \in recipe'
  <2>1. CASE job[w].kind = "recipe"
    BY <2>1 DEF IInv, PackagesHaveRecipe, StoreFile
  <2>2. CASE job[w].kind # "recipe"
    <3>1. job[w].kind = "package"
      BY <1>0, <2>2 DEF IInv, JobsFit, Fits, IsIdle, Idle
    <3>2. "race" \notin spoiled => job[w].rrev \in recipe
      BY <1>0, <3>1 DEF IInv, StoresBesideRecipe, StoresPackage
    <3>3. UNCHANGED recipe /\ \A r \in AllRRev \ {job[w].rrev} : packages'[r] = packages[r]
      BY <2>2 DEF StoreFile, IInv, PackagesFit
    <3> QED
      BY <3>2, <3>3 DEF IInv, PackagesHaveRecipe
  <2> QED
    BY <2>1, <2>2
<1>4. "race" \notin spoiled /\ StoresPackage(j) => j.rrev \in recipe'
  BY <1>1 DEF IInv, StoresBesideRecipe, StoresPackage, StoreFile
<1> QED
  BY <1>0, <1>1, <1>2, <1>3, <1>4, BusyStep

LEMMA IndexUpdateKeeps ==
    ASSUME IInv, NEW w \in Worker, LookForIndex(w) \/ ReadIndex(w) \/ WriteIndex(w)
    PROVE  IInv'
<1>0. /\ ~IsIdle(w) /\ job[w].step \in {"look", "read", "write"}
      /\ UNCHANGED <<recipe, packages>> /\ spoiled \subseteq spoiled'
  BY DEF LookForIndex, ReadIndex, WriteIndex, IsIdle, files
<1>1. ASSUME NEW j, Fits(j), job' = [job EXCEPT ![w] = j], j.kind = job[w].kind,
             j.rrev = job[w].rrev
      PROVE  IInv'
  <2>1. "race" \notin spoiled /\ StoresPackage(j) => j.rrev \in recipe
    BY <1>0, <1>1 DEF IInv, StoresBesideRecipe, StoresPackage
  <2> QED
    BY <1>0, <1>1, <2>1, MoveOn
<1>2. CASE Finish(w)
  BY <1>0, <1>2, EndsFit, MoveOn DEF Finish
<1>3. ASSUME NEW step \in {"read", "store"}, Step(w, step)
      PROVE  IInv'
  BY <1>0, <1>1, <1>3, NextStep DEF Step
<1>4. ASSUME NEW entries, job' = [job EXCEPT ![w].step = "write", ![w].list = entries]
      PROVE  IInv'
  <2> DEFINE j == [job[w] EXCEPT !.step = "write"]
             k == [j EXCEPT !.list = entries]
  <2>1. Fits(k) /\ k.kind = job[w].kind /\ k.rrev = job[w].rrev
    <3>1. j = [job[w] EXCEPT !.step = "write"] /\ k = [j EXCEPT !.list = entries]
      OBVIOUS
    <3>2. "write" # "idle"
      OBVIOUS
    <3> HIDE DEF j, k
    <3>3. Fits(k)
      BY <1>0, <3>1, <3>2, NextStepWith
    <3>4. k.kind = job[w].kind
      BY <1>0, <3>1, <3>2, NextStepWith
    <3>5. k.rrev = job[w].rrev
      BY <1>0, <3>1, <3>2, NextStepWith
    <3> QED
      BY <3>3, <3>4, <3>5
  <2>2. job' = [job EXCEPT ![w] = k]
    BY <1>4
  <2> HIDE DEF k
  <2> QED
    BY <1>1, <2>1, <2>2
<1>5. CASE LookForIndex(w)
  BY <1>3, <1>4, <1>5 DEF LookForIndex
<1>6. CASE ReadIndex(w)
  BY <1>2, <1>4, <1>6 DEF ReadIndex
<1>7. CASE WriteIndex(w)
  BY <1>2, <1>3, <1>7 DEF WriteIndex
<1> QED
  BY <1>5, <1>6, <1>7

LEMMA AbandonKeeps ==
    ASSUME IInv, NEW w \in Worker, V1Abandon(w)
    PROVE  IInv'
BY EndsFit, MoveOn DEF V1Abandon, Finish, IsIdle, files
----------------------------------------------------------------------------
(* Requests that remove. *)

\* The jobs of a removal: none of their steps stores anything.
LEMMA RemovalFits ==
    ASSUME NEW r, NEW todo
    PROVE  LET one == RecipeRemoval(r)
               every == [RecipeRemoval(r) EXCEPT !.all = TRUE, !.todo = todo]
               purge == [Job("purge", "package", Zero, Zero, Zero, Zero) EXCEPT !.todo = todo]
           IN  /\ Fits(one) /\ ~StoresPackage(one)
               /\ Fits(every) /\ ~StoresPackage(every)
               /\ Fits(purge) /\ ~StoresPackage(purge)
BY DEF RecipeRemoval, Job, Fits, Fields, StoresPackage

LEMMA DeletesBegin ==
    ASSUME IInv, NEW w \in Worker,
           DeleteRecipe(w) \/ DeleteAllRRevs(w) \/ DeletePackage(w) \/ V1RemovePackages(w)
    PROVE  IInv'
<1>1. CASE DeleteRecipe(w)
  BY <1>1, RemovalFits, BeginStep DEF DeleteRecipe, BeginDelete
<1>2. CASE DeleteAllRRevs(w)
  BY <1>2, RemovalFits, BeginStep DEF DeleteAllRRevs, BeginDelete
<1>3. CASE DeletePackage(w)
  BY <1>3, JobFits, BeginStep DEF DeletePackage, BeginDelete, StoresPackage
<1>4. CASE V1RemovePackages(w)
  BY <1>4, RemovalFits, BeginStep DEF V1RemovePackages, BeginDelete
<1> QED
  BY <1>1, <1>2, <1>3, <1>4

LEMMA PurgeKeeps ==
    ASSUME IInv, NEW w \in Worker, V1PurgePackages(w)
    PROVE  IInv'
<1>0. ~IsIdle(w) /\ Fits(job[w]) /\ job[w].step = "purge" /\ UNCHANGED <<recipe, spoiled>>
  BY DEF V1PurgePackages, IsIdle, IInv, JobsFit
<1>1. PICK j : Fits(j) /\ ~StoresPackage(j) /\ job' = [job EXCEPT ![w] = j]
  <2>1. CASE Finish(w)
    BY <2>1, EndsFit DEF Finish
  <2>2. CASE ~Finish(w)
    <3> DEFINE j == [job[w] EXCEPT !.todo = Tail(job[w].todo)]
    <3>1. job' = [job EXCEPT ![w] = j]
      BY <2>2 DEF V1PurgePackages
    <3>2. "todo" \in Fields \ {"kind"} /\ job[w].step # "idle"
      BY <1>0 DEF Fields
    <3>3. Fits(j)
      BY <1>0, <3>2, FieldSet
    <3>4. j.step = job[w].step
      BY <1>0, <3>2, FieldSet
    <3> HIDE DEF j
    <3> QED
      BY <1>0, <3>1, <3>3, <3>4 DEF StoresPackage
  <2> QED
    BY <2>1, <2>2
<1>2. PackagesFit' /\ \A r \in AllRRev : packages'[r] \in {packages[r], {}}
  BY DEF V1PurgePackages, IInv, PackagesFit
<1>3. "race" \notin spoiled => \A r \in AllRRev : packages'[r] # {} => r \in recipe'
  BY <1>0, <1>2 DEF IInv, PackagesHaveRecipe
<1> QED
  BY <1>0, <1>1, <1>2, <1>3, BusyStep

LEMMA FoldersGoAtOnce ==
    ASSUME IInv, NEW w \in Worker, RemoveAllPackages(w) \/ RemoveReference(w)
    PROVE  IInv'
<1>1. CASE RemoveAllPackages(w)
  <2>1. UNCHANGED <<recipe, job>> /\ PackagesFit'
        /\ spoiled' = (IF Quiet THEN spoiled ELSE spoiled \union {"race"})
        /\ \A r \in AllRRev : packages'[r] \in {packages[r], {}}
    BY <1>1 DEF RemoveAllPackages, IInv, PackagesFit
  <2> QED
    BY <2>1, AtOnce DEF PackagesHaveRecipe
<1>2. CASE RemoveReference(w)
  <2>1. UNCHANGED job /\ PackagesFit'
        /\ spoiled' = (IF Quiet THEN spoiled ELSE spoiled \union {"race"})
        /\ \A r \in AllRRev : packages'[r] = {}
    BY <1>2 DEF RemoveReference, PackagesFit
  <2> QED
    BY <2>1, AtOnce DEF PackagesHaveRecipe
<1> QED
  BY <1>1, <1>2

LEMMA DropKeeps ==
    ASSUME IInv, NEW w \in Worker, DropFolder(w)
    PROVE  IInv'
<1>0. ~IsIdle(w) /\ UNCHANGED spoiled
  BY DEF DropFolder, IsIdle
<1>1. PICK j : Fits(j) /\ ~StoresPackage(j) /\ job' = [job EXCEPT ![w] = j]
  <2>1. CASE Finish(w)
    BY <2>1, EndsFit DEF Finish
  <2>2. CASE ~Finish(w)
    <3> DEFINE j == [job[w] EXCEPT !.step = "unread"]
    <3>1. job' = [job EXCEPT ![w] = j]
      BY <2>2 DEF DropFolder, Step
    <3>2. Fits(j)
      BY <1>0, NextStep
    <3>3. j.step = "unread"
      BY <1>0, NextStep
    <3> HIDE DEF j
    <3> QED
      BY <3>1, <3>2, <3>3 DEF StoresPackage
  <2> QED
    BY <2>1, <2>2
<1>2. /\ PackagesFit'
      /\ \A r \in AllRRev :
           packages'[r] # {} => packages[r] # {} /\ (r \in recipe => r \in recipe')
  <2>1. CASE UNCHANGED <<recipe, packages>>
    BY <2>1 DEF IInv, PackagesFit
  <2>2. CASE /\ recipe' = recipe \ {job[w].rrev}
             /\ packages' = [packages EXCEPT ![job[w].rrev] = {}]
    BY <2>2 DEF IInv, PackagesFit
  <2>3. CASE /\ recipe' = recipe
             /\ packages' = [packages EXCEPT ![job[w].rrev] = @ \ {job[w].prev}]
    BY <2>3 DEF IInv, PackagesFit
  <2> QED
    BY <2>1, <2>2, <2>3 DEF DropFolder, files
<1>3. "race" \notin spoiled => \A r \in AllRRev : packages'[r] # {} => r \in recipe'
  BY <1>2 DEF IInv, PackagesHaveRecipe
<1> QED
  BY <1>0, <1>1, <1>2, <1>3, BusyStep

LEMMA UnlistKeeps ==
    ASSUME IInv, NEW w \in Worker, UnlistRead(w) \/ UnlistWrite(w)
    PROVE  IInv'
<1>0. ~IsIdle(w) /\ UNCHANGED <<recipe, packages, spoiled>>
  BY DEF UnlistRead, UnlistWrite, IsIdle, files
<1>1. CASE Finish(w)
  BY <1>0, <1>1, EndsFit, MoveOn DEF Finish
<1>2. CASE Step(w, "sweep")
  <2> DEFINE j == [job[w] EXCEPT !.step = "sweep"]
  <2>1. job' = [job EXCEPT ![w] = j]
    BY <1>2 DEF Step
  <2>2. Fits(j) /\ ~StoresPackage(j)
    <3>1. Fits(j)
      BY <1>0, NextStep
    <3>2. j.step = "sweep"
      BY <1>0, NextStep
    <3> HIDE DEF j
    <3> QED
      BY <3>1, <3>2 DEF StoresPackage
  <2> HIDE DEF j
  <2> QED
    BY <1>0, <2>1, <2>2, MoveOn
<1>3. ASSUME NEW entries, job' = [job EXCEPT ![w].step = "unwrite", ![w].list = entries]
      PROVE  IInv'
  <2> DEFINE j == [job[w] EXCEPT !.step = "unwrite"]
             k == [j EXCEPT !.list = entries]
  <2>1. Fits(k) /\ ~StoresPackage(k)
    <3>1. j = [job[w] EXCEPT !.step = "unwrite"] /\ k = [j EXCEPT !.list = entries]
      OBVIOUS
    <3>2. "unwrite" # "idle"
      OBVIOUS
    <3> HIDE DEF j, k
    <3>3. Fits(k)
      BY <1>0, <3>1, <3>2, NextStepWith
    <3>4. k.step = "unwrite"
      BY <1>0, <3>1, <3>2, NextStepWith
    <3> QED
      BY <3>3, <3>4 DEF StoresPackage
  <2>2. job' = [job EXCEPT ![w] = k]
    BY <1>3
  <2> HIDE DEF k
  <2> QED
    BY <1>0, <2>1, <2>2, MoveOn
<1>4. CASE UnlistRead(w)
  BY <1>1, <1>3, <1>4 DEF UnlistRead
<1>5. CASE UnlistWrite(w)
  BY <1>1, <1>2, <1>5 DEF UnlistWrite
<1> QED
  BY <1>4, <1>5

LEMMA SweepKeeps ==
    ASSUME IInv, NEW w \in Worker, Sweep(w)
    PROVE  IInv'
<1>0. ~IsIdle(w) /\ UNCHANGED <<recipe, packages, spoiled>>
  BY DEF Sweep, IsIdle
<1>1. CASE Finish(w)
  BY <1>0, <1>1, EndsFit, MoveOn DEF Finish
<1>2. CASE ~Finish(w)
  <2> DEFINE j == [RecipeRemoval(Head(job[w].todo)) EXCEPT !.all = TRUE, !.todo = Tail(job[w].todo)]
  <2>1. job' = [job EXCEPT ![w] = j]
    BY <1>2 DEF Sweep
  <2>2. Fits(j) /\ ~StoresPackage(j)
    BY RemovalFits
  <2> HIDE DEF j
  <2> QED
    BY <1>0, <2>1, <2>2, MoveOn
<1> QED
  BY <1>1, <1>2
----------------------------------------------------------------------------

LEMMA InvInit ==
    ASSUME Init
    PROVE  IInv
BY DEF Init, IInv, JobsFit, Fits, Idle, IsIdle, PackagesFit, OneAtATime, StoresBesideRecipe,
       StoresPackage, PackagesHaveRecipe

LEMMA InvStep ==
    ASSUME IInv, [Next]_vars
    PROVE  IInv'
<1>1. CASE Tick \/ AtRest \/ UNCHANGED vars
  <2>1. UNCHANGED <<recipe, packages, job, spoiled>>
    BY <1>1 DEF Tick, AtRest, vars, files
  <2> QED
    BY <2>1 DEF IInv, JobsFit, PackagesFit, OneAtATime, IsIdle, StoresBesideRecipe,
                PackagesHaveRecipe
<1>2. ASSUME NEW w \in Worker,
             \/ PutRecipe(w) \/ PutPackage(w) \/ V1PutRecipe(w) \/ V1PutPackage(w)
             \/ V1Urls(w) \/ StoreFile(w) \/ LookForIndex(w) \/ ReadIndex(w) \/ WriteIndex(w)
             \/ V1Abandon(w)
      PROVE  IInv'
  BY <1>2, UploadsBegin, V1UrlsKeeps, StoreFileKeeps, IndexUpdateKeeps, AbandonKeeps
<1>3. ASSUME NEW w \in Worker,
             \/ DeleteRecipe(w) \/ DeleteAllRRevs(w) \/ DeletePackage(w)
             \/ V1RemovePackages(w) \/ V1PurgePackages(w)
             \/ RemoveAllPackages(w) \/ RemoveReference(w)
             \/ DropFolder(w) \/ UnlistRead(w) \/ UnlistWrite(w) \/ Sweep(w)
      PROVE  IInv'
  BY <1>3, DeletesBegin, PurgeKeeps, FoldersGoAtOnce, DropKeeps, UnlistKeeps, SweepKeeps
<1> QED
  BY <1>1, <1>2, <1>3 DEF Next

\* Packages are stored only beside their recipe: upload_package_file asks for its
\* folder first (service_v2.py 95), and whatever v1 and v2 clients send one after the
\* other, give up or remove, no package loses its recipe.
THEOREM PackagesStayBesideRecipe == Spec => []PackagesHaveRecipe
<1>1. Spec => []IInv
  BY InvInit, InvStep, PTL DEF Spec
<1>2. IInv => PackagesHaveRecipe
  BY DEF IInv
<1> QED
  BY <1>1, <1>2, PTL
----------------------------------------------------------------------------
(* The indexes, whatever requests do to them at the same time. *)

Indexes == {Root} \union AllRRev
RevsAt(i) == IF i = Root THEN AllRRev ELSE AllPRev
\* An index that is in the store, or that a worker has in its hands.
GoodList(i, list, now, once) ==
    /\ list \in Seq(EntryOf(RevsAt(i))) /\ InOrder(list) /\ ByNow(list, now)
    /\ once => Distinct(list)
ListedOnce == "relisted" \notin spoiled
IndexFits ==
    /\ index = [i \in Indexes |-> index[i]]
    /\ \A i \in Indexes : index[i] = NoIndex \/ GoodList(i, index[i], clock, ListedOnce)
    /\ clock \in Nat

\* Which folder and which index a job is about.
JobShape(j, now, once) ==
    /\ j.at \in Indexes /\ j.rev \in RevsAt(j.at) /\ j.rrev \in AllRRev
    /\ GoodList(j.at, j.list, now, once) /\ j.todo \in Seq(AllRRev)
    /\ j.at = Root <=> j.kind = "recipe"
    /\ ~j.v1 => IF j.kind = "recipe" THEN j.rrev = j.rev ELSE j.rrev = j.at /\ j.prev = j.rev
    /\ j.v1 => j.rev = Zero /\ j.at \in {Root, Zero}
                 /\ j.step \in {"urls", "look", "read", "write", "store"}
    /\ j.step = "urls" => j.v1
    /\ j.step \in {"sweep"} => j.kind = "recipe"
    /\ j.step = "purge" => j.todo # <<>>
    /\ j.todo # <<>> => j.all \/ j.step = "purge"
    /\ j.all => j.kind = "recipe" /\ j.step \in {"drop", "unread", "unwrite", "sweep"}
ShapeInv ==
    /\ IndexFits /\ recipe \subseteq AllRRev
    /\ \A w \in Worker : IsIdle(w) \/ JobShape(job[w], clock, ListedOnce)

\* What a field's change leaves of a job.
Carries(k, j) ==
    /\ k.kind = j.kind /\ k.at = j.at /\ k.rev = j.rev /\ k.v1 = j.v1 /\ k.all = j.all
    /\ k.todo = j.todo
WithStep(j, step) == [j EXCEPT !.step = step]
WithList(j, list) == [j EXCEPT !.list = list]
WithTodo(j, todo) == [j EXCEPT !.todo = todo]
WithFolder(j, step, rrev, prev) == [j EXCEPT !.step = step, !.rrev = rrev, !.prev = prev]
LEMMA OtherStep ==
    ASSUME NEW j, Fits(j), j.step # "idle", NEW step, NEW k, k = WithStep(j, step)
    PROVE  /\ Fits(k) /\ k.step = step /\ Carries(k, j)
           /\ k.rrev = j.rrev /\ k.prev = j.prev /\ k.list = j.list
<1>1. j = [x \in Fields |-> j[x]] /\ j.kind \in {"recipe", "package"}
  BY DEF Fits, Idle
<1>2. k = [x \in Fields |-> IF x = "step" THEN step ELSE j[x]]
  BY <1>1 DEF Fields, WithStep
<1> QED BY <1>1, <1>2 DEF Fits, Fields, Carries
LEMMA OtherList ==
    ASSUME NEW j, Fits(j), j.step # "idle", NEW list, NEW k, k = WithList(j, list)
    PROVE  /\ Fits(k) /\ k.step = j.step /\ Carries(k, j)
           /\ k.rrev = j.rrev /\ k.prev = j.prev /\ k.list = list
<1>1. j = [x \in Fields |-> j[x]] /\ j.kind \in {"recipe", "package"}
  BY DEF Fits, Idle
<1>2. k = [x \in Fields |-> IF x = "list" THEN list ELSE j[x]]
  BY <1>1 DEF Fields, WithList
<1> QED BY <1>1, <1>2 DEF Fits, Fields, Carries
LEMMA OtherTodo ==
    ASSUME NEW j, Fits(j), j.step # "idle", NEW todo, NEW k, k = WithTodo(j, todo)
    PROVE  /\ Fits(k) /\ k.step = j.step /\ k.kind = j.kind /\ k.at = j.at /\ k.rev = j.rev
           /\ k.v1 = j.v1 /\ k.all = j.all /\ k.todo = todo
           /\ k.rrev = j.rrev /\ k.prev = j.prev /\ k.list = j.list
<1>1. j = [x \in Fields |-> j[x]] /\ j.kind \in {"recipe", "package"}
  BY DEF Fits, Idle
<1>2. k = [x \in Fields |-> IF x = "todo" THEN todo ELSE j[x]]
  BY <1>1 DEF Fields, WithTodo
<1> QED BY <1>1, <1>2 DEF Fits, Fields, Carries
LEMMA OtherFolder ==
    ASSUME NEW j, Fits(j), j.step # "idle", NEW step, NEW rrev, NEW prev, NEW k,
           k = WithFolder(j, step, rrev, prev)
    PROVE  /\ Fits(k) /\ k.step = step /\ Carries(k, j)
           /\ k.rrev = rrev /\ k.prev = prev /\ k.list = j.list
<1>1. j = [x \in Fields |-> j[x]] /\ j.kind \in {"recipe", "package"}
  BY DEF Fits, Idle
<1>2. k = [x \in Fields |-> IF x = "step" THEN step ELSE IF x = "rrev" THEN rrev
                            ELSE IF x = "prev" THEN prev ELSE j[x]]
  BY <1>1 DEF Fields, WithFolder
<1> QED BY <1>1, <1>2 DEF Fits, Fields, Carries
----------------------------------------------------------------------------
(* The indexes stay in order. *)

\* Time goes on, and what counts as listed twice stays so.
LEMMA GoodStays ==
    ASSUME NEW i, NEW list, NEW now \in Nat, NEW later \in Nat, now <= later,
           NEW once, NEW still, still => once, GoodList(i, list, now, once)
    PROVE  GoodList(i, list, later, still)
<1>1. \A n \in DOMAIN list : list[n].time \in Nat
  <2>1. list \in Seq(EntryOf(RevsAt(i)))
    BY DEF GoodList
  <2>2. \A n \in DOMAIN list : list[n] \in EntryOf(RevsAt(i))
    BY <2>1
  <2> QED BY <2>2 DEF EntryOf
<1>2. ByNow(list, later)
  BY <1>1 DEF GoodList, ByNow
<1> QED BY <1>2 DEF GoodList

LEMMA ShapeStays ==
    ASSUME NEW j, NEW now \in Nat, NEW later \in Nat, now <= later,
           NEW once, NEW still, still => once, JobShape(j, now, once)
    PROVE  JobShape(j, later, still)
<1>1. GoodList(j.at, j.list, later, still)
  BY GoodStays DEF JobShape
<1> QED BY <1>1 DEF JobShape

\* Nothing is a good list of entries.
LEMMA EmptyIsGood ==
    ASSUME NEW i, NEW now, NEW once
    PROVE  GoodList(i, <<>>, now, once) /\ Revisions(<<>>) = {}
BY DEF GoodList, InOrder, ByNow, Distinct, Revisions

LEMMA IndexStays ==
    ASSUME IndexFits, UNCHANGED index, spoiled \subseteq spoiled', clock' \in Nat, clock <= clock'
    PROVE  IndexFits'
<1>1. ListedOnce' => ListedOnce
  BY DEF ListedOnce
<1>2. ASSUME NEW i \in Indexes, index[i] # NoIndex
      PROVE  GoodList(i, index[i], clock', ListedOnce')
  BY <1>1, <1>2, GoodStays DEF IndexFits
<1> QED BY <1>2 DEF IndexFits

\* An index is written or goes.
LEMMA IndexSet ==
    ASSUME IndexFits, NEW i \in Indexes, NEW v,
           v = NoIndex \/ GoodList(i, v, clock, ListedOnce),
           index' = [index EXCEPT ![i] = v], UNCHANGED <<clock, spoiled>>
    PROVE  IndexFits'
<1>1. /\ index' = [k \in Indexes |-> index'[k]] /\ index'[i] = v
      /\ \A k \in Indexes \ {i} : index'[k] = index[k]
  BY DEF IndexFits
<1> QED BY <1>1 DEF IndexFits, ListedOnce

\* A worker takes a step of its job.
LEMMA ShapeStep ==
    ASSUME JobsFit, ShapeInv, NEW w \in Worker, NEW k, job' = [job EXCEPT ![w] = k],
           k.step = "idle" \/ JobShape(k, clock', ListedOnce'),
           spoiled \subseteq spoiled', UNCHANGED clock, recipe' \subseteq AllRRev, IndexFits'
    PROVE  ShapeInv'
<1>1. job'[w] = k /\ \A v \in Worker \ {w} : job'[v] = job[v]
  BY DEF JobsFit
<1>2. clock \in Nat /\ clock' \in Nat /\ clock <= clock'
  BY DEF ShapeInv, IndexFits
<1>o. ListedOnce' => ListedOnce
  BY DEF ListedOnce
<1>3. ASSUME NEW v \in Worker, job'[v].step # "idle"
      PROVE  JobShape(job'[v], clock', ListedOnce')
  <2>1. CASE v = w
    BY <1>1, <1>3, <2>1
  <2>2. CASE v # w
    <3>1. JobShape(job[v], clock, ListedOnce) /\ job'[v] = job[v]
      BY <1>1, <1>3, <2>2 DEF ShapeInv, IsIdle
    <3> QED BY <1>2, <1>o, <3>1, ShapeStays
  <2> QED BY <2>1, <2>2
<1> QED BY <1>3 DEF ShapeInv, IsIdle

\* A job begins.
LEMMA ShapeBegin ==
    ASSUME JobsFit, ShapeInv, NEW w \in Worker, NEW k, Begin(w, k), UNCHANGED <<files, clock>>,
           JobShape(k, clock, ListedOnce)
    PROVE  ShapeInv'
<1>1. /\ job' = [job EXCEPT ![w] = k] /\ spoiled \subseteq spoiled'
      /\ ListedOnce' = ListedOnce
  BY DEF Begin, ListedOnce
<1>2. IndexFits'
  BY <1>1, IndexStays DEF ShapeInv, IndexFits, files
<1>3. k.step = "idle" \/ JobShape(k, clock', ListedOnce')
  BY <1>1
<1> QED BY <1>1, <1>2, <1>3, ShapeStep DEF ShapeInv, files

LEMMA JobBegins ==
    ASSUME NEW now, NEW once, NEW step \in {"store", "drop"}, NEW kind \in {"recipe", "package"},
           NEW at \in Indexes, NEW rev \in RevsAt(at), NEW rrev \in AllRRev, NEW prev,
           at = Root <=> kind = "recipe",
           IF kind = "recipe" THEN rrev = rev ELSE rrev = at /\ prev = rev
    PROVE  JobShape(Job(step, kind, at, rev, rrev, prev), now, once)
<1> DEFINE k == Job(step, kind, at, rev, rrev, prev)
<1>1. /\ k.step = step /\ k.kind = kind /\ k.at = at /\ k.rev = rev
      /\ k.rrev = rrev /\ k.prev = prev /\ k.list = <<>>
      /\ k.v1 = FALSE /\ k.all = FALSE /\ k.todo = <<>>
  BY DEF Job
<1> HIDE DEF k
<1>2. GoodList(at, <<>>, now, once) /\ <<>> \in Seq(AllRRev)
  BY EmptyIsGood
<1>3. JobShape(k, now, once)
  BY <1>1, <1>2 DEF JobShape
<1> QED BY <1>3 DEF k

LEMMA UploadsShape ==
    ASSUME IInv, ShapeInv, NEW w \in Worker,
           PutRecipe(w) \/ PutPackage(w) \/ V1PutRecipe(w) \/ V1PutPackage(w)
    PROVE  ShapeInv'
<1>0. JobsFit
  BY DEF IInv
<1>1. CASE PutRecipe(w)
  <2>1. PICK r \in RRev : BeginUpload(w, Job("store", "recipe", Root, r, r, Zero))
    BY <1>1 DEF PutRecipe
  <2>2. JobShape(Job("store", "recipe", Root, r, r, Zero), clock, ListedOnce)
    BY JobBegins DEF AllRRev, Indexes, RevsAt
  <2> QED BY <1>0, <2>1, <2>2, ShapeBegin DEF BeginUpload
<1>2. CASE PutPackage(w)
  <2>1. PICK r \in RRev, b \in PRev : BeginUpload(w, Job("store", "package", r, b, r, b))
    BY <1>2 DEF PutPackage
  <2>2. JobShape(Job("store", "package", r, b, r, b), clock, ListedOnce)
    <3>1. r \in AllRRev /\ b \in AllPRev /\ r # Root /\ r \in Indexes /\ b \in RevsAt(r)
      BY RootIsNoRevision DEF AllRRev, AllPRev, Indexes, RevsAt
    <3> QED BY <3>1, JobBegins
  <2> QED BY <1>0, <2>1, <2>2, ShapeBegin DEF BeginUpload
<1>3. ASSUME NEW kind \in {"recipe", "package"}, NEW at, kind = "recipe" => at = Root,
             kind = "package" => at = Zero
      PROVE  JobShape(V1Upload(kind, at), clock, ListedOnce)
  <2> DEFINE k == V1Upload(kind, at)
  <2>1. /\ k.step = "urls" /\ k.kind = kind /\ k.at = at /\ k.rev = Zero
        /\ k.rrev = Zero /\ k.prev = Zero /\ k.list = <<>>
        /\ k.v1 = TRUE /\ k.all = FALSE /\ k.todo = <<>>
    BY DEF V1Upload, Job
  <2> HIDE DEF k
  <2>2. /\ GoodList(at, <<>>, clock, ListedOnce) /\ <<>> \in Seq(AllRRev)
        /\ at \in Indexes /\ Zero \in RevsAt(at) /\ Zero \in AllRRev /\ Zero # Root
    BY <1>3, EmptyIsGood, RootIsNoRevision DEF Indexes, RevsAt, AllRRev, AllPRev
  <2>3. JobShape(k, clock, ListedOnce)
    BY <1>3, <2>1, <2>2 DEF JobShape
  <2> QED BY <2>3 DEF k
<1>4. CASE V1PutRecipe(w)
  BY <1>0, <1>3, <1>4, ShapeBegin DEF V1PutRecipe, BeginUpload
<1>5. CASE V1PutPackage(w)
  BY <1>0, <1>3, <1>5, ShapeBegin DEF V1PutPackage, BeginUpload
<1> QED BY <1>1, <1>2, <1>4, <1>5

\* The job of a busy worker.
LEMMA BusyJob ==
    ASSUME IInv, ShapeInv, NEW w \in Worker, ~IsIdle(w)
    PROVE  /\ Fits(job[w]) /\ job[w].step # "idle" /\ JobShape(job[w], clock, ListedOnce)
           /\ job[w].kind \in {"recipe", "package"} /\ JobsFit /\ IndexFits
           /\ job = [v \in Worker |-> job[v]]
BY DEF IInv, JobsFit, ShapeInv, IsIdle, Fits, Idle

\* The latest revision that the store lists is a revision, and listed.
LEMMA LatestIsListed ==
    ASSUME IndexFits, NEW i \in Indexes
    PROVE  /\ LatestOrZero(i) \in RevsAt(i)
           /\ LatestOrZero(i) \in Listed(i) \union {Zero}
<1>1. CASE index[i] = NoIndex \/ index[i] = <<>>
  BY <1>1 DEF LatestOrZero, RevsAt, AllRRev, AllPRev
<1>2. CASE ~(index[i] = NoIndex \/ index[i] = <<>>)
  <2> DEFINE list == index[i]
             n == Len(list)
  <2>1. list \in Seq(EntryOf(RevsAt(i))) /\ list # <<>>
    BY <1>2 DEF IndexFits, GoodList
  <2>2. n \in DOMAIN list /\ LatestOrZero(i) = list[n].revision
    BY <1>2, <2>1 DEF LatestOrZero, Last
  <2>3. list[n].revision \in RevsAt(i)
    <3>1. list[n] \in EntryOf(RevsAt(i))
      BY <2>1, <2>2
    <3> QED BY <2>2, <3>1 DEF EntryOf
  <2>4. list[n].revision \in Listed(i)
    BY <1>2, <2>2 DEF Listed, Revisions
  <2> QED BY <2>2, <2>3, <2>4
<1> QED BY <1>1, <1>2

\* The worker of a v1 client is given URLs, and any worker goes on without touching an index.
LEMMA StepShape ==
    ASSUME IInv, ShapeInv, NEW w \in Worker, ~IsIdle(w), NEW k, job' = [job EXCEPT ![w] = k],
           k.step = "idle" \/ JobShape(k, clock, ListedOnce'),
           spoiled \subseteq spoiled', UNCHANGED <<index, clock>>, recipe' \subseteq AllRRev
    PROVE  ShapeInv'
<1>1. IndexFits'
  BY IndexStays DEF ShapeInv, IndexFits
<1> QED BY <1>1, ShapeStep DEF IInv

LEMMA V1UrlsShape == ASSUME IInv, ShapeInv, NEW w \in Worker, V1Urls(w) PROVE ShapeInv'
<1>0. /\ ~IsIdle(w) /\ job[w].step = "urls"
      /\ UNCHANGED <<recipe, index, clock>> /\ recipe \subseteq AllRRev
  BY DEF V1Urls, IsIdle, files, Rest, ShapeInv
<1>s. spoiled' \in {spoiled, spoiled \union {"mixed"}}
  BY DEF V1Urls
<1>o. ListedOnce' = ListedOnce /\ spoiled \subseteq spoiled'
  BY <1>s DEF ListedOnce
<1>1. CASE Finish(w)
  BY <1>0, <1>o, <1>1, StepShape DEF Finish, Idle
<1>2. CASE ~Finish(w)
  <2> DEFINE r == LatestOrZero(Root)
             b == LatestOrZero(r)
             k == [job[w] EXCEPT !.step = "look", !.rrev = r, !.prev = b]
  <2>1. job' = [job EXCEPT ![w] = k]
    BY <1>2 DEF V1Urls
  <2>2. r \in AllRRev
    BY <1>0, LatestIsListed DEF ShapeInv, Indexes, RevsAt
  <2>f. Fits(job[w]) /\ job[w].step # "idle"
    BY <1>0, BusyJob
  <2> HIDE DEF r, b
  <2>k. k = WithFolder(job[w], "look", r, b)
    BY DEF WithFolder
  <2> HIDE DEF k
  <2>3. /\ k.step = "look" /\ Carries(k, job[w]) /\ k.rrev = r /\ k.list = job[w].list
    BY <2>f, <2>k, OtherFolder
  <2>4. JobShape(job[w], clock, ListedOnce) /\ job[w].v1
    BY <1>0, BusyJob DEF JobShape
  <2>5. JobShape(k, clock, ListedOnce')
    BY <1>0, <1>o, <2>2, <2>3, <2>4 DEF JobShape, Carries
  <2> QED BY <1>0, <1>o, <2>1, <2>5, StepShape
<1> QED BY <1>1, <1>2

\* A worker that only takes its next step, to a place that its kind of job has.
LEMMA NextShape ==
    ASSUME IInv, ShapeInv, NEW w \in Worker, ~IsIdle(w), NEW step, Step(w, step),
           job[w].v1 => step \in {"look", "read", "write", "store"},
           step # "urls", step = "sweep" => job[w].kind = "recipe",
           step = "purge" => job[w].step = "purge",
           job[w].step = "purge" => step = "purge",
           job[w].all => step \in {"drop", "unread", "unwrite", "sweep"}
    PROVE  \E k : /\ job' = [job EXCEPT ![w] = k] /\ JobShape(k, clock, ListedOnce)
                  /\ k.step = step
<1>1. Fits(job[w]) /\ job[w].step # "idle" /\ JobShape(job[w], clock, ListedOnce)
  BY BusyJob
<1> DEFINE k == [job[w] EXCEPT !.step = step]
<1>2. job' = [job EXCEPT ![w] = k]
  BY DEF Step
<1>k. k = WithStep(job[w], step)
  BY DEF WithStep
<1> HIDE DEF k
<1>3. k.step = step /\ Carries(k, job[w]) /\ k.rrev = job[w].rrev /\ k.prev = job[w].prev
      /\ k.list = job[w].list
  BY <1>1, <1>k, OtherStep
<1>4. JobShape(k, clock, ListedOnce)
  BY <1>1, <1>3 DEF JobShape, Carries
<1> QED BY <1>2, <1>3, <1>4

\* ... or takes it with another list in hand.
LEMMA ListShape ==
    ASSUME IInv, ShapeInv, NEW w \in Worker, ~IsIdle(w), NEW step, NEW list,
           job' = [job EXCEPT ![w].step = step, ![w].list = list], NEW once,
           once => ListedOnce, GoodList(job[w].at, list, clock, once),
           step \in {"write", "unwrite"}, job[w].v1 => step = "write",
           job[w].step # "purge", job[w].all => step = "unwrite"
    PROVE  \E k : /\ job' = [job EXCEPT ![w] = k] /\ JobShape(k, clock, once)
                  /\ k.step = step /\ k.list = list /\ Carries(k, job[w])
                  /\ k.rrev = job[w].rrev /\ k.prev = job[w].prev
<1>1. Fits(job[w]) /\ job[w].step # "idle" /\ JobShape(job[w], clock, ListedOnce)
  BY BusyJob
<1> DEFINE j == [job[w] EXCEPT !.step = step]
           k == [j EXCEPT !.list = list]
<1>2. job' = [job EXCEPT ![w] = k]
  OBVIOUS
<1>k. j = WithStep(job[w], step) /\ k = WithList(j, list)
  BY DEF WithStep, WithList
<1> HIDE DEF k, j
<1>3. /\ Fits(j) /\ j.step = step /\ Carries(j, job[w]) /\ j.rrev = job[w].rrev
      /\ j.prev = job[w].prev
  BY <1>1, <1>k, OtherStep
<1>4. /\ k.step = step /\ Carries(k, j) /\ k.rrev = j.rrev /\ k.prev = j.prev
      /\ k.list = list
  BY <1>3, <1>k, OtherList
<1>5. JobShape(k, clock, once)
  BY <1>1, <1>3, <1>4 DEF JobShape, Carries
<1>6. Carries(k, job[w]) /\ k.rrev = job[w].rrev /\ k.prev = job[w].prev
  BY <1>3, <1>4 DEF Carries
<1> QED BY <1>2, <1>4, <1>5, <1>6

LEMMA FinishShape ==
    ASSUME IInv, ShapeInv, NEW w \in Worker, ~IsIdle(w), Finish(w), spoiled \subseteq spoiled',
           UNCHANGED <<index, clock>>, recipe' \subseteq AllRRev
    PROVE  ShapeInv'
BY StepShape DEF Finish, Idle

LEMMA StoreShape == ASSUME IInv, ShapeInv, NEW w \in Worker, StoreFile(w) PROVE ShapeInv'
<1>0. ~IsIdle(w) /\ job[w].step = "store" /\ UNCHANGED <<index, clock, spoiled>>
  BY DEF StoreFile, IsIdle, Rest
<1>1. JobShape(job[w], clock, ListedOnce) /\ job[w].kind \in {"recipe", "package"}
  BY <1>0, BusyJob
<1>2. recipe' \subseteq AllRRev
  BY <1>1 DEF StoreFile, ShapeInv, JobShape
<1>3. CASE Finish(w)
  BY <1>0, <1>2, <1>3, FinishShape
<1>4. CASE Step(w, "look") /\ ~job[w].v1
  <2>1. PICK k : job' = [job EXCEPT ![w] = k] /\ JobShape(k, clock, ListedOnce)
    <3>1. ~job[w].all
      BY <1>0, <1>1 DEF JobShape
    <3> QED BY <1>0, <1>4, <3>1, NextShape
  <2>2. ListedOnce' = ListedOnce
    BY <1>0 DEF ListedOnce
  <2> QED BY <1>0, <1>2, <2>1, <2>2, StepShape
<1> QED BY <1>3, <1>4 DEF StoreFile

\* What a worker gets when it adds to a good list, or takes from one.
LEMMA AddIsGood ==
    ASSUME NEW i, NEW list, NEW rev \in RevsAt(i), NEW now \in Nat, NEW once, NEW still,
           GoodList(i, list, now, once), still => once /\ ~AddsSecondEntry(list, rev)
    PROVE  GoodList(i, AddRevision(list, rev, now), now, still)
<1>1. list \in Seq(EntryOf(RevsAt(i))) /\ InOrder(list) /\ ByNow(list, now)
      /\ (once => Distinct(list))
  BY DEF GoodList
<1> DEFINE more == AddRevision(list, rev, now)
<1>2. more = AddRevision(list, rev, now)
  OBVIOUS
<1> HIDE DEF more
<1>3. more \in Seq(EntryOf(RevsAt(i)))
  BY <1>1, <1>2, AddKeeps
<1>4. InOrder(more) /\ ByNow(more, now)
  BY <1>1, <1>2, AddKeeps
<1>5. Distinct(list) /\ ~AddsSecondEntry(list, rev) => Distinct(more)
  BY <1>1, <1>2, AddKeeps
<1>6. GoodList(i, more, now, still)
  BY <1>1, <1>3, <1>4, <1>5 DEF GoodList
<1> QED BY <1>2, <1>6

LEMMA FirstIsGood ==
    ASSUME NEW i, NEW rev \in RevsAt(i), NEW now \in Nat, NEW once
    PROVE  GoodList(i, AddRevision(<<>>, rev, now), now, once)
<1>1. GoodList(i, <<>>, now, TRUE)
  BY EmptyIsGood
<1>2. FindRevisionIndex(<<>>, rev) \in 0..Len(<<>>)
  <2>1. <<>> \in Seq(EntryOf(RevsAt(i)))
    OBVIOUS
  <2> QED BY <2>1, FindsFirst
<1>3. ~AddsSecondEntry(<<>>, rev)
  BY <1>2 DEF AddsSecondEntry
<1> QED BY <1>1, <1>3, AddIsGood

LEMMA RemoveIsGood ==
    ASSUME NEW i, NEW list, NEW rev, NEW now \in Nat, NEW once, GoodList(i, list, now, once)
    PROVE  GoodList(i, RemoveRevision(list, rev), now, once)
<1>1. list \in Seq(EntryOf(RevsAt(i))) /\ InOrder(list) /\ ByNow(list, now)
      /\ (once => Distinct(list))
  BY DEF GoodList
<1> DEFINE less == RemoveRevision(list, rev)
<1>2. less = RemoveRevision(list, rev)
  OBVIOUS
<1> HIDE DEF less
<1>3. less \in Seq(EntryOf(RevsAt(i)))
  BY <1>1, <1>2, RemoveKeeps
<1>4. InOrder(less) /\ ByNow(less, now) /\ (once => Distinct(less))
  BY <1>1, <1>2, RemoveKeeps
<1>5. GoodList(i, less, now, once)
  BY <1>3, <1>4 DEF GoodList
<1> QED BY <1>2, <1>5

LEMMA LookShape == ASSUME IInv, ShapeInv, NEW w \in Worker, LookForIndex(w) PROVE ShapeInv'
<1>0. /\ ~IsIdle(w) /\ job[w].step = "look" /\ UNCHANGED <<recipe, index, clock, spoiled>>
      /\ recipe' \subseteq AllRRev /\ clock \in Nat
  BY DEF LookForIndex, IsIdle, files, Rest, ShapeInv, IndexFits
<1>1. JobShape(job[w], clock, ListedOnce) /\ ~job[w].all
  <2>1. JobShape(job[w], clock, ListedOnce)
    BY <1>0, BusyJob
  <2> QED BY <1>0, <2>1 DEF JobShape
<1>2. ListedOnce' = ListedOnce
  BY <1>0 DEF ListedOnce
<1>3. PICK k : job' = [job EXCEPT ![w] = k] /\ JobShape(k, clock, ListedOnce)
  <2>1. CASE Step(w, "read")
    BY <1>0, <1>1, <2>1, NextShape
  <2>2. CASE ~Step(w, "read")
    <3> DEFINE list == AddRevision(<<>>, job[w].rev, clock)
    <3>1. job' = [job EXCEPT ![w].step = "write", ![w].list = list]
      BY <2>2 DEF LookForIndex
    <3>2. GoodList(job[w].at, list, clock, ListedOnce')
      <4>1. job[w].rev \in RevsAt(job[w].at)
        BY <1>1 DEF JobShape
      <4> QED BY <1>0, <4>1, FirstIsGood
    <3> HIDE DEF list
    <3>3. PICK k : job' = [job EXCEPT ![w] = k] /\ JobShape(k, clock, ListedOnce')
      BY <1>0, <1>1, <1>2, <3>1, <3>2, ListShape
    <3> QED BY <1>2, <3>3
  <2> QED BY <2>1, <2>2
<1> QED BY <1>0, <1>2, <1>3, StepShape

LEMMA ReadShape == ASSUME IInv, ShapeInv, NEW w \in Worker, ReadIndex(w) PROVE ShapeInv'
<1>0. /\ ~IsIdle(w) /\ job[w].step = "read" /\ UNCHANGED <<recipe, index, clock>>
      /\ recipe' \subseteq AllRRev /\ clock \in Nat /\ spoiled \subseteq spoiled'
  BY DEF ReadIndex, IsIdle, files, Rest, ShapeInv, IndexFits
<1>1. JobShape(job[w], clock, ListedOnce) /\ ~job[w].all /\ IndexFits
  <2>1. JobShape(job[w], clock, ListedOnce) /\ IndexFits
    BY <1>0, BusyJob
  <2> QED BY <1>0, <2>1 DEF JobShape
<1>2. CASE Finish(w)
  BY <1>0, <1>2, FinishShape
<1>3. CASE ~Finish(w)
  <2> DEFINE old == index[job[w].at]
             list == AddRevision(old, job[w].rev, clock)
  <2>1. /\ job' = [job EXCEPT ![w].step = "write", ![w].list = list] /\ old # NoIndex
        /\ spoiled' = IF AddsSecondEntry(old, job[w].rev)
                      THEN spoiled \union {"relisted"} ELSE spoiled
    BY <1>3 DEF ReadIndex
  <2>2. GoodList(job[w].at, list, clock, ListedOnce')
    <3>1. job[w].rev \in RevsAt(job[w].at) /\ job[w].at \in Indexes
      BY <1>1 DEF JobShape
    <3>2. GoodList(job[w].at, old, clock, ListedOnce)
      BY <1>1, <2>1, <3>1 DEF IndexFits
    <3>3. ListedOnce' => ListedOnce /\ ~AddsSecondEntry(old, job[w].rev)
      BY <2>1 DEF ListedOnce
    <3> HIDE DEF old
    <3> QED BY <1>0, <3>1, <3>2, <3>3, AddIsGood
  <2> HIDE DEF old, list
  <2>3. ListedOnce' => ListedOnce
    BY <1>0 DEF ListedOnce
  <2>4. PICK k : job' = [job EXCEPT ![w] = k] /\ JobShape(k, clock, ListedOnce')
    BY <1>0, <1>1, <2>1, <2>2, <2>3, ListShape
  <2> QED BY <1>0, <2>4, StepShape
<1> QED BY <1>2, <1>3

\* A step that writes the index of the job, or makes it go.
LEMMA WritingShape ==
    ASSUME IInv, ShapeInv, NEW w \in Worker, ~IsIdle(w), NEW k, job' = [job EXCEPT ![w] = k],
           k.step = "idle" \/ JobShape(k, clock, ListedOnce),
           NEW i \in Indexes, NEW v, v = NoIndex \/ GoodList(i, v, clock, ListedOnce),
           index' = [index EXCEPT ![i] = v], UNCHANGED <<clock, spoiled>>,
           recipe' \subseteq AllRRev
    PROVE  ShapeInv'
<1>1. IndexFits'
  BY IndexSet DEF ShapeInv
<1>2. ListedOnce' = ListedOnce
  BY DEF ListedOnce
<1> QED BY <1>1, <1>2, ShapeStep DEF IInv

LEMMA WriteShape == ASSUME IInv, ShapeInv, NEW w \in Worker, WriteIndex(w) PROVE ShapeInv'
<1>0. /\ ~IsIdle(w) /\ job[w].step = "write" /\ UNCHANGED <<recipe, clock, spoiled>>
      /\ recipe' \subseteq AllRRev
      /\ index' = [index EXCEPT ![job[w].at] = job[w].list]
  BY DEF WriteIndex, IsIdle, Rest, ShapeInv
<1>1. JobShape(job[w], clock, ListedOnce) /\ ~job[w].all
  <2>1. JobShape(job[w], clock, ListedOnce)
    BY <1>0, BusyJob
  <2> QED BY <1>0, <2>1 DEF JobShape
<1>2. job[w].at \in Indexes /\ GoodList(job[w].at, job[w].list, clock, ListedOnce)
  BY <1>1 DEF JobShape
<1>3. \E k : /\ job' = [job EXCEPT ![w] = k]
             /\ k.step = "idle" \/ JobShape(k, clock, ListedOnce)
  <2>1. CASE Finish(w)
    <3>1. job' = [job EXCEPT ![w] = Idle] /\ Idle.step = "idle"
      BY <2>1 DEF Finish, Idle
    <3> QED BY <3>1
  <2>2. CASE Step(w, "store")
    BY <1>0, <1>1, <2>2, NextShape
  <2> QED BY <2>1, <2>2 DEF WriteIndex
<1> QED BY <1>0, <1>2, <1>3, WritingShape

LEMMA AbandonShape == ASSUME IInv, ShapeInv, NEW w \in Worker, V1Abandon(w) PROVE ShapeInv'
<1>1. /\ ~IsIdle(w) /\ Finish(w) /\ spoiled \subseteq spoiled'
      /\ UNCHANGED <<index, clock>> /\ recipe' \subseteq AllRRev
  BY DEF V1Abandon, IsIdle, files, Rest, ShapeInv
<1> QED BY <1>1, FinishShape

\* The removal of one revision of the recipe, or of it and of more.
LEMMA RemovalShape ==
    ASSUME NEW r \in AllRRev, NEW todo \in Seq(AllRRev), NEW now, NEW once
    PROVE  /\ JobShape(RecipeRemoval(r), now, once)
           /\ JobShape([RecipeRemoval(r) EXCEPT !.all = TRUE, !.todo = todo], now, once)
<1>0. r \in RevsAt(Root) /\ Root \in Indexes
  BY DEF RevsAt, Indexes
<1>1. JobShape(RecipeRemoval(r), now, once)
  BY <1>0, JobBegins DEF RecipeRemoval
<1> DEFINE k == [RecipeRemoval(r) EXCEPT !.all = TRUE, !.todo = todo]
<1>2. /\ k.step = "drop" /\ k.kind = "recipe" /\ k.at = Root /\ k.rev = r /\ k.rrev = r
      /\ k.list = <<>> /\ k.v1 = FALSE /\ k.all = TRUE /\ k.todo = todo
  BY DEF RecipeRemoval, Job
<1> HIDE DEF k
<1>3. GoodList(Root, <<>>, now, once)
  BY EmptyIsGood
<1>4. JobShape(k, now, once)
  BY <1>0, <1>2, <1>3 DEF JobShape
<1> QED BY <1>1, <1>4 DEF k

LEMMA PurgeBegins ==
    ASSUME NEW todo \in Seq(AllRRev), todo # <<>>, NEW now, NEW once
    PROVE  JobShape([Job("purge", "package", Zero, Zero, Zero, Zero) EXCEPT !.todo = todo],
                    now, once)
<1> DEFINE k == [Job("purge", "package", Zero, Zero, Zero, Zero) EXCEPT !.todo = todo]
<1>1. /\ k.step = "purge" /\ k.kind = "package" /\ k.at = Zero /\ k.rev = Zero
      /\ k.rrev = Zero /\ k.prev = Zero
      /\ k.list = <<>> /\ k.v1 = FALSE /\ k.all = FALSE /\ k.todo = todo
  BY DEF Job
<1> HIDE DEF k
<1>2. /\ GoodList(Zero, <<>>, now, once) /\ Zero \in Indexes /\ Zero # Root
      /\ Zero \in RevsAt(Zero) /\ Zero \in AllRRev
  BY EmptyIsGood, RootIsNoRevision DEF Indexes, RevsAt, AllRRev, AllPRev
<1>3. JobShape(k, now, once)
  BY <1>1, <1>2 DEF JobShape
<1> QED BY <1>3 DEF k

\* The revisions of the recipes that the server lists.
LEMMA RevsOfRoot ==
    ASSUME IndexFits, index[Root] \notin {NoIndex, <<>>}
    PROVE  LET revs == AsList(index[Root])
           IN  revs \in Seq(AllRRev) /\ revs # <<>> /\ Head(revs) \in AllRRev
               /\ Tail(revs) \in Seq(AllRRev)
<1> DEFINE revs == AsList(index[Root])
           list == index[Root]
<1>1. list \in Seq(EntryOf(AllRRev)) /\ list # <<>>
  BY DEF IndexFits, GoodList, Indexes, RevsAt
<1>2. revs = AsList(list)
  OBVIOUS
<1> HIDE DEF revs, list
<1>3. revs \in Seq(AllRRev) /\ Len(revs) = Len(list)
  BY <1>1, <1>2, AsListIs
<1>4. revs # <<>>
  BY <1>1, <1>3
<1>5. Head(revs) \in AllRRev /\ Tail(revs) \in Seq(AllRRev)
  BY <1>3, <1>4
<1> QED BY <1>3, <1>4, <1>5 DEF revs

LEMMA DeletesShape ==
    ASSUME IInv, ShapeInv, NEW w \in Worker,
           DeleteRecipe(w) \/ DeleteAllRRevs(w) \/ DeletePackage(w) \/ V1RemovePackages(w)
    PROVE  ShapeInv'
<1>0. JobsFit /\ IndexFits
  BY DEF IInv, ShapeInv
<1>1. CASE DeleteRecipe(w)
  <2>1. PICK r \in AllRRev : BeginDelete(w, RecipeRemoval(r))
    BY <1>1 DEF DeleteRecipe
  <2>2. JobShape(RecipeRemoval(r), clock, ListedOnce)
    <3>1. <<>> \in Seq(AllRRev)
      OBVIOUS
    <3> QED BY <3>1, RemovalShape
  <2> QED BY <1>0, <2>1, <2>2, ShapeBegin DEF BeginDelete
<1>2. CASE DeleteAllRRevs(w)
  <2> DEFINE revs == AsList(index[Root])
             k == [RecipeRemoval(Head(revs)) EXCEPT !.all = TRUE, !.todo = Tail(revs)]
  <2>1. index[Root] \notin {NoIndex, <<>>} /\ BeginDelete(w, k)
    BY <1>2 DEF DeleteAllRRevs
  <2>2. Head(revs) \in AllRRev /\ Tail(revs) \in Seq(AllRRev)
    BY <1>0, <2>1, RevsOfRoot
  <2>3. JobShape(k, clock, ListedOnce)
    <3> HIDE DEF revs
    <3> QED BY <2>2, RemovalShape
  <2> HIDE DEF k
  <2> QED BY <1>0, <2>1, <2>3, ShapeBegin DEF BeginDelete
<1>3. CASE DeletePackage(w)
  <2>1. PICK r \in AllRRev, b \in AllPRev :
               BeginDelete(w, Job("drop", "package", r, b, r, b))
    BY <1>3 DEF DeletePackage
  <2>2. JobShape(Job("drop", "package", r, b, r, b), clock, ListedOnce)
    <3>1. r # Root /\ r \in Indexes /\ b \in RevsAt(r)
      BY RootIsNoRevision DEF AllRRev, Indexes, RevsAt
    <3> QED BY <3>1, JobBegins
  <2> QED BY <1>0, <2>1, <2>2, ShapeBegin DEF BeginDelete
<1>4. CASE V1RemovePackages(w)
  <2> DEFINE revs == AsList(index[Root])
             k == [Job("purge", "package", Zero, Zero, Zero, Zero) EXCEPT !.todo = revs]
  <2>1. index[Root] \notin {NoIndex, <<>>} /\ BeginDelete(w, k)
    BY <1>4 DEF V1RemovePackages
  <2>2. revs \in Seq(AllRRev) /\ revs # <<>>
    BY <1>0, <2>1, RevsOfRoot
  <2>3. JobShape(k, clock, ListedOnce)
    <3> HIDE DEF revs
    <3> QED BY <2>2, PurgeBegins
  <2> HIDE DEF k
  <2> QED BY <1>0, <2>1, <2>3, ShapeBegin DEF BeginDelete
<1> QED BY <1>1, <1>2, <1>3, <1>4

LEMMA PurgeShape == ASSUME IInv, ShapeInv, NEW w \in Worker, V1PurgePackages(w) PROVE ShapeInv'
<1>0. /\ ~IsIdle(w) /\ job[w].step = "purge" /\ UNCHANGED <<recipe, clock, spoiled>>
      /\ recipe' \subseteq AllRRev
  BY DEF V1PurgePackages, IsIdle, Rest, ShapeInv
<1>1. JobShape(job[w], clock, ListedOnce) /\ Fits(job[w])
  BY <1>0, BusyJob
<1>2. job[w].todo \in Seq(AllRRev) /\ job[w].todo # <<>>
  BY <1>0, <1>1 DEF JobShape
<1>3. CASE UNCHANGED index /\ Finish(w)
  BY <1>0, <1>3, FinishShape
<1>4. CASE ~(UNCHANGED index /\ Finish(w))
  <2> DEFINE r == Head(job[w].todo)
  <2>1. r \in Indexes
    BY <1>2 DEF Indexes
  <2>2. index' = [index EXCEPT ![r] = NoIndex]
    BY <1>4 DEF V1PurgePackages
  <2>3. \E k : /\ job' = [job EXCEPT ![w] = k]
               /\ k.step = "idle" \/ JobShape(k, clock, ListedOnce)
    <3>1. CASE Finish(w)
      <4>1. job' = [job EXCEPT ![w] = Idle] /\ Idle.step = "idle"
        BY <3>1 DEF Finish, Idle
      <4> QED BY <4>1
    <3>2. CASE ~Finish(w)
      <4> DEFINE todo == Tail(job[w].todo)
                 k == WithTodo(job[w], todo)
      <4>1. job' = [job EXCEPT ![w] = k] /\ Len(job[w].todo) # 1
        BY <1>4, <3>2 DEF V1PurgePackages, WithTodo
      <4>2. todo \in Seq(AllRRev) /\ todo # <<>>
        <5> DEFINE more == job[w].todo
        <5>1. more \in Seq(AllRRev) /\ more # <<>> /\ Len(more) # 1
          BY <1>2, <4>1
        <5> HIDE DEF more
        <5>2. Tail(more) \in Seq(AllRRev) /\ Len(more) \in Nat /\ Len(more) # 0
              /\ Len(Tail(more)) = Len(more) - 1
          BY <5>1
        <5>3. Tail(more) # <<>>
          BY <5>1, <5>2
        <5> QED BY <5>2, <5>3 DEF more
      <4>k. k = WithTodo(job[w], todo)
        OBVIOUS
      <4> HIDE DEF todo, k
      <4>3. /\ k.step = job[w].step /\ k.kind = job[w].kind /\ k.at = job[w].at
            /\ k.rev = job[w].rev /\ k.v1 = job[w].v1 /\ k.all = job[w].all
            /\ k.todo = todo /\ k.rrev = job[w].rrev /\ k.prev = job[w].prev
            /\ k.list = job[w].list
        BY <1>0, <1>1, <4>k, OtherTodo
      <4>4. JobShape(k, clock, ListedOnce)
        BY <1>0, <1>1, <4>2, <4>3 DEF JobShape
      <4> QED BY <4>1, <4>4
    <3> QED BY <3>1, <3>2
  <2> QED BY <1>0, <2>1, <2>2, <2>3, WritingShape
<1> QED BY <1>3, <1>4

LEMMA AtOnceShape ==
    ASSUME ShapeInv, NEW w \in Worker, RemoveAllPackages(w) \/ RemoveReference(w)
    PROVE  ShapeInv'
<1>1. /\ UNCHANGED <<job, clock>> /\ recipe' \subseteq AllRRev
      /\ spoiled' \in {spoiled, spoiled \union {"race"}}
  BY DEF RemoveAllPackages, RemoveReference, ShapeInv
<1>2. ListedOnce' = ListedOnce
  BY <1>1 DEF ListedOnce
<1>3. /\ index' = [i \in Indexes |-> index'[i]]
      /\ \A i \in Indexes : index'[i] \in {index[i], NoIndex}
  <2>1. CASE RemoveAllPackages(w)
    BY <2>1 DEF RemoveAllPackages, ShapeInv, IndexFits
  <2>2. CASE RemoveReference(w)
    BY <2>2 DEF RemoveReference, ShapeInv, IndexFits
  <2> QED BY <2>1, <2>2
<1>4. IndexFits'
  BY <1>1, <1>2, <1>3 DEF ShapeInv, IndexFits
<1> QED BY <1>1, <1>2, <1>4 DEF ShapeInv, IsIdle

LEMMA DropShape == ASSUME IInv, ShapeInv, NEW w \in Worker, DropFolder(w) PROVE ShapeInv'
<1>0. /\ ~IsIdle(w) /\ job[w].step = "drop" /\ UNCHANGED <<clock, spoiled>>
      /\ recipe' \subseteq AllRRev
  BY DEF DropFolder, IsIdle, files, ShapeInv
<1>1. JobShape(job[w], clock, ListedOnce) /\ Fits(job[w]) /\ ~job[w].v1
  <2>1. JobShape(job[w], clock, ListedOnce) /\ Fits(job[w])
    BY <1>0, BusyJob
  <2> QED BY <1>0, <2>1 DEF JobShape
<1>2. \E k : /\ job' = [job EXCEPT ![w] = k]
             /\ k.step = "idle" \/ JobShape(k, clock, ListedOnce)
  <2>1. CASE Finish(w)
    <3>1. job' = [job EXCEPT ![w] = Idle] /\ Idle.step = "idle"
      BY <2>1 DEF Finish, Idle
    <3> QED BY <3>1
  <2>2. CASE Step(w, "unread")
    BY <1>0, <1>1, <2>2, NextShape
  <2> QED BY <2>1, <2>2 DEF DropFolder
<1>3. \E i \in Indexes :
        \E v : /\ v = NoIndex \/ GoodList(i, v, clock, ListedOnce)
               /\ index' = [index EXCEPT ![i] = v]
  <2>1. CASE UNCHANGED index
    <3>1. index' = [index EXCEPT ![Root] = index[Root]] /\ Root \in Indexes
      BY <2>1 DEF ShapeInv, IndexFits, Indexes
    <3>2. index[Root] = NoIndex \/ GoodList(Root, index[Root], clock, ListedOnce)
      BY <3>1 DEF ShapeInv, IndexFits
    <3> QED BY <3>1, <3>2
  <2>2. CASE ~UNCHANGED index
    <3>1. index' = [index EXCEPT ![job[w].rrev] = NoIndex] /\ job[w].rrev \in Indexes
      BY <1>1, <2>2 DEF DropFolder, files, JobShape, Indexes
    <3> QED BY <3>1
  <2> QED BY <2>1, <2>2
<1> QED BY <1>0, <1>2, <1>3, WritingShape

LEMMA UnlistReadShape ==
    ASSUME IInv, ShapeInv, NEW w \in Worker, UnlistRead(w) PROVE ShapeInv'
<1>0. /\ ~IsIdle(w) /\ job[w].step = "unread" /\ UNCHANGED <<recipe, index, clock, spoiled>>
      /\ recipe' \subseteq AllRRev /\ clock \in Nat
  BY DEF UnlistRead, IsIdle, files, Rest, ShapeInv, IndexFits
<1>1. JobShape(job[w], clock, ListedOnce) /\ ~job[w].v1 /\ IndexFits
  <2>1. JobShape(job[w], clock, ListedOnce) /\ IndexFits
    BY <1>0, BusyJob
  <2> QED BY <1>0, <2>1 DEF JobShape
<1>o. ListedOnce' = ListedOnce
  BY <1>0 DEF ListedOnce
<1>2. CASE Finish(w)
  BY <1>0, <1>2, FinishShape
<1>3. CASE ~Finish(w)
  <2> DEFINE old == index[job[w].at]
             list == RemoveRevision(old, job[w].rev)
  <2>1. /\ job' = [job EXCEPT ![w].step = "unwrite", ![w].list = list] /\ old # NoIndex
    BY <1>3 DEF UnlistRead
  <2>2. GoodList(job[w].at, list, clock, ListedOnce')
    <3>1. job[w].at \in Indexes
      BY <1>1 DEF JobShape
    <3>2. GoodList(job[w].at, old, clock, ListedOnce')
      BY <1>1, <1>o, <2>1, <3>1 DEF IndexFits
    <3> HIDE DEF old
    <3> QED BY <1>0, <3>2, RemoveIsGood
  <2> HIDE DEF old, list
  <2>3. PICK k : job' = [job EXCEPT ![w] = k] /\ JobShape(k, clock, ListedOnce')
    BY <1>0, <1>1, <1>o, <2>1, <2>2, ListShape
  <2> QED BY <1>0, <2>3, StepShape
<1> QED BY <1>2, <1>3

LEMMA UnlistWriteShape ==
    ASSUME IInv, ShapeInv, NEW w \in Worker, UnlistWrite(w) PROVE ShapeInv'
<1>0. /\ ~IsIdle(w) /\ job[w].step = "unwrite" /\ UNCHANGED <<recipe, clock, spoiled>>
      /\ recipe' \subseteq AllRRev
      /\ index' = [index EXCEPT ![job[w].at] = job[w].list]
  BY DEF UnlistWrite, IsIdle, Rest, ShapeInv
<1>1. JobShape(job[w], clock, ListedOnce) /\ ~job[w].v1
  <2>1. JobShape(job[w], clock, ListedOnce)
    BY <1>0, BusyJob
  <2> QED BY <1>0, <2>1 DEF JobShape
<1>2. job[w].at \in Indexes /\ GoodList(job[w].at, job[w].list, clock, ListedOnce)
  BY <1>1 DEF JobShape
<1>3. \E k : /\ job' = [job EXCEPT ![w] = k]
             /\ k.step = "idle" \/ JobShape(k, clock, ListedOnce)
  <2>1. CASE Finish(w)
    <3>1. job' = [job EXCEPT ![w] = Idle] /\ Idle.step = "idle"
      BY <2>1 DEF Finish, Idle
    <3> QED BY <3>1
  <2>2. CASE job[w].kind = "recipe" /\ Step(w, "sweep")
    BY <1>0, <1>1, <2>2, NextShape
  <2> QED BY <2>1, <2>2 DEF UnlistWrite
<1> QED BY <1>0, <1>2, <1>3, WritingShape

LEMMA SweepShape == ASSUME IInv, ShapeInv, NEW w \in Worker, Sweep(w) PROVE ShapeInv'
<1>0. /\ ~IsIdle(w) /\ job[w].step = "sweep" /\ UNCHANGED <<recipe, clock, spoiled>>
      /\ recipe' \subseteq AllRRev /\ Root \in Indexes
  BY DEF Sweep, IsIdle, Rest, ShapeInv, Indexes
<1>1. JobShape(job[w], clock, ListedOnce)
  BY <1>0, BusyJob
<1>2. \E k : /\ job' = [job EXCEPT ![w] = k]
             /\ k.step = "idle" \/ JobShape(k, clock, ListedOnce)
  <2>1. CASE Finish(w)
    <3>1. job' = [job EXCEPT ![w] = Idle] /\ Idle.step = "idle"
      BY <2>1 DEF Finish, Idle
    <3> QED BY <3>1
  <2>2. CASE ~Finish(w)
    <3> DEFINE todo == job[w].todo
               k == [RecipeRemoval(Head(todo)) EXCEPT !.all = TRUE, !.todo = Tail(todo)]
    <3>1. job' = [job EXCEPT ![w] = k] /\ todo # <<>>
      BY <2>2 DEF Sweep
    <3>2. todo \in Seq(AllRRev)
      BY <1>1 DEF JobShape
    <3>3. Head(todo) \in AllRRev /\ Tail(todo) \in Seq(AllRRev)
      BY <3>1, <3>2
    <3> HIDE DEF todo
    <3>4. JobShape(k, clock, ListedOnce)
      BY <3>3, RemovalShape
    <3> HIDE DEF k
    <3> QED BY <3>1, <3>4
  <2> QED BY <2>1, <2>2
<1>3. \E v : /\ v = NoIndex \/ GoodList(Root, v, clock, ListedOnce)
             /\ index' = [index EXCEPT ![Root] = v]
  <2>1. CASE UNCHANGED index
    <3>1. index' = [index EXCEPT ![Root] = index[Root]]
      BY <2>1, <1>0 DEF ShapeInv, IndexFits
    <3>2. index[Root] = NoIndex \/ GoodList(Root, index[Root], clock, ListedOnce)
      BY <1>0 DEF ShapeInv, IndexFits
    <3> QED BY <3>1, <3>2
  <2>2. CASE index' = [index EXCEPT ![Root] = NoIndex]
    BY <2>2
  <2> QED BY <2>1, <2>2 DEF Sweep
<1> QED BY <1>0, <1>2, <1>3, WritingShape

LEMMA ShapeInit == ASSUME Init PROVE ShapeInv
<1>1. IndexFits
  BY DEF Init, IndexFits, Indexes
<1> QED BY <1>1 DEF Init, ShapeInv, IsIdle, Idle

LEMMA ShapeNext == ASSUME IInv, ShapeInv, [Next]_vars PROVE ShapeInv'
<1>1. CASE Tick \/ AtRest \/ UNCHANGED vars
  <2>1. /\ UNCHANGED <<recipe, index, job, spoiled>>
        /\ clock \in Nat /\ clock' \in Nat /\ clock <= clock'
    BY <1>1 DEF Tick, AtRest, vars, files, ShapeInv, IndexFits
  <2>2. ListedOnce' = ListedOnce /\ spoiled \subseteq spoiled'
    BY <2>1 DEF ListedOnce
  <2>3. IndexFits'
    BY <2>1, <2>2, IndexStays DEF ShapeInv
  <2>4. ASSUME NEW w \in Worker, ~IsIdle(w)
        PROVE  JobShape(job[w], clock', ListedOnce')
    <3>1. JobShape(job[w], clock, ListedOnce)
      BY <2>4 DEF ShapeInv
    <3> QED BY <2>1, <2>2, <3>1, ShapeStays
  <2> QED BY <2>1, <2>3, <2>4 DEF ShapeInv, IsIdle
<1>2. ASSUME NEW w \in Worker,
             \/ PutRecipe(w) \/ PutPackage(w) \/ V1PutRecipe(w) \/ V1PutPackage(w)
             \/ V1Urls(w) \/ StoreFile(w) \/ LookForIndex(w) \/ ReadIndex(w) \/ WriteIndex(w)
             \/ V1Abandon(w)
      PROVE  ShapeInv'
  BY <1>2, UploadsShape, V1UrlsShape, StoreShape, LookShape, ReadShape, WriteShape,
     AbandonShape
<1>3. ASSUME NEW w \in Worker,
             \/ DeleteRecipe(w) \/ DeleteAllRRevs(w) \/ DeletePackage(w)
             \/ V1RemovePackages(w) \/ V1PurgePackages(w)
             \/ RemoveAllPackages(w) \/ RemoveReference(w)
             \/ DropFolder(w) \/ UnlistRead(w) \/ UnlistWrite(w) \/ Sweep(w)
      PROVE  ShapeInv'
  BY <1>3, DeletesShape, PurgeShape, AtOnceShape, DropShape, UnlistReadShape,
     UnlistWriteShape, SweepShape
<1> QED BY <1>1, <1>2, <1>3 DEF Next

\* Whatever requests overlap and overwrite (server_store.py 256, 332), the entries of an
\* index stay in the order of their times, each of its own revision unless the oldest one
\* was uploaded again (revision_list.py 43).
THEOREM IndexesStayInOrder == Spec => []IndexStaysInOrder
<1>1. Spec => []IInv
  BY InvInit, InvStep, PTL DEF Spec
<1>2. IInv /\ ShapeInv /\ [Next]_vars => ShapeInv'
  BY ShapeNext
<1>3. Init => ShapeInv
  BY ShapeInit
<1>4. ShapeInv => IndexStaysInOrder
  <2> SUFFICES ASSUME ShapeInv, NEW list \in Lists, NEW i \in DOMAIN list, NEW j \in DOMAIN list
               PROVE  /\ i < j => list[i].time <= list[j].time
                      /\ "relisted" \notin spoiled /\ list[i].revision = list[j].revision
                           => i = j
    BY DEF IndexStaysInOrder
  <2>1. PICK n \in Indexes : list = index[n] /\ index[n] # NoIndex
    BY DEF Lists, ShapeInv, IndexFits
  <2>2. GoodList(n, list, clock, ListedOnce)
    BY <2>1 DEF ShapeInv, IndexFits
  <2> QED BY <2>2 DEF GoodList, InOrder, Distinct, ListedOnce
<1> QED BY <1>1, <1>2, <1>3, <1>4, PTL DEF Spec
----------------------------------------------------------------------------
(* Folders and indexes, while requests do not overlap. *)

\* What the folders hold that index i is to list.
Stored(i) == IF i = Root THEN recipe ELSE packages[i]
\* The index of the recipes is there as long as there are any.
RootKept == spoiled \subseteq {"relisted"} => (index[Root] = NoIndex <=> recipe = {})

\* What a request has stored and not listed yet, and what it has listed or left listed
\* that is not in the store.
Unlisted(j, i) ==
    IF j.step \in {"look", "read", "write"} /\ ~j.v1 /\ i = j.at THEN {j.rev} ELSE {}
Unstored(j, i) ==
    IF (j.step \in {"unread", "unwrite"} \/ (j.step = "store" /\ j.v1)) /\ i = j.at
    THEN {j.rev} ELSE {}

StoreAgrees(j) ==
    /\ \A i \in Indexes : i = Root \/ "mixed" \notin spoiled =>
           Stored(i) \subseteq Listed(i) \union Unlisted(j, i)
    /\ spoiled = {} => \A i \in Indexes : Listed(i) \subseteq Stored(i) \union Unstored(j, i)
    /\ "mixed" \notin spoiled => \A r \in AllRRev : index[r] # NoIndex => r \in recipe

\* From where on the index of the recipes is there for the request to write or to sweep,
\* and where it may be missing yet.
RootListed(j) == j.kind = "recipe" /\ \/ j.step \in {"unread", "unwrite", "sweep"}
                                      \/ j.step = "store" /\ j.v1
RootMissing(j) == j.kind = "recipe" /\ j.step \in {"look", "read", "write"} /\ ~j.v1
RootAgrees(j) ==
    /\ RootListed(j) /\ spoiled \subseteq {"relisted"} => index[Root] # NoIndex
    /\ ~RootListed(j) /\ ~RootMissing(j) => RootKept

\* What the request knows.
RequestKnows(j) ==
    /\ j.step \in {"look", "read", "write"} /\ ~j.v1 => j.rev \in Stored(j.at)
    /\ j.step \in {"read", "unwrite"} => index[j.at] # NoIndex
    /\ j.step = "write" => Revisions(j.list) = Listed(j.at) \union {j.rev}
    /\ j.step \in {"unread", "unwrite"} => j.rev \notin Stored(j.at)
    /\ j.step = "unwrite" =>
         /\ Listed(j.at) \subseteq Revisions(j.list) \union {j.rev}
         /\ Revisions(j.list) \subseteq Listed(j.at)
         /\ "relisted" \notin spoiled => j.rev \notin Revisions(j.list)
    /\ j.v1 /\ j.step \in {"look", "read", "write", "store"} =>
         /\ j.kind = "recipe" => j.rrev \in Listed(Root) \union {Zero}
         /\ "mixed" \notin spoiled => j.rrev = Zero /\ (j.kind = "package" => j.prev = Zero)
    /\ j.v1 /\ j.step = "store" => j.rev \in Listed(j.at)
    /\ j.all /\ spoiled = {} =>
         /\ j.step = "drop" => j.rev \in recipe
         /\ \A n \in DOMAIN j.todo : j.todo[n] \in recipe /\ j.todo[n] # j.rev
         /\ \A n, m \in DOMAIN j.todo : j.todo[n] = j.todo[m] => n = m

Agrees(j) == StoreAgrees(j) /\ RootAgrees(j) /\ RequestKnows(j)
Settled == StoreAgrees(Idle) /\ RootKept
StoreInv ==
    /\ "race" \notin spoiled =>
         /\ \A w \in Worker : ~IsIdle(w) => Agrees(job[w])
         /\ Quiet => Settled
    /\ RemoveAllGetsThrough
----------------------------------------------------------------------------
(* The store agrees with its indexes. *)

\* What a request's step has to show: the others have none in flight.
LEMMA StoreStep ==
    ASSUME IInv, StoreInv, NEW w \in Worker, ~IsIdle(w), NEW k,
           job' = [job EXCEPT ![w] = k], spoiled \subseteq spoiled',
           RemoveAllGetsThrough',
           "race" \notin spoiled /\ "race" \notin spoiled' =>
               IF k.step = "idle" THEN Settled' ELSE Agrees(k)'
    PROVE  StoreInv'
<1>1. job'[w] = k /\ \A v \in Worker \ {w} : job'[v] = job[v]
  BY DEF IInv, JobsFit
<1>2. ASSUME "race" \notin spoiled'
      PROVE  /\ \A v \in Worker : ~IsIdle(v)' => Agrees(job[v])'
             /\ Quiet' => Settled'
  <2>1. "race" \notin spoiled /\ \A v \in Worker \ {w} : IsIdle(v)
    BY <1>2 DEF IInv, OneAtATime
  <2>2. \A v \in Worker \ {w} : IsIdle(v)'
    BY <1>1, <2>1 DEF IsIdle
  <2>3. IsIdle(w)' <=> k.step = "idle"
    BY <1>1 DEF IsIdle
  <2>4. ~IsIdle(w)' => Agrees(job[w])'
    BY <1>1, <1>2, <2>1, <2>3
  <2>5. Quiet' => Settled'
    BY <1>2, <2>1, <2>3 DEF Quiet
  <2> QED BY <2>2, <2>4, <2>5
<1> QED BY <1>2 DEF StoreInv

LEMMA StoreFinish ==
    ASSUME IInv, StoreInv, NEW w \in Worker, ~IsIdle(w), Finish(w), spoiled \subseteq spoiled',
           RemoveAllGetsThrough',
           "race" \notin spoiled /\ "race" \notin spoiled' => Settled'
    PROVE  StoreInv'
BY StoreStep DEF Finish, Idle

\* What a request knows when it takes a step.
LEMMA BusyAgrees ==
    ASSUME IInv, ShapeInv, StoreInv, NEW w \in Worker, ~IsIdle(w), "race" \notin spoiled
    PROVE  /\ StoreAgrees(job[w]) /\ RootAgrees(job[w]) /\ RequestKnows(job[w])
           /\ PackagesHaveRecipe
           /\ StoresPackage(job[w]) => job[w].rrev \in recipe
BY DEF StoreInv, Agrees, IInv, StoresBesideRecipe

\* A request that has changed nothing yet, or has nothing left to change.
LEMMA NothingDone ==
    ASSUME NEW j, StoreAgrees(j), RootAgrees(j),
           j.step \in {"urls", "drop", "purge"} \/ (j.step = "store" /\ ~j.v1)
    PROVE  Settled
BY DEF StoreAgrees, RootAgrees, Settled, Unlisted, Unstored, RootListed, RootMissing, Idle
LEMMA NothingYet ==
    ASSUME NEW j, Settled,
           j.step \in {"urls", "drop", "purge"} \/ (j.step = "store" /\ ~j.v1)
    PROVE  StoreAgrees(j) /\ RootAgrees(j)
BY DEF StoreAgrees, RootAgrees, Settled, Unlisted, Unstored, RootListed, RootMissing, Idle

\* Nothing changes, and what is to be kept may only become less.
LEMMA SettledStays ==
    ASSUME Settled, UNCHANGED files, spoiled \subseteq spoiled'
    PROVE  Settled'
BY DEF Settled, StoreAgrees, RootKept, Stored, Listed, Unlisted, Unstored, Idle, files

LEMMA BeginAgrees ==
    ASSUME IInv, ShapeInv, StoreInv, NEW w \in Worker, NEW k, Begin(w, k),
           UNCHANGED <<files, aborted>>,
           k.step \in {"urls", "drop", "purge"} \/ (k.step = "store" /\ ~k.v1),
           Settled => RequestKnows(k)'
    PROVE  StoreInv'
<1>1. job' = [job EXCEPT ![w] = k] /\ spoiled \subseteq spoiled' /\ k.step # "idle"
      /\ ("race" \notin spoiled' => Quiet /\ "race" \notin spoiled /\ spoiled' = spoiled)
  BY DEF Begin
<1>2. job'[w] = k /\ \A v \in Worker \ {w} : job'[v] = job[v]
  BY <1>1 DEF IInv, JobsFit
<1>3. ASSUME "race" \notin spoiled'
      PROVE  /\ \A v \in Worker : ~IsIdle(v)' => Agrees(job[v])'
             /\ Quiet' => Settled'
  <2>1. Settled /\ Quiet
    BY <1>1, <1>3 DEF StoreInv
  <2>2. Settled'
    BY <1>1, <2>1, SettledStays
  <2>3. StoreAgrees(k)' /\ RootAgrees(k)'
    BY <2>2 DEF StoreAgrees, RootAgrees, Settled, Unlisted, Unstored, RootListed,
                RootMissing, Idle
  <2>4. Agrees(k)'
    BY <2>1, <2>3 DEF Agrees
  <2>5. \A v \in Worker \ {w} : IsIdle(v)'
    BY <1>2, <2>1 DEF Quiet, IsIdle
  <2> QED BY <1>2, <2>2, <2>4, <2>5
<1>4. RemoveAllGetsThrough'
  BY <1>1 DEF StoreInv, RemoveAllGetsThrough
<1> QED BY <1>3, <1>4 DEF StoreInv

LEMMA OneBegins ==
    ASSUME IInv, ShapeInv, StoreInv, NEW w \in Worker, NEW k, Begin(w, k),
           UNCHANGED <<files, aborted>>, k.all = FALSE,
           k.step \in {"urls", "drop", "purge"} \/ (k.step = "store" /\ ~k.v1)
    PROVE  StoreInv'
<1>1. RequestKnows(k)'
  BY DEF RequestKnows
<1> QED BY <1>1, BeginAgrees

\* What is in a job that begins.
LEMMA JobIs ==
    ASSUME NEW step, NEW kind, NEW at, NEW rev, NEW rrev, NEW prev, NEW k,
           k = Job(step, kind, at, rev, rrev, prev)
    PROVE  k.step = step /\ k.all = FALSE /\ k.v1 = FALSE
BY DEF Job

LEMMA UploadsAgree ==
    ASSUME IInv, ShapeInv, StoreInv, NEW w \in Worker,
           PutRecipe(w) \/ PutPackage(w) \/ V1PutRecipe(w) \/ V1PutPackage(w)
    PROVE  StoreInv'
<1>1. PICK k : /\ Begin(w, k) /\ UNCHANGED <<files, aborted>> /\ k.all = FALSE
               /\ k.step = "urls" \/ (k.step = "store" /\ ~k.v1)
  <2>1. CASE PutRecipe(w)
    <3>1. PICK r : BeginUpload(w, Job("store", "recipe", Root, r, r, Zero))
      BY <2>1 DEF PutRecipe
    <3> QED BY <3>1, JobIs DEF BeginUpload
  <2>3. CASE PutPackage(w)
    <3>1. PICK r, b : BeginUpload(w, Job("store", "package", r, b, r, b))
      BY <2>3 DEF PutPackage
    <3> QED BY <3>1, JobIs DEF BeginUpload
  <2>2. CASE V1PutRecipe(w) \/ V1PutPackage(w)
    BY <2>2 DEF V1PutRecipe, V1PutPackage, BeginUpload, V1Upload, Job
  <2> QED BY <2>1, <2>2, <2>3
<1> QED BY <1>1, OneBegins

LEMMA DeletesAgree ==
    ASSUME IInv, ShapeInv, StoreInv, NEW w \in Worker,
           DeleteRecipe(w) \/ DeleteAllRRevs(w) \/ DeletePackage(w) \/ V1RemovePackages(w)
    PROVE  StoreInv'
<1>1. CASE DeleteRecipe(w) \/ DeletePackage(w) \/ V1RemovePackages(w)
  <2>1. PICK k : /\ Begin(w, k) /\ UNCHANGED <<files, aborted>> /\ k.all = FALSE
                 /\ k.step \in {"drop", "purge"}
    <3>1. CASE DeleteRecipe(w)
      <4>1. PICK r : BeginDelete(w, Job("drop", "recipe", Root, r, r, Zero))
        BY <3>1 DEF DeleteRecipe, RecipeRemoval
      <4>2. PICK k : k = Job("drop", "recipe", Root, r, r, Zero)
        OBVIOUS
      <4>3. k.step = "drop" /\ k.all = FALSE
        BY <4>2 DEF Job
      <4> QED BY <4>1, <4>2, <4>3 DEF BeginDelete
    <3>2. CASE DeletePackage(w)
      <4>1. PICK r, b : BeginDelete(w, Job("drop", "package", r, b, r, b))
        BY <3>2 DEF DeletePackage
      <4>2. PICK k : k = Job("drop", "package", r, b, r, b)
        OBVIOUS
      <4>3. k.step = "drop" /\ k.all = FALSE
        BY <4>2 DEF Job
      <4> QED BY <4>1, <4>2, <4>3 DEF BeginDelete
    <3>3. CASE V1RemovePackages(w)
      BY <3>3 DEF V1RemovePackages, BeginDelete, Job
    <3> QED BY <1>1, <3>1, <3>2, <3>3
  <2> QED BY <2>1, OneBegins
<1>2. CASE DeleteAllRRevs(w)
  <2> DEFINE list == index[Root]
             revs == AsList(index[Root])
  <2>k. PICK k : k = [RecipeRemoval(Head(revs)) EXCEPT !.all = TRUE, !.todo = Tail(revs)]
    OBVIOUS
  <2>1. list \notin {NoIndex, <<>>} /\ BeginDelete(w, k)
    BY <1>2, <2>k DEF DeleteAllRRevs
  <2>2. /\ k.step = "drop" /\ k.rev = Head(revs) /\ k.todo = Tail(revs) /\ k.kind = "recipe"
    BY <2>k DEF RecipeRemoval, Job
  <2>3. list \in Seq(EntryOf(AllRRev)) /\ list # <<>> /\ (ListedOnce => Distinct(list))
    BY <2>1 DEF ShapeInv, IndexFits, GoodList, Indexes, RevsAt
  <2>r. revs = AsList(list)
    OBVIOUS
  <2>l. Listed(Root) = Revisions(list)
    BY <2>1 DEF Listed
  <2> HIDE DEF revs, list
  <2>4. revs \in Seq(AllRRev) /\ revs # <<>> /\ {revs[i] : i \in DOMAIN revs} = Revisions(list)
    <3>1. revs \in Seq(AllRRev) /\ Len(revs) = Len(list)
          /\ {revs[i] : i \in DOMAIN revs} = Revisions(list)
      BY <2>3, <2>r, AsListIs
    <3> QED BY <2>3, <3>1
  <2>5. ListedOnce => \A i, j \in DOMAIN revs : revs[i] = revs[j] => i = j
    BY <2>3, <2>r, AsListIs
  <2>6. \A i \in DOMAIN revs : revs[i] \in Listed(Root)
    BY <2>4, <2>l
  <2>7. /\ Head(revs) = revs[1] /\ 1 \in DOMAIN revs
        /\ \A n \in DOMAIN Tail(revs) : /\ Tail(revs)[n] = revs[n + 1] /\ n + 1 \in DOMAIN revs
                                        /\ n \in Nat /\ n + 1 # 1
    BY <2>4
  <2>8. ASSUME Settled PROVE RequestKnows(k)'
    <3>1. UNCHANGED files /\ spoiled \subseteq spoiled'
      BY <2>1 DEF BeginDelete, Begin
    <3>2. ASSUME spoiled' = {}
          PROVE  /\ k.rev \in recipe
                 /\ \A n \in DOMAIN k.todo : k.todo[n] \in recipe /\ k.todo[n] # k.rev
                 /\ \A n, m \in DOMAIN k.todo : k.todo[n] = k.todo[m] => n = m
      <4>1. spoiled = {} /\ ListedOnce
        BY <3>1, <3>2 DEF ListedOnce
      <4>2. Listed(Root) \subseteq recipe
        BY <2>8, <4>1 DEF Settled, StoreAgrees, Stored, Unstored, Idle, Indexes
      <4>3. \A n \in DOMAIN revs : revs[n] \in recipe
        BY <2>6, <4>2
      <4>4. k.rev \in recipe
        BY <2>2, <2>7, <4>3
      <4>5. \A n \in DOMAIN k.todo : k.todo[n] \in recipe /\ k.todo[n] # k.rev
        BY <2>2, <2>5, <2>7, <4>1, <4>3
      <4>6. \A n, m \in DOMAIN k.todo : k.todo[n] = k.todo[m] => n = m
        BY <2>2, <2>5, <2>7, <4>1
      <4> QED BY <4>4, <4>5, <4>6
    <3>3. recipe' = recipe
      BY <3>1 DEF files
    <3>4. k.all /\ spoiled' = {} =>
            /\ k.step = "drop" => k.rev \in recipe'
            /\ \A n \in DOMAIN k.todo : k.todo[n] \in recipe' /\ k.todo[n] # k.rev
            /\ \A n, m \in DOMAIN k.todo : k.todo[n] = k.todo[m] => n = m
      BY <3>2, <3>3
    <3> QED BY <2>2, <3>4 DEF RequestKnows
  <2>9. Begin(w, k) /\ UNCHANGED <<files, aborted>>
    BY <2>1 DEF BeginDelete
  <2>10. k.step \in {"urls", "drop", "purge"} \/ (k.step = "store" /\ ~k.v1)
    BY <2>2
  <2> QED BY <2>8, <2>9, <2>10, BeginAgrees
<1> QED BY <1>1, <1>2

\* A field of a job gets another value.
LEMMA StepTaken ==
    ASSUME IInv, ShapeInv, NEW w \in Worker, ~IsIdle(w), NEW step, Step(w, step)
    PROVE  \E k : /\ job' = [job EXCEPT ![w] = k] /\ k.step = step /\ Carries(k, job[w])
                  /\ k.rrev = job[w].rrev /\ k.prev = job[w].prev /\ k.list = job[w].list
<1>1. Fits(job[w]) /\ job[w].step # "idle"
  BY BusyJob
<1> DEFINE k == WithStep(job[w], step)
<1>2. job' = [job EXCEPT ![w] = k]
  BY DEF Step, WithStep
<1>k. k = WithStep(job[w], step)
  OBVIOUS
<1> HIDE DEF k
<1>3. k.step = step /\ Carries(k, job[w]) /\ k.rrev = job[w].rrev /\ k.prev = job[w].prev
      /\ k.list = job[w].list
  BY <1>1, <1>k, OtherStep
<1> QED BY <1>2, <1>3

TakesList(w, step, list) == job' = [job EXCEPT ![w].step = step, ![w].list = list]
LEMMA ListTaken ==
    ASSUME IInv, ShapeInv, NEW w \in Worker, ~IsIdle(w), NEW step, step # "idle", NEW list,
           TakesList(w, step, list)
    PROVE  \E k : /\ job' = [job EXCEPT ![w] = k] /\ k.step = step /\ k.list = list
                  /\ Carries(k, job[w]) /\ k.rrev = job[w].rrev /\ k.prev = job[w].prev
<1>1. Fits(job[w]) /\ job[w].step # "idle"
  BY BusyJob
<1> DEFINE j == WithStep(job[w], step)
           k == WithList(j, list)
<1>2. job' = [job EXCEPT ![w] = k]
  BY DEF WithStep, WithList, TakesList
<1>k. j = WithStep(job[w], step) /\ k = WithList(j, list)
  OBVIOUS
<1> HIDE DEF j, k
<1>3. Fits(j) /\ j.step = step /\ Carries(j, job[w]) /\ j.rrev = job[w].rrev
      /\ j.prev = job[w].prev
  BY <1>1, <1>k, OtherStep
<1>4. k.step = step /\ Carries(k, j) /\ k.rrev = j.rrev /\ k.prev = j.prev /\ k.list = list
  BY <1>3, <1>k, OtherList
<1>5. Carries(k, job[w])
  BY <1>3, <1>4 DEF Carries
<1> QED BY <1>2, <1>3, <1>4, <1>5

LEMMA V1UrlsAgree ==
    ASSUME IInv, ShapeInv, StoreInv, NEW w \in Worker, V1Urls(w) PROVE StoreInv'
<1>0. /\ ~IsIdle(w) /\ job[w].step = "urls" /\ UNCHANGED <<files, aborted>>
  BY DEF V1Urls, IsIdle, Rest
<1>s. spoiled \subseteq spoiled' /\ RemoveAllGetsThrough'
  <2>1. spoiled \subseteq spoiled'
    BY DEF V1Urls
  <2> QED BY <1>0, <2>1 DEF StoreInv, RemoveAllGetsThrough
<1>1. Fits(job[w]) /\ job[w].step # "idle" /\ job[w].v1 /\ job[w].kind \in {"recipe", "package"}
  <2>1. Fits(job[w]) /\ JobShape(job[w], clock, ListedOnce)
        /\ job[w].kind \in {"recipe", "package"}
    BY <1>0, BusyJob
  <2> QED BY <1>0, <2>1 DEF JobShape
<1>a. ~job[w].all
  <2>1. JobShape(job[w], clock, ListedOnce)
    BY <1>0, BusyJob
  <2> QED BY <1>0, <2>1 DEF JobShape
<1>2. ASSUME "race" \notin spoiled PROVE Settled
  BY <1>0, <1>2, BusyAgrees, NothingDone
<1>3. CASE Finish(w)
  <2>1. ASSUME "race" \notin spoiled PROVE Settled'
    BY <1>0, <1>2, <1>s, <2>1, SettledStays
  <2> QED BY <1>0, <1>3, <1>s, <2>1, StoreFinish
<1>4. CASE ~Finish(w)
  <2> DEFINE r == LatestOrZero(Root)
             b == LatestOrZero(r)
  <2>k. PICK k : k = WithFolder(job[w], "look", r, b)
    OBVIOUS
  <2>1. /\ job' = [job EXCEPT ![w] = k]
        /\ "mixed" \notin spoiled' => r = Zero /\ (job[w].kind = "package" => b = Zero)
    BY <1>4, <2>k DEF V1Urls, WithFolder
  <2>2. r \in Listed(Root) \union {Zero}
    BY LatestIsListed DEF ShapeInv, Indexes
  <2> HIDE DEF r, b
  <2>3. /\ k.step = "look" /\ Carries(k, job[w]) /\ k.rrev = r /\ k.prev = b
    BY <1>1, <2>k, OtherFolder
  <2>4. ASSUME "race" \notin spoiled PROVE Agrees(k)'
    <3>1. Settled'
      BY <1>0, <1>2, <1>s, <2>4, SettledStays
    <3>2. k.v1 /\ ~k.all
      BY <1>1, <1>a, <2>3 DEF Carries
    <3>3. StoreAgrees(k)'
      BY <2>3, <3>1, <3>2 DEF StoreAgrees, Settled, Unlisted, Unstored, Idle
    <3>6. RootAgrees(k)'
      BY <2>3, <3>1, <3>2 DEF RootAgrees, Settled, RootListed, RootMissing
    <3>4. Listed(Root)' = Listed(Root)
      BY <1>0 DEF Listed, files
    <3>5. RequestKnows(k)'
      BY <2>1, <2>2, <2>3, <3>2, <3>4 DEF RequestKnows, Carries
    <3> QED BY <3>3, <3>5, <3>6 DEF Agrees
  <2>5. k.step # "idle"
    BY <2>3
  <2> QED BY <1>0, <1>s, <2>1, <2>4, <2>5, StoreStep
<1> QED BY <1>3, <1>4

LEMMA StoreFileAgrees ==
    ASSUME IInv, ShapeInv, StoreInv, NEW w \in Worker, StoreFile(w) PROVE StoreInv'
<1>0. /\ ~IsIdle(w) /\ job[w].step = "store" /\ UNCHANGED <<index, spoiled, aborted>>
      /\ RemoveAllGetsThrough'
  BY DEF StoreFile, IsIdle, Rest, StoreInv, RemoveAllGetsThrough
<1>1. /\ JobShape(job[w], clock, ListedOnce) /\ job[w].kind \in {"recipe", "package"}
      /\ ~job[w].all /\ packages = [r \in AllRRev |-> packages[r]]
  <2>1. JobShape(job[w], clock, ListedOnce) /\ job[w].kind \in {"recipe", "package"}
    BY <1>0, BusyJob
  <2> QED BY <1>0, <2>1 DEF JobShape, IInv, PackagesFit
<1>2. ASSUME "race" \notin spoiled
      PROVE  /\ StoreAgrees(job[w]) /\ RootAgrees(job[w]) /\ RequestKnows(job[w])
             /\ StoresPackage(job[w]) => job[w].rrev \in recipe
  BY <1>0, <1>2, BusyAgrees
<1>l. \A i : Listed(i)' = Listed(i)
  BY <1>0 DEF Listed
\* What is stored now.
<1>s. /\ job[w].kind = "recipe" => recipe' = recipe \union {job[w].rrev}
                                   /\ packages' = packages
      /\ job[w].kind = "package" =>
           /\ recipe' = recipe
           /\ packages'[job[w].rrev] = packages[job[w].rrev] \union {job[w].prev}
           /\ \A r \in AllRRev \ {job[w].rrev} : packages'[r] = packages[r]
      /\ job[w].rrev \in AllRRev
  BY <1>1 DEF StoreFile, JobShape
<1>n. Root \notin AllRRev
  BY RootIsNoRevision DEF AllRRev
<1>3. CASE job[w].v1 /\ Finish(w)
  <2>1. ASSUME "race" \notin spoiled PROVE Settled'
    <3> DEFINE j == job[w]
    <3>1. /\ j.at \in {Root, Zero} /\ (j.at = Root <=> j.kind = "recipe") /\ j.rev = Zero
      BY <1>1, <1>3 DEF JobShape
    <3>2. /\ j.rev \in Listed(j.at)
          /\ j.kind = "recipe" => j.rrev \in Listed(Root) \union {Zero}
          /\ "mixed" \notin spoiled => j.rrev = Zero /\ (j.kind = "package" => j.prev = Zero)
      BY <1>0, <1>2, <1>3, <2>1 DEF RequestKnows
    <3>3. StoreAgrees(j) /\ RootAgrees(j)
      BY <1>2, <2>1
    <3>v. /\ j.v1 /\ j.step = "store" /\ j.kind \in {"recipe", "package"}
      BY <1>0, <1>1, <1>3
    <3>w. /\ j.kind = "recipe" => recipe' = recipe \union {j.rrev} /\ packages' = packages
          /\ j.kind = "package" =>
               /\ recipe' = recipe /\ packages'[j.rrev] = packages[j.rrev] \union {j.prev}
               /\ \A r \in AllRRev \ {j.rrev} : packages'[r] = packages[r]
          /\ j.rrev \in AllRRev
      BY <1>s
    <3> HIDE DEF j
    <3>4. ASSUME NEW i \in Indexes, i = Root \/ "mixed" \notin spoiled
          PROVE  Stored(i)' \subseteq Listed(i)
      <4>1. Stored(i) \subseteq Listed(i)
        BY <3>3, <3>4, <3>v DEF StoreAgrees, Unlisted
      <4>2. CASE i = Root
        BY <3>1, <3>2, <3>v, <3>w, <4>1, <4>2 DEF Stored
      <4>3. CASE i # Root
        BY <1>n, <3>1, <3>2, <3>4, <3>v, <3>w, <4>1, <4>3 DEF Stored, Indexes
      <4> QED BY <4>2, <4>3
    <3>5. ASSUME NEW i \in Indexes, spoiled = {}
          PROVE  Listed(i) \subseteq Stored(i)'
      <4>1. Listed(i) \subseteq Stored(i) \union (IF i = j.at THEN {j.rev} ELSE {})
        BY <3>3, <3>5, <3>v DEF StoreAgrees, Unstored
      <4>2. CASE i = Root
        BY <3>1, <3>2, <3>5, <3>v, <3>w, <4>1, <4>2 DEF Stored
      <4>3. CASE i # Root
        BY <1>n, <3>1, <3>2, <3>5, <3>v, <3>w, <4>1, <4>3 DEF Stored, Indexes
      <4> QED BY <4>2, <4>3
    <3>6. ASSUME "mixed" \notin spoiled, NEW r \in AllRRev, index[r] # NoIndex
          PROVE  r \in recipe'
      BY <3>3, <3>6, <3>v, <3>w DEF StoreAgrees
    <3>7. spoiled \subseteq {"relisted"} => (index[Root] = NoIndex <=> recipe' = {})
      BY <3>3, <3>v, <3>w DEF RootAgrees, RootListed, RootMissing, RootKept
    <3>8. StoreAgrees(Idle)'
      BY <1>0, <1>l, <3>4, <3>5, <3>6 DEF StoreAgrees, Unlisted, Unstored, Idle
    <3> QED BY <1>0, <3>7, <3>8 DEF Settled, RootKept
  <2> QED BY <1>0, <1>3, <2>1, StoreFinish
<1>4. CASE ~job[w].v1 /\ Step(w, "look")
  <2>1. PICK k : /\ job' = [job EXCEPT ![w] = k] /\ k.step = "look" /\ Carries(k, job[w])
                 /\ k.rrev = job[w].rrev /\ k.prev = job[w].prev
    BY <1>0, <1>4, StepTaken
  <2>2. ASSUME "race" \notin spoiled PROVE Agrees(k)'
    <3>v. /\ ~k.v1 /\ k.step = "look" /\ k.kind \in {"recipe", "package"} /\ ~k.all
          /\ k.at \in Indexes /\ (k.at = Root <=> k.kind = "recipe")
          /\ IF k.kind = "recipe" THEN k.rrev = k.rev ELSE k.rrev = k.at /\ k.prev = k.rev
      BY <1>1, <1>4, <2>1 DEF JobShape, Carries
    <3>w. /\ k.kind = "recipe" => recipe' = recipe \union {k.rrev} /\ packages' = packages
          /\ k.kind = "package" =>
               /\ recipe' = recipe /\ packages'[k.rrev] = packages[k.rrev] \union {k.prev}
               /\ \A r \in AllRRev \ {k.rrev} : packages'[r] = packages[r]
          /\ k.rrev \in AllRRev
      BY <1>s, <2>1 DEF Carries
    <3>3. Settled
      BY <1>0, <1>2, <1>4, <2>2, NothingDone
    <3>4. ASSUME NEW i \in Indexes, i = Root \/ "mixed" \notin spoiled
          PROVE  Stored(i)' \subseteq Listed(i) \union Unlisted(k, i)
      <4>1. Stored(i) \subseteq Listed(i)
        BY <3>3, <3>4 DEF Settled, StoreAgrees, Unlisted, Idle
      <4>2. CASE i = Root
        BY <3>v, <3>w, <4>1, <4>2 DEF Stored, Unlisted
      <4>3. CASE i # Root
        BY <1>n, <3>v, <3>w, <4>1, <4>3 DEF Stored, Indexes, Unlisted
      <4> QED BY <4>2, <4>3
    <3>5. ASSUME NEW i \in Indexes, spoiled = {}
          PROVE  Listed(i) \subseteq Stored(i)'
      <4>1. Listed(i) \subseteq Stored(i)
        BY <3>3, <3>5 DEF Settled, StoreAgrees, Unstored, Idle
      <4>2. CASE i = Root
        BY <3>v, <3>w, <4>1, <4>2 DEF Stored
      <4>3. CASE i # Root
        BY <1>n, <3>v, <3>w, <4>1, <4>3 DEF Stored, Indexes
      <4> QED BY <4>2, <4>3
    <3>6. ASSUME "mixed" \notin spoiled, NEW r \in AllRRev, index[r] # NoIndex
          PROVE  r \in recipe'
      BY <3>3, <3>6, <3>v, <3>w DEF Settled, StoreAgrees
    <3>7. k.kind = "package" => RootKept'
      BY <1>0, <3>3, <3>w DEF Settled, RootKept
    <3>8. StoreAgrees(k)'
      <4>1. \A i : Unlisted(k, i)' = Unlisted(k, i)
        BY DEF Unlisted
      <4> QED BY <1>0, <1>l, <3>4, <3>5, <3>6, <4>1 DEF StoreAgrees
    <3>9. RootAgrees(k)'
      BY <3>7, <3>v DEF RootAgrees, RootListed, RootMissing
    <3>10. k.rev \in Stored(k.at)'
      BY <1>n, <3>v, <3>w DEF Stored, Indexes
    <3>11. RequestKnows(k)'
      BY <3>v, <3>10 DEF RequestKnows
    <3> QED BY <3>8, <3>9, <3>11 DEF Agrees
  <2>3. k.step # "idle"
    BY <2>1
  <2> QED BY <1>0, <2>1, <2>2, <2>3, StoreStep
<1> QED BY <1>3, <1>4 DEF StoreFile

\* The index is looked for and read: nothing changes that a client sees.
LEMMA StillUnlisted ==
    ASSUME NEW j, NEW k, {j.step, k.step} \subseteq {"look", "read", "write"}, Carries(k, j),
           StoreAgrees(j), RootAgrees(j), UNCHANGED files, spoiled \subseteq spoiled'
    PROVE  StoreAgrees(k)' /\ RootAgrees(k)'
<1>1. /\ \A i : Unlisted(k, i)' = Unlisted(j, i)
      /\ \A i : Unstored(k, i)' = {} /\ Unstored(j, i) = {}
  BY DEF Unlisted, Unstored, Carries
<1>2. \A i : Listed(i)' = Listed(i) /\ Stored(i)' = Stored(i)
  BY DEF Listed, Stored, files
<1>3. StoreAgrees(k)'
  BY <1>1, <1>2 DEF StoreAgrees, files
<1>4. RootAgrees(k)'
  BY DEF RootAgrees, RootListed, RootMissing, RootKept, Carries, files
<1> QED BY <1>3, <1>4

LEMMA StillKnows ==
    ASSUME NEW j, NEW k, {j.step, k.step} \subseteq {"look", "read", "write"}, Carries(k, j),
           k.rrev = j.rrev, k.prev = j.prev, ~j.all,
           RequestKnows(j), UNCHANGED files, spoiled \subseteq spoiled',
           k.step = "read" => index[k.at] # NoIndex,
           k.step = "write" => Revisions(k.list) = Listed(k.at) \union {k.rev}
    PROVE  RequestKnows(k)'
<1>2. \A i : Listed(i)' = Listed(i) /\ Stored(i)' = Stored(i) /\ index' = index
  BY DEF Listed, Stored, files
<1> QED BY <1>2 DEF RequestKnows, Carries

\* What add_revision returns lists, of a list of the store.
LEMMA AddLists ==
    ASSUME NEW S, NEW list \in Seq(EntryOf(S)), NEW rev \in S, NEW now \in Nat
    PROVE  Revisions(AddRevision(list, rev, now)) = Revisions(list) \union {rev}
<1> DEFINE more == AddRevision(list, rev, now)
<1>1. more = AddRevision(list, rev, now)
  OBVIOUS
<1> HIDE DEF more
<1>2. \A y : y \in Revisions(more) => y \in Revisions(list) \/ y = rev
  BY <1>1, AddKeeps
<1>3. \A y : y \in Revisions(list) \/ y = rev => y \in Revisions(more)
  BY <1>1, AddKeeps
<1> QED BY <1>1, <1>2, <1>3

LEMMA LookAgrees ==
    ASSUME IInv, ShapeInv, StoreInv, NEW w \in Worker, LookForIndex(w) PROVE StoreInv'
<1>0. /\ ~IsIdle(w) /\ job[w].step = "look" /\ UNCHANGED <<files, spoiled, aborted>>
      /\ RemoveAllGetsThrough' /\ clock \in Nat
  BY DEF LookForIndex, IsIdle, Rest, StoreInv, RemoveAllGetsThrough, ShapeInv, IndexFits
<1>1. JobShape(job[w], clock, ListedOnce) /\ ~job[w].all
  <2>1. JobShape(job[w], clock, ListedOnce)
    BY <1>0, BusyJob
  <2> QED BY <1>0, <2>1 DEF JobShape
<1>2. \E k : /\ job' = [job EXCEPT ![w] = k] /\ Carries(k, job[w])
             /\ k.rrev = job[w].rrev /\ k.prev = job[w].prev
             /\ k.step \in {"read", "write"}
             /\ k.step = "read" => index[k.at] # NoIndex
             /\ k.step = "write" =>
                  Revisions(k.list) = Listed(k.at) \union {k.rev}
  <2>1. CASE index[job[w].at] # NoIndex
    <3>1. PICK k : /\ job' = [job EXCEPT ![w] = k] /\ k.step = "read" /\ Carries(k, job[w])
                   /\ k.rrev = job[w].rrev /\ k.prev = job[w].prev
      <4>1. Step(w, "read")
        BY <2>1 DEF LookForIndex
      <4> QED BY <1>0, <4>1, StepTaken
    <3> QED BY <2>1, <3>1 DEF Carries
  <2>2. CASE index[job[w].at] = NoIndex
    <3> DEFINE list == AddRevision(<<>>, job[w].rev, clock)
    <3>1. PICK k : /\ job' = [job EXCEPT ![w] = k] /\ k.step = "write" /\ k.list = list
                   /\ Carries(k, job[w]) /\ k.rrev = job[w].rrev /\ k.prev = job[w].prev
      <4>1. TakesList(w, "write", list)
        BY <2>2 DEF LookForIndex, TakesList
      <4> HIDE DEF list
      <4> QED BY <1>0, <4>1, ListTaken
    <3>2. Revisions(list) = Revisions(<<>>) \union {job[w].rev}
      <4>1. GoodList(job[w].at, <<>>, clock, ListedOnce) /\ job[w].rev \in RevsAt(job[w].at)
        BY <1>1, EmptyIsGood DEF JobShape
      <4> DEFINE none == <<>>
                 rev == job[w].rev
                 S == RevsAt(job[w].at)
      <4>2. none \in Seq(EntryOf(S)) /\ rev \in S /\ clock \in Nat
        BY <1>0, <4>1 DEF GoodList
      <4> HIDE DEF none, rev, S
      <4>3. Revisions(AddRevision(none, rev, clock)) = Revisions(none) \union {rev}
        BY ONLY <4>2, AddLists
      <4> QED BY <4>3 DEF none, rev
    <3>3. Listed(job[w].at) = {} /\ Revisions(<<>>) = {}
      BY <2>2, EmptyIsGood DEF Listed
    <3> HIDE DEF list
    <3> QED BY <3>1, <3>2, <3>3 DEF Carries
  <2> QED BY <2>1, <2>2
<1>3. PICK k : /\ job' = [job EXCEPT ![w] = k] /\ Carries(k, job[w])
               /\ k.rrev = job[w].rrev /\ k.prev = job[w].prev
               /\ k.step \in {"read", "write"}
               /\ k.step = "read" => index[k.at] # NoIndex
               /\ k.step = "write" =>
                    Revisions(k.list) = Listed(k.at) \union {k.rev}
  BY <1>2
<1>4. ASSUME "race" \notin spoiled PROVE Agrees(k)'
  <2>1. StoreAgrees(job[w]) /\ RootAgrees(job[w]) /\ RequestKnows(job[w])
    BY <1>0, <1>4, BusyAgrees
  <2>2. StoreAgrees(k)' /\ RootAgrees(k)'
    BY <1>0, <1>3, <2>1, StillUnlisted
  <2>3. RequestKnows(k)'
    BY <1>0, <1>1, <1>3, <2>1, StillKnows
  <2> QED BY <2>2, <2>3 DEF Agrees
<1> QED BY <1>0, <1>3, <1>4, StoreStep

LEMMA ReadAgrees ==
    ASSUME IInv, ShapeInv, StoreInv, NEW w \in Worker, ReadIndex(w) PROVE StoreInv'
<1>0. /\ ~IsIdle(w) /\ job[w].step = "read" /\ UNCHANGED <<files, aborted>>
      /\ spoiled \subseteq spoiled' /\ RemoveAllGetsThrough' /\ clock \in Nat
  <2>1. spoiled \subseteq spoiled' /\ UNCHANGED aborted
    BY DEF ReadIndex, Rest
  <2> QED BY <2>1 DEF ReadIndex, IsIdle, Rest, StoreInv, RemoveAllGetsThrough, ShapeInv, IndexFits
<1>1. JobShape(job[w], clock, ListedOnce) /\ ~job[w].all /\ IndexFits
  <2>1. JobShape(job[w], clock, ListedOnce) /\ IndexFits
    BY <1>0, BusyJob
  <2> QED BY <1>0, <2>1 DEF JobShape
<1>2. CASE index[job[w].at] = NoIndex
  <2>1. "race" \in spoiled
    BY <1>0, <1>2, BusyAgrees DEF RequestKnows
  <2>2. Finish(w)
    BY <1>2 DEF ReadIndex
  <2> QED BY <1>0, <2>1, <2>2, StoreFinish
<1>3. CASE index[job[w].at] # NoIndex
  <2> DEFINE old == index[job[w].at]
             list == AddRevision(old, job[w].rev, clock)
  <2>1. PICK k : /\ job' = [job EXCEPT ![w] = k] /\ k.step = "write" /\ k.list = list
                 /\ Carries(k, job[w]) /\ k.rrev = job[w].rrev /\ k.prev = job[w].prev
    <3>1. TakesList(w, "write", list)
      BY <1>3 DEF ReadIndex, TakesList
    <3> HIDE DEF list
    <3> QED BY <1>0, <3>1, ListTaken
  <2>2. Revisions(list) = Revisions(old) \union {job[w].rev}
    <3>1. job[w].rev \in RevsAt(job[w].at) /\ job[w].at \in Indexes
      BY <1>1 DEF JobShape
    <3> DEFINE rev == job[w].rev
               S == RevsAt(job[w].at)
    <3>2. old \in Seq(EntryOf(S)) /\ rev \in S /\ clock \in Nat
      BY <1>0, <1>1, <1>3, <3>1 DEF IndexFits, GoodList
    <3> HIDE DEF old, rev, S
    <3>3. Revisions(AddRevision(old, rev, clock)) = Revisions(old) \union {rev}
      BY ONLY <3>2, AddLists
    <3> QED BY <3>3 DEF rev
  <2>3. Listed(job[w].at) = Revisions(old)
    BY <1>3 DEF Listed
  <2> HIDE DEF old, list
  <2>4. Revisions(k.list) = Listed(k.at) \union {k.rev}
    BY <2>1, <2>2, <2>3 DEF Carries
  <2>5. ASSUME "race" \notin spoiled PROVE Agrees(k)'
    <3>1. StoreAgrees(job[w]) /\ RootAgrees(job[w]) /\ RequestKnows(job[w])
      BY <1>0, <2>5, BusyAgrees
    <3>2. StoreAgrees(k)' /\ RootAgrees(k)'
      BY <1>0, <2>1, <3>1, StillUnlisted
    <3>3. RequestKnows(k)'
      BY <1>0, <1>1, <2>1, <2>4, <3>1, StillKnows
    <3> QED BY <3>2, <3>3 DEF Agrees
  <2>6. k.step # "idle"
    BY <2>1
  <2> QED BY <1>0, <2>1, <2>5, <2>6, StoreStep
<1> QED BY <1>2, <1>3

LEMMA AbandonAgrees ==
    ASSUME IInv, ShapeInv, StoreInv, NEW w \in Worker, V1Abandon(w) PROVE StoreInv'
<1>0. /\ ~IsIdle(w) /\ job[w].step = "store" /\ job[w].v1 /\ UNCHANGED <<files, aborted>>
      /\ Finish(w) /\ spoiled' = spoiled \union {"abandoned"}
      /\ spoiled \subseteq spoiled' /\ RemoveAllGetsThrough'
  BY DEF V1Abandon, IsIdle, Rest, StoreInv, RemoveAllGetsThrough
<1>1. ASSUME "race" \notin spoiled PROVE Settled'
  <2>1. StoreAgrees(job[w])
    BY <1>0, <1>1, BusyAgrees
  <2>2. ~(spoiled' \subseteq {"relisted"}) /\ spoiled' # {}
    BY <1>0
  <2> QED BY <1>0, <2>1, <2>2 DEF Settled, StoreAgrees, RootKept, Stored, Listed, Unlisted, Idle,
                                  files
<1> QED BY <1>0, <1>1, StoreFinish

LEMMA ListIsThere ==
    ASSUME NEW i, NEW list, NEW now, NEW once, GoodList(i, list, now, once)
    PROVE  list # NoIndex
<1> DEFINE All == [revision : RRev \union PRev \union {Zero}, time : Nat]
<1>1. list \in Seq(EntryOf(RevsAt(i))) /\ DOMAIN list = 1..Len(list) /\ Len(list) \in Nat
  BY DEF GoodList
<1>2. EntryOf(RevsAt(i)) \subseteq All
  BY DEF EntryOf, RevsAt, AllRRev, AllPRev
<1> HIDE DEF All
<1>3. list \in Seq(All)
  BY <1>1, <1>2
<1> QED BY <1>3, NoIndexIsNoList DEF All

LEMMA IndexWritten ==
    ASSUME IndexFits, NEW i \in Indexes, NEW v, index' = [index EXCEPT ![i] = v]
    PROVE  /\ index'[i] = v /\ Listed(i)' = IF v = NoIndex THEN {} ELSE Revisions(v)
           /\ \A n \in Indexes \ {i} : index'[n] = index[n] /\ Listed(n)' = Listed(n)
<1>1. index'[i] = v /\ \A n \in Indexes \ {i} : index'[n] = index[n]
  BY DEF IndexFits
<1> QED BY <1>1 DEF Listed

LEMMA WriteAgrees ==
    ASSUME IInv, ShapeInv, StoreInv, NEW w \in Worker, WriteIndex(w) PROVE StoreInv'
<1>j. PICK j : j = job[w]
  OBVIOUS
<1>0. /\ ~IsIdle(w) /\ j.step = "write" /\ UNCHANGED <<recipe, packages, spoiled, aborted>>
      /\ RemoveAllGetsThrough' /\ index' = [index EXCEPT ![j.at] = j.list]
  BY <1>j DEF WriteIndex, IsIdle, Rest, StoreInv, RemoveAllGetsThrough
<1>1. /\ JobShape(j, clock, ListedOnce) /\ j.kind \in {"recipe", "package"}
      /\ ~j.all /\ IndexFits
  <2>1. JobShape(j, clock, ListedOnce) /\ j.kind \in {"recipe", "package"} /\ IndexFits
    BY <1>0, <1>j, BusyJob
  <2> QED BY <1>0, <2>1 DEF JobShape
<1>2. /\ j.at \in Indexes /\ j.list # NoIndex /\ (j.at = Root <=> j.kind = "recipe")
      /\ ~j.v1 => IF j.kind = "recipe" THEN j.rrev = j.rev ELSE j.rrev = j.at /\ j.prev = j.rev
      /\ j.v1 => j.rev = Zero /\ j.at \in {Root, Zero}
  BY <1>1, ListIsThere DEF JobShape
<1>3. /\ index'[j.at] = j.list /\ Listed(j.at)' = Revisions(j.list)
      /\ \A n \in Indexes \ {j.at} : index'[n] = index[n] /\ Listed(n)' = Listed(n)
  BY <1>0, <1>1, <1>2, IndexWritten
<1>4. \A i : Stored(i)' = Stored(i)
  BY <1>0 DEF Stored
\* What is known before.
<1>5. ASSUME "race" \notin spoiled
      PROVE  /\ StoreAgrees(j) /\ RootAgrees(j) /\ RequestKnows(j) /\ PackagesHaveRecipe
             /\ j.kind = "package" => j.rrev \in recipe
             /\ Revisions(j.list) = Listed(j.at) \union {j.rev}
             /\ ~j.v1 => j.rev \in Stored(j.at)
             /\ j.v1 => /\ j.kind = "recipe" => j.rrev \in Listed(Root) \union {Zero}
                        /\ "mixed" \notin spoiled =>
                             j.rrev = Zero /\ (j.kind = "package" => j.prev = Zero)
  <2>1. StoreAgrees(j) /\ RootAgrees(j) /\ RequestKnows(j) /\ PackagesHaveRecipe
        /\ (StoresPackage(j) => j.rrev \in recipe)
    BY <1>0, <1>5, <1>j, BusyAgrees
  <2> QED BY <1>0, <2>1 DEF RequestKnows, StoresPackage
<1>n. Root \notin AllRRev /\ Root \in Indexes
  BY RootIsNoRevision DEF AllRRev, Indexes
\* The entry is in the index now.
<1>6. ASSUME "race" \notin spoiled
      PROVE  /\ \A i \in Indexes : i = Root \/ "mixed" \notin spoiled =>
                  Stored(i)' \subseteq Listed(i)'
             /\ spoiled = {} => \A i \in Indexes :
                  Listed(i)' \subseteq Stored(i) \union (IF i = j.at THEN {j.rev} ELSE {})
             /\ "mixed" \notin spoiled => \A r \in AllRRev : index'[r] # NoIndex => r \in recipe
             /\ j.kind = "recipe" => index'[Root] # NoIndex
             /\ j.kind = "package" => RootKept'
  <2>1. ASSUME NEW i \in Indexes, i = Root \/ "mixed" \notin spoiled
        PROVE  Stored(i)' \subseteq Listed(i)'
    <3>1. Stored(i) \subseteq Listed(i) \union (IF i = j.at THEN {j.rev} ELSE {})
      BY <1>5, <1>6, <2>1 DEF StoreAgrees, Unlisted
    <3>2. CASE i = j.at
      BY <1>3, <1>4, <1>5, <1>6, <3>1, <3>2
    <3>3. CASE i # j.at
      BY <1>3, <1>4, <3>1, <3>3
    <3> QED BY <3>2, <3>3
  <2>2. ASSUME NEW i \in Indexes, spoiled = {}
        PROVE  Listed(i)' \subseteq Stored(i) \union (IF i = j.at THEN {j.rev} ELSE {})
    <3>1. Listed(i) \subseteq Stored(i)
      BY <1>0, <1>5, <1>6, <2>2 DEF StoreAgrees, Unstored
    <3>2. CASE i = j.at
      BY <1>3, <1>5, <1>6, <3>1, <3>2
    <3>3. CASE i # j.at
      BY <1>3, <3>1, <3>3
    <3> QED BY <3>2, <3>3
  <2>3. ASSUME "mixed" \notin spoiled, NEW r \in AllRRev, index'[r] # NoIndex
        PROVE  r \in recipe
    <3>1. CASE r # j.at
      BY <1>3, <1>5, <1>6, <2>3, <3>1 DEF StoreAgrees, Indexes
    <3>2. CASE r = j.at
      BY <1>1, <1>2, <1>5, <1>6, <1>n, <2>3, <3>2
    <3> QED BY <3>1, <3>2
  <2>4. j.kind = "recipe" => index'[Root] # NoIndex
    BY <1>2, <1>3
  <2>5. j.kind = "package" => RootKept'
    <3>1. j.kind = "package" => RootKept /\ index'[Root] = index[Root]
      BY <1>2, <1>3, <1>5, <1>6, <1>n DEF RootAgrees, RootListed, RootMissing
    <3> QED BY <1>0, <3>1 DEF RootKept
  <2> QED BY <2>1, <2>2, <2>3, <2>4, <2>5
<1>7. CASE ~j.v1 /\ Finish(w)
  <2>1. ASSUME "race" \notin spoiled PROVE Settled'
    <3>1. StoreAgrees(Idle)'
      <4>1. spoiled = {} => \A i \in Indexes : Listed(i)' \subseteq Stored(i)'
        BY <1>4, <1>5, <1>6, <1>7, <2>1
      <4> QED BY <1>0, <1>6, <2>1, <4>1 DEF StoreAgrees, Unlisted, Unstored, Idle
    <3>2. RootKept'
      <4>1. CASE j.kind = "recipe"
        <5>1. j.rev \in recipe
          BY <1>2, <1>5, <1>7, <2>1, <4>1 DEF Stored
        <5> QED BY <1>0, <1>6, <2>1, <4>1, <5>1 DEF RootKept
      <4> QED BY <1>1, <1>6, <2>1, <4>1
    <3> QED BY <3>1, <3>2 DEF Settled
  <2> QED BY <1>0, <1>7, <2>1, StoreFinish
<1>8. CASE j.v1 /\ Step(w, "store")
  <2>1. PICK k : /\ job' = [job EXCEPT ![w] = k] /\ k.step = "store" /\ Carries(k, j)
                 /\ k.rrev = j.rrev /\ k.prev = j.prev
    BY <1>0, <1>8, <1>j, StepTaken
  <2>2. ASSUME "race" \notin spoiled PROVE Agrees(k)'
    <3>0. k.v1 /\ k.at = j.at /\ k.rev = j.rev /\ k.kind = j.kind /\ ~k.all
      BY <1>1, <1>8, <2>1 DEF Carries
    <3>1. StoreAgrees(k)'
      <4>1. /\ \A i : Unlisted(k, i)' = {}
            /\ \A i : Unstored(k, i)' = IF i = j.at THEN {j.rev} ELSE {}
        BY <2>1, <3>0 DEF Unlisted, Unstored
      <4> QED BY <1>0, <1>4, <1>6, <2>2, <4>1 DEF StoreAgrees
    <3>2. RootAgrees(k)'
      BY <1>0, <1>1, <1>6, <2>1, <2>2, <3>0 DEF RootAgrees, RootListed, RootMissing
    <3>3. RequestKnows(k)'
      <4>1. /\ k.kind = "recipe" => k.rrev \in Listed(Root)' \union {Zero}
            /\ "mixed" \notin spoiled => k.rrev = Zero /\ (k.kind = "package" => k.prev = Zero)
            /\ k.rev \in Listed(k.at)'
        BY <1>2, <1>3, <1>5, <1>8, <2>1, <2>2, <3>0
      <4> QED BY <1>0, <2>1, <3>0, <4>1 DEF RequestKnows
    <3> QED BY <3>1, <3>2, <3>3 DEF Agrees
  <2>3. k.step # "idle"
    BY <2>1
  <2> QED BY <1>0, <2>1, <2>2, <2>3, StoreStep
<1> QED BY <1>7, <1>8, <1>j DEF WriteIndex

\* The folder of a recipe is there, or there is nothing of it.
LEMMA FolderHasRecipe ==
    ASSUME PackagesHaveRecipe, "race" \notin spoiled, "mixed" \notin spoiled,
           \A r \in AllRRev : index[r] # NoIndex => r \in recipe,
           NEW r \in AllRRev
    PROVE  FolderExists(r) <=> r \in recipe
BY DEF PackagesHaveRecipe, FolderExists

LEMMA DropAgrees ==
    ASSUME IInv, ShapeInv, StoreInv, NEW w \in Worker, DropFolder(w) PROVE StoreInv'
<1>j. PICK j : j = job[w]
  OBVIOUS
<1>0. ~IsIdle(w) /\ j.step = "drop" /\ UNCHANGED spoiled /\ (spoiled = {} => ~aborted)
  BY <1>j DEF DropFolder, IsIdle, StoreInv, RemoveAllGetsThrough
<1>1. /\ j.kind \in {"recipe", "package"} /\ IndexFits
      /\ j.at \in Indexes /\ j.rrev \in AllRRev /\ (j.at = Root <=> j.kind = "recipe")
      /\ ~j.v1
      /\ IF j.kind = "recipe" THEN j.rrev = j.rev ELSE j.rrev = j.at /\ j.prev = j.rev
      /\ j.all => j.kind = "recipe"
  <2>1. JobShape(j, clock, ListedOnce) /\ j.kind \in {"recipe", "package"} /\ IndexFits
    BY <1>0, <1>j, BusyJob
  <2> QED BY <1>0, <2>1 DEF JobShape
<1>2. ASSUME "race" \notin spoiled
      PROVE  /\ Settled /\ StoreAgrees(j) /\ PackagesHaveRecipe
             /\ spoiled = {} /\ j.all =>
                  /\ j.rev \in recipe
                  /\ \A n \in DOMAIN j.todo : j.todo[n] \in recipe /\ j.todo[n] # j.rev
                  /\ \A n, m \in DOMAIN j.todo : j.todo[n] = j.todo[m] => n = m
  <2>1. StoreAgrees(j) /\ RootAgrees(j) /\ RequestKnows(j) /\ PackagesHaveRecipe
    BY <1>0, <1>2, <1>j, BusyAgrees
  <2> QED BY <1>0, <2>1, NothingDone DEF RequestKnows
<1>n. Root \notin AllRRev /\ Root \in Indexes /\ AllRRev \subseteq Indexes
  BY RootIsNoRevision DEF AllRRev, Indexes
\* Nothing to drop.
<1>3. CASE Finish(w) /\ UNCHANGED files
  <2>1. ASSUME "race" \notin spoiled PROVE Settled'
    BY <1>0, <1>2, <1>3, <2>1, SettledStays
  <2>2. RemoveAllGetsThrough'
    <3>1. CASE UNCHANGED aborted
      BY <1>0, <3>1 DEF RemoveAllGetsThrough
    <3>2. CASE aborted' = (aborted \/ j.all) /\ ~FolderExists(j.rrev) /\ j.kind = "recipe"
      <4>1. spoiled = {} => ~j.all
        BY <1>1, <1>2, <3>2 DEF FolderExists
      <4> QED BY <1>0, <3>2, <4>1 DEF RemoveAllGetsThrough
    <3>3. ~UNCHANGED aborted =>
            aborted' = (aborted \/ j.all) /\ ~FolderExists(j.rrev) /\ j.kind = "recipe"
      BY <1>j DEF DropFolder
    <3> QED BY <3>1, <3>2, <3>3
  <2>3. spoiled \subseteq spoiled'
    BY <1>0
  <2> QED BY <1>0, <1>3, <2>1, <2>2, <2>3, StoreFinish
\* The folder goes.
<1>4. CASE Step(w, "unread") /\ UNCHANGED aborted
  <2>1. PICK k : /\ job' = [job EXCEPT ![w] = k] /\ k.step = "unread" /\ Carries(k, j)
                 /\ k.rrev = j.rrev /\ k.prev = j.prev
    BY <1>0, <1>4, <1>j, StepTaken
  <2>0. k.at = j.at /\ k.rev = j.rev /\ k.kind = j.kind /\ ~k.v1 /\ k.all = j.all
        /\ k.todo = j.todo
    BY <1>1, <2>1 DEF Carries
  <2>2. /\ j.kind = "recipe" =>
             /\ FolderExists(j.rrev)
             /\ recipe' = recipe \ {j.rrev} /\ packages'[j.rrev] = {} /\ index'[j.rrev] = NoIndex
             /\ \A r \in AllRRev \ {j.rrev} : packages'[r] = packages[r]
             /\ \A i \in Indexes \ {j.rrev} : index'[i] = index[i]
        /\ j.kind = "package" =>
             /\ recipe' = recipe /\ index' = index
             /\ packages'[j.rrev] = packages[j.rrev] \ {j.prev}
             /\ \A r \in AllRRev \ {j.rrev} : packages'[r] = packages[r]
    <3>1. packages = [r \in AllRRev |-> packages[r]] /\ index = [i \in Indexes |-> index[i]]
      BY <1>1 DEF IInv, PackagesFit, IndexFits
    <3>2. job' # [job EXCEPT ![w] = Idle]
      <4>1. job'[w].step = "unread" /\ Idle.step = "idle"
        BY <2>1 DEF IInv, JobsFit, Idle
      <4> QED BY <4>1 DEF IInv, JobsFit
    <3>3. CASE j.kind = "recipe"
      <4>1. /\ FolderExists(j.rrev) /\ recipe' = recipe \ {j.rrev}
            /\ packages' = [packages EXCEPT ![j.rrev] = {}]
            /\ index' = [index EXCEPT ![j.rrev] = NoIndex]
        BY <1>j, <3>2, <3>3 DEF DropFolder, Finish
      <4> QED BY <1>1, <1>n, <3>1, <3>3, <4>1
    <3>4. CASE j.kind = "package"
      <4>1. /\ recipe' = recipe /\ index' = index
            /\ packages' = [packages EXCEPT ![j.rrev] = packages[j.rrev] \ {j.prev}]
        BY <1>j, <3>2, <3>4 DEF DropFolder, Finish
      <4> QED BY <1>1, <3>1, <3>4, <4>1
    <3> QED BY <1>1, <3>3, <3>4
  <2>3. ASSUME "race" \notin spoiled PROVE Agrees(k)'
    <3>s. StoreAgrees(Idle) /\ RootKept /\ PackagesHaveRecipe
      BY <1>2, <2>3 DEF Settled
    <3>1. ASSUME NEW i \in Indexes, i = Root \/ "mixed" \notin spoiled
          PROVE  Stored(i)' \subseteq Listed(i)'
      <4>1. Stored(i) \subseteq Listed(i)
        BY <3>1, <3>s DEF StoreAgrees, Unlisted, Idle
      <4>2. Stored(i)' \subseteq Stored(i)
        BY <1>1, <1>n, <2>2 DEF Stored, Indexes
      <4>3. CASE Listed(i)' = Listed(i)
        BY <4>1, <4>2, <4>3
      <4>4. CASE Listed(i)' # Listed(i)
        <5>1. i = j.rrev /\ j.kind = "recipe"
          BY <1>1, <2>2, <4>4 DEF Listed
        <5> QED BY <1>1, <1>n, <2>2, <5>1 DEF Stored
      <4> QED BY <4>3, <4>4
    <3>2. ASSUME NEW i \in Indexes, spoiled = {}
          PROVE  Listed(i)' \subseteq Stored(i)' \union (IF i = j.at THEN {j.rev} ELSE {})
      <4>1. Listed(i) \subseteq Stored(i)
        BY <3>2, <3>s DEF StoreAgrees, Unstored, Idle
      <4>2. CASE j.kind = "recipe" /\ i = j.rrev
        BY <1>1, <1>n, <2>2, <4>2 DEF Listed
      <4>3. CASE j.kind = "recipe" /\ i # j.rrev
        <5>1. Listed(i)' = Listed(i)
          BY <2>2, <4>3 DEF Listed
        <5> QED BY <1>1, <1>n, <2>2, <4>1, <4>3, <5>1 DEF Stored, Indexes
      <4>4. CASE j.kind = "package"
        <5>1. Listed(i)' = Listed(i)
          BY <2>2, <4>4 DEF Listed
        <5> QED BY <1>1, <1>n, <2>2, <4>1, <4>4, <5>1 DEF Stored, Indexes
      <4> QED BY <1>1, <4>2, <4>3, <4>4
    <3>3. ASSUME "mixed" \notin spoiled, NEW r \in AllRRev, index'[r] # NoIndex
          PROVE  r \in recipe'
      BY <1>1, <1>n, <2>2, <3>3, <3>s DEF StoreAgrees
    <3>4. StoreAgrees(k)'
      <4>1. /\ \A i : Unlisted(k, i)' = {}
            /\ \A i : Unstored(k, i)' = IF i = j.at THEN {j.rev} ELSE {}
        BY <2>0, <2>1 DEF Unlisted, Unstored
      <4> QED BY <1>0, <3>1, <3>2, <3>3, <4>1 DEF StoreAgrees
    <3>5. RootAgrees(k)'
      <4>1. CASE j.kind = "recipe"
        <5>1. ASSUME spoiled \subseteq {"relisted"} PROVE index'[Root] # NoIndex
          <6>1. "mixed" \notin spoiled
            BY <5>1
          <6>2. \A r \in AllRRev : index[r] # NoIndex => r \in recipe
            BY <3>s, <6>1 DEF StoreAgrees
          <6>3. j.rrev \in recipe
            BY <1>1, <2>2, <2>3, <3>s, <4>1, <6>1, <6>2, FolderHasRecipe
          <6>4. index[Root] # NoIndex
            BY <3>s, <5>1, <6>3 DEF RootKept
          <6> QED BY <1>1, <1>n, <2>2, <4>1, <6>4
        <5> QED BY <1>0, <2>0, <2>1, <4>1, <5>1 DEF RootAgrees, RootListed
      <4>2. CASE j.kind = "package"
        <5>1. RootKept'
          BY <1>0, <2>2, <3>s, <4>2 DEF RootKept
        <5> QED BY <2>0, <4>2, <5>1 DEF RootAgrees, RootListed
      <4> QED BY <1>1, <4>1, <4>2
    <3>6. RequestKnows(k)'
      <4>1. k.rev \notin Stored(k.at)'
        BY <1>1, <1>n, <2>0, <2>2 DEF Stored
      <4>2. spoiled = {} /\ k.all =>
              /\ \A n \in DOMAIN k.todo : k.todo[n] \in recipe' /\ k.todo[n] # k.rev
              /\ \A n, m \in DOMAIN k.todo : k.todo[n] = k.todo[m] => n = m
        BY <1>1, <1>2, <2>0, <2>2, <2>3
      <4> QED BY <1>0, <2>0, <2>1, <4>1, <4>2 DEF RequestKnows
    <3> QED BY <3>4, <3>5, <3>6 DEF Agrees
  <2>4. k.step # "idle" /\ RemoveAllGetsThrough' /\ spoiled \subseteq spoiled'
    BY <1>0, <1>4, <2>1 DEF RemoveAllGetsThrough
  <2> QED BY <1>0, <2>1, <2>3, <2>4, StoreStep
<1> QED BY <1>3, <1>4 DEF DropFolder

\* What remove_revision leaves listed, of a list of the store.
LEMMA RemoveLists ==
    ASSUME NEW S, NEW list \in Seq(EntryOf(S)), NEW rev
    PROVE  /\ Revisions(RemoveRevision(list, rev)) \subseteq Revisions(list)
           /\ Revisions(list) \subseteq Revisions(RemoveRevision(list, rev)) \union {rev}
           /\ Distinct(list) => rev \notin Revisions(RemoveRevision(list, rev))
<1> DEFINE less == RemoveRevision(list, rev)
<1>1. less = RemoveRevision(list, rev) /\ 0 \in Nat
  OBVIOUS
<1> HIDE DEF less
<1>2. Revisions(less) \subseteq Revisions(list)
  BY <1>1, RemoveKeeps
<1>3. Revisions(list) \subseteq Revisions(less) \union {rev}
  BY <1>1, RemoveKeeps
<1>4. Distinct(list) => rev \notin Revisions(less)
  BY <1>1, RemoveKeeps
<1> QED BY <1>1, <1>2, <1>3, <1>4

LEMMA UnlistReadAgrees ==
    ASSUME IInv, ShapeInv, StoreInv, NEW w \in Worker, UnlistRead(w) PROVE StoreInv'
<1>j. PICK j : j = job[w]
  OBVIOUS
<1>0. /\ ~IsIdle(w) /\ j.step = "unread" /\ UNCHANGED <<files, spoiled, aborted>>
      /\ RemoveAllGetsThrough' /\ spoiled \subseteq spoiled' /\ clock \in Nat
  BY <1>j DEF UnlistRead, IsIdle, Rest, StoreInv, RemoveAllGetsThrough, ShapeInv, IndexFits
<1>1. /\ j.kind \in {"recipe", "package"} /\ IndexFits /\ j.at \in Indexes
      /\ (j.at = Root <=> j.kind = "recipe") /\ ~j.v1
  <2>1. JobShape(j, clock, ListedOnce) /\ j.kind \in {"recipe", "package"} /\ IndexFits
    BY <1>0, <1>j, BusyJob
  <2> QED BY <1>0, <2>1 DEF JobShape
<1>2. ASSUME "race" \notin spoiled
      PROVE  StoreAgrees(j) /\ RootAgrees(j) /\ RequestKnows(j)
  BY <1>0, <1>2, <1>j, BusyAgrees
<1>l. \A i : Listed(i)' = Listed(i) /\ Stored(i)' = Stored(i)
  BY <1>0 DEF Listed, Stored, files
\* The request fails: the index that it was to update is gone.
<1>3. CASE index[j.at] = NoIndex
  <2>1. ASSUME "race" \notin spoiled PROVE Settled'
    <3>1. Listed(j.at) = {}
      BY <1>3 DEF Listed
    <3>2. spoiled = {} => \A i \in Indexes : Listed(i) \subseteq Stored(i)
      BY <1>2, <2>1, <3>1 DEF StoreAgrees, Unstored
    <3>3. \A i \in Indexes : Unlisted(j, i) = {}
      BY <1>0 DEF Unlisted
    <3>4. StoreAgrees(Idle)'
      BY <1>0, <1>2, <1>l, <2>1, <3>2, <3>3 DEF StoreAgrees, Unlisted, Unstored, Idle, files
    <3>5. RootKept
      BY <1>0, <1>1, <1>2, <1>3, <2>1 DEF RootAgrees, RootListed, RootMissing, RootKept
    <3> QED BY <1>0, <3>4, <3>5 DEF Settled, RootKept, files
  <2>2. Finish(w)
    BY <1>3, <1>j DEF UnlistRead
  <2> QED BY <1>0, <2>1, <2>2, StoreFinish
<1>4. CASE index[j.at] # NoIndex
  <2> DEFINE old == index[j.at]
             list == RemoveRevision(old, j.rev)
  <2>1. PICK k : /\ job' = [job EXCEPT ![w] = k] /\ k.step = "unwrite" /\ k.list = list
                 /\ Carries(k, j) /\ k.rrev = j.rrev /\ k.prev = j.prev
    <3>1. TakesList(w, "unwrite", list)
      BY <1>4, <1>j DEF UnlistRead, TakesList
    <3> HIDE DEF list
    <3> QED BY <1>0, <1>j, <3>1, ListTaken
  <2>0. k.at = j.at /\ k.rev = j.rev /\ k.kind = j.kind /\ ~k.v1 /\ k.all = j.all
        /\ k.todo = j.todo
    BY <1>1, <2>1 DEF Carries
  <2>2. /\ Revisions(list) \subseteq Revisions(old)
        /\ Revisions(old) \subseteq Revisions(list) \union {j.rev}
        /\ ListedOnce => j.rev \notin Revisions(list)
    <3> DEFINE S == RevsAt(j.at)
    <3>1. old \in Seq(EntryOf(S)) /\ (ListedOnce => Distinct(old))
      BY <1>1, <1>4 DEF IndexFits, GoodList
    <3> HIDE DEF old, S
    <3>2. /\ Revisions(RemoveRevision(old, j.rev)) \subseteq Revisions(old)
          /\ Revisions(old) \subseteq Revisions(RemoveRevision(old, j.rev)) \union {j.rev}
          /\ Distinct(old) => j.rev \notin Revisions(RemoveRevision(old, j.rev))
      BY ONLY <3>1, RemoveLists
    <3> QED BY <3>1, <3>2
  <2>3. Listed(j.at) = Revisions(old)
    BY <1>4 DEF Listed
  <2> HIDE DEF old, list
  <2>4. ASSUME "race" \notin spoiled PROVE Agrees(k)'
    <3>1. StoreAgrees(k)'
      <4>1. \A i : Unlisted(k, i)' = Unlisted(j, i) /\ Unstored(k, i)' = Unstored(j, i)
        BY <1>0, <1>1, <2>0, <2>1 DEF Unlisted, Unstored
      <4> QED BY <1>0, <1>2, <1>l, <2>4, <4>1 DEF StoreAgrees, files
    <3>2. RootAgrees(k)'
      BY <1>0, <1>1, <1>2, <2>0, <2>1, <2>4 DEF RootAgrees, RootListed, RootMissing, RootKept,
         files
    <3>3. RequestKnows(k)'
      <4>1. k.rev \notin Stored(k.at)'
        BY <1>0, <1>2, <1>l, <2>0, <2>4 DEF RequestKnows
      <4>2. /\ Listed(k.at)' \subseteq Revisions(k.list) \union {k.rev}
            /\ Revisions(k.list) \subseteq Listed(k.at)'
            /\ "relisted" \notin spoiled' => k.rev \notin Revisions(k.list)
        BY <1>0, <1>l, <2>0, <2>1, <2>2, <2>3 DEF ListedOnce
      <4>3. index'[k.at] # NoIndex
        BY <1>0, <1>4, <2>0 DEF files
      <4>4. spoiled' = {} /\ k.all =>
              /\ \A n \in DOMAIN k.todo : k.todo[n] \in recipe' /\ k.todo[n] # k.rev
              /\ \A n, m \in DOMAIN k.todo : k.todo[n] = k.todo[m] => n = m
        BY <1>0, <1>2, <2>0, <2>4 DEF RequestKnows, files
      <4> QED BY <2>0, <2>1, <4>1, <4>2, <4>3, <4>4 DEF RequestKnows
    <3> QED BY <3>1, <3>2, <3>3 DEF Agrees
  <2>5. k.step # "idle"
    BY <2>1
  <2> QED BY <1>0, <2>1, <2>4, <2>5, StoreStep
<1> QED BY <1>3, <1>4

LEMMA UnlistWriteAgrees ==
    ASSUME IInv, ShapeInv, StoreInv, NEW w \in Worker, UnlistWrite(w) PROVE StoreInv'
<1>j. PICK j : j = job[w]
  OBVIOUS
<1>0. /\ ~IsIdle(w) /\ j.step = "unwrite" /\ UNCHANGED <<recipe, packages, spoiled, aborted>>
      /\ RemoveAllGetsThrough' /\ spoiled \subseteq spoiled'
      /\ index' = [index EXCEPT ![j.at] = j.list]
  BY <1>j DEF UnlistWrite, IsIdle, Rest, StoreInv, RemoveAllGetsThrough
<1>1. /\ j.kind \in {"recipe", "package"} /\ IndexFits /\ j.at \in Indexes
      /\ (j.at = Root <=> j.kind = "recipe") /\ ~j.v1 /\ j.list # NoIndex
      /\ j.all => j.kind = "recipe"
  <2>1. JobShape(j, clock, ListedOnce) /\ j.kind \in {"recipe", "package"} /\ IndexFits
    BY <1>0, <1>j, BusyJob
  <2> QED BY <1>0, <2>1, ListIsThere DEF JobShape
<1>2. ASSUME "race" \notin spoiled
      PROVE  /\ StoreAgrees(j) /\ RootAgrees(j) /\ RequestKnows(j)
             /\ index[j.at] # NoIndex /\ j.rev \notin Stored(j.at)
             /\ Listed(j.at) \subseteq Revisions(j.list) \union {j.rev}
             /\ Revisions(j.list) \subseteq Listed(j.at)
             /\ "relisted" \notin spoiled => j.rev \notin Revisions(j.list)
  <2>1. StoreAgrees(j) /\ RootAgrees(j) /\ RequestKnows(j)
    BY <1>0, <1>2, <1>j, BusyAgrees
  <2> QED BY <1>0, <2>1 DEF RequestKnows
<1>3. /\ index'[j.at] = j.list /\ Listed(j.at)' = Revisions(j.list)
      /\ \A n \in Indexes \ {j.at} : index'[n] = index[n] /\ Listed(n)' = Listed(n)
  BY <1>0, <1>1, IndexWritten
<1>4. \A i : Stored(i)' = Stored(i)
  BY <1>0 DEF Stored
<1>n. Root \notin AllRRev /\ Root \in Indexes /\ AllRRev \subseteq Indexes
  BY RootIsNoRevision DEF AllRRev, Indexes
\* The entry is out of the index now.
<1>5. ASSUME "race" \notin spoiled
      PROVE  /\ \A i \in Indexes : i = Root \/ "mixed" \notin spoiled =>
                  Stored(i)' \subseteq Listed(i)'
             /\ spoiled = {} => \A i \in Indexes : Listed(i)' \subseteq Stored(i)'
             /\ "mixed" \notin spoiled => \A r \in AllRRev : index'[r] # NoIndex => r \in recipe
             /\ j.kind = "recipe" => index'[Root] # NoIndex
             /\ j.kind = "package" => RootKept'
  <2>1. ASSUME NEW i \in Indexes, i = Root \/ "mixed" \notin spoiled
        PROVE  Stored(i)' \subseteq Listed(i)'
    <3>1. Stored(i) \subseteq Listed(i)
      BY <1>0, <1>2, <1>5, <2>1 DEF StoreAgrees, Unlisted
    <3>2. CASE i = j.at
      BY <1>2, <1>3, <1>4, <1>5, <3>1, <3>2
    <3>3. CASE i # j.at
      BY <1>3, <1>4, <3>1, <3>3
    <3> QED BY <3>2, <3>3
  <2>2. ASSUME NEW i \in Indexes, spoiled = {}
        PROVE  Listed(i)' \subseteq Stored(i)'
    <3>1. Listed(i) \subseteq Stored(i) \union (IF i = j.at THEN {j.rev} ELSE {})
      BY <1>0, <1>2, <1>5, <2>2 DEF StoreAgrees, Unstored
    <3>2. CASE i = j.at
      BY <1>2, <1>3, <1>4, <1>5, <2>2, <3>1, <3>2
    <3>3. CASE i # j.at
      BY <1>3, <1>4, <3>1, <3>3
    <3> QED BY <3>2, <3>3
  <2>3. ASSUME "mixed" \notin spoiled, NEW r \in AllRRev, index'[r] # NoIndex
        PROVE  r \in recipe
    <3>1. index[r] # NoIndex
      BY <1>2, <1>3, <1>5, <1>n, <2>3
    <3> QED BY <1>2, <1>5, <2>3, <3>1 DEF StoreAgrees
  <2>4. j.kind = "recipe" => index'[Root] # NoIndex
    BY <1>1, <1>3
  <2>5. j.kind = "package" => RootKept'
    <3>1. j.kind = "package" => RootKept /\ index'[Root] = index[Root]
      BY <1>1, <1>2, <1>3, <1>5, <1>n DEF RootAgrees, RootListed, RootMissing
    <3> QED BY <1>0, <3>1 DEF RootKept
  <2> QED BY <2>1, <2>2, <2>3, <2>4, <2>5
<1>6. CASE j.kind = "package" /\ Finish(w)
  <2>1. ASSUME "race" \notin spoiled PROVE Settled'
    <3>1. StoreAgrees(Idle)'
      BY <1>0, <1>5, <2>1 DEF StoreAgrees, Unlisted, Unstored, Idle
    <3> QED BY <1>5, <1>6, <2>1, <3>1 DEF Settled
  <2> QED BY <1>0, <1>6, <2>1, StoreFinish
<1>7. CASE j.kind = "recipe" /\ Step(w, "sweep")
  <2>1. PICK k : /\ job' = [job EXCEPT ![w] = k] /\ k.step = "sweep" /\ Carries(k, j)
                 /\ k.rrev = j.rrev /\ k.prev = j.prev
    BY <1>0, <1>7, <1>j, StepTaken
  <2>0. k.at = j.at /\ k.rev = j.rev /\ k.kind = j.kind /\ ~k.v1 /\ k.all = j.all
        /\ k.todo = j.todo
    BY <1>1, <2>1 DEF Carries
  <2>2. ASSUME "race" \notin spoiled PROVE Agrees(k)'
    <3>1. StoreAgrees(k)'
      <4>1. \A i : Unlisted(k, i)' = {} /\ Unstored(k, i)' = {}
        BY <2>0, <2>1 DEF Unlisted, Unstored
      <4> QED BY <1>0, <1>5, <2>2, <4>1 DEF StoreAgrees
    <3>2. RootAgrees(k)'
      BY <1>0, <1>5, <1>7, <2>0, <2>1, <2>2 DEF RootAgrees, RootListed
    <3>3. RequestKnows(k)'
      <4>1. spoiled' = {} /\ k.all =>
              /\ \A n \in DOMAIN k.todo : k.todo[n] \in recipe' /\ k.todo[n] # k.rev
              /\ \A n, m \in DOMAIN k.todo : k.todo[n] = k.todo[m] => n = m
        BY <1>0, <1>2, <2>0, <2>2 DEF RequestKnows
      <4> QED BY <2>0, <2>1, <4>1 DEF RequestKnows
    <3> QED BY <3>1, <3>2, <3>3 DEF Agrees
  <2>3. k.step # "idle"
    BY <2>1
  <2> QED BY <1>0, <2>1, <2>2, <2>3, StoreStep
<1> QED BY <1>1, <1>6, <1>7, <1>j DEF UnlistWrite

LEMMA SweepAgrees ==
    ASSUME IInv, ShapeInv, StoreInv, NEW w \in Worker, Sweep(w) PROVE StoreInv'
<1>j. PICK j : j = job[w]
  OBVIOUS
<1>0. /\ ~IsIdle(w) /\ j.step = "sweep" /\ UNCHANGED <<recipe, packages, spoiled, aborted>>
      /\ RemoveAllGetsThrough' /\ spoiled \subseteq spoiled' /\ recipe \subseteq AllRRev
  BY <1>j DEF Sweep, IsIdle, Rest, StoreInv, RemoveAllGetsThrough, ShapeInv
<1>1. /\ j.kind = "recipe" /\ IndexFits /\ ~j.v1 /\ j.todo \in Seq(AllRRev)
      /\ j.todo # <<>> => j.all
  <2>1. JobShape(j, clock, ListedOnce) /\ IndexFits
    BY <1>0, <1>j, BusyJob
  <2> QED BY <1>0, <2>1 DEF JobShape
<1>2. ASSUME "race" \notin spoiled
      PROVE  /\ StoreAgrees(j) /\ RequestKnows(j) /\ PackagesHaveRecipe
             /\ spoiled \subseteq {"relisted"} => index[Root] # NoIndex
  <2>1. StoreAgrees(j) /\ RootAgrees(j) /\ RequestKnows(j) /\ PackagesHaveRecipe
    BY <1>0, <1>2, <1>j, BusyAgrees
  <2> QED BY <1>0, <1>1, <2>1 DEF RootAgrees, RootListed
<1>n. Root \notin AllRRev /\ Root \in Indexes /\ AllRRev \subseteq Indexes
  BY RootIsNoRevision DEF AllRRev, Indexes
<1>3. /\ \A r \in AllRRev : index'[r] = index[r] /\ Listed(r)' = Listed(r)
      /\ \/ index'[Root] = index[Root] /\ \E r \in AllRRev : FolderExists(r)
         \/ index'[Root] = NoIndex /\ ~\E r \in AllRRev : FolderExists(r)
  <2>1. CASE \E r \in AllRRev : FolderExists(r)
    BY <2>1 DEF Sweep, Listed
  <2>2. CASE ~\E r \in AllRRev : FolderExists(r)
    <3>1. index' = [index EXCEPT ![Root] = NoIndex]
      BY <2>2 DEF Sweep
    <3>2. index'[Root] = NoIndex /\ \A r \in AllRRev : index'[r] = index[r]
      BY <1>1, <1>n, <3>1 DEF IndexFits
    <3> QED BY <2>2, <3>2 DEF Listed
  <2> QED BY <2>1, <2>2
<1>4. ASSUME "race" \notin spoiled PROVE Settled'
  <2>0. \A i : Unlisted(j, i) = {} /\ Unstored(j, i) = {}
    BY <1>0, <1>1 DEF Unlisted, Unstored
  <2>1. ASSUME NEW i \in Indexes, i = Root \/ "mixed" \notin spoiled
        PROVE  Stored(i)' \subseteq Listed(i)'
    <3>1. Stored(i) \subseteq Listed(i) /\ Stored(i)' = Stored(i)
      BY <1>0, <1>2, <1>4, <2>0, <2>1 DEF StoreAgrees, Stored
    <3>2. CASE Listed(i)' = Listed(i)
      BY <3>1, <3>2
    <3>3. CASE Listed(i)' # Listed(i)
      <4>1. i = Root /\ ~\E r \in AllRRev : FolderExists(r)
        BY <1>3, <3>3 DEF Listed, Indexes
      <4>2. recipe = {}
        BY <1>0, <4>1 DEF FolderExists
      <4> QED BY <1>0, <4>1, <4>2 DEF Stored
    <3> QED BY <3>2, <3>3
  <2>2. ASSUME NEW i \in Indexes, spoiled = {}
        PROVE  Listed(i)' \subseteq Stored(i)'
    <3>1. Listed(i) \subseteq Stored(i) /\ Stored(i)' = Stored(i)
      BY <1>0, <1>2, <1>4, <2>0, <2>2 DEF StoreAgrees, Stored
    <3>2. Listed(i)' \subseteq Listed(i)
      BY <1>3 DEF Listed, Indexes
    <3> QED BY <3>1, <3>2
  <2>3. ASSUME "mixed" \notin spoiled, NEW r \in AllRRev, index'[r] # NoIndex
        PROVE  r \in recipe
    BY <1>2, <1>3, <1>4, <2>3 DEF StoreAgrees
  <2>4. StoreAgrees(Idle)'
    BY <1>0, <2>1, <2>2, <2>3 DEF StoreAgrees, Unlisted, Unstored, Idle
  <2>5. ASSUME spoiled \subseteq {"relisted"} PROVE index'[Root] = NoIndex <=> recipe = {}
    <3>1. index[Root] # NoIndex /\ "mixed" \notin spoiled
      BY <1>2, <1>4, <2>5
    <3>2. \A r \in AllRRev : index[r] # NoIndex => r \in recipe
      BY <1>2, <1>4, <3>1 DEF StoreAgrees
    <3>3. \A r \in AllRRev : FolderExists(r) <=> r \in recipe
      BY <1>2, <1>4, <3>1, <3>2, FolderHasRecipe
    <3> QED BY <1>0, <1>3, <3>1, <3>3
  <2> QED BY <1>0, <2>4, <2>5 DEF Settled, RootKept
<1>5. CASE Finish(w)
  BY <1>0, <1>4, <1>5, StoreFinish
<1>6. CASE ~Finish(w)
  <2>k. PICK k : k = [RecipeRemoval(Head(j.todo)) EXCEPT !.all = TRUE, !.todo = Tail(j.todo)]
    OBVIOUS
  <2>1. job' = [job EXCEPT ![w] = k] /\ j.todo # <<>>
    BY <1>6, <1>j, <2>k DEF Sweep
  <2>2. /\ k.step = "drop" /\ k.rev = Head(j.todo) /\ k.todo = Tail(j.todo)
        /\ k.kind = "recipe" /\ k.v1 = FALSE
    BY <2>k DEF RecipeRemoval, Job
  <2>3. /\ Head(j.todo) = j.todo[1] /\ 1 \in DOMAIN j.todo
        /\ \A n \in DOMAIN Tail(j.todo) :
             /\ Tail(j.todo)[n] = j.todo[n + 1] /\ n + 1 \in DOMAIN j.todo
             /\ n \in Nat /\ n + 1 # 1
    <3> DEFINE todo == j.todo
    <3>1. todo \in Seq(AllRRev) /\ todo # <<>>
      BY <1>1, <2>1
    <3> HIDE DEF todo
    <3>2. /\ Head(todo) = todo[1] /\ 1 \in DOMAIN todo
          /\ \A n \in DOMAIN Tail(todo) : /\ Tail(todo)[n] = todo[n + 1] /\ n + 1 \in DOMAIN todo
                                          /\ n \in Nat /\ n + 1 # 1
      BY <3>1
    <3> QED BY <3>2 DEF todo
  <2>4. ASSUME "race" \notin spoiled PROVE Agrees(k)'
    <3>1. StoreAgrees(k)' /\ RootAgrees(k)'
      BY <1>4, <2>2, <2>4 DEF StoreAgrees, RootAgrees, Settled, Unlisted, Unstored, RootListed,
                  RootMissing, Idle
    <3>2. ASSUME spoiled = {}
          PROVE  /\ k.rev \in recipe
                 /\ \A n \in DOMAIN k.todo : k.todo[n] \in recipe /\ k.todo[n] # k.rev
                 /\ \A n, m \in DOMAIN k.todo : k.todo[n] = k.todo[m] => n = m
      <4>1. /\ \A n \in DOMAIN j.todo : j.todo[n] \in recipe
            /\ \A n, m \in DOMAIN j.todo : j.todo[n] = j.todo[m] => n = m
        BY <1>1, <1>2, <2>1, <2>4, <3>2 DEF RequestKnows
      <4>2. k.rev \in recipe
        BY <2>2, <2>3, <4>1
      <4>3. \A n \in DOMAIN k.todo : k.todo[n] \in recipe /\ k.todo[n] # k.rev
        BY <2>2, <2>3, <4>1
      <4>4. \A n, m \in DOMAIN k.todo : k.todo[n] = k.todo[m] => n = m
        BY <2>2, <2>3, <4>1
      <4> QED BY <4>2, <4>3, <4>4
    <3>3. k.all /\ spoiled' = {} =>
            /\ k.step = "drop" => k.rev \in recipe'
            /\ \A n \in DOMAIN k.todo : k.todo[n] \in recipe' /\ k.todo[n] # k.rev
            /\ \A n, m \in DOMAIN k.todo : k.todo[n] = k.todo[m] => n = m
      BY <1>0, <3>2
    <3>4. RequestKnows(k)'
      BY <2>2, <3>3 DEF RequestKnows
    <3> QED BY <3>1, <3>4 DEF Agrees
  <2>5. k.step # "idle"
    BY <2>2
  <2> QED BY <1>0, <2>1, <2>4, <2>5, StoreStep
<1> QED BY <1>5, <1>6

\* The packages of a recipe go, and their index with them.
LEMMA PackagesGo ==
    ASSUME IndexFits, PackagesFit, Settled, UNCHANGED <<recipe, spoiled>>, NEW r \in AllRRev,
           packages' = [packages EXCEPT ![r] = {}], index' = [index EXCEPT ![r] = NoIndex]
    PROVE  Settled'
<1>n. Root \notin AllRRev /\ r \in Indexes
  BY RootIsNoRevision DEF AllRRev, Indexes
<1>1. /\ packages'[r] = {} /\ \A n \in AllRRev \ {r} : packages'[n] = packages[n]
      /\ index'[r] = NoIndex /\ \A n \in Indexes \ {r} : index'[n] = index[n]
  BY <1>n DEF IndexFits, PackagesFit
<1>2. /\ Listed(r)' = {} /\ Stored(r)' = {}
      /\ \A n \in Indexes \ {r} : Listed(n)' = Listed(n) /\ Stored(n)' = Stored(n)
  BY <1>n, <1>1 DEF Listed, Stored, Indexes
<1>3. StoreAgrees(Idle)'
  BY <1>1, <1>2 DEF Settled, StoreAgrees, Unlisted, Unstored, Idle, Indexes
<1> QED BY <1>1, <1>3, <1>n DEF Settled, RootKept, Indexes

LEMMA PurgeAgrees ==
    ASSUME IInv, ShapeInv, StoreInv, NEW w \in Worker, V1PurgePackages(w) PROVE StoreInv'
<1>j. PICK j : j = job[w]
  OBVIOUS
<1>0. /\ ~IsIdle(w) /\ j.step = "purge" /\ UNCHANGED <<recipe, spoiled, aborted>>
      /\ RemoveAllGetsThrough' /\ spoiled \subseteq spoiled'
  BY <1>j DEF V1PurgePackages, IsIdle, Rest, StoreInv, RemoveAllGetsThrough
<1>1. JobShape(j, clock, ListedOnce) /\ Fits(j) /\ IndexFits /\ PackagesFit /\ ~j.all
      /\ Head(j.todo) \in AllRRev
  <2>1. JobShape(j, clock, ListedOnce) /\ Fits(j) /\ IndexFits
    BY <1>0, <1>j, BusyJob
  <2>2. j.todo \in Seq(AllRRev) /\ j.todo # <<>> /\ ~j.all
    BY <1>0, <2>1 DEF JobShape
  <2>3. Head(j.todo) \in AllRRev
    BY <2>2
  <2> QED BY <2>1, <2>2, <2>3 DEF IInv
<1>2. ASSUME "race" \notin spoiled PROVE Settled'
  <2>1. Settled
    BY <1>0, <1>2, <1>j, BusyAgrees, NothingDone
  <2>2. CASE UNCHANGED <<packages, index>>
    BY <1>0, <2>1, <2>2, SettledStays DEF files
  <2>3. CASE ~UNCHANGED <<packages, index>>
    <3>1. /\ packages' = [packages EXCEPT ![Head(j.todo)] = {}]
          /\ index' = [index EXCEPT ![Head(j.todo)] = NoIndex]
      BY <1>j, <2>3 DEF V1PurgePackages
    <3> QED BY <1>0, <1>1, <2>1, <3>1, PackagesGo
  <2> QED BY <2>2, <2>3
<1>3. CASE Finish(w)
  BY <1>0, <1>2, <1>3, StoreFinish
<1>4. CASE ~Finish(w)
  <2>k. PICK k : k = WithTodo(j, Tail(j.todo))
    OBVIOUS
  <2>1. job' = [job EXCEPT ![w] = k]
    BY <1>4, <1>j, <2>k DEF V1PurgePackages, WithTodo
  <2>2. k.step = "purge" /\ k.all = j.all
    BY <1>0, <1>1, <2>k, OtherTodo
  <2>3. ASSUME "race" \notin spoiled PROVE Agrees(k)'
    <3>1. StoreAgrees(k)' /\ RootAgrees(k)'
      BY <1>2, <2>2, <2>3 DEF StoreAgrees, RootAgrees, Settled, Unlisted, Unstored, RootListed,
                  RootMissing, Idle
    <3>2. RequestKnows(k)'
      BY <1>1, <2>2 DEF RequestKnows
    <3> QED BY <3>1, <3>2 DEF Agrees
  <2>4. k.step # "idle"
    BY <2>2
  <2> QED BY <1>0, <2>1, <2>3, <2>4, StoreStep
<1> QED BY <1>3, <1>4

LEMMA AtOnceAgrees ==
    ASSUME IInv, ShapeInv, StoreInv, NEW w \in Worker,
           RemoveAllPackages(w) \/ RemoveReference(w)
    PROVE  StoreInv'
<1>1. /\ UNCHANGED <<job, aborted>>
      /\ spoiled' = IF Quiet THEN spoiled ELSE spoiled \union {"race"}
  BY DEF RemoveAllPackages, RemoveReference
<1>2. ASSUME "race" \notin spoiled' PROVE Quiet /\ Settled /\ UNCHANGED spoiled
  BY <1>1, <1>2 DEF StoreInv
<1>3. ASSUME "race" \notin spoiled' PROVE Settled'
  <2>1. CASE RemoveAllPackages(w)
    <3>1. PICK r \in AllRRev : /\ packages' = [packages EXCEPT ![r] = {}]
                               /\ index' = [index EXCEPT ![r] = NoIndex] /\ recipe' = recipe
      BY <2>1 DEF RemoveAllPackages
    <3>2. IndexFits /\ PackagesFit
      BY DEF ShapeInv, IInv
    <3> QED BY <1>2, <1>3, <3>1, <3>2, PackagesGo
  <2>2. CASE RemoveReference(w)
    <3>1. /\ recipe' = {} /\ packages' = [r \in AllRRev |-> {}]
          /\ index' = [i \in Indexes |-> NoIndex]
      BY <2>2 DEF RemoveReference, ShapeInv, IndexFits
    <3>2. \A i \in Indexes : Listed(i)' = {} /\ Stored(i)' = {} /\ index'[i] = NoIndex
      BY <3>1 DEF Listed, Stored, Indexes
    <3>3. StoreAgrees(Idle)'
      BY <3>2 DEF StoreAgrees, Unlisted, Unstored, Idle, Indexes
    <3>4. RootKept'
      BY <3>1, <3>2 DEF RootKept, Indexes
    <3> QED BY <3>3, <3>4 DEF Settled
  <2> QED BY <2>1, <2>2
<1>4. "race" \notin spoiled' => \A v \in Worker : IsIdle(v)'
  BY <1>1, <1>2 DEF Quiet, IsIdle
<1>5. RemoveAllGetsThrough'
  BY <1>1 DEF StoreInv, RemoveAllGetsThrough
<1> QED BY <1>3, <1>4, <1>5 DEF StoreInv

LEMMA StoreInit == ASSUME Init PROVE StoreInv
<1>1. \A i \in Indexes : Listed(i) = {} /\ Stored(i) = {} /\ index[i] = NoIndex
  BY DEF Init, Listed, Stored, Indexes
<1>2. StoreAgrees(Idle)
  BY <1>1 DEF StoreAgrees, Unlisted, Unstored, Idle, Indexes
<1>3. RootKept
  BY <1>1 DEF Init, RootKept, Indexes
<1>4. \A w \in Worker : IsIdle(w)
  BY DEF Init, IsIdle, Idle
<1> QED BY <1>2, <1>3, <1>4 DEF StoreInv, Settled, Init, RemoveAllGetsThrough

LEMMA StoreNext == ASSUME IInv, ShapeInv, StoreInv, [Next]_vars PROVE StoreInv'
<1>1. CASE Tick \/ AtRest \/ UNCHANGED vars
  <2>1. UNCHANGED <<recipe, packages, index, job, spoiled, aborted>>
    BY <1>1 DEF Tick, AtRest, vars, files
  <2>2. \A j : Agrees(j) => Agrees(j)'
    <3>1. \A i : Listed(i)' = Listed(i) /\ Stored(i)' = Stored(i)
      BY <2>1 DEF Listed, Stored
    <3> QED BY <2>1, <3>1 DEF Agrees, StoreAgrees, RootAgrees, RequestKnows, RootKept, Unlisted,
                              Unstored, RootListed, RootMissing
  <2>3. Settled => Settled'
    BY <2>1, SettledStays DEF files
  <2>4. Quiet' => Quiet
    BY <2>1 DEF Quiet, IsIdle
  <2>5. \A w \in Worker : ~IsIdle(w)' => ~IsIdle(w)
    BY <2>1 DEF IsIdle
  <2>6. ASSUME "race" \notin spoiled', NEW w \in Worker, ~IsIdle(w)'
        PROVE  Agrees(job[w])'
    <3>1. Agrees(job[w])
      BY <2>1, <2>5, <2>6 DEF StoreInv
    <3> QED BY <2>1, <2>2, <3>1
  <2> QED BY <2>1, <2>3, <2>4, <2>6 DEF StoreInv, RemoveAllGetsThrough
<1>2. ASSUME NEW w \in Worker,
             \/ PutRecipe(w) \/ PutPackage(w) \/ V1PutRecipe(w) \/ V1PutPackage(w)
             \/ V1Urls(w) \/ StoreFile(w) \/ LookForIndex(w) \/ ReadIndex(w) \/ WriteIndex(w)
             \/ V1Abandon(w)
      PROVE  StoreInv'
  BY <1>2, UploadsAgree, V1UrlsAgree, StoreFileAgrees, LookAgrees, ReadAgrees, WriteAgrees,
     AbandonAgrees
<1>3. ASSUME NEW w \in Worker,
             \/ DeleteRecipe(w) \/ DeleteAllRRevs(w) \/ DeletePackage(w)
             \/ V1RemovePackages(w) \/ V1PurgePackages(w)
             \/ RemoveAllPackages(w) \/ RemoveReference(w)
             \/ DropFolder(w) \/ UnlistRead(w) \/ UnlistWrite(w) \/ Sweep(w)
      PROVE  StoreInv'
  BY <1>3, DeletesAgree, PurgeAgrees, AtOnceAgrees, DropAgrees, UnlistReadAgrees,
     UnlistWriteAgrees, SweepAgrees
<1> QED BY <1>1, <1>2, <1>3 DEF Next

LEMMA StoreAlways == Spec => [](IInv /\ ShapeInv /\ StoreInv)
<1>1. Init => IInv /\ ShapeInv /\ StoreInv
  BY InvInit, ShapeInit, StoreInit
<1>2. IInv /\ ShapeInv /\ StoreInv /\ [Next]_vars => (IInv /\ ShapeInv /\ StoreInv)'
  BY InvStep, ShapeNext, StoreNext
<1> QED BY <1>1, <1>2, PTL DEF Spec

\* At rest, what is stored is listed (server_store.py 256): no upload is forgotten as
\* long as requests do not overlap, whoever uploads what for the second time.
THEOREM NoUploadIsForgotten == Spec => []StoredIsListed
<1>1. IInv /\ ShapeInv /\ StoreInv => StoredIsListed
  <2> SUFFICES ASSUME StoreInv, Quiet, "race" \notin spoiled
               PROVE  /\ recipe \subseteq Listed(Root)
                      /\ "mixed" \notin spoiled =>
                           \A r \in AllRRev : packages[r] \subseteq Listed(r)
    BY DEF StoredIsListed
  <2>1. \A i \in Indexes : i = Root \/ "mixed" \notin spoiled => Stored(i) \subseteq Listed(i)
    BY DEF StoreInv, Settled, StoreAgrees, Unlisted, Idle
  <2>2. Root \notin AllRRev
    BY RootIsNoRevision DEF AllRRev
  <2> QED BY <2>1, <2>2 DEF Stored, Indexes
<1> QED BY <1>1, StoreAlways, PTL

\* At rest, what is listed is stored (server_store.py 332), and the index of the recipes
\* goes with the last of them (server_store.py 97), as long as requests do not overlap.
THEOREM NothingGoneIsListed == Spec => []ListedIsStored
<1>1. IInv /\ ShapeInv /\ StoreInv => ListedIsStored
  <2> SUFFICES ASSUME StoreInv, Quiet, spoiled \subseteq {"relisted"}
               PROVE  /\ spoiled = {} =>
                           /\ Listed(Root) \subseteq recipe
                           /\ \A r \in AllRRev : Listed(r) \subseteq packages[r]
                      /\ index[Root] = NoIndex <=> recipe = {}
    BY DEF ListedIsStored
  <2>1. Settled
    BY DEF StoreInv
  <2>2. spoiled = {} => \A i \in Indexes : Listed(i) \subseteq Stored(i)
    BY <2>1 DEF Settled, StoreAgrees, Unstored, Idle
  <2>3. Root \notin AllRRev
    BY RootIsNoRevision DEF AllRRev
  <2> QED BY <2>1, <2>2, <2>3 DEF Settled, RootKept, Stored, Indexes
<1> QED BY <1>1, StoreAlways, PTL

\* A client that removes every revision it was told of is never answered that one is not
\* there: each DELETE (rest_client_v2.py 263) finds its folder, until another client comes in.
THEOREM RemovalOfAllEnds == Spec => []RemoveAllGetsThrough
<1>1. StoreInv => RemoveAllGetsThrough
  BY DEF StoreInv
<1> QED BY <1>1, StoreAlways, PTL
----------------------------------------------------------------------------
(* What clients are offered, against the promise of RevisionStore: the order of what is
   listed and stored.  First, what arrivals and withdrawals make of an order. *)

Arrived(offer, rev) == Promise!Arrived(offer, rev)
Withdrawn(offer, rev) == Promise!Without(offer, rev)
Those(offer) == Promise!Those(offer)

\* The order of an index, and what of it is in the store.
ListedOrder(i) == IF index[i] = NoIndex THEN {} ELSE ArrivalOrder(index[i])
OfferOf(i) == ListedOrder(i) \cap (Stored(i) \X Stored(i))

\* An order relates what is in it to itself.
IsOrderOn(S, order) == order \subseteq S \X S /\ \A p \in order : <<p[1], p[1]>> \in order

LEMMA InOffer ==
    ASSUME NEW offer, NEW rev, NEW a, NEW b
    PROVE  /\ <<a, b>> \in Withdrawn(offer, rev) <=> <<a, b>> \in offer /\ rev # a /\ rev # b
           /\ <<a, b>> \in Arrived(offer, rev) <=>
                \/ <<a, b>> \in offer /\ rev # a /\ rev # b
                \/ b = rev /\ (a = rev \/ a \in Those(offer))
<1>1. /\ <<a, b>> \in Withdrawn(offer, rev) <=> <<a, b>> \in offer /\ rev # a /\ rev # b
      /\ <<a, b>>[1] = a /\ <<a, b>>[2] = b
  BY DEF Withdrawn, Promise!Without
<1>2. <<a, b>> \in {<<r, rev>> : r \in Those(offer) \union {rev}} <=>
        b = rev /\ (a = rev \/ a \in Those(offer))
  OBVIOUS
<1> QED BY <1>1, <1>2 DEF Arrived, Promise!Arrived, Withdrawn, Those

LEMMA ThoseOf ==
    ASSUME NEW S, NEW order, IsOrderOn(S, order), NEW a
    PROVE  /\ a \in Those(order) <=> <<a, a>> \in order
           /\ \A b : <<a, b>> \in order => <<a, a>> \in order /\ a \in S /\ b \in S
<1>1. \A b : <<a, b>> \in order => <<a, a>> \in order /\ a \in S /\ b \in S
  <2>1. ASSUME NEW b, <<a, b>> \in order PROVE <<a, a>> \in order /\ a \in S /\ b \in S
    <3>1. <<a, b>> \in S \X S /\ <<a, b>>[1] = a
      BY <2>1 DEF IsOrderOn
    <3> QED BY <2>1, <3>1 DEF IsOrderOn
  <2> QED BY <2>1
<1>2. ASSUME a \in Those(order) PROVE <<a, a>> \in order
  <2>1. PICK p \in order : a = p[1]
    BY <1>2 DEF Those, Promise!Those
  <2> QED BY <2>1 DEF IsOrderOn
<1>3. ASSUME <<a, a>> \in order PROVE a \in Those(order)
  <2>1. <<a, a>>[1] = a
    OBVIOUS
  <2> QED BY <1>3, <2>1 DEF Those, Promise!Those
<1> QED BY <1>1, <1>2, <1>3

\* Two relations are the same if they relate the same.
LEMMA SameOrder ==
    ASSUME NEW S, NEW T, NEW o, NEW q, o \subseteq S \X S, q \subseteq T \X T,
           \A a \in S, b \in S : <<a, b>> \in o => <<a, b>> \in q,
           \A a \in T, b \in T : <<a, b>> \in q => <<a, b>> \in o
    PROVE  o = q
<1>1. ASSUME NEW p \in o PROVE p \in q
  <2>1. PICK a \in S, b \in S : p = <<a, b>>
    OBVIOUS
  <2> QED BY <2>1
<1>2. ASSUME NEW p \in q PROVE p \in o
  <2>1. PICK a \in T, b \in T : p = <<a, b>>
    OBVIOUS
  <2> QED BY <2>1
<1> QED BY <1>1, <1>2

\* What arrives and what goes leaves an order.
LEMMA OrderStays ==
    ASSUME NEW S, NEW order, IsOrderOn(S, order), NEW rev \in S
    PROVE  IsOrderOn(S, Arrived(order, rev)) /\ IsOrderOn(S, Withdrawn(order, rev))
<1>1. Withdrawn(order, rev) \subseteq order
  BY DEF Withdrawn, Promise!Without
<1>2. Those(order) \subseteq S
  BY ThoseOf
<1>3. Withdrawn(order, rev) \subseteq S \X S /\ Arrived(order, rev) \subseteq S \X S
  BY <1>1, <1>2 DEF IsOrderOn, Arrived, Promise!Arrived, Withdrawn, Those
<1>4. ASSUME NEW p \in Arrived(order, rev) PROVE <<p[1], p[1]>> \in Arrived(order, rev)
  <2>1. PICK a \in S, b \in S : p = <<a, b>>
    BY <1>3
  <2>2. <<a, b>> \in Arrived(order, rev) /\ p[1] = a
    BY <2>1
  <2>3. CASE a = rev
    BY <2>2, <2>3, InOffer
  <2>4. CASE a # rev
    <3>1. <<a, b>> \in order \/ a \in Those(order)
      BY <2>2, <2>4, InOffer
    <3>3. a \in Those(order)
      BY <3>1, ThoseOf
    <3>2. <<a, a>> \in order
      BY <3>3, ThoseOf
    <3> QED BY <2>2, <2>4, <3>2, InOffer
  <2> QED BY <2>3, <2>4
<1>5. ASSUME NEW p \in Withdrawn(order, rev) PROVE <<p[1], p[1]>> \in Withdrawn(order, rev)
  <2>1. PICK a \in S, b \in S : p = <<a, b>>
    BY <1>3
  <2>2. <<a, b>> \in Withdrawn(order, rev) /\ p[1] = a
    BY <2>1
  <2>3. <<a, b>> \in order /\ a # rev
    BY <2>2, InOffer
  <2>4. <<a, a>> \in order
    BY <2>3, ThoseOf
  <2> QED BY <2>2, <2>3, <2>4, InOffer
<1> QED BY <1>3, <1>4, <1>5 DEF IsOrderOn

\* To arrive twice is to arrive once.
LEMMA ArrivedStays ==
    ASSUME NEW S, NEW order, IsOrderOn(S, order), NEW rev \in S
    PROVE  Arrived(Arrived(order, rev), rev) = Arrived(order, rev)
<1> DEFINE one == Arrived(order, rev)
           two == Arrived(one, rev)
<1>1. IsOrderOn(S, one)
  BY OrderStays
<1>k. one = Arrived(order, rev) /\ two = Arrived(one, rev)
  OBVIOUS
<1> HIDE DEF one, two
<1>2. IsOrderOn(S, two)
  BY <1>1, <1>k, OrderStays
<1>o. \A a, b : <<a, b>> \in one <=>
        \/ <<a, b>> \in order /\ rev # a /\ rev # b
        \/ b = rev /\ (a = rev \/ a \in Those(order))
  BY <1>k, InOffer
<1>t. \A a, b : <<a, b>> \in two <=>
        \/ <<a, b>> \in one /\ rev # a /\ rev # b
        \/ b = rev /\ (a = rev \/ a \in Those(one))
  BY <1>k, InOffer
<1>a. \A a : a \in Those(one) => <<a, a>> \in one
  BY <1>1, ThoseOf
<1>b. \A a, b : <<a, b>> \in one => <<a, a>> \in one
  BY <1>1, ThoseOf
<1>c. \A a : <<a, a>> \in one => a \in Those(one)
  BY <1>1, ThoseOf
<1>d. \A a : <<a, a>> \in order => a \in Those(order)
  BY ThoseOf
<1>3. \A a : a \in Those(one) => a = rev \/ a \in Those(order)
  BY <1>a, <1>d, <1>o
<1>4. \A a, b : <<a, b>> \in two => <<a, b>> \in one
  BY <1>3, <1>o, <1>t
<1>5. ASSUME NEW a, NEW b, <<a, b>> \in one PROVE <<a, b>> \in two
  <2>1. a \in Those(one)
    BY <1>5, <1>b, <1>c
  <2>2. CASE b = rev
    BY <1>t, <2>1, <2>2
  <2>3. CASE b # rev
    BY <1>5, <1>o, <1>t, <2>3
  <2> QED BY <2>2, <2>3
<1>s. one \subseteq S \X S /\ two \subseteq S \X S
  BY <1>1, <1>2 DEF IsOrderOn
<1>6. one = two
  BY <1>4, <1>5, <1>s, SameOrder
<1> QED BY <1>6, <1>k

\* An arrival, seen through what is in the store: of what is stored it is an arrival ...
LEMMA StoredArrives ==
    ASSUME NEW S, NEW order, IsOrderOn(S, order), NEW T, NEW rev \in T, rev \in S
    PROVE  Arrived(order, rev) \cap (T \X T) = Arrived(order \cap (T \X T), rev)
<1> DEFINE seen == order \cap (T \X T)
           left == Arrived(order, rev) \cap (T \X T)
           right == Arrived(seen, rev)
<1>k. right = Arrived(seen, rev)
  OBVIOUS
<1>1. IsOrderOn(T, seen)
  <2>1. ASSUME NEW p \in seen PROVE <<p[1], p[1]>> \in seen
    BY <2>1 DEF IsOrderOn
  <2> QED BY <2>1 DEF IsOrderOn
<1>2. \A a, b : <<a, b>> \in seen <=> <<a, b>> \in order /\ a \in T /\ b \in T
  OBVIOUS
<1>3. \A a, b : <<a, b>> \in left <=> <<a, b>> \in Arrived(order, rev) /\ a \in T /\ b \in T
  OBVIOUS
<1>4. left \subseteq T \X T
  OBVIOUS
<1> HIDE DEF seen, left, right
<1>5. right \subseteq T \X T
  BY <1>1, <1>k, OrderStays DEF IsOrderOn
<1>6. \A a : a \in Those(seen) <=> a \in Those(order) /\ a \in T
  BY <1>1, <1>2, ThoseOf
<1>7. \A a, b : <<a, b>> \in right <=>
        \/ <<a, b>> \in seen /\ rev # a /\ rev # b
        \/ b = rev /\ (a = rev \/ a \in Those(seen))
  BY <1>k, InOffer
<1>8. \A a, b : <<a, b>> \in Arrived(order, rev) <=>
        \/ <<a, b>> \in order /\ rev # a /\ rev # b
        \/ b = rev /\ (a = rev \/ a \in Those(order))
  BY InOffer
<1>9. \A a, b : <<a, b>> \in left => <<a, b>> \in right
  BY <1>2, <1>3, <1>6, <1>7, <1>8
<1>10. \A a, b : <<a, b>> \in right => <<a, b>> \in left
  BY <1>2, <1>3, <1>6, <1>7, <1>8
<1>11. left = right
  BY <1>4, <1>5, <1>9, <1>10, SameOrder
<1> QED BY <1>11 DEF left, right, seen

\* ... what is not stored does not show, whether it arrives or goes ...
LEMMA UnstoredIsUnseen ==
    ASSUME NEW S, NEW order, IsOrderOn(S, order), NEW T, NEW rev, rev \notin T
    PROVE  /\ Arrived(order, rev) \cap (T \X T) = order \cap (T \X T)
           /\ Withdrawn(order, rev) \cap (T \X T) = order \cap (T \X T)
<1>1. \A a \in T, b \in T :
        /\ <<a, b>> \in Arrived(order, rev) <=> <<a, b>> \in order
        /\ <<a, b>> \in Withdrawn(order, rev) <=> <<a, b>> \in order
  BY InOffer
<1> DEFINE seen == order \cap (T \X T)
           in == Arrived(order, rev) \cap (T \X T)
           out == Withdrawn(order, rev) \cap (T \X T)
<1>2. /\ seen \subseteq T \X T /\ in \subseteq T \X T /\ out \subseteq T \X T
      /\ \A a \in T, b \in T : (<<a, b>> \in seen <=> <<a, b>> \in order)
                               /\ (<<a, b>> \in in <=> <<a, b>> \in order)
                               /\ (<<a, b>> \in out <=> <<a, b>> \in order)
  BY <1>1
<1> HIDE DEF seen, in, out
<1>3. \A a \in T, b \in T : /\ <<a, b>> \in in => <<a, b>> \in seen
                            /\ <<a, b>> \in seen => <<a, b>> \in in
                            /\ <<a, b>> \in out => <<a, b>> \in seen
                            /\ <<a, b>> \in seen => <<a, b>> \in out
  BY <1>2
<1>4. in = seen
  BY <1>2, <1>3, SameOrder
<1>5. out = seen
  BY <1>2, <1>3, SameOrder
<1> QED BY <1>4, <1>5 DEF seen, in, out

\* The pairs of an order between members of a set.
Within(order, T) == order \cap (T \X T)

\* ... and what is listed last arrives when it is stored.
LEMMA LastIsStored ==
    ASSUME NEW S, NEW order, IsOrderOn(S, order), NEW T, NEW rev \in S,
           Arrived(order, rev) = order
    PROVE  \A more : more = T \union {rev} =>
               Within(order, more) = Arrived(Within(order, T), rev)
<1> SUFFICES ASSUME NEW more, more = T \union {rev}
             PROVE  Within(order, more) = Arrived(Within(order, T), rev)
  OBVIOUS
<1>1. Arrived(order, rev) \cap (more \X more) = Arrived(order \cap (more \X more), rev)
  BY StoredArrives
<1> DEFINE wide == order \cap (more \X more)
           slim == order \cap (T \X T)
<1>2. \A a, b : /\ <<a, b>> \in wide <=> <<a, b>> \in order /\ a \in more /\ b \in more
                /\ <<a, b>> \in slim <=> <<a, b>> \in order /\ a \in T /\ b \in T
  OBVIOUS
<1>3. IsOrderOn(more, wide) /\ IsOrderOn(T, slim)
  BY DEF IsOrderOn
<1>4. wide = Arrived(wide, rev)
  BY <1>1
<1> HIDE DEF wide, slim
<1>w. IsOrderOn(more, slim)
  <2>1. slim \subseteq T \X T /\ T \subseteq more
    BY <1>3 DEF IsOrderOn
  <2> QED BY <1>3, <2>1 DEF IsOrderOn
<1>5. IsOrderOn(more, Arrived(slim, rev))
  BY <1>w, OrderStays
<1>a. \A a : a \in Those(wide) => <<a, a>> \in wide
  BY <1>3, ThoseOf
<1>b. \A a : <<a, a>> \in wide => a \in Those(wide)
  BY <1>3, ThoseOf
<1>c. \A a : a \in Those(slim) => <<a, a>> \in slim
  BY <1>3, ThoseOf
<1>d. \A a : <<a, a>> \in slim => a \in Those(slim)
  BY <1>3, ThoseOf
<1>6. \A a : a # rev => (a \in Those(wide) <=> a \in Those(slim))
  BY <1>2, <1>a, <1>b, <1>c, <1>d
<1> DEFINE left == Arrived(wide, rev)
           right == Arrived(slim, rev)
<1>k. left = Arrived(wide, rev) /\ right = Arrived(slim, rev)
  OBVIOUS
<1> HIDE DEF left, right
<1>7. ASSUME NEW a, NEW b
      PROVE  <<a, b>> \in right <=>
               \/ <<a, b>> \in slim /\ rev # a /\ rev # b
               \/ b = rev /\ (a = rev \/ a \in Those(slim))
  <2>1. <<a, b>> \in Arrived(slim, rev) <=>
          \/ <<a, b>> \in slim /\ rev # a /\ rev # b
          \/ b = rev /\ (a = rev \/ a \in Those(slim))
    BY ONLY InOffer
  <2> QED BY <2>1, <1>k
<1>8. ASSUME NEW a, NEW b
      PROVE  <<a, b>> \in left <=>
               \/ <<a, b>> \in wide /\ rev # a /\ rev # b
               \/ b = rev /\ (a = rev \/ a \in Those(wide))
  <2>1. <<a, b>> \in Arrived(wide, rev) <=>
          \/ <<a, b>> \in wide /\ rev # a /\ rev # b
          \/ b = rev /\ (a = rev \/ a \in Those(wide))
    BY ONLY InOffer
  <2> QED BY <2>1, <1>k
<1>e. left = wide
  BY <1>4, <1>k
<1>9. \A a, b : <<a, b>> \in wide => <<a, b>> \in right
  BY <1>2, <1>6, <1>7, <1>8, <1>e
<1>10. \A a, b : <<a, b>> \in right => <<a, b>> \in wide
  BY <1>2, <1>6, <1>7, <1>8, <1>e
<1>11. wide \subseteq more \X more /\ right \subseteq more \X more
  BY <1>3, <1>5, <1>k DEF IsOrderOn
<1>12. wide = right
  BY <1>9, <1>10, <1>11, SameOrder
<1> QED BY <1>12 DEF wide, slim, right, Within
----------------------------------------------------------------------------
(* What RevisionList does to the order of a list. *)

\* The entry of a comes no later than one of b.
ComesBefore(list, a, b) ==
    \E m, n \in DOMAIN list : m <= n /\ list[m].revision = a /\ list[n].revision = b

LEMMA OrderOfList ==
    ASSUME NEW S, NEW list \in Seq(EntryOf(S))
    PROVE  /\ \A a, b : <<a, b>> \in ArrivalOrder(list) <=> ComesBefore(list, a, b)
           /\ IsOrderOn(S, ArrivalOrder(list))
<1>0. /\ DOMAIN list = 1..Len(list) /\ Len(list) \in Nat
      /\ \A n \in DOMAIN list : list[n].revision \in S
  <2>1. \A n \in DOMAIN list : list[n] \in EntryOf(S)
    OBVIOUS
  <2> QED BY <2>1 DEF EntryOf
<1>1. ASSUME NEW p \in ArrivalOrder(list)
      PROVE  \E m, n \in DOMAIN list : m <= n /\ p = <<list[m].revision, list[n].revision>>
  <2>1. PICK m \in DOMAIN list : p \in {<<list[m].revision, list[n].revision>> : n \in m..Len(list)}
    BY <1>1 DEF ArrivalOrder
  <2>2. PICK n \in m..Len(list) : p = <<list[m].revision, list[n].revision>>
    BY <2>1
  <2>3. n \in DOMAIN list /\ m <= n
    BY <1>0, <2>2
  <2> QED BY <2>2, <2>3
<1>2. ASSUME NEW m \in DOMAIN list, NEW n \in DOMAIN list, m <= n
      PROVE  <<list[m].revision, list[n].revision>> \in ArrivalOrder(list)
  <2>1. n \in m..Len(list)
    BY <1>0, <1>2
  <2> QED BY <2>1 DEF ArrivalOrder
<1>3. ASSUME NEW a, NEW b, <<a, b>> \in ArrivalOrder(list) PROVE ComesBefore(list, a, b)
  <2>1. PICK m \in DOMAIN list, n \in DOMAIN list :
               m <= n /\ <<a, b>> = <<list[m].revision, list[n].revision>>
    BY <1>1, <1>3
  <2> QED BY <2>1 DEF ComesBefore
<1>4. ASSUME NEW a, NEW b, ComesBefore(list, a, b) PROVE <<a, b>> \in ArrivalOrder(list)
  BY <1>2, <1>4 DEF ComesBefore
<1>5. ASSUME NEW p \in ArrivalOrder(list)
      PROVE  p \in S \X S /\ <<p[1], p[1]>> \in ArrivalOrder(list)
  <2>1. PICK m \in DOMAIN list, n \in DOMAIN list :
               m <= n /\ p = <<list[m].revision, list[n].revision>>
    BY <1>1
  <2>2. m <= m /\ p[1] = list[m].revision
    BY <1>0, <2>1
  <2> QED BY <1>0, <1>2, <2>1, <2>2
<1> QED BY <1>3, <1>4, <1>5 DEF IsOrderOn

LEMMA ListIsOrdered ==
    ASSUME NEW S, NEW list \in Seq(EntryOf(S))
    PROVE  Those(ArrivalOrder(list)) = Revisions(list)
<1>1. DOMAIN list = 1..Len(list) /\ Len(list) \in Nat
  OBVIOUS
<1>2. \A a : a \in Those(ArrivalOrder(list)) <=> <<a, a>> \in ArrivalOrder(list)
  BY OrderOfList, ThoseOf
<1>3. \A a : ComesBefore(list, a, a) <=> a \in Revisions(list)
  BY <1>1 DEF ComesBefore, Revisions
<1>4. \A a : <<a, a>> \in ArrivalOrder(list) <=> ComesBefore(list, a, a)
  BY OrderOfList
<1> QED BY <1>2, <1>3, <1>4

\* An entry goes.
LEMMA OrderOfRest ==
    ASSUME NEW S, NEW list \in Seq(EntryOf(S)), Distinct(list), NEW n \in 1..Len(list),
           NEW rest, rest = RemoveAt(list, n), NEW rev, rev = list[n].revision
    PROVE  ArrivalOrder(rest) = Withdrawn(ArrivalOrder(list), rev)
<1> DEFINE old(i) == IF i < n THEN i ELSE i + 1
           new(i) == IF i < n THEN i ELSE i - 1
<1>1. /\ rest \in Seq(EntryOf(S)) /\ Len(rest) = Len(list) - 1
      /\ DOMAIN list = 1..Len(list) /\ DOMAIN rest = 1..(Len(list) - 1)
      /\ Len(list) \in Nat
      /\ \A i \in DOMAIN rest : rest[i] = IF i < n THEN list[i] ELSE list[i + 1]
  <2>1. \A i \in 1..(Len(list) - 1) : rest[i] = IF i < n THEN list[i] ELSE list[i + 1]
    BY RemovedAt
  <2>2. rest \in Seq(EntryOf(S)) /\ Len(rest) = Len(list) - 1
    BY RemovedAt
  <2> QED BY <2>1, <2>2
<1>2. \A i \in DOMAIN rest : old(i) \in DOMAIN list /\ old(i) # n /\ rest[i] = list[old(i)]
  BY <1>1
<1>3. ASSUME NEW i \in DOMAIN list, i # n
      PROVE  new(i) \in DOMAIN rest /\ rest[new(i)] = list[i]
  <2>1. CASE i < n
    <3>1. new(i) = i /\ i \in DOMAIN rest
      BY <1>1, <2>1
    <3> QED BY <1>1, <2>1, <3>1
  <2>2. CASE i > n
    <3>1. /\ new(i) = i - 1 /\ i - 1 \in DOMAIN rest /\ ~(i - 1 < n)
          /\ (i - 1) + 1 = i
      BY <1>1, <2>2
    <3> QED BY <1>1, <3>1
  <2> QED BY <1>1, <1>3, <2>1, <2>2
<1>4. ASSUME NEW i \in DOMAIN rest, NEW j \in DOMAIN rest, i <= j PROVE old(i) <= old(j)
  BY <1>1, <1>4
<1>5. ASSUME NEW i \in DOMAIN list, NEW j \in DOMAIN list, i # n, j # n, i <= j
      PROVE  new(i) <= new(j)
  BY <1>1, <1>5
<1>6. \A i \in DOMAIN list : i # n <=> list[i].revision # rev
  BY <1>1 DEF Distinct
<1> HIDE DEF old, new
<1>7. ASSUME NEW a, NEW b, ComesBefore(rest, a, b)
      PROVE  ComesBefore(list, a, b) /\ a # rev /\ b # rev
  <2>1. PICK i \in DOMAIN rest, j \in DOMAIN rest :
               i <= j /\ rest[i].revision = a /\ rest[j].revision = b
    BY <1>7 DEF ComesBefore
  <2>2. /\ old(i) \in DOMAIN list /\ old(j) \in DOMAIN list /\ old(i) <= old(j)
        /\ list[old(i)].revision = a /\ list[old(j)].revision = b
        /\ old(i) # n /\ old(j) # n
    BY <1>2, <1>4, <2>1
  <2> QED BY <1>6, <2>2 DEF ComesBefore
<1>8. ASSUME NEW a, NEW b, ComesBefore(list, a, b), a # rev, b # rev
      PROVE  ComesBefore(rest, a, b)
  <2>1. PICK i \in DOMAIN list, j \in DOMAIN list :
               i <= j /\ list[i].revision = a /\ list[j].revision = b
    BY <1>8 DEF ComesBefore
  <2>2. i # n /\ j # n
    BY <1>6, <1>8, <2>1
  <2>3. /\ new(i) \in DOMAIN rest /\ new(j) \in DOMAIN rest /\ new(i) <= new(j)
        /\ rest[new(i)].revision = a /\ rest[new(j)].revision = b
    BY <1>3, <1>5, <2>1, <2>2
  <2> QED BY <2>3 DEF ComesBefore
<1> DEFINE left == ArrivalOrder(rest)
           order == ArrivalOrder(list)
           right == Withdrawn(order, rev)
<1>9. \A a, b : <<a, b>> \in left <=> ComesBefore(rest, a, b)
  BY <1>1, OrderOfList
<1>k. order = ArrivalOrder(list) /\ right = Withdrawn(order, rev)
  OBVIOUS
<1>11. \A a, b : <<a, b>> \in order <=> ComesBefore(list, a, b)
  BY OrderOfList
<1>12. left \subseteq S \X S /\ right \subseteq S \X S
  <2>1. ArrivalOrder(rest) \subseteq S \X S /\ ArrivalOrder(list) \subseteq S \X S
    BY <1>1, OrderOfList DEF IsOrderOn
  <2> QED BY <2>1 DEF Withdrawn, Promise!Without
<1> HIDE DEF left, right, order
<1>10. ASSUME NEW a, NEW b
       PROVE  <<a, b>> \in right <=> <<a, b>> \in order /\ rev # a /\ rev # b
  BY <1>k, InOffer
<1>13. \A a, b : <<a, b>> \in left => <<a, b>> \in right
  BY <1>7, <1>9, <1>10, <1>11
<1>14. \A a, b : <<a, b>> \in right => <<a, b>> \in left
  BY <1>8, <1>9, <1>10, <1>11
<1>15. left = right
  BY <1>12, <1>13, <1>14, SameOrder
<1> QED BY <1>15 DEF left, right, order

\* What is not in a list does not go from it.
LEMMA NothingGoes ==
    ASSUME NEW S, NEW order, IsOrderOn(S, order), NEW rev, rev \notin Those(order),
           \A a, b : <<a, b>> \in order => <<b, b>> \in order
    PROVE  Withdrawn(order, rev) = order
<1> DEFINE left == Withdrawn(order, rev)
<1>k. left = Withdrawn(order, rev)
  OBVIOUS
<1>1. order \subseteq S \X S /\ left \subseteq S \X S
  BY DEF IsOrderOn, Withdrawn, Promise!Without
<1>2. \A a, b : <<a, b>> \in order => <<a, a>> \in order
  BY ThoseOf
<1>3. \A a : <<a, a>> \in order => a \in Those(order)
  BY ThoseOf
<1> HIDE DEF left
<1>4. \A a, b : <<a, b>> \in left <=> <<a, b>> \in order /\ rev # a /\ rev # b
  BY <1>k, InOffer
<1>5. \A a, b : <<a, b>> \in order => <<a, b>> \in left
  BY <1>2, <1>3, <1>4
<1>6. \A a, b : <<a, b>> \in left => <<a, b>> \in order
  BY <1>4
<1>7. left = order
  BY <1>1, <1>5, <1>6, SameOrder
<1> QED BY <1>7, <1>k

\* A new entry is the last.
LEMMA OrderOfMore ==
    ASSUME NEW S, NEW list \in Seq(EntryOf(S)), NEW rev \in S, rev \notin Revisions(list),
           NEW now \in Nat, NEW more, more = Append(list, Entry(rev, now))
    PROVE  ArrivalOrder(more) = Arrived(ArrivalOrder(list), rev)
<1>1. /\ more \in Seq(EntryOf(S)) /\ Len(more) = Len(list) + 1 /\ Len(list) \in Nat
      /\ DOMAIN list = 1..Len(list) /\ DOMAIN more = 1..(Len(list) + 1)
      /\ \A i \in DOMAIN list : more[i] = list[i]
      /\ more[Len(list) + 1].revision = rev
  <2>1. Entry(rev, now) \in EntryOf(S) /\ Entry(rev, now).revision = rev
    BY DEF Entry, EntryOf
  <2> QED BY <2>1
<1>2. \A i \in DOMAIN more : i \in DOMAIN list \/ i = Len(list) + 1
  BY <1>1
<1>3. \A i \in DOMAIN list : i \in DOMAIN more /\ i <= Len(list) + 1 /\ ~(Len(list) + 1 <= i)
  BY <1>1
<1>4. Len(list) + 1 \in DOMAIN more /\ Len(list) + 1 <= Len(list) + 1
  BY <1>1
<1>5. \A i \in DOMAIN list : list[i].revision # rev
  BY DEF Revisions
<1>6. ASSUME NEW a, NEW b, ComesBefore(more, a, b)
      PROVE  \/ ComesBefore(list, a, b) /\ a # rev /\ b # rev
             \/ b = rev /\ (a = rev \/ a \in Revisions(list))
  <2>1. PICK i \in DOMAIN more, j \in DOMAIN more :
               i <= j /\ more[i].revision = a /\ more[j].revision = b
    BY <1>6 DEF ComesBefore
  <2>2. CASE j = Len(list) + 1
    BY <1>1, <1>2, <2>1, <2>2 DEF Revisions
  <2>3. CASE j \in DOMAIN list
    <3>1. i \in DOMAIN list
      BY <1>1, <2>1, <2>3
    <3> QED BY <1>1, <1>5, <2>1, <2>3, <3>1 DEF ComesBefore
  <2> QED BY <1>2, <2>2, <2>3
<1>7. ASSUME NEW a, NEW b, ComesBefore(list, a, b) PROVE ComesBefore(more, a, b)
  BY <1>1, <1>3, <1>7 DEF ComesBefore
<1>8. ASSUME NEW a, a = rev \/ a \in Revisions(list) PROVE ComesBefore(more, a, rev)
  <2>1. CASE a = rev
    BY <1>1, <1>4, <2>1 DEF ComesBefore
  <2>2. CASE a \in Revisions(list)
    <3>1. PICK i \in DOMAIN list : list[i].revision = a
      BY <2>2 DEF Revisions
    <3> QED BY <1>1, <1>3, <1>4, <3>1 DEF ComesBefore
  <2> QED BY <1>8, <2>1, <2>2
<1> DEFINE left == ArrivalOrder(more)
           order == ArrivalOrder(list)
           right == Arrived(order, rev)
<1>k. left = ArrivalOrder(more) /\ order = ArrivalOrder(list) /\ right = Arrived(order, rev)
  OBVIOUS
<1> HIDE DEF left, order, right
<1>9. IsOrderOn(S, left) /\ IsOrderOn(S, order) /\ IsOrderOn(S, right)
  BY <1>1, <1>k, OrderOfList, OrderStays
<1>10. \A a, b : <<a, b>> \in left <=> ComesBefore(more, a, b)
  BY <1>1, <1>k, OrderOfList
<1>11. \A a, b : <<a, b>> \in order <=> ComesBefore(list, a, b)
  BY <1>k, OrderOfList
<1>12. Those(order) = Revisions(list)
  BY <1>k, ListIsOrdered
<1>13. \A a, b : <<a, b>> \in right <=>
         \/ <<a, b>> \in order /\ rev # a /\ rev # b
         \/ b = rev /\ (a = rev \/ a \in Those(order))
  BY <1>k, InOffer
<1>14. \A a, b : <<a, b>> \in left => <<a, b>> \in right
  BY <1>6, <1>10, <1>11, <1>12, <1>13
<1>15. \A a, b : <<a, b>> \in right => <<a, b>> \in left
  BY <1>7, <1>8, <1>10, <1>11, <1>12, <1>13
<1>16. left = right
  BY <1>9, <1>14, <1>15, SameOrder DEF IsOrderOn
<1> QED BY <1>16, <1>k

LEMMA OrderOfNone == ArrivalOrder(<<>>) = {}
BY DEF ArrivalOrder

\* What goes before it arrives is where it would be.
LEMMA GoesAndArrives ==
    ASSUME NEW S, NEW order, IsOrderOn(S, order), NEW rev \in S
    PROVE  Arrived(Withdrawn(order, rev), rev) = Arrived(order, rev)
<1> DEFINE less == Withdrawn(order, rev)
           left == Arrived(less, rev)
           right == Arrived(order, rev)
<1>k. less = Withdrawn(order, rev) /\ left = Arrived(less, rev) /\ right = Arrived(order, rev)
  OBVIOUS
<1> HIDE DEF less, left, right
<1>1. IsOrderOn(S, less)
  BY <1>k, OrderStays
<1>2. IsOrderOn(S, left) /\ IsOrderOn(S, right)
  BY <1>1, <1>k, OrderStays
<1>3. ASSUME NEW a, NEW b
      PROVE  /\ <<a, b>> \in less <=> <<a, b>> \in order /\ rev # a /\ rev # b
             /\ <<a, b>> \in left <=> \/ <<a, b>> \in less /\ rev # a /\ rev # b
                                      \/ b = rev /\ (a = rev \/ a \in Those(less))
             /\ <<a, b>> \in right <=> \/ <<a, b>> \in order /\ rev # a /\ rev # b
                                       \/ b = rev /\ (a = rev \/ a \in Those(order))
  BY <1>k, InOffer
<1>4. ASSUME NEW a, a # rev PROVE a \in Those(less) <=> a \in Those(order)
  <2>1. a \in Those(less) <=> <<a, a>> \in less
    BY <1>1, ThoseOf
  <2>2. a \in Those(order) <=> <<a, a>> \in order
    BY ThoseOf
  <2> QED BY <1>3, <1>4, <2>1, <2>2
<1>5. \A a, b : <<a, b>> \in left => <<a, b>> \in right
  BY <1>3, <1>4
<1>6. \A a, b : <<a, b>> \in right => <<a, b>> \in left
  BY <1>3, <1>4
<1>s. left \subseteq S \X S /\ right \subseteq S \X S
  BY <1>2 DEF IsOrderOn
<1>7. left = right
  BY <1>5, <1>6, <1>s, SameOrder
<1> QED BY <1>7, <1>k

\* To add what is the latest leaves the order.
LEMMA LatestArrives ==
    ASSUME NEW S, NEW list \in Seq(EntryOf(S)), NEW rev \in S, IsLatest(list, rev),
           Distinct(list), NEW order, order = ArrivalOrder(list)
    PROVE  Arrived(order, rev) = order
<1> DEFINE last == Len(list)
           left == Arrived(order, rev)
<1>k. left = Arrived(order, rev)
  OBVIOUS
<1>1. /\ last \in DOMAIN list /\ list[last].revision = rev /\ DOMAIN list = 1..last
      /\ \A i \in DOMAIN list : i \in Nat /\ i <= last
  BY DEF IsLatest, Last
<1>2. \A i \in DOMAIN list : list[i].revision = rev => i = last
  BY <1>1 DEF Distinct
<1>3. \A a, b : <<a, b>> \in order <=> ComesBefore(list, a, b)
  BY OrderOfList
<1>4. IsOrderOn(S, order) /\ Those(order) = Revisions(list)
  BY OrderOfList, ListIsOrdered
<1> HIDE DEF left, last
<1>5. IsOrderOn(S, left)
  BY <1>4, <1>k, OrderStays
<1>6. ASSUME NEW a, NEW b
      PROVE  <<a, b>> \in left <=> \/ <<a, b>> \in order /\ rev # a /\ rev # b
                                   \/ b = rev /\ (a = rev \/ a \in Those(order))
  BY <1>k, InOffer
<1>7. ASSUME NEW a, a = rev \/ a \in Revisions(list) PROVE ComesBefore(list, a, rev)
  <2>1. PICK i \in DOMAIN list : list[i].revision = a
    BY <1>1, <1>7 DEF Revisions
  <2> QED BY <1>1, <2>1 DEF ComesBefore
<1>8. ASSUME NEW a, NEW b, ComesBefore(list, a, b)
      PROVE  a \in Revisions(list) /\ (a = rev => b = rev)
  <2>1. PICK i \in DOMAIN list, j \in DOMAIN list :
               i <= j /\ list[i].revision = a /\ list[j].revision = b
    BY <1>8 DEF ComesBefore
  <2>2. ASSUME a = rev PROVE b = rev
    <3>1. i = last /\ j <= last
      BY <1>1, <1>2, <2>1, <2>2
    <3>2. j = last
      BY <1>1, <2>1, <3>1
    <3> QED BY <1>1, <2>1, <3>2
  <2> QED BY <2>1, <2>2 DEF Revisions
<1>9. \A a, b : <<a, b>> \in left => <<a, b>> \in order
  BY <1>3, <1>4, <1>6, <1>7
<1>10. \A a, b : <<a, b>> \in order => <<a, b>> \in left
  BY <1>3, <1>4, <1>6, <1>8
<1>s. left \subseteq S \X S /\ order \subseteq S \X S
  BY <1>4, <1>5 DEF IsOrderOn
<1>11. left = order
  BY <1>9, <1>10, <1>s, SameOrder
<1> QED BY <1>11, <1>k

\* add_revision: the revision arrives.
LEMMA AddArrives ==
    ASSUME NEW S, NEW list \in Seq(EntryOf(S)), NEW rev \in S, NEW now \in Nat,
           NEW more, more = AddRevision(list, rev, now), Distinct(list), Distinct(more)
    PROVE  ArrivalOrder(more) = Arrived(ArrivalOrder(list), rev)
<1> DEFINE n == FindRevisionIndex(list, rev)
<1>1. /\ n \in 0..Len(list) /\ (n = 0 <=> rev \notin Revisions(list))
      /\ n # 0 => list[n].revision = rev
  BY FindsFirst
<1>2. CASE IsLatest(list, rev)
  <2>1. more = list
    BY <1>2 DEF AddRevision
  <2> QED BY <1>2, <2>1, LatestArrives
<1>3. CASE ~IsLatest(list, rev) /\ n = 0
  <2>1. more = Append(list, Entry(rev, now))
    BY <1>3 DEF AddRevision
  <2> QED BY <1>1, <1>3, <2>1, OrderOfMore
<1>4. CASE ~IsLatest(list, rev) /\ n = 1
  <2>1. more = Append(list, Entry(rev, now))
    BY <1>4 DEF AddRevision
  <2>2. /\ 1 \in DOMAIN more /\ Len(list) + 1 \in DOMAIN more /\ 1 # Len(list) + 1
        /\ more[1] = list[1] /\ more[Len(list) + 1] = Entry(rev, now)
    <3>1. Len(list) \in Nat /\ Len(list) >= 1 /\ DOMAIN list = 1..Len(list)
      BY <1>1, <1>4
    <3>2. Entry(rev, now) \in EntryOf(S)
      BY DEF Entry, EntryOf
    <3> QED BY <2>1, <3>1, <3>2
  <2>3. more[1].revision = rev /\ more[Len(list) + 1].revision = rev
    BY <1>1, <1>4, <2>2 DEF Entry
  <2> QED BY <2>2, <2>3 DEF Distinct
<1>5. CASE ~IsLatest(list, rev) /\ n > 1
  <2> DEFINE rest == RemoveAt(list, n)
  <2>1. more = Append(rest, Entry(rev, now))
    BY <1>5 DEF AddRevision
  <2>2. n \in 1..Len(list) /\ list[n].revision = rev /\ rest = RemoveAt(list, n)
    BY <1>1, <1>5
  <2> HIDE DEF n, rest
  <2>3. rest \in Seq(EntryOf(S)) /\ rev \notin Revisions(rest)
    <3>1. 0 \in Nat
      OBVIOUS
    <3> QED BY <2>2, <3>1, RemovedEntries
  <2>4. ArrivalOrder(rest) = Withdrawn(ArrivalOrder(list), rev)
    BY <2>2, OrderOfRest
  <2>5. ArrivalOrder(more) = Arrived(ArrivalOrder(rest), rev)
    BY <2>1, <2>3, OrderOfMore
  <2>6. IsOrderOn(S, ArrivalOrder(list))
    BY OrderOfList
  <2>7. Arrived(Withdrawn(ArrivalOrder(list), rev), rev) = Arrived(ArrivalOrder(list), rev)
    BY <2>6, GoesAndArrives
  <2> QED BY <2>4, <2>5, <2>7
<1> QED BY <1>1, <1>2, <1>3, <1>4, <1>5

\* remove_revision: it goes.
LEMMA RemoveWithdraws ==
    ASSUME NEW S, NEW list \in Seq(EntryOf(S)), NEW rev,
           NEW less, less = RemoveRevision(list, rev), Distinct(list)
    PROVE  ArrivalOrder(less) = Withdrawn(ArrivalOrder(list), rev)
<1> DEFINE n == FindRevisionIndex(list, rev)
<1>1. /\ n \in 0..Len(list) /\ (n = 0 <=> rev \notin Revisions(list))
      /\ n # 0 => list[n].revision = rev
  BY FindsFirst
<1>2. CASE n = 0
  <2> DEFINE order == ArrivalOrder(list)
  <2>1. less = list
    BY <1>2 DEF RemoveRevision
  <2>2. IsOrderOn(S, order) /\ rev \notin Those(order)
    BY <1>1, <1>2, OrderOfList, ListIsOrdered
  <2>3. ASSUME NEW a, NEW b, <<a, b>> \in order PROVE <<b, b>> \in order
    <3>1. ComesBefore(list, a, b)
      BY <2>3, OrderOfList
    <3>2. ComesBefore(list, b, b)
      BY <3>1 DEF ComesBefore
    <3> QED BY <3>2, OrderOfList
  <2> HIDE DEF order
  <2>4. Withdrawn(order, rev) = order
    BY <2>2, <2>3, NothingGoes
  <2> QED BY <2>1, <2>4 DEF order
<1>3. CASE n # 0
  <2>1. n \in 1..Len(list) /\ list[n].revision = rev /\ less = RemoveAt(list, n)
    BY <1>1, <1>3 DEF RemoveRevision
  <2> HIDE DEF n
  <2> QED BY <2>1, OrderOfRest
<1> QED BY <1>2, <1>3
----------------------------------------------------------------------------
(* The invariant of the order (OrderInv), step by step. *)

\* What the list that a request is about to write makes of the order, and, of a v1 upload,
\* that its entry is the last already.
OrderKnown(j) ==
    /\ j.step = "write" => ArrivalOrder(j.list) = Arrived(ListedOrder(j.at), j.rev)
    /\ j.step = "unwrite" => ArrivalOrder(j.list) = Withdrawn(ListedOrder(j.at), j.rev)
    /\ j.step = "store" /\ j.v1 => Arrived(ListedOrder(j.at), j.rev) = ListedOrder(j.at)
OrderInv == spoiled = {} => \A w \in Worker : OrderKnown(job[w])

\* While no index is about to be written there is nothing to know.
LEMMA NothingToKnow ==
    ASSUME NEW k, k.step \notin {"write", "unwrite"}, k.step = "store" => ~k.v1
    PROVE  OrderKnown(k)
BY DEF OrderKnown

LEMMA OrderStep ==
    ASSUME IInv, OrderInv, NEW w \in Worker, ~IsIdle(w), NEW k, job' = [job EXCEPT ![w] = k],
           spoiled \subseteq spoiled', spoiled' = {} => OrderKnown(k)'
    PROVE  OrderInv'
<1>1. job'[w] = k /\ \A v \in Worker \ {w} : job'[v] = job[v]
  BY DEF IInv, JobsFit
<1>2. ASSUME spoiled' = {}, NEW v \in Worker PROVE OrderKnown(job[v])'
  <2>1. CASE v = w
    BY <1>1, <1>2, <2>1
  <2>2. CASE v # w
    <3>1. job'[v].step = "idle"
      BY <1>1, <1>2, <2>2 DEF IInv, OneAtATime, IsIdle
    <3> QED BY <3>1 DEF OrderKnown
  <2> QED BY <2>1, <2>2
<1> QED BY <1>2 DEF OrderInv

\* A step to a place where no list is held.
LEMMA OrderMoves ==
    ASSUME IInv, OrderInv, NEW w \in Worker, ~IsIdle(w), NEW k, job' = [job EXCEPT ![w] = k],
           spoiled \subseteq spoiled', k.step \notin {"write", "unwrite", "store"}
    PROVE  OrderInv'
<1>1. OrderKnown(k)'
  BY DEF OrderKnown
<1> QED BY <1>1, OrderStep

LEMMA OrderFinish ==
    ASSUME IInv, OrderInv, NEW w \in Worker, ~IsIdle(w), Finish(w), spoiled \subseteq spoiled'
    PROVE  OrderInv'
BY OrderMoves DEF Finish, Idle

LEMMA OrderTaken ==
    ASSUME IInv, ShapeInv, OrderInv, NEW w \in Worker, ~IsIdle(w), NEW step, Step(w, step),
           step \notin {"write", "unwrite", "store"}, spoiled \subseteq spoiled'
    PROVE  OrderInv'
BY StepTaken, OrderMoves

\* Nobody else is at work when a job begins, and it has no list.
LEMMA JobsBegin ==
    ASSUME NEW w \in Worker,
           \/ PutRecipe(w) \/ PutPackage(w) \/ V1PutRecipe(w) \/ V1PutPackage(w)
           \/ DeleteRecipe(w) \/ DeleteAllRRevs(w) \/ DeletePackage(w) \/ V1RemovePackages(w)
    PROVE  \E k : /\ Begin(w, k) /\ UNCHANGED files
                  /\ k.step \in {"urls", "store", "drop", "purge"} /\ (k.step = "store" => ~k.v1)
<1>1. CASE PutRecipe(w)
  <2>1. PICK r : BeginUpload(w, Job("store", "recipe", Root, r, r, Zero))
    BY <1>1 DEF PutRecipe
  <2> QED BY <2>1, JobIs DEF BeginUpload
<1>2. CASE PutPackage(w)
  <2>1. PICK r, b : BeginUpload(w, Job("store", "package", r, b, r, b))
    BY <1>2 DEF PutPackage
  <2> QED BY <2>1, JobIs DEF BeginUpload
<1>3. CASE V1PutRecipe(w) \/ V1PutPackage(w)
  BY <1>3 DEF V1PutRecipe, V1PutPackage, BeginUpload, V1Upload, Job
<1>4. CASE DeleteRecipe(w)
  <2>1. PICK r : BeginDelete(w, Job("drop", "recipe", Root, r, r, Zero))
    BY <1>4 DEF DeleteRecipe, RecipeRemoval
  <2> QED BY <2>1, JobIs DEF BeginDelete
<1>5. CASE DeletePackage(w)
  <2>1. PICK r, b : BeginDelete(w, Job("drop", "package", r, b, r, b))
    BY <1>5 DEF DeletePackage
  <2> QED BY <2>1, JobIs DEF BeginDelete
<1>6. CASE DeleteAllRRevs(w)
  <2> DEFINE revs == AsList(index[Root])
  <2>1. PICK k : k = [RecipeRemoval(Head(revs)) EXCEPT !.all = TRUE, !.todo = Tail(revs)]
    OBVIOUS
  <2>2. BeginDelete(w, k)
    BY <1>6, <2>1 DEF DeleteAllRRevs
  <2>3. k.step = "drop"
    BY <2>1 DEF RecipeRemoval, Job
  <2> QED BY <2>2, <2>3 DEF BeginDelete
<1>7. CASE V1RemovePackages(w)
  <2> DEFINE revs == AsList(index[Root])
  <2>1. PICK k : k = [Job("purge", "package", Zero, Zero, Zero, Zero) EXCEPT !.todo = revs]
    OBVIOUS
  <2>2. BeginDelete(w, k)
    BY <1>7, <2>1 DEF V1RemovePackages
  <2>3. k.step = "purge"
    BY <2>1 DEF Job
  <2> QED BY <2>2, <2>3 DEF BeginDelete
<1> QED BY <1>1, <1>2, <1>3, <1>4, <1>5, <1>6, <1>7

LEMMA OrderBegins ==
    ASSUME IInv, OrderInv, NEW w \in Worker, NEW k, Begin(w, k),
           k.step \notin {"write", "unwrite"}, k.step = "store" => ~k.v1
    PROVE  OrderInv'
<1>1. /\ job'[w] = k /\ \A v \in Worker \ {w} : job'[v] = job[v]
      /\ spoiled' = {} => Quiet
  BY DEF Begin, IInv, JobsFit
<1>2. ASSUME spoiled' = {}, NEW v \in Worker PROVE OrderKnown(job[v])'
  <2>1. CASE v = w
    BY <1>1, <2>1 DEF OrderKnown
  <2>2. CASE v # w
    <3>1. job'[v].step = "idle"
      BY <1>1, <1>2, <2>2 DEF Quiet, IsIdle
    <3> QED BY <3>1 DEF OrderKnown
  <2> QED BY <2>1, <2>2
<1> QED BY <1>2 DEF OrderInv

\* The entry that a request adds is listed once if nothing else is.
LEMMA LookOrder ==
    ASSUME IInv, ShapeInv, OrderInv, NEW w \in Worker, LookForIndex(w) PROVE OrderInv'
<1>j. PICK j : j = job[w]
  OBVIOUS
<1>0. ~IsIdle(w) /\ UNCHANGED <<index, spoiled>> /\ clock \in Nat
  BY DEF LookForIndex, IsIdle, files, ShapeInv, IndexFits
<1>1. CASE Step(w, "read")
  BY <1>0, <1>1, OrderTaken
<1>2. CASE ~Step(w, "read")
  <2> DEFINE none == <<>>
             list == AddRevision(none, j.rev, clock)
             S == RevsAt(j.at)
  <2>1. index[j.at] = NoIndex /\ TakesList(w, "write", list)
    BY <1>2, <1>j DEF LookForIndex, TakesList
  <2>2. j.rev \in S /\ none \in Seq(EntryOf(S)) /\ Distinct(none)
    BY <1>0, <1>j, BusyJob DEF JobShape, Distinct
  <2>3. GoodList(j.at, list, clock, TRUE)
    BY <1>0, <2>2, FirstIsGood
  <2>4. Distinct(list) /\ ArrivalOrder(none) = {}
    BY <2>3, OrderOfNone DEF GoodList
  <2>k. list = AddRevision(none, j.rev, clock)
    OBVIOUS
  <2> HIDE DEF none, list, S
  <2>5. PICK k : /\ job' = [job EXCEPT ![w] = k] /\ k.step = "write" /\ k.list = list
                 /\ Carries(k, j)
    BY <1>0, <1>j, <2>1, ListTaken
  <2>6. ArrivalOrder(list) = Arrived(ArrivalOrder(none), j.rev)
    BY <1>0, <2>2, <2>4, <2>k, AddArrives
  <2>7. ListedOrder(k.at)' = {} /\ k.rev = j.rev
    BY <1>0, <2>1, <2>5 DEF ListedOrder, Carries
  <2>8. OrderKnown(k)'
    BY <2>4, <2>5, <2>6, <2>7 DEF OrderKnown
  <2> QED BY <1>0, <2>5, <2>8, OrderStep
<1> QED BY <1>1, <1>2

LEMMA ReadOrder ==
    ASSUME IInv, ShapeInv, OrderInv, NEW w \in Worker, ReadIndex(w) PROVE OrderInv'
<1>j. PICK j : j = job[w]
  OBVIOUS
<1>0. ~IsIdle(w) /\ UNCHANGED index /\ spoiled \subseteq spoiled' /\ clock \in Nat
  BY DEF ReadIndex, IsIdle, files, ShapeInv, IndexFits
<1>1. CASE Finish(w)
  BY <1>0, <1>1, OrderFinish
<1>2. CASE ~Finish(w)
  <2> DEFINE old == index[j.at]
             list == AddRevision(old, j.rev, clock)
             S == RevsAt(j.at)
  <2>1. /\ old # NoIndex /\ TakesList(w, "write", list)
        /\ spoiled' = {} => spoiled = {} /\ ~AddsSecondEntry(old, j.rev)
    BY <1>2, <1>j DEF ReadIndex, TakesList
  <2>2. /\ j.rev \in S /\ old \in Seq(EntryOf(S)) /\ (spoiled = {} => Distinct(old))
        /\ ListedOrder(j.at)' = ArrivalOrder(old)
    <3>1. j.at \in Indexes /\ j.rev \in S /\ IndexFits
      BY <1>0, <1>j, BusyJob DEF JobShape
    <3>2. GoodList(j.at, old, clock, ListedOnce)
      BY <2>1, <3>1 DEF IndexFits
    <3> QED BY <1>0, <2>1, <3>1, <3>2 DEF GoodList, ListedOnce, ListedOrder
  <2>k. list = AddRevision(old, j.rev, clock)
    OBVIOUS
  <2> HIDE DEF old, list, S
  <2>5. PICK k : /\ job' = [job EXCEPT ![w] = k] /\ k.step = "write" /\ k.list = list
                 /\ Carries(k, j)
    BY <1>0, <1>j, <2>1, ListTaken
  <2>6. ASSUME spoiled' = {} PROVE OrderKnown(k)'
    <3>1. Distinct(old) /\ Distinct(list)
      BY <1>0, <2>1, <2>2, <2>6, <2>k, AddKeeps
    <3>2. ArrivalOrder(list) = Arrived(ArrivalOrder(old), j.rev)
      BY <1>0, <2>2, <2>k, <3>1, AddArrives
    <3> QED BY <2>2, <2>5, <3>2 DEF OrderKnown, Carries
  <2> QED BY <1>0, <2>5, <2>6, OrderStep
<1> QED BY <1>1, <1>2

LEMMA UnlistReadOrder ==
    ASSUME IInv, ShapeInv, OrderInv, NEW w \in Worker, UnlistRead(w) PROVE OrderInv'
<1>j. PICK j : j = job[w]
  OBVIOUS
<1>0. ~IsIdle(w) /\ UNCHANGED <<index, spoiled>>
  BY DEF UnlistRead, IsIdle, files
<1>1. CASE Finish(w)
  BY <1>0, <1>1, OrderFinish
<1>2. CASE ~Finish(w)
  <2> DEFINE old == index[j.at]
             list == RemoveRevision(old, j.rev)
             S == RevsAt(j.at)
  <2>1. old # NoIndex /\ TakesList(w, "unwrite", list)
    BY <1>2, <1>j DEF UnlistRead, TakesList
  <2>2. /\ old \in Seq(EntryOf(S)) /\ (spoiled = {} => Distinct(old))
        /\ ListedOrder(j.at)' = ArrivalOrder(old)
    <3>1. j.at \in Indexes /\ IndexFits
      BY <1>0, <1>j, BusyJob DEF JobShape
    <3>2. GoodList(j.at, old, clock, ListedOnce)
      BY <2>1, <3>1 DEF IndexFits
    <3> QED BY <1>0, <2>1, <3>1, <3>2 DEF GoodList, ListedOnce, ListedOrder
  <2>k. list = RemoveRevision(old, j.rev)
    OBVIOUS
  <2> HIDE DEF old, list, S
  <2>5. PICK k : /\ job' = [job EXCEPT ![w] = k] /\ k.step = "unwrite" /\ k.list = list
                 /\ Carries(k, j)
    BY <1>0, <1>j, <2>1, ListTaken
  <2>6. ASSUME spoiled' = {} PROVE OrderKnown(k)'
    <3>1. ArrivalOrder(list) = Withdrawn(ArrivalOrder(old), j.rev)
      BY <1>0, <2>2, <2>6, <2>k, RemoveWithdraws
    <3> QED BY <2>2, <2>5, <3>1 DEF OrderKnown, Carries
  <2> QED BY <1>0, <2>5, <2>6, OrderStep
<1> QED BY <1>1, <1>2

\* The order of an index is an order of its revisions.
LEMMA ListedIsOrder ==
    ASSUME IndexFits, NEW i \in Indexes
    PROVE  /\ IsOrderOn(RevsAt(i), ListedOrder(i)) /\ IsOrderOn(Listed(i), ListedOrder(i))
           /\ Those(ListedOrder(i)) = Listed(i)
<1>1. CASE index[i] = NoIndex
  BY <1>1 DEF ListedOrder, Listed, IsOrderOn, Those, Promise!Those
<1>2. CASE index[i] # NoIndex
  <2> DEFINE list == index[i]
             order == ArrivalOrder(list)
             S == RevsAt(i)
  <2>1. list \in Seq(EntryOf(S)) /\ ListedOrder(i) = order /\ Listed(i) = Revisions(list)
    BY <1>2 DEF IndexFits, GoodList, ListedOrder, Listed
  <2> HIDE DEF list, S
  <2>2. IsOrderOn(S, order) /\ Those(order) = Revisions(list)
    BY <2>1, OrderOfList, ListIsOrdered
  <2>3. ASSUME NEW a, NEW b, <<a, b>> \in order PROVE b \in Revisions(list)
    <3>1. ComesBefore(list, a, b)
      BY <2>1, <2>3, OrderOfList
    <3> QED BY <3>1 DEF ComesBefore, Revisions
  <2> HIDE DEF order
  <2>4. \A a, b : <<a, b>> \in order => a \in Revisions(list) /\ b \in Revisions(list)
    BY <2>2, <2>3, ThoseOf
  <2>5. ASSUME NEW p \in order PROVE p \in Revisions(list) \X Revisions(list)
    <3>1. PICK a \in S, b \in S : p = <<a, b>>
      BY <2>2 DEF IsOrderOn
    <3> QED BY <2>4, <3>1
  <2>6. IsOrderOn(Revisions(list), order)
    BY <2>2, <2>5 DEF IsOrderOn
  <2> QED BY <2>1, <2>2, <2>6 DEF S
<1> QED BY <1>1, <1>2

LEMMA WriteOrder ==
    ASSUME IInv, ShapeInv, OrderInv, NEW w \in Worker, WriteIndex(w) PROVE OrderInv'
<1>j. PICK j : j = job[w]
  OBVIOUS
<1>0. /\ ~IsIdle(w) /\ j.step = "write" /\ UNCHANGED spoiled
      /\ index' = [index EXCEPT ![j.at] = j.list]
  BY <1>j DEF WriteIndex, IsIdle
<1>1. CASE Finish(w)
  BY <1>0, <1>1, OrderFinish
<1>2. CASE ~Finish(w)
  <2>1. PICK k : /\ job' = [job EXCEPT ![w] = k] /\ k.step = "store" /\ Carries(k, j)
    BY <1>0, <1>2, <1>j, StepTaken DEF WriteIndex
  <2>2. JobShape(j, clock, ListedOnce) /\ IndexFits
    BY <1>0, <1>j, BusyJob
  <2>3. j.at \in Indexes /\ j.rev \in RevsAt(j.at) /\ j.list # NoIndex
    BY <2>2, ListIsThere DEF JobShape
  <2>4. ListedOrder(j.at)' = ArrivalOrder(j.list)
    BY <1>0, <2>2, <2>3 DEF ListedOrder, IndexFits
  <2>5. ASSUME spoiled' = {} PROVE OrderKnown(k)'
    <3> DEFINE order == ListedOrder(j.at)
               S == RevsAt(j.at)
    <3>1. ArrivalOrder(j.list) = Arrived(order, j.rev)
      BY <1>0, <1>j, <2>5 DEF OrderInv, OrderKnown
    <3>2. IsOrderOn(S, order) /\ j.rev \in S
      BY <2>2, <2>3, ListedIsOrder
    <3> HIDE DEF order, S
    <3>3. Arrived(Arrived(order, j.rev), j.rev) = Arrived(order, j.rev)
      BY <3>2, ArrivedStays
    <3> QED BY <2>1, <2>4, <3>1, <3>3 DEF OrderKnown, Carries
  <2> QED BY <1>0, <2>1, <2>5, OrderStep
<1> QED BY <1>1, <1>2

LEMMA OrderNext == ASSUME IInv, ShapeInv, OrderInv, [Next]_vars PROVE OrderInv'
<1>1. CASE Tick \/ AtRest \/ UNCHANGED vars
  <2>1. UNCHANGED <<index, job, spoiled>>
    BY <1>1 DEF Tick, AtRest, vars, files
  <2>2. \A j : OrderKnown(j) => OrderKnown(j)'
    BY <2>1 DEF OrderKnown, ListedOrder
  <2> QED BY <2>1, <2>2 DEF OrderInv
<1>2. ASSUME NEW w \in Worker,
             \/ PutRecipe(w) \/ PutPackage(w) \/ V1PutRecipe(w) \/ V1PutPackage(w)
             \/ DeleteRecipe(w) \/ DeleteAllRRevs(w) \/ DeletePackage(w) \/ V1RemovePackages(w)
      PROVE  OrderInv'
  BY <1>2, JobsBegin, OrderBegins
<1>3. ASSUME NEW w \in Worker, V1Urls(w) PROVE OrderInv'
  <2>1. ~IsIdle(w) /\ spoiled \subseteq spoiled'
    BY <1>3 DEF V1Urls, IsIdle
  <2>2. CASE Finish(w)
    BY <2>1, <2>2, OrderFinish
  <2>3. CASE ~Finish(w)
    <3> DEFINE r == LatestOrZero(Root)
               b == LatestOrZero(r)
    <3>k. PICK k : k = WithFolder(job[w], "look", r, b)
      OBVIOUS
    <3>1. job' = [job EXCEPT ![w] = k]
      BY <1>3, <2>3, <3>k DEF V1Urls, WithFolder
    <3> HIDE DEF r, b
    <3>2. k.step = "look"
      BY <2>1, <3>k, BusyJob, OtherFolder
    <3> QED BY <2>1, <3>1, <3>2, <3>k, OrderMoves
  <2> QED BY <2>2, <2>3
<1>4. ASSUME NEW w \in Worker, StoreFile(w) PROVE OrderInv'
  BY <1>4, OrderFinish, OrderTaken DEF StoreFile, IsIdle
<1>5. ASSUME NEW w \in Worker, V1Abandon(w) PROVE OrderInv'
  BY <1>5, OrderFinish DEF V1Abandon, IsIdle
<1>6. ASSUME NEW w \in Worker, V1PurgePackages(w) PROVE OrderInv'
  <2>1. ~IsIdle(w) /\ spoiled' = spoiled /\ job[w].step = "purge"
    BY <1>6 DEF V1PurgePackages, IsIdle
  <2>2. CASE Finish(w)
    BY <2>1, <2>2, OrderFinish
  <2>3. CASE ~Finish(w)
    <3>k. PICK k : k = WithTodo(job[w], Tail(job[w].todo))
      OBVIOUS
    <3>1. job' = [job EXCEPT ![w] = k]
      BY <1>6, <2>3, <3>k DEF V1PurgePackages, WithTodo
    <3>2. k.step = "purge"
      BY <2>1, <3>k, BusyJob, OtherTodo
    <3> QED BY <2>1, <3>1, <3>2, OrderMoves
  <2> QED BY <2>2, <2>3
<1>7. ASSUME NEW w \in Worker, RemoveAllPackages(w) \/ RemoveReference(w) PROVE OrderInv'
  <2>1. job' = job /\ (spoiled' = {} => Quiet)
    BY <1>7 DEF RemoveAllPackages, RemoveReference
  <2>2. ASSUME spoiled' = {}, NEW v \in Worker PROVE OrderKnown(job[v])'
    <3>1. job'[v].step = "idle"
      BY <2>1, <2>2 DEF Quiet, IsIdle
    <3> QED BY <3>1 DEF OrderKnown
  <2> QED BY <2>2 DEF OrderInv
<1>8. ASSUME NEW w \in Worker, DropFolder(w) PROVE OrderInv'
  <2>1. ~IsIdle(w) /\ spoiled' = spoiled /\ (Finish(w) \/ Step(w, "unread"))
    BY <1>8 DEF DropFolder, IsIdle
  <2> QED BY <2>1, OrderFinish, OrderTaken
<1>9. ASSUME NEW w \in Worker, UnlistWrite(w) PROVE OrderInv'
  <2>1. ~IsIdle(w) /\ spoiled' = spoiled /\ (Finish(w) \/ Step(w, "sweep"))
    BY <1>9 DEF UnlistWrite, IsIdle
  <2> QED BY <2>1, OrderFinish, OrderTaken
<1>10. ASSUME NEW w \in Worker, Sweep(w) PROVE OrderInv'
  <2>1. ~IsIdle(w) /\ spoiled' = spoiled
    BY <1>10 DEF Sweep, IsIdle
  <2>2. CASE Finish(w)
    BY <2>1, <2>2, OrderFinish
  <2>3. CASE ~Finish(w)
    <3>k. PICK k : k = [RecipeRemoval(Head(job[w].todo))
                        EXCEPT !.all = TRUE, !.todo = Tail(job[w].todo)]
      OBVIOUS
    <3>1. job' = [job EXCEPT ![w] = k]
      BY <1>10, <2>3, <3>k DEF Sweep
    <3>2. k.step = "drop"
      BY <3>k DEF RecipeRemoval, Job
    <3> QED BY <2>1, <3>1, <3>2, OrderMoves
  <2> QED BY <2>2, <2>3
<1> QED BY <1>1, <1>2, <1>3, <1>4, <1>5, <1>6, <1>7, <1>8, <1>9, <1>10, LookOrder, ReadOrder,
           WriteOrder, UnlistReadOrder DEF Next
----------------------------------------------------------------------------
(* Each request does to the offer what the promise says, in one of its steps. *)

LEMMA Names == Root \notin AllRRev /\ Indexes = {Root} \union AllRRev
BY RootIsNoRevision DEF AllRRev, Indexes

LEMMA Offers ==
    /\ Offered(Root, recipe) = OfferOf(Root)
    /\ \A r \in AllRRev : Offered(r, packages[r]) = OfferOf(r)
    /\ Offered(Root, recipe)' = OfferOf(Root)'
    /\ \A r \in AllRRev : Offered(r, packages[r])' = OfferOf(r)'
<1>1. \A r \in AllRRev : r # Root
  BY Names
<1> QED BY <1>1 DEF Offered, OfferOf, ListedOrder, Stored

LEMMA OfferStays ==
    ASSUME \A i \in Indexes : OfferOf(i)' = OfferOf(i)
    PROVE  UNCHANGED Promise!promiseVars
<1>1. Offered(Root, recipe)' = Offered(Root, recipe)
  BY Names, Offers
<1>2. [r \in AllRRev |-> Offered(r, packages[r])]' = [r \in AllRRev |-> Offered(r, packages[r])]
  BY Names, Offers
<1> QED BY <1>1, <1>2 DEF Promise!promiseVars

\* A revision arrives, of a recipe or beside one that is offered.
LEMMA OfferGrows ==
    ASSUME NEW i \in Indexes, NEW rev \in RevsAt(i),
           OfferOf(i)' = Arrived(OfferOf(i), rev),
           \A n \in Indexes \ {i} : OfferOf(n)' = OfferOf(n),
           i # Root => i \in Those(OfferOf(Root))
    PROVE  Promise!PromiseNext
<1> DEFINE first == Offered(Root, recipe)
           seconds == [r \in AllRRev |-> Offered(r, packages[r])]
<1>1. CASE i = Root
  <2>1. first' = Promise!Arrived(first, rev) /\ rev \in AllRRev
    BY <1>1, Offers DEF Arrived, RevsAt
  <2>2. seconds' = seconds
    BY <1>1, Names, Offers
  <2> QED BY <2>1, <2>2 DEF Promise!PromiseNext, Promise!OfferRecipe
<1>2. CASE i # Root
  <2>1. i \in AllRRev /\ rev \in AllPRev
    BY <1>2, Names DEF RevsAt
  <2>2. first' = first /\ i \in Promise!Those(first)
    BY <1>2, Names, Offers DEF Those
  <2>3. seconds' = [seconds EXCEPT ![i] = Promise!Arrived(@, rev)]
    <3>1. \A r \in AllRRev : Offered(r, packages[r])' =
            IF r = i THEN Promise!Arrived(Offered(r, packages[r]), rev) ELSE Offered(r, packages[r])
      BY <2>1, Names, Offers DEF Arrived
    <3> QED BY <2>1, <3>1
  <2> QED BY <2>1, <2>2, <2>3 DEF Promise!PromiseNext, Promise!OfferPackage
<1> QED BY <1>1, <1>2

\* One goes.
LEMMA RecipeGoes ==
    ASSUME NEW r \in AllRRev, r \in Those(OfferOf(Root)),
           OfferOf(Root)' = Withdrawn(OfferOf(Root), r), OfferOf(r)' = {},
           \A n \in AllRRev \ {r} : OfferOf(n)' = OfferOf(n)
    PROVE  Promise!PromiseNext
<1> DEFINE first == Offered(Root, recipe)
           seconds == [n \in AllRRev |-> Offered(n, packages[n])]
<1>1. first' = Promise!Without(first, r) /\ r \in Promise!Those(first)
  BY Offers DEF Those, Withdrawn
<1>2. seconds' = [seconds EXCEPT ![r] = {}]
  <2>1. \A n \in AllRRev : Offered(n, packages[n])' =
          IF n = r THEN {} ELSE Offered(n, packages[n])
    BY Offers
  <2> QED BY <2>1
<1> QED BY <1>1, <1>2 DEF Promise!PromiseNext, Promise!WithdrawRecipe

LEMMA PackageGoes ==
    ASSUME NEW r \in AllRRev, NEW b \in Those(OfferOf(r)),
           OfferOf(r)' = Withdrawn(OfferOf(r), b),
           \A n \in Indexes \ {r} : OfferOf(n)' = OfferOf(n)
    PROVE  Promise!PromiseNext
<1> DEFINE first == Offered(Root, recipe)
           seconds == [n \in AllRRev |-> Offered(n, packages[n])]
<1>1. first' = first
  BY Names, Offers
<1>2. seconds' = [seconds EXCEPT ![r] = Promise!Without(@, b)] /\ b \in Promise!Those(seconds[r])
  <2>1. \A n \in AllRRev : Offered(n, packages[n])' =
          IF n = r THEN Promise!Without(Offered(n, packages[n]), b) ELSE Offered(n, packages[n])
    BY Names, Offers DEF Withdrawn
  <2>2. b \in Promise!Those(Offered(r, packages[r]))
    BY Offers DEF Those
  <2> QED BY <2>1, <2>2
<1> QED BY <1>1, <1>2 DEF Promise!PromiseNext, Promise!WithdrawPackage

\* All packages of a recipe go.
LEMMA OffersGo ==
    ASSUME NEW r \in AllRRev, OfferOf(r)' = {},
           \A n \in Indexes \ {r} : OfferOf(n)' = OfferOf(n)
    PROVE  Promise!PromiseNext
<1> DEFINE first == Offered(Root, recipe)
           seconds == [n \in AllRRev |-> Offered(n, packages[n])]
<1>1. first' = first
  BY Names, Offers
<1>2. seconds' = [seconds EXCEPT ![r] = {}]
  <2>1. \A n \in AllRRev : Offered(n, packages[n])' =
          IF n = r THEN {} ELSE Offered(n, packages[n])
    BY Names, Offers
  <2> QED BY <2>1
<1> QED BY <1>1, <1>2 DEF Promise!PromiseNext, Promise!WithdrawPackages

LEMMA AllGo ==
    ASSUME \A n \in Indexes : OfferOf(n)' = {}
    PROVE  Promise!PromiseNext
<1>1. Offered(Root, recipe)' = {}
  BY Names, Offers
<1>2. [n \in AllRRev |-> Offered(n, packages[n])]' = [n \in AllRRev |-> {}]
  BY Names, Offers
<1> QED BY <1>1, <1>2 DEF Promise!PromiseNext, Promise!WithdrawAll

\* What is offered is listed and stored.
LEMMA OfferedAre ==
    ASSUME IndexFits, NEW i \in Indexes
    PROVE  Those(OfferOf(i)) = Listed(i) \cap Stored(i)
<1> DEFINE order == ListedOrder(i)
           seen == order \cap (Stored(i) \X Stored(i))
           T == Stored(i)
<1>1. IsOrderOn(Listed(i), order) /\ Those(order) = Listed(i)
  BY ListedIsOrder
<1>2. IsOrderOn(T, seen)
  BY <1>1 DEF IsOrderOn
<1>3. \A a : <<a, a>> \in seen <=> <<a, a>> \in order /\ a \in T
  OBVIOUS
<1>k. OfferOf(i) = seen
  BY DEF OfferOf
<1> HIDE DEF order, seen
<1>4. \A a : a \in Those(seen) <=> <<a, a>> \in seen
  BY <1>2, ThoseOf
<1>5. \A a : a \in Those(order) <=> <<a, a>> \in order
  BY <1>1, ThoseOf
<1> QED BY <1>1, <1>3, <1>4, <1>5, <1>k

\* A revision less in the store is one less in the offer.
LEMMA LessIsStored ==
    ASSUME NEW S, NEW order, IsOrderOn(S, order), NEW T, NEW rev
    PROVE  order \cap ((T \ {rev}) \X (T \ {rev})) = Withdrawn(order \cap (T \X T), rev)
<1> DEFINE less == T \ {rev}
           seen == order \cap (T \X T)
           left == order \cap (less \X less)
           right == Withdrawn(seen, rev)
<1>k. right = Withdrawn(seen, rev)
  OBVIOUS
<1>1. /\ \A a, b : <<a, b>> \in left <=> <<a, b>> \in order /\ a \in less /\ b \in less
      /\ \A a, b : <<a, b>> \in seen <=> <<a, b>> \in order /\ a \in T /\ b \in T
  OBVIOUS
<1>2. left \subseteq T \X T /\ right \subseteq T \X T
  BY DEF Withdrawn, Promise!Without
<1> HIDE DEF left, right, seen
<1>3. ASSUME NEW a, NEW b
      PROVE  <<a, b>> \in right <=> <<a, b>> \in seen /\ rev # a /\ rev # b
  BY <1>k, InOffer
<1>4. \A a, b : <<a, b>> \in left => <<a, b>> \in right
  BY <1>1, <1>3
<1>5. \A a, b : <<a, b>> \in right => <<a, b>> \in left
  BY <1>1, <1>3
<1>6. left = right
  BY <1>2, <1>4, <1>5, SameOrder
<1> QED BY <1>6 DEF left, right, seen
----------------------------------------------------------------------------
(* The step of each request that counts, and why the others do not. *)

StoreKnown == IInv /\ ShapeInv /\ StoreInv /\ OrderInv

\* Folders and indexes stay, and so does what is offered.
LEMMA FilesStay ==
    ASSUME UNCHANGED files PROVE UNCHANGED Promise!promiseVars
<1>1. \A i : OfferOf(i)' = OfferOf(i)
  BY DEF OfferOf, ListedOrder, Stored, files
<1> QED BY <1>1, OfferStays

\* What a request knows of the store, when nothing has happened.
LEMMA RequestSees ==
    ASSUME StoreKnown, spoiled = {}, NEW w \in Worker, ~IsIdle(w)
    PROVE  /\ JobShape(job[w], clock, ListedOnce) /\ job[w].kind \in {"recipe", "package"}
           /\ IndexFits /\ PackagesFit /\ PackagesHaveRecipe
           /\ StoreAgrees(job[w]) /\ RootAgrees(job[w]) /\ RequestKnows(job[w])
           /\ OrderKnown(job[w])
           /\ StoresPackage(job[w]) => job[w].rrev \in recipe
BY BusyJob, BusyAgrees DEF StoreKnown, OrderInv, IInv

\* A file of a new revision: nobody is told of it yet.
LEMMA StoredUnseen ==
    ASSUME StoreKnown, spoiled = {}, NEW w \in Worker, StoreFile(w), ~job[w].v1
    PROVE  UNCHANGED Promise!promiseVars
<1>j. PICK j : j = job[w]
  OBVIOUS
<1>0. ~IsIdle(w) /\ j.step = "store" /\ UNCHANGED index
  BY <1>j DEF StoreFile, IsIdle
<1>1. /\ StoreAgrees(j) /\ PackagesFit /\ IndexFits /\ ~j.v1
  BY <1>0, <1>j, RequestSees
<1>2. ASSUME NEW i \in Indexes PROVE Listed(i) \subseteq Stored(i) /\ Stored(i) \subseteq Stored(i)'
  <2>1. Listed(i) \subseteq Stored(i)
    BY <1>0, <1>1 DEF StoreAgrees, Unstored
  <2>2. Stored(i) \subseteq Stored(i)'
    BY <1>1, Names DEF StoreFile, Stored, PackagesFit
  <2> QED BY <2>1, <2>2
<1>3. ASSUME NEW i \in Indexes PROVE OfferOf(i)' = OfferOf(i)
  <2>1. ListedOrder(i)' = ListedOrder(i)
    BY <1>0 DEF ListedOrder
  <2>2. ListedOrder(i) \subseteq Listed(i) \X Listed(i)
    BY <1>1, ListedIsOrder DEF IsOrderOn
  <2> QED BY <1>2, <2>1, <2>2 DEF OfferOf
<1> QED BY <1>3, OfferStays


\* The files of a v1 client arrive after their entry.
LEMMA StoredSeen ==
    ASSUME StoreKnown, spoiled = {}, NEW w \in Worker, StoreFile(w), job[w].v1
    PROVE  Promise!PromiseNext
<1>j. PICK j : j = job[w]
  OBVIOUS
<1>0. ~IsIdle(w) /\ j.step = "store" /\ UNCHANGED index
  BY <1>j DEF StoreFile, IsIdle
<1>1. /\ StoreAgrees(j) /\ PackagesFit /\ IndexFits /\ RequestKnows(j) /\ j.v1 /\ OrderKnown(j)
      /\ j.kind \in {"recipe", "package"} /\ JobShape(j, clock, ListedOnce)
      /\ StoresPackage(j) => j.rrev \in recipe
  BY <1>0, <1>j, RequestSees
<1>2. /\ j.rev = Zero /\ j.rrev = Zero /\ (j.kind = "package" => j.prev = Zero)
      /\ j.at \in {Root, Zero} /\ (j.at = Root <=> j.kind = "recipe") /\ j.at \in Indexes
      /\ Zero \in RevsAt(j.at) /\ Zero \in AllRRev
  BY <1>0, <1>1 DEF JobShape, RequestKnows, AllRRev
<1>3. /\ Stored(j.at)' = Stored(j.at) \union {Zero}
      /\ \A n \in Indexes \ {j.at} : Stored(n)' = Stored(n)
  <2>1. CASE j.kind = "recipe"
    <3>1. recipe' = recipe \union {Zero} /\ packages' = packages
      BY <1>2, <1>j, <2>1 DEF StoreFile
    <3> QED BY <1>2, <2>1, <3>1 DEF Stored
  <2>2. CASE j.kind = "package"
    <3>1. recipe' = recipe /\ packages' = [packages EXCEPT ![Zero] = @ \union {Zero}]
      BY <1>2, <1>j, <2>2 DEF StoreFile
    <3>2. packages'[Zero] = packages[Zero] \union {Zero}
          /\ \A r \in AllRRev \ {Zero} : packages'[r] = packages[r]
      BY <1>1, <1>2, <3>1 DEF PackagesFit
    <3> QED BY <1>2, <2>2, <3>1, <3>2, Names DEF Stored
  <2> QED BY <1>1, <2>1, <2>2
<1>4. \A n : ListedOrder(n)' = ListedOrder(n)
  BY <1>0 DEF ListedOrder
<1>5. OfferOf(j.at)' = Arrived(OfferOf(j.at), Zero)
  <2> DEFINE order == ListedOrder(j.at)
             S == RevsAt(j.at)
             T == Stored(j.at)
             more == Stored(j.at)'
  <2>1. IsOrderOn(S, order) /\ Zero \in S /\ Arrived(order, Zero) = order /\ more = T \union {Zero}
    BY <1>0, <1>1, <1>2, <1>3, ListedIsOrder DEF OrderKnown
  <2> HIDE DEF order, S, T, more
  <2>2. order \cap (more \X more) = Arrived(order \cap (T \X T), Zero)
    <3>1. Within(order, more) = Arrived(Within(order, T), Zero)
      BY ONLY <2>1, LastIsStored
    <3> QED BY ONLY <3>1 DEF Within
  <2> QED BY <1>4, <2>2 DEF OfferOf, order, T, more
<1>6. \A n \in Indexes \ {j.at} : OfferOf(n)' = OfferOf(n)
  BY <1>3, <1>4 DEF OfferOf
<1>7. j.at # Root => j.at \in Those(OfferOf(Root))
  <2>1. ASSUME j.at # Root PROVE j.at \in Listed(Root) /\ j.at \in Stored(Root)
    <3>1. j.at = Zero /\ Zero \in recipe
      BY <1>0, <1>1, <1>2, <2>1 DEF StoresPackage
    <3>2. Stored(Root) \subseteq Listed(Root)
      BY <1>0, <1>1 DEF StoreAgrees, Unlisted, Indexes
    <3> QED BY <3>1, <3>2 DEF Stored
  <2>2. Those(OfferOf(Root)) = Listed(Root) \cap Stored(Root)
    BY <1>1, OfferedAre DEF Indexes
  <2> QED BY <2>1, <2>2
<1> QED BY <1>2, <1>5, <1>6, <1>7, OfferGrows

\* The index of a request is written: everything else stays.
LEMMA OneIsWritten ==
    ASSUME IndexFits, NEW i \in Indexes, NEW list, list # NoIndex,
           index' = [index EXCEPT ![i] = list], UNCHANGED <<recipe, packages>>
    PROVE  /\ ListedOrder(i)' = ArrivalOrder(list)
           /\ OfferOf(i)' = ArrivalOrder(list) \cap (Stored(i) \X Stored(i))
           /\ \A n \in Indexes \ {i} : OfferOf(n)' = OfferOf(n)
<1>1. index'[i] = list /\ \A n \in Indexes \ {i} : index'[n] = index[n]
  BY DEF IndexFits
<1>2. \A n : Stored(n)' = Stored(n)
  BY DEF Stored
<1>3. ListedOrder(i)' = ArrivalOrder(list)
  BY <1>1 DEF ListedOrder
<1> QED BY <1>1, <1>2, <1>3 DEF OfferOf, ListedOrder

\* The index of an upload is written: what is stored is offered, what is not is not.
LEMMA WriteOffers ==
    ASSUME StoreKnown, spoiled = {}, NEW w \in Worker, WriteIndex(w)
    PROVE  Promise!PromiseNext \/ UNCHANGED Promise!promiseVars
<1>j. PICK j : j = job[w]
  OBVIOUS
<1>0. /\ ~IsIdle(w) /\ j.step = "write" /\ UNCHANGED <<recipe, packages>>
      /\ index' = [index EXCEPT ![j.at] = j.list]
  BY <1>j DEF WriteIndex, IsIdle
<1>1. /\ StoreAgrees(j) /\ IndexFits /\ RequestKnows(j) /\ OrderKnown(j)
      /\ j.kind \in {"recipe", "package"} /\ JobShape(j, clock, ListedOnce)
      /\ StoresPackage(j) => j.rrev \in recipe
  BY <1>0, <1>j, RequestSees
<1>2. /\ j.at \in Indexes /\ j.rev \in RevsAt(j.at) /\ (j.at = Root <=> j.kind = "recipe")
      /\ j.list # NoIndex
      /\ j.at # Root => j.at = j.rrev
  <2>1. j.v1 => j.rrev = Zero /\ j.at \in {Root, Zero}
    BY <1>0, <1>1 DEF JobShape, RequestKnows
  <2>2. j.list # NoIndex
    BY <1>1, ListIsThere DEF JobShape
  <2> QED BY <1>1, <2>1, <2>2 DEF JobShape
<1> DEFINE order == ListedOrder(j.at)
           S == RevsAt(j.at)
           T == Stored(j.at)
<1>3. /\ ArrivalOrder(j.list) = Arrived(order, j.rev)
      /\ OfferOf(j.at)' = Arrived(order, j.rev) \cap (T \X T)
      /\ \A n \in Indexes \ {j.at} : OfferOf(n)' = OfferOf(n)
      /\ OfferOf(j.at) = order \cap (T \X T)
  <2>1. ArrivalOrder(j.list) = Arrived(order, j.rev)
    BY <1>0, <1>1 DEF OrderKnown
  <2>2. OfferOf(j.at)' = ArrivalOrder(j.list) \cap (T \X T)
        /\ \A n \in Indexes \ {j.at} : OfferOf(n)' = OfferOf(n)
    BY <1>0, <1>1, <1>2, OneIsWritten
  <2> QED BY <2>1, <2>2 DEF OfferOf
<1>4. IsOrderOn(S, order) /\ j.rev \in S
  BY <1>1, <1>2, ListedIsOrder
<1> HIDE DEF order, S, T
<1>5. CASE j.rev \in T
  <2>1. OfferOf(j.at)' = Arrived(OfferOf(j.at), j.rev)
    BY <1>3, <1>4, <1>5, StoredArrives
  <2>2. j.at # Root => j.at \in Those(OfferOf(Root))
    <3>1. ASSUME j.at # Root PROVE j.at \in Listed(Root) /\ j.at \in Stored(Root)
      <4>1. j.at \in recipe
        BY <1>0, <1>1, <1>2, <3>1 DEF StoresPackage
      <4>2. Stored(Root) \subseteq Listed(Root)
        BY <1>1, <3>1 DEF StoreAgrees, Unlisted, Indexes
      <4> QED BY <4>1, <4>2 DEF Stored
    <3>2. Those(OfferOf(Root)) = Listed(Root) \cap Stored(Root)
      BY <1>1, OfferedAre DEF Indexes
    <3> QED BY <3>1, <3>2
  <2> QED BY <1>2, <1>3, <2>1, <2>2, OfferGrows
<1>6. CASE j.rev \notin T
  <2>1. OfferOf(j.at)' = OfferOf(j.at)
    BY <1>3, <1>4, <1>6, UnstoredIsUnseen
  <2> QED BY <1>3, <2>1, OfferStays
<1> QED BY <1>5, <1>6

\* The index of a removal is written when the revision is gone already.
LEMMA UnlistUnseen ==
    ASSUME StoreKnown, spoiled = {}, NEW w \in Worker, UnlistWrite(w)
    PROVE  UNCHANGED Promise!promiseVars
<1>j. PICK j : j = job[w]
  OBVIOUS
<1>0. /\ ~IsIdle(w) /\ j.step = "unwrite" /\ UNCHANGED <<recipe, packages>>
      /\ index' = [index EXCEPT ![j.at] = j.list]
  BY <1>j DEF UnlistWrite, IsIdle
<1>1. /\ IndexFits /\ RequestKnows(j) /\ OrderKnown(j) /\ JobShape(j, clock, ListedOnce)
  BY <1>0, <1>j, RequestSees
<1>2. j.at \in Indexes /\ j.list # NoIndex /\ j.rev \notin Stored(j.at)
  BY <1>0, <1>1, ListIsThere DEF JobShape, RequestKnows
<1> DEFINE order == ListedOrder(j.at)
           S == RevsAt(j.at)
           T == Stored(j.at)
<1>3. /\ OfferOf(j.at)' = Withdrawn(order, j.rev) \cap (T \X T)
      /\ \A n \in Indexes \ {j.at} : OfferOf(n)' = OfferOf(n)
      /\ OfferOf(j.at) = order \cap (T \X T)
  <2>1. ArrivalOrder(j.list) = Withdrawn(order, j.rev)
    BY <1>0, <1>1 DEF OrderKnown
  <2>2. OfferOf(j.at)' = ArrivalOrder(j.list) \cap (T \X T)
        /\ \A n \in Indexes \ {j.at} : OfferOf(n)' = OfferOf(n)
    BY <1>0, <1>1, <1>2, OneIsWritten
  <2> QED BY <2>1, <2>2 DEF OfferOf
<1>4. IsOrderOn(S, order) /\ j.rev \notin T
  BY <1>1, <1>2, ListedIsOrder
<1> HIDE DEF order, S, T
<1>5. OfferOf(j.at)' = OfferOf(j.at)
  BY <1>3, <1>4, UnstoredIsUnseen
<1> QED BY <1>3, <1>5, OfferStays

\* An index that goes when nothing is left was of nothing.
LEMMA SweepUnseen ==
    ASSUME StoreKnown, spoiled = {}, NEW w \in Worker, Sweep(w)
    PROVE  UNCHANGED Promise!promiseVars
<1>0. UNCHANGED <<recipe, packages>> /\ IndexFits
  BY DEF Sweep, StoreKnown, ShapeInv
<1>1. CASE \E r \in AllRRev : FolderExists(r)
  <2>1. UNCHANGED files
    BY <1>0, <1>1 DEF Sweep, files
  <2> QED BY <2>1, FilesStay
<1>2. CASE ~\E r \in AllRRev : FolderExists(r)
  <2>1. recipe = {} /\ index' = [index EXCEPT ![Root] = NoIndex]
    BY <1>2 DEF Sweep, StoreKnown, ShapeInv, FolderExists
  <2>2. \A n \in Indexes \ {Root} : index'[n] = index[n]
    BY <1>0, <2>1 DEF IndexFits
  <2>3. OfferOf(Root) = {} /\ OfferOf(Root)' = {}
    BY <1>0, <2>1 DEF OfferOf, Stored
  <2>4. \A n \in Indexes \ {Root} : OfferOf(n)' = OfferOf(n)
    BY <1>0, <2>2 DEF OfferOf, Stored, ListedOrder
  <2> QED BY <2>3, <2>4, OfferStays
<1> QED BY <1>1, <1>2

\* A folder goes, and with it the revision, whatever its index says yet.
LEMMA DropWithdraws ==
    ASSUME StoreKnown, spoiled = {}, NEW w \in Worker, DropFolder(w)
    PROVE  Promise!PromiseNext \/ UNCHANGED Promise!promiseVars
<1>j. PICK j : j = job[w]
  OBVIOUS
<1>0. /\ ~IsIdle(w) /\ j.step = "drop"
  BY <1>j DEF DropFolder, IsIdle
<1>1. /\ StoreAgrees(j) /\ IndexFits /\ PackagesFit /\ PackagesHaveRecipe
      /\ j.kind \in {"recipe", "package"} /\ JobShape(j, clock, ListedOnce)
  BY <1>0, <1>j, RequestSees
<1>2. /\ \A i \in Indexes : Stored(i) \subseteq Listed(i)
      /\ j.rrev \in AllRRev
  BY <1>0, <1>1 DEF StoreAgrees, Unlisted, JobShape
<1>3. CASE UNCHANGED files
  BY <1>3, FilesStay
<1>4. CASE j.kind = "recipe" /\ ~UNCHANGED files
  <2> DEFINE r == j.rrev
  <2>1. /\ FolderExists(r) /\ recipe' = recipe \ {r} /\ packages' = [packages EXCEPT ![r] = {}]
        /\ index' = [index EXCEPT ![r] = NoIndex]
    BY <1>4, <1>j DEF DropFolder
  <2>2. r \in recipe
    <3>1. \A n \in AllRRev : index[n] # NoIndex => n \in recipe
      BY <1>1 DEF StoreAgrees
    <3> QED BY <1>1, <1>2, <2>1, <3>1, FolderHasRecipe
  <2>3. /\ index'[r] = NoIndex /\ \A n \in Indexes \ {r} : index'[n] = index[n]
        /\ \A n \in AllRRev \ {r} : packages'[n] = packages[n]
    BY <1>1, <1>2, <2>1, Names DEF IndexFits, PackagesFit
  <2>4. OfferOf(r)' = {} /\ \A n \in AllRRev \ {r} : OfferOf(n)' = OfferOf(n)
    BY <2>3, Names DEF OfferOf, ListedOrder, Stored
  <2>5. OfferOf(Root)' = Withdrawn(OfferOf(Root), r)
    <3> DEFINE order == ListedOrder(Root)
               S == RevsAt(Root)
    <3>1. /\ IsOrderOn(S, order) /\ ListedOrder(Root)' = order
          /\ Stored(Root)' = recipe \ {r} /\ Stored(Root) = recipe
      BY <1>1, <1>2, <2>1, <2>3, Names, ListedIsOrder DEF ListedOrder, Stored
    <3>2. OfferOf(Root)' = order \cap ((recipe \ {r}) \X (recipe \ {r}))
          /\ OfferOf(Root) = order \cap (recipe \X recipe)
      BY <3>1 DEF OfferOf
    <3> HIDE DEF order, S
    <3> QED BY <3>1, <3>2, LessIsStored
  <2>6. r \in Those(OfferOf(Root))
    <3>1. Those(OfferOf(Root)) = Listed(Root) \cap Stored(Root)
      BY <1>1, OfferedAre DEF Indexes
    <3> QED BY <1>2, <2>2, <3>1 DEF Stored, Indexes
  <2> QED BY <1>2, <2>4, <2>5, <2>6, RecipeGoes
<1>5. CASE j.kind = "package" /\ ~UNCHANGED files
  <2> DEFINE r == j.rrev
             b == j.prev
  <2>1. /\ b \in packages[r] /\ packages' = [packages EXCEPT ![r] = @ \ {b}]
        /\ UNCHANGED <<recipe, index>>
    BY <1>5, <1>j DEF DropFolder
  <2>2. /\ packages'[r] = packages[r] \ {b} /\ \A n \in AllRRev \ {r} : packages'[n] = packages[n]
    BY <1>1, <1>2, <2>1 DEF PackagesFit
  <2>3. \A n \in Indexes \ {r} : OfferOf(n)' = OfferOf(n)
    BY <2>1, <2>2, Names DEF OfferOf, ListedOrder, Stored
  <2>4. OfferOf(r)' = Withdrawn(OfferOf(r), b)
    <3> DEFINE order == ListedOrder(r)
               S == RevsAt(r)
               T == packages[r]
    <3>1. /\ IsOrderOn(S, order) /\ ListedOrder(r)' = order
          /\ Stored(r)' = T \ {b} /\ Stored(r) = T
      BY <1>1, <1>2, <2>1, <2>2, Names, ListedIsOrder DEF ListedOrder, Stored
    <3>2. OfferOf(r)' = order \cap ((T \ {b}) \X (T \ {b})) /\ OfferOf(r) = order \cap (T \X T)
      BY <3>1 DEF OfferOf
    <3> HIDE DEF order, S, T
    <3> QED BY <3>1, <3>2, LessIsStored
  <2>5. b \in Those(OfferOf(r))
    <3>1. r \in Indexes /\ Stored(r) = packages[r]
      BY <1>2, Names DEF Stored
    <3>2. Those(OfferOf(r)) = Listed(r) \cap Stored(r)
      BY <1>1, <3>1, OfferedAre
    <3> QED BY <1>2, <2>1, <3>1, <3>2
  <2> QED BY <1>2, <2>3, <2>4, <2>5, PackageGoes
<1> QED BY <1>1, <1>3, <1>4, <1>5

\* All packages of a recipe go, or everything.
LEMMA PackagesWithdrawn ==
    ASSUME IndexFits, PackagesFit, NEW r \in AllRRev, UNCHANGED recipe,
           packages' = [packages EXCEPT ![r] = {}], index' = [index EXCEPT ![r] = NoIndex]
    PROVE  Promise!PromiseNext
<1>1. /\ index'[r] = NoIndex /\ \A n \in Indexes \ {r} : index'[n] = index[n]
      /\ \A n \in AllRRev \ {r} : packages'[n] = packages[n]
  BY Names DEF IndexFits, PackagesFit
<1>2. OfferOf(r)' = {} /\ \A n \in Indexes \ {r} : OfferOf(n)' = OfferOf(n)
  BY <1>1, Names DEF OfferOf, ListedOrder, Stored
<1> QED BY <1>2, OffersGo

LEMMA PurgeWithdraws ==
    ASSUME StoreKnown, spoiled = {}, NEW w \in Worker, V1PurgePackages(w)
    PROVE  Promise!PromiseNext \/ UNCHANGED Promise!promiseVars
<1>j. PICK j : j = job[w]
  OBVIOUS
<1>0. ~IsIdle(w) /\ j.step = "purge" /\ UNCHANGED recipe
  BY <1>j DEF V1PurgePackages, IsIdle
<1>1. IndexFits /\ PackagesFit /\ JobShape(j, clock, ListedOnce)
  BY <1>0, <1>j, RequestSees
<1>2. CASE UNCHANGED <<packages, index>>
  BY <1>0, <1>2, FilesStay DEF files
<1>3. CASE ~UNCHANGED <<packages, index>>
  <2>1. Head(j.todo) \in AllRRev
    <3>1. j.todo \in Seq(AllRRev) /\ j.todo # <<>>
      BY <1>0, <1>1 DEF JobShape
    <3> QED BY <3>1
  <2>2. /\ packages' = [packages EXCEPT ![Head(j.todo)] = {}]
        /\ index' = [index EXCEPT ![Head(j.todo)] = NoIndex]
    BY <1>3, <1>j DEF V1PurgePackages
  <2> QED BY <1>0, <1>1, <2>1, <2>2, PackagesWithdrawn
<1> QED BY <1>2, <1>3

LEMMA AtOnceWithdraws ==
    ASSUME StoreKnown, NEW w \in Worker, RemoveAllPackages(w) \/ RemoveReference(w)
    PROVE  Promise!PromiseNext
<1>1. IndexFits /\ PackagesFit
  BY DEF StoreKnown, ShapeInv, IInv
<1>2. CASE RemoveAllPackages(w)
  <2>1. PICK r \in AllRRev : /\ packages' = [packages EXCEPT ![r] = {}]
                             /\ index' = [index EXCEPT ![r] = NoIndex] /\ recipe' = recipe
    BY <1>2 DEF RemoveAllPackages
  <2> QED BY <1>1, <2>1, PackagesWithdrawn
<1>3. CASE RemoveReference(w)
  <2>1. index' = [i \in Indexes |-> NoIndex]
    BY <1>1, <1>3 DEF RemoveReference, IndexFits
  <2>2. \A n \in Indexes : OfferOf(n)' = {}
    BY <2>1 DEF OfferOf, ListedOrder
  <2> QED BY <2>2, AllGo
<1> QED BY <1>2, <1>3

LEMMA OrderInit == ASSUME Init PROVE OrderInv /\ Promise!PromiseInit
<1>1. OrderInv
  BY DEF Init, OrderInv, OrderKnown, Idle
<1>2. \A i \in Indexes : OfferOf(i) = {}
  BY DEF Init, OfferOf, ListedOrder, Indexes
<1>3. /\ Offered(Root, recipe) = {}
      /\ [r \in AllRRev |-> Offered(r, packages[r])] = [r \in AllRRev |-> {}]
  BY <1>2, Names, Offers
<1> QED BY <1>1, <1>3 DEF Promise!PromiseInit

\* Every step is one of the promise, or changes nothing that a client sees.
LEMMA StepKeepsPromise ==
    ASSUME StoreKnown, [Next]_vars, spoiled' = {}
    PROVE  Promise!PromiseNext \/ UNCHANGED Promise!promiseVars
<1>1. CASE Tick \/ AtRest \/ UNCHANGED vars
  BY <1>1, FilesStay DEF Tick, AtRest, vars, files
<1>2. ASSUME NEW w \in Worker,
             \/ PutRecipe(w) \/ PutPackage(w) \/ V1PutRecipe(w) \/ V1PutPackage(w)
             \/ DeleteRecipe(w) \/ DeleteAllRRevs(w) \/ DeletePackage(w) \/ V1RemovePackages(w)
      PROVE  UNCHANGED Promise!promiseVars
  BY <1>2, JobsBegin, FilesStay
<1>3. ASSUME NEW w \in Worker,
             V1Urls(w) \/ LookForIndex(w) \/ ReadIndex(w) \/ V1Abandon(w) \/ UnlistRead(w)
      PROVE  UNCHANGED Promise!promiseVars
  BY <1>3, FilesStay DEF V1Urls, LookForIndex, ReadIndex, V1Abandon, UnlistRead
<1>4. ASSUME NEW w \in Worker,
             StoreFile(w) \/ WriteIndex(w) \/ V1PurgePackages(w) \/ DropFolder(w)
             \/ UnlistWrite(w) \/ Sweep(w)
      PROVE  spoiled = {}
  BY <1>4 DEF StoreFile, WriteIndex, V1PurgePackages, DropFolder, UnlistWrite, Sweep
<1> QED BY <1>1, <1>2, <1>3, <1>4, StoredUnseen, StoredSeen, WriteOffers, UnlistUnseen,
           SweepUnseen, DropWithdraws, PurgeWithdraws, AtOnceWithdraws DEF Next

\* Folders and indexes change one after the other, in several files and several requests
\* (server_store.py 97, 256 and 332, service/v2/service_v2.py), and clients see each request
\* take effect at once, with the latest revision the one that arrived last: the store
\* implements RevisionStore, until something happens that it does not stand.
THEOREM StoreKeepsPromise == Spec => KeepsPromise
<1>1. Init => StoreKnown /\ Promise!PromiseInit
  BY InvInit, ShapeInit, StoreInit, OrderInit DEF StoreKnown
<1>2. StoreKnown /\ [Next]_vars => StoreKnown'
  BY InvStep, ShapeNext, StoreNext, OrderNext DEF StoreKnown
<1>3. StoreKnown /\ [Next]_vars
        => [spoiled' = {} => Promise!PromiseNext]_(Promise!promiseVars)
  BY StepKeepsPromise
<1> QED BY <1>1, <1>2, <1>3, PTL DEF Spec, KeepsPromise
=============================================================================
