---------------------------- MODULE UploadProofs ----------------------------
(***************************************************************************)
(* What a manifest on the server vouches for, and what a client may rely   *)
(* on that was told its upload is done, for any number of clients, with    *)
(* any recipes and policies, and any number of failures and stops.         *)
(*                                                                         *)
(* The argument rests on one fact: a file that is on the server, or is     *)
(* being replaced there, stays so whatever anybody does.                   *)
(*                                                                         *)
(* Then, what those who install meanwhile end up with, for any number of   *)
(* readers and installations: while no file is sent twice, the files of an *)
(* item come in their order and from one client, and what a reader has got *)
(* is still there, so that one file it has tells which others there are.   *)
(***************************************************************************)
EXTENDS Fetch, TLAPS

\* The file is there, or will be in a moment.
There(i, f) == stored[i][f] # 0 \/ BeingReplaced(i, f)

\* A client that has not failed to send a file has got all before the next one there.
Sent(c) ==
    pc[c] \in {"send", "put"} /\ ~failed[c] =>
        \A n \in 1..(next[c] - 1) : There(item[c], Files(item[c])[n])
\* The manifest of a package is looked at only when its files are all there.
Judged(c) == pc[c] \in {"manifest", "compare"} /\ item[c] = "package" => Complete("package")
\* The manifest of a recipe is one that had its files beside it.
Relied(c) == item[c] = "recipe" /\ seen[c] # 0 /\ failures = 0 => Complete("recipe")
Untroubled(c) == failures = 0 => ~failed[c]
Told(c) ==
    /\ outcome[c]["recipe"] = "done" /\ failures = 0 => Complete("recipe")
    /\ outcome[c]["package"] = "done" => Complete("package")

\* It begins each item with its first file.
Fresh(c) == pc[c] \notin {"send", "put"} => next[c] = 1

Sound(c) == Fresh(c) /\ Sent(c) /\ Judged(c) /\ Relied(c) /\ Untroubled(c) /\ Told(c)
IInv == TypeOK /\ ManifestLast /\ \A c \in Client : Sound(c)
----------------------------------------------------------------------------
(* The files of an item, in their order. *)

LEMMA FilesOf ==
    ASSUME NEW i \in Item
    PROVE  /\ Len(Files(i)) \in 3..4 /\ DOMAIN Files(i) = 1..Len(Files(i))
           /\ FileNames(i) = {Files(i)[n] : n \in 1..Len(Files(i))}
           /\ Files(i)[Len(Files(i))] = "manifest" /\ "manifest" \in FileNames(i)
           /\ \A n \in 1..(Len(Files(i)) - 1) : Files(i)[n] # "manifest"
<1>1. CASE i = "recipe"
  BY <1>1 DEF Files, FileNames
<1>2. CASE i = "package"
  BY <1>2 DEF Files, FileNames
<1> QED
  BY <1>1, <1>2 DEF Item

\* What a client sends is something.
LEMMA LocalIsSomething ==
    ASSUME TypeOK, NEW c \in Client
    PROVE  /\ Local(c) # 0
           /\ Local(c) \in {0, 1} \union {Content[d] : d \in Client}
BY UploadConstants DEF Local

LEMMA AllThere ==
    ASSUME NEW i \in Item, \A n \in 1..Len(Files(i)) : There(i, Files(i)[n])
    PROVE  Complete(i)
BY FilesOf DEF There, Complete
----------------------------------------------------------------------------
(* What is there stays there. *)

\* A step of a client that writes nothing.
LEMMA AsideKeeps ==
    ASSUME TypeOK, NEW c \in Client, pc[c] # "put", UNCHANGED stored,
           \A d \in Client \ {c} : pc'[d] = pc[d] /\ item'[d] = item[d] /\ next'[d] = next[d],
           NEW i \in Item, NEW f \in FileNames(i), There(i, f)
    PROVE  There(i, f)'
BY DEF There, BeingReplaced, Current

LEMMA UnlinkKeeps ==
    ASSUME TypeOK, NEW c \in Client, PutUnlink(c),
           NEW i \in Item, NEW f \in FileNames(i), There(i, f)
    PROVE  There(i, f)'
<1>1. pc[c] = "send" /\ pc' = [pc EXCEPT ![c] = "put"] /\ UNCHANGED <<item, next>>
  BY DEF PutUnlink, Sending, GoTo
<1>2. CASE i = item[c] /\ f = Current(c)
  BY <1>1, <1>2 DEF There, BeingReplaced, Current, TypeOK
<1>3. CASE ~(i = item[c] /\ f = Current(c))
  <2>1. stored'[i][f] = stored[i][f]
    BY <1>3 DEF PutUnlink, TypeOK
  <2>2. ASSUME NEW d \in Client, pc[d] = "put", item[d] = i, Current(d) = f
        PROVE  pc'[d] = "put" /\ item'[d] = i /\ Current(d)' = f
    BY <1>1, <2>2 DEF Current, TypeOK
  <2> QED
    BY <2>1, <2>2 DEF There, BeingReplaced
<1> QED
  BY <1>2, <1>3

\* The server writes what it has received.
LEMMA SaveKeeps ==
    ASSUME TypeOK, NEW c \in Client, pc[c] = "put",
           stored' = [stored EXCEPT ![item[c]][Current(c)] = Local(c)],
           \A d \in Client \ {c} : pc'[d] = pc[d] /\ item'[d] = item[d] /\ next'[d] = next[d],
           NEW i \in Item, NEW f \in FileNames(i), There(i, f)
    PROVE  There(i, f)'
<1>1. CASE i = item[c] /\ f = Current(c)
  <2>1. stored'[i][f] = Local(c)
    BY <1>1 DEF TypeOK
  <2> QED
    BY <2>1, LocalIsSomething DEF There
<1>2. CASE ~(i = item[c] /\ f = Current(c))
  <2>1. stored'[i][f] = stored[i][f]
    BY <1>2 DEF TypeOK
  <2>2. ASSUME NEW d \in Client, pc[d] = "put", item[d] = i, Current(d) = f
        PROVE  pc'[d] = "put" /\ item'[d] = i /\ Current(d)' = f
    BY <1>2, <2>2 DEF Current
  <2> QED
    BY <2>1, <2>2 DEF There, BeingReplaced
<1> QED
  BY <1>1, <1>2
----------------------------------------------------------------------------
(* The variables have their types. *)

Step(c) == Begin(c) \/ Upload(c) \/ PutFail(c) \/ PutForbidden(c) \/ Crash(c)

\* The part of TypeOK that is about what the clients are in.
CommandsOK ==
    /\ pc \in [Client -> {"idle", "date", "snapshot", "manifest", "compare", "send", "put"}]
    /\ policy \in [Client -> Policies]
    /\ item \in [Client -> Item]
    /\ seen \in [Client -> {0, 1} \union {Content[d] : d \in Client}]
    /\ next \in [Client -> 1..5]
    /\ \A d \in Client : next[d] \in 1..(Len(Files(item[d])) + 1)
    /\ \A d \in Client : pc[d] = "put" => next[d] \in DOMAIN Files(item[d])
    /\ failed \in [Client -> BOOLEAN]
    /\ outcome \in [Client -> [Item -> {"none", "done", "failed"}]]

\* The part that is about the server.
ServerOK ==
    /\ DOMAIN stored = Item
    /\ \A i \in Item :
         stored[i] \in [FileNames(i) -> {0, 1} \union {Content[d] : d \in Client}]

CountsOK == failures \in Nat /\ stops \in Nat

LEMMA TypeParts ==
    /\ TypeOK <=> CommandsOK /\ ServerOK /\ CountsOK
    /\ TypeOK' <=> CommandsOK' /\ ServerOK' /\ CountsOK'
<1>1. TypeOK <=> CommandsOK /\ ServerOK /\ CountsOK
  BY DEF TypeOK, CommandsOK, ServerOK, CountsOK
<1>2. TypeOK' <=> CommandsOK' /\ ServerOK' /\ CountsOK'
  BY DEF TypeOK, CommandsOK, ServerOK, CountsOK
<1> QED
  BY <1>1, <1>2

LEMMA OutcomeType ==
    ASSUME CommandsOK, NEW c \in Client, NEW i \in Item,
           NEW how \in {"none", "done", "failed"},
           outcome' = [outcome EXCEPT ![c][i] = how]
    PROVE  outcome' \in [Client -> [Item -> {"none", "done", "failed"}]]
<1>1. outcome[c] \in [Item -> {"none", "done", "failed"}]
  BY DEF CommandsOK
<1>2. [outcome[c] EXCEPT ![i] = how] \in [Item -> {"none", "done", "failed"}]
  BY <1>1
<1> QED
  BY <1>2 DEF CommandsOK

LEMMA StopType ==
    ASSUME CommandsOK, NEW c \in Client, NEW how \in {"none", "done", "failed"}, Stop(c, how)
    PROVE  CommandsOK'
<1>1. "recipe" \in Item /\ 1 \in 1..(Len(Files("recipe")) + 1)
  BY FilesOf DEF Item
<1>2. "none" \in Policies
  BY DEF Policies
<1>3. outcome' \in [Client -> [Item -> {"none", "done", "failed"}]]
  BY OutcomeType DEF Stop, CommandsOK
<1> QED
  BY <1>1, <1>2, <1>3 DEF CommandsOK, Stop, GoTo

LEMMA DoneType ==
    ASSUME CommandsOK, NEW c \in Client, Done(c)
    PROVE  CommandsOK'
<1>1. CASE item[c] = "package"
  BY <1>1, StopType DEF Done
<1>2. CASE item[c] # "package"
  <2>1. "package" \in Item /\ "recipe" \in Item /\ 1 \in 1..(Len(Files("package")) + 1)
    BY FilesOf DEF Item
  <2>2. outcome' \in [Client -> [Item -> {"none", "done", "failed"}]]
    BY <1>2, <2>1, OutcomeType DEF Done
  <2>3. /\ pc' = [pc EXCEPT ![c] = "snapshot"] /\ item' = [item EXCEPT ![c] = "package"]
        /\ seen' = [seen EXCEPT ![c] = 0] /\ next' = [next EXCEPT ![c] = 1]
        /\ failed' = [failed EXCEPT ![c] = FALSE] /\ policy' = policy
    BY <1>2 DEF Done, GoTo
  <2>4. ASSUME NEW d \in Client
        PROVE  /\ next'[d] \in 1..(Len(Files(item'[d])) + 1)
               /\ pc'[d] = "put" => next'[d] \in DOMAIN Files(item'[d])
    <3>1. CASE d = c
      BY <2>1, <2>3, <3>1 DEF CommandsOK
    <3>2. CASE d # c
      BY <2>3, <3>2 DEF CommandsOK
    <3> QED
      BY <3>1, <3>2
  <2> QED
    BY <2>1, <2>2, <2>3, <2>4 DEF CommandsOK
<1> QED
  BY <1>1, <1>2

\* On to the files, or to another question to the server.
LEMMA GoType ==
    ASSUME CommandsOK, NEW c \in Client, NEW to \in {"date", "snapshot", "manifest", "compare", "send"},
           GoTo(c, to), UNCHANGED <<policy, item, next, failed, outcome>>,
           seen' \in [Client -> {0, 1} \union {Content[d] : d \in Client}]
    PROVE  CommandsOK'
BY DEF CommandsOK, GoTo

\* The content a server keeps is one that some client has sent.
LEMMA StoredType ==
    ASSUME TypeOK, NEW c \in Client, next[c] \in DOMAIN Files(item[c]),
           NEW v \in {0, 1} \union {Content[d] : d \in Client},
           stored' = [stored EXCEPT ![item[c]][Current(c)] = v]
    PROVE  ServerOK'
<1>1. item[c] \in Item
  BY DEF TypeOK
<1>2. Current(c) \in FileNames(item[c])
  BY DEF Current, FileNames
<1>3. [stored[item[c]] EXCEPT ![Current(c)] = v]
        \in [FileNames(item[c]) -> {0, 1} \union {Content[d] : d \in Client}]
  BY <1>1, <1>2 DEF TypeOK
<1> QED
  BY <1>1, <1>3 DEF TypeOK, ServerOK

LEMMA SendAllType ==
    ASSUME CommandsOK, NEW c \in Client, SendAll(c)
    PROVE  CommandsOK'
<1>1. seen' \in [Client -> {0, 1} \union {Content[d] : d \in Client}]
  BY DEF SendAll, CommandsOK
<1> QED
  BY <1>1, GoType DEF SendAll

\* The manifest the server answers with.
LEMMA ManifestType ==
    ASSUME TypeOK, NEW i \in Item
    PROVE  Manifest(i) \in {0, 1} \union {Content[d] : d \in Client}
BY FilesOf DEF TypeOK, Manifest

\* A client that is sending has a file to send, and another number after it.
LEMMA SendingOne ==
    ASSUME CommandsOK, NEW c \in Client, Sending(c)
    PROVE  next[c] \in DOMAIN Files(item[c])
<1>1. item[c] \in Item /\ next[c] \in 1..(Len(Files(item[c])) + 1) /\ next[c] <= Len(Files(item[c]))
  BY DEF CommandsOK, Sending
<1>2. DOMAIN Files(item[c]) = 1..Len(Files(item[c])) /\ Len(Files(item[c])) \in Nat
  BY <1>1, FilesOf
<1> QED
  BY <1>1, <1>2

\* The files before the next one are files of the item.
LEMMA SentAreFiles ==
    ASSUME CommandsOK, NEW c \in Client, NEW n \in 1..(next[c] - 1)
    PROVE  n \in 1..Len(Files(item[c])) /\ Files(item[c])[n] \in FileNames(item[c])
<1>1. item[c] \in Item /\ next[c] \in 1..(Len(Files(item[c])) + 1)
  BY DEF CommandsOK
<1>2. /\ FileNames(item[c]) = {Files(item[c])[m] : m \in 1..Len(Files(item[c]))}
      /\ Len(Files(item[c])) \in Nat
  BY <1>1, FilesOf
<1> QED
  BY <1>1, <1>2

LEMMA OneFurther ==
    ASSUME NEW i \in Item, NEW n \in DOMAIN Files(i)
    PROVE  n + 1 \in 1..(Len(Files(i)) + 1) /\ n + 1 \in 1..5
<1>1. n \in 1..Len(Files(i)) /\ Len(Files(i)) \in 3..4
  BY FilesOf
<1> QED
  BY <1>1

LEMMA TypeStep ==
    ASSUME TypeOK, [Next]_vars
    PROVE  TypeOK'
<1> USE TypeParts
<1>1. ASSUME NEW c \in Client, Begin(c)
      PROVE  TypeOK'
  <2>1. /\ pc' \in [Client -> {"idle", "date", "snapshot", "manifest", "compare", "send", "put"}]
        /\ \A d \in Client : pc'[d] = "put" => pc[d] = "put"
    BY <1>1 DEF Begin, GoTo, CommandsOK
  <2>2. policy' \in [Client -> Policies]
    BY <1>1, UploadConstants DEF Begin, CommandsOK
  <2>3. outcome' \in [Client -> [Item -> {"none", "done", "failed"}]]
    BY <1>1 DEF Begin, CommandsOK
  <2> QED
    BY <1>1, <2>1, <2>2, <2>3 DEF Begin, CommandsOK, ServerOK, CountsOK
<1>2. ASSUME NEW c \in Client, CheckDate(c)
      PROVE  TypeOK'
  <2>0. UNCHANGED <<stored, failures, stops>>
    BY <1>2 DEF CheckDate
  <2>1. ASSUME NEW how \in {"none", "failed"}, Stop(c, how)
        PROVE  CommandsOK'
    BY <2>1, StopType
  <2>2. ASSUME NEW there \in {0, 1} \union {Content[d] : d \in Client},
               GoTo(c, "snapshot"), seen' = [seen EXCEPT ![c] = there],
               UNCHANGED <<policy, item, next, failed, outcome>>
        PROVE  CommandsOK'
    <3>1. seen' \in [Client -> {0, 1} \union {Content[d] : d \in Client}]
      BY <2>2 DEF CommandsOK
    <3> QED
      BY <2>2, <3>1, GoType
  <2>3. Manifest("recipe") \in {0, 1} \union {Content[d] : d \in Client}
    BY ManifestType DEF Item
  <2>4. CommandsOK'
    BY <1>2, <2>1, <2>2, <2>3 DEF CheckDate
  <2> QED
    BY <2>0, <2>4 DEF ServerOK, CountsOK
<1>3. ASSUME NEW c \in Client, TakeSnapshot(c)
      PROVE  TypeOK'
  <2>1. CASE SendAll(c)
    BY <1>3, <2>1, SendAllType DEF TakeSnapshot, ServerOK, CountsOK
  <2>2. CASE ~SendAll(c)
    <3>1. PICK to \in {"manifest", "compare"} : GoTo(c, to)
      BY <1>3, <2>2 DEF TakeSnapshot
    <3>2. UNCHANGED <<policy, item, seen, next, failed, outcome>>
      BY <1>3, <2>2 DEF TakeSnapshot
    <3>3. CommandsOK'
      BY <3>1, <3>2, GoType DEF CommandsOK
    <3> QED
      BY <1>3, <3>3 DEF TakeSnapshot, ServerOK, CountsOK
  <2> QED
    BY <2>1, <2>2
<1>4. ASSUME NEW c \in Client, GetManifest(c)
      PROVE  TypeOK'
  <2>0. UNCHANGED <<stored, failures, stops>>
    BY <1>4 DEF GetManifest
  <2>1. CASE Manifest(item[c]) # 0
    <3>1. Manifest(item[c]) \in {0, 1} \union {Content[d] : d \in Client}
      BY ManifestType DEF CommandsOK
    <3>2. seen' \in [Client -> {0, 1} \union {Content[d] : d \in Client}]
      BY <1>4, <2>1, <3>1 DEF GetManifest, CommandsOK
    <3> QED
      BY <1>4, <2>0, <2>1, <3>2, GoType DEF GetManifest, ServerOK, CountsOK
  <2>2. CASE Manifest(item[c]) = 0
    BY <1>4, <2>0, <2>2, SendAllType, StopType DEF GetManifest, ServerOK, CountsOK
  <2> QED
    BY <2>1, <2>2
<1>5. ASSUME NEW c \in Client, Compare(c)
      PROVE  TypeOK'
  <2>1. Done(c) \/ Stop(c, "failed") \/ SendAll(c)
    BY <1>5 DEF Compare
  <2> QED
    BY <1>5, <2>1, DoneType, StopType, SendAllType DEF Compare, ServerOK, CountsOK
<1>6. ASSUME NEW c \in Client, PutUnlink(c)
      PROVE  TypeOK'
  <2>1. next[c] \in DOMAIN Files(item[c])
    BY <1>6, SendingOne DEF PutUnlink
  <2>2. ServerOK'
    BY <1>6, <2>1, StoredType DEF PutUnlink
  <2>3. CommandsOK'
    BY <1>6, <2>1 DEF PutUnlink, GoTo, CommandsOK
  <2> QED
    BY <1>6, <2>2, <2>3 DEF PutUnlink, CountsOK
<1>7. ASSUME NEW c \in Client, PutSave(c)
      PROVE  TypeOK'
  <2>1. next[c] \in DOMAIN Files(item[c]) /\ item[c] \in Item
    BY <1>7 DEF PutSave, CommandsOK
  <2>2. ServerOK'
    BY <1>7, <2>1, StoredType, LocalIsSomething DEF PutSave
  <2>3. next[c] + 1 \in 1..(Len(Files(item[c])) + 1) /\ next[c] + 1 \in 1..5
    BY <2>1, OneFurther
  <2>4. CommandsOK'
    BY <1>7, <2>3 DEF PutSave, GoTo, CommandsOK
  <2> QED
    BY <1>7, <2>2, <2>4 DEF PutSave, CountsOK
<1>8. ASSUME NEW c \in Client, Finish(c)
      PROVE  TypeOK'
  BY <1>8, DoneType, StopType DEF Finish, ServerOK, CountsOK
<1>9. ASSUME NEW c \in Client, PutFail(c)
      PROVE  TypeOK'
  <2>1. next[c] \in DOMAIN Files(item[c]) /\ item[c] \in Item /\ pc[c] = "send"
    BY <1>9, SendingOne DEF PutFail, Sending, CommandsOK
  <2>2. next[c] + 1 \in 1..(Len(Files(item[c])) + 1) /\ next[c] + 1 \in 1..5
    BY <2>1, OneFurther
  <2>3. CommandsOK'
    BY <1>9, <2>1, <2>2 DEF PutFail, CommandsOK
  <2> QED
    BY <1>9, <2>3 DEF PutFail, ServerOK, CountsOK
<1>10. ASSUME NEW c \in Client, PutForbidden(c)
       PROVE  TypeOK'
  BY <1>10, StopType DEF PutForbidden, ServerOK, CountsOK
<1>11. ASSUME NEW c \in Client, Crash(c)
       PROVE  TypeOK'
  <2>1. CommandsOK'
    BY <1>11, StopType DEF Crash
  <2>2. ServerOK'
    <3>1. CASE pc[c] = "put"
      <4>1. next[c] \in DOMAIN Files(item[c])
        BY <3>1 DEF CommandsOK
      <4> QED
        BY <1>11, <3>1, <4>1, StoredType, LocalIsSomething DEF Crash
    <3>2. CASE pc[c] # "put"
      BY <1>11, <3>2 DEF Crash, ServerOK, CountsOK
    <3> QED
      BY <3>1, <3>2
  <2> QED
    BY <1>11, <2>1, <2>2 DEF Crash, CountsOK
<1>12. CASE UNCHANGED vars
  BY <1>12 DEF vars, CommandsOK, ServerOK, CountsOK
<1> QED
  BY <1>1, <1>2, <1>3, <1>4, <1>5, <1>6, <1>7, <1>8, <1>9, <1>10, <1>11, <1>12
  DEF Next, Upload

LEMMA TypeInit ==
    ASSUME Init
    PROVE  TypeOK
<1>1. "recipe" \in Item /\ "none" \in Policies
  BY DEF Item, Policies
<1>2. \A i \in Item : 1 \in 1..(Len(Files(i)) + 1)
  BY FilesOf
<1>3. CommandsOK
  BY <1>1, <1>2 DEF Init, CommandsOK
<1> QED
  BY <1>3, TypeParts DEF Init, ServerOK, CountsOK

\* In every reachable state each variable holds what the code keeps in it.
THEOREM UploadTypeCorrect == Spec => []TypeOK
BY TypeInit, TypeStep, PTL DEF Spec
----------------------------------------------------------------------------
(* A step of one client leaves the others where they are, and takes nothing *)
(* from the server for good.                                                *)

LEMMA OthersStay ==
    ASSUME TypeOK, NEW c \in Client, Step(c), NEW d \in Client, d # c
    PROVE  /\ pc'[d] = pc[d] /\ item'[d] = item[d] /\ seen'[d] = seen[d]
           /\ next'[d] = next[d] /\ failed'[d] = failed[d] /\ outcome'[d] = outcome[d]
<1>1. ASSUME NEW how, Stop(c, how)
      PROVE  /\ pc'[d] = pc[d] /\ item'[d] = item[d] /\ seen'[d] = seen[d]
             /\ next'[d] = next[d] /\ failed'[d] = failed[d] /\ outcome'[d] = outcome[d]
  BY <1>1 DEF TypeOK, Stop, GoTo
<1>2. ASSUME Done(c)
      PROVE  /\ pc'[d] = pc[d] /\ item'[d] = item[d] /\ seen'[d] = seen[d]
             /\ next'[d] = next[d] /\ failed'[d] = failed[d] /\ outcome'[d] = outcome[d]
  BY <1>1, <1>2 DEF TypeOK, Done, GoTo
<1>3. CASE Begin(c)
  BY <1>3 DEF TypeOK, Begin, GoTo
<1>4. CASE CheckDate(c) \/ Compare(c) \/ GetManifest(c) \/ TakeSnapshot(c)
  BY <1>1, <1>2, <1>4 DEF TypeOK, CheckDate, Compare, GetManifest, TakeSnapshot, SendAll, GoTo
<1>5. CASE PutUnlink(c) \/ PutSave(c) \/ PutFail(c)
  BY <1>5 DEF TypeOK, PutUnlink, PutSave, PutFail, GoTo
<1>6. CASE Finish(c) \/ PutForbidden(c) \/ Crash(c)
  BY <1>1, <1>2, <1>6 DEF Finish, PutForbidden, Crash
<1> QED
  BY <1>3, <1>4, <1>5, <1>6 DEF Step, Upload

LEMMA StepKeeps ==
    ASSUME TypeOK, NEW c \in Client, Step(c),
           NEW i \in Item, NEW f \in FileNames(i), There(i, f)
    PROVE  There(i, f)'
<1>0. \A d \in Client \ {c} : pc'[d] = pc[d] /\ item'[d] = item[d] /\ next'[d] = next[d]
  BY OthersStay
<1>1. CASE PutUnlink(c)
  BY <1>1, UnlinkKeeps
<1>2. CASE PutSave(c) \/ (Crash(c) /\ pc[c] = "put")
  <2>1. pc[c] = "put" /\ stored' = [stored EXCEPT ![item[c]][Current(c)] = Local(c)]
    BY <1>2 DEF PutSave, Crash
  <2> QED
    BY <1>0, <2>1, SaveKeeps
<1>3. CASE ~PutUnlink(c) /\ ~PutSave(c) /\ ~(Crash(c) /\ pc[c] = "put")
  <2>1. pc[c] # "put" /\ UNCHANGED stored
    BY <1>3 DEF Step, Upload, Begin, CheckDate, TakeSnapshot, GetManifest, Compare, Finish,
                PutFail, PutForbidden, Crash, Sending
  <2> QED
    BY <1>0, <2>1, AsideKeeps
<1> QED
  BY <1>1, <1>2, <1>3

LEMMA CompleteStays ==
    ASSUME TypeOK, NEW c \in Client, Step(c), NEW i \in Item, Complete(i)
    PROVE  Complete(i)'
BY StepKeeps DEF Complete, There

\* Failures are counted, and never forgotten.
LEMMA FailuresStay ==
    ASSUME TypeOK, NEW c \in Client, Step(c), failures' = 0
    PROVE  failures = 0
BY DEF TypeOK, Step, Upload, Begin, CheckDate, TakeSnapshot, GetManifest, Compare, Finish,
       PutUnlink, PutSave, PutFail, PutForbidden, Crash
----------------------------------------------------------------------------
(* What is known of a client that takes no step stays true. *)

LEMMA OthersSound ==
    ASSUME TypeOK, NEW c \in Client, Step(c), NEW d \in Client, d # c, Sound(d)
    PROVE  Sound(d)'
<1> USE OthersStay, CompleteStays, FailuresStay
<1>0. item[d] \in Item /\ "recipe" \in Item /\ "package" \in Item
  BY DEF TypeOK, Item
<1>1. Fresh(d)'
  BY DEF Sound, Fresh
<1>2. Sent(d)'
  <2> SUFFICES ASSUME pc[d] \in {"send", "put"}, ~failed[d], NEW n \in 1..(next[d] - 1)
               PROVE  There(item[d], Files(item[d])[n])'
    BY DEF Sent
  <2>1. There(item[d], Files(item[d])[n])
    BY DEF Sound, Sent
  <2>2. Files(item[d])[n] \in FileNames(item[d])
    BY SentAreFiles, TypeParts
  <2> QED
    BY <1>0, <2>1, <2>2, StepKeeps
<1>3. Judged(d)'
  BY <1>0 DEF Sound, Judged
<1>4. Relied(d)'
  BY <1>0 DEF Sound, Relied
<1>5. Untroubled(d)'
  BY DEF Sound, Untroubled
<1>6. Told(d)'
  BY <1>0 DEF Sound, Told
<1> QED
  BY <1>1, <1>2, <1>3, <1>4, <1>5, <1>6 DEF Sound
----------------------------------------------------------------------------
(* What is known of the client that takes the step. *)

LEMMA StopSound ==
    ASSUME TypeOK, NEW c \in Client, Step(c), Sound(c),
           NEW how \in {"none", "done", "failed"}, Stop(c, how),
           how = "done" => item[c] = "package" /\ Complete("package")
    PROVE  Sound(c)'
<1>1. /\ pc'[c] = "idle" /\ seen'[c] = 0 /\ next'[c] = 1 /\ failed'[c] = FALSE
      /\ item'[c] = "recipe"
  BY DEF TypeOK, Stop, GoTo
<1>2. Told(c)'
  <2>1. outcome[c] \in [Item -> {"none", "done", "failed"}] /\ item[c] \in Item
    BY DEF TypeOK
  <2>2. outcome'[c] = [outcome[c] EXCEPT ![item[c]] = how]
    BY DEF TypeOK, Stop
  <2>3. "recipe" \in Item /\ "package" \in Item
    BY DEF Item
  <2> QED
    BY <2>1, <2>2, <2>3, CompleteStays, FailuresStay DEF Sound, Told
<1> QED
  BY <1>1, <1>2 DEF Sound, Fresh, Sent, Judged, Relied, Untroubled

LEMMA DoneSound ==
    ASSUME TypeOK, NEW c \in Client, Step(c), Sound(c), Done(c),
           item[c] = "recipe" /\ failures = 0 => Complete("recipe"),
           item[c] = "package" => Complete("package")
    PROVE  Sound(c)'
<1>1. CASE item[c] = "package"
  BY <1>1, StopSound DEF Done
<1>2. CASE item[c] # "package"
  <2>1. /\ pc'[c] = "snapshot" /\ seen'[c] = 0 /\ next'[c] = 1 /\ failed'[c] = FALSE
        /\ item'[c] = "package"
    BY <1>2 DEF TypeOK, Done, GoTo
  <2>2. Told(c)'
    <3>1. outcome[c] \in [Item -> {"none", "done", "failed"}] /\ item[c] = "recipe"
      BY <1>2 DEF TypeOK, Item
    <3>2. outcome'[c] = [outcome[c] EXCEPT !["recipe"] = "done"]
      BY <1>2 DEF TypeOK, Done
    <3>3. "recipe" \in Item /\ "package" \in Item
      BY DEF Item
    <3> QED
      BY <3>1, <3>2, <3>3, CompleteStays, FailuresStay DEF Sound, Told
  <2> QED
    BY <2>1, <2>2 DEF Sound, Fresh, Sent, Judged, Relied, Untroubled
<1> QED
  BY <1>1, <1>2

\* A step after which the client knows of the server what it knew.
LEMMA GoSound ==
    ASSUME TypeOK, NEW c \in Client, Step(c), Sound(c),
           NEW to \in {"date", "snapshot", "manifest", "compare", "send"},
           GoTo(c, to), UNCHANGED <<item, seen, next, failed>>,
           outcome' = outcome \/ outcome'[c] = [i \in Item |-> "none"],
           pc[c] \notin {"send", "put"},
           to \in {"manifest", "compare"} /\ item[c] = "package" => Complete("package")
    PROVE  Sound(c)'
<1>0. "recipe" \in Item /\ "package" \in Item /\ pc'[c] = to
  BY DEF Item, TypeOK, GoTo
<1>1. Fresh(c)' /\ Sent(c)'
  BY <1>0 DEF Sound, Fresh, Sent
<1>2. Judged(c)'
  BY <1>0, CompleteStays DEF Judged
<1>3. Relied(c)' /\ Untroubled(c)'
  BY <1>0, CompleteStays, FailuresStay DEF Sound, Relied, Untroubled
<1>4. Told(c)'
  BY <1>0, CompleteStays, FailuresStay DEF Sound, Told
<1> QED
  BY <1>1, <1>2, <1>3, <1>4 DEF Sound

LEMMA ActorSound ==
    ASSUME TypeOK, ManifestLast, NEW c \in Client, Step(c), Sound(c)
    PROVE  Sound(c)'
<1>0. "recipe" \in Item /\ "package" \in Item /\ item[c] \in Item
  BY DEF Item, TypeOK
<1>1. CASE Begin(c)
  <2>1. outcome'[c] = [i \in Item |-> "none"]
    BY <1>1 DEF Begin, TypeOK
  <2> QED
    BY <1>1, <2>1, GoSound DEF Begin
<1>2. CASE CheckDate(c)
  <2>1. CASE Stop(c, "failed") \/ Stop(c, "none")
    BY <2>1, StopSound
  <2>2. CASE ~(Stop(c, "failed") \/ Stop(c, "none"))
    <3>1. PICK there \in {0, Manifest("recipe")} :
            /\ pc[c] = "date" /\ GoTo(c, "snapshot")
            /\ seen' = [seen EXCEPT ![c] = there]
            /\ UNCHANGED <<policy, item, next, failed, outcome>>
      BY <1>2, <2>2 DEF CheckDate
    <3>2. pc'[c] = "snapshot" /\ seen'[c] = there
      BY <3>1 DEF TypeOK, GoTo
    <3>3. Relied(c)'
      BY <1>0, <3>1, <3>2, CompleteStays, FailuresStay DEF ManifestLast, Relied
    <3>4. Fresh(c)' /\ Sent(c)' /\ Judged(c)' /\ Untroubled(c)'
      BY <3>1, <3>2, FailuresStay DEF Sound, Fresh, Sent, Judged, Untroubled
    <3>5. Told(c)'
      BY <1>0, <3>1, CompleteStays, FailuresStay DEF Sound, Told
    <3> QED
      BY <3>3, <3>4, <3>5 DEF Sound
  <2> QED
    BY <2>1, <2>2
<1>3. CASE TakeSnapshot(c)
  <2>0. pc[c] = "snapshot"
    BY <1>3 DEF TakeSnapshot
  <2>1. CASE SendAll(c)
    BY <2>0, <2>1, GoSound DEF SendAll
  <2>2. CASE ~SendAll(c)
    <3>1. PICK to \in {"manifest", "compare"} :
            GoTo(c, to) /\ UNCHANGED <<policy, item, seen, next, failed, outcome>>
      BY <1>3, <2>2 DEF TakeSnapshot
    <3>2. item[c] = "package" => Complete("package")
      BY <1>3, <2>2 DEF TakeSnapshot, Incomplete, AllStored, Complete
    <3> QED
      BY <2>0, <3>1, <3>2, GoSound
  <2> QED
    BY <2>1, <2>2
<1>4. CASE GetManifest(c)
  <2>0. pc[c] = "manifest"
    BY <1>4 DEF GetManifest
  <2>1. CASE SendAll(c)
    BY <2>0, <2>1, GoSound DEF SendAll
  <2>2. CASE Stop(c, "failed")
    BY <2>2, StopSound
  <2>3. CASE ~SendAll(c) /\ ~Stop(c, "failed")
    <3>1. /\ Manifest(item[c]) # 0 /\ seen' = [seen EXCEPT ![c] = Manifest(item[c])]
          /\ GoTo(c, "compare") /\ UNCHANGED <<policy, item, next, failed, outcome>>
      BY <1>4, <2>3 DEF GetManifest
    <3>2. pc'[c] = "compare"
      BY <3>1 DEF TypeOK, GoTo
    <3>3. Relied(c)'
      BY <1>0, <3>1, CompleteStays, FailuresStay DEF ManifestLast, Relied
    <3>4. Judged(c)'
      BY <1>0, <2>0, <3>1, CompleteStays DEF Sound, Judged
    <3>5. Fresh(c)' /\ Sent(c)' /\ Untroubled(c)'
      BY <2>0, <3>1, <3>2, FailuresStay DEF Sound, Fresh, Sent, Untroubled
    <3>6. Told(c)'
      BY <1>0, <3>1, CompleteStays, FailuresStay DEF Sound, Told
    <3> QED
      BY <3>3, <3>4, <3>5, <3>6 DEF Sound
  <2> QED
    BY <2>1, <2>2, <2>3
<1>5. CASE Compare(c)
  <2>0. pc[c] = "compare"
    BY <1>5 DEF Compare
  <2>1. CASE Stop(c, "failed")
    BY <2>1, StopSound
  <2>2. CASE SendAll(c)
    BY <2>0, <2>2, GoSound DEF SendAll
  <2>3. CASE ~Stop(c, "failed") /\ ~SendAll(c)
    <3>1. seen[c] = Local(c) /\ Done(c)
      BY <1>5, <2>3 DEF Compare
    <3>2. seen[c] # 0
      BY <3>1, LocalIsSomething
    <3> QED
      BY <2>0, <3>1, <3>2, DoneSound DEF Sound, Relied, Judged
  <2> QED
    BY <2>1, <2>2, <2>3
<1>6. CASE PutUnlink(c)
  <2>1. /\ pc[c] = "send" /\ pc'[c] = "put"
        /\ UNCHANGED <<item, seen, next, failed, outcome>>
    BY <1>6 DEF PutUnlink, Sending, TypeOK, GoTo
  <2>2. Sent(c)'
    <3> SUFFICES ASSUME ~failed[c], NEW n \in 1..(next[c] - 1)
                 PROVE  There(item[c], Files(item[c])[n])'
      BY <2>1 DEF Sent
    <3>1. There(item[c], Files(item[c])[n])
      BY <2>1 DEF Sound, Sent
    <3>2. Files(item[c])[n] \in FileNames(item[c])
      BY SentAreFiles, TypeParts
    <3>3. There(item[c], Files(item[c])[n])'
      BY <1>0, <2>1, <3>1, <3>2, StepKeeps
    <3> QED
      BY <3>3
  <2> QED
    BY <1>0, <2>1, <2>2, CompleteStays, FailuresStay DEF Sound, Fresh, Judged, Relied, Untroubled, Told
<1>7. CASE PutSave(c)
  <2>1. /\ pc[c] = "put" /\ pc'[c] = "send" /\ next'[c] = next[c] + 1
        /\ UNCHANGED <<item, seen, outcome>>
        /\ failed'[c] = failed[c] \/ (failed'[c] /\ failures' # 0)
    BY <1>7 DEF PutSave, TypeOK, GoTo
  <2>2. Sent(c)'
    <3> SUFFICES ASSUME ~failed[c], NEW n \in 1..next[c]
                 PROVE  There(item[c], Files(item[c])[n])'
      BY <1>7, <2>1 DEF Sent, TypeOK
    <3>1. CASE n = next[c]
      <4>1. stored'[item[c]][Files(item[c])[n]] = Local(c)
        <5>1. Current(c) \in FileNames(item[c])
          BY <2>1 DEF TypeOK, Current, FileNames
        <5> QED
          BY <1>0, <1>7, <3>1, <5>1 DEF PutSave, TypeOK, Current
      <4> QED
        BY <2>1, <4>1, LocalIsSomething DEF There
    <3>2. CASE n # next[c]
      <4>0. n \in 1..(next[c] - 1)
        BY <3>2 DEF TypeOK
      <4>1. There(item[c], Files(item[c])[n])
        BY <2>1, <4>0 DEF Sound, Sent
      <4>2. Files(item[c])[n] \in FileNames(item[c])
        BY <4>0, SentAreFiles, TypeParts
      <4> QED
        BY <1>0, <2>1, <4>1, <4>2, StepKeeps
    <3> QED
      BY <3>1, <3>2
  <2> QED
    BY <1>0, <2>1, <2>2, CompleteStays, FailuresStay DEF Sound, Fresh, Judged, Relied, Untroubled, Told
<1>8. CASE PutFail(c)
  <2>1. /\ pc'[c] = "send" /\ failed'[c] /\ failures' # 0
        /\ UNCHANGED <<item, seen, outcome>>
    BY <1>8 DEF PutFail, Sending, TypeOK
  <2> QED
    BY <1>0, <2>1, CompleteStays DEF Sound, Fresh, Sent, Judged, Relied, Untroubled, Told
<1>9. CASE Finish(c)
  <2>1. CASE failed[c]
    BY <1>9, <2>1, StopSound DEF Finish
  <2>2. CASE ~failed[c]
    <3>1. Done(c) /\ pc[c] = "send" /\ next[c] = Len(Files(item[c])) + 1
      <4>1. Len(Files(item[c])) \in Nat
        BY <1>0, FilesOf
      <4> QED
        BY <1>9, <2>2, <4>1 DEF Finish, Sending, TypeOK
    <3>2. \A n \in 1..Len(Files(item[c])) : There(item[c], Files(item[c])[n])
      <4>1. next[c] - 1 = Len(Files(item[c]))
        BY <1>0, <3>1, FilesOf
      <4> QED
        BY <2>2, <3>1, <4>1 DEF Sound, Sent
    <3>3. Complete(item[c])
      BY <1>0, <3>2, AllThere
    <3> QED
      BY <3>1, <3>3, DoneSound
  <2> QED
    BY <2>1, <2>2
<1>10. CASE PutForbidden(c) \/ Crash(c)
  BY <1>10, StopSound DEF PutForbidden, Crash
<1> QED
  BY <1>1, <1>2, <1>3, <1>4, <1>5, <1>6, <1>7, <1>8, <1>9, <1>10 DEF Step, Upload
----------------------------------------------------------------------------
(* A manifest that appears has its files beside it. *)

LEMMA ManifestStep ==
    ASSUME TypeOK, ManifestLast, NEW c \in Client, Step(c), Sound(c)
    PROVE  ManifestLast'
<1> SUFFICES ASSUME failures' = 0, NEW i \in Item, Manifest(i)' # 0
             PROVE  Complete(i)'
  BY DEF ManifestLast
<1>0. failures = 0 /\ ~failed[c]
  BY FailuresStay DEF Sound, Untroubled
<1>1. CASE Manifest(i) # 0
  BY <1>0, <1>1, CompleteStays DEF ManifestLast
<1>2. CASE Manifest(i) = 0
  <2>1. pc[c] = "put" /\ stored' = [stored EXCEPT ![item[c]][Current(c)] = Local(c)]
    <3>1. CASE PutUnlink(c)
      <4>1. Manifest(i)' \in {0, Manifest(i)}
        BY <3>1, FilesOf DEF PutUnlink, Manifest, TypeOK
      <4> QED
        BY <1>2, <4>1
    <3>2. CASE stored' = stored
      BY <1>2, <3>2 DEF Manifest
    <3> QED
      BY <3>1, <3>2 DEF Step, Upload, Begin, CheckDate, TakeSnapshot, GetManifest, Compare,
                        PutSave, Finish, PutFail, PutForbidden, Crash
  <2>2. i = item[c] /\ Current(c) = "manifest"
    BY <1>2, <2>1, FilesOf DEF Manifest, TypeOK
  <2>3. next[c] = Len(Files(i))
    <3>1. next[c] \in 1..Len(Files(i)) /\ Len(Files(i)) \in Nat
      BY <2>1, <2>2, FilesOf DEF TypeOK
    <3> QED
      BY <2>2, <3>1, FilesOf DEF Current
  <2>4. ASSUME NEW n \in 1..Len(Files(i))
        PROVE  There(i, Files(i)[n])'
    <3>1. Files(i)[n] \in FileNames(i) /\ Len(Files(i)) \in Nat
      BY FilesOf
    <3>2. CASE n = Len(Files(i))
      BY <2>2, <2>3, <3>2 DEF There, Manifest, Current
    <3>3. CASE n # Len(Files(i))
      <4>1. n \in 1..(next[c] - 1)
        BY <2>3, <3>1, <3>3
      <4>2. There(i, Files(i)[n])
        BY <1>0, <2>1, <2>2, <4>1 DEF Sound, Sent
      <4> QED
        BY <3>1, <4>2, StepKeeps
    <3> QED
      BY <3>2, <3>3
  <2>5. FileNames(i) = {Files(i)[n] : n \in 1..Len(Files(i))}
    BY FilesOf
  <2> QED
    BY <2>4, <2>5 DEF There, Complete
<1> QED
  BY <1>1, <1>2

LEMMA InvStep ==
    ASSUME IInv, [Next]_vars
    PROVE  IInv'
<1>1. TypeOK'
  BY TypeStep DEF IInv
<1>2. CASE UNCHANGED vars
  BY <1>1, <1>2 DEF IInv, vars, ManifestLast, Manifest, Complete, BeingReplaced, Current, Sound,
     Fresh, Sent, Judged, Relied, Untroubled, Told, There
<1>3. ASSUME NEW c \in Client, Step(c)
      PROVE  IInv'
  <2>1. ASSUME NEW d \in Client
        PROVE  Sound(d)'
    BY <1>3, ActorSound, OthersSound DEF IInv
  <2>2. ManifestLast'
    BY <1>3, ManifestStep DEF IInv
  <2> QED
    BY <1>1, <2>1, <2>2 DEF IInv
<1> QED
  BY <1>2, <1>3 DEF Next, Step

LEMMA InvInit ==
    ASSUME Init
    PROVE  IInv
<1>1. TypeOK
  BY TypeInit
<1>2. ManifestLast
  BY FilesOf DEF Init, ManifestLast, Manifest
<1>3. ASSUME NEW c \in Client
      PROVE  Sound(c)
  BY <1>3 DEF Init, Item, Sound, Fresh, Sent, Judged, Relied, Untroubled, Told
<1> QED
  BY <1>1, <1>2, <1>3 DEF IInv

LEMMA InvAlways == Spec => []IInv
BY InvInit, InvStep, PTL DEF Spec

\* A manifest on the server vouches for the other files, whatever clients
\* overlap and wherever they are killed, as long as no request has failed:
\* _upload_files sends the manifest last, rest_client_v2.py 178.
THEOREM ManifestVouches == Spec => []ManifestLast
<1>1. IInv => ManifestLast
  BY DEF IInv
<1> QED
  BY <1>1, InvAlways, PTL

\* `Uploaded' and `up to date' can be relied on: of a recipe as long as no
\* request has failed, of a package always.
THEOREM DoneIsTrue == Spec => []DoneIsComplete
<1>1. IInv => DoneIsComplete
  BY DEF IInv, Sound, Told, DoneIsComplete
<1> QED
  BY <1>1, InvAlways, PTL
----------------------------------------------------------------------------
(* Those who install meanwhile. *)

Steps == {"idle", "list_recipe", "get_recipe", "info", "snapshot", "list_package", "get_package",
          "list_sources", "get_sources", "build"}
\* What a file in a cache can be.
Gotten == {0, Cut, NoSources} \union {1} \union {Content[c] : c \in Client}
\* A reader: where it is, how it ended, what it has, and what it has still to get.
Typed(s, e, g, t) ==
    /\ s \in Steps /\ e \in {"none", "failed", "installed", "built"}
    /\ g = [i \in Item |-> g[i]] /\ \A i \in Item : g[i] \in [FileNames(i) -> Gotten]
    /\ s = "get_recipe" => t \subseteq FileNames("recipe") \ {"sources"}
    /\ s = "get_package" => t \subseteq FileNames("package")
    /\ s = "get_sources" => t \subseteq {"sources"}
ReadersOK ==
    /\ step = [r \in Reader |-> step[r]] /\ ended = [r \in Reader |-> ended[r]]
    /\ got = [r \in Reader |-> got[r]] /\ todo = [r \in Reader |-> todo[r]]
    /\ \A r \in Reader : Typed(step[r], ended[r], got[r], todo[r])
    /\ \A c \in opened : c \in Client /\ pc[c] = "put"
    /\ resent \in BOOLEAN

\* A client that is on its way through the files of an item.
Underway(c) == pc[c] = "put" \/ (pc[c] = "send" /\ next[c] # 1)
\* Nothing of an item is sent twice: its files come in their order, from one client.
OneContent(i) ==
    \A f, g \in FileNames(i) : stored[i][f] # 0 /\ stored[i][g] # 0 => stored[i][f] = stored[i][g]
FirstThingsFirst(i) ==
    \A n \in DOMAIN Files(i) : \A m \in 1..n :
        stored[i][Files(i)[n]] # 0 => stored[i][Files(i)[m]] # 0
OneSends(i) ==
    \A c, d \in Client : Underway(c) /\ Underway(d) /\ item[c] = i /\ item[d] = i => c = d
HasSent(c) ==
    Underway(c) => \A n \in DOMAIN Files(item[c]) :
                     stored[item[c]][Files(item[c])[n]] = IF n < next[c] THEN Local(c) ELSE 0
SentOnce ==
    /\ \A i \in Item : OneContent(i) /\ FirstThingsFirst(i) /\ OneSends(i)
    /\ \A c \in Client : HasSent(c)

\* What a reader has of a file is what the server has, and had then.
HasOf(g, i, f) == g[i][f] # 0 => OnServer(i, f) # 0 /\ g[i][f] \in {Cut, stored[i][f]}
\* It has it whole.
HasWhole(g, i, f) == g[i][f] = stored[i][f] /\ stored[i][f] # 0
Known(s, e, g, t) ==
    /\ \A i \in Item : \A f \in FileNames(i) : HasOf(g, i, f)
    /\ g["recipe"]["sources"] # 0 => HasWhole(g, "recipe", "sources")
    /\ s \in {"info", "list_sources", "get_sources", "build"} => g["recipe"]["conanfile"] # 0
    /\ s = "get_sources" => t = {"sources"} \/ g["recipe"]["sources"] # 0
    /\ s = "build" => g["recipe"]["sources"] # 0
    /\ s \in {"list_package", "get_package"} =>
         \A f \in FileNames("package") :
            /\ OnServer("package", f) # 0
            /\ f # "manifest" /\ g["package"][f] # 0 => HasWhole(g, "package", f)
    /\ s = "get_package" => \A f \in FileNames("package") : f \in t \/ g["package"][f] # 0
    /\ s # "idle" => e = "none"
    /\ e = "installed" =>
         g["package"]["package"] > 0 /\ g["package"]["info"] > 0 /\ g["package"]["manifest"] # 0
    /\ e = "built" =>
         /\ g["recipe"]["sources"] > 0
         /\ g["recipe"]["conanfile"] \in {Cut, g["recipe"]["sources"]}
FetchInv ==
    /\ IInv /\ ReadersOK
    /\ Undisturbed =>
         SentOnce /\ \A r \in Reader : Known(step[r], ended[r], got[r], todo[r])
----------------------------------------------------------------------------
(* What uploads do to the server while no file is sent twice. *)

\* A client that writes nothing, and is not on its way through files; one whose file is
\* written.
Aside(c) == pc[c] # "put" /\ UNCHANGED stored /\ ~Underway(c)'
Saves(c) ==
    /\ pc[c] = "put" /\ stored' = [stored EXCEPT ![item[c]][Current(c)] = Local(c)]
    /\ \/ ~Underway(c)'
       \/ pc'[c] = "send" /\ next'[c] = next[c] + 1 /\ item'[c] = item[c]

LEMMA StepKinds ==
    ASSUME IInv, NEW c \in Client, Step(c), failures' = 0
    PROVE  Aside(c) \/ PutUnlink(c) \/ Saves(c)
<1>0. TypeOK /\ Fresh(c)
  BY DEF IInv, Sound
<1>1. ASSUME NEW how, Stop(c, how) PROVE ~Underway(c)'
  BY <1>0, <1>1 DEF Stop, GoTo, Underway, TypeOK
<1>2. ASSUME Done(c) PROVE ~Underway(c)'
  BY <1>0, <1>1, <1>2 DEF Done, GoTo, Underway, TypeOK
<1>3. ASSUME SendAll(c), pc[c] \notin {"send", "put"} PROVE ~Underway(c)'
  BY <1>0, <1>3 DEF SendAll, GoTo, Underway, TypeOK, Fresh
<1>4. CASE Begin(c)
  BY <1>0, <1>4 DEF Begin, GoTo, Underway, TypeOK, Aside
<1>5. CASE CheckDate(c)
  BY <1>0, <1>1, <1>5 DEF CheckDate, GoTo, Underway, TypeOK, Aside
<1>6. CASE TakeSnapshot(c)
  BY <1>0, <1>3, <1>6 DEF TakeSnapshot, GoTo, Underway, TypeOK, Aside
<1>7. CASE GetManifest(c)
  BY <1>0, <1>1, <1>3, <1>7 DEF GetManifest, GoTo, Underway, TypeOK, Aside
<1>8. CASE Compare(c)
  BY <1>0, <1>1, <1>2, <1>3, <1>8 DEF Compare, Aside
<1>9. CASE PutSave(c)
  BY <1>0, <1>9 DEF PutSave, GoTo, Saves, TypeOK
<1>10. CASE PutFail(c)
  BY <1>0, <1>10 DEF PutFail, TypeOK
<1>11. CASE PutForbidden(c) \/ Finish(c)
  BY <1>0, <1>1, <1>2, <1>11 DEF PutForbidden, Finish, Sending, Aside
<1>12. CASE Crash(c)
  BY <1>0, <1>1, <1>12 DEF Crash, Aside, Saves
<1> QED BY <1>4, <1>5, <1>6, <1>7, <1>8, <1>9, <1>10, <1>11, <1>12 DEF Step, Upload

\* A file that begins to be written is not there, and nobody else is at it.
LEMMA BeginsToWrite ==
    ASSUME TypeOK, NEW c \in Client, PutUnlink(c), resent' = (resent \/ SendsAgain), ~resent'
    PROVE  /\ item[c] \in Item /\ Current(c) \in FileNames(item[c])
           /\ stored[item[c]][Current(c)] = 0 /\ \A i \in Item : stored'[i] = stored[i]
           /\ ~BeingReplaced(item[c], Current(c))
           /\ pc[c] = "send" /\ pc'[c] = "put" /\ UNCHANGED <<item, next>>
           /\ next[c] \in DOMAIN Files(item[c])
<1>1. /\ pc[c] = "send" /\ pc'[c] = "put" /\ UNCHANGED <<item, next>>
      /\ stored' = [stored EXCEPT ![item[c]][Current(c)] = 0] /\ item[c] \in Item
  BY DEF PutUnlink, Sending, GoTo, TypeOK
<1>2. next[c] \in DOMAIN Files(item[c])
  BY SendingOne, TypeParts DEF PutUnlink
<1>3. Current(c) \in FileNames(item[c])
  BY <1>2 DEF Current, FileNames
<1>4. stored[item[c]][Current(c)] = 0 /\ ~BeingReplaced(item[c], Current(c))
  BY <1>1 DEF SendsAgain
<1>5. stored[item[c]] = [f \in FileNames(item[c]) |-> stored[item[c]][f]]
  BY <1>1 DEF TypeOK
<1>6. \A i \in Item : stored'[i] = stored[i]
  BY <1>1, <1>3, <1>4, <1>5 DEF TypeOK
<1> QED BY <1>1, <1>2, <1>3, <1>4, <1>6

\* The server writes what it has received.
LEMMA Written ==
    ASSUME TypeOK, NEW c \in Client, Saves(c)
    PROVE  /\ item[c] \in Item /\ Current(c) \in FileNames(item[c])
           /\ next[c] \in DOMAIN Files(item[c]) /\ Underway(c)
           /\ stored'[item[c]][Current(c)] = Local(c) /\ Local(c) # 0
           /\ \A i \in Item : \A f \in FileNames(i) :
                i # item[c] \/ f # Current(c) => stored'[i][f] = stored[i][f]
<1>1. item[c] \in Item /\ next[c] \in DOMAIN Files(item[c]) /\ Underway(c)
  BY DEF Saves, TypeOK, Underway
<1>2. Current(c) \in FileNames(item[c])
  BY <1>1 DEF Current, FileNames
<1> QED BY <1>1, <1>2, LocalIsSomething DEF Saves, TypeOK

\* Files have one place in the order.
LEMMA OnePlace ==
    ASSUME NEW i \in Item, NEW n \in DOMAIN Files(i), NEW m \in DOMAIN Files(i),
           Files(i)[n] = Files(i)[m]
    PROVE  n = m
<1>1. CASE i = "recipe"
  BY <1>1 DEF Files
<1>2. CASE i = "package"
  BY <1>2 DEF Files
<1> QED BY <1>1, <1>2 DEF Item

LEMMA PlacesOf ==
    ASSUME NEW i \in Item
    PROVE  /\ DOMAIN Files(i) \subseteq Nat \ {0} /\ 1 \in DOMAIN Files(i)
           /\ \A n \in DOMAIN Files(i) : Files(i)[n] \in FileNames(i) /\ 1..n \subseteq DOMAIN Files(i)
           /\ \A f \in FileNames(i) : \E n \in DOMAIN Files(i) : f = Files(i)[n]
BY FilesOf

LEMMA SentOnceStep ==
    ASSUME IInv, SentOnce, NEW c \in Client, Step(c), failures' = 0,
           resent' = (resent \/ SendsAgain), ~resent'
    PROVE  SentOnce'
<1>0. TypeOK /\ failures = 0
  BY FailuresStay DEF IInv
<1>1. \A d \in Client \ {c} : /\ pc'[d] = pc[d] /\ item'[d] = item[d] /\ next'[d] = next[d]
                              /\ (Underway(d)' <=> Underway(d)) /\ Local(d)' = Local(d)
                              /\ item[d] \in Item
  BY <1>0, OthersStay DEF Underway, Local, TypeOK
<1>2. CASE Aside(c)
  <2>1. stored' = stored /\ ~Underway(c)'
    BY <1>2 DEF Aside
  <2>2. \A i \in Item : OneContent(i)' /\ FirstThingsFirst(i)'
    BY <2>1 DEF SentOnce, OneContent, FirstThingsFirst
  <2>3. \A i \in Item : OneSends(i)'
    BY <1>1, <2>1 DEF SentOnce, OneSends
  <2>4. \A d \in Client : HasSent(d)'
    BY <1>1, <2>1 DEF SentOnce, HasSent
  <2> QED BY <2>2, <2>3, <2>4 DEF SentOnce
<1>3. CASE PutUnlink(c)
  <2>1. /\ item[c] \in Item /\ stored[item[c]][Current(c)] = 0
        /\ \A i \in Item : stored'[i] = stored[i]
        /\ ~BeingReplaced(item[c], Current(c))
        /\ pc[c] = "send" /\ pc'[c] = "put" /\ UNCHANGED <<item, next>>
        /\ next[c] \in DOMAIN Files(item[c])
    BY <1>0, <1>3, BeginsToWrite
  <2>2. \A i \in Item : OneContent(i)' /\ FirstThingsFirst(i)'
    BY <2>1 DEF SentOnce, OneContent, FirstThingsFirst
  \* Who begins with the first file finds nothing, and nobody at it.
  <2>3. ASSUME next[c] = 1
        PROVE  /\ \A n \in DOMAIN Files(item[c]) : stored[item[c]][Files(item[c])[n]] = 0
               /\ \A d \in Client : Underway(d) => item[d] # item[c]
    <3>1. ASSUME NEW n \in DOMAIN Files(item[c])
          PROVE  stored[item[c]][Files(item[c])[n]] = 0
      <4>1. 1 \in 1..n
        BY <2>1, <3>1, PlacesOf
      <4> QED BY <2>1, <2>3, <3>1, <4>1 DEF SentOnce, FirstThingsFirst, Current
    <3>2. ASSUME NEW d \in Client, Underway(d), item[d] = item[c] PROVE FALSE
      <4>1. next[d] \in Nat /\ next[d] >= 1
        BY <1>0, <3>2, FilesOf DEF TypeOK
      <4>2. CASE next[d] = 1
        <5>1. pc[d] = "put"
          BY <3>2, <4>2 DEF Underway
        <5> QED BY <2>1, <2>3, <3>2, <4>2, <5>1 DEF BeingReplaced, Current
      <4>3. CASE next[d] # 1
        <5>1. 1 < next[d] /\ 1 \in DOMAIN Files(item[d])
          BY <2>1, <3>2, <4>1, <4>3, PlacesOf
        <5>2. stored[item[d]][Files(item[d])[1]] = Local(d)
          BY <3>2, <5>1 DEF SentOnce, HasSent
        <5> QED BY <1>0, <3>1, <3>2, <5>1, <5>2, LocalIsSomething
      <4> QED BY <4>2, <4>3
    <3> QED BY <3>1, <3>2
  <2>4. Local(c)' = Local(c) /\ Underway(c)' /\ (next[c] # 1 => Underway(c))
    BY <2>1 DEF Local, Underway
  <2>5. \A i \in Item : OneSends(i)'
    BY <1>1, <2>1, <2>3, <2>4 DEF SentOnce, OneSends
  <2>6. HasSent(c)'
    <3>1. CASE next[c] = 1
      <4>1. ASSUME NEW n \in DOMAIN Files(item[c]) PROVE ~(n < 1)
        BY <2>1, <4>1, PlacesOf
      <4> QED BY <2>1, <2>3, <3>1, <4>1 DEF HasSent
    <3>2. CASE next[c] # 1
      BY <2>1, <2>4, <3>2 DEF SentOnce, HasSent
    <3> QED BY <3>1, <3>2
  <2>7. \A d \in Client \ {c} : HasSent(d)'
    BY <1>1, <2>1 DEF SentOnce, HasSent
  <2> QED BY <2>2, <2>5, <2>6, <2>7 DEF SentOnce
<1>4. CASE Saves(c)
  <2> DEFINE here == item[c]
             k == next[c]
  <2>1. /\ here \in Item /\ Current(c) = Files(here)[k] /\ k \in DOMAIN Files(here) /\ Underway(c)
        /\ stored'[here][Files(here)[k]] = Local(c) /\ Local(c) # 0
        /\ \A i \in Item : \A f \in FileNames(i) :
                i # here \/ f # Files(here)[k] => stored'[i][f] = stored[i][f]
    BY <1>0, <1>4, Written DEF Current
  <2>2. \A n \in DOMAIN Files(here) :
           stored[here][Files(here)[n]] = IF n < k THEN Local(c) ELSE 0
    BY <2>1 DEF SentOnce, HasSent
  <2>3. \A n \in DOMAIN Files(here) :
           stored'[here][Files(here)[n]] = IF n <= k THEN Local(c) ELSE 0
    <3>1. ASSUME NEW n \in DOMAIN Files(here)
          PROVE  stored'[here][Files(here)[n]] = IF n <= k THEN Local(c) ELSE 0
      <4>1. n \in Nat /\ k \in Nat /\ Files(here)[n] \in FileNames(here)
        BY <2>1, <3>1, PlacesOf
      <4>2. CASE n = k
        BY <2>1, <4>1, <4>2
      <4>3. CASE n # k
        <5>1. Files(here)[n] # Files(here)[k]
          BY <2>1, <3>1, <4>3, OnePlace
        <5> QED BY <2>1, <2>2, <3>1, <4>1, <4>3, <5>1
      <4> QED BY <4>2, <4>3
    <3> QED BY <3>1
  <2> HIDE DEF here, k
  <2>4. \A i \in Item \ {here} : \A f \in FileNames(i) : stored'[i][f] = stored[i][f]
    BY <2>1
  <2>5. ASSUME NEW i \in Item, i # here PROVE OneContent(i)' /\ FirstThingsFirst(i)'
    <3>1. OneContent(i)'
      BY <2>4, <2>5 DEF SentOnce, OneContent
    <3>2. FirstThingsFirst(i)'
      BY <2>4, <2>5, PlacesOf DEF SentOnce, FirstThingsFirst
    <3> QED BY <3>1, <3>2
  <2>6. ASSUME NEW i \in Item, i = here PROVE OneContent(i)'
    <3>1. ASSUME NEW f \in FileNames(i) PROVE stored'[i][f] \in {0, Local(c)}
      <4>1. PICK n \in DOMAIN Files(i) : f = Files(i)[n]
        BY PlacesOf
      <4> QED BY <2>3, <2>6, <4>1
    <3> QED BY <3>1 DEF OneContent
  <2>7. ASSUME NEW i \in Item, i = here PROVE FirstThingsFirst(i)'
    <3> SUFFICES ASSUME NEW n \in DOMAIN Files(i), NEW m \in 1..n,
                        stored'[i][Files(i)[n]] # 0
                 PROVE  stored'[i][Files(i)[m]] # 0
      BY DEF FirstThingsFirst
    <3>1. n \in Nat /\ k \in Nat /\ m \in DOMAIN Files(i)
      BY <2>1, PlacesOf
    <3> QED BY <2>1, <2>3, <2>7, <3>1
  \* Nobody else is on the way through these files.
  <2>8. \A d \in Client \ {c} : Underway(d) => item[d] # here
    BY <2>1 DEF SentOnce, OneSends, here
  <2>9. ASSUME NEW d \in Client \ {c} PROVE HasSent(d)'
    BY <1>1, <2>4, <2>8, <2>9, PlacesOf DEF SentOnce, HasSent
  <2>10. HasSent(c)'
    <3>1. CASE ~Underway(c)'
      BY <3>1 DEF HasSent
    <3>2. CASE pc'[c] = "send" /\ next'[c] = k + 1 /\ item'[c] = here
      <4>1. Local(c)' = Local(c)
        BY <3>2 DEF Local, here
      <4>2. \A n \in DOMAIN Files(here) : n <= k <=> n < k + 1
        BY <2>1, PlacesOf
      <4> QED BY <2>3, <3>2, <4>1, <4>2 DEF HasSent
    <3> QED BY <1>4, <3>1, <3>2 DEF Saves, here, k
  <2>11. \A i \in Item : OneSends(i)'
    <3>1. Underway(c)' => item'[c] = here
      BY <1>4 DEF Saves, here
    <3> QED BY <1>1, <2>1, <2>8, <3>1 DEF SentOnce, OneSends
  <2> QED BY <2>5, <2>6, <2>7, <2>9, <2>10, <2>11 DEF SentOnce
<1> QED BY <1>2, <1>3, <1>4, StepKinds
----------------------------------------------------------------------------
(* What readers rely on. *)

\* What is on the server stays, and what is whole there stays as it is.
ServerKeeps ==
    \A i \in Item : \A f \in FileNames(i) :
        /\ stored[i][f] # 0 => stored'[i][f] = stored[i][f]
        /\ OnServer(i, f) # 0 => OnServer(i, f)' # 0

LEMMA UploadKeepsServer ==
    ASSUME IInv, ReadersOK, SentOnce, NEW c \in Client, Step(c), failures' = 0,
           opened' = {d \in opened : pc'[d] = "put"}, resent' = (resent \/ SendsAgain), ~resent'
    PROVE  ServerKeeps
<1>0. TypeOK
  BY DEF IInv
<1> SUFFICES ASSUME NEW i \in Item, NEW f \in FileNames(i)
             PROVE  /\ stored[i][f] # 0 => stored'[i][f] = stored[i][f]
                    /\ OnServer(i, f) # 0 => OnServer(i, f)' # 0
  BY DEF ServerKeeps
<1>1. \A d \in Client \ {c} : pc'[d] = pc[d] /\ item'[d] = item[d] /\ next'[d] = next[d]
  BY <1>0, OthersStay
<1>2. ASSUME NEW d \in opened, d # c
      PROVE  d \in opened' /\ item'[d] = item[d] /\ Current(d)' = Current(d)
  BY <1>1, <1>2 DEF ReadersOK, Current
<1>3. CASE pc[c] # "put" /\ stored'[i] = stored[i]
  BY <1>2, <1>3 DEF OnServer, ReadersOK
<1>4. CASE Saves(c)
  <2>1. /\ item[c] \in Item /\ Current(c) \in FileNames(item[c]) /\ next[c] \in DOMAIN Files(item[c])
        /\ Underway(c) /\ stored'[item[c]][Current(c)] = Local(c) /\ Local(c) # 0
        /\ i # item[c] \/ f # Current(c) => stored'[i][f] = stored[i][f]
    BY <1>0, <1>4, Written
  <2>2. stored[item[c]][Current(c)] = 0
    <3>1. ~(next[c] < next[c])
      BY <2>1, PlacesOf
    <3> QED BY <2>1, <3>1 DEF SentOnce, HasSent, Current
  <2>3. CASE i = item[c] /\ f = Current(c)
    BY <2>1, <2>2, <2>3 DEF OnServer
  <2>4. CASE ~(i = item[c] /\ f = Current(c))
    BY <1>2, <2>1, <2>4 DEF OnServer, Cut
  <2> QED BY <2>3, <2>4
<1>5. CASE Aside(c)
  BY <1>3, <1>5 DEF Aside
<1>6. CASE PutUnlink(c)
  BY <1>0, <1>3, <1>6, BeginsToWrite
<1> QED BY <1>4, <1>5, <1>6, StepKinds

LEMMA KnownStays ==
    ASSUME ServerKeeps, NEW s, NEW e, NEW g, NEW t, Known(s, e, g, t)
    PROVE  Known(s, e, g, t)'
<1>0. /\ "recipe" \in Item /\ "package" \in Item /\ "sources" \in FileNames("recipe")
  BY DEF Item, FileNames, Files
<1>1. ASSUME NEW i \in Item, NEW f \in FileNames(i) PROVE HasOf(g, i, f)'
  BY <1>1 DEF Known, HasOf, ServerKeeps
<1>2. ASSUME NEW i \in Item, NEW f \in FileNames(i), HasWhole(g, i, f) PROVE HasWhole(g, i, f)'
  BY <1>2 DEF HasWhole, ServerKeeps
<1> QED BY <1>0, <1>1, <1>2 DEF Known, ServerKeeps

\* A file is there only behind those before it.
LEMMA ServerInOrder ==
    ASSUME IInv, ReadersOK, SentOnce, NEW i \in Item, NEW n \in DOMAIN Files(i), NEW m \in 1..(n - 1),
           OnServer(i, Files(i)[n]) # 0
    PROVE  stored[i][Files(i)[m]] # 0
<1>0. TypeOK /\ n \in Nat /\ m \in 1..n /\ m < n /\ m \in DOMAIN Files(i)
  BY PlacesOf DEF IInv
<1>1. CASE stored[i][Files(i)[n]] # 0
  BY <1>0, <1>1 DEF SentOnce, FirstThingsFirst
<1>2. CASE stored[i][Files(i)[n]] = 0
  <2>1. PICK c \in opened : item[c] = i /\ Current(c) = Files(i)[n]
    BY <1>2 DEF OnServer
  <2>2. c \in Client /\ pc[c] = "put" /\ Underway(c) /\ next[c] \in DOMAIN Files(i)
    BY <1>0, <2>1 DEF ReadersOK, Underway, TypeOK
  <2>3. next[c] = n
    BY <2>1, <2>2, OnePlace DEF Current
  <2> QED BY <1>0, <2>1, <2>2, <2>3, LocalIsSomething DEF SentOnce, HasSent
<1> QED BY <1>1, <1>2

LEMMA BehindThem ==
    ASSUME IInv, ReadersOK, SentOnce
    PROVE  /\ OnServer("recipe", "conanfile") # 0 => stored["recipe"]["sources"] # 0
           /\ OnServer("package", "manifest") # 0 =>
                stored["package"]["package"] # 0 /\ stored["package"]["info"] # 0
<1>1. "recipe" \in Item /\ "package" \in Item
  BY DEF Item
<1>2. 3 \in DOMAIN Files("recipe") /\ Files("recipe")[3] = "conanfile" /\ Files("recipe")[2] = "sources"
  BY DEF Files
<1>3. /\ 3 \in DOMAIN Files("package") /\ Files("package")[3] = "manifest"
      /\ Files("package")[2] = "info" /\ Files("package")[1] = "package"
  BY DEF Files
<1>4. 1 \in 1..(3 - 1) /\ 2 \in 1..(3 - 1)
  OBVIOUS
<1> QED BY <1>1, <1>2, <1>3, <1>4, ServerInOrder
----------------------------------------------------------------------------
(* What readers do. *)

\* The reader goes on, with these.
Moves(r, s, e, g, t) ==
    /\ step' = [step EXCEPT ![r] = s] /\ ended' = [ended EXCEPT ![r] = e]
    /\ got' = [got EXCEPT ![r] = g] /\ todo' = [todo EXCEPT ![r] = t]
MovesWell(r) ==
    \E s, e, g, t :
        /\ Moves(r, s, e, g, t) /\ Typed(s, e, g, t)
        /\ Undisturbed => Known(s, e, g, t)

\* A listed file is taken, and is one that is left.
LEMMA NextIsLeft ==
    ASSUME NEW i \in Item, NEW left, left # {}, left \subseteq FileNames(i)
    PROVE  NextFile(i, left) \in left
<1> DEFINE P(n) == Files(i)[n] \in left /\ \A m \in DOMAIN Files(i) : Files(i)[m] \in left => m <= n
<1>1. \E n \in DOMAIN Files(i) : P(n)
  <2>1. CASE i = "recipe"
    BY <2>1 DEF Files, FileNames
  <2>2. CASE i = "package"
    BY <2>2 DEF Files, FileNames
  <2> QED BY <2>1, <2>2 DEF Item
<1>2. P(CHOOSE n \in DOMAIN Files(i) : P(n))
  BY <1>1
<1> QED BY <1>2 DEF NextFile

LEMMA OnServerIs ==
    ASSUME TypeOK, NEW i \in Item, NEW f \in FileNames(i)
    PROVE  /\ OnServer(i, f) \in Gotten /\ OnServer(i, f) \in {Cut, stored[i][f]}
           /\ stored[i][f] # 0 => OnServer(i, f) = stored[i][f] /\ stored[i][f] > 0
<1>1. stored[i][f] \in {0, 1} \union {Content[c] : c \in Client}
  BY DEF TypeOK
<1> QED BY <1>1, UploadConstants DEF OnServer, Gotten, Cut

LEMMA ItemsAre ==
    /\ Item = {"recipe", "package"}
    /\ FileNames("recipe") = {"export", "sources", "conanfile", "manifest"}
    /\ FileNames("package") = {"package", "info", "manifest"}
<1>1. FileNames("recipe") = {"export", "sources", "conanfile", "manifest"}
  BY DEF FileNames, Files
<1>2. FileNames("package") = {"package", "info", "manifest"}
  BY DEF FileNames, Files
<1> QED BY <1>1, <1>2 DEF Item

LEMMA MovesOn ==
    ASSUME ReadersOK, NEW r \in Reader, NEW s, step' = [step EXCEPT ![r] = s],
           UNCHANGED <<todo, got, ended>>, Typed(s, ended[r], got[r], todo[r]),
           Undisturbed => Known(s, ended[r], got[r], todo[r])
    PROVE  MovesWell(r)
BY DEF MovesWell, Moves, ReadersOK

LEMMA MovesOut ==
    ASSUME ReadersOK, NEW r \in Reader, NEW how \in {"failed", "installed", "built"}, Ends(r, how),
           NEW g, got' = [got EXCEPT ![r] = g], Typed("idle", how, g, {}),
           Undisturbed => Known("idle", how, g, {})
    PROVE  MovesWell(r)
BY DEF MovesWell, Moves, Ends

\* A reader that fails keeps what has come.
LEMMA FailsWell ==
    ASSUME ReadersOK, NEW r \in Reader, Ends(r, "failed"), UNCHANGED got,
           Undisturbed => Known(step[r], ended[r], got[r], todo[r])
    PROVE  MovesWell(r)
<1>1. got' = [got EXCEPT ![r] = got[r]]
  BY DEF ReadersOK
<1>2. Typed("idle", "failed", got[r], {})
  BY DEF ReadersOK, Typed, Steps
<1>3. Undisturbed => Known("idle", "failed", got[r], {})
  BY DEF Known
<1> HIDE DEF Known
<1> QED BY <1>1, <1>2, <1>3, MovesOut

\* Files that are removed are not there.
Emptied(g, i) == [g EXCEPT ![i] = [f \in FileNames(i) |-> IF f = "sources" THEN g[i][f] ELSE 0]]
LEMMA EmptiedIs ==
    ASSUME ReadersOK, NEW r \in Reader, NEW i \in Item, got' = WithoutFiles(r, i),
           NEW g, g = Emptied(got[r], i)
    PROVE  /\ got' = [got EXCEPT ![r] = g]
           /\ g = [k \in Item |-> g[k]] /\ \A k \in Item : g[k] \in [FileNames(k) -> Gotten]
           /\ \A k \in Item : \A f \in FileNames(k) :
                g[k][f] = IF k = i /\ f # "sources" THEN 0 ELSE got[r][k][f]
<1> DEFINE new == [f \in FileNames(i) |-> IF f = "sources" THEN got[r][i][f] ELSE 0]
<1>1. got' = [got EXCEPT ![r] = g]
  BY DEF WithoutFiles, ReadersOK, Emptied
<1>2. /\ got[r] = [k \in Item |-> got[r][k]] /\ \A k \in Item : got[r][k] \in [FileNames(k) -> Gotten]
  BY DEF ReadersOK, Typed
<1>3. new \in [FileNames(i) -> Gotten]
  BY <1>2 DEF Gotten
<1>4. g = [k \in Item |-> IF k = i THEN new ELSE got[r][k]]
  BY <1>2 DEF Emptied
<1>5. \A k \in Item : g[k] = IF k = i THEN new ELSE got[r][k]
  BY <1>4
<1>6. g = [k \in Item |-> g[k]]
  BY <1>4
<1>7. \A k \in Item : g[k] \in [FileNames(k) -> Gotten]
  BY <1>2, <1>3, <1>5
<1>8. ASSUME NEW k \in Item, NEW f \in FileNames(k)
      PROVE  g[k][f] = IF k = i /\ f # "sources" THEN 0 ELSE got[r][k][f]
  BY <1>5, <1>8
<1> QED BY <1>1, <1>6, <1>7, <1>8

\* A file that is got, or not, as the server has it.
Replaced(g, i, f, v) == [g EXCEPT ![i][f] = v]
WithFile(r, i, f, v) == [got EXCEPT ![r][i][f] = v]
LEMMA GotIs ==
    ASSUME ReadersOK, NEW r \in Reader, NEW i \in Item, NEW f \in FileNames(i), NEW v \in Gotten,
           got' = WithFile(r, i, f, v),
           NEW g, g = Replaced(got[r], i, f, v)
    PROVE  /\ got' = [got EXCEPT ![r] = g]
           /\ g = [k \in Item |-> g[k]] /\ \A k \in Item : g[k] \in [FileNames(k) -> Gotten]
           /\ g[i][f] = v
           /\ \A k \in Item : \A h \in FileNames(k) : k # i \/ h # f => g[k][h] = got[r][k][h]
<1>2. /\ got[r] = [k \in Item |-> got[r][k]] /\ \A k \in Item : got[r][k] \in [FileNames(k) -> Gotten]
      /\ got = [q \in Reader |-> got[q]]
  BY DEF ReadersOK, Typed
<1>1. got' = [got EXCEPT ![r] = g]
  BY <1>2 DEF Replaced, WithFile
<1> DEFINE new == [got[r][i] EXCEPT ![f] = v]
<1>3. /\ new \in [FileNames(i) -> Gotten] /\ new[f] = v
      /\ \A h \in FileNames(i) : h # f => new[h] = got[r][i][h]
  BY <1>2
<1>4. g = [k \in Item |-> IF k = i THEN new ELSE got[r][k]]
  BY <1>2 DEF Replaced
<1> HIDE DEF new
<1>5. \A k \in Item : g[k] = IF k = i THEN new ELSE got[r][k]
  BY <1>4
<1>6. g = [k \in Item |-> g[k]]
  BY <1>4
<1> QED BY <1>1, <1>2, <1>3, <1>5, <1>6

\* What is known when a reader takes a step.
LEMMA ReaderKnows ==
    ASSUME FetchInv, NEW r \in Reader
    PROVE  /\ TypeOK /\ IInv /\ ReadersOK /\ Typed(step[r], ended[r], got[r], todo[r])
           /\ Undisturbed => SentOnce /\ Known(step[r], ended[r], got[r], todo[r])
BY DEF FetchInv, IInv, ReadersOK

LEMMA InstallMoves ==
    ASSUME FetchInv, NEW r \in Reader, Install(r)
    PROVE  MovesWell(r)
<1>0. /\ TypeOK /\ ReadersOK /\ Typed(step[r], ended[r], got[r], todo[r])
      /\ Undisturbed => Known(step[r], ended[r], got[r], todo[r])
  BY ReaderKnows
<1>1. ended' = [ended EXCEPT ![r] = "none"] /\ todo' = [todo EXCEPT ![r] = todo[r]]
  BY <1>0 DEF Install, ReadersOK
<1>2. CASE got[r]["recipe"]["conanfile"] # 0
  <2>1. step' = [step EXCEPT ![r] = "info"] /\ got' = [got EXCEPT ![r] = got[r]]
    BY <1>0, <1>2 DEF Install, Goes, ReadersOK
  <2>2. Typed("info", "none", got[r], todo[r])
    BY <1>0 DEF Typed, Steps
  <2>3. Undisturbed => Known("info", "none", got[r], todo[r])
    BY <1>0, <1>2 DEF Known
  <2> QED BY <1>1, <2>1, <2>2, <2>3 DEF MovesWell, Moves
<1>3. CASE got[r]["recipe"]["conanfile"] = 0
  <2>0. step' = [step EXCEPT ![r] = "list_recipe"] /\ got' = WithoutFiles(r, "recipe")
    BY <1>3 DEF Install, Goes
  <2>1. PICK g : g = Emptied(got[r], "recipe")
    OBVIOUS
  <2>2. /\ got' = [got EXCEPT ![r] = g]
        /\ g = [k \in Item |-> g[k]] /\ \A k \in Item : g[k] \in [FileNames(k) -> Gotten]
        /\ \A k \in Item : \A f \in FileNames(k) :
             g[k][f] = IF k = "recipe" /\ f # "sources" THEN 0 ELSE got[r][k][f]
    BY <1>0, <2>0, <2>1, EmptiedIs, ItemsAre
  <2>3. Typed("list_recipe", "none", g, todo[r])
    BY <2>2 DEF Typed, Steps
  <2>4. Undisturbed => Known("list_recipe", "none", g, todo[r])
    BY <1>0, <2>2, ItemsAre DEF Known, HasOf, HasWhole
  <2> QED BY <1>1, <2>0, <2>2, <2>3, <2>4 DEF MovesWell, Moves
<1> QED BY <1>2, <1>3

\* A list of files, from which the reader goes on.
LEMMA ListMoves ==
    ASSUME FetchInv, NEW r \in Reader, ListRecipe(r) \/ ListPackage(r)
    PROVE  MovesWell(r)
<1>0. /\ TypeOK /\ ReadersOK /\ Typed(step[r], ended[r], got[r], todo[r])
      /\ Undisturbed => Known(step[r], ended[r], got[r], todo[r])
  BY ReaderKnows
<1>1. CASE Ends(r, "failed") /\ UNCHANGED got
  BY <1>0, <1>1, FailsWell
<1>2. ASSUME NEW to, NEW t, step' = [step EXCEPT ![r] = to], todo' = [todo EXCEPT ![r] = t],
             UNCHANGED <<got, ended>>, Typed(to, ended[r], got[r], t),
             Undisturbed => Known(to, ended[r], got[r], t)
      PROVE  MovesWell(r)
  BY <1>0, <1>2 DEF MovesWell, Moves, ReadersOK
<1>3. CASE ListRecipe(r) /\ ~(Ends(r, "failed") /\ UNCHANGED got)
  <2>1. PICK t : t = Listing("recipe") \cap (FileNames("recipe") \ {"sources"})
    OBVIOUS
  <2>2. /\ step[r] = "list_recipe" /\ step' = [step EXCEPT ![r] = "get_recipe"]
        /\ todo' = [todo EXCEPT ![r] = t] /\ UNCHANGED <<got, ended>>
    BY <1>3, <2>1 DEF ListRecipe, List, Goes
  <2>3. Typed("get_recipe", ended[r], got[r], t)
    BY <1>0, <2>1 DEF Typed, Steps
  <2>4. Undisturbed => Known("get_recipe", ended[r], got[r], t)
    BY <1>0, <2>2 DEF Known
  <2> QED BY <1>2, <2>2, <2>3, <2>4
<1>4. CASE ListPackage(r) /\ ~(Ends(r, "failed") /\ UNCHANGED got)
  <2>1. PICK t : t = Listing("package") \cap FileNames("package")
    OBVIOUS
  <2>2. /\ step[r] = "list_package" /\ step' = [step EXCEPT ![r] = "get_package"]
        /\ todo' = [todo EXCEPT ![r] = t] /\ UNCHANGED <<got, ended>>
    BY <1>4, <2>1 DEF ListPackage, List, Goes
  <2>3. Typed("get_package", ended[r], got[r], t)
    BY <1>0, <2>1 DEF Typed, Steps
  <2>4. ASSUME Undisturbed PROVE Known("get_package", ended[r], got[r], t)
    <3>1. \A f \in FileNames("package") : f \in t
      BY <1>0, <2>1, <2>2, <2>4 DEF Known, Listing
    <3> QED BY <1>0, <2>2, <2>4, <3>1 DEF Known
  <2> QED BY <1>2, <2>2, <2>3, <2>4
<1> QED BY <1>1, <1>3, <1>4

LEMMA GetMoves ==
    ASSUME FetchInv, NEW r \in Reader, GetRecipeFile(r) \/ GetPackageFile(r) \/ GetSources(r)
    PROVE  MovesWell(r)
<1>0. /\ TypeOK /\ IInv /\ ReadersOK /\ Typed(step[r], ended[r], got[r], todo[r])
      /\ Undisturbed => SentOnce /\ Known(step[r], ended[r], got[r], todo[r])
  BY ReaderKnows
<1>1. PICK i \in Item : GetFile(r, i, step[r]) /\ todo[r] \subseteq FileNames(i)
                        /\ \/ step[r] = "get_recipe" /\ i = "recipe" /\ "sources" \notin todo[r]
                           \/ step[r] = "get_package" /\ i = "package"
                           \/ step[r] = "get_sources" /\ i = "recipe" /\ todo[r] \subseteq {"sources"}
  BY <1>0, ItemsAre DEF GetRecipeFile, GetPackageFile, GetSources, GetFile, Typed
<1>2. PICK f : f = NextFile(i, todo[r])
  OBVIOUS
<1>3. f \in todo[r] /\ f \in FileNames(i)
  BY <1>1, <1>2, NextIsLeft DEF GetFile
<1>4. CASE OnServer(i, f) = 0
  BY <1>0, <1>1, <1>2, <1>4, FailsWell DEF GetFile
<1>5. CASE OnServer(i, f) # 0
  <2> DEFINE v == OnServer(i, f)
             t == todo[r] \ {f}
  <2>1. /\ v \in Gotten /\ v \in {Cut, stored[i][f]} /\ v # 0
        /\ stored[i][f] # 0 => v = stored[i][f]
    BY <1>0, <1>3, <1>5, OnServerIs
  <2>2. /\ got' = [got EXCEPT ![r][i][f] = v] /\ todo' = [todo EXCEPT ![r] = t]
        /\ UNCHANGED <<step, ended>>
    BY <1>0, <1>1, <1>2, <1>5 DEF GetFile, ReadersOK
  <2>v. PICK w : w = v
    OBVIOUS
  <2>3. PICK g : g = Replaced(got[r], i, f, w)
    OBVIOUS
  <2>k. w = OnServer(i, f) /\ t = todo[r] \ {f}
    BY <2>v
  <2> HIDE DEF v, t
  <2>4. /\ got' = [got EXCEPT ![r] = g]
        /\ g = [k \in Item |-> g[k]] /\ \A k \in Item : g[k] \in [FileNames(k) -> Gotten]
        /\ g[i][f] = w
        /\ \A k \in Item : \A h \in FileNames(k) : k # i \/ h # f => g[k][h] = got[r][k][h]
    <3>1. w \in Gotten /\ got' = WithFile(r, i, f, w)
      BY <2>1, <2>2, <2>v DEF WithFile
    <3>2. ReadersOK /\ f \in FileNames(i)
      BY <1>0, <1>3
    <3> QED BY ONLY <2>3, <3>1, <3>2, GotIs, r \in Reader, i \in Item
  <2>5. Typed(step[r], ended[r], g, t)
    BY <1>0, <2>4, <2>k DEF Typed
  <2>6. ASSUME Undisturbed PROVE Known(step[r], ended[r], g, t)
    <3>0. /\ Known(step[r], ended[r], got[r], todo[r])
          /\ OnServer("recipe", "conanfile") # 0 => stored["recipe"]["sources"] # 0
          /\ OnServer("package", "manifest") # 0 =>
                stored["package"]["package"] # 0 /\ stored["package"]["info"] # 0
      BY <1>0, <2>6, BehindThem
    <3>1. ASSUME NEW k \in Item, NEW h \in FileNames(k) PROVE HasOf(g, k, h)
      <4>1. CASE k = i /\ h = f
        BY <1>5, <2>1, <2>v, <2>4, <4>1 DEF HasOf
      <4>2. CASE k # i \/ h # f
        BY <2>4, <3>0, <3>1, <4>2 DEF HasOf, Known
      <4> QED BY <4>1, <4>2
    <3>2. g["recipe"]["sources"] # 0 => HasWhole(g, "recipe", "sources")
      <4>1. CASE i = "recipe" /\ f = "sources"
        <5>1. step[r] = "get_sources"
          BY <1>1, <1>3, <4>1
        <5>2. OnServer("recipe", "conanfile") # 0
          BY <3>0, <5>1, ItemsAre DEF Known, HasOf
        <5> QED BY <2>1, <2>v, <2>4, <3>0, <4>1, <5>2 DEF HasWhole
      <4>2. CASE i # "recipe" \/ f # "sources"
        BY <2>4, <3>0, <4>2, ItemsAre DEF Known, HasWhole
      <4> QED BY <4>1, <4>2
    <3>3. step[r] = "get_sources" => g["recipe"]["conanfile"] # 0 /\ g["recipe"]["sources"] # 0
      BY <1>1, <1>3, <2>1, <2>v, <2>4, <3>0, ItemsAre DEF Known
    <3>4. ASSUME step[r] = "get_package", NEW h \in FileNames("package")
          PROVE  /\ OnServer("package", h) # 0
                 /\ h # "manifest" /\ g["package"][h] # 0 => HasWhole(g, "package", h)
                 /\ h \in t \/ g["package"][h] # 0
      <4>0. i = "package" /\ "package" \in Item
        BY <1>1, <3>4, ItemsAre
      <4>1. \A x \in FileNames("package") : OnServer("package", x) # 0
        BY <3>0, <3>4 DEF Known
      <4>2. CASE h = f
        BY <2>1, <2>v, <2>4, <3>0, <4>0, <4>1, <4>2, <3>4, ItemsAre DEF HasWhole
      <4>3. CASE h # f
        BY <2>4, <2>k, <3>0, <3>4, <4>0, <4>1, <4>3 DEF Known, HasWhole
      <4> QED BY <4>1, <4>2, <4>3
    <3>5. step[r] \in {"get_recipe", "get_package", "get_sources"} /\ ended[r] = "none"
      BY <1>1, <3>0 DEF Known
    <3> QED BY <3>1, <3>2, <3>3, <3>4, <3>5 DEF Known
  <2>7. step' = [step EXCEPT ![r] = step[r]] /\ ended' = [ended EXCEPT ![r] = ended[r]]
    BY <1>0, <2>2 DEF ReadersOK
  <2> QED BY <2>2, <2>4, <2>5, <2>6, <2>7 DEF MovesWell, Moves
<1> QED BY <1>4, <1>5

LEMMA UnzipRecipeMoves ==
    ASSUME FetchInv, NEW r \in Reader, UnzipRecipe(r)
    PROVE  MovesWell(r)
<1>0. /\ TypeOK /\ ReadersOK /\ Typed(step[r], ended[r], got[r], todo[r])
      /\ Undisturbed => Known(step[r], ended[r], got[r], todo[r])
  BY ReaderKnows
<1>1. step[r] = "get_recipe" /\ todo[r] = {}
  BY DEF UnzipRecipe
<1>2. CASE Ends(r, "failed") /\ got' = WithoutFiles(r, "recipe")
  <2>1. PICK g : g = Emptied(got[r], "recipe")
    OBVIOUS
  <2>2. /\ got' = [got EXCEPT ![r] = g]
        /\ g = [k \in Item |-> g[k]] /\ \A k \in Item : g[k] \in [FileNames(k) -> Gotten]
        /\ \A k \in Item : \A f \in FileNames(k) :
             g[k][f] = IF k = "recipe" /\ f # "sources" THEN 0 ELSE got[r][k][f]
    BY <1>0, <1>2, <2>1, EmptiedIs, ItemsAre
  <2>3. Typed("idle", "failed", g, {})
    BY <2>2 DEF Typed, Steps
  <2>4. Undisturbed => Known("idle", "failed", g, {})
    BY <1>0, <2>2, ItemsAre DEF Known, HasOf, HasWhole
  <2> QED BY <1>0, <1>2, <2>2, <2>3, <2>4, MovesOut
<1>3. CASE Ends(r, "failed") /\ UNCHANGED got
  BY <1>0, <1>3, FailsWell
<1>4. CASE /\ got[r]["recipe"]["conanfile"] # 0 /\ step' = [step EXCEPT ![r] = "info"]
           /\ UNCHANGED <<todo, got, ended>>
  <2>1. Typed("info", ended[r], got[r], todo[r])
    BY <1>0 DEF Typed, Steps
  <2>2. Undisturbed => Known("info", ended[r], got[r], todo[r])
    BY <1>0, <1>1, <1>4 DEF Known
  <2> QED BY <1>0, <1>4, <2>1, <2>2, MovesOn
<1> QED BY <1>2, <1>3, <1>4 DEF UnzipRecipe, Goes

LEMMA AskInfoMoves ==
    ASSUME FetchInv, NEW r \in Reader, AskInfo(r)
    PROVE  MovesWell(r)
<1>0. /\ TypeOK /\ ReadersOK /\ Typed(step[r], ended[r], got[r], todo[r])
      /\ Undisturbed => Known(step[r], ended[r], got[r], todo[r])
  BY ReaderKnows
<1>1. PICK s \in {"list_sources", "snapshot"} : step' = [step EXCEPT ![r] = s]
  BY DEF AskInfo, Goes
<1>2. step[r] = "info" /\ UNCHANGED <<todo, got, ended>>
  BY DEF AskInfo, Goes
<1>3. Typed(s, ended[r], got[r], todo[r])
  BY <1>0 DEF Typed, Steps
<1>4. Undisturbed => Known(s, ended[r], got[r], todo[r])
  BY <1>0, <1>2 DEF Known
<1> QED BY <1>0, <1>1, <1>2, <1>3, <1>4, MovesOn

LEMMA CheckSnapshotMoves ==
    ASSUME FetchInv, NEW r \in Reader, CheckSnapshot(r)
    PROVE  MovesWell(r)
<1>0. /\ TypeOK /\ ReadersOK /\ Typed(step[r], ended[r], got[r], todo[r])
      /\ Undisturbed => Known(step[r], ended[r], got[r], todo[r])
  BY ReaderKnows
<1>1. step[r] = "snapshot" /\ got' = WithoutFiles(r, "package")
  BY DEF CheckSnapshot
<1>2. PICK g : g = Emptied(got[r], "package")
  OBVIOUS
<1>3. /\ got' = [got EXCEPT ![r] = g]
      /\ g = [k \in Item |-> g[k]] /\ \A k \in Item : g[k] \in [FileNames(k) -> Gotten]
      /\ \A k \in Item : \A f \in FileNames(k) :
           g[k][f] = IF k = "package" /\ f # "sources" THEN 0 ELSE got[r][k][f]
  BY <1>0, <1>1, <1>2, EmptiedIs, ItemsAre
<1>4. CASE Ends(r, "failed")
  <2>1. Typed("idle", "failed", g, {})
    BY <1>3 DEF Typed, Steps
  <2>2. Undisturbed => Known("idle", "failed", g, {})
    BY <1>0, <1>3, ItemsAre DEF Known, HasOf, HasWhole
  <2> QED BY <1>0, <1>3, <1>4, <2>1, <2>2, MovesOut
\* The list names every file, so that the server has every file.
<1>5. CASE /\ Listing("package") = FileNames("package")
           /\ step' = [step EXCEPT ![r] = "list_package"] /\ UNCHANGED <<todo, ended>>
  <2>1. todo' = [todo EXCEPT ![r] = todo[r]] /\ ended' = [ended EXCEPT ![r] = ended[r]]
    BY <1>0, <1>5 DEF ReadersOK
  <2>2. Typed("list_package", ended[r], g, todo[r])
    BY <1>0, <1>3 DEF Typed, Steps
  <2>3. \A f \in FileNames("package") : OnServer("package", f) # 0 /\ g["package"][f] = 0
    BY <1>3, <1>5, ItemsAre DEF Listing
  <2>4. Undisturbed => Known("list_package", ended[r], g, todo[r])
    BY <1>0, <1>1, <1>3, <2>3, ItemsAre DEF Known, HasOf, HasWhole
  <2> QED BY <1>3, <1>5, <2>1, <2>2, <2>4 DEF MovesWell, Moves
<1> QED BY <1>4, <1>5 DEF CheckSnapshot, Goes

LEMMA UnzipPackageMoves ==
    ASSUME FetchInv, NEW r \in Reader, UnzipPackage(r)
    PROVE  MovesWell(r)
<1>0. /\ TypeOK /\ ReadersOK /\ Typed(step[r], ended[r], got[r], todo[r])
      /\ Undisturbed => Known(step[r], ended[r], got[r], todo[r])
  BY ReaderKnows
<1>1. step[r] = "get_package" /\ todo[r] = {}
  BY DEF UnzipPackage
<1>2. CASE Ends(r, "failed") /\ got' = WithoutFiles(r, "package")
  <2>1. PICK g : g = Emptied(got[r], "package")
    OBVIOUS
  <2>2. /\ got' = [got EXCEPT ![r] = g]
        /\ g = [k \in Item |-> g[k]] /\ \A k \in Item : g[k] \in [FileNames(k) -> Gotten]
        /\ \A k \in Item : \A f \in FileNames(k) :
             g[k][f] = IF k = "package" /\ f # "sources" THEN 0 ELSE got[r][k][f]
    BY <1>0, <1>2, <2>1, EmptiedIs, ItemsAre
  <2>3. Typed("idle", "failed", g, {})
    BY <2>2 DEF Typed, Steps
  <2>4. Undisturbed => Known("idle", "failed", g, {})
    BY <1>0, <2>2, ItemsAre DEF Known, HasOf, HasWhole
  <2> QED BY <1>0, <1>2, <2>2, <2>3, <2>4, MovesOut
<1>3. CASE Ends(r, "installed") /\ UNCHANGED got
  <2>1. got' = [got EXCEPT ![r] = got[r]]
    BY <1>0, <1>3 DEF ReadersOK
  <2>2. Typed("idle", "installed", got[r], {})
    BY <1>0 DEF Typed, Steps
  <2>3. ASSUME Undisturbed PROVE Known("idle", "installed", got[r], {})
    <3>1. Known(step[r], ended[r], got[r], todo[r])
      BY <1>0, <2>3
    <3>2. \A f \in FileNames("package") : got[r]["package"][f] # 0
      BY <1>1, <3>1 DEF Known
    <3>3. HasWhole(got[r], "package", "package") /\ HasWhole(got[r], "package", "info")
      BY <1>1, <3>1, <3>2, ItemsAre DEF Known
    <3>4. got[r]["package"]["package"] > 0 /\ got[r]["package"]["info"] > 0
      BY <1>0, <3>3, OnServerIs, ItemsAre DEF HasWhole
    <3> QED BY <3>1, <3>2, <3>4, ItemsAre DEF Known
  <2> QED BY <1>0, <1>3, <2>1, <2>2, <2>3, MovesOut
<1> QED BY <1>2, <1>3 DEF UnzipPackage

LEMMA SourcesThereMoves ==
    ASSUME FetchInv, NEW r \in Reader, SourcesThere(r)
    PROVE  MovesWell(r)
<1>0. /\ TypeOK /\ ReadersOK /\ Typed(step[r], ended[r], got[r], todo[r])
      /\ Undisturbed => Known(step[r], ended[r], got[r], todo[r])
  BY ReaderKnows
<1>1. /\ step[r] = "list_sources" /\ step' = [step EXCEPT ![r] = "build"]
      /\ UNCHANGED <<todo, got, ended>> /\ got[r]["recipe"]["sources"] # 0
  BY DEF SourcesThere, Goes
<1>2. Typed("build", ended[r], got[r], todo[r])
  BY <1>0 DEF Typed, Steps
<1>3. Undisturbed => Known("build", ended[r], got[r], todo[r])
  BY <1>0, <1>1 DEF Known
<1> QED BY <1>0, <1>1, <1>2, <1>3, MovesOn

LEMMA ListSourcesMoves ==
    ASSUME FetchInv, NEW r \in Reader, ListSources(r)
    PROVE  MovesWell(r)
<1>0. /\ TypeOK /\ IInv /\ ReadersOK /\ Typed(step[r], ended[r], got[r], todo[r])
      /\ Undisturbed => SentOnce /\ Known(step[r], ended[r], got[r], todo[r])
  BY ReaderKnows
<1>1. step[r] = "list_sources"
  BY DEF ListSources
<1>2. CASE Ends(r, "failed") /\ UNCHANGED got
  BY <1>0, <1>2, FailsWell
\* A list without the sources: then nobody has a recipe that came from there.
<1>3. CASE /\ "sources" \notin Listing("recipe")
           /\ got' = WithFile(r, "recipe", "sources", NoSources)
           /\ step' = [step EXCEPT ![r] = "build"] /\ UNCHANGED <<todo, ended>>
  <2>1. PICK g : g = Replaced(got[r], "recipe", "sources", NoSources)
    OBVIOUS
  <2>2. /\ got' = [got EXCEPT ![r] = g]
        /\ g = [k \in Item |-> g[k]] /\ \A k \in Item : g[k] \in [FileNames(k) -> Gotten]
    <3>1. NoSources \in Gotten /\ "recipe" \in Item /\ "sources" \in FileNames("recipe")
      BY ItemsAre DEF Gotten
    <3> QED BY <1>0, <1>3, <2>1, <3>1, GotIs
  <2>3. Typed("build", ended[r], g, todo[r])
    BY <1>0, <2>2 DEF Typed, Steps
  <2>4. ~Undisturbed
    <3> SUFFICES ASSUME Undisturbed PROVE FALSE
      OBVIOUS
    <3>1. OnServer("recipe", "conanfile") # 0
      BY <1>0, <1>1, ItemsAre DEF Known, HasOf
    <3>2. stored["recipe"]["sources"] # 0
      BY <1>0, <3>1, BehindThem
    <3>3. OnServer("recipe", "sources") # 0
      BY <1>0, <3>2, OnServerIs, ItemsAre
    <3> QED BY <1>3, <3>3, ItemsAre DEF Listing
  <2>5. todo' = [todo EXCEPT ![r] = todo[r]] /\ ended' = [ended EXCEPT ![r] = ended[r]]
    BY <1>0, <1>3 DEF ReadersOK
  <2> QED BY <1>3, <2>2, <2>3, <2>4, <2>5 DEF MovesWell, Moves
<1>4. CASE /\ todo' = [todo EXCEPT ![r] = {"sources"}]
           /\ step' = [step EXCEPT ![r] = "get_sources"] /\ UNCHANGED <<got, ended>>
  <2>1. Typed("get_sources", ended[r], got[r], {"sources"})
    BY <1>0 DEF Typed, Steps
  <2>2. Undisturbed => Known("get_sources", ended[r], got[r], {"sources"})
    BY <1>0, <1>1 DEF Known
  <2>3. got' = [got EXCEPT ![r] = got[r]] /\ ended' = [ended EXCEPT ![r] = ended[r]]
    BY <1>0, <1>4 DEF ReadersOK
  <2> QED BY <1>4, <2>1, <2>2, <2>3 DEF MovesWell, Moves
<1> QED BY <1>2, <1>3, <1>4 DEF ListSources, Goes, WithFile

LEMMA UnzipSourcesMoves ==
    ASSUME FetchInv, NEW r \in Reader, UnzipSources(r)
    PROVE  MovesWell(r)
<1>0. /\ TypeOK /\ ReadersOK /\ Typed(step[r], ended[r], got[r], todo[r])
      /\ Undisturbed => Known(step[r], ended[r], got[r], todo[r])
  BY ReaderKnows
<1>1. step[r] = "get_sources" /\ todo[r] = {}
  BY DEF UnzipSources
<1>2. CASE Ends(r, "failed") /\ got' = WithFile(r, "recipe", "sources", 0)
  <2>1. PICK g : g = Replaced(got[r], "recipe", "sources", 0)
    OBVIOUS
  <2>2. /\ got' = [got EXCEPT ![r] = g]
        /\ g = [k \in Item |-> g[k]] /\ \A k \in Item : g[k] \in [FileNames(k) -> Gotten]
        /\ g["recipe"]["sources"] = 0
        /\ \A k \in Item : \A h \in FileNames(k) :
             k # "recipe" \/ h # "sources" => g[k][h] = got[r][k][h]
    <3>1. 0 \in Gotten /\ "recipe" \in Item /\ "sources" \in FileNames("recipe")
      BY ItemsAre DEF Gotten
    <3> QED BY <1>0, <1>2, <2>1, <3>1, GotIs
  <2>3. Typed("idle", "failed", g, {})
    BY <2>2 DEF Typed, Steps
  <2>4. ASSUME Undisturbed PROVE Known("idle", "failed", g, {})
    <3>1. ASSUME NEW k \in Item, NEW h \in FileNames(k) PROVE HasOf(g, k, h)
      <4>1. CASE k = "recipe" /\ h = "sources"
        BY <2>2, <4>1 DEF HasOf
      <4>2. CASE k # "recipe" \/ h # "sources"
        BY <1>0, <2>2, <2>4, <3>1, <4>2 DEF HasOf, Known
      <4> QED BY <4>1, <4>2
    <3> QED BY <2>2, <3>1 DEF Known
  <2> QED BY <1>0, <1>2, <2>2, <2>3, <2>4, MovesOut
<1>3. CASE step' = [step EXCEPT ![r] = "build"] /\ UNCHANGED <<todo, got, ended>>
  <2>1. Typed("build", ended[r], got[r], todo[r])
    BY <1>0 DEF Typed, Steps
  <2>2. Undisturbed => Known("build", ended[r], got[r], todo[r])
    BY <1>0, <1>1 DEF Known
  <2> QED BY <1>0, <1>3, <2>1, <2>2, MovesOn
<1> QED BY <1>2, <1>3 DEF UnzipSources, Goes, WithFile

LEMMA BuildMoves ==
    ASSUME FetchInv, NEW r \in Reader, Build(r)
    PROVE  MovesWell(r)
<1>0. /\ TypeOK /\ ReadersOK /\ Typed(step[r], ended[r], got[r], todo[r])
      /\ Undisturbed => SentOnce /\ Known(step[r], ended[r], got[r], todo[r])
  BY ReaderKnows
<1>1. step[r] = "build" /\ UNCHANGED got
  BY DEF Build
<1>2. CASE Ends(r, "failed")
  BY <1>0, <1>1, <1>2, FailsWell
<1>3. CASE Ends(r, "built")
  <2>1. got' = [got EXCEPT ![r] = got[r]]
    BY <1>0, <1>1 DEF ReadersOK
  <2>2. Typed("idle", "built", got[r], {})
    BY <1>0 DEF Typed, Steps
  <2>3. ASSUME Undisturbed PROVE Known("idle", "built", got[r], {})
    <3>1. SentOnce /\ Known(step[r], ended[r], got[r], todo[r])
      BY <1>0, <2>3
    <3>2. /\ got[r]["recipe"]["sources"] = stored["recipe"]["sources"]
          /\ stored["recipe"]["sources"] # 0 /\ got[r]["recipe"]["conanfile"] # 0
      BY <1>1, <3>1 DEF Known, HasWhole
    <3>3. got[r]["recipe"]["sources"] > 0
      BY <1>0, <3>2, OnServerIs, ItemsAre
    <3>4. got[r]["recipe"]["conanfile"] \in {Cut, stored["recipe"]["conanfile"]}
      BY <3>1, <3>2, ItemsAre DEF Known, HasOf
    <3>5. stored["recipe"]["conanfile"] # 0 =>
             stored["recipe"]["conanfile"] = stored["recipe"]["sources"]
      BY <3>1, <3>2, ItemsAre DEF SentOnce, OneContent
    <3> QED BY <3>1, <3>2, <3>3, <3>4, <3>5 DEF Known
  <2> QED BY <1>0, <1>3, <2>1, <2>2, <2>3, MovesOut
<1> QED BY <1>2, <1>3 DEF Build

LEMMA ReadMoves ==
    ASSUME FetchInv, NEW r \in Reader, Read(r)
    PROVE  MovesWell(r)
BY InstallMoves, ListMoves, GetMoves, UnzipRecipeMoves, AskInfoMoves, CheckSnapshotMoves,
   UnzipPackageMoves, SourcesThereMoves, ListSourcesMoves, UnzipSourcesMoves, BuildMoves DEF Read
----------------------------------------------------------------------------
(* Every step keeps the invariant. *)

\* A step that leaves the server leaves what is relied on.
LEMMA NothingSent ==
    ASSUME FetchInv, UNCHANGED <<vars, resent>>,
           \A c \in opened' : c \in Client /\ pc[c] = "put", opened \subseteq opened'
    PROVE  /\ IInv' /\ ServerKeeps /\ (Undisturbed' <=> Undisturbed) /\ (SentOnce' <=> SentOnce)
<1>1. IInv'
  BY InvStep DEF FetchInv
<1>2. SentOnce' <=> SentOnce
  BY DEF vars, SentOnce, OneContent, FirstThingsFirst, OneSends, HasSent, Underway, Local
<1>3. ServerKeeps
  BY DEF vars, ServerKeeps, OnServer, Current, Cut
<1> QED BY <1>1, <1>2, <1>3 DEF vars, Undisturbed

LEMMA ReadKeeps ==
    ASSUME FetchInv, NEW r \in Reader, Read(r), UNCHANGED <<vars, opened, resent>>
    PROVE  FetchInv'
<1>1. PICK s, e, g, t : /\ Moves(r, s, e, g, t) /\ Typed(s, e, g, t)
                        /\ Undisturbed => Known(s, e, g, t)
  BY ReadMoves DEF MovesWell
<1>2. /\ IInv' /\ ServerKeeps /\ (Undisturbed' <=> Undisturbed) /\ (SentOnce' <=> SentOnce)
      /\ ReadersOK /\ Typed(s, e, g, t)'
  BY <1>1, NothingSent DEF FetchInv, ReadersOK, vars, Typed, Gotten
<1>3. /\ step'[r] = s /\ ended'[r] = e /\ got'[r] = g /\ todo'[r] = t
      /\ \A q \in Reader \ {r} : /\ step'[q] = step[q] /\ ended'[q] = ended[q]
                                 /\ got'[q] = got[q] /\ todo'[q] = todo[q]
      /\ step' = [q \in Reader |-> step'[q]] /\ ended' = [q \in Reader |-> ended'[q]]
      /\ got' = [q \in Reader |-> got'[q]] /\ todo' = [q \in Reader |-> todo'[q]]
  BY <1>1, <1>2 DEF Moves, ReadersOK
<1>4. ReadersOK'
  <2>1. ASSUME NEW q \in Reader PROVE Typed(step'[q], ended'[q], got'[q], todo'[q])
    BY <1>1, <1>2, <1>3 DEF ReadersOK
  <2>2. (\A c \in opened : c \in Client /\ pc[c] = "put")' /\ (resent \in BOOLEAN)'
    BY <1>2 DEF ReadersOK, vars
  <2> QED BY ONLY <1>3, <2>1, <2>2 DEF ReadersOK, Typed, Gotten
<1>5. ASSUME Undisturbed, NEW q \in Reader
      PROVE  Known(step[q], ended[q], got[q], todo[q])'
  <2>1. CASE q = r
    BY <1>1, <1>2, <1>3, <1>5, <2>1, KnownStays
  <2>2. CASE q # r
    BY <1>2, <1>3, <1>5, <2>2, KnownStays DEF FetchInv
  <2> QED BY <2>1, <2>2
<1> QED BY <1>2, <1>4, <1>5 DEF FetchInv

LEMMA OpenKeeps ==
    ASSUME FetchInv, NEW c \in Client, OpenFile(c)
    PROVE  FetchInv'
<1>1. UNCHANGED <<vars, reading, resent>> /\ pc[c] = "put" /\ opened' = opened \union {c}
  BY DEF OpenFile
<1>2. \A d \in opened' : d \in Client /\ pc[d] = "put"
  BY <1>1 DEF FetchInv, ReadersOK
<1>3. IInv' /\ ServerKeeps /\ (Undisturbed' <=> Undisturbed) /\ (SentOnce' <=> SentOnce)
  BY <1>1, <1>2, NothingSent
<1>4. ReadersOK'
  BY <1>1, <1>2 DEF FetchInv, ReadersOK, vars, reading, Typed, Gotten
<1>5. ASSUME Undisturbed, NEW q \in Reader
      PROVE  Known(step[q], ended[q], got[q], todo[q])'
  BY <1>1, <1>3, <1>5, KnownStays DEF FetchInv, reading
<1> QED BY <1>3, <1>4, <1>5 DEF FetchInv

LEMMA UploadKeeps ==
    ASSUME FetchInv, UploadGoesOn
    PROVE  FetchInv'
<1>1. /\ opened' = {d \in opened : pc'[d] = "put"} /\ resent' = (resent \/ SendsAgain)
      /\ UNCHANGED reading
  BY DEF UploadGoesOn
<1>2. PICK c \in Client : Step(c)
  BY DEF UploadGoesOn, Next, Step
<1>3. IInv'
  BY InvStep DEF FetchInv, UploadGoesOn
<1>4. ReadersOK'
  <2>1. (\A d \in opened : d \in Client /\ pc[d] = "put")'
    BY <1>1 DEF FetchInv, ReadersOK
  <2>2. (resent \in BOOLEAN)'
    BY <1>1 DEF FetchInv, ReadersOK, SendsAgain
  <2> QED BY <1>1, <2>1, <2>2 DEF FetchInv, ReadersOK, reading, Typed, Gotten
<1>5. ASSUME Undisturbed'
      PROVE  SentOnce' /\ \A q \in Reader : Known(step[q], ended[q], got[q], todo[q])'
  <2>1. failures' = 0 /\ ~resent' /\ ~resent
    BY <1>1, <1>5 DEF Undisturbed
  <2>2. failures = 0 /\ IInv /\ ReadersOK
    BY <1>2, <2>1, FailuresStay DEF FetchInv, IInv
  <2>3. SentOnce /\ \A q \in Reader : Known(step[q], ended[q], got[q], todo[q])
    BY <2>1, <2>2 DEF FetchInv, Undisturbed
  <2>4. SentOnce'
    BY <1>1, <1>2, <2>1, <2>2, <2>3, SentOnceStep
  <2>5. ServerKeeps
    BY <1>1, <1>2, <2>1, <2>2, <2>3, UploadKeepsServer
  <2>6. \A q \in Reader : Known(step[q], ended[q], got[q], todo[q])'
    BY <1>1, <2>3, <2>5, KnownStays DEF reading
  <2> QED BY <2>4, <2>6
<1> QED BY <1>3, <1>4, <1>5 DEF FetchInv

LEMMA FetchStep ==
    ASSUME FetchInv, [FetchNext]_allVars
    PROVE  FetchInv'
<1>1. CASE UNCHANGED allVars
  <2>1. UNCHANGED <<vars, reading, resent, opened>>
    BY <1>1 DEF allVars
  <2>2. \A d \in opened' : d \in Client /\ pc[d] = "put"
    BY <2>1 DEF FetchInv, ReadersOK
  <2>3. IInv' /\ ServerKeeps /\ (Undisturbed' <=> Undisturbed) /\ (SentOnce' <=> SentOnce)
    BY <2>1, <2>2, NothingSent
  <2>4. ReadersOK'
    BY <2>1, <2>2 DEF FetchInv, ReadersOK, vars, reading, Typed, Gotten
  <2>5. ASSUME Undisturbed, NEW q \in Reader
        PROVE  Known(step[q], ended[q], got[q], todo[q])'
    BY <2>1, <2>3, <2>5, KnownStays DEF FetchInv, reading
  <2> QED BY <2>3, <2>4, <2>5 DEF FetchInv
<1> QED BY <1>1, ReadKeeps, OpenKeeps, UploadKeeps DEF FetchNext

LEMMA FetchStarts ==
    ASSUME FetchInit
    PROVE  FetchInv
<1>1. IInv /\ stored = [i \in Item |-> [f \in FileNames(i) |-> 0]] /\ pc = [c \in Client |-> "idle"]
  BY InvInit DEF FetchInit, Init
<1>2. \A i \in Item : \A f \in FileNames(i) : stored[i][f] = 0
  BY <1>1
<1>3. PICK g : g = [i \in Item |-> [f \in FileNames(i) |-> 0]]
  OBVIOUS
<1>4. /\ g = [i \in Item |-> g[i]] /\ \A i \in Item : g[i] \in [FileNames(i) -> Gotten]
      /\ \A i \in Item : \A f \in FileNames(i) : g[i][f] = 0
  BY <1>3 DEF Gotten
<1>5. /\ step = [r \in Reader |-> "idle"] /\ ended = [r \in Reader |-> "none"]
      /\ todo = [r \in Reader |-> {}] /\ got = [r \in Reader |-> g]
      /\ opened = {} /\ resent = FALSE
  BY <1>3 DEF FetchInit
<1>6. Typed("idle", "none", g, {}) /\ Known("idle", "none", g, {})
  BY <1>4, ItemsAre DEF Typed, Steps, Known, HasOf
<1>7. ReadersOK
  BY <1>5, <1>6 DEF ReadersOK
<1>8. SentOnce
  BY <1>1, <1>2, PlacesOf DEF SentOnce, OneContent, FirstThingsFirst, OneSends, HasSent, Underway
<1> QED BY <1>1, <1>5, <1>6, <1>7, <1>8 DEF FetchInv

LEMMA FetchAlways == FetchSpec => []FetchInv
BY FetchStarts, FetchStep, PTL DEF FetchSpec

\* Whoever installs a package that is being uploaded has its library and its information
\* whole, and a manifest, as long as nothing fails and no file is sent twice:
\* RemoteManager.get_package looks for all the files first, remote_manager.py 135.
THEOREM InstallsAreWhole == FetchSpec => []InstalledIsWhole
<1>1. FetchInv => InstalledIsWhole
  BY DEF FetchInv, Known, InstalledIsWhole
<1> QED
  BY <1>1, FetchAlways, PTL

\* Whoever builds a recipe that is being uploaded has the sources it came with: a recipe
\* with a conanfile.py has its sources before it, rest_client_v2.py 170-178.
THEOREM BuildsFitSources == FetchSpec => []BuiltFromItsSources
<1>1. FetchInv => BuiltFromItsSources
  BY DEF FetchInv, Known, BuiltFromItsSources
<1> QED
  BY <1>1, FetchAlways, PTL
=============================================================================
