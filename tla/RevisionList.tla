--------------------------- MODULE RevisionList ---------------------------
(***************************************************************************)
(* The index of revisions the server keeps in a `revisions.txt' file       *)
(* (conans/server/revision_list.py): a sequence of entries, oldest first.  *)
(***************************************************************************)
EXTENDS Integers, Sequences, SequencesExt

Entry(rev, time) == [revision |-> rev, time |-> time]
Revisions(list) == {list[i].revision : i \in DOMAIN list}

\* _find_revision_index: the position of the first entry of rev, 0 if it has none.
FindRevisionIndex(list, rev) == SelectInSeq(list, LAMBDA e : e.revision = rev)

IsLatest(list, rev) == list # <<>> /\ Last(list).revision = rev

\* The code's `if index:' is false for no entry, and for an entry at its index 0: the
\* oldest entry is never taken out, and the revision is listed twice.
AddsSecondEntry(list, rev) == ~IsLatest(list, rev) /\ FindRevisionIndex(list, rev) = 1

AddRevisionInFront(list, rev, now) == <<Entry(rev, now)>> \o list
AddRevision(list, rev, now) ==
    IF IsLatest(list, rev)
    THEN list
    ELSE LET at == FindRevisionIndex(list, rev)
             rest == IF at > 1 THEN RemoveAt(list, at) ELSE list
         IN  Append(rest, Entry(rev, now))

RemoveNothing(list, rev) == list
RemoveNewest(list, rev) == IF list = <<>> THEN list ELSE Front(list)
\* remove_revision takes out one entry, the oldest.
RemoveRevision(list, rev) ==
    LET at == FindRevisionIndex(list, rev)
    IN  IF at = 0 THEN list ELSE RemoveAt(list, at)

\* as_list: newest first.
AsList(list) == Reverse([i \in DOMAIN list |-> list[i].revision])
=============================================================================
