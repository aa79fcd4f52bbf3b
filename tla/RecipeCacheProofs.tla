------------------------- MODULE RecipeCacheProofs -------------------------
(***************************************************************************)
(* Proofs about RecipeCache, for any processes, remotes, revisions and     *)
(* commands.  First the recipe, whatever happens to the remotes and the    *)
(* lock meanwhile: as long as no two commands work on it at once and no    *)
(* transfer breaks off in the middle, metadata and exported sources are    *)
(* those of the recipe beside them, an installation answers what is there  *)
(* and an update is never older than what it found.  Then the registry: as *)
(* long as no command runs beside a change of the remotes, the remote in   *)
(* the metadata leads to the server the recipe came from.                  *)
(***************************************************************************)
EXTENDS RecipeCache, TLAPS, FiniteSetTheorems

Steady == Stands({"overlap", "part"})

----------------------------------------------------------------------------
(* What a session, the metadata and the answers are made of, whatever is in them. *)

IsRecord(r, fields) == r = [f \in fields |-> r[f]]
CommandFields ==
    {"op", "step", "table", "selected", "want", "update", "todo", "rev", "found"}
ShapeOK ==
    /\ IsRecord(session, Proc) /\ IsRecord(answer, Proc)
    /\ meta = NoMeta \/ IsRecord(meta, {"rev", "remote"})
    /\ \A p \in Proc :
         \/ session[p] = Idle
         \/ /\ session[p].step \in {"save", "sweep"}
            /\ IsRecord(session[p], {"step", "rest", "table", "move"})
            /\ session[p].rest \in {<<>>, <<"save">>, <<"sweep">>}
         \/ /\ session[p].step \notin {"idle", "save", "sweep"}
            /\ IsRecord(session[p], CommandFields)

----------------------------------------------------------------------------
(* What is so while nobody works on the recipe, and what the one who does has left of it. *)

\* The metadata name the revision of the export folder, which is whole.
Sound == HasRecipe => meta # NoMeta /\ export = Whole(meta.rev)
\* No sources but those of the recipe.
SourcesFit ==
    "switched" \notin spoiled /\ HasRecipe /\ sources # NoFolder => sources = Whole(export.rev)

Work(p) ==
    LET s == session[p]
    IN  /\ s.step \in {"await", "look", "compare", "clear"} => Sound /\ SourcesFit
        /\ s.step = "await" => HasRecipe /\ s.rev = meta.rev
        /\ s.step = "look" /\ s.found # 0 => HasRecipe /\ s.want = 0
        /\ s.step = "compare" => HasRecipe
        /\ s.step \in {"clear", "receive", "unzip"} /\ s.found # 0 => sources = NoFolder
        /\ s.step = "receive" => export = NoFolder
        /\ s.step = "unzip" => export = [Whole(s.rev) EXCEPT !.whole = FALSE]
        /\ s.step \in {"record", "remote", "complete", "revise"} =>
             export = Whole(s.rev) /\ SourcesFit
        /\ s.step \in {"remote", "complete"} => meta # NoMeta /\ meta.rev = s.rev
        /\ s.step = "sign" =>
             export = [Whole(s.rev) EXCEPT !.manifest = FALSE] /\ sources = Whole(s.rev)

RecipeInv ==
    /\ ShapeOK
    /\ Steady =>
        /\ \A p, q \in Proc : Inside(p) /\ Inside(q) => p = q
        /\ AtRest => Sound /\ SourcesFit
        /\ \A p \in Proc : Inside(p) => Work(p)

----------------------------------------------------------------------------
(* Shapes. *)

CommandAt(p) == session[p].step \notin {"idle", "save", "sweep"}

LEMMA CommandIsRecord ==
    ASSUME ShapeOK, NEW p \in Proc, CommandAt(p)
    PROVE  IsRecord(session[p], CommandFields)
BY DEF ShapeOK, CommandAt, Idle

\* A command that goes on is a command, and no other process is touched.
LEMMA CommandGoesOn ==
    ASSUME ShapeOK, NEW p \in Proc, NEW t, session' = [session EXCEPT ![p] = t],
           IsRecord(t, CommandFields), t.step \notin {"idle", "save", "sweep"},
           IsRecord(answer', Proc), meta' = NoMeta \/ IsRecord(meta', {"rev", "remote"})
    PROVE  ShapeOK' /\ session'[p] = t
           /\ \A q \in Proc \ {p} : session'[q] = session[q]
<1>1. IsRecord(session', Proc) /\ session'[p] = t
      /\ \A q \in Proc \ {p} : session'[q] = session[q]
  BY DEF ShapeOK, IsRecord
<1> QED
  BY <1>1 DEF ShapeOK

LEMMA CommandEnds ==
    ASSUME ShapeOK, NEW p \in Proc, session' = [session EXCEPT ![p] = Idle],
           IsRecord(answer', Proc), meta' = NoMeta \/ IsRecord(meta', {"rev", "remote"})
    PROVE  ShapeOK' /\ session'[p] = Idle
           /\ \A q \in Proc \ {p} : session'[q] = session[q]
<1>1. IsRecord(session', Proc) /\ session'[p] = Idle
      /\ \A q \in Proc \ {p} : session'[q] = session[q]
  BY DEF ShapeOK, IsRecord
<1> QED
  BY <1>1 DEF ShapeOK

LEMMA StepIsShaped ==
    ASSUME ShapeOK, NEW p \in Proc, CommandAt(p), NEW to,
           to \notin {"idle", "save", "sweep"}, Step(p, to), UNCHANGED answer,
           meta' = NoMeta \/ IsRecord(meta', {"rev", "remote"})
    PROVE  /\ ShapeOK' /\ session'[p].step = to
           /\ \A f \in CommandFields \ {"step"} : session'[p][f] = session[p][f]
           /\ \A q \in Proc \ {p} : session'[q] = session[q]
<1> DEFINE t == [session[p] EXCEPT !.step = to]
<1>1. IsRecord(session[p], CommandFields)
  BY CommandIsRecord
<1>2. IsRecord(t, CommandFields) /\ t.step = to
      /\ \A f \in CommandFields \ {"step"} : t[f] = session[p][f]
  BY <1>1 DEF IsRecord, CommandFields
<1>3. session' = [session EXCEPT ![p] = t]
  BY DEF Step
<1>4. IsRecord(answer', Proc)
  BY DEF ShapeOK
<1> HIDE DEF t
<1> QED
  BY <1>2, <1>3, <1>4, CommandGoesOn

LEMMA FetchIsShaped ==
    ASSUME ShapeOK, NEW p \in Proc, CommandAt(p), NEW names, NEW rev,
           Fetch(p, names, rev), UNCHANGED <<answer, meta>>
    PROVE  /\ ShapeOK' /\ session'[p].step = "clear" /\ session'[p].want = rev
           /\ session'[p].found = session[p].found /\ session'[p].op = session[p].op
           /\ \A q \in Proc \ {p} : session'[q] = session[q]
<1> DEFINE t == [session[p] EXCEPT !.step = "clear", !.todo = names, !.want = rev]
<1>1. IsRecord(session[p], CommandFields)
  BY CommandIsRecord
<1>2. IsRecord(t, CommandFields) /\ t.step = "clear" /\ t.want = rev
      /\ t.found = session[p].found /\ t.op = session[p].op
  BY <1>1 DEF IsRecord, CommandFields
<1>3. session' = [session EXCEPT ![p] = t]
  BY DEF Fetch
<1>4. IsRecord(answer', Proc) /\ (meta' = NoMeta \/ IsRecord(meta', {"rev", "remote"}))
  BY DEF ShapeOK
<1> HIDE DEF t
<1> QED
  BY <1>2, <1>3, <1>4, CommandGoesOn

LEMMA EndIsShaped ==
    ASSUME ShapeOK, NEW p \in Proc, NEW rev, End(p, rev),
           meta' = NoMeta \/ IsRecord(meta', {"rev", "remote"})
    PROVE  /\ ShapeOK' /\ session'[p] = Idle /\ answer'[p] = rev
           /\ \A q \in Proc \ {p} : session'[q] = session[q] /\ answer'[q] = answer[q]
<1>1. IsRecord(answer', Proc) /\ answer'[p] = rev
      /\ \A q \in Proc \ {p} : answer'[q] = answer[q]
  BY DEF ShapeOK, IsRecord, End
<1> QED
  BY <1>1, CommandEnds DEF End, Finish

----------------------------------------------------------------------------
(* Steps.  The process that works on the recipe is alone with it. *)

AnswersWell ==
    Steady => \A p \in Proc : Inside(p) /\ session'[p] = Idle /\ answer'[p] # 0 =>
                export' = Whole(answer'[p])

LEMMA InsideAlone ==
    ASSUME RecipeInv, Steady, NEW p \in Proc, Inside(p)
    PROVE  Work(p) /\ \A q \in Proc \ {p} : ~Inside(q)
BY DEF RecipeInv

\* What a step has to show of its own process.
LEMMA StepKeeps ==
    ASSUME RecipeInv, ShapeOK', NEW p \in Proc, spoiled \subseteq spoiled',
           \A q \in Proc \ {p} : session'[q] = session[q],
           Steady' => \A q \in Proc \ {p} : ~Inside(q),
           Steady' => IF Inside(p)' THEN Work(p)' ELSE Sound' /\ SourcesFit',
           Steady /\ Inside(p) /\ session'[p] = Idle /\ answer'[p] # 0 =>
             export' = Whole(answer'[p])
    PROVE  RecipeInv' /\ AnswersWell
<1>1. AnswersWell
  BY DEF AnswersWell, Inside, Idle
<1>2. ASSUME Steady' PROVE \A q \in Proc \ {p} : ~Inside(q)'
  BY <1>2 DEF Inside
<1>3. ASSUME Steady'
      PROVE  /\ \A q, r \in Proc : Inside(q)' /\ Inside(r)' => q = r
             /\ AtRest' => Sound' /\ SourcesFit'
             /\ \A q \in Proc : Inside(q)' => Work(q)'
  BY <1>2, <1>3 DEF AtRest
<1> QED
  BY <1>1, <1>3 DEF RecipeInv

\* One that was at work already.
LEMMA WorkGoesOn ==
    ASSUME RecipeInv, ShapeOK', NEW p \in Proc, spoiled \subseteq spoiled', Inside(p),
           \A q \in Proc \ {p} : session'[q] = session[q],
           Steady' /\ Work(p) => IF Inside(p)' THEN Work(p)' ELSE Sound' /\ SourcesFit',
           Work(p) /\ session'[p] = Idle /\ answer'[p] # 0 => export' = Whole(answer'[p])
    PROVE  RecipeInv' /\ AnswersWell
<1>1. Steady' => Steady
  BY DEF Steady, Stands
<1> QED
  BY <1>1, InsideAlone, StepKeeps

LEMMA NoFolderIsNothing ==
    /\ ~NoFolder.conanfile
    /\ \A r : /\ Whole(r).conanfile /\ Whole(r) # NoFolder /\ Whole(r).rev = r
              /\ [Whole(r) EXCEPT !.whole = FALSE] # Whole(r)
BY DEF NoFolder, Whole

LEMMA LookKeeps ==
    ASSUME RecipeInv, NEW p \in Proc,
           Seek(p) \/ SeekDifferent(p) \/ UseCached(p) \/ AskManifest(p) \/ Compare(p)
           \/ RemoveOld(p) \/ Refuse(p)
    PROVE  RecipeInv' /\ AnswersWell
<1> DEFINE s == session[p]
<1>0. ShapeOK /\ spoiled' = spoiled /\ meta' = meta /\ Inside(p) /\ CommandAt(p)
      /\ (meta' = NoMeta \/ IsRecord(meta', {"rev", "remote"}))
  BY DEF RecipeInv, ShapeOK, Seek, SeekDifferent, UseCached, AskManifest, Compare, RemoveOld,
         Refuse, Inside, CommandAt
<1>1. CASE Seek(p)
  <2>1. s.step = "look" /\ ~HasRecipe /\ UNCHANGED <<folders, answer, meta>>
    BY <1>1 DEF Seek
  <2>2. /\ ShapeOK' /\ session'[p].step = "clear" /\ session'[p].found = s.found
        /\ \A q \in Proc \ {p} : session'[q] = session[q]
    BY <1>0, <1>1, <2>1, FetchIsShaped DEF Seek
  <2>3. Work(p) => Work(p)' /\ Inside(p)'
    BY <1>0, <2>1, <2>2 DEF Work, Inside, Sound, SourcesFit, folders, HasRecipe
  <2>4. session'[p] # Idle
    BY <2>2 DEF Idle
  <2> QED
    BY <1>0, <2>2, <2>3, <2>4, WorkGoesOn
<1>2. CASE SeekDifferent(p)
  <2>1. s.step = "look" /\ s.want # 0 /\ UNCHANGED <<folders, answer, meta>>
    BY <1>2 DEF SeekDifferent, Different
  <2>2. /\ ShapeOK' /\ session'[p].step = "clear" /\ session'[p].found = s.found
        /\ \A q \in Proc \ {p} : session'[q] = session[q]
    BY <1>0, <1>2, <2>1, FetchIsShaped DEF SeekDifferent
  <2>3. Work(p) => Work(p)' /\ Inside(p)'
    BY <1>0, <2>1, <2>2 DEF Work, Inside, Sound, SourcesFit, folders, HasRecipe
  <2>4. session'[p] # Idle
    BY <2>2 DEF Idle
  <2> QED
    BY <1>0, <2>2, <2>3, <2>4, WorkGoesOn
<1>3. CASE UseCached(p)
  <2>1. s.step = "look" /\ HasRecipe /\ End(p, meta.rev) /\ UNCHANGED folders
    BY <1>3 DEF UseCached
  <2>2. /\ ShapeOK' /\ session'[p] = Idle /\ answer'[p] = meta.rev
        /\ \A q \in Proc \ {p} : session'[q] = session[q]
    BY <1>0, <2>1, EndIsShaped
  <2>3. Work(p) => Sound' /\ SourcesFit' /\ ~Inside(p)' /\ export' = Whole(answer'[p])
    BY <1>0, <2>1, <2>2 DEF Work, Inside, Sound, SourcesFit, folders, HasRecipe, Idle
  <2> QED
    BY <1>0, <2>2, <2>3, WorkGoesOn
<1>4. CASE AskManifest(p)
  <2>1. s.step = "look" /\ HasRecipe /\ UNCHANGED folders
    BY <1>4 DEF AskManifest
  <2>2. CASE End(p, meta.rev)
    <3>2. /\ ShapeOK' /\ session'[p] = Idle /\ answer'[p] = meta.rev
          /\ \A q \in Proc \ {p} : session'[q] = session[q]
      BY <1>0, <2>2, EndIsShaped
    <3>3. Work(p) => Sound' /\ SourcesFit' /\ ~Inside(p)' /\ export' = Whole(answer'[p])
      BY <1>0, <2>1, <3>2 DEF Work, Inside, Sound, SourcesFit, folders, HasRecipe, Idle
    <3> QED
      BY <1>0, <3>2, <3>3, WorkGoesOn
  <2>3. CASE ~End(p, meta.rev)
    <3>1. PICK r : session' = [session EXCEPT ![p].step = "compare", ![p].rev = r,
                                              ![p].todo = <<Chosen(s)>>]
                   /\ UNCHANGED answer
      BY <1>4, <2>3 DEF AskManifest
    <3> DEFINE t == [s EXCEPT !.step = "compare", !.rev = r, !.todo = <<Chosen(s)>>]
    <3>2. IsRecord(t, CommandFields) /\ t.step = "compare" /\ t.found = s.found
      BY <1>0, CommandIsRecord DEF IsRecord, CommandFields
    <3>3. session' = [session EXCEPT ![p] = t] /\ IsRecord(answer', Proc)
      BY <1>0, <3>1 DEF ShapeOK
    <3> HIDE DEF t
    <3>4. /\ ShapeOK' /\ session'[p] = t
          /\ \A q \in Proc \ {p} : session'[q] = session[q]
      BY <1>0, <3>2, <3>3, CommandGoesOn
    <3>5. Work(p) => Work(p)' /\ Inside(p)'
      BY <1>0, <2>1, <3>2, <3>4 DEF Work, Inside, Sound, SourcesFit, folders, HasRecipe
    <3>6. session'[p] # Idle
      BY <3>2, <3>4 DEF Idle
    <3> QED
      BY <1>0, <3>4, <3>5, <3>6, WorkGoesOn
  <2> QED
    BY <2>2, <2>3
<1>5. CASE Compare(p)
  <2>1. s.step = "compare" /\ UNCHANGED folders
    BY <1>5 DEF Compare
  <2>2. CASE End(p, meta.rev)
    <3>2. /\ ShapeOK' /\ session'[p] = Idle /\ answer'[p] = meta.rev
          /\ \A q \in Proc \ {p} : session'[q] = session[q]
      BY <1>0, <2>2, EndIsShaped
    <3>3. Work(p) => Sound' /\ SourcesFit' /\ ~Inside(p)' /\ export' = Whole(answer'[p])
      BY <1>0, <2>1, <3>2 DEF Work, Inside, Sound, SourcesFit, folders, HasRecipe, Idle
    <3> QED
      BY <1>0, <3>2, <3>3, WorkGoesOn
  <2>3. CASE ~End(p, meta.rev)
    <3>1. Step(p, "remove") /\ UNCHANGED answer
      BY <1>5, <2>3 DEF Compare
    <3>2. /\ ShapeOK' /\ session'[p].step = "remove"
          /\ \A q \in Proc \ {p} : session'[q] = session[q]
      BY <1>0, <3>1, StepIsShaped
    <3>3. Work(p)' /\ Inside(p)' /\ session'[p] # Idle
      BY <3>2 DEF Work, Inside, Idle
    <3> QED
      BY <1>0, <3>2, <3>3, WorkGoesOn
  <2> QED
    BY <2>2, <2>3
<1>6. CASE RemoveOld(p)
  <2>1. export' = NoFolder /\ sources' = NoFolder /\ UNCHANGED <<answer, meta>>
    BY <1>6 DEF RemoveOld
  <2>2. /\ ShapeOK' /\ session'[p].step = "clear"
        /\ \A q \in Proc \ {p} : session'[q] = session[q]
    BY <1>0, <1>6, <2>1, FetchIsShaped DEF RemoveOld
  <2>3. Work(p)' /\ Inside(p)' /\ session'[p] # Idle
    BY <2>1, <2>2, NoFolderIsNothing DEF Work, Inside, Sound, SourcesFit, HasRecipe, Idle
  <2> QED
    BY <1>0, <2>2, <2>3, WorkGoesOn
<1>7. CASE Refuse(p)
  <2>1. s.step \in {"look", "compare"} /\ End(p, 0) /\ UNCHANGED folders
    BY <1>7 DEF Refuse, Fail
  <2>2. /\ ShapeOK' /\ session'[p] = Idle /\ answer'[p] = 0
        /\ \A q \in Proc \ {p} : session'[q] = session[q]
    BY <1>0, <2>1, EndIsShaped
  <2>3. Work(p) => Sound' /\ SourcesFit' /\ ~Inside(p)'
    BY <1>0, <2>1, <2>2 DEF Work, Inside, Sound, SourcesFit, folders, HasRecipe, Idle
  <2> QED
    BY <1>0, <2>2, <2>3, WorkGoesOn
<1> QED
  BY <1>1, <1>2, <1>3, <1>4, <1>5, <1>6, <1>7

LEMMA FetchKeeps ==
    ASSUME RecipeInv, NEW p \in Proc,
           Clear(p) \/ Receive(p) \/ Unzip(p) \/ Record(p) \/ RecordRemote(p)
    PROVE  RecipeInv' /\ AnswersWell
<1> DEFINE s == session[p]
<1>0. ShapeOK /\ spoiled \subseteq spoiled' /\ Inside(p) /\ CommandAt(p)
  BY DEF RecipeInv, Clear, Receive, Unzip, Record, RecordRemote, Inside, CommandAt
<1>1. CASE Clear(p)
  <2>1. s.step = "clear" /\ export' = NoFolder /\ UNCHANGED <<sources, meta, spoiled>>
    BY <1>1 DEF Clear
  <2>2. meta' = NoMeta \/ IsRecord(meta', {"rev", "remote"})
    BY <1>0, <2>1 DEF ShapeOK
  <2>3. CASE Fail(p)
    <3>1. /\ ShapeOK' /\ session'[p] = Idle /\ answer'[p] = 0
          /\ \A q \in Proc \ {p} : session'[q] = session[q]
      BY <1>0, <2>2, <2>3, EndIsShaped DEF Fail
    <3>2. Sound' /\ SourcesFit' /\ ~Inside(p)'
      BY <2>1, <3>1, NoFolderIsNothing DEF Inside, Sound, SourcesFit, HasRecipe, Idle
    <3> QED
      BY <1>0, <3>1, <3>2, WorkGoesOn
  <2>4. CASE ~Fail(p)
    <3> DEFINE found == IF s.want = 0 THEN Latest(FromUrl(s)) ELSE s.want
               next == [s EXCEPT !.todo = Tail(s.todo)]
               here == [s EXCEPT !.step = "receive", !.rev = found]
    <3>0. UNCHANGED answer /\ (session' = [session EXCEPT ![p] = next]
                               \/ session' = [session EXCEPT ![p] = here])
      BY <1>1, <2>4 DEF Clear
    <3>1. PICK t \in {next, here} : session' = [session EXCEPT ![p] = t] /\ UNCHANGED answer
      BY <3>0
    <3>2. IsRecord(t, CommandFields) /\ t.step \in {"clear", "receive"} /\ t.found = s.found
      BY <1>0, <2>1, <3>1, CommandIsRecord DEF IsRecord, CommandFields
    <3>3. IsRecord(answer', Proc)
      BY <1>0, <3>1 DEF ShapeOK
    <3>4. /\ ShapeOK' /\ session'[p] = t
          /\ \A q \in Proc \ {p} : session'[q] = session[q]
      BY <1>0, <2>2, <3>1, <3>2, <3>3, CommandGoesOn
    <3>5. Work(p) => Work(p)' /\ Inside(p)'
      BY <2>1, <3>2, <3>4, NoFolderIsNothing DEF Work, Inside, Sound, SourcesFit, HasRecipe
    <3>6. session'[p] # Idle
      BY <3>2, <3>4 DEF Idle
    <3> QED
      BY <1>0, <3>4, <3>5, <3>6, WorkGoesOn
  <2> QED
    BY <2>3, <2>4
<1>2. CASE Receive(p)
  <2>1. /\ s.step = "receive" /\ export' = [Whole(s.rev) EXCEPT !.whole = FALSE]
        /\ Step(p, "unzip") /\ UNCHANGED <<sources, meta, spoiled, answer>>
    BY <1>2 DEF Receive
  <2>2. meta' = NoMeta \/ IsRecord(meta', {"rev", "remote"})
    BY <1>0, <2>1 DEF ShapeOK
  <2>3. /\ ShapeOK' /\ session'[p].step = "unzip" /\ session'[p].rev = s.rev
        /\ session'[p].found = s.found
        /\ \A q \in Proc \ {p} : session'[q] = session[q]
    BY <1>0, <2>1, <2>2, StepIsShaped DEF CommandFields
  <2>4. Work(p) => Work(p)' /\ Inside(p)' /\ session'[p] # Idle
    BY <2>1, <2>3 DEF Work, Inside, Idle, Whole
  <2> QED
    BY <1>0, <2>3, <2>4, WorkGoesOn
<1>3. CASE Unzip(p)
  <2>1. /\ s.step = "unzip" /\ export' = Whole(s.rev)
        /\ Step(p, "record") /\ UNCHANGED <<sources, meta, answer>>
        /\ s.found = 0 /\ sources \notin {NoFolder, Whole(s.rev)} => "switched" \in spoiled'
    BY <1>3 DEF Unzip
  <2>2. meta' = NoMeta \/ IsRecord(meta', {"rev", "remote"})
    BY <1>0, <2>1 DEF ShapeOK
  <2>3. /\ ShapeOK' /\ session'[p].step = "record" /\ session'[p].rev = s.rev
        /\ \A q \in Proc \ {p} : session'[q] = session[q]
    BY <1>0, <2>1, <2>2, StepIsShaped DEF CommandFields
  <2>4. Work(p) => Work(p)' /\ Inside(p)' /\ session'[p] # Idle
    BY <2>1, <2>3, NoFolderIsNothing DEF Work, Inside, Idle, SourcesFit
  <2> QED
    BY <1>0, <2>3, <2>4, WorkGoesOn
<1>4. CASE Record(p)
  <2>1. /\ s.step = "record" /\ meta' = [rev |-> s.rev, remote |-> Recorded]
        /\ Step(p, "remote") /\ UNCHANGED <<folders, spoiled, answer>>
    BY <1>4 DEF Record
  <2>2. IsRecord(meta', {"rev", "remote"}) /\ meta' # NoMeta /\ meta'.rev = s.rev
    BY <2>1 DEF IsRecord, NoMeta
  <2>3. /\ ShapeOK' /\ session'[p].step = "remote" /\ session'[p].rev = s.rev
        /\ \A q \in Proc \ {p} : session'[q] = session[q]
    BY <1>0, <2>1, <2>2, StepIsShaped DEF CommandFields
  <2>4. Work(p) => Work(p)' /\ Inside(p)' /\ session'[p] # Idle
    BY <2>1, <2>2, <2>3 DEF Work, Inside, Idle, SourcesFit, HasRecipe, folders
  <2> QED
    BY <1>0, <2>3, <2>4, WorkGoesOn
<1>5. CASE RecordRemote(p)
  <2>1. /\ s.step = "remote" /\ UNCHANGED <<folders, spoiled>>
        /\ meta' = [rev |-> IF meta = NoMeta THEN 0 ELSE meta.rev, remote |-> Head(s.todo)]
    BY <1>5 DEF RecordRemote
  <2>2. /\ IsRecord(meta', {"rev", "remote"}) /\ meta' # NoMeta
        /\ meta # NoMeta => meta'.rev = meta.rev
    BY <2>1 DEF IsRecord, NoMeta
  <2>3. CASE Step(p, "complete") /\ UNCHANGED answer
    <3>1. /\ ShapeOK' /\ session'[p].step = "complete" /\ session'[p].rev = s.rev
          /\ \A q \in Proc \ {p} : session'[q] = session[q]
      BY <1>0, <2>3, <2>2, StepIsShaped DEF CommandFields
    <3>2. Work(p) => Work(p)' /\ Inside(p)' /\ session'[p] # Idle
      BY <2>1, <2>2, <3>1 DEF Work, Inside, Idle, SourcesFit, HasRecipe, folders
    <3> QED
      BY <1>0, <3>1, <3>2, WorkGoesOn
  <2>4. CASE End(p, s.rev)
    <3>1. /\ ShapeOK' /\ session'[p] = Idle /\ answer'[p] = s.rev
          /\ \A q \in Proc \ {p} : session'[q] = session[q]
      BY <1>0, <2>2, <2>4, EndIsShaped
    <3>2. Work(p) => /\ Sound' /\ SourcesFit' /\ ~Inside(p)'
                     /\ export' = Whole(answer'[p])
      BY <2>1, <2>2, <3>1 DEF Work, Inside, Sound, SourcesFit, HasRecipe, folders, Idle
    <3> QED
      BY <1>0, <3>1, <3>2, WorkGoesOn
  <2> QED
    BY <1>5, <2>3, <2>4 DEF RecordRemote
<1> QED
  BY <1>1, <1>2, <1>3, <1>4, <1>5

LEMMA BreakKeeps ==
    ASSUME RecipeInv, NEW p \in Proc, Break(p)
    PROVE  RecipeInv' /\ AnswersWell
<1> DEFINE s == session[p]
<1>1. ShapeOK /\ spoiled \subseteq spoiled' /\ Inside(p) /\ UNCHANGED meta /\ End(p, 0)
  BY DEF RecipeInv, Break, Inside, Fail
<1>2. meta' = NoMeta \/ IsRecord(meta', {"rev", "remote"})
  BY <1>1 DEF ShapeOK
<1>3. /\ ShapeOK' /\ session'[p] = Idle /\ answer'[p] = 0
      /\ \A q \in Proc \ {p} : session'[q] = session[q]
  BY <1>1, <1>2, EndIsShaped
<1>4. Steady' =>
        \/ s.step = "unzip" /\ export' = NoFolder
        \/ s.step \in {"look", "clear", "complete"} /\ UNCHANGED <<folders, spoiled>>
  BY DEF Break, Steady, Stands
<1>5. Steady' /\ Work(p) => Sound' /\ SourcesFit'
  BY <1>1, <1>4, NoFolderIsNothing DEF Work, Sound, SourcesFit, HasRecipe, folders
<1>6. ~Inside(p)'
  BY <1>3 DEF Inside, Idle
<1> QED
  BY <1>1, <1>3, <1>5, <1>6, WorkGoesOn

LEMMA CompleteKeeps ==
    ASSUME RecipeInv, NEW p \in Proc, SourcesThere(p) \/ FetchSources(p)
    PROVE  RecipeInv' /\ AnswersWell
<1> DEFINE s == session[p]
<1>1. /\ ShapeOK /\ s.step = "complete" /\ Inside(p) /\ UNCHANGED <<meta, export, spoiled>>
      /\ \/ End(p, s.rev) /\ (sources' = sources \/ sources' = Whole(s.rev))
         \/ End(p, 0) /\ UNCHANGED sources
  BY DEF RecipeInv, SourcesThere, FetchSources, Inside, Fail, folders
<1>2. meta' = NoMeta \/ IsRecord(meta', {"rev", "remote"})
  BY <1>1 DEF ShapeOK
<1>3. /\ ShapeOK' /\ session'[p] = Idle /\ answer'[p] \in {0, s.rev}
      /\ \A q \in Proc \ {p} : session'[q] = session[q]
  BY <1>1, <1>2, EndIsShaped
<1>4. Work(p) => /\ Sound' /\ SourcesFit' /\ ~Inside(p)'
                 /\ answer'[p] # 0 => export' = Whole(answer'[p])
  BY <1>1, <1>3, NoFolderIsNothing DEF Work, Inside, Sound, SourcesFit, HasRecipe, Idle
<1> QED
  BY <1>1, <1>3, <1>4, WorkGoesOn

LEMMA ExportKeeps ==
    ASSUME RecipeInv, NEW p \in Proc,
           EnterExport(p) \/ CopyRecipe(p) \/ SignRecipe(p) \/ ReviseMetadata(p)
    PROVE  RecipeInv' /\ AnswersWell
<1> DEFINE s == session[p]
<1>0. ShapeOK /\ spoiled' = spoiled /\ Inside(p) /\ CommandAt(p)
  BY DEF RecipeInv, EnterExport, CopyRecipe, SignRecipe, ReviseMetadata, Inside, CommandAt
<1>1. CASE EnterExport(p) \/ CopyRecipe(p) \/ SignRecipe(p)
  <2>1. PICK to \in {"copy", "sign", "revise"} :
          /\ Step(p, to) /\ UNCHANGED <<answer, meta>>
          /\ to = "sign" => /\ export' = [Whole(s.rev) EXCEPT !.manifest = FALSE]
                            /\ sources' = Whole(s.rev)
          /\ to = "revise" => /\ s.step = "sign" /\ UNCHANGED sources
                              /\ export' = [export EXCEPT !.manifest = TRUE]
    BY <1>1 DEF EnterExport, CopyRecipe, SignRecipe
  <2>2. meta' = NoMeta \/ IsRecord(meta', {"rev", "remote"})
    BY <1>0, <2>1 DEF ShapeOK
  <2>3. /\ ShapeOK' /\ session'[p].step = to /\ session'[p].rev = s.rev
        /\ \A q \in Proc \ {p} : session'[q] = session[q]
    BY <1>0, <2>1, <2>2, StepIsShaped DEF CommandFields
  <2>4. Work(p) /\ to = "revise" => export' = Whole(s.rev) /\ sources' = Whole(s.rev)
    BY <2>1 DEF Work, Whole
  <2>5. Work(p) => Work(p)' /\ Inside(p)' /\ session'[p] # Idle
    BY <2>1, <2>3, <2>4, NoFolderIsNothing DEF Work, Inside, Idle, SourcesFit
  <2> QED
    BY <1>0, <2>3, <2>5, WorkGoesOn
<1>2. CASE ReviseMetadata(p)
  <2>1. /\ s.step = "revise" /\ meta' = [rev |-> s.rev, remote |-> Recorded]
        /\ End(p, s.rev) /\ UNCHANGED folders
    BY <1>2 DEF ReviseMetadata
  <2>2. IsRecord(meta', {"rev", "remote"}) /\ meta' # NoMeta /\ meta'.rev = s.rev
    BY <2>1 DEF IsRecord, NoMeta
  <2>3. /\ ShapeOK' /\ session'[p] = Idle /\ answer'[p] = s.rev
        /\ \A q \in Proc \ {p} : session'[q] = session[q]
    BY <1>0, <2>1, <2>2, EndIsShaped
  <2>4. Work(p) => Sound' /\ SourcesFit' /\ ~Inside(p)' /\ export' = Whole(answer'[p])
    BY <1>0, <2>1, <2>2, <2>3 DEF Work, Inside, Sound, SourcesFit, HasRecipe, folders, Idle
  <2> QED
    BY <1>0, <2>3, <2>4, WorkGoesOn
<1> QED
  BY <1>1, <1>2

LEMMA RemoveKeeps ==
    ASSUME RecipeInv, NEW p \in Proc, RemoveBase(p)
    PROVE  RecipeInv' /\ AnswersWell
<1>1. /\ ShapeOK /\ Inside(p) /\ export' = NoFolder /\ meta' = NoMeta /\ End(p, 0)
      /\ UNCHANGED spoiled
  BY DEF RecipeInv, RemoveBase, Inside
<1>2. /\ ShapeOK' /\ session'[p] = Idle /\ answer'[p] = 0
      /\ \A q \in Proc \ {p} : session'[q] = session[q]
  BY <1>1, EndIsShaped
<1>3. Sound' /\ SourcesFit' /\ ~Inside(p)'
  BY <1>1, <1>2, NoFolderIsNothing DEF Inside, Sound, SourcesFit, HasRecipe, Idle
<1> QED
  BY <1>1, <1>2, <1>3, WorkGoesOn

----------------------------------------------------------------------------
(* Commands begin; others change the remotes meanwhile. *)

\* Who does not work on the recipe may change the remote in its metadata, no more.
LEMMA OutsideKeeps ==
    ASSUME RecipeInv, ShapeOK', spoiled \subseteq spoiled', UNCHANGED folders,
           \A q \in Proc : Inside(q) \/ Inside(q)' => session'[q] = session[q],
           meta # NoMeta => meta' # NoMeta /\ meta'.rev = meta.rev
    PROVE  RecipeInv' /\ AnswersWell
<1>1. AnswersWell
  BY DEF AnswersWell, Inside, Idle
<1>2. Steady' => Steady
  BY DEF Steady, Stands
<1>3. (Sound => Sound') /\ (SourcesFit => SourcesFit')
  BY DEF Sound, SourcesFit, HasRecipe, folders
<1>4. \A q \in Proc : Inside(q) <=> Inside(q)'
  BY DEF Inside
<1>5. ASSUME NEW q \in Proc, Inside(q), Work(q) PROVE Work(q)'
  <2>1. session'[q] = session[q] /\ export' = export /\ sources' = sources
    BY <1>5 DEF folders
  <2>2. HasRecipe' = HasRecipe
    BY <2>1 DEF HasRecipe
  <2>3. Sound /\ HasRecipe => meta'.rev = meta.rev
    BY DEF Sound
  <2> QED
    BY <1>3, <1>5, <2>1, <2>2, <2>3 DEF Work
<1> QED
  BY <1>1, <1>2, <1>3, <1>4, <1>5 DEF RecipeInv, AtRest

LEMMA RestBefore ==
    ASSUME RecipeInv, Steady', spoiled \subseteq spoiled',
           \A q \in Proc : ~Inside(q)
    PROVE  Sound /\ SourcesFit
BY DEF RecipeInv, AtRest, Steady, Stands

\* A command begins with a new session.
LEMMA SessionBegins ==
    ASSUME ShapeOK, NEW p \in Proc, NEW t, session' = [session EXCEPT ![p] = t],
           IsRecord(t, CommandFields), t.step \notin {"idle", "save", "sweep"},
           UNCHANGED meta, answer' = [answer EXCEPT ![p] = 0]
    PROVE  ShapeOK' /\ session'[p] = t
           /\ \A q \in Proc \ {p} : session'[q] = session[q]
<1>1. IsRecord(answer', Proc) /\ (meta' = NoMeta \/ IsRecord(meta', {"rev", "remote"}))
  BY DEF ShapeOK, IsRecord
<1> QED
  BY <1>1, CommandGoesOn

LEMMA BeginKeeps ==
    ASSUME RecipeInv, NEW p \in Proc,
           StartInstall(p) \/ StartSources(p) \/ StartDownload(p)
    PROVE  RecipeInv' /\ AnswersWell
<1>0. ShapeOK /\ UNCHANGED <<meta, folders>> /\ session[p] = Idle /\ ~Inside(p)
  BY DEF RecipeInv, StartInstall, StartSources, StartDownload, Begin, MayBegin, Inside, Idle
<1>1. PICK t : /\ Begin(p, t) /\ IsRecord(t, CommandFields)
               /\ \/ t.step = "enter"
                  \/ t.step = "await" /\ HasRecipe /\ t.rev = meta.rev
                  \/ t.step = "clear" /\ t.found = 0
  <2>1. CASE StartInstall(p)
    <3>1. PICK selected, update, want :
            Begin(p, [Command("install", "enter", remotes, selected, want)
                        EXCEPT !.update = update])
      BY <2>1 DEF StartInstall
    <3> DEFINE t == [Command("install", "enter", remotes, selected, want)
                       EXCEPT !.update = update]
    <3>2. IsRecord(t, CommandFields) /\ t.step = "enter"
      BY DEF Command, IsRecord, CommandFields
    <3> QED
      BY <3>1, <3>2
  <2>2. CASE StartSources(p)
    <3> DEFINE t == [Command("sources", "await", remotes, None, 0) EXCEPT !.rev = meta.rev]
    <3>1. IsRecord(t, CommandFields) /\ t.step = "await" /\ t.rev = meta.rev
      BY DEF Command, IsRecord, CommandFields
    <3>2. Begin(p, t) /\ HasRecipe
      BY <2>2 DEF StartSources
    <3> QED
      BY <3>1, <3>2
  <2>3. CASE StartDownload(p)
    <3>1. PICK selected \in Names(remotes) :
            Begin(p, [Command("download", "clear", remotes, selected, 0)
                        EXCEPT !.todo = <<selected>>])
      BY <2>3 DEF StartDownload
    <3> DEFINE t == [Command("download", "clear", remotes, selected, 0)
                       EXCEPT !.todo = <<selected>>]
    <3>2. IsRecord(t, CommandFields) /\ t.step = "clear" /\ t.found = 0
      BY DEF Command, IsRecord, CommandFields
    <3> QED
      BY <3>1, <3>2
  <2> QED
    BY <2>1, <2>2, <2>3
<1>2. /\ session' = [session EXCEPT ![p] = t] /\ answer' = [answer EXCEPT ![p] = 0]
      /\ spoiled \subseteq spoiled'
      /\ t.step # "enter" => Overlap(p) \subseteq spoiled'
  BY <1>1 DEF Begin
<1>3. t.step \notin {"idle", "save", "sweep"}
  BY <1>1
<1>4. ShapeOK' /\ session'[p] = t /\ \A q \in Proc \ {p} : session'[q] = session[q]
  BY <1>0, <1>1, <1>2, <1>3, SessionBegins
<1>5. CASE t.step = "enter"
  <2>1. ~Inside(p)'
    BY <1>4, <1>5 DEF Inside
  <2> QED
    BY <1>0, <1>2, <1>4, <2>1, OutsideKeeps
<1>6. CASE t.step # "enter"
  <2>1. Steady' => \A q \in Proc : ~Inside(q)
    BY <1>0, <1>2, <1>6 DEF Overlap, Others, Steady, Stands
  <2>2. Steady' => Sound /\ SourcesFit
    BY <1>2, <2>1, RestBefore
  <2>3. Sound => Sound'
    BY <1>0 DEF Sound, HasRecipe, folders
  <2>4. SourcesFit => SourcesFit'
    BY <1>0, <1>2 DEF SourcesFit, HasRecipe, folders
  <2>5. Steady' => Work(p)' /\ Inside(p)'
    BY <1>0, <1>1, <1>4, <1>6, <2>2, <2>3, <2>4 DEF Work, Inside, HasRecipe, folders
  <2> QED
    BY <1>0, <1>2, <1>4, <2>1, <2>5, StepKeeps
<1> QED
  BY <1>5, <1>6

LEMMA EnterKeeps ==
    ASSUME RecipeInv, NEW p \in Proc, Enter(p)
    PROVE  RecipeInv' /\ AnswersWell
<1> DEFINE s == session[p]
           found == IF s.update /\ s.want = 0 /\ HasRecipe THEN export.rev ELSE 0
           t == [s EXCEPT !.step = IF s.step = "await" THEN "complete" ELSE "look",
                          !.found = found]
<1>0. /\ ShapeOK /\ UNCHANGED <<meta, folders, answer>> /\ s.step \in {"enter", "await"}
      /\ CommandAt(p) /\ spoiled \subseteq spoiled' /\ Overlap(p) \subseteq spoiled'
  BY DEF RecipeInv, Enter, CommandAt
<1>1. session' = [session EXCEPT ![p] = t]
  BY DEF Enter
<1>2. /\ IsRecord(t, CommandFields) /\ t.found = found /\ t.rev = s.rev /\ t.want = s.want
      /\ t.step = IF s.step = "await" THEN "complete" ELSE "look"
  BY <1>0, CommandIsRecord DEF IsRecord, CommandFields
<1>3. IsRecord(answer', Proc) /\ (meta' = NoMeta \/ IsRecord(meta', {"rev", "remote"}))
  BY <1>0 DEF ShapeOK
<1>4. found # 0 => HasRecipe /\ s.want = 0
  OBVIOUS
<1> HIDE DEF t, found
<1>5. ShapeOK' /\ session'[p] = t /\ \A q \in Proc \ {p} : session'[q] = session[q]
  BY <1>0, <1>1, <1>2, <1>3, CommandGoesOn
<1>6. Steady' => \A q \in Proc \ {p} : ~Inside(q)
  BY <1>0 DEF Overlap, Others, Steady, Stands
<1>7. Steady' => Sound /\ SourcesFit /\ (Inside(p) => Work(p))
  <2>1. CASE Inside(p)
    BY <1>0, <2>1, InsideAlone DEF Work, Inside, Steady, Stands
  <2>2. CASE ~Inside(p)
    BY <1>0, <1>6, <2>2, RestBefore
  <2> QED
    BY <2>1, <2>2
<1>8. (Sound => Sound') /\ (SourcesFit => SourcesFit')
  BY <1>0 DEF Sound, SourcesFit, HasRecipe, folders
<1>9. Steady' => Work(p)'
  BY <1>0, <1>2, <1>4, <1>5, <1>7, <1>8 DEF Work, Inside, HasRecipe, folders, Sound
<1>10. Inside(p)' /\ session'[p] # Idle
  BY <1>2, <1>5 DEF Inside, Idle
<1> QED
  BY <1>0, <1>5, <1>6, <1>9, <1>10, StepKeeps

LEMMA WriterKeeps ==
    ASSUME RecipeInv, NEW p \in Proc, StartExport(p) \/ StartRemove(p)
    PROVE  RecipeInv' /\ AnswersWell
<1>1. PICK t : /\ session' = [session EXCEPT ![p] = t]
               /\ IsRecord(t, CommandFields) /\ t.step \in {"wait", "base"}
  <2>1. CASE StartExport(p)
    <3>1. PICK r : session' = [session EXCEPT ![p] =
                     [Command("export", "wait", <<>>, None, 0) EXCEPT !.rev = r]]
      BY <2>1 DEF StartExport
    <3> DEFINE t == [Command("export", "wait", <<>>, None, 0) EXCEPT !.rev = r]
    <3>2. IsRecord(t, CommandFields) /\ t.step = "wait"
      BY DEF Command, IsRecord, CommandFields
    <3> QED
      BY <3>1, <3>2
  <2>2. CASE StartRemove(p)
    <3> DEFINE t == Command("remove", "base", <<>>, None, 0)
    <3>1. IsRecord(t, CommandFields) /\ t.step = "base"
      BY DEF Command, IsRecord, CommandFields
    <3>2. session' = [session EXCEPT ![p] = t]
      BY <2>2 DEF StartRemove
    <3> HIDE DEF t
    <3> QED
      BY <3>1, <3>2
  <2> QED
    BY <2>1, <2>2
<1>2. /\ ShapeOK /\ UNCHANGED meta /\ answer' = [answer EXCEPT ![p] = 0]
      /\ spoiled \subseteq spoiled' /\ Overlap(p) \subseteq spoiled' /\ export' = NoFolder
      /\ session[p] = Idle
  BY DEF RecipeInv, StartExport, StartRemove, MayBegin
<1>3. ShapeOK' /\ session'[p] = t /\ \A q \in Proc \ {p} : session'[q] = session[q]
  BY <1>1, <1>2, SessionBegins
<1>4. Steady' => \A q \in Proc \ {p} : ~Inside(q)
  BY <1>2 DEF Overlap, Others, Steady, Stands
<1>5. Work(p)' /\ Inside(p)' /\ session'[p] # Idle
  BY <1>1, <1>3 DEF Work, Inside, Idle
<1> QED
  BY <1>2, <1>3, <1>4, <1>5, StepKeeps

LEMMA RegistryBegins ==
    ASSUME NEW p \in Proc, RegistryCommand(p)
    PROVE  \E t : /\ session' = [session EXCEPT ![p] = t]
                  /\ t.step \in {"save", "sweep"} /\ t.rest \in {<<>>, <<"save">>, <<"sweep">>}
                  /\ IsRecord(t, {"step", "rest", "table", "move"})
<1>1. \E table, move : \E todo \in {<<"save">>, <<"save", "sweep">>, <<"sweep", "save">>} :
        Change(p, table, move, todo)
  BY DEF RegistryCommand, AddRemote, UpdateRemote, ForceRemote, RemoveRemote, RenameRemote,
         ClearRemotes, DefineRemotes
<1>2. PICK table, move :
        \E todo \in {<<"save">>, <<"save", "sweep">>, <<"sweep", "save">>} :
          Change(p, table, move, todo)
  BY <1>1
<1>3. PICK todo \in {<<"save">>, <<"save", "sweep">>, <<"sweep", "save">>} :
        Change(p, table, move, todo)
  BY <1>2
<1> DEFINE t == [step |-> Head(todo), rest |-> Tail(todo), table |-> table, move |-> move]
<1>4. Head(todo) \in {"save", "sweep"} /\ Tail(todo) \in {<<>>, <<"save">>, <<"sweep">>}
  <2>1. CASE todo = <<"save">>
    BY <2>1
  <2>2. CASE todo = <<"save", "sweep">>
    BY <2>2
  <2>3. CASE todo = <<"sweep", "save">>
    BY <2>3
  <2> QED
    BY <2>1, <2>2, <2>3
<1>5. IsRecord(t, {"step", "rest", "table", "move"})
  BY DEF IsRecord
<1>6. session' = [session EXCEPT ![p] = t]
  BY <1>3 DEF Change
<1> QED
  BY <1>4, <1>5, <1>6

LEMMA RegistryKeeps ==
    ASSUME RecipeInv, NEW p \in Proc, ChangeRemotes(p) \/ Registry(p)
    PROVE  RecipeInv' /\ AnswersWell
<1>0. ShapeOK /\ spoiled \subseteq spoiled' /\ UNCHANGED <<folders, answer>>
  BY DEF RecipeInv, ChangeRemotes, Registry
<1>1. CASE ChangeRemotes(p)
  <2>1. PICK t : /\ session' = [session EXCEPT ![p] = t]
                 /\ t.step \in {"save", "sweep"}
                 /\ t.rest \in {<<>>, <<"save">>, <<"sweep">>}
                 /\ IsRecord(t, {"step", "rest", "table", "move"})
    BY <1>1, RegistryBegins DEF ChangeRemotes
  <2>2. UNCHANGED meta /\ session[p] = Idle
    BY <1>1 DEF ChangeRemotes, MayBegin
  <2>3. /\ IsRecord(session', Proc) /\ session'[p] = t
        /\ \A q \in Proc \ {p} : session'[q] = session[q]
    BY <1>0, <2>1 DEF ShapeOK, IsRecord
  <2>4. ShapeOK'
    BY <1>0, <2>1, <2>2, <2>3 DEF ShapeOK
  <2>5. ~Inside(p) /\ ~Inside(p)'
    BY <2>1, <2>2, <2>3 DEF Inside, Idle
  <2> QED
    BY <1>0, <2>2, <2>3, <2>4, <2>5, OutsideKeeps
<1>2. CASE Registry(p)
  <2> DEFINE s == session[p]
  <2>1. s.step \in {"save", "sweep"} /\ Continue(p)
    BY <1>2 DEF Registry, SaveRemotes, SweepMetadata
  <2>2. IsRecord(s, {"step", "rest", "table", "move"})
        /\ s.rest \in {<<>>, <<"save">>, <<"sweep">>}
    BY <1>0, <2>1 DEF ShapeOK, Idle
  <2>3. PICK t : /\ session' = [session EXCEPT ![p] = t]
                 /\ \/ t = Idle
                    \/ /\ t.step \in {"save", "sweep"} /\ t.rest = <<>>
                       /\ IsRecord(t, {"step", "rest", "table", "move"})
    <3>1. CASE s.rest = <<>>
      BY <2>1, <3>1 DEF Continue, Finish
    <3>2. CASE s.rest # <<>>
      <4> DEFINE t == [s EXCEPT !.step = Head(s.rest), !.rest = Tail(s.rest)]
      <4>1. Head(s.rest) \in {"save", "sweep"} /\ Tail(s.rest) = <<>>
        <5>1. CASE s.rest = <<"save">>
          BY <5>1
        <5>2. CASE s.rest = <<"sweep">>
          BY <5>2
        <5> QED
          BY <2>2, <3>2, <5>1, <5>2
      <4>2. /\ t.step = Head(s.rest) /\ t.rest = Tail(s.rest)
            /\ IsRecord(t, {"step", "rest", "table", "move"})
        BY <2>2 DEF IsRecord
      <4>3. session' = [session EXCEPT ![p] = t]
        BY <2>1, <3>2 DEF Continue
      <4> HIDE DEF t
      <4> QED
        BY <4>1, <4>2, <4>3
    <3> QED
      BY <3>1, <3>2
  <2>4. /\ IsRecord(session', Proc) /\ session'[p] = t
        /\ \A q \in Proc \ {p} : session'[q] = session[q]
    BY <1>0, <2>3 DEF ShapeOK, IsRecord
  <2>5. /\ meta' = NoMeta \/ IsRecord(meta', {"rev", "remote"})
        /\ meta # NoMeta => meta' # NoMeta /\ meta'.rev = meta.rev
    <3>1. CASE UNCHANGED meta
      BY <1>0, <3>1 DEF ShapeOK
    <3>2. CASE meta = NoMeta /\ meta' = [rev |-> 0, remote |-> None]
      BY <3>2 DEF IsRecord
    <3>3. CASE meta # NoMeta /\ \E r : meta' = [meta EXCEPT !.remote = r]
      <4>1. PICK r : meta' = [meta EXCEPT !.remote = r]
        BY <3>3
      <4>2. IsRecord(meta, {"rev", "remote"})
        BY <1>0, <3>3 DEF ShapeOK
      <4>3. IsRecord(meta', {"rev", "remote"}) /\ meta'.rev = meta.rev
        BY <4>1, <4>2 DEF IsRecord
      <4>4. meta' # NoMeta
        <5>1. "rev" \in DOMAIN meta' /\ "rev" \notin DOMAIN NoMeta
          BY <4>3 DEF IsRecord, NoMeta
        <5> QED
          BY <5>1
      <4> QED
        BY <4>3, <4>4
    <3>4. CASE SweepMetadata(p, InCache)
      <4> DEFINE r == IF meta.remote = None THEN None ELSE s.move[meta.remote]
      <4>1. \/ meta' = meta
            \/ meta = NoMeta /\ meta' = [rev |-> 0, remote |-> None]
            \/ meta # NoMeta /\ meta' = [meta EXCEPT !.remote = r]
        BY <3>4 DEF SweepMetadata
      <4> HIDE DEF r
      <4> QED
        BY <4>1, <3>1, <3>2, <3>3
    <3> QED
      BY <1>2, <3>1, <3>4 DEF Registry, SaveRemotes
  <2>6. ShapeOK'
    BY <1>0, <2>3, <2>4, <2>5 DEF ShapeOK
  <2>7. ~Inside(p) /\ ~Inside(p)'
    BY <2>1, <2>3, <2>4 DEF Inside, Idle
  <2> QED
    BY <1>0, <2>4, <2>5, <2>6, <2>7, OutsideKeeps
<1> QED
  BY <1>1, <1>2

LEMMA NextKeeps ==
    ASSUME RecipeInv, [Next]_vars
    PROVE  RecipeInv' /\ AnswersWell
<1>1. CASE UNCHANGED <<session, meta, folders, answer, spoiled>>
  <2>1. ShapeOK'
    BY <1>1 DEF RecipeInv, ShapeOK
  <2> QED
    BY <1>1, <2>1, OutsideKeeps
<1>2. CASE Publish
  BY <1>1, <1>2 DEF Publish
<1>3. CASE UNCHANGED vars
  BY <1>1, <1>3 DEF vars
<1>4. ASSUME NEW p \in Proc,
             \/ ChangeRemotes(p) \/ Registry(p)
             \/ StartInstall(p) \/ StartSources(p) \/ Enter(p) \/ Seek(p)
             \/ SeekDifferent(p) \/ UseCached(p) \/ AskManifest(p) \/ Compare(p)
             \/ RemoveOld(p) \/ Refuse(p) \/ Clear(p) \/ Receive(p) \/ Unzip(p) \/ Record(p)
             \/ RecordRemote(p) \/ Break(p) \/ SourcesThere(p) \/ FetchSources(p)
             \/ StartExport(p) \/ EnterExport(p) \/ CopyRecipe(p) \/ SignRecipe(p)
             \/ ReviseMetadata(p) \/ StartDownload(p) \/ StartRemove(p) \/ RemoveBase(p)
      PROVE  RecipeInv' /\ AnswersWell
  BY <1>4, RegistryKeeps, BeginKeeps, EnterKeeps, LookKeeps, FetchKeeps, BreakKeeps,
     CompleteKeeps, WriterKeeps, ExportKeeps, RemoveKeeps
<1> QED
  BY <1>2, <1>3, <1>4 DEF Next

LEMMA InitKeeps == Init => RecipeInv
<1> SUFFICES ASSUME Init PROVE RecipeInv
  OBVIOUS
<1>1. ShapeOK
  BY DEF Init, ShapeOK, IsRecord
<1>2. \A p \in Proc : ~Inside(p)
  BY DEF Init, Inside, Idle
<1>3. Sound /\ SourcesFit
  BY NoFolderIsNothing DEF Init, Sound, SourcesFit, HasRecipe
<1> QED
  BY <1>1, <1>2, <1>3 DEF RecipeInv

LEMMA SpecKeeps == Spec => []RecipeInv
<1>1. RecipeInv /\ [Next]_vars => RecipeInv'
  BY NextKeeps
<1> QED
  BY InitKeeps, <1>1, PTL DEF Spec

\* The revision in the metadata is the one of the export folder, whichever commands came
\* one after the other and whichever of them failed.
THEOREM RecordFits == Spec => []RecordFitsRecipe
<1>1. RecipeInv => RecordFitsRecipe
  BY DEF RecipeInv, RecordFitsRecipe, Steady, Sound, Whole
<1> QED
  BY SpecKeeps, <1>1, PTL

\* The exported sources are those of the recipe beside them, if no download has put
\* another revision over them.
THEOREM SourcesFitTheRecipe == Spec => []SourcesFitRecipe
<1>1. RecipeInv => SourcesFitRecipe
  BY DEF RecipeInv, SourcesFitRecipe, Steady, Stands, SourcesFit
<1> QED
  BY SpecKeeps, <1>1, PTL

\* An installation answers the revision that is in the export folder, whole, when it
\* answers, though it may have read it from the metadata or from a remote before.
THEOREM InstallAnswersWell == Spec => InstallGivesRecipe
<1> DEFINE Gives == Steady => \A p \in Proc : Answers(p, "install") =>
                      export' = Whole(answer'[p])
<1>1. RecipeInv /\ [Next]_vars => [Gives]_vars
  BY NextKeeps DEF AnswersWell, Answers
<1> QED
  BY SpecKeeps, <1>1, PTL DEF Spec, InstallGivesRecipe, Steady

----------------------------------------------------------------------------
(* Tables of remotes. *)

\* An entry, what it is called and where it leads.
Leads(table, n, u) == \E i \in DOMAIN table : table[i].name = n /\ table[i].url = u

LEMMA TableIs ==
    ASSUME NEW table, IsTable(table)
    PROVE  /\ table \in Seq(Entry)
           /\ Len(table) \in Nat /\ DOMAIN table = 1..Len(table)
           /\ \A i \in DOMAIN table : table[i] \in Entry
           /\ \A i, j \in DOMAIN table : table[i].name = table[j].name => i = j
<1>1. table \in Seq(Entry)
  BY DEF IsTable
<1>2. Len(table) \in Nat /\ DOMAIN table = 1..Len(table)
  BY <1>1
<1>3. \A i \in DOMAIN table : table[i] \in Entry
  BY <1>1, <1>2
<1> QED BY <1>1, <1>2, <1>3, Zenon DEF IsTable

LEMMA TableHas ==
    ASSUME NEW table, IsTable(table)
    PROVE  /\ Len(table) \in Nat /\ DOMAIN table = 1..Len(table) /\ Names(table) \subseteq Name
           /\ \A i \in DOMAIN table : table[i] = Remote(table[i].name, table[i].url)
                                      /\ table[i].name \in Name /\ table[i].url \in Url
           /\ \A n \in Names(table) : UrlOf(table, n) \in Url
                /\ Leads(table, n, UrlOf(table, n))
           /\ \A n, u : Leads(table, n, u) => n \in Names(table) /\ UrlOf(table, n) = u
<1>1. \A i, j \in DOMAIN table : table[i].name = table[j].name => i = j
  BY TableIs
<1>2. /\ Len(table) \in Nat /\ DOMAIN table = 1..Len(table)
      /\ \A i \in DOMAIN table : table[i] \in Entry
  BY TableIs
<1>3. \A i \in DOMAIN table : table[i] = Remote(table[i].name, table[i].url)
                              /\ table[i].name \in Name /\ table[i].url \in Url
  BY <1>2 DEF Remote, Entry
<1>4. Names(table) \subseteq Name
  BY <1>3 DEF Names
<1>5. ASSUME NEW i \in DOMAIN table PROVE UrlOf(table, table[i].name) = table[i].url
  <2> DEFINE r == CHOOSE r \in {table[j] : j \in DOMAIN table} : r.name = table[i].name
  <2>1. r \in {table[j] : j \in DOMAIN table} /\ r.name = table[i].name
    BY <1>5
  <2>2. PICK j \in DOMAIN table : r = table[j]
    BY <2>1
  <2>3. r = table[i]
    BY <1>1, <1>5, <2>1, <2>2
  <2> QED BY <2>3 DEF UrlOf
<1>6. \A n, u : Leads(table, n, u) => n \in Names(table) /\ UrlOf(table, n) = u
  BY <1>5 DEF Leads, Names
<1>7. \A n \in Names(table) : UrlOf(table, n) \in Url /\ Leads(table, n, UrlOf(table, n))
  BY <1>3, <1>5 DEF Leads, Names
<1> QED BY <1>2, <1>3, <1>4, <1>6, <1>7

\* Places are counted without a gap.
LEMMA RankIs ==
    ASSUME NEW P \in SUBSET Nat, IsFiniteSet(P)
    PROVE  /\ Cardinality(P) \in Nat
           /\ \A i \in P : Cardinality(UpTo(P, i)) \in 1..Cardinality(P)
           /\ \A n \in 1..Cardinality(P) : \E i \in P : Cardinality(UpTo(P, i)) = n
           /\ \A i, k \in P :
                Cardinality(UpTo(P, i)) = Cardinality(UpTo(P, k)) => i = k
<1> DEFINE rank == [i \in P |-> Cardinality(UpTo(P, i))]
<1>1. Cardinality(P) \in Nat
  BY FS_CardinalityType
<1>2. ASSUME NEW i \in P PROVE IsFiniteSet(UpTo(P, i))
          /\ Cardinality(UpTo(P, i)) \in 1..Cardinality(P)
  <2>1. UpTo(P, i) \in SUBSET P
    BY DEF UpTo
  <2>2. IsFiniteSet(UpTo(P, i)) /\ Cardinality(UpTo(P, i)) <= Cardinality(P)
    BY <2>1, FS_Subset
  <2>3. i \in UpTo(P, i)
    BY DEF UpTo
  <2>4. Cardinality(UpTo(P, i)) \in Nat /\ Cardinality(UpTo(P, i)) # 0
    BY <2>2, <2>3, FS_CardinalityType, FS_EmptySet
  <2> QED BY <1>1, <2>2, <2>4
<1>3. ASSUME NEW i \in P, NEW k \in P, i < k
      PROVE Cardinality(UpTo(P, i)) < Cardinality(UpTo(P, k))
  <2>1. UpTo(P, i) \in SUBSET UpTo(P, k) /\ k \in UpTo(P, k) /\ k \notin UpTo(P, i)
    <3>1. i \in Nat /\ k \in Nat /\ \A j \in P : j \in Nat
      OBVIOUS
    <3>2. \A j \in P : j <= i => j <= k
      BY <1>3, <3>1
    <3>3. ~(k <= i) /\ k <= k
      BY <1>3, <3>1
    <3> QED BY <3>2, <3>3 DEF UpTo
  <2>2. Cardinality(UpTo(P, i)) <= Cardinality(UpTo(P, k))
            /\ Cardinality(UpTo(P, k)) # Cardinality(UpTo(P, i))
    BY <1>2, <2>1, FS_Subset
  <2> QED BY <1>2, <2>2
<1>4. ASSUME NEW i \in P, NEW k \in P, Cardinality(UpTo(P, i)) = Cardinality(UpTo(P, k))
      PROVE i = k
  <2>1. i \in Nat /\ k \in Nat /\ Cardinality(UpTo(P, i)) \in Nat
            /\ Cardinality(UpTo(P, k)) \in Nat
    BY <1>2
  <2>2. ~(i < k) /\ ~(k < i)
    BY <1>3, <1>4, <2>1
  <2> QED BY <2>1, <2>2
<1>5. rank \in Surjection(P, 1..Cardinality(P))
  <2>1. rank \in Injection(P, 1..Cardinality(P))
    BY <1>2, <1>4 DEF Injection, IsInjective
  <2>2. IsFiniteSet(1..Cardinality(P)) /\ Cardinality(1..Cardinality(P)) = Cardinality(P)
    BY <1>1, FS_Interval
  <2> HIDE DEF rank
  <2> QED BY <2>1, <2>2, FS_Injection
<1>6. ASSUME NEW n \in 1..Cardinality(P) PROVE \E i \in P : Cardinality(UpTo(P, i)) = n
  BY <1>5 DEF Surjection
<1> QED BY <1>1, <1>2, <1>4, <1>6

\* A part of a table.
LEMMA EntriesAre ==
    ASSUME NEW table, IsTable(table), NEW P \in SUBSET DOMAIN table,
           NEW e, e = Entries(table, P)
    PROVE  /\ IsTable(e)
           /\ \A n, u : Leads(e, n, u) <=> \E i \in P : table[i].name = n /\ table[i].url = u
<1> DEFINE N == Cardinality(P)
           at(n) == CHOOSE i \in P : Cardinality(UpTo(P, i)) = n
<1>1. /\ Len(table) \in Nat /\ DOMAIN table = 1..Len(table)
      /\ \A i \in DOMAIN table : table[i] \in Entry
      /\ \A i, j \in DOMAIN table : table[i].name = table[j].name => i = j
  BY TableIs
<1>2. P \in SUBSET Nat /\ IsFiniteSet(P)
  <2>1. IsFiniteSet(1..Len(table))
    BY <1>1, FS_Interval
  <2> QED BY <1>1, <2>1, FS_Subset
<1>3. N \in Nat /\ \A n \in 1..N : at(n) \in P /\ Cardinality(UpTo(P, at(n))) = n
  BY <1>2, RankIs
<1>4. \A i \in P : \E n \in 1..N : at(n) = i
  <2> SUFFICES ASSUME NEW i \in P PROVE \E n \in 1..N : at(n) = i
    OBVIOUS
  <2>1. PICK n \in 1..N : n = Cardinality(UpTo(P, i))
    BY <1>2, RankIs
  <2>2. at(n) \in P /\ Cardinality(UpTo(P, at(n))) = Cardinality(UpTo(P, i))
    BY <1>3, <2>1
  <2>3. at(n) = i
    BY <1>2, <2>2, RankIs
  <2> QED BY <2>3
<1>5. \A m, n \in 1..N : at(m) = at(n) => m = n
  BY <1>3
<1>6. e = [n \in 1..N |-> table[at(n)]]
  BY DEF Entries
<1> HIDE DEF N, at
<1>7. e \in Seq(Entry) /\ DOMAIN e = 1..N
  BY <1>1, <1>3, <1>6
<1>8. \A m, n \in DOMAIN e : e[m].name = e[n].name => m = n
  BY <1>1, <1>3, <1>5, <1>6, <1>7
<1>9. ASSUME NEW n, NEW u
      PROVE  Leads(e, n, u) <=> \E i \in P : table[i].name = n /\ table[i].url = u
  BY <1>3, <1>4, <1>6 DEF Leads
<1> QED BY <1>7, <1>8, <1>9 DEF IsTable

\* One entry more, at an end, ...
More(e, table, m, v) == e = Append(table, Remote(m, v)) \/ e = <<Remote(m, v)>> \o table
LEMMA OneMore ==
    ASSUME NEW table, IsTable(table), NEW m \in Name, NEW v \in Url, m \notin Names(table),
           NEW e, More(e, table, m, v)
    PROVE  /\ IsTable(e)
           /\ \A n, u : Leads(e, n, u) <=> Leads(table, n, u) \/ (n = m /\ u = v)
<1>1. /\ Len(table) \in Nat /\ DOMAIN table = 1..Len(table) /\ table \in Seq(Entry)
      /\ \A i \in DOMAIN table : table[i] \in Entry
      /\ \A i, j \in DOMAIN table : table[i].name = table[j].name => i = j
  BY TableIs
<1>2. Remote(m, v) \in Entry /\ Remote(m, v).name = m /\ Remote(m, v).url = v
  BY DEF Remote, Entry
<1>3. PICK r : r = Remote(m, v)
  OBVIOUS
<1>4. \A i \in DOMAIN table : table[i].name # m
  BY DEF Names
<1>5. CASE e = Append(table, Remote(m, v))
  <2>1. /\ e \in Seq(Entry) /\ DOMAIN e = 1..(Len(table) + 1)
        /\ e[Len(table) + 1] = r /\ \A i \in DOMAIN table : e[i] = table[i]
    BY <1>1, <1>2, <1>3, <1>5
  <2>2. \A i, j \in DOMAIN e : e[i].name = e[j].name => i = j
    BY <1>1, <1>2, <1>3, <1>4, <2>1
  <2>3. \A n, u : Leads(e, n, u) <=> Leads(table, n, u) \/ (n = m /\ u = v)
    BY <1>1, <1>2, <1>3, <2>1 DEF Leads
  <2> QED BY <2>1, <2>2, <2>3 DEF IsTable
<1>6. CASE e = <<Remote(m, v)>> \o table
  <2>1. /\ e \in Seq(Entry) /\ DOMAIN e = 1..(Len(table) + 1)
        /\ e[1] = r /\ \A i \in 2..(Len(table) + 1) : e[i] = table[i - 1]
    BY <1>1, <1>2, <1>3, <1>6
  <2>2. ASSUME NEW i \in DOMAIN e, NEW j \in DOMAIN e, e[i].name = e[j].name PROVE i = j
    <3>1. \A k \in DOMAIN e : k # 1 => k - 1 \in DOMAIN table /\ e[k] = table[k - 1]
      BY <1>1, <2>1
    <3>2. CASE i = 1 \/ j = 1
      BY <1>2, <1>3, <1>4, <2>1, <2>2, <3>1, <3>2
    <3>3. CASE i # 1 /\ j # 1
      BY <1>1, <2>1, <2>2, <3>1, <3>3
    <3> QED BY <3>2, <3>3
  <2>3. ASSUME NEW n, NEW u PROVE Leads(e, n, u) <=> Leads(table, n, u) \/ (n = m /\ u = v)
    <3>1. ASSUME Leads(e, n, u) PROVE Leads(table, n, u) \/ (n = m /\ u = v)
      <4>1. PICK i \in DOMAIN e : e[i].name = n /\ e[i].url = u
        BY <3>1 DEF Leads
      <4>2. CASE i = 1
        BY <1>2, <1>3, <2>1, <4>1, <4>2
      <4>3. CASE i # 1
        <5>1. i - 1 \in DOMAIN table /\ e[i] = table[i - 1]
          BY <1>1, <2>1, <4>1, <4>3
        <5> QED BY <4>1, <5>1 DEF Leads
      <4> QED BY <4>2, <4>3
    <3>2. ASSUME NEW i \in DOMAIN table, table[i].name = n, table[i].url = u
          PROVE Leads(e, n, u)
      <4>1. i + 1 \in DOMAIN e /\ e[i + 1] = table[i]
        BY <1>1, <2>1
      <4> QED BY <3>2, <4>1 DEF Leads
    <3>3. ASSUME n = m, u = v PROVE Leads(e, n, u)
      <4>1. 1 \in DOMAIN e
        BY <1>1, <2>1
      <4> QED BY <1>2, <1>3, <2>1, <3>3, <4>1 DEF Leads
    <3> QED BY <3>1, <3>2, <3>3 DEF Leads
  <2> QED BY <2>1, <2>2, <2>3 DEF IsTable
<1> QED BY <1>5, <1>6 DEF More

\* ... or one entry replaced, by another name or another URL.
LEMMA OneReplaced ==
    ASSUME NEW table, IsTable(table), NEW k \in DOMAIN table, NEW m \in Name, NEW v \in Url,
           m = table[k].name \/ m \notin Names(table),
           NEW e, e = [i \in DOMAIN table |-> IF i = k THEN Remote(m, v) ELSE table[i]]
    PROVE  /\ IsTable(e)
           /\ \A n, u : Leads(e, n, u) <=>
                (Leads(table, n, u) /\ n # table[k].name) \/ (n = m /\ u = v)
<1>1. /\ Len(table) \in Nat /\ DOMAIN table = 1..Len(table) /\ table \in Seq(Entry)
      /\ \A i \in DOMAIN table : table[i] \in Entry
      /\ \A i, j \in DOMAIN table : table[i].name = table[j].name => i = j
  BY TableIs
<1>2. Remote(m, v) \in Entry /\ Remote(m, v).name = m /\ Remote(m, v).url = v
  BY DEF Remote, Entry
<1>3. PICK r : r = Remote(m, v)
  OBVIOUS
<1>4. e \in Seq(Entry) /\ DOMAIN e = DOMAIN table
  BY <1>1, <1>2
<1>5. e[k] = r /\ \A i \in DOMAIN table : i # k => e[i] = table[i]
  BY <1>3
<1>6. \A i \in DOMAIN table : i # k => table[i].name # m
  BY <1>1 DEF Names
<1>7. \A i, j \in DOMAIN e : e[i].name = e[j].name => i = j
  BY <1>1, <1>2, <1>3, <1>4, <1>5, <1>6
<1>8. ASSUME NEW n, NEW u
      PROVE  Leads(e, n, u) <=> (Leads(table, n, u) /\ n # table[k].name) \/ (n = m /\ u = v)
  BY <1>1, <1>2, <1>3, <1>4, <1>5, <1>6 DEF Leads
<1> QED BY <1>4, <1>7, <1>8 DEF IsTable

\* There is a last one, unless there is none.
LEMMA GreatestPlace ==
    ASSUME NEW P \in SUBSET Nat, IsFiniteSet(P), P # {}
    PROVE  \E i \in P : \A j \in P : j <= i
<1>1. Cardinality(P) \in Nat /\ Cardinality(P) # 0
  BY FS_CardinalityType, FS_EmptySet
<1>2. PICK i \in P : Cardinality(UpTo(P, i)) = Cardinality(P)
  BY <1>1, RankIs
<1>3. UpTo(P, i) \in SUBSET P
  BY DEF UpTo
<1>4. UpTo(P, i) = P
  BY <1>2, <1>3, FS_Subset
<1> QED BY <1>4 DEF UpTo

----------------------------------------------------------------------------
(* What a process has in memory, and what is so of the remotes. *)

\* What a command has in memory: it knows the remotes it has loaded, and looks for the
\* recipe in some of them.
Uses(s) ==
    /\ s.step \notin {"idle", "save", "sweep"}
    /\ s.op \in {"install", "sources", "download"}
Looks == {"compare", "remove", "clear", "receive", "unzip", "record", "remote"}
Listed(todo, table) ==
    /\ todo \in Seq(Name) /\ todo # <<>>
    /\ \A i \in DOMAIN todo : todo[i] \in Names(table)
CommandOK(s) ==
    /\ s.step \notin {"idle", "save", "sweep"} /\ IsRecord(s, CommandFields)
    /\ {s.rev, s.want, s.found} \subseteq 0..MaxRevisions
    /\ \/ s.step \in {"wait", "copy", "sign", "revise"} /\ s.op = "export"
       \/ s.step = "base" /\ s.op = "remove"
       \/ /\ s.step \in {"enter", "await", "look", "complete"} \union Looks
          /\ s.op \in {"install", "sources", "download"}
          /\ s.step \in {"await", "complete"} => s.op # "install"
          /\ IsTable(s.table) /\ s.selected \in Names(s.table) \union {None}
          /\ s.step \in Looks => Listed(s.todo, s.table)
ChangeOK(s) ==
    /\ IsRecord(s, {"step", "rest", "table", "move"})
    /\ \/ s.step = "save" /\ s.rest \in {<<>>, <<"sweep">>}
       \/ s.step = "sweep" /\ s.rest \in {<<>>, <<"save">>}
    /\ IsTable(s.table) /\ s.move \in [Name -> Name \union {None}]
SessionOK(s) == s = Idle \/ CommandOK(s) \/ ChangeOK(s)
TypeInv == TypeOK /\ IsRecord(session, Proc) /\ \A p \in Proc : SessionOK(session[p])

\* A recorded name leads to the server the recipe came from.
Fits(table, n) ==
    n # None => n \in Names(table) /\ ("moved" \notin spoiled => UrlOf(table, n) = origin)
\* What a change of the remotes will have made of the name when its writes are done.
Pending(s) ==
    IF s.step = "save" /\ s.rest = <<>> THEN Fits(s.table, Recorded)
    ELSE /\ Recorded # None => Fits(s.table, s.move[Recorded])
         /\ s.step = "sweep" /\ s.rest = <<>> => remotes = s.table
Linked ==
    Stands({"race", "dropped"}) =>
        /\ \A p, q \in Proc : p # q /\ InRegistry(p) => ~InRegistry(q) /\ ~Uses(session[q])
        /\ \A p \in Proc : Uses(session[p]) => session[p].table = remotes
        /\ (\A p \in Proc : ~InRegistry(p)) => Fits(remotes, Recorded)
        /\ \A p \in Proc : InRegistry(p) => Pending(session[p])

\* An update knows a revision that is not older than the one it found.
Newer(s) ==
    s.found # 0 =>
        /\ s.step \in {"look", "compare"} => s.found = export.rev
        /\ s.step \in {"remove", "receive", "unzip", "record", "remote"} => s.rev >= s.found
        /\ s.step = "clear" => s.want >= s.found
NoOlder == Steady => \A p \in Proc : Inside(p) => Newer(session[p])
----------------------------------------------------------------------------
(* What a change of the remotes makes of them. *)

LEMMA WithoutIs ==
    ASSUME NEW table, IsTable(table), NEW n, NEW e, e = Without(table, n)
    PROVE  /\ IsTable(e)
           /\ \A m, v : Leads(e, m, v) <=> Leads(table, m, v) /\ m # n
<1>1. PICK P : P = {i \in DOMAIN table : table[i].name # n}
  OBVIOUS
<1>2. P \in SUBSET DOMAIN table /\ e = Entries(table, P)
  BY <1>1 DEF Without
<1>3. /\ IsTable(e)
      /\ \A m, v : Leads(e, m, v) <=> \E i \in P : table[i].name = m /\ table[i].url = v
  BY <1>2, EntriesAre
<1> QED BY <1>1, <1>3 DEF Leads

LEMMA PlacedIs ==
    ASSUME NEW table, IsTable(table), NEW n \in Name, NEW u \in Url, NEW inFront,
           NEW e, e = Placed(table, Remote(n, u), inFront)
    PROVE  /\ IsTable(e)
           /\ \A m, v : Leads(e, m, v) <=> (Leads(table, m, v) /\ m # n) \/ (m = n /\ v = u)
<1>0. Remote(n, u).name = n
  BY DEF Remote
<1>1. CASE inFront
  <2>1. PICK w : w = Without(table, n)
    OBVIOUS
  <2>2. /\ IsTable(w) /\ \A m, v : Leads(w, m, v) <=> Leads(table, m, v) /\ m # n
    BY <2>1, WithoutIs
  <2>3. n \notin Names(w)
    BY <2>2 DEF Names, Leads
  <2>4. More(e, w, n, u)
    BY <1>0, <1>1, <2>1 DEF Placed, More
  <2>5. /\ IsTable(e) /\ \A m, v : Leads(e, m, v) <=> Leads(w, m, v) \/ (m = n /\ v = u)
    BY <2>2, <2>3, <2>4, OneMore
  <2> QED BY <2>2, <2>5
<1>2. CASE ~inFront /\ n \in Names(table)
  <2>1. PICK k \in DOMAIN table : table[k].name = n
    BY <1>2 DEF Names
  <2>2. \A i \in DOMAIN table : table[i].name = n <=> i = k
    BY <2>1, TableIs
  <2>3. e = [i \in DOMAIN table |-> IF i = k THEN Remote(n, u) ELSE table[i]]
    BY <1>0, <1>2, <2>2 DEF Placed
  <2> QED BY <2>1, <2>3, OneReplaced
<1>3. CASE ~inFront /\ n \notin Names(table)
  <2>1. More(e, table, n, u)
    BY <1>0, <1>3 DEF Placed, More
  <2>2. \A m, v : Leads(table, m, v) => m # n
    BY <1>3 DEF Leads, Names
  <2> QED BY <1>3, <2>1, <2>2, OneMore
<1> QED BY <1>1, <1>2, <1>3

LEMMA EmptyIs ==
    /\ IsTable(<<>>) /\ \A m, v : ~Leads(<<>>, m, v)
<1>1. <<>> \in Seq(Entry) /\ DOMAIN <<>> = {}
  OBVIOUS
<1> QED BY <1>1 DEF IsTable, Leads

\* The table and the moves that a command begins with fit each other.
Changes(table, move, todo) ==
    /\ IsTable(table) /\ move \in [Name -> Name \union {None}]
    /\ \/ todo = <<"save">> /\ Names(remotes) \subseteq Names(table)
       \/ /\ todo \in {<<"save", "sweep">>, <<"sweep", "save">>}
          /\ ~Drops(table) =>
               \A n \in Names(remotes) : move[n] # None =>
                  /\ move[n] \in Names(table)
                  /\ ~Moves(table) => UrlOf(table, move[n]) = UrlOf(remotes, n)

LEMMA RegistryChanges ==
    ASSUME IsTable(remotes), NEW p \in Proc, RegistryCommand(p)
    PROVE  \E table, move, todo : Change(p, table, move, todo) /\ Changes(table, move, todo)
<1>0. /\ \A t : IsTable(t) => /\ Names(t) \subseteq Name
                              /\ \A n \in Names(t) : Leads(t, n, UrlOf(t, n))
                              /\ \A n, u : Leads(t, n, u) => n \in Names(t) /\ UrlOf(t, n) = u
      /\ Keep \in [Name -> Name \union {None}] /\ \A n \in Name : Keep[n] = n
  BY TableHas DEF Keep
<1>1. CASE AddRemote(p) \/ UpdateRemote(p)
  <2>1. PICK n \in Name, u \in Url, inFront \in BOOLEAN :
           Change(p, Placed(remotes, Remote(n, u), inFront), Keep, <<"save">>)
    BY <1>0, <1>1 DEF AddRemote, UpdateRemote
  <2>2. PICK e : e = Placed(remotes, Remote(n, u), inFront)
    OBVIOUS
  <2>3. /\ IsTable(e)
        /\ \A m, v : Leads(e, m, v) <=> (Leads(remotes, m, v) /\ m # n) \/ (m = n /\ v = u)
    BY <2>2, PlacedIs
  <2>4. Names(remotes) \subseteq Names(e)
    BY <1>0, <2>3
  <2>5. Changes(e, Keep, <<"save">>)
    BY <1>0, <2>3, <2>4 DEF Changes
  <2> QED BY <2>1, <2>2, <2>5
<1>2. CASE ForceRemote(p)
  <2>1. PICK n \in Name, u \in Url :
          LET others == {i \in DOMAIN remotes : remotes[i].name # n}
              sameUrl == {i \in others : remotes[i].url = u}
              last == CHOOSE i \in sameUrl : \A j \in sameUrl : j <= i
              table == Append(Entries(remotes, others \ sameUrl), Remote(n, u))
          IN  IF sameUrl = {}
              THEN Change(p, table, Keep, <<"save">>)
              ELSE Change(p, table, [Keep EXCEPT ![remotes[last].name] = n],
                          <<"save", "sweep">>)
    BY <1>2 DEF ForceRemote
  <2>2. PICK same : same = {i \in {j \in DOMAIN remotes : remotes[j].name # n} :
                                 remotes[i].url = u}
    OBVIOUS
  <2>3. PICK left : left = {i \in DOMAIN remotes : remotes[i].name # n} \ same
    OBVIOUS
  <2>4. PICK w : w = Entries(remotes, left)
    OBVIOUS
  <2>5. PICK e : e = Append(w, Remote(n, u))
    OBVIOUS
  <2>6. PICK last : last = CHOOSE i \in same : \A j \in same : j <= i
    OBVIOUS
  <2>7. IF same = {} THEN Change(p, e, Keep, <<"save">>)
        ELSE Change(p, e, [Keep EXCEPT ![remotes[last].name] = n], <<"save", "sweep">>)
    BY <2>1, <2>2, <2>3, <2>4, <2>5, <2>6
  <2>8. /\ IsTable(w)
        /\ \A m, v : Leads(w, m, v) <=> Leads(remotes, m, v) /\ m # n /\ v # u
    <3>1. left \in SUBSET DOMAIN remotes
      BY <2>3
    <3>2. /\ IsTable(w)
          /\ \A m, v : Leads(w, m, v) <=>
               \E i \in left : remotes[i].name = m /\ remotes[i].url = v
      BY <2>4, <3>1, EntriesAre
    <3> QED BY <2>2, <2>3, <3>2 DEF Leads
  <2>9. /\ IsTable(e)
        /\ \A m, v : Leads(e, m, v) <=>
             (Leads(remotes, m, v) /\ m # n /\ v # u) \/ (m = n /\ v = u)
    <3>1. n \notin Names(w) /\ More(e, w, n, u)
      BY <1>0, <2>5, <2>8 DEF More
    <3>2. /\ IsTable(e) /\ \A m, v : Leads(e, m, v) <=> Leads(w, m, v) \/ (m = n /\ v = u)
      BY <2>5, <2>8, <3>1, OneMore
    <3> QED BY <2>8, <3>2
  <2>10. CASE same = {}
    <3>1. Names(remotes) \subseteq Names(e)
      <4>1. ASSUME NEW m \in Names(remotes) PROVE m \in Names(e)
        <5>1. Leads(remotes, m, UrlOf(remotes, m))
          BY <1>0
        <5>2. m = n \/ UrlOf(remotes, m) # u
          BY <2>2, <2>10, <5>1 DEF Leads
        <5>3. Leads(e, m, IF m = n THEN u ELSE UrlOf(remotes, m))
          BY <2>9, <5>1, <5>2
        <5> QED BY <1>0, <2>9, <5>3
      <4> QED BY <4>1
    <3>2. Changes(e, Keep, <<"save">>)
      BY <1>0, <2>9, <3>1 DEF Changes
    <3> QED BY <2>7, <2>10, <3>2
  <2>11. CASE same # {}
    <3>0. PICK move : move = [Keep EXCEPT ![remotes[last].name] = n]
      OBVIOUS
    <3>1. last \in same
      <4>1. same \in SUBSET (1..Len(remotes)) /\ Len(remotes) \in Nat
        BY <2>2, TableHas
      <4>2. IsFiniteSet(same)
        <5>1. IsFiniteSet(1..Len(remotes))
          BY <4>1, FS_Interval
        <5> QED BY <4>1, <5>1, FS_Subset
      <4>3. \E i \in same : \A j \in same : j <= i
        BY <2>11, <4>1, <4>2, GreatestPlace
      <4> QED BY <2>6, <4>3
    <3>2. /\ Leads(remotes, remotes[last].name, u) /\ remotes[last].name # n
          /\ remotes[last].name \in Names(remotes)
      BY <2>2, <3>1, <1>0 DEF Leads
    <3>3. /\ move \in [Name -> Name \union {None}] /\ move[remotes[last].name] = n
          /\ \A m \in Name : m # remotes[last].name => move[m] = m
      BY <1>0, <3>0, <3>2
    <3>4. ASSUME ~Drops(e), NEW m \in Names(remotes), move[m] # None
          PROVE  /\ move[m] \in Names(e)
                 /\ ~Moves(e) => UrlOf(e, move[m]) = UrlOf(remotes, m)
      <4>0. Leads(remotes, m, UrlOf(remotes, m)) /\ m \in Name
        BY <1>0
      <4>1. Leads(e, n, u) /\ n \in Names(e) /\ UrlOf(e, n) = u
        BY <1>0, <2>9
      <4>2. CASE m = remotes[last].name
        <5>1. UrlOf(remotes, m) = u
          BY <1>0, <3>2, <4>2
        <5> QED BY <3>3, <4>1, <4>2, <5>1
      <4>3. CASE m # remotes[last].name
        <5>1. move[m] = m
          BY <3>3, <4>0, <4>3
        <5>2. m \in Names(e)
          <6>1. CASE m = n
            BY <4>1, <6>1
          <6>2. CASE m # n /\ UrlOf(remotes, m) # u
            BY <1>0, <2>9, <4>0, <6>2
          <6>3. CASE m # n /\ UrlOf(remotes, m) = u
            <7>1. PICK o : o = remotes[last].name
              OBVIOUS
            <7>2. UrlOf(remotes, o) = u /\ o \in Names(remotes) /\ m # o /\ o # n
              BY <1>0, <3>2, <4>3, <7>1
            <7>3. m \notin Names(e) /\ o \notin Names(e)
              <8>1. \A x \in Names(remotes) :
                      x # n /\ UrlOf(remotes, x) = u => x \notin Names(e)
                BY <1>0, <2>9
              <8> QED BY <6>3, <7>2, <8>1
            <7>4. HasUrl(e, u)
              BY <4>1 DEF Leads, HasUrl
            <7> QED BY <3>4, <6>3, <7>2, <7>3, <7>4 DEF Drops
          <6> QED BY <6>1, <6>2, <6>3
        <5> QED BY <5>1, <5>2 DEF Moves
      <4> QED BY <4>2, <4>3
    <3>5. Changes(e, move, <<"save", "sweep">>)
      BY <2>9, <3>3, <3>4 DEF Changes
    <3> QED BY <2>7, <2>11, <3>0, <3>5
  <2> QED BY <2>10, <2>11
<1>3. CASE RemoveRemote(p)
  <2>1. PICK n \in Names(remotes) :
           Change(p, Without(remotes, n), [Keep EXCEPT ![n] = None], <<"sweep", "save">>)
    BY <1>3 DEF RemoveRemote
  <2>2. PICK e : e = Without(remotes, n)
    OBVIOUS
  <2>3. PICK move : move = [Keep EXCEPT ![n] = None]
    OBVIOUS
  <2>4. IsTable(e) /\ \A m, v : Leads(e, m, v) <=> Leads(remotes, m, v) /\ m # n
    BY <2>2, WithoutIs
  <2>5. /\ move \in [Name -> Name \union {None}] /\ move[n] = None
        /\ \A m \in Name : m # n => move[m] = m
    BY <1>0, <2>3
  <2>6. ASSUME NEW m \in Names(remotes), move[m] # None
        PROVE  move[m] \in Names(e) /\ UrlOf(e, move[m]) = UrlOf(remotes, m)
    <3>1. m # n /\ move[m] = m /\ Leads(e, m, UrlOf(remotes, m))
      BY <1>0, <2>4, <2>5, <2>6
    <3> QED BY <1>0, <2>4, <3>1
  <2>7. Changes(e, move, <<"sweep", "save">>)
    BY <2>4, <2>5, <2>6 DEF Changes
  <2> QED BY <2>1, <2>2, <2>3, <2>7
<1>4. CASE RenameRemote(p)
  <2>1. PICK from \in Names(remotes), to \in Name \ Names(remotes) :
          Change(p, [i \in DOMAIN remotes |->
                       IF remotes[i].name = from THEN [remotes[i] EXCEPT !.name = to]
                       ELSE remotes[i]],
                 [Keep EXCEPT ![from] = to], <<"sweep", "save">>)
    BY <1>4 DEF RenameRemote
  <2>2. PICK e : e = [i \in DOMAIN remotes |->
                       IF remotes[i].name = from THEN [remotes[i] EXCEPT !.name = to]
                       ELSE remotes[i]]
    OBVIOUS
  <2>3. PICK move : move = [Keep EXCEPT ![from] = to]
    OBVIOUS
  <2>4. PICK k \in DOMAIN remotes : remotes[k].name = from
    BY DEF Names
  <2>5. PICK u \in Url : u = remotes[k].url /\ Leads(remotes, from, u)
            /\ remotes[k] = Remote(from, u)
    BY <2>4, TableHas DEF Leads
  <2>6. [remotes[k] EXCEPT !.name = to] = Remote(to, u)
    BY <2>5 DEF Remote
  <2>7. \A i \in DOMAIN remotes : remotes[i].name = from <=> i = k
    BY <2>4, TableIs
  <2>8. e = [i \in DOMAIN remotes |-> IF i = k THEN Remote(to, u) ELSE remotes[i]]
    BY <2>2, <2>6, <2>7
  <2>9. /\ IsTable(e)
        /\ \A m, v : Leads(e, m, v) <=> (Leads(remotes, m, v) /\ m # from) \/ (m = to /\ v = u)
    BY <2>4, <2>8, OneReplaced
  <2>10. /\ move \in [Name -> Name \union {None}] /\ move[from] = to
         /\ \A m \in Name : m # from => move[m] = m
    BY <1>0, <2>3
  <2>11. ASSUME NEW m \in Names(remotes)
         PROVE  move[m] \in Names(e) /\ UrlOf(e, move[m]) = UrlOf(remotes, m)
    <3>1. Leads(e, move[m], UrlOf(remotes, m))
      BY <1>0, <2>5, <2>9, <2>10
    <3> QED BY <1>0, <2>9, <3>1
  <2>12. Changes(e, move, <<"sweep", "save">>)
    BY <2>9, <2>10, <2>11 DEF Changes
  <2> QED BY <2>1, <2>2, <2>3, <2>12
<1>5. CASE ClearRemotes(p)
  <2>1. PICK move : move = [n \in Name |-> None]
    OBVIOUS
  <2>2. move \in [Name -> Name \union {None}] /\ \A n \in Name : move[n] = None
    BY <2>1
  <2>3. Changes(<<>>, move, <<"sweep", "save">>)
    BY <1>0, <2>2, EmptyIs DEF Changes
  <2> QED BY <1>5, <2>1, <2>3 DEF ClearRemotes
<1>6. CASE DefineRemotes(p)
  <2>1. PICK n \in Name, u \in Url :
          Change(p, <<Remote(n, u)>>, [m \in Name |-> IF m = n THEN n ELSE None],
                 <<"sweep", "save">>)
    BY <1>6 DEF DefineRemotes
  <2>2. PICK e : e = <<Remote(n, u)>>
    OBVIOUS
  <2>3. PICK move : move = [m \in Name |-> IF m = n THEN n ELSE None]
    OBVIOUS
  <2>4. IsTable(e) /\ \A m, v : Leads(e, m, v) <=> m = n /\ v = u
    <3>1. More(e, <<>>, n, u)
      BY <2>2 DEF More
    <3>2. n \notin Names(<<>>)
      BY EmptyIs, TableHas
    <3> QED BY <3>1, <3>2, EmptyIs, OneMore
  <2>5. /\ move \in [Name -> Name \union {None}] /\ move[n] = n
        /\ \A m \in Name : m # n => move[m] = None
    BY <2>3
  <2>6. n \in Names(e) /\ UrlOf(e, n) = u
    BY <1>0, <2>4
  <2>7. ASSUME NEW m \in Names(remotes), move[m] # None
        PROVE  /\ move[m] \in Names(e)
               /\ ~Moves(e) => UrlOf(e, move[m]) = UrlOf(remotes, m)
    <3>1. m = n
      BY <1>0, <2>5, <2>7
    <3> QED BY <2>5, <2>6, <2>7, <3>1 DEF Moves
  <2>8. Changes(e, move, <<"sweep", "save">>)
    BY <2>4, <2>5, <2>7 DEF Changes
  <2> QED BY <2>1, <2>2, <2>3, <2>8
<1> QED BY <1>1, <1>2, <1>3, <1>4, <1>5, <1>6 DEF RegistryCommand
----------------------------------------------------------------------------
(* What everything is made of. *)

Revision == 0..MaxRevisions
Folder == [rev : Revision, manifest : BOOLEAN, conanfile : BOOLEAN, whole : BOOLEAN]
Event == {"overlap", "race", "moved", "dropped", "switched", "part"}
RecipeTypes ==
    /\ meta \in [rev : Revision, remote : Name \union {None}] \union {NoMeta}
    /\ made \in Revision /\ server \in [Url -> SUBSET (1..made)]
    /\ export \in Folder /\ sources \in Folder /\ origin \in Url \union {None}
LockTypes == readers = {} /\ writers \subseteq Proc

LEMMA TypesAre ==
    TypeOK <=> IsTable(remotes) /\ RecipeTypes /\ LockTypes /\ spoiled \subseteq Event
BY DEF TypeOK, RecipeTypes, LockTypes, Revision, Folder, Event

LEMMA FoldersAre ==
    /\ MaxRevisions \in Nat /\ NoFolder \in Folder
    /\ \A r \in Revision :
         /\ Whole(r) \in Folder
         /\ \A b \in BOOLEAN : /\ [Whole(r) EXCEPT !.manifest = b] \in Folder
                               /\ [Whole(r) EXCEPT !.conanfile = b, !.whole = FALSE] \in Folder
                               /\ [Whole(r) EXCEPT !.whole = b] \in Folder
         /\ [NoFolder EXCEPT !.rev = r] \in Folder
    /\ \A f \in Folder : f.rev \in Revision /\ [f EXCEPT !.manifest = TRUE] \in Folder
<1>1. MaxRevisions \in Nat
  BY RecipeBounds
<1>2. 0 \in Revision
  BY <1>1 DEF Revision
<1>3. NoFolder \in Folder
  BY <1>2 DEF NoFolder, Folder
<1> QED BY <1>1, <1>2, <1>3 DEF NoFolder, Whole, Folder

\* One session changes.
LEMMA SessionsMove ==
    ASSUME IsRecord(session, Proc), NEW p \in Proc, NEW t, session' = [session EXCEPT ![p] = t]
    PROVE  /\ IsRecord(session', Proc) /\ session'[p] = t
           /\ \A q \in Proc \ {p} : session'[q] = session[q]
BY DEF IsRecord

LEMMA CommandsAre ==
    ASSUME NEW s, SessionOK(s), s.step \notin {"idle", "save", "sweep"}
    PROVE  CommandOK(s)
BY DEF SessionOK, ChangeOK, Idle

LEMMA ListsAre ==
    ASSUME NEW todo, NEW table, Listed(todo, table), IsTable(table)
    PROVE  /\ Head(todo) \in Names(table) /\ UrlOf(table, Head(todo)) \in Url
           /\ Len(todo) > 1 => Listed(Tail(todo), table)
<1>1. todo \in Seq(Name) /\ todo # <<>> /\ Len(todo) \in Nat /\ Len(todo) # 0
      /\ DOMAIN todo = 1..Len(todo) /\ \A i \in DOMAIN todo : todo[i] \in Names(table)
  BY DEF Listed
<1>2. Head(todo) = todo[1] /\ 1 \in DOMAIN todo
  BY <1>1
<1>3. Head(todo) \in Names(table) /\ UrlOf(table, Head(todo)) \in Url
  BY <1>1, <1>2, TableHas
<1>4. ASSUME Len(todo) > 1 PROVE Listed(Tail(todo), table)
  <2>1. /\ Tail(todo) \in Seq(Name) /\ Len(Tail(todo)) = Len(todo) - 1
        /\ DOMAIN Tail(todo) = 1..(Len(todo) - 1)
        /\ \A i \in 1..(Len(todo) - 1) : i + 1 \in DOMAIN todo /\ Tail(todo)[i] = todo[i + 1]
    BY <1>1
  <2>2. Tail(todo) # <<>>
    BY <1>1, <1>4, <2>1
  <2>3. \A i \in DOMAIN Tail(todo) : Tail(todo)[i] \in Names(table)
    BY <1>1, <2>1
  <2> QED BY <2>1, <2>2, <2>3 DEF Listed
<1> QED BY <1>3, <1>4

\* A command that goes on is of the same kind and knows the same remotes.
Onward(s, t) == t = Idle \/ (CommandOK(t) /\ t.op = s.op /\ t.table = s.table)
GoesOn(p) == \E t : Onward(session[p], t) /\ session' = [session EXCEPT ![p] = t]

\* The steps that only go on to another step.
LEMMA StepGoesOn ==
    ASSUME NEW s, CommandOK(s), NEW to,
           \/ /\ to \in {"look", "complete"} \union Looks
                   /\ s.op \in {"install", "sources", "download"}
              /\ to \in Looks => s.step \in Looks
              /\ to = "complete" => s.op # "install"
           \/ to \in {"copy", "sign", "revise"} /\ s.op = "export"
    PROVE  Onward(s, [s EXCEPT !.step = to])
<1> DEFINE t == [s EXCEPT !.step = to]
<1>1. IsRecord(s, CommandFields)
  BY DEF CommandOK
<1>2. IsRecord(t, CommandFields) /\ t.step = to /\ t.op = s.op /\ t.table = s.table
          /\ t.rev = s.rev
      /\ t.want = s.want /\ t.found = s.found /\ t.selected = s.selected /\ t.todo = s.todo
  BY <1>1 DEF IsRecord, CommandFields
<1> HIDE DEF t
<1>3. CommandOK(t)
  BY <1>2 DEF CommandOK, Looks
<1> QED BY <1>2, <1>3 DEF Onward, t
\* The steps of a command that has begun.
InstallStep(p) ==
    \/ Enter(p) \/ Seek(p) \/ SeekDifferent(p) \/ UseCached(p) \/ AskManifest(p) \/ Compare(p)
    \/ RemoveOld(p) \/ Refuse(p) \/ Clear(p) \/ Receive(p) \/ Unzip(p) \/ Record(p)
    \/ RecordRemote(p) \/ Break(p) \/ SourcesThere(p) \/ FetchSources(p)
ExportStep(p) ==
    EnterExport(p) \/ CopyRecipe(p) \/ SignRecipe(p) \/ ReviseMetadata(p) \/ RemoveBase(p)

LEMMA FetchGoesOn ==
    ASSUME NEW s, CommandOK(s), s.op \in {"install", "sources", "download"},
           NEW names, Listed(names, s.table), NEW r \in Revision
    PROVE  Onward(s, [s EXCEPT !.step = "clear", !.todo = names, !.want = r])
<1> DEFINE t == [s EXCEPT !.step = "clear", !.todo = names, !.want = r]
<1>1. IsRecord(s, CommandFields)
  BY DEF CommandOK
<1>2. IsRecord(t, CommandFields) /\ t.step = "clear" /\ t.op = s.op /\ t.table = s.table
      /\ t.rev = s.rev /\ t.want = r /\ t.found = s.found /\ t.selected = s.selected
      /\ t.todo = names
  BY <1>1 DEF IsRecord, CommandFields
<1> HIDE DEF t
<1>3. CommandOK(t)
  BY <1>2 DEF CommandOK, Looks, Revision
<1> QED BY <1>2, <1>3 DEF Onward, t

\* The remotes a recipe is looked for in are remotes the command knows.
LEMMA ChosenIs ==
    ASSUME TypeInv, NEW s, CommandOK(s), s.op \in {"install", "sources", "download"},
           s.selected # None \/ ~UnknownRemote(s)
    PROVE  /\ Chosen(s) \in Names(s.table) \union {None}
           /\ Candidates(s) # <<>> => Listed(Candidates(s), s.table)
<1>1. IsTable(s.table) /\ s.selected \in Names(s.table) \union {None}
  BY DEF CommandOK
<1>2. Chosen(s) \in Names(s.table) \union {None}
  BY <1>1 DEF Chosen, UnknownRemote
<1>3. /\ Len(s.table) \in Nat /\ DOMAIN s.table = 1..Len(s.table)
           /\ Names(s.table) \subseteq Name
      /\ \A i \in DOMAIN s.table : s.table[i].name \in Name
  BY <1>1, TableHas
<1>4. CASE Chosen(s) # None
  <2>1. PICK n \in Name : n = Chosen(s) /\ n \in Names(s.table)
    BY <1>2, <1>3, <1>4
  <2>2. Candidates(s) = <<n>>
    BY <1>4, <2>1 DEF Candidates
  <2> QED BY <1>2, <2>1, <2>2 DEF Listed
<1>5. CASE Chosen(s) = None
  <2>1. PICK c : c = Candidates(s)
    OBVIOUS
  <2>2. c = [i \in DOMAIN s.table |-> s.table[i].name]
    BY <1>5, <2>1 DEF Candidates
  <2>3. c \in Seq(Name) /\ DOMAIN c = DOMAIN s.table
    BY <1>3, <2>2
  <2>4. \A i \in DOMAIN c : c[i] \in Names(s.table)
    BY <2>2 DEF Names
  <2> QED BY <1>2, <2>1, <2>3, <2>4 DEF Listed
<1> QED BY <1>4, <1>5

LEMMA RevisionsAre ==
    ASSUME TypeInv
    PROVE  /\ export.rev \in Revision
           /\ meta # NoMeta => meta.rev \in Revision /\ meta.remote \in Name \union {None}
           /\ \A u \in Url : \A r \in server[u] : r \in Revision /\ r # 0
           /\ Recorded \in Name \union {None}
<1>1. RecipeTypes /\ MaxRevisions \in Nat
  BY TypesAre, FoldersAre DEF TypeInv
<1>2. export.rev \in Revision
  BY <1>1, FoldersAre DEF RecipeTypes
<1>3. meta # NoMeta => meta.rev \in Revision /\ meta.remote \in Name \union {None}
  BY <1>1 DEF RecipeTypes
<1>4. ASSUME NEW u \in Url, NEW r \in server[u] PROVE r \in Revision /\ r # 0
  <2>1. made \in Revision /\ server[u] \in SUBSET (1..made)
    BY <1>1 DEF RecipeTypes
  <2> QED BY <1>1, <2>1 DEF Revision
<1>5. Recorded \in Name \union {None}
  BY <1>3 DEF Recorded
<1> QED BY <1>2, <1>3, <1>4, <1>5

\* Every step of a command ends it or goes on with it.
LEMMA CommandMoves ==
    ASSUME TypeInv, NEW p \in Proc, InstallStep(p) \/ ExportStep(p)
    PROVE  /\ CommandOK(session[p])
           /\ GoesOn(p)
<1> DEFINE s == session[p]
<1>1. SessionOK(s)
  BY DEF TypeInv
<1>2. s.step \notin {"idle", "save", "sweep"}
  BY DEF InstallStep, ExportStep, Enter, Seek, SeekDifferent, UseCached, AskManifest, Compare,
     RemoveOld, Refuse, Clear, Receive, Unzip, Record, RecordRemote, Break, SourcesThere,
     FetchSources, EnterExport, CopyRecipe, SignRecipe, ReviseMetadata, RemoveBase
<1>3. CommandOK(s)
  BY <1>1, <1>2, CommandsAre
<1>4. CASE \E r : End(p, r)
  BY <1>3, <1>4 DEF End, Finish, Onward, GoesOn
<1>5. ASSUME NEW to, Step(p, to),
             \/ /\ to \in {"look", "complete"} \union Looks
                     /\ s.op \in {"install", "sources", "download"}
                /\ to \in Looks => s.step \in Looks
                /\ to = "complete" => s.op # "install"
             \/ to \in {"copy", "sign", "revise"} /\ s.op = "export"
      PROVE  GoesOn(p)
  BY <1>3, <1>5, StepGoesOn DEF Step, GoesOn
<1>6. ASSUME NEW names, NEW r, Fetch(p, names, r), Listed(names, s.table), r \in Revision,
             s.op \in {"install", "sources", "download"}
      PROVE  GoesOn(p)
  <2> DEFINE t == [s EXCEPT !.step = "clear", !.todo = names, !.want = r]
  <2>1. session' = [session EXCEPT ![p] = t]
    BY <1>6 DEF Fetch
  <2>2. Onward(s, t)
    BY <1>3, <1>6, FetchGoesOn
  <2> QED BY <2>1, <2>2 DEF GoesOn
<1>7. CASE Enter(p)
  <2> DEFINE found == IF s.update /\ s.want = 0 /\ HasRecipe THEN export.rev ELSE 0
             t == [s EXCEPT !.step = IF s.step = "await" THEN "complete" ELSE "look",
                            !.found = found]
  <2>1. session' = [session EXCEPT ![p] = t] /\ s.step \in {"enter", "await"}
    BY <1>7 DEF Enter
  <2>2. found \in Revision
    BY RevisionsAre, RecipeBounds DEF Revision
  <2>3. IsRecord(s, CommandFields)
    BY <1>3 DEF CommandOK
  <2>4. /\ IsRecord(t, CommandFields)
             /\ t.step = IF s.step = "await" THEN "complete" ELSE "look"
        /\ t.op = s.op /\ t.table = s.table /\ t.rev = s.rev /\ t.want = s.want
        /\ t.found = found /\ t.selected = s.selected
    BY <2>3 DEF IsRecord, CommandFields
  <2> HIDE DEF t, found
  <2>5. CommandOK(t)
    BY <1>3, <2>1, <2>2, <2>4 DEF CommandOK, Looks, Revision
  <2>6. Onward(s, t)
    BY <2>4, <2>5 DEF Onward
  <2> QED BY <1>3, <2>1, <2>6 DEF GoesOn
<1>8. CASE Seek(p) \/ SeekDifferent(p)
  <2>1. /\ s.step = "look" /\ (s.selected # None \/ ~UnknownRemote(s)) /\ Candidates(s) # <<>>
        /\ Fetch(p, Candidates(s), s.want)
    BY <1>8 DEF Seek, SeekDifferent
  <2>2. s.op \in {"install", "sources", "download"} /\ s.want \in Revision
    BY <1>3, <2>1 DEF CommandOK, Revision
  <2>3. Listed(Candidates(s), s.table)
    BY <1>3, <2>1, <2>2, ChosenIs
  <2>4. PICK names, r : names = Candidates(s) /\ r = s.want
    OBVIOUS
  <2>5. Fetch(p, names, r)
    BY <2>1, <2>4 DEF Fetch
  <2> QED BY <1>3, <1>6, <2>2, <2>3, <2>4, <2>5
<1>9. CASE AskManifest(p)
  <2>1. CASE ~\E r : End(p, r)
    <3>1. PICK r : /\ session' = [session EXCEPT ![p].step = "compare", ![p].rev = r,
                                                ![p].todo = <<Chosen(s)>>]
                   /\ r \in server[UrlOf(s.table, Chosen(s))]
                   /\ s.step = "look" /\ Chosen(s) # None /\ ~UnknownRemote(s)
      BY <1>9, <2>1 DEF AskManifest
    <3>2. PICK n : n = Chosen(s)
      OBVIOUS
    <3> DEFINE t == [s EXCEPT !.step = "compare", !.rev = r, !.todo = <<n>>]
    <3>3. s.op \in {"install", "sources", "download"} /\ IsTable(s.table)
      BY <1>3, <3>1 DEF CommandOK
    <3>4. n \in Names(s.table) /\ n \in Name /\ r \in Revision
      <4>1. n \in Names(s.table)
        BY <1>3, <3>1, <3>2, <3>3, ChosenIs
      <4> QED BY <3>1, <3>2, <3>3, <4>1, TableHas, RevisionsAre
    <3>5. IsRecord(s, CommandFields)
      BY <1>3 DEF CommandOK
    <3>6. /\ IsRecord(t, CommandFields) /\ t.step = "compare" /\ t.op = s.op /\ t.rev = r
          /\ t.table = s.table /\ t.want = s.want /\ t.found = s.found
          /\ t.selected = s.selected /\ t.todo = <<n>>
      BY <3>5 DEF IsRecord, CommandFields
    <3>7. session' = [session EXCEPT ![p] = t]
      BY <3>1, <3>2
    <3> HIDE DEF t
    <3>8. Listed(t.todo, s.table)
      BY <3>4, <3>6 DEF Listed
    <3>9. CommandOK(t)
      BY <1>3, <3>3, <3>4, <3>6, <3>8 DEF CommandOK, Looks, Revision
    <3>10. Onward(s, t)
      BY <3>6, <3>9 DEF Onward
    <3> QED BY <1>3, <3>7, <3>10 DEF GoesOn
  <2> QED BY <1>4, <2>1
<1>10. CASE Clear(p)
  <2>0. s.step = "clear" /\ IsTable(s.table) /\ Listed(s.todo, s.table)
        /\ s.op \in {"install", "sources", "download"}
    BY <1>3, <1>10 DEF Clear, CommandOK, Looks
  <2>1. CASE ~\E r : End(p, r)
    <3>1. \/ \E r \in server[FromUrl(s)] :
               session' = [session EXCEPT ![p].step = "receive", ![p].rev = r]
          \/ Len(s.todo) > 1 /\ session' = [session EXCEPT ![p].todo = Tail(@)]
      BY <1>10, <2>1 DEF Clear, Fail
    <3>2. IsRecord(s, CommandFields)
      BY <1>3 DEF CommandOK
    <3>3. CASE \E r \in server[FromUrl(s)] :
               session' = [session EXCEPT ![p].step = "receive", ![p].rev = r]
      <4>1. PICK r \in server[FromUrl(s)] :
               session' = [session EXCEPT ![p].step = "receive", ![p].rev = r]
        BY <3>3
      <4> DEFINE t == [s EXCEPT !.step = "receive", !.rev = r]
      <4>2. r \in Revision
        BY <2>0, ListsAre, RevisionsAre DEF FromUrl
      <4>3. /\ IsRecord(t, CommandFields) /\ t.step = "receive" /\ t.op = s.op /\ t.rev = r
            /\ t.table = s.table /\ t.want = s.want /\ t.found = s.found
            /\ t.selected = s.selected /\ t.todo = s.todo
        BY <3>2 DEF IsRecord, CommandFields
      <4>4. session' = [session EXCEPT ![p] = t]
        BY <4>1
      <4> HIDE DEF t
      <4>5. CommandOK(t)
        BY <1>3, <2>0, <4>2, <4>3 DEF CommandOK, Looks, Revision
      <4> QED BY <1>3, <4>3, <4>4, <4>5 DEF Onward, GoesOn
    <3>4. CASE Len(s.todo) > 1 /\ session' = [session EXCEPT ![p].todo = Tail(@)]
      <4>1. PICK names : names = Tail(s.todo)
        OBVIOUS
      <4> DEFINE t == [s EXCEPT !.todo = names]
      <4>2. Listed(names, s.table)
        BY <2>0, <3>4, <4>1, ListsAre
      <4>3. /\ IsRecord(t, CommandFields) /\ t.step = "clear" /\ t.op = s.op /\ t.rev = s.rev
            /\ t.table = s.table /\ t.want = s.want /\ t.found = s.found
            /\ t.selected = s.selected /\ t.todo = names
        BY <2>0, <3>2 DEF IsRecord, CommandFields
      <4>4. session' = [session EXCEPT ![p] = t]
        BY <3>4, <4>1
      <4> HIDE DEF t
      <4>5. CommandOK(t)
        BY <1>3, <2>0, <4>2, <4>3 DEF CommandOK, Looks
      <4> QED BY <1>3, <4>3, <4>4, <4>5 DEF Onward, GoesOn
    <3> QED BY <3>1, <3>3, <3>4
  <2> QED BY <1>4, <2>1
<1>11. CASE RemoveOld(p)
  <2>1. s.step = "remove" /\ Fetch(p, s.todo, s.rev)
    BY <1>11 DEF RemoveOld
  <2>2. PICK names : names = s.todo
    OBVIOUS
  <2>3. PICK r : r = s.rev
    OBVIOUS
  <2>4. Listed(names, s.table) /\ r \in Revision /\ s.op \in {"install", "sources", "download"}
    BY <1>3, <2>1, <2>2, <2>3 DEF CommandOK, Looks, Revision
  <2>5. Fetch(p, names, r)
    BY <2>1, <2>2, <2>3 DEF Fetch
  <2> QED BY <1>3, <1>6, <2>4, <2>5
<1>12. CASE Receive(p) \/ Unzip(p) \/ Record(p) \/ Compare(p) \/ RecordRemote(p)
  <2>1. CASE ~\E r : End(p, r)
    <3>1. s.op \in {"install", "sources", "download"} /\ s.step \in Looks
      BY <1>3, <1>12 DEF CommandOK, Receive, Unzip, Record, Compare, RecordRemote, Looks
    <3>2. PICK to \in Looks \union {"complete"} : Step(p, to)
              /\ (to = "complete" => s.op # "install")
      BY <1>12, <2>1 DEF Receive, Unzip, Record, Compare, RecordRemote, Looks
    <3> QED BY <1>3, <1>5, <3>1, <3>2
  <2> QED BY <1>4, <2>1
<1>13. CASE EnterExport(p) \/ CopyRecipe(p) \/ SignRecipe(p)
  <2>1. s.op = "export"
    BY <1>3, <1>13 DEF CommandOK, EnterExport, CopyRecipe, SignRecipe, Looks
  <2>2. PICK to \in {"copy", "sign", "revise"} : Step(p, to)
    BY <1>13 DEF EnterExport, CopyRecipe, SignRecipe
  <2> QED BY <1>3, <1>5, <2>1, <2>2
<1>14. CASE UseCached(p) \/ Refuse(p) \/ Break(p) \/ SourcesThere(p) \/ FetchSources(p)
            \/ ReviseMetadata(p) \/ RemoveBase(p)
  BY <1>4, <1>14 DEF UseCached, Refuse, Break, SourcesThere, FetchSources, ReviseMetadata,
     RemoveBase, Fail
<1> QED BY <1>3, <1>7, <1>8, <1>9, <1>10, <1>11, <1>12, <1>13, <1>14
        DEF InstallStep, ExportStep
LEMMA TypesStay ==
    ASSUME TypeInv, NEW p \in Proc, NEW t, session' = [session EXCEPT ![p] = t], SessionOK(t),
           IsTable(remotes)', RecipeTypes', LockTypes', spoiled' \subseteq Event
    PROVE  TypeInv'
<1>1. TypeOK'
  BY DEF TypeOK, RecipeTypes, LockTypes, Revision, Folder, Event
<1>2. /\ IsRecord(session', Proc) /\ session'[p] = t
      /\ \A q \in Proc \ {p} : session'[q] = session[q]
  BY SessionsMove DEF TypeInv
<1>3. \A q \in Proc : SessionOK(session[q])
  BY DEF TypeInv
<1>4. \A q \in Proc : SessionOK(session'[q])
  BY <1>2, <1>3
<1> QED BY <1>1, <1>2, <1>4 DEF TypeInv

\* What the steps of a command do besides.
LEMMA InstallTouches ==
    ASSUME NEW p \in Proc, InstallStep(p)
    PROVE  /\ UNCHANGED <<remotes, made, server>>
           /\ \/ meta' = meta
              \/ meta' = [rev |-> session[p].rev, remote |-> Recorded]
              \/ /\ RecordRemote(p)
                 /\ meta' = [rev |-> IF meta = NoMeta THEN 0 ELSE meta.rev,
                             remote |-> Head(session[p].todo)]
           /\ \/ export' \in {export, NoFolder, Whole(session[p].rev)}
              \/ export' = [Whole(session[p].rev) EXCEPT !.whole = FALSE]
              \/ \E b \in BOOLEAN :
                   export' = [Whole(session[p].rev) EXCEPT !.conanfile = b, !.whole = FALSE]
           /\ \/ sources' \in {sources, NoFolder, Whole(session[p].rev)}
              \/ sources' = [Whole(session[p].rev) EXCEPT !.whole = FALSE]
           /\ origin' = origin \/ (RecordRemote(p) /\ origin' = FromUrl(session[p]))
           /\ readers' = readers /\ writers' \subseteq writers \union {p}
           /\ spoiled \subseteq spoiled'
                /\ spoiled' \subseteq spoiled \union {"overlap", "switched", "part"}
<1>1. CASE Enter(p)
  <2>1. TakeLock(p) /\ spoiled' = spoiled \union Overlap(p)
        /\ UNCHANGED <<remotes, meta, server, made, folders, origin>>
    BY <1>1 DEF Enter
  <2>2. readers' = readers /\ writers' \subseteq writers \union {p}
    BY <2>1 DEF TakeLock, Lock!AdmitWriter
  <2> QED BY <2>1, <2>2 DEF Overlap, folders
<1>2. CASE Seek(p) \/ SeekDifferent(p)
  BY <1>2 DEF Seek, SeekDifferent, folders, lock
<1>3. CASE UseCached(p) \/ AskManifest(p) \/ Compare(p) \/ Refuse(p)
  <2>1. UNCHANGED lock \/ \E r : End(p, r)
    BY <1>3 DEF UseCached, AskManifest, Compare, Refuse, Fail
  <2>2. readers' = readers /\ writers' \subseteq writers \union {p}
    BY <2>1 DEF End, Unlock, lock
  <2>3. UNCHANGED <<remotes, meta, server, made, folders, origin, spoiled>>
    BY <1>3 DEF UseCached, AskManifest, Compare, Refuse
  <2> QED BY <2>2, <2>3 DEF folders
<1>4. CASE RemoveOld(p)
  BY <1>4 DEF RemoveOld
<1>5. CASE Clear(p)
  <2>1. UNCHANGED lock \/ \E r : End(p, r)
    BY <1>5 DEF Clear, Fail
  <2>2. readers' = readers /\ writers' \subseteq writers \union {p}
    BY <2>1 DEF End, Unlock, lock
  <2>3. /\ export' = NoFolder
        /\ UNCHANGED <<remotes, meta, server, made, sources, origin, spoiled>>
    BY <1>5 DEF Clear
  <2> QED BY <2>2, <2>3
<1>6. CASE Receive(p) \/ Unzip(p) \/ Record(p)
  BY <1>6 DEF Receive, Unzip, Record, folders, lock
<1>7. CASE RecordRemote(p)
  <2>1. UNCHANGED lock \/ \E r : End(p, r)
    BY <1>7 DEF RecordRemote
  <2>2. readers' = readers /\ writers' \subseteq writers \union {p}
    BY <2>1 DEF End, Unlock, lock
  <2>3. /\ UNCHANGED <<remotes, server, made, folders, spoiled>>
             /\ origin' = FromUrl(session[p])
        /\ meta' = [rev |-> IF meta = NoMeta THEN 0 ELSE meta.rev,
                    remote |-> Head(session[p].todo)]
    BY <1>7 DEF RecordRemote
  <2> QED BY <1>7, <2>2, <2>3 DEF folders
<1>8. CASE Break(p) \/ SourcesThere(p) \/ FetchSources(p)
  <2>1. \E r : End(p, r)
    BY <1>8 DEF Break, SourcesThere, FetchSources, Fail
  <2>2. readers' = readers /\ writers' \subseteq writers \union {p}
    BY <2>1 DEF End, Unlock
  <2>3. UNCHANGED <<remotes, meta, server, made, origin>>
    BY <1>8 DEF Break, SourcesThere, FetchSources
  <2>4. CASE Break(p)
    BY <2>2, <2>3, <2>4 DEF Break, folders
  <2>5. CASE SourcesThere(p) \/ FetchSources(p)
    BY <2>2, <2>3, <2>5 DEF SourcesThere, FetchSources, folders
  <2> QED BY <1>8, <2>4, <2>5
<1> QED BY <1>1, <1>2, <1>3, <1>4, <1>5, <1>6, <1>7, <1>8 DEF InstallStep

\* The same of the commands that take the lock late or never.
LEMMA ExportTouches ==
    ASSUME NEW p \in Proc, ExportStep(p)
    PROVE  /\ UNCHANGED <<remotes, made, server, spoiled>>
           /\ meta' \in {meta, NoMeta} \/ meta' = [rev |-> session[p].rev, remote |-> Recorded]
           /\ \/ export' \in {export, NoFolder}
              \/ export' = [Whole(session[p].rev) EXCEPT !.manifest = FALSE]
              \/ export' = [export EXCEPT !.manifest = TRUE]
           /\ sources' \in {sources, NoFolder, Whole(session[p].rev)}
           /\ origin' = origin \/ (origin' = None /\ meta' = NoMeta)
           /\ readers' = readers /\ writers' \subseteq writers \union {p}
<1>1. CASE EnterExport(p)
  <2>1. readers' = readers /\ writers' \subseteq writers \union {p}
    BY <1>1 DEF EnterExport, TakeLock, Lock!AdmitWriter
  <2> QED BY <1>1, <2>1 DEF EnterExport, folders
<1>2. CASE CopyRecipe(p)
  BY <1>2 DEF CopyRecipe, lock
<1>3. CASE SignRecipe(p)
  BY <1>3 DEF SignRecipe, Unlock
<1>4. CASE ReviseMetadata(p) \/ RemoveBase(p)
  BY <1>4 DEF ReviseMetadata, RemoveBase, End, Unlock, folders
<1> QED BY <1>1, <1>2, <1>3, <1>4 DEF ExportStep

LEMMA CommandTypes ==
    ASSUME TypeInv, NEW p \in Proc, InstallStep(p) \/ ExportStep(p)
    PROVE  TypeInv'
<1> DEFINE s == session[p]
<1>1. CommandOK(s) /\ GoesOn(p)
  BY CommandMoves
<1>2. PICK t : Onward(s, t) /\ session' = [session EXCEPT ![p] = t]
  BY <1>1 DEF GoesOn
<1>3. SessionOK(t)
  BY <1>2 DEF Onward, SessionOK
<1>4. IsTable(remotes) /\ RecipeTypes /\ LockTypes /\ spoiled \subseteq Event
  BY TypesAre DEF TypeInv
<1>5. s.rev \in Revision /\ 0 \in Revision
  <2>1. s.rev \in 0..MaxRevisions
    BY <1>1 DEF CommandOK
  <2>2. MaxRevisions \in Nat
    BY RecipeBounds
  <2> QED BY <2>1, <2>2 DEF Revision
<1>6. UNCHANGED <<remotes, made, server>> /\ readers' = readers
          /\ writers' \subseteq writers \union {p}
  BY InstallTouches, ExportTouches
<1>7. IsTable(remotes)' /\ LockTypes'
  BY <1>4, <1>6 DEF LockTypes
<1>8. spoiled' \subseteq Event
  BY <1>4, InstallTouches, ExportTouches DEF Event
<1>9. export' \in Folder /\ sources' \in Folder
  <2>1. export \in Folder /\ sources \in Folder
    BY <1>4 DEF RecipeTypes
  <2>2. CASE InstallStep(p)
    <3>1. PICK r \in Revision : r = s.rev
      BY <1>5
    <3>2. /\ \/ export' \in {export, NoFolder, Whole(r)}
                  \/ export' = [Whole(r) EXCEPT !.whole = FALSE]
             \/ \E b \in BOOLEAN : export' = [Whole(r) EXCEPT !.conanfile = b, !.whole = FALSE]
          /\ \/ sources' \in {sources, NoFolder, Whole(r)}
             \/ sources' = [Whole(r) EXCEPT !.whole = FALSE]
      BY <2>2, <3>1, InstallTouches
    <3>3. export' \in Folder
      BY <2>1, <3>2, FoldersAre
    <3>4. sources' \in Folder
      BY <2>1, <3>2, FoldersAre
    <3> QED BY <3>3, <3>4
  <2>3. CASE ExportStep(p)
    BY <2>1, <2>3, <1>5, FoldersAre, ExportTouches
  <2> QED BY <2>2, <2>3
<1>10. RecordRemote(p) => Head(s.todo) \in Name /\ FromUrl(s) \in Url
  <2>1. ASSUME RecordRemote(p) PROVE IsTable(s.table) /\ Listed(s.todo, s.table)
    BY <2>1, <1>1 DEF RecordRemote, CommandOK, Looks
  <2> QED BY <2>1, ListsAre, TableHas DEF FromUrl
<1>11. meta' \in [rev : Revision, remote : Name \union {None}] \union {NoMeta}
  <2>1. meta \in [rev : Revision, remote : Name \union {None}] \union {NoMeta}
        /\ Recorded \in Name \union {None}
    BY <1>4, RevisionsAre DEF RecipeTypes
  <2>2. CASE InstallStep(p)
    <3>1. CASE RecordRemote(p)
      <4>1. \/ meta' = meta \/ meta' = [rev |-> s.rev, remote |-> Recorded]
            \/ meta' = [rev |-> IF meta = NoMeta THEN 0 ELSE meta.rev, remote |-> Head(s.todo)]
        BY <2>2, InstallTouches
      <4>2. (IF meta = NoMeta THEN 0 ELSE meta.rev) \in Revision /\ Head(s.todo) \in Name
        BY <1>5, <1>10, <3>1, RevisionsAre
      <4> QED BY <1>5, <2>1, <4>1, <4>2
    <3>2. CASE ~RecordRemote(p)
      <4>1. meta' = meta \/ meta' = [rev |-> s.rev, remote |-> Recorded]
        BY <2>2, <3>2, InstallTouches
      <4> QED BY <1>5, <2>1, <4>1
    <3> QED BY <3>1, <3>2
  <2>3. CASE ExportStep(p)
    BY <2>1, <2>3, <1>5, ExportTouches
  <2> QED BY <2>2, <2>3
<1>12. origin' \in Url \union {None}
  BY <1>4, <1>10, InstallTouches, ExportTouches DEF RecipeTypes
<1>13. RecipeTypes'
  BY <1>4, <1>6, <1>9, <1>11, <1>12 DEF RecipeTypes
<1> QED BY <1>2, <1>3, <1>7, <1>8, <1>13, TypesStay

\* A command begins: one on the recipe knows the remotes as they are now.
LEMMA BeginMoves ==
    ASSUME TypeInv, NEW p \in Proc, StartInstall(p) \/ StartSources(p) \/ StartDownload(p)
    PROVE  \E t : /\ Begin(p, t) /\ CommandOK(t) /\ t.table = remotes
                 /\ t.found = 0
<1>0. /\ IsTable(remotes) /\ Names(remotes) \subseteq Name /\ MaxRevisions \in Nat
      /\ made \in 0..MaxRevisions
  BY TypesAre, TableHas, RecipeBounds DEF TypeInv, RecipeTypes, Revision
<1>1. CASE StartInstall(p)
  <2>1. PICK selected \in Names(remotes) \union {None}, update \in BOOLEAN, want \in 0..made :
          Begin(p, [Command("install", "enter", remotes, selected, want)
                      EXCEPT !.update = update])
    BY <1>1 DEF StartInstall
  <2> DEFINE t == [Command("install", "enter", remotes, selected, want)
                     EXCEPT !.update = update]
  <2>2. /\ IsRecord(t, CommandFields) /\ t.step = "enter" /\ t.op = "install"
        /\ t.table = remotes /\ t.selected = selected /\ t.want = want /\ t.rev = 0
             /\ t.found = 0
    BY DEF Command, IsRecord, CommandFields
  <2>3. want \in 0..MaxRevisions
    BY <1>0
  <2>4. Begin(p, t)
    BY <2>1
  <2> HIDE DEF t
  <2>5. CommandOK(t)
    BY <1>0, <2>2, <2>3 DEF CommandOK, Looks
  <2> QED BY <2>2, <2>4, <2>5
<1>2. CASE StartSources(p)
  <2>1. PICK r : r = meta.rev /\ r \in 0..MaxRevisions
    BY <1>2, RevisionsAre DEF StartSources, Revision
  <2> DEFINE t == [Command("sources", "await", remotes, None, 0) EXCEPT !.rev = r]
  <2>2. /\ IsRecord(t, CommandFields) /\ t.step = "await" /\ t.op = "sources"
        /\ t.table = remotes /\ t.selected = None /\ t.want = 0 /\ t.rev = r /\ t.found = 0
    BY DEF Command, IsRecord, CommandFields
  <2>4. Begin(p, t)
    BY <1>2, <2>1 DEF StartSources
  <2> HIDE DEF t
  <2>5. CommandOK(t)
    BY <1>0, <2>1, <2>2 DEF CommandOK, Looks
  <2> QED BY <2>2, <2>4, <2>5
<1>3. CASE StartDownload(p)
  <2>1. PICK selected \in Names(remotes) :
          Begin(p, [Command("download", "clear", remotes, selected, 0)
                      EXCEPT !.todo = <<selected>>])
    BY <1>3 DEF StartDownload
  <2> DEFINE t == [Command("download", "clear", remotes, selected, 0)
                     EXCEPT !.todo = <<selected>>]
  <2>2. /\ IsRecord(t, CommandFields) /\ t.step = "clear" /\ t.op = "download"
        /\ t.table = remotes /\ t.selected = selected /\ t.want = 0 /\ t.rev = 0 /\ t.found = 0
        /\ t.todo = <<selected>>
    BY DEF Command, IsRecord, CommandFields
  <2>4. Begin(p, t)
    BY <2>1
  <2> HIDE DEF t
  <2>5. Listed(t.todo, remotes)
    BY <1>0, <2>2 DEF Listed
  <2>6. CommandOK(t)
    BY <1>0, <2>2, <2>5 DEF CommandOK, Looks
  <2> QED BY <2>2, <2>4, <2>6
<1> QED BY <1>1, <1>2, <1>3

LEMMA BeginTypes ==
    ASSUME TypeInv, NEW p \in Proc, StartInstall(p) \/ StartSources(p) \/ StartDownload(p)
    PROVE  TypeInv'
<1>1. PICK t : Begin(p, t) /\ CommandOK(t)
  BY BeginMoves
<1>2. session' = [session EXCEPT ![p] = t] /\ SessionOK(t)
  BY <1>1 DEF Begin, SessionOK
<1>3. UNCHANGED <<remotes, meta, server, made, folders, origin, lock>>
      /\ spoiled' \subseteq spoiled \union {"overlap", "race"}
  BY <1>1 DEF Begin, Overlap, StartInstall, StartSources, StartDownload
<1>4. IsTable(remotes) /\ RecipeTypes /\ LockTypes /\ spoiled \subseteq Event
  BY TypesAre DEF TypeInv
<1>5. IsTable(remotes)' /\ RecipeTypes' /\ LockTypes' /\ spoiled' \subseteq Event
  BY <1>3, <1>4 DEF RecipeTypes, LockTypes, Event, folders, lock
<1> QED BY <1>2, <1>5, TypesStay

\* One that takes the recipe away knows no remotes.
LEMMA WriterMoves ==
    ASSUME TypeInv, NEW p \in Proc, StartExport(p) \/ StartRemove(p)
    PROVE  /\ session[p] = Idle
           /\ \E t : /\ session' = [session EXCEPT ![p] = t] /\ CommandOK(t) /\ t.found = 0
                     /\ t.op \in {"export", "remove"}
           /\ TypeInv'
<1>0. /\ IsTable(remotes) /\ RecipeTypes /\ LockTypes /\ spoiled \subseteq Event
      /\ MaxRevisions \in Nat
  BY TypesAre, RecipeBounds DEF TypeInv
<1>1. CASE StartExport(p)
  <2>1. PICK r : /\ session' = [session EXCEPT ![p] =
                               [Command("export", "wait", <<>>, None, 0) EXCEPT !.rev = r]]
                 /\ sources' = [NoFolder EXCEPT !.rev = r]
                 /\ \/ r = export.rev /\ made' = made
                    \/ made < MaxRevisions /\ made' = made + 1 /\ r = made + 1
    BY <1>1 DEF StartExport
  <2>2. made \in Nat /\ made <= MaxRevisions
    BY <1>0 DEF RecipeTypes, Revision
  <2>3. r \in Revision /\ made' \in Revision /\ made <= made' /\ made' \in Nat
    BY <1>0, <2>1, <2>2, RevisionsAre DEF Revision
  <2> DEFINE t == [Command("export", "wait", <<>>, None, 0) EXCEPT !.rev = r]
  <2>4. /\ IsRecord(t, CommandFields) /\ t.step = "wait" /\ t.op = "export"
        /\ t.want = 0 /\ t.rev = r /\ t.found = 0
    BY DEF Command, IsRecord, CommandFields
  <2>5. session' = [session EXCEPT ![p] = t]
    BY <2>1
  <2> HIDE DEF t
  <2>6. CommandOK(t) /\ SessionOK(t)
    BY <1>0, <2>3, <2>4 DEF CommandOK, Revision, SessionOK
  <2>7. sources' \in Folder
    BY <2>1, <2>3, FoldersAre
  <2>8. server' \in [Url -> SUBSET (1..made')]
    <3>1. server \in [Url -> SUBSET (1..made)] /\ server' = server
      BY <1>0, <1>1 DEF RecipeTypes, StartExport
    <3>2. 1..made \subseteq 1..made'
      BY <2>2, <2>3
    <3> QED BY <3>1, <3>2
  <2>9. /\ UNCHANGED <<remotes, meta, origin, lock>> /\ export' = NoFolder
        /\ spoiled' \subseteq spoiled \union {"overlap"} /\ session[p] = Idle
    BY <1>1 DEF StartExport, MayBegin, Overlap
  <2>10. IsTable(remotes)' /\ RecipeTypes' /\ LockTypes' /\ spoiled' \subseteq Event
    BY <1>0, <2>3, <2>7, <2>8, <2>9, FoldersAre DEF RecipeTypes, LockTypes, Event, lock
  <2> QED BY <2>4, <2>5, <2>6, <2>9, <2>10, TypesStay
<1>2. CASE StartRemove(p)
  <2> DEFINE t == Command("remove", "base", <<>>, None, 0)
  <2>1. session' = [session EXCEPT ![p] = t]
    BY <1>2 DEF StartRemove
  <2>2. /\ IsRecord(t, CommandFields) /\ t.step = "base" /\ t.op = "remove"
        /\ t.want = 0 /\ t.rev = 0 /\ t.found = 0
    BY DEF Command, IsRecord, CommandFields
  <2> HIDE DEF t
  <2>3. CommandOK(t) /\ SessionOK(t)
    BY <1>0, <2>2 DEF CommandOK, SessionOK
  <2>4. /\ UNCHANGED <<remotes, meta, made, server, origin, readers, writers>>
        /\ export' = NoFolder /\ sources' = NoFolder
        /\ spoiled' \subseteq spoiled \union {"overlap"} /\ session[p] = Idle
    BY <1>2 DEF StartRemove, MayBegin, Overlap
  <2>5. IsTable(remotes)' /\ RecipeTypes' /\ LockTypes' /\ spoiled' \subseteq Event
    BY <1>0, <2>4, FoldersAre DEF RecipeTypes, LockTypes, Event
  <2> QED BY <2>1, <2>2, <2>3, <2>4, <2>5, TypesStay
<1> QED BY <1>1, <1>2

\* A change of the remotes begins: what it has in memory.
Planned(t) ==
    \/ t.step = "save" /\ t.rest = <<>> /\ Names(remotes) \subseteq Names(t.table)
    \/ /\ t.rest # <<>>
       /\ ~Drops(t.table) =>
            \A n \in Names(remotes) : t.move[n] # None =>
               /\ t.move[n] \in Names(t.table)
               /\ ~Moves(t.table) => UrlOf(t.table, t.move[n]) = UrlOf(remotes, n)

LEMMA ChangeMoves ==
    ASSUME TypeInv, NEW p \in Proc, ChangeRemotes(p)
    PROVE  /\ session[p] = Idle
           /\ \E t : session' = [session EXCEPT ![p] = t] /\ ChangeOK(t) /\ Planned(t)
           /\ TypeInv'
<1>0. /\ IsTable(remotes) /\ RecipeTypes /\ LockTypes /\ spoiled \subseteq Event
  BY TypesAre DEF TypeInv
<1>1. PICK table, move, todo : Change(p, table, move, todo) /\ Changes(table, move, todo)
  BY <1>0, RegistryChanges DEF ChangeRemotes
<1> DEFINE t == [step |-> Head(todo), rest |-> Tail(todo), table |-> table, move |-> move]
<1>2. session' = [session EXCEPT ![p] = t]
  BY <1>1 DEF Change
<1>3. \/ todo = <<"save">> /\ Head(todo) = "save" /\ Tail(todo) = <<>>
      \/ todo = <<"save", "sweep">> /\ Head(todo) = "save" /\ Tail(todo) = <<"sweep">>
      \/ todo = <<"sweep", "save">> /\ Head(todo) = "sweep" /\ Tail(todo) = <<"save">>
  <2>1. todo \in {<<"save">>, <<"save", "sweep">>, <<"sweep", "save">>}
    BY <1>1 DEF Changes
  <2>2. CASE todo = <<"save">>
    BY <2>2
  <2>3. CASE todo = <<"save", "sweep">>
    BY <2>3
  <2>4. CASE todo = <<"sweep", "save">>
    BY <2>4
  <2> QED BY <2>1, <2>2, <2>3, <2>4
<1>4. /\ IsRecord(t, {"step", "rest", "table", "move"}) /\ t.step = Head(todo)
      /\ t.rest = Tail(todo) /\ t.table = table /\ t.move = move
  BY DEF IsRecord
<1> HIDE DEF t
<1>5. ChangeOK(t)
  BY <1>1, <1>3, <1>4 DEF ChangeOK, Changes
<1>6. Planned(t)
  <2>1. CASE todo = <<"save">>
    <3>1. Names(remotes) \subseteq Names(table)
      BY <1>1, <2>1 DEF Changes
    <3> QED BY <1>3, <1>4, <2>1, <3>1 DEF Planned
  <2>2. CASE todo # <<"save">>
    <3>1. t.rest # <<>>
      BY <1>3, <1>4, <2>2
    <3> QED BY <1>1, <1>4, <2>2, <3>1 DEF Planned, Changes
  <2> QED BY <2>1, <2>2
<1>7. session[p] = Idle /\ spoiled' \subseteq spoiled \union {"race", "moved", "dropped"}
      /\ UNCHANGED <<remotes, meta, server, made, folders, origin, lock>>
  BY DEF ChangeRemotes, MayBegin
<1>8. IsTable(remotes)' /\ RecipeTypes' /\ LockTypes' /\ spoiled' \subseteq Event
  BY <1>0, <1>7 DEF RecipeTypes, LockTypes, Event, folders, lock
<1>9. SessionOK(t)
  BY <1>5 DEF SessionOK
<1> QED BY <1>2, <1>5, <1>6, <1>7, <1>8, <1>9, TypesStay

\* Its writes, one after the other.
LEMMA RegistryMoves ==
    ASSUME TypeInv, NEW p \in Proc, Registry(p)
    PROVE  /\ ChangeOK(session[p])
           /\ \E t : /\ session' = [session EXCEPT ![p] = t]
                     /\ \/ session[p].rest = <<>> /\ t = Idle
                        \/ /\ session[p].rest # <<>> /\ ChangeOK(t) /\ t.rest = <<>>
                           /\ t.table = session[p].table /\ t.move = session[p].move
                           /\ t.step \in {"save", "sweep"} \ {session[p].step}
           /\ \/ session[p].step = "save" /\ remotes' = session[p].table
                   /\ Recorded' = Recorded
              \/ /\ session[p].step = "sweep" /\ remotes' = remotes
                 /\ Recorded' = IF Recorded = None THEN None ELSE session[p].move[Recorded]
           /\ UNCHANGED <<origin, spoiled>>
           /\ TypeInv'
<1> DEFINE s == session[p]
<1>0. /\ IsTable(remotes) /\ RecipeTypes /\ LockTypes /\ spoiled \subseteq Event
      /\ MaxRevisions \in Nat
  BY TypesAre, RecipeBounds DEF TypeInv
<1>1. s.step \in {"save", "sweep"} /\ Continue(p)
      /\ UNCHANGED <<server, made, folders, origin, lock, spoiled>>
  BY DEF Registry, SaveRemotes, SweepMetadata
<1>2. ChangeOK(s)
  BY <1>1 DEF TypeInv, SessionOK, CommandOK, Idle
<1>3. PICK t : /\ session' = [session EXCEPT ![p] = t]
               /\ \/ s.rest = <<>> /\ t = Idle
                  \/ /\ s.rest # <<>> /\ ChangeOK(t) /\ t.rest = <<>>
                     /\ t.table = s.table /\ t.move = s.move
                     /\ t.step \in {"save", "sweep"} \ {s.step}
  <2>1. CASE s.rest = <<>>
    BY <1>1, <2>1 DEF Continue, Finish
  <2>2. CASE s.rest # <<>>
    <3> DEFINE t == [s EXCEPT !.step = Head(s.rest), !.rest = Tail(s.rest)]
    <3>1. Head(s.rest) \in {"save", "sweep"} \ {s.step} /\ Tail(s.rest) = <<>>
      <4>1. \/ s.step = "save" /\ s.rest = <<"sweep">>
            \/ s.step = "sweep" /\ s.rest = <<"save">>
        BY <1>2, <2>2 DEF ChangeOK
      <4>2. CASE s.step = "save" /\ s.rest = <<"sweep">>
        BY <4>2
      <4>3. CASE s.step = "sweep" /\ s.rest = <<"save">>
        BY <4>3
      <4> QED BY <4>1, <4>2, <4>3
    <3>2. /\ IsRecord(t, {"step", "rest", "table", "move"}) /\ t.step = Head(s.rest)
          /\ t.rest = Tail(s.rest) /\ t.table = s.table /\ t.move = s.move
      BY <1>2 DEF IsRecord, ChangeOK
    <3>3. session' = [session EXCEPT ![p] = t]
      BY <1>1, <2>2 DEF Continue
    <3> HIDE DEF t
    <3>4. ChangeOK(t)
      BY <1>2, <3>1, <3>2 DEF ChangeOK
    <3> QED BY <2>2, <3>1, <3>2, <3>3, <3>4
  <2> QED BY <2>1, <2>2
<1>4. SessionOK(t)
  BY <1>3 DEF SessionOK
<1>5. /\ meta \in [rev : Revision, remote : Name \union {None}] \union {NoMeta}
      /\ Recorded \in Name \union {None} /\ 0 \in Revision
  BY <1>0, RevisionsAre DEF RecipeTypes, Revision
<1>6. /\ \/ s.step = "save" /\ remotes' = s.table /\ Recorded' = Recorded
         \/ /\ s.step = "sweep" /\ remotes' = remotes
            /\ Recorded' = IF Recorded = None THEN None ELSE s.move[Recorded]
      /\ meta' \in [rev : Revision, remote : Name \union {None}] \union {NoMeta}
  <2>1. CASE SaveRemotes(p)
    BY <1>5, <2>1 DEF SaveRemotes, Recorded
  <2>2. CASE SweepMetadata(p, InCache)
    <3>1. CASE meta = NoMeta
      <4>1. meta' \in {NoMeta, [rev |-> 0, remote |-> None]} /\ Recorded = None
        BY <2>2, <3>1 DEF SweepMetadata, Recorded
      <4>2. Recorded' = None
        BY <4>1 DEF Recorded
      <4> QED BY <1>5, <2>2, <4>1, <4>2 DEF SweepMetadata
    <3>2. CASE meta # NoMeta
      <4>0. InCache
        BY <3>2 DEF InCache
      <4>1. PICK n : n = IF meta.remote = None THEN None ELSE s.move[meta.remote]
        OBVIOUS
      <4>2. meta' = [meta EXCEPT !.remote = n] /\ s.step = "sweep" /\ remotes' = remotes
        BY <2>2, <3>2, <4>0, <4>1 DEF SweepMetadata
      <4>3. meta \in [rev : Revision, remote : Name \union {None}] /\ Recorded = meta.remote
        BY <1>5, <3>2 DEF Recorded
      <4>4. n \in Name \union {None}
        BY <1>2, <4>1, <4>3 DEF ChangeOK
      <4>5. /\ meta' \in [rev : Revision, remote : Name \union {None}] /\ meta'.remote = n
            /\ meta' # NoMeta
        <5>1. meta' \in [rev : Revision, remote : Name \union {None}] /\ meta'.remote = n
          BY <4>2, <4>3, <4>4
        <5>2. "rev" \in DOMAIN meta' /\ "rev" \notin DOMAIN NoMeta
          BY <5>1 DEF NoMeta
        <5> QED BY <5>1, <5>2
      <4>6. Recorded' = n
        BY <4>5 DEF Recorded
      <4> QED BY <4>1, <4>2, <4>3, <4>5, <4>6
    <3> QED BY <3>1, <3>2
  <2> QED BY <2>1, <2>2 DEF Registry
<1>7. IsTable(remotes)'
  BY <1>0, <1>2, <1>6 DEF ChangeOK
<1>8. RecipeTypes' /\ LockTypes' /\ spoiled' \subseteq Event
  BY <1>0, <1>1, <1>6 DEF RecipeTypes, LockTypes, folders, lock
<1>9. TypeInv'
  BY <1>3, <1>4, <1>7, <1>8, TypesStay
<1> QED BY <1>1, <1>2, <1>3, <1>6, <1>9

LEMMA NextKeepsTypes ==
    ASSUME TypeInv, [Next]_vars
    PROVE  TypeInv'
<1>1. CASE UNCHANGED vars
  BY <1>1 DEF vars, folders, lock, TypeInv, TypeOK
<1>2. CASE Publish
  <2>0. MaxRevisions \in Nat /\ IsTable(remotes) /\ RecipeTypes /\ LockTypes
            /\ spoiled \subseteq Event
    BY TypesAre, RecipeBounds DEF TypeInv
  <2>1. PICK u \in Url : server' = [server EXCEPT ![u] = @ \union {made + 1}]
    BY <1>2 DEF Publish
  <2>2. made \in Nat /\ made < MaxRevisions /\ made' = made + 1 /\ made' \in Revision
    BY <1>2, <2>0 DEF Publish, RecipeTypes, Revision
  <2>3. server' \in [Url -> SUBSET (1..made')]
    <3>1. server \in [Url -> SUBSET (1..made)]
      BY <2>0 DEF RecipeTypes
    <3>2. 1..made \subseteq 1..made' /\ made + 1 \in 1..made'
      BY <2>2
    <3> QED BY <2>1, <3>1, <3>2
  <2>4. UNCHANGED <<remotes, meta, session, folders, origin, lock, spoiled>>
    BY <1>2 DEF Publish
  <2>5. RecipeTypes'
    BY <2>0, <2>2, <2>3, <2>4 DEF RecipeTypes, folders
  <2>6. TypeOK'
    BY <2>0, <2>4, <2>5 DEF TypeOK, RecipeTypes, LockTypes, Revision, Folder, Event, lock
  <2> QED BY <2>4, <2>6 DEF TypeInv
<1>3. ASSUME NEW p \in Proc, ChangeRemotes(p) \/ Registry(p) PROVE TypeInv'
  BY <1>3, ChangeMoves, RegistryMoves
<1>4. ASSUME NEW p \in Proc, StartInstall(p) \/ StartSources(p) \/ StartDownload(p)
                             \/ StartExport(p) \/ StartRemove(p)
      PROVE  TypeInv'
  BY <1>4, BeginTypes, WriterMoves
<1>5. ASSUME NEW p \in Proc, InstallStep(p) \/ ExportStep(p) PROVE TypeInv'
  BY <1>5, CommandTypes
<1> QED
  BY <1>1, <1>2, <1>3, <1>4, <1>5 DEF Next, InstallStep, ExportStep

LEMMA InitTypes == Init => TypeInv
<1> SUFFICES ASSUME Init PROVE TypeInv
  OBVIOUS
<1>1. IsTable(remotes)
  BY InitialRemotesAreTables DEF Init
<1>2. 0 \in Revision /\ NoFolder \in Folder
  <2>1. MaxRevisions \in Nat
    BY RecipeBounds
  <2>2. 0 \in Revision
    BY <2>1 DEF Revision
  <2> QED BY <2>2, FoldersAre
<1>3. RecipeTypes
  BY <1>2 DEF Init, RecipeTypes
<1>4. LockTypes /\ spoiled \subseteq Event
  BY DEF Init, LockTypes, Lock!PromiseInit
<1>5. IsRecord(session, Proc) /\ \A p \in Proc : SessionOK(session[p])
  BY DEF Init, IsRecord, SessionOK
<1> QED BY <1>1, <1>3, <1>4, <1>5, TypesAre DEF TypeInv

----------------------------------------------------------------------------
(* The remote in the metadata. *)

\* Who is at what.
LEMMA UsersAre ==
    ASSUME NEW p \in Proc
    PROVE  /\ Uses(session[p]) => ~InRegistry(p) /\ session[p] # Idle
           /\ session[p] = Idle => ~InRegistry(p) /\ ~Uses(session[p])
BY DEF Uses, InRegistry, Idle

\* A step that leaves the remotes and whom a record belongs to.
LEMMA LinkStays ==
    ASSUME Linked, NEW p \in Proc, NEW t, IsRecord(session, Proc),
           session' = [session EXCEPT ![p] = t], ~InRegistry(p),
           t.step \notin {"save", "sweep"},
           Stands({"race", "dropped"})' /\ Uses(t) =>
             /\ Uses(session[p]) \/ \A q \in Proc \ {p} : ~InRegistry(q)
             /\ t.table = remotes,
           spoiled \subseteq spoiled', UNCHANGED remotes,
           Stands({"race", "dropped"}) =>
             \/ Recorded' = None
             \/ Recorded' = Recorded /\ origin' = origin
             \/ /\ \A q \in Proc : ~InRegistry(q)
                /\ Recorded' \in Names(remotes) /\ origin' = UrlOf(remotes, Recorded')
    PROVE  Linked'
<1> SUFFICES ASSUME Stands({"race", "dropped"})' PROVE
        /\ \A q, r \in Proc : q # r /\ InRegistry(q)' => ~InRegistry(r)' /\ ~Uses(session'[r])
        /\ \A q \in Proc : Uses(session'[q]) => session'[q].table = remotes'
        /\ (\A q \in Proc : ~InRegistry(q)') => Fits(remotes, Recorded)'
        /\ \A q \in Proc : InRegistry(q)' => Pending(session[q])'
  BY DEF Linked
<1>1. Stands({"race", "dropped"})
  BY DEF Stands
<1>2. /\ session'[p] = t /\ \A q \in Proc \ {p} : session'[q] = session[q]
  BY SessionsMove
<1>3. ~InRegistry(p)' /\ \A q \in Proc \ {p} : InRegistry(q)' <=> InRegistry(q)
  BY <1>2 DEF InRegistry
<1>4. \A q, r \in Proc : q # r /\ InRegistry(q) => ~InRegistry(r) /\ ~Uses(session[r])
  BY <1>1 DEF Linked
<1>5. \A q, r \in Proc : q # r /\ InRegistry(q)' => ~InRegistry(r)' /\ ~Uses(session'[r])
  BY <1>2, <1>3, <1>4
<1>6. \A q \in Proc : Uses(session'[q]) => session'[q].table = remotes'
  BY <1>1, <1>2 DEF Linked
<1>7. ASSUME NEW table, Fits(table, Recorded), ~\A q \in Proc : ~InRegistry(q)
      PROVE  Fits(table, Recorded)'
  BY <1>1, <1>7 DEF Fits
<1>8. ASSUME \A q \in Proc : ~InRegistry(q)' PROVE Fits(remotes, Recorded)'
  <2>1. Fits(remotes, Recorded)
    BY <1>1, <1>3, <1>8 DEF Linked
  <2> QED BY <1>1, <2>1 DEF Fits
<1>9. ASSUME NEW q \in Proc, InRegistry(q)' PROVE Pending(session[q])'
  <2>1. q # p /\ InRegistry(q) /\ Pending(session[q]) /\ session'[q] = session[q]
    BY <1>1, <1>2, <1>3, <1>9 DEF Linked
  <2>2. Recorded' = None \/ (Recorded' = Recorded /\ origin' = origin)
    BY <1>1, <2>1
  <2> QED BY <2>1, <2>2 DEF Pending, Fits
<1> QED BY <1>5, <1>6, <1>8, <1>9

LEMMA CommandKeepsLink ==
    ASSUME TypeInv, Linked, NEW p \in Proc, InstallStep(p) \/ ExportStep(p)
    PROVE  Linked'
<1> DEFINE s == session[p]
<1>1. CommandOK(s) /\ GoesOn(p)
  BY CommandMoves
<1>2. PICK t : Onward(s, t) /\ session' = [session EXCEPT ![p] = t]
  BY <1>1 DEF GoesOn
<1>3. /\ s.step \notin {"idle", "save", "sweep"} /\ t.step \notin {"save", "sweep"}
      /\ ~InRegistry(p)
  BY <1>1, <1>2 DEF CommandOK, Onward, Idle, InRegistry
<1>4. Uses(t) => Uses(s) /\ t.table = s.table
  BY <1>2, <1>3 DEF Onward, Uses, Idle
<1>5. Stands({"race", "dropped"}) /\ Uses(s) => s.table = remotes
          /\ \A q \in Proc : ~InRegistry(q)
  BY <1>3 DEF Linked
<1>6. spoiled \subseteq spoiled' /\ UNCHANGED remotes
  BY InstallTouches, ExportTouches
<1>7. ASSUME Stands({"race", "dropped"})' PROVE Uses(t) => Uses(s) /\ t.table = remotes
  BY <1>4, <1>5, <1>6, <1>7 DEF Stands
<1>8. ASSUME Stands({"race", "dropped"})
      PROVE  \/ Recorded' = None
             \/ Recorded' = Recorded /\ origin' = origin
             \/ /\ \A q \in Proc : ~InRegistry(q)
                /\ Recorded' \in Names(remotes) /\ origin' = UrlOf(remotes, Recorded')
  <2>1. CASE RecordRemote(p)
    <3>1. s.step = "remote" /\ origin' = FromUrl(s)
              /\ \E r : meta' = [rev |-> r, remote |-> Head(s.todo)]
      BY <2>1 DEF RecordRemote
    <3>2. PICK r : meta' = [rev |-> r, remote |-> Head(s.todo)]
      BY <3>1
    <3>3. Recorded' = Head(s.todo)
      <4>1. "rev" \in DOMAIN meta' /\ "rev" \notin DOMAIN NoMeta /\ meta'.remote = Head(s.todo)
        BY <3>2 DEF NoMeta
      <4>2. meta' # NoMeta
        BY <4>1
      <4> QED BY <4>1, <4>2 DEF Recorded
    <3>4. Uses(s) /\ IsTable(s.table) /\ Listed(s.todo, s.table)
      BY <1>1, <3>1 DEF CommandOK, Looks, Uses
    <3>5. s.table = remotes /\ \A q \in Proc : ~InRegistry(q)
      BY <1>5, <1>8, <3>4
    <3>6. Head(s.todo) \in Names(s.table) /\ FromUrl(s) = UrlOf(s.table, Head(s.todo))
      BY <3>4, ListsAre DEF FromUrl
    <3> QED BY <3>1, <3>3, <3>5, <3>6
  <2>2. CASE ~RecordRemote(p)
    <3>1. \/ meta' = meta /\ origin' = origin
          \/ meta' = [rev |-> s.rev, remote |-> Recorded] /\ origin' = origin
          \/ meta' = NoMeta
      BY <2>2, InstallTouches, ExportTouches DEF ReviseMetadata, ExportStep
    <3>2. CASE meta' = meta /\ origin' = origin
      BY <3>2 DEF Recorded
    <3>3. CASE meta' = [rev |-> s.rev, remote |-> Recorded] /\ origin' = origin
      <4>1. "rev" \in DOMAIN meta' /\ "rev" \notin DOMAIN NoMeta /\ meta'.remote = Recorded
        BY <3>3 DEF NoMeta
      <4>2. meta' # NoMeta
        BY <4>1
      <4> QED BY <3>3, <4>1, <4>2 DEF Recorded
    <3>4. CASE meta' = NoMeta
      BY <3>4 DEF Recorded
    <3> QED BY <3>1, <3>2, <3>3, <3>4
  <2> QED BY <2>1, <2>2
<1>9. IsRecord(session, Proc)
  BY DEF TypeInv
<1> QED BY <1>2, <1>3, <1>6, <1>7, <1>8, <1>9, LinkStays

LEMMA BeginKeepsLink ==
    ASSUME TypeInv, Linked, NEW p \in Proc,
           StartInstall(p) \/ StartSources(p) \/ StartDownload(p) \/ StartExport(p)
               \/ StartRemove(p)
    PROVE  Linked'
<1>1. PICK t : /\ session' = [session EXCEPT ![p] = t] /\ CommandOK(t)
               /\ \/ t.table = remotes /\ (Others(p, InRegistry) => "race" \in spoiled')
                  \/ ~Uses(t)
  <2>1. CASE StartInstall(p) \/ StartSources(p) \/ StartDownload(p)
    <3>1. PICK t : Begin(p, t) /\ CommandOK(t) /\ t.table = remotes
      BY <2>1, BeginMoves
    <3>2. Others(p, InRegistry) => "race" \in spoiled'
      BY <3>1 DEF Begin
    <3> QED BY <3>1, <3>2 DEF Begin
  <2>2. CASE StartExport(p) \/ StartRemove(p)
    BY <2>2, WriterMoves DEF Uses
  <2> QED BY <2>1, <2>2
<1>2. /\ session[p] = Idle /\ UNCHANGED <<remotes, meta, origin>> /\ spoiled \subseteq spoiled'
  BY DEF StartInstall, StartSources, StartDownload, StartExport, StartRemove, Begin, MayBegin
<1>3. t.step \notin {"save", "sweep"} /\ ~InRegistry(p) /\ IsRecord(session, Proc)
  BY <1>1, <1>2, UsersAre DEF CommandOK, TypeInv
<1>4. ASSUME Stands({"race", "dropped"})'
      PROVE  Uses(t) =>
               /\ Uses(session[p]) \/ \A q \in Proc \ {p} : ~InRegistry(q)
               /\ t.table = remotes
  BY <1>1, <1>4 DEF Stands, Others
<1>5. Recorded' = Recorded /\ origin' = origin
  BY <1>2 DEF Recorded
<1> QED BY <1>1, <1>2, <1>3, <1>4, <1>5, LinkStays

LEMMA ChangeKeepsLink ==
    ASSUME TypeInv, Linked, NEW p \in Proc, ChangeRemotes(p)
    PROVE  Linked'
<1> SUFFICES ASSUME Stands({"race", "dropped"})' PROVE
        /\ \A q, r \in Proc : q # r /\ InRegistry(q)' => ~InRegistry(r)' /\ ~Uses(session'[r])
        /\ \A q \in Proc : Uses(session'[q]) => session'[q].table = remotes'
        /\ (\A q \in Proc : ~InRegistry(q)') => Fits(remotes, Recorded)'
        /\ \A q \in Proc : InRegistry(q)' => Pending(session[q])'
  BY DEF Linked
<1>1. PICK t : session' = [session EXCEPT ![p] = t] /\ ChangeOK(t) /\ Planned(t)
  BY ChangeMoves
<1>2. /\ session'[p] = t /\ \A q \in Proc \ {p} : session'[q] = session[q]
  BY <1>1, SessionsMove DEF TypeInv
<1>3. /\ spoiled' = spoiled \union (IF Others(p, Busy) THEN {"race"} ELSE {})
         \union (IF Moves(session'[p].table) THEN {"moved"} ELSE {})
         \union (IF Drops(session'[p].table) THEN {"dropped"} ELSE {})
      /\ UNCHANGED <<remotes, meta, origin>> /\ session[p] = Idle
  BY DEF ChangeRemotes, MayBegin
<1>4. Stands({"race", "dropped"}) /\ ~Others(p, Busy) /\ ~Drops(t.table)
  BY <1>2, <1>3 DEF Stands
<1>5. \A q \in Proc : session[q] = Idle
  BY <1>3, <1>4 DEF Others, Busy
<1>6. Fits(remotes, Recorded)
  BY <1>4, <1>5, UsersAre DEF Linked
<1>7. InRegistry(p)' /\ ~Uses(t) /\ \A q \in Proc \ {p} : ~InRegistry(q)' /\ ~Uses(session'[q])
  BY <1>1, <1>2, <1>5, UsersAre DEF InRegistry, ChangeOK, Uses, Idle
<1>8. Recorded' = Recorded /\ origin' = origin
  BY <1>3 DEF Recorded
<1>9. "moved" \notin spoiled' => "moved" \notin spoiled /\ ~Moves(t.table)
  BY <1>2, <1>3
<1>10. Pending(t)'
  <2>1. CASE Recorded = None
    <3>1. ~(t.step = "sweep" /\ t.rest = <<>>)
      BY <1>1 DEF Planned
    <3> QED BY <1>8, <2>1, <3>1 DEF Pending, Fits
  <2>2. CASE Recorded # None
    <3>1. Recorded \in Names(remotes)
              /\ ("moved" \notin spoiled => UrlOf(remotes, Recorded) = origin)
      BY <1>6, <2>2 DEF Fits
    <3>2. CASE t.step = "save" /\ t.rest = <<>>
      <4>1. Recorded \in Names(t.table)
        BY <1>1, <3>1, <3>2 DEF Planned
      <4>2. ~Moves(t.table) => UrlOf(t.table, Recorded) = UrlOf(remotes, Recorded)
        BY <3>1, <4>1 DEF Moves
      <4> QED BY <1>8, <1>9, <3>1, <3>2, <4>1, <4>2 DEF Pending, Fits
    <3>3. CASE t.rest # <<>>
      <4>1. t.move[Recorded] # None =>
              /\ t.move[Recorded] \in Names(t.table)
              /\ ~Moves(t.table) => UrlOf(t.table, t.move[Recorded]) = UrlOf(remotes, Recorded)
        BY <1>1, <1>4, <3>1, <3>3 DEF Planned
      <4> QED BY <1>8, <1>9, <3>1, <3>3, <4>1 DEF Pending, Fits
    <3> QED BY <1>1, <3>2, <3>3 DEF Planned
  <2> QED BY <2>1, <2>2
<1> QED BY <1>2, <1>7, <1>10

LEMMA RegistryKeepsLink ==
    ASSUME TypeInv, Linked, NEW p \in Proc, Registry(p)
    PROVE  Linked'
<1> DEFINE s == session[p]
<1> SUFFICES ASSUME Stands({"race", "dropped"})' PROVE
        /\ \A q, r \in Proc : q # r /\ InRegistry(q)' => ~InRegistry(r)' /\ ~Uses(session'[r])
        /\ \A q \in Proc : Uses(session'[q]) => session'[q].table = remotes'
        /\ (\A q \in Proc : ~InRegistry(q)') => Fits(remotes, Recorded)'
        /\ \A q \in Proc : InRegistry(q)' => Pending(session[q])'
  BY DEF Linked
<1>1. PICK t : /\ session' = [session EXCEPT ![p] = t]
               /\ \/ s.rest = <<>> /\ t = Idle
                  \/ /\ s.rest # <<>> /\ ChangeOK(t) /\ t.rest = <<>>
                     /\ t.table = s.table /\ t.move = s.move
                     /\ t.step \in {"save", "sweep"} \ {s.step}
  BY RegistryMoves
<1>2. /\ ChangeOK(s) /\ UNCHANGED <<origin, spoiled>>
      /\ \/ s.step = "save" /\ remotes' = s.table /\ Recorded' = Recorded
         \/ /\ s.step = "sweep" /\ remotes' = remotes
            /\ Recorded' = IF Recorded = None THEN None ELSE s.move[Recorded]
  BY RegistryMoves
<1>3. /\ session'[p] = t /\ \A q \in Proc \ {p} : session'[q] = session[q]
  BY <1>1, SessionsMove DEF TypeInv
<1>4. Stands({"race", "dropped"}) /\ InRegistry(p)
  BY <1>2 DEF Stands, InRegistry
<1>5. Pending(s) /\ \A q \in Proc \ {p} : ~InRegistry(q) /\ ~Uses(session[q])
  BY <1>4 DEF Linked
<1>6. ~Uses(t) /\ \A q \in Proc \ {p} : ~InRegistry(q)' /\ ~Uses(session'[q])
  BY <1>1, <1>3, <1>5 DEF InRegistry, Uses, Idle
<1>7. CASE s.rest = <<>>
  <2>1. t = Idle /\ ~InRegistry(p)'
    BY <1>1, <1>3, <1>7 DEF InRegistry, Idle
  <2>2. Fits(remotes, Recorded)'
    <3>1. CASE s.step = "save"
      BY <1>2, <1>5, <1>7, <3>1 DEF Pending, Fits
    <3>2. CASE s.step = "sweep"
      BY <1>2, <1>5, <1>7, <3>2 DEF Pending, Fits
    <3> QED BY <1>2, <3>1, <3>2
  <2> QED BY <1>3, <1>6, <2>1, <2>2
<1>8. CASE s.rest # <<>>
  <2>1. InRegistry(p)'
    BY <1>1, <1>3, <1>8 DEF InRegistry
  <2>2. Pending(t)'
    <3>1. CASE s.step = "save"
      BY <1>1, <1>2, <1>5, <1>8, <3>1 DEF Pending, Fits
    <3>2. CASE s.step = "sweep"
      BY <1>1, <1>2, <1>5, <1>8, <3>2 DEF Pending, Fits
    <3> QED BY <1>2, <3>1, <3>2
  <2> QED BY <1>3, <1>6, <2>1, <2>2
<1> QED BY <1>7, <1>8

----------------------------------------------------------------------------
(* What an update knows. *)

AnswersNewer(p) ==
    Steady /\ Answers(p, "install") => answer'[p] >= session[p].found

LEMMA NewerStays ==
    ASSUME NoOlder, NEW p \in Proc, spoiled \subseteq spoiled',
           \A q \in Proc \ {p} : session'[q] = session[q],
           Steady' => export' = export \/ \A q \in Proc \ {p} : ~Inside(q),
           Steady' /\ Inside(p)' => Newer(session[p])'
    PROVE  NoOlder'
<1> SUFFICES ASSUME Steady', NEW q \in Proc, Inside(q)' PROVE Newer(session[q])'
  BY DEF NoOlder
<1>1. Steady
  BY DEF Steady, Stands
<1>2. CASE q = p
  BY <1>2
<1>3. CASE q # p
  <2>1. session'[q] = session[q] /\ Inside(q) /\ export' = export
    BY <1>3 DEF Inside
  <2>2. Newer(session[q])
    BY <1>1, <2>1 DEF NoOlder
  <2> QED BY <2>1, <2>2 DEF Newer
<1> QED BY <1>2, <1>3

LEMMA CommandNewer ==
    ASSUME TypeInv, RecipeInv, NoOlder, NEW p \in Proc, InstallStep(p) \/ ExportStep(p)
    PROVE  /\ Steady' /\ Inside(p)' => Newer(session[p])'
           /\ AnswersNewer(p)
<1> DEFINE s == session[p]
<1>1. /\ CommandOK(s) /\ ShapeOK /\ CommandAt(p) /\ MaxRevisions \in Nat
      /\ s.rev \in Nat /\ s.want \in Nat /\ s.found \in Nat /\ export.rev \in Nat
  <2>1. CommandOK(s) /\ MaxRevisions \in Nat /\ export.rev \in 0..MaxRevisions
    BY CommandMoves, RecipeBounds, RevisionsAre DEF Revision
  <2>2. {s.rev, s.want, s.found} \subseteq 0..MaxRevisions /\ CommandAt(p)
    BY <2>1 DEF CommandOK, CommandAt
  <2> QED BY <2>1, <2>2 DEF RecipeInv
<1>2. spoiled \subseteq spoiled' /\ (Steady' => Steady)
  BY InstallTouches, ExportTouches DEF Steady, Stands
<1>3. ASSUME Steady, Inside(p) PROVE Work(p) /\ Newer(s)
  BY <1>3, InsideAlone DEF NoOlder
<1>4. meta' = NoMeta \/ IsRecord(meta', {"rev", "remote"})
  <2>1. meta' \in [rev : Revision, remote : Name \union {None}] \union {NoMeta}
    BY CommandTypes, TypesAre DEF TypeInv, TypeOK, Revision
  <2> QED BY <2>1 DEF IsRecord
<1>5. ASSUME NEW r, End(p, r),
             Steady /\ Inside(p) /\ s.op = "install" /\ r # 0 => r >= s.found
      PROVE  (Steady' /\ Inside(p)' => Newer(session[p])') /\ AnswersNewer(p)
  <2>1. session'[p] = Idle /\ answer'[p] = r
    BY <1>1, <1>4, <1>5, EndIsShaped
  <2>2. ~Inside(p)'
    BY <2>1 DEF Inside, Idle
  <2> QED BY <1>5, <2>1, <2>2 DEF AnswersNewer, Answers
<1>6. ASSUME NEW to, Step(p, to), UNCHANGED <<answer>>, to \notin {"idle", "save", "sweep"},
             Steady' /\ to \in {"remove", "receive", "unzip", "record", "remote"}
                 /\ s.found # 0 =>
               s.rev >= s.found,
             to \notin {"look", "compare", "clear"}
      PROVE  (Steady' /\ Inside(p)' => Newer(session[p])') /\ AnswersNewer(p)
  <2>1. session'[p].step = to /\ session'[p].rev = s.rev /\ session'[p].found = s.found
    BY <1>1, <1>4, <1>6, StepIsShaped DEF CommandFields
  <2>2. session'[p] # Idle
    BY <1>6, <2>1 DEF Idle
  <2> QED BY <1>6, <2>1, <2>2 DEF Newer, AnswersNewer, Answers
<1>7. CASE Enter(p)
  <2> DEFINE found == IF s.update /\ s.want = 0 /\ HasRecipe THEN export.rev ELSE 0
             t == [s EXCEPT !.step = IF s.step = "await" THEN "complete" ELSE "look",
                            !.found = found]
  <2>1. session' = [session EXCEPT ![p] = t] /\ export' = export
    BY <1>7 DEF Enter, folders
  <2>2. t.found \in {0, export.rev} /\ t.step \in {"look", "complete"}
    <3>1. IsRecord(s, CommandFields)
      BY <1>1, CommandIsRecord
    <3> QED BY <3>1 DEF IsRecord, CommandFields
  <2> HIDE DEF t
  <2>3. session'[p] = t
    BY <2>1, SessionsMove DEF TypeInv
  <2>4. session'[p] # Idle
    BY <2>2, <2>3 DEF Idle
  <2> QED BY <2>1, <2>2, <2>3, <2>4 DEF Newer, AnswersNewer, Answers
<1>8. CASE Seek(p) \/ SeekDifferent(p) \/ RemoveOld(p)
  <2>1. PICK names, r : /\ Fetch(p, names, r) /\ UNCHANGED <<answer, meta>> /\ Inside(p)
                        /\ \/ s.step = "remove" /\ r = s.rev
                           \/ s.step = "look" /\ ~HasRecipe
                           \/ s.step = "look" /\ s.want # 0
    <3>1. PICK names, r : names = Candidates(s) /\ r = s.want
      OBVIOUS
    <3>2. PICK todo, rev : todo = s.todo /\ rev = s.rev
      OBVIOUS
    <3>3. CASE Seek(p) \/ SeekDifferent(p)
      BY <3>1, <3>3 DEF Seek, SeekDifferent, Different, Inside, Fetch
    <3>4. CASE RemoveOld(p)
      BY <3>2, <3>4 DEF RemoveOld, Inside, Fetch
    <3> QED BY <1>8, <3>3, <3>4
  <2>2. session'[p].step = "clear" /\ session'[p].want = r /\ session'[p].found = s.found
    BY <1>1, <2>1, FetchIsShaped
  <2>3. session'[p] # Idle
    BY <2>2 DEF Idle
  <2>4. ASSUME Steady', s.found # 0 PROVE r >= s.found
    <3>1. Work(p) /\ Newer(s)
      BY <1>2, <1>3, <2>1, <2>4
    <3> QED BY <2>1, <2>4, <3>1 DEF Work, Newer
  <2> QED BY <2>2, <2>3, <2>4 DEF Newer, AnswersNewer, Answers
<1>9. ASSUME Steady, Inside(p), s.step \in {"look", "compare"}, HasRecipe
      PROVE  meta.rev \in Nat /\ meta.rev >= s.found
  <2>1. Work(p) /\ Newer(s)
    BY <1>3, <1>9
  <2>2. meta # NoMeta /\ export = Whole(meta.rev)
    BY <1>9, <2>1 DEF Work, Sound
  <2>3. meta.rev \in Nat /\ meta.rev = export.rev
    <3>1. meta.rev \in 0..MaxRevisions
      BY <2>2, RevisionsAre DEF Revision
    <3> QED BY <1>1, <2>2, <3>1, NoFolderIsNothing
  <2> QED BY <1>1, <1>9, <2>1, <2>3 DEF Newer
<1>10. CASE UseCached(p)
  <2>1. PICK r : r = meta.rev
    OBVIOUS
  <2>2. End(p, r) /\ s.step = "look" /\ HasRecipe
    BY <1>10, <2>1 DEF UseCached
  <2> QED BY <1>5, <1>9, <2>1, <2>2
<1>11. CASE AskManifest(p)
  <2>1. PICK m : m = meta.rev
    OBVIOUS
  <2>2. s.step = "look" /\ HasRecipe /\ export' = export /\ Inside(p)
    BY <1>11 DEF AskManifest, folders, Inside
  <2>3. CASE End(p, m)
    BY <1>5, <1>9, <2>1, <2>2, <2>3
  <2>4. CASE ~End(p, m)
    <3>1. PICK r : session' = [session EXCEPT ![p].step = "compare", ![p].rev = r,
                                              ![p].todo = <<Chosen(s)>>]
      BY <1>11, <2>1, <2>4 DEF AskManifest
    <3> DEFINE t == [s EXCEPT !.step = "compare", !.rev = r, !.todo = <<Chosen(s)>>]
    <3>2. t.step = "compare" /\ t.found = s.found
      <4>1. IsRecord(s, CommandFields)
        BY <1>1, CommandIsRecord
      <4> QED BY <4>1 DEF IsRecord, CommandFields
    <3>3. session' = [session EXCEPT ![p] = t]
      BY <3>1
    <3> HIDE DEF t
    <3>4. session'[p] = t /\ session'[p] # Idle
      <4>1. session'[p] = t
        BY <3>2, <3>3, SessionsMove DEF TypeInv
      <4> QED BY <3>2, <4>1 DEF Idle
    <3>5. Steady' => Newer(s)
      BY <1>2, <1>3, <2>2
    <3> QED BY <2>2, <3>2, <3>4, <3>5 DEF Newer, AnswersNewer, Answers
  <2> QED BY <2>3, <2>4
<1>12. CASE Compare(p)
  <2>1. PICK m : m = meta.rev
    OBVIOUS
  <2>2. s.step = "compare" /\ Inside(p)
    BY <1>12 DEF Compare, Inside
  <2>3. CASE End(p, m)
    <3>1. Steady => HasRecipe
      BY <1>3, <2>2 DEF Work
    <3> QED BY <1>5, <1>9, <2>1, <2>2, <2>3, <3>1
  <2>4. CASE ~End(p, m)
    <3>1. s.rev > export.rev /\ Step(p, "remove") /\ UNCHANGED answer
      BY <1>12, <2>1, <2>4 DEF Compare
    <3>2. Steady' /\ s.found # 0 => s.rev >= s.found
      BY <1>1, <1>2, <1>3, <2>2, <3>1 DEF Newer
    <3> QED BY <1>6, <3>1, <3>2
  <2> QED BY <2>3, <2>4
<1>13. CASE Refuse(p) \/ Break(p)
  BY <1>5, <1>13 DEF Refuse, Break, Fail
<1>14. CASE Clear(p)
  <2>0. s.step = "clear" /\ Inside(p)
    BY <1>14 DEF Clear, Inside
  <2>1. CASE End(p, 0)
    BY <1>5, <2>1
  <2>2. CASE ~End(p, 0)
    <3>1. \/ \E r : /\ session' = [session EXCEPT ![p].step = "receive", ![p].rev = r]
                    /\ s.want # 0 => r = s.want
          \/ session' = [session EXCEPT ![p].todo = Tail(@)]
      BY <1>14, <2>2 DEF Clear, Fail
    <3>2. IsRecord(s, CommandFields)
      BY <1>1, CommandIsRecord
    <3>3. Steady' => Newer(s)
      BY <1>2, <1>3, <2>0
    <3>4. PICK t : /\ session' = [session EXCEPT ![p] = t] /\ t.found = s.found
                   /\ \/ t.step = "receive" /\ (s.want # 0 => t.rev = s.want)
                      \/ t.step = "clear" /\ t.want = s.want
      <4>1. CASE \E r : /\ session' = [session EXCEPT ![p].step = "receive", ![p].rev = r]
                        /\ s.want # 0 => r = s.want
        <5>1. PICK r : /\ session' = [session EXCEPT ![p].step = "receive", ![p].rev = r]
                       /\ s.want # 0 => r = s.want
          BY <4>1
        <5> DEFINE t == [s EXCEPT !.step = "receive", !.rev = r]
        <5>2. t.step = "receive" /\ t.rev = r /\ t.found = s.found
          BY <3>2 DEF IsRecord, CommandFields
        <5>3. session' = [session EXCEPT ![p] = t]
          BY <5>1
        <5> HIDE DEF t
        <5> QED BY <5>1, <5>2, <5>3
      <4>2. CASE session' = [session EXCEPT ![p].todo = Tail(@)]
        <5> DEFINE t == [s EXCEPT !.todo = Tail(s.todo)]
        <5>1. t.step = "clear" /\ t.want = s.want /\ t.found = s.found
          BY <2>0, <3>2 DEF IsRecord, CommandFields
        <5>2. session' = [session EXCEPT ![p] = t]
          BY <4>2
        <5> HIDE DEF t
        <5> QED BY <5>1, <5>2
      <4> QED BY <3>1, <4>1, <4>2
    <3>5. session'[p] = t /\ session'[p] # Idle
      <4>1. session'[p] = t
        BY <3>4, SessionsMove DEF TypeInv
      <4> QED BY <3>4, <4>1 DEF Idle
    <3> QED BY <1>1, <2>0, <3>3, <3>4, <3>5 DEF Newer, AnswersNewer, Answers
  <2> QED BY <2>1, <2>2
<1>15. CASE Receive(p) \/ Unzip(p) \/ Record(p) \/ RecordRemote(p)
  <2>1. s.step \in {"receive", "unzip", "record", "remote"} /\ Inside(p)
    BY <1>15 DEF Receive, Unzip, Record, RecordRemote, Inside
  <2>2. Steady /\ s.found # 0 => s.rev >= s.found
    BY <1>3, <2>1 DEF Newer
  <2>3. PICK r : r = s.rev
    OBVIOUS
  <2>4. CASE End(p, r)
    BY <1>1, <1>5, <2>2, <2>3, <2>4
  <2>5. CASE ~End(p, r)
    <3>1. PICK to \in {"unzip", "record", "remote", "complete"} : Step(p, to)
              /\ UNCHANGED answer
      BY <1>15, <2>3, <2>5 DEF Receive, Unzip, Record, RecordRemote
    <3> QED BY <1>2, <1>6, <2>2, <3>1
  <2> QED BY <2>4, <2>5
<1>16. CASE SourcesThere(p) \/ FetchSources(p) \/ ReviseMetadata(p) \/ RemoveBase(p)
  <2>1. PICK m : m = s.rev
    OBVIOUS
  <2>2. End(p, m) \/ End(p, 0)
    BY <1>16, <2>1 DEF SourcesThere, FetchSources, ReviseMetadata, RemoveBase, Fail
  <2>3. s.op # "install"
    BY <1>1, <1>16 DEF SourcesThere, FetchSources, ReviseMetadata, RemoveBase, CommandOK, Looks
  <2> QED BY <1>5, <2>2, <2>3
<1>17. CASE EnterExport(p) \/ CopyRecipe(p) \/ SignRecipe(p)
  <2>1. PICK to \in {"copy", "sign", "revise"} : Step(p, to) /\ UNCHANGED answer
    BY <1>17 DEF EnterExport, CopyRecipe, SignRecipe
  <2> QED BY <1>6, <2>1
<1> QED BY <1>7, <1>8, <1>10, <1>11, <1>12, <1>13, <1>14, <1>15, <1>16, <1>17
        DEF InstallStep, ExportStep

LEMMA AllLinked ==
    ASSUME TypeInv, Linked, [Next]_vars
    PROVE  Linked'
<1>1. CASE UNCHANGED <<remotes, meta, session, origin, spoiled>>
  BY <1>1 DEF Linked, Stands, InRegistry, Uses, Pending, Fits, Recorded
<1>2. CASE Publish \/ UNCHANGED vars
  BY <1>1, <1>2 DEF Publish, vars
<1>3. ASSUME NEW p \in Proc, ChangeRemotes(p) \/ Registry(p) PROVE Linked'
  BY <1>3, ChangeKeepsLink, RegistryKeepsLink
<1>4. ASSUME NEW p \in Proc, StartInstall(p) \/ StartSources(p) \/ StartDownload(p)
                             \/ StartExport(p) \/ StartRemove(p)
      PROVE  Linked'
  BY <1>4, BeginKeepsLink
<1>5. ASSUME NEW p \in Proc, InstallStep(p) \/ ExportStep(p) PROVE Linked'
  BY <1>5, CommandKeepsLink
<1> QED
  BY <1>2, <1>3, <1>4, <1>5 DEF Next, InstallStep, ExportStep

LEMMA NoneOlder ==
    ASSUME TypeInv, RecipeInv, NoOlder, [Next]_vars
    PROVE  NoOlder' /\ \A p \in Proc : AnswersNewer(p)
<1>1. CASE UNCHANGED <<session, export, spoiled>>
  <2>1. NoOlder'
    BY <1>1 DEF NoOlder, Steady, Stands, Inside, Newer
  <2>2. \A p \in Proc : AnswersNewer(p)
    BY <1>1 DEF AnswersNewer, Answers, Inside, Idle
  <2> QED BY <2>1, <2>2
<1>2. CASE Publish \/ UNCHANGED vars
  BY <1>1, <1>2 DEF Publish, vars, folders
<1>3. ASSUME NEW p \in Proc, NEW t, session' = [session EXCEPT ![p] = t],
             Steady' => export' = export \/ \A q \in Proc \ {p} : ~Inside(q),
             spoiled \subseteq spoiled',
             Steady' /\ Inside(p)' => Newer(session[p])', AnswersNewer(p)
      PROVE  NoOlder' /\ \A q \in Proc : AnswersNewer(q)
  <2>1. \A q \in Proc \ {p} : session'[q] = session[q]
    BY <1>3, SessionsMove DEF TypeInv
  <2>2. NoOlder'
    BY <1>3, <2>1, NewerStays
  <2>3. \A q \in Proc \ {p} : AnswersNewer(q)
    BY <2>1 DEF AnswersNewer, Answers, Inside, Idle
  <2> QED BY <1>3, <2>2, <2>3
<1>4. ASSUME NEW p \in Proc, ChangeRemotes(p) \/ Registry(p)
      PROVE  NoOlder' /\ \A q \in Proc : AnswersNewer(q)
  <2>1. PICK t : session' = [session EXCEPT ![p] = t] /\ (t = Idle \/ ChangeOK(t))
    BY <1>4, ChangeMoves, RegistryMoves
  <2>2. session'[p] = t /\ ~Inside(p) /\ ~Inside(p)'
    <3>1. session'[p] = t
      BY <2>1, SessionsMove DEF TypeInv
    <3>2. session[p] = Idle \/ ChangeOK(session[p])
      BY <1>4, ChangeMoves, RegistryMoves
    <3> QED BY <2>1, <3>1, <3>2 DEF Inside, ChangeOK, Idle
  <2>3. export' = export /\ spoiled \subseteq spoiled'
    BY <1>4 DEF ChangeRemotes, Registry, folders
  <2> QED BY <1>3, <2>1, <2>2, <2>3 DEF AnswersNewer, Answers
<1>5. ASSUME NEW p \in Proc, StartInstall(p) \/ StartSources(p) \/ StartDownload(p)
                             \/ StartExport(p) \/ StartRemove(p)
      PROVE  NoOlder' /\ \A q \in Proc : AnswersNewer(q)
  <2>1. PICK t : session' = [session EXCEPT ![p] = t] /\ t.found = 0
    BY <1>5, BeginMoves, WriterMoves DEF Begin
  <2>2. session'[p] = t /\ session[p] = Idle /\ spoiled \subseteq spoiled'
    <3>1. session'[p] = t
      BY <2>1, SessionsMove DEF TypeInv
    <3> QED BY <1>5, <3>1 DEF StartInstall, StartSources, StartDownload,
               StartExport, StartRemove, Begin, MayBegin
  <2>3. Newer(session[p])' /\ AnswersNewer(p)
    BY <2>1, <2>2 DEF Newer, AnswersNewer, Answers, Inside, Idle
  <2>4. Steady' => export' = export \/ \A q \in Proc \ {p} : ~Inside(q)
    <3>1. CASE StartInstall(p) \/ StartSources(p) \/ StartDownload(p)
      BY <3>1 DEF StartInstall, StartSources, StartDownload, folders
    <3>2. CASE StartExport(p) \/ StartRemove(p)
      BY <3>2 DEF StartExport, StartRemove, Overlap, Others, Steady, Stands
    <3> QED BY <1>5, <3>1, <3>2
  <2> QED BY <1>3, <2>1, <2>2, <2>3, <2>4
<1>6. ASSUME NEW p \in Proc, InstallStep(p) \/ ExportStep(p)
      PROVE  NoOlder' /\ \A q \in Proc : AnswersNewer(q)
  <2>1. PICK t : session' = [session EXCEPT ![p] = t]
    BY <1>6, CommandMoves DEF GoesOn
  <2>2. spoiled \subseteq spoiled' /\ (Steady' => Steady)
    BY <1>6, InstallTouches, ExportTouches DEF Steady, Stands
  <2>3. Steady' => export' = export \/ \A q \in Proc \ {p} : ~Inside(q)
    <3>1. CASE Enter(p)
      BY <3>1 DEF Enter, folders
    <3>2. CASE ~Enter(p)
      <4>1. Inside(p)
        BY <1>6, <3>2 DEF InstallStep, ExportStep, Seek, SeekDifferent, UseCached, AskManifest,
           Compare, RemoveOld, Refuse, Clear, Receive, Unzip, Record, RecordRemote, Break,
           SourcesThere, FetchSources, EnterExport, CopyRecipe, SignRecipe, ReviseMetadata,
           RemoveBase, Inside
      <4> QED BY <2>2, <4>1, InsideAlone
    <3> QED BY <3>1, <3>2
  <2>4. (Steady' /\ Inside(p)' => Newer(session[p])') /\ AnswersNewer(p)
    BY <1>6, CommandNewer
  <2> QED BY <1>3, <2>1, <2>2, <2>3, <2>4
<1> QED
  BY <1>2, <1>4, <1>5, <1>6 DEF Next, InstallStep, ExportStep

RegistryInv == TypeInv /\ Linked /\ NoOlder /\ RecipeInv

LEMMA SpecKeepsAll == Spec => []RegistryInv
<1>1. Init => RegistryInv
  <2> SUFFICES ASSUME Init PROVE RegistryInv
    OBVIOUS
  <2>1. TypeInv /\ RecipeInv
    BY InitTypes, InitKeeps
  <2>2. \A p \in Proc : session[p] = Idle
    BY DEF Init
  <2>3. \A p \in Proc : ~InRegistry(p) /\ ~Uses(session[p]) /\ ~Inside(p)
    BY <2>2, UsersAre DEF Inside, Idle
  <2>4. Recorded = None
    BY DEF Init, Recorded
  <2> QED BY <2>1, <2>3, <2>4 DEF RegistryInv, Linked, NoOlder, Fits
<1>2. RegistryInv /\ [Next]_vars => RegistryInv'
  BY NextKeepsTypes, AllLinked, NoneOlder, NextKeeps DEF RegistryInv
<1> QED
  BY <1>1, <1>2, PTL DEF Spec

\* Every file and every process's memory holds what it should: a name is in remotes.json
\* once, and no server has a revision that was not made.
THEOREM TypesAreKept == Spec => []TypeOK
<1>1. RegistryInv => TypeOK
  BY DEF RegistryInv, TypeInv
<1> QED
  BY SpecKeepsAll, <1>1, PTL

\* The remote in the metadata of a recipe exists, and leads to the server the recipe was
\* fetched from, after any number of additions, renamings, removals and replacements, unless
\* a command ran beside a change, two remotes became one, or the user moved the name.
THEOREM RecordedRemoteLeadsBack == Spec => []RecordedRemoteIsOrigin
<1>1. RegistryInv => RecordedRemoteIsOrigin
  <2> SUFFICES ASSUME RegistryInv, Stands({"race", "dropped"}) PROVE
        /\ (\A p \in Proc : ~InRegistry(p)) => Recorded \in Names(remotes) \union {None}
        /\ Stands({"moved"}) /\ (\A p \in Proc : ~Busy(p)) /\ Recorded \in Names(remotes) =>
              UrlOf(remotes, Recorded) = origin
    BY DEF RecordedRemoteIsOrigin
  <2>1. (\A p \in Proc : ~InRegistry(p)) => Fits(remotes, Recorded)
    BY DEF RegistryInv, Linked
  <2>2. (\A p \in Proc : ~Busy(p)) => \A p \in Proc : ~InRegistry(p)
    BY UsersAre DEF Busy
  <2>3. None \notin Names(remotes)
    BY TypesAre, TableHas, NoneIsNoName DEF RegistryInv, TypeInv
  <2> QED BY <2>1, <2>2, <2>3 DEF Fits, Stands
<1> QED
  BY SpecKeepsAll, <1>1, PTL

\* `conan install --update' does not leave an older recipe than it found, whatever the
\* remotes do between the manifest and the download.
THEOREM UpdatesGoForward == Spec => UpdateNeverGoesBack
<1> DEFINE Forward == Stands({"overlap", "part"}) =>
             \A p \in Proc : Answers(p, "install") => answer'[p] >= session[p].found
<1>1. RegistryInv /\ [Next]_vars => [Forward]_vars
  BY NoneOlder DEF RegistryInv, AnswersNewer, Steady
<1> QED
  BY SpecKeepsAll, <1>1, PTL DEF Spec, UpdateNeverGoesBack
----------------------------------------------------------------------------
(* What the commands do with the recipe lock is what LockPromise allows. *)

IntactIsKnown == intact \in BOOLEAN
PromiseStep == IntactIsKnown' /\ [Lock!PromiseNext]_(Lock!promiseVars)

\* A holder leaves, or somebody comes.
LEMMA LeavingKeeps ==
    ASSUME IntactIsKnown, NEW p \in Proc, UNCHANGED lock \/ Unlock(p)
    PROVE  PromiseStep
BY DEF IntactIsKnown, PromiseStep, Unlock, lock, Lock!PromiseNext, Lock!promiseVars, Lock!Withdraw, Lock!Lose
LEMMA ComingKeeps ==
    ASSUME IntactIsKnown, NEW p \in Proc, TakeLock(p)
    PROVE  PromiseStep
BY DEF IntactIsKnown, PromiseStep, TakeLock, Lock!AdmitWriter, Lock!PromiseNext, Lock!Lose

LEMMA CommandKeepsPromise ==
    ASSUME IntactIsKnown, NEW p \in Proc, InstallStep(p) \/ ExportStep(p)
    PROVE  PromiseStep
<1>1. CASE Enter(p) \/ EnterExport(p)
  BY <1>1, ComingKeeps DEF Enter, EnterExport
<1>2. CASE RemoveOld(p)
  BY <1>2 DEF RemoveOld, IntactIsKnown, PromiseStep, Lock!PromiseNext, Lock!Lose
<1>3. CASE Seek(p) \/ SeekDifferent(p) \/ Receive(p) \/ Unzip(p) \/ Record(p) \/ CopyRecipe(p)
  <2>1. UNCHANGED lock
    BY <1>3 DEF Seek, SeekDifferent, Receive, Unzip, Record, CopyRecipe, lock
  <2> QED BY <2>1, LeavingKeeps
<1>4. CASE UseCached(p) \/ AskManifest(p) \/ Compare(p) \/ Refuse(p) \/ Clear(p)
             \/ RecordRemote(p)
  <2>1. UNCHANGED lock \/ \E r : End(p, r)
    BY <1>4 DEF UseCached, AskManifest, Compare, Refuse, Clear, RecordRemote, Fail
  <2> QED BY <2>1, LeavingKeeps DEF End, lock
<1>5. CASE Break(p) \/ SourcesThere(p) \/ FetchSources(p) \/ ReviseMetadata(p) \/ RemoveBase(p)
  <2>1. \E r : End(p, r)
    BY <1>5 DEF Break, SourcesThere, FetchSources, ReviseMetadata, RemoveBase, Fail
  <2> QED BY <2>1, LeavingKeeps DEF End
<1>6. CASE SignRecipe(p)
  BY <1>6, LeavingKeeps DEF SignRecipe
<1> QED
  BY <1>1, <1>2, <1>3, <1>4, <1>5, <1>6 DEF InstallStep, ExportStep

\* Every command takes and leaves the recipe lock as the lock promises, until an update or a
\* removal deletes the lock's files; from then on the promise does not come back.
THEOREM CommandsKeepThePromise == Spec => Lock!PromiseSpec
<1> USE DEF Lock!promiseVars
<1>1. Init => Lock!PromiseInit /\ IntactIsKnown
  BY DEF Init, IntactIsKnown, Lock!PromiseInit
<1>2. IntactIsKnown /\ [Next]_vars => PromiseStep
  <2> SUFFICES ASSUME IntactIsKnown, [Next]_vars PROVE PromiseStep
    OBVIOUS
  <2>1. CASE UNCHANGED vars \/ Publish
    <3>1. UNCHANGED lock
      BY <2>1 DEF vars, lock, Publish
    <3> QED BY <3>1 DEF PromiseStep, IntactIsKnown, lock
  <2>2. ASSUME NEW p \in Proc, ChangeRemotes(p) \/ Registry(p) \/ StartInstall(p)
                 \/ StartSources(p) \/ StartDownload(p) \/ StartExport(p)
        PROVE  PromiseStep
    <3>1. UNCHANGED lock
      BY <2>2 DEF ChangeRemotes, Registry, StartInstall, StartSources, StartDownload,
         StartExport, lock
    <3> QED BY <3>1, LeavingKeeps
  <2>3. ASSUME NEW p \in Proc, StartRemove(p) PROVE PromiseStep
    BY <2>3 DEF StartRemove, IntactIsKnown, PromiseStep, Lock!PromiseNext, Lock!promiseVars, Lock!Lose
  <2>4. ASSUME NEW p \in Proc, InstallStep(p) \/ ExportStep(p) PROVE PromiseStep
    BY <2>4, CommandKeepsPromise
  <2> QED BY <2>1, <2>2, <2>3, <2>4 DEF Next, InstallStep, ExportStep
<1> QED
  BY <1>1, <1>2, PTL DEF Spec, Lock!PromiseSpec, PromiseStep
=============================================================================
