-------------------------- MODULE RestClientProofs --------------------------
(***************************************************************************)
(* RestClient keeps its types, no request ever speaks for one user with    *)
(* the token of another, a call that reports success has transferred all   *)
(* its files whole, and if it was alone it leaves its login in the         *)
(* database: for any number of processes, users, files, retries, expired   *)
(* tokens and runs of `conan user'.                                        *)
(***************************************************************************)
EXTENDS RestClient, TLAPS

\* A call that begins, or begins again, is a session.
LEMMA AfreshIsSession ==
    ASSUME NEW s, s.op \in {"download", "upload"},
           NEW user \in User \union {Nobody}, NEW token \in Token
    PROVE  Afresh(s, user, token) \in Session
BY SomeFiles, RestBounds DEF Afresh, Session, Start

\* A session that only moves on keeps user and token: what is claimed of it stays true.
LEMMA MovingOn ==
    ASSUME TypeOK, SpeaksForItsUser, UNCHANGED <<issued, valid, login>>,
           NEW p \in Proc, Busy(p), NEW t \in Session \union {Idle},
           t # Idle => t.user = session[p].user /\ t.token = session[p].token,
           session' = [session EXCEPT ![p] = t]
    PROVE  TypeOK' /\ SpeaksForItsUser'
<1>1. TypeOK'
  BY DEF TypeOK, Token, Session
<1>2. SpeaksForItsUser'
  BY DEF TypeOK, SpeaksForItsUser, Busy
<1> QED
  BY <1>1, <1>2

LEMMA EndMovesOn ==
    ASSUME TypeOK, SpeaksForItsUser, UNCHANGED <<issued, valid, login>>,
           NEW p \in Proc, Busy(p), NEW how, End(p, how)
    PROVE  TypeOK' /\ SpeaksForItsUser'
BY MovingOn DEF End

LEMMA AdvanceMovesOn ==
    ASSUME TypeOK, SpeaksForItsUser, UNCHANGED <<issued, valid, login>>,
           NEW p \in Proc, Busy(p), NEW failed \in BOOLEAN, Advance(p, failed)
    PROVE  TypeOK' /\ SpeaksForItsUser'
<1>1. session[p] \in Session
  BY DEF TypeOK, Busy
<1>2. CASE session[p].next < Files
  <2> DEFINE t == [session[p] EXCEPT !.next = @ + 1, !.attempt = 0,
                                     !.read = FALSE, !.failed = failed]
  <2>1. session[p].next + 1 \in 1..Files /\ 0 \in 0..Retry
    BY <1>1, <1>2, SomeFiles, RestBounds DEF Session
  <2>2. t \in Session /\ t.user = session[p].user /\ t.token = session[p].token
    BY <1>1, <2>1, Zenon DEF Session
  <2>3. session' = [session EXCEPT ![p] = t]
    BY <1>2 DEF Advance
  <2> QED
    BY <2>2, <2>3, MovingOn
<1>3. CASE ~(session[p].next < Files)
  BY <1>3, EndMovesOn DEF Advance
<1> QED
  BY <1>2, <1>3

LEMMA TryAgainMovesOn ==
    ASSUME TypeOK, SpeaksForItsUser, UNCHANGED <<issued, valid, login>>,
           NEW p \in Proc, Busy(p), NEW read \in BOOLEAN, TryAgain(p, read)
    PROVE  TypeOK' /\ SpeaksForItsUser'
<1>1. session[p] \in Session
  BY DEF TypeOK, Busy
<1>2. CASE session[p].attempt < Retry
  <2> DEFINE t == [session[p] EXCEPT !.attempt = @ + 1, !.read = read]
  <2>1. session[p].attempt + 1 \in 0..Retry
    BY <1>1, <1>2, RestBounds DEF Session
  <2>2. t \in Session /\ t.user = session[p].user /\ t.token = session[p].token
    BY <1>1, <2>1, Zenon DEF Session
  <2>3. session' = [session EXCEPT ![p] = t]
    BY <1>2 DEF TryAgain
  <2> QED
    BY <2>2, <2>3, MovingOn
<1>3. CASE ~(session[p].attempt < Retry)
  BY <1>3, EndMovesOn, AdvanceMovesOn DEF TryAgain
<1> QED
  BY <1>2, <1>3

\* The call is repeated with what the database has been told.
LEMMA ForgetTokenSpeaks ==
    ASSUME TypeOK, SpeaksForItsUser, NEW p \in Proc, ForgetToken(p)
    PROVE  TypeOK' /\ SpeaksForItsUser'
<1>1. Busy(p) /\ session[p] \in Session
  BY DEF TypeOK, ForgetToken, Refuse, Requesting, Busy, Idle
<1> DEFINE t == Afresh(session[p], session[p].user, 0)
<1>2. t \in Session /\ t.token = 0
  BY <1>1, AfreshIsSession DEF Session, Token, Afresh
<1>3. session' = [session EXCEPT ![p] = t] /\ login' = [user |-> session[p].user, token |-> 0]
      /\ UNCHANGED <<issued, valid>>
  BY DEF ForgetToken
<1>4. TypeOK'
  <2>1. login' \in [user : User \union {Nobody}, token : Token]
    BY <1>1, <1>3 DEF Session, Token
  <2> QED
    BY <1>2, <1>3, <2>1 DEF TypeOK, Token, Session
<1>5. SpeaksForItsUser'
  BY <1>2, <1>3 DEF TypeOK, SpeaksForItsUser, Busy
<1> QED
  BY <1>4, <1>5

\* The new token is the user's, and nobody else has it yet.
LEMMA LogInSpeaks ==
    ASSUME TypeOK, SpeaksForItsUser, NEW p \in Proc, LogIn(p)
    PROVE  TypeOK' /\ SpeaksForItsUser'
<1>1. Busy(p) /\ session[p] \in Session
  BY DEF TypeOK, LogIn, Busy, Idle
<1>2. PICK u \in IF session[p].user = Nobody THEN User ELSE {session[p].user} :
        /\ issued' = Append(issued, u)
        /\ valid' = valid \union {Len(issued')}
        /\ login' = [user |-> u, token |-> Len(issued')]
        /\ session' = [session EXCEPT ![p] = Afresh(@, u, Len(issued'))]
  BY DEF LogIn
<1>3. u \in User
  BY <1>1, <1>2 DEF Session
<1>4. /\ issued' \in Seq(User) /\ Len(issued') = Len(issued) + 1
      /\ DOMAIN issued = 1..Len(issued) /\ DOMAIN issued' = 1..(Len(issued) + 1)
      /\ Len(issued) \in Nat
      /\ issued'[Len(issued')] = u
      /\ \A n \in DOMAIN issued : issued'[n] = issued[n]
  BY <1>2, <1>3 DEF TypeOK
<1>5. DOMAIN issued \subseteq DOMAIN issued' /\ Len(issued') \in DOMAIN issued'
  BY <1>4
<1> DEFINE t == Afresh(session[p], u, Len(issued'))
<1>6. t \in Session' /\ t.user = u /\ t.token = Len(issued')
  BY <1>1, <1>3, <1>5, SomeFiles, RestBounds DEF Session, Token, Afresh, Start
<1>7. TypeOK'
  <2>1. valid' \subseteq DOMAIN issued'
    BY <1>2, <1>5 DEF TypeOK
  <2>2. login' \in [user : User \union {Nobody}, token : Token']
    BY <1>2, <1>3, <1>5 DEF Token
  <2>3. Session \subseteq Session'
    BY <1>5 DEF Session, Token
  <2>4. session' \in [Proc -> Session' \union {Idle}]
    BY <1>2, <1>6, <2>3 DEF TypeOK
  <2> QED
    BY <1>4, <2>1, <2>2, <2>4 DEF TypeOK
<1>8. SpeaksForItsUser'
  <2>1. login'.token # 0 => issued'[login'.token] = login'.user
    BY <1>2, <1>4
  <2>2. ASSUME NEW q \in Proc, session'[q] # Idle, session'[q].token # 0
        PROVE  issued'[session'[q].token] = session'[q].user
    <3>1. CASE q = p
      BY <3>1, <1>2, <1>4, <1>6 DEF TypeOK
    <3>2. CASE q # p
      <4>1. session'[q] = session[q] /\ session[q] \in Session
        BY <3>2, <2>2, <1>2 DEF TypeOK
      <4>2. session[q].token \in DOMAIN issued
        BY <4>1, <2>2 DEF Session, Token
      <4> QED
        BY <4>1, <4>2, <2>2, <1>4 DEF SpeaksForItsUser, Busy
    <3> QED
      BY <3>1, <3>2
  <2> QED
    BY <2>1, <2>2 DEF SpeaksForItsUser, Busy
<1> QED
  BY <1>7, <1>8

LEMMA StepSpeaks ==
    ASSUME TypeOK, SpeaksForItsUser, NEW p \in Proc, Step(p)
    PROVE  TypeOK' /\ SpeaksForItsUser'
<1>0. Busy(p) /\ session[p] \in Session
  <2>1. session[p].step \in {"ask", "transfer", "login"}
    BY DEF Step, Ask, Receive, RefuseFile, Store, SendRest, Forbid, ForgetToken, AskUser,
           WrongPassword, LogIn, GiveUp, Transferring, Requesting, Refuse
  <2> QED
    BY <2>1 DEF TypeOK, Busy, Idle
<1>1. CASE Ask(p)
  <2> DEFINE t == [session[p] EXCEPT !.step = "transfer"]
  <2>1. t \in Session /\ t.user = session[p].user /\ t.token = session[p].token
    BY <1>0, Zenon DEF Session
  <2>2. session' = [session EXCEPT ![p] = t] /\ UNCHANGED <<issued, valid, login>>
    BY <1>1 DEF Ask
  <2> QED
    BY <1>0, <2>1, <2>2, MovingOn
<1>2. CASE Receive(p)
  <2>1. Advance(p, FALSE) /\ UNCHANGED <<issued, valid, login>>
    BY <1>2 DEF Receive
  <2>2. FALSE \in BOOLEAN
    OBVIOUS
  <2> QED
    BY <1>0, <2>1, <2>2, AdvanceMovesOn
<1>3. CASE RefuseFile(p)
  BY <1>0, <1>3, EndMovesOn DEF RefuseFile
<1>4. CASE Store(p)
  <2>1. session[p].failed \in BOOLEAN
    BY <1>0 DEF Session
  <2> QED
    BY <1>0, <1>4, <2>1, AdvanceMovesOn DEF Store
<1>5. CASE SendRest(p)
  <2>1. TryAgain(p, TRUE) /\ UNCHANGED <<issued, valid, login>>
    BY <1>5 DEF SendRest
  <2>2. TRUE \in BOOLEAN
    OBVIOUS
  <2> QED
    BY <1>0, <2>1, <2>2, TryAgainMovesOn
<1>6. CASE Forbid(p)
  BY <1>0, <1>6, EndMovesOn DEF Forbid
<1>7. CASE ForgetToken(p)
  BY <1>7, ForgetTokenSpeaks
<1>8. CASE AskUser(p)
  <2> DEFINE t == [session[p] EXCEPT !.step = "login", !.asked = 0]
  <2>1. 0 \in 0..LoginRetries - 1
    BY SomeFiles
  <2>2. t \in Session /\ t.user = session[p].user /\ t.token = session[p].token
    BY <1>0, <2>1, Zenon DEF Session
  <2>3. session' = [session EXCEPT ![p] = t] /\ UNCHANGED <<issued, valid, login>>
    BY <1>8 DEF AskUser
  <2> QED
    BY <1>0, <2>2, <2>3, MovingOn
<1>9. CASE WrongPassword(p)
  <2>1. CASE session[p].asked + 1 < LoginRetries
    <3> DEFINE t == [session[p] EXCEPT !.asked = @ + 1]
    <3>1. session[p].asked + 1 \in 0..LoginRetries - 1
      BY <1>0, <2>1, SomeFiles DEF Session
    <3>2. t \in Session /\ t.user = session[p].user /\ t.token = session[p].token
      BY <1>0, <3>1, Zenon DEF Session
    <3>3. session' = [session EXCEPT ![p] = t] /\ UNCHANGED <<issued, valid, login>>
      BY <1>9, <2>1 DEF WrongPassword
    <3> QED
      BY <1>0, <3>2, <3>3, MovingOn
  <2>2. CASE ~(session[p].asked + 1 < LoginRetries)
    BY <1>0, <1>9, <2>2, EndMovesOn DEF WrongPassword
  <2> QED
    BY <2>1, <2>2
<1>10. CASE LogIn(p)
  BY <1>10, LogInSpeaks
<1>11. CASE GiveUp(p)
  BY <1>0, <1>11, EndMovesOn DEF GiveUp
<1> QED
  BY <1>1, <1>2, <1>3, <1>4, <1>5, <1>6, <1>7, <1>8, <1>9, <1>10, <1>11 DEF Step

LEMMA NextSpeaks ==
    ASSUME TypeOK, SpeaksForItsUser, [Next]_vars
    PROVE  TypeOK' /\ SpeaksForItsUser'
<1>1. ASSUME NEW p \in Proc, Begin(p)
      PROVE  TypeOK' /\ SpeaksForItsUser'
  <2>1. PICK op \in {"download", "upload"} :
          session' = [session EXCEPT ![p] = Afresh([op |-> op], login.user, login.token)]
    BY <1>1 DEF Begin
  <2> DEFINE t == Afresh([op |-> op], login.user, login.token)
  <2>2. t \in Session /\ t.user = login.user /\ t.token = login.token
    <3>1. login.user \in User \union {Nobody} /\ login.token \in Token
      BY DEF TypeOK
    <3> QED
      BY <3>1, AfreshIsSession DEF Afresh
  <2>3. UNCHANGED <<issued, valid, login>>
    BY <1>1 DEF Begin
  <2>4. TypeOK'
    BY <2>1, <2>2, <2>3 DEF TypeOK, Token, Session
  <2>5. SpeaksForItsUser'
    BY <2>1, <2>2, <2>3 DEF TypeOK, SpeaksForItsUser, Busy
  <2> QED
    BY <2>4, <2>5
<1>2. ASSUME NEW p \in Proc, Step(p)
      PROVE  TypeOK' /\ SpeaksForItsUser'
  BY <1>2, StepSpeaks
<1>3. ASSUME NEW p \in Proc, Break(p)
      PROVE  TypeOK' /\ SpeaksForItsUser'
  <2>1. Busy(p) /\ session[p] \in Session /\ UNCHANGED <<issued, valid, login>>
    BY <1>3 DEF Break, TypeOK, Busy, Idle
  <2>2. PICK inBody \in BOOLEAN : TryAgain(p, session[p].read \/ inBody)
    BY <1>3 DEF Break
  <2>3. (session[p].read \/ inBody) \in BOOLEAN
    BY <2>1 DEF Session
  <2> QED
    BY <2>1, <2>2, <2>3, TryAgainMovesOn
<1>4. ASSUME NEW p \in Proc, LoseList(p)
      PROVE  TypeOK' /\ SpeaksForItsUser'
  BY <1>4, EndMovesOn DEF LoseList, Busy, Idle
<1>5. CASE Expire
  BY <1>5 DEF Expire, TypeOK, SpeaksForItsUser, Token, Session, Busy
<1>6. CASE ChangeUser
  BY <1>6 DEF ChangeUser, TypeOK, SpeaksForItsUser, Token, Session, Busy
<1>7. CASE UNCHANGED vars
  BY <1>7 DEF vars, TypeOK, SpeaksForItsUser, Token, Session, Busy
<1> QED
  BY <1>1, <1>2, <1>3, <1>4, <1>5, <1>6, <1>7 DEF Next

LEMMA InitSpeaks == Init => TypeOK /\ SpeaksForItsUser
BY DEF Init, TypeOK, SpeaksForItsUser, Token, Session, Busy

\* Login, tokens and sessions are always what the code keeps in them.
THEOREM TypeCorrect == Spec => []TypeOK
<1>1. TypeOK /\ SpeaksForItsUser /\ [Next]_vars => (TypeOK /\ SpeaksForItsUser)'
  BY NextSpeaks
<1> QED
  BY InitSpeaks, <1>1, PTL DEF Spec

\* Whoever logs in when, whatever `conan user' does beside it and however often calls are
\* repeated: the token of a request belongs to the user it names.
THEOREM NeverSpeaksForAnother == Spec => []SpeaksForItsUser
<1>1. TypeOK /\ SpeaksForItsUser /\ [Next]_vars => (TypeOK /\ SpeaksForItsUser)'
  BY NextSpeaks
<1> QED
  BY InitSpeaks, <1>1, PTL DEF Spec
---------------------------------------------------------------------------
(* What a call has done so far. *)

Outcome == {"done", "failed", "exists", "forbidden", "unknown"}
FilesType ==
    /\ disk \in [Proc -> [1..Files -> {"none", "part", "whole"}]]
    /\ stored \in [Proc -> [1..Files -> {"none", "part", "whole"}]]
    /\ outcome \in [Proc -> {"none"} \union Outcome]
    /\ alone \in [Proc -> BOOLEAN]
Transferred(p) == IF session[p].op = "download" THEN disk[p] ELSE stored[p]
\* The files before the next one are whole, unless one was given up, which a download
\* does not survive.
HasTransferred(p) ==
    /\ session[p].op = "download" => ~session[p].failed
    /\ ~session[p].failed =>
         \A f \in 1..Files : f < session[p].next => Transferred(p)[f] = "whole"
\* Who is alone with the remote has the login of the database.
HasLogin(p) ==
    alone[p] =>
        /\ \A q \in Proc \ {p} : ~Busy(q)
        /\ login = [user |-> session[p].user, token |-> session[p].token]
CallInv ==
    /\ TypeOK /\ FilesType
    /\ \A p \in Proc : Busy(p) => HasTransferred(p) /\ HasLogin(p)

\* Only the process at work changes its own files, and, if it logs in or is refused, the
\* login.
OwnStep(p) ==
    /\ \A q \in Proc \ {p} : /\ session'[q] = session[q] /\ outcome'[q] = outcome[q]
                             /\ disk'[q] = disk[q] /\ stored'[q] = stored[q]
    /\ UNCHANGED alone
\* It goes on with the same login, having transferred what comes before the next file.
GoesOn(p) ==
    /\ session'[p].user = session[p].user /\ session'[p].token = session[p].token
    /\ UNCHANGED login
EndsWell(p) ==
    Ends(p, "done") =>
        /\ Everything = IF session[p].op = "download" THEN disk'[p] ELSE stored'[p]
        /\ UNCHANGED login

\* What a step has to show of its own process; the others keep what they had.
LEMMA OwnStepKeeps ==
    ASSUME CallInv, TypeOK', FilesType', NEW p \in Proc, Busy(p), OwnStep(p),
           Busy(p)' => HasTransferred(p)',
           Busy(p)' => login' = [user |-> session'[p].user, token |-> session'[p].token]
                       \/ GoesOn(p)
    PROVE  CallInv'
<1>1. ASSUME NEW q \in Proc, Busy(q)' PROVE HasTransferred(q)'
  BY <1>1 DEF CallInv, OwnStep, HasTransferred, Transferred, Busy
<1>2. ASSUME NEW q \in Proc, Busy(q)' PROVE HasLogin(q)'
  BY <1>2 DEF CallInv, OwnStep, HasLogin, Busy, GoesOn
<1> QED
  BY <1>1, <1>2 DEF CallInv

\* Ending a call leaves nothing to show.
LEMMA EndKeeps ==
    ASSUME CallInv, TypeOK', NEW p \in Proc, Busy(p), NEW how \in Outcome, End(p, how),
           UNCHANGED <<alone, login>>,
           FilesType', \A q \in Proc \ {p} : disk'[q] = disk[q] /\ stored'[q] = stored[q],
           how = "done" => Everything = IF session[p].op = "download" THEN disk'[p] ELSE stored'[p]
    PROVE  CallInv' /\ EndsWell(p)
<1>1. OwnStep(p) /\ ~Busy(p)' /\ outcome'[p] = how
  BY DEF CallInv, TypeOK, FilesType, OwnStep, End, Busy
<1> QED
  BY <1>1, OwnStepKeeps DEF EndsWell, Ends

\* To the next file, when this one is whole or the upload has given it up.
LEMMA AdvanceKeeps ==
    ASSUME CallInv, TypeOK', NEW p \in Proc, Busy(p), NEW failed \in BOOLEAN,
           Advance(p, failed), UNCHANGED <<alone, login>>, FilesType',
           \A q \in Proc \ {p} : disk'[q] = disk[q] /\ stored'[q] = stored[q],
           session[p].op = "download" => ~failed,
           ~failed => \A f \in 1..Files : f <= session[p].next =>
                        (IF session[p].op = "download" THEN disk'[p] ELSE stored'[p])[f] = "whole"
    PROVE  CallInv' /\ EndsWell(p)
<1>1. session[p] \in Session
  BY DEF CallInv, TypeOK, Busy
<1>2. CASE session[p].next < Files
  <2>1. session' = [session EXCEPT ![p].next = @ + 1, ![p].attempt = 0,
                                   ![p].read = FALSE, ![p].failed = failed]
        /\ outcome' = outcome
    BY <1>2 DEF Advance
  <2>2. session'[p] = [session[p] EXCEPT !.next = @ + 1, !.attempt = 0,
                                         !.read = FALSE, !.failed = failed]
    BY <2>1 DEF CallInv, TypeOK
  <2>3. /\ session'[p].op = session[p].op /\ session'[p].next = session[p].next + 1
        /\ session'[p].failed = failed
        /\ session'[p].user = session[p].user /\ session'[p].token = session[p].token
    BY <1>1, <2>2 DEF Session
  <2>4. OwnStep(p) /\ GoesOn(p)
    BY <2>1, <2>3 DEF CallInv, TypeOK, OwnStep, GoesOn
  <2>5. HasTransferred(p)'
    BY <1>1, <2>3, SomeFiles DEF HasTransferred, Transferred, Session
  <2>6. EndsWell(p)
    BY <2>2, <1>1 DEF EndsWell, Ends, Session, Idle
  <2> QED
    BY <2>4, <2>5, <2>6, OwnStepKeeps
<1>3. CASE ~(session[p].next < Files)
  <2>1. session[p].next = Files
    BY <1>1, <1>3, SomeFiles DEF Session
  <2>2. End(p, IF failed THEN "failed" ELSE "done")
    BY <1>3 DEF Advance
  <2>3. ~failed => Everything = IF session[p].op = "download" THEN disk'[p] ELSE stored'[p]
    BY <2>1, SomeFiles DEF Everything, FilesType
  <2> QED
    BY <2>2, <2>3, EndKeeps DEF Outcome
<1> QED
  BY <1>2, <1>3

\* Another attempt, or none: the file is not whole, and what is before it is.
LEMMA TryAgainKeeps ==
    ASSUME CallInv, TypeOK', NEW p \in Proc, Busy(p), NEW read \in BOOLEAN,
           TryAgain(p, read), UNCHANGED <<alone, login>>, FilesType',
           \A q \in Proc \ {p} : disk'[q] = disk[q] /\ stored'[q] = stored[q],
           \A f \in 1..Files : f < session[p].next =>
              disk'[p][f] = disk[p][f] /\ stored'[p][f] = stored[p][f]
    PROVE  CallInv' /\ EndsWell(p)
<1>1. session[p] \in Session
  BY DEF CallInv, TypeOK, Busy
<1>2. CASE session[p].attempt < Retry
  <2>1. session' = [session EXCEPT ![p].attempt = @ + 1, ![p].read = read]
        /\ outcome' = outcome
    BY <1>2 DEF TryAgain
  <2>2. session'[p] = [session[p] EXCEPT !.attempt = @ + 1, !.read = read]
    BY <2>1 DEF CallInv, TypeOK
  <2>3. /\ session'[p].op = session[p].op /\ session'[p].next = session[p].next
        /\ session'[p].failed = session[p].failed
        /\ session'[p].user = session[p].user /\ session'[p].token = session[p].token
    BY <1>1, <2>2 DEF Session
  <2>4. OwnStep(p) /\ GoesOn(p)
    BY <2>1, <2>3 DEF CallInv, TypeOK, OwnStep, GoesOn
  <2>5. HasTransferred(p)'
    BY <1>1, <2>3, SomeFiles DEF CallInv, HasTransferred, Transferred, Session
  <2>6. EndsWell(p)
    BY <2>2, <1>1 DEF EndsWell, Ends, Session, Idle
  <2> QED
    BY <2>4, <2>5, <2>6, OwnStepKeeps
<1>3. CASE ~(session[p].attempt < Retry) /\ session[p].op = "download"
  BY <1>3, EndKeeps DEF TryAgain, Outcome
<1>4. CASE ~(session[p].attempt < Retry) /\ session[p].op # "download"
  BY <1>4, AdvanceKeeps DEF TryAgain
<1> QED
  BY <1>2, <1>3, <1>4

\* A call that begins, anew or for the first time, has nothing behind it.
LEMMA AfreshHasTransferred ==
    ASSUME NEW p \in Proc, NEW s, s.op \in {"download", "upload"}, NEW user, NEW token,
           session'[p] = Afresh(s, user, token)
    PROVE  HasTransferred(p)' /\ session'[p].user = user /\ session'[p].token = token
BY SomeFiles DEF Afresh, HasTransferred

\* A file written is the only one that changes.
LEMMA WriteFile ==
    ASSUME NEW F \in [Proc -> [1..Files -> {"none", "part", "whole"}]], NEW p \in Proc,
           NEW n \in 1..Files, NEW c \in {"part", "whole"}
    PROVE  /\ [F EXCEPT ![p][n] = c] \in [Proc -> [1..Files -> {"none", "part", "whole"}]]
           /\ \A f \in 1..Files : [F EXCEPT ![p][n] = c][p][f] = IF f = n THEN c ELSE F[p][f]
<1>1. [F EXCEPT ![p][n] = c] = [F EXCEPT ![p] = [F[p] EXCEPT ![n] = c]]
  OBVIOUS
<1>2. [F[p] EXCEPT ![n] = c] \in [1..Files -> {"none", "part", "whole"}]
      /\ \A f \in 1..Files : [F[p] EXCEPT ![n] = c][f] = IF f = n THEN c ELSE F[p][f]
  OBVIOUS
<1>3. [F EXCEPT ![p] = [F[p] EXCEPT ![n] = c]][p] = [F[p] EXCEPT ![n] = c]
  OBVIOUS
<1>4. [F EXCEPT ![p] = [F[p] EXCEPT ![n] = c]]
        \in [Proc -> [1..Files -> {"none", "part", "whole"}]]
  BY <1>2
<1> QED
  BY <1>1, <1>2, <1>3, <1>4

\* How a step leaves the files' types: it writes at most the next file of its process.
LEMMA StepKeepsTypes ==
    ASSUME CallInv, NEW p \in Proc, Step(p) \/ Break(p) \/ LoseList(p)
    PROVE  FilesType' /\ Busy(p) /\ session[p] \in Session /\ UNCHANGED alone
<1>1. session[p].step \in {"ask", "transfer", "login"}
  BY DEF Step, Ask, Receive, RefuseFile, Store, SendRest, Forbid, ForgetToken, AskUser,
         WrongPassword, LogIn, GiveUp, Transferring, Requesting, Refuse, Break, LoseList
<1>2. Busy(p) /\ session[p] \in Session
  BY <1>1 DEF CallInv, TypeOK, Busy, Idle
<1>3. session[p].next \in 1..Files
  BY <1>2 DEF Session
<1>4. UNCHANGED alone
  BY DEF Step, Ask, Receive, RefuseFile, Store, SendRest, Forbid, ForgetToken, AskUser,
         WrongPassword, LogIn, GiveUp, Break, LoseList
<1>5. \E how \in Outcome : outcome' = outcome \/ outcome' = [outcome EXCEPT ![p] = how]
  BY DEF Step, Ask, Receive, RefuseFile, Store, SendRest, Forbid, ForgetToken, AskUser,
         WrongPassword, LogIn, GiveUp, Break, LoseList, Advance, TryAgain, End, Outcome
<1>6. \E c \in {"part", "whole"} :
        disk' = disk \/ disk' = [disk EXCEPT ![p][session[p].next] = c]
  BY DEF Step, Ask, Receive, RefuseFile, Store, SendRest, Forbid, ForgetToken, AskUser,
         WrongPassword, LogIn, GiveUp, Break, LoseList
<1>7. \E c \in {"part", "whole"} :
        stored' = stored \/ stored' = [stored EXCEPT ![p][session[p].next] = c]
  BY DEF Step, Ask, Receive, RefuseFile, Store, SendRest, Forbid, ForgetToken, AskUser,
         WrongPassword, LogIn, GiveUp, Break, LoseList
<1>8. outcome' \in [Proc -> {"none"} \union Outcome] /\ alone' \in [Proc -> BOOLEAN]
  BY <1>4, <1>5 DEF CallInv, FilesType
<1>9. disk' \in [Proc -> [1..Files -> {"none", "part", "whole"}]]
  <2>1. PICK c \in {"part", "whole"} :
          disk' = disk \/ disk' = [disk EXCEPT ![p][session[p].next] = c]
    BY <1>6
  <2>2. disk \in [Proc -> [1..Files -> {"none", "part", "whole"}]]
    BY DEF CallInv, FilesType
  <2>3. [disk EXCEPT ![p][session[p].next] = c]
          \in [Proc -> [1..Files -> {"none", "part", "whole"}]]
    BY <1>3, <2>2, WriteFile
  <2> QED
    BY <2>1, <2>2, <2>3
<1>10. stored' \in [Proc -> [1..Files -> {"none", "part", "whole"}]]
  <2>1. PICK c \in {"part", "whole"} :
          stored' = stored \/ stored' = [stored EXCEPT ![p][session[p].next] = c]
    BY <1>7
  <2>2. stored \in [Proc -> [1..Files -> {"none", "part", "whole"}]]
    BY DEF CallInv, FilesType
  <2>3. [stored EXCEPT ![p][session[p].next] = c]
          \in [Proc -> [1..Files -> {"none", "part", "whole"}]]
    BY <1>3, <2>2, WriteFile
  <2> QED
    BY <2>1, <2>2, <2>3
<1> QED
  BY <1>2, <1>4, <1>8, <1>9, <1>10 DEF FilesType

LEMMA StepKeepsCall ==
    ASSUME CallInv, SpeaksForItsUser, NEW p \in Proc, Step(p)
    PROVE  CallInv' /\ OwnStep(p) /\ EndsWell(p)
<1>1. TypeOK'
  BY StepSpeaks DEF CallInv
<1>2. FilesType' /\ Busy(p) /\ session[p] \in Session /\ UNCHANGED alone
  BY StepKeepsTypes
<1>3. OwnStep(p)
  BY <1>2 DEF CallInv, TypeOK, FilesType, OwnStep, Step, Ask, Receive, RefuseFile, Store,
        SendRest, Forbid, ForgetToken, AskUser, WrongPassword, LogIn, GiveUp, Advance,
        TryAgain, End
<1>4. CASE Ask(p)
  <2>1. session'[p] = [session[p] EXCEPT !.step = "transfer"] /\ UNCHANGED <<login, disk, stored>>
    BY <1>4 DEF Ask, CallInv, TypeOK
  <2>2. /\ session'[p].op = session[p].op /\ session'[p].next = session[p].next
        /\ session'[p].failed = session[p].failed
        /\ session'[p].user = session[p].user /\ session'[p].token = session[p].token
    BY <1>2, <2>1 DEF Session
  <2>3. HasTransferred(p)'
    BY <1>2, <2>1, <2>2 DEF CallInv, HasTransferred, Transferred
  <2>4. EndsWell(p)
    BY <1>2, <2>1 DEF EndsWell, Ends, Session, Idle
  <2> QED
    BY <1>1, <1>2, <1>3, <2>1, <2>2, <2>3, <2>4, OwnStepKeeps DEF GoesOn
<1>5. CASE Receive(p)
  <2>1. disk' = [disk EXCEPT ![p][session[p].next] = "whole"]
        /\ Advance(p, FALSE) /\ UNCHANGED <<login, stored>> /\ session[p].op = "download"
    BY <1>5 DEF Receive, Transferring
  <2>2. \A f \in 1..Files : f <= session[p].next => disk'[p][f] = "whole"
    <3>1. session[p].next \in 1..Files
      BY <1>2 DEF Session
    <3>2. \A f \in 1..Files : f < session[p].next => disk[p][f] = "whole"
      BY <1>2, <2>1 DEF CallInv, HasTransferred, Transferred
    <3>3. \A f \in 1..Files :
            disk'[p][f] = IF f = session[p].next THEN "whole" ELSE disk[p][f]
      BY <2>1, <3>1, WriteFile DEF CallInv, FilesType
    <3> QED
      BY <3>1, <3>2, <3>3
  <2>3. \A q \in Proc \ {p} : disk'[q] = disk[q] /\ stored'[q] = stored[q]
    BY <1>3 DEF OwnStep
  <2> QED
    BY <1>1, <1>2, <1>3, <2>1, <2>2, <2>3, AdvanceKeeps
<1>6. CASE RefuseFile(p)
  BY <1>1, <1>2, <1>3, <1>6, EndKeeps DEF RefuseFile, Outcome
<1>7. CASE Store(p)
  <2>1. stored' = [stored EXCEPT ![p][session[p].next] = "whole"]
        /\ Advance(p, session[p].failed) /\ UNCHANGED <<login, disk>>
        /\ session[p].op = "upload"
    BY <1>7 DEF Store, Transferring
  <2>2. ~session[p].failed =>
          \A f \in 1..Files : f <= session[p].next => stored'[p][f] = "whole"
    <3>1. session[p].next \in 1..Files
      BY <1>2 DEF Session
    <3>2. ~session[p].failed =>
            \A f \in 1..Files : f < session[p].next => stored[p][f] = "whole"
      BY <1>2, <2>1 DEF CallInv, HasTransferred, Transferred
    <3>3. \A f \in 1..Files :
            stored'[p][f] = IF f = session[p].next THEN "whole" ELSE stored[p][f]
      BY <2>1, <3>1, WriteFile DEF CallInv, FilesType
    <3> QED
      BY <3>1, <3>2, <3>3
  <2>3. \A q \in Proc \ {p} : disk'[q] = disk[q] /\ stored'[q] = stored[q]
    BY <1>3 DEF OwnStep
  <2>4. session[p].failed \in BOOLEAN
    BY <1>2 DEF Session
  <2> QED
    BY <1>1, <1>2, <1>3, <2>1, <2>2, <2>3, <2>4, AdvanceKeeps
<1>8. CASE SendRest(p)
  <2>1. TryAgain(p, TRUE) /\ UNCHANGED <<login, disk, stored>>
    BY <1>8 DEF SendRest
  <2> QED
    BY <1>1, <1>2, <1>3, <2>1, TryAgainKeeps
<1>9. CASE Forbid(p)
  BY <1>1, <1>2, <1>3, <1>9, EndKeeps DEF Forbid, Outcome
<1>10. CASE ForgetToken(p)
  <2>1. session'[p] = Afresh(session[p], session[p].user, 0)
        /\ login' = [user |-> session[p].user, token |-> 0]
    BY <1>10 DEF ForgetToken, CallInv, TypeOK
  <2>2. HasTransferred(p)' /\ session'[p].user = session[p].user /\ session'[p].token = 0
    BY <1>2, <2>1, AfreshHasTransferred DEF Session
  <2>3. EndsWell(p)
    BY <2>1 DEF EndsWell, Ends, Afresh, Idle
  <2> QED
    BY <1>1, <1>2, <1>3, <2>1, <2>2, <2>3, OwnStepKeeps
<1>11. CASE AskUser(p)
  <2>1. session'[p] = [session[p] EXCEPT !.step = "login", !.asked = 0]
        /\ UNCHANGED <<login, disk, stored>>
    BY <1>11 DEF AskUser, CallInv, TypeOK
  <2>2. /\ session'[p].op = session[p].op /\ session'[p].next = session[p].next
        /\ session'[p].failed = session[p].failed
        /\ session'[p].user = session[p].user /\ session'[p].token = session[p].token
    BY <1>2, <2>1 DEF Session
  <2>3. HasTransferred(p)'
    BY <1>2, <2>1, <2>2 DEF CallInv, HasTransferred, Transferred
  <2>4. EndsWell(p)
    BY <1>2, <2>1 DEF EndsWell, Ends, Session, Idle
  <2> QED
    BY <1>1, <1>2, <1>3, <2>1, <2>2, <2>3, <2>4, OwnStepKeeps DEF GoesOn
<1>12. CASE WrongPassword(p)
  <2>1. CASE session[p].asked + 1 < LoginRetries
    <3>1. session'[p] = [session[p] EXCEPT !.asked = @ + 1] /\ UNCHANGED <<login, disk, stored>>
      BY <1>12, <2>1 DEF WrongPassword, CallInv, TypeOK
    <3>2. /\ session'[p].op = session[p].op /\ session'[p].next = session[p].next
          /\ session'[p].failed = session[p].failed
          /\ session'[p].user = session[p].user /\ session'[p].token = session[p].token
      BY <1>2, <3>1 DEF Session
    <3>3. HasTransferred(p)'
      BY <1>2, <3>1, <3>2 DEF CallInv, HasTransferred, Transferred
    <3>4. EndsWell(p)
      BY <1>2, <3>1 DEF EndsWell, Ends, Session, Idle
    <3> QED
      BY <1>1, <1>2, <1>3, <3>1, <3>2, <3>3, <3>4, OwnStepKeeps DEF GoesOn
  <2>2. CASE ~(session[p].asked + 1 < LoginRetries)
    BY <1>1, <1>2, <1>3, <1>12, <2>2, EndKeeps DEF WrongPassword, Outcome
  <2> QED
    BY <2>1, <2>2
<1>13. CASE LogIn(p)
  <2>1. PICK u : session'[p] = Afresh(session[p], u, Len(issued'))
                 /\ login' = [user |-> u, token |-> Len(issued')]
    BY <1>13 DEF LogIn, CallInv, TypeOK
  <2>2. HasTransferred(p)' /\ session'[p].user = u /\ session'[p].token = Len(issued')
    BY <1>2, <2>1, AfreshHasTransferred DEF Session
  <2>3. EndsWell(p)
    BY <2>1 DEF EndsWell, Ends, Afresh, Idle
  <2> QED
    BY <1>1, <1>2, <1>3, <2>1, <2>2, <2>3, OwnStepKeeps
<1>14. CASE GiveUp(p)
  BY <1>1, <1>2, <1>3, <1>14, EndKeeps DEF GiveUp, Outcome
<1>15. CallInv' /\ EndsWell(p)
  BY <1>4, <1>5, <1>6, <1>7, <1>8, <1>9, <1>10, <1>11, <1>12, <1>13, <1>14 DEF Step
<1> QED
  BY <1>3, <1>15

LEMMA NextKeepsCall ==
    ASSUME CallInv, SpeaksForItsUser, [Next]_vars
    PROVE  /\ CallInv'
           /\ \A p \in Proc : EndsWell(p)
<1> DEFINE Goal == CallInv' /\ \A p \in Proc : EndsWell(p)
<1>0. TypeOK'
  BY NextSpeaks DEF CallInv
<1>1. ASSUME NEW p \in Proc, CallInv', OwnStep(p), EndsWell(p) PROVE Goal
  BY <1>1 DEF OwnStep, EndsWell, Ends, Busy
<1>2. ASSUME NEW p \in Proc, Begin(p) PROVE Goal
  <2>1. PICK op \in {"download", "upload"} :
          session' = [session EXCEPT ![p] = Afresh([op |-> op], login.user, login.token)]
    BY <1>2 DEF Begin
  <2>2. session'[p] = Afresh([op |-> op], login.user, login.token)
    BY <2>1 DEF CallInv, TypeOK
  <2>3. HasTransferred(p)' /\ session'[p].user = login.user /\ session'[p].token = login.token
    <3>1. [op |-> op].op \in {"download", "upload"}
      OBVIOUS
    <3> QED
      BY <2>2, <3>1, AfreshHasTransferred
  <2>4. FilesType'
    BY <1>2 DEF Begin, CallInv, FilesType, Nothing
  <2>5. /\ \A q \in Proc \ {p} : /\ session'[q] = session[q] /\ disk'[q] = disk[q]
                                 /\ stored'[q] = stored[q]
                                 /\ alone'[q] => alone[q] /\ ~Busy(q)
        /\ alone'[p] => \A r \in Proc \ {p} : ~Busy(r)
        /\ login' = login /\ ~Busy(p)
    BY <1>2, <2>1 DEF Begin, CallInv, TypeOK, FilesType
  <2>6. ASSUME NEW q \in Proc, Busy(q)' PROVE HasTransferred(q)'
    BY <2>3, <2>5, <2>6 DEF CallInv, HasTransferred, Transferred, Busy
  <2>7. ASSUME NEW q \in Proc, Busy(q)' PROVE HasLogin(q)'
    <3>1. CASE q = p
      <4>1. login = [user |-> login.user, token |-> login.token]
        BY DEF CallInv, TypeOK
      <4> QED
        BY <2>3, <2>5, <3>1, <4>1 DEF HasLogin, Busy
    <3>2. CASE q # p
      BY <2>5, <2>7, <3>2 DEF HasLogin, Busy
    <3> QED
      BY <3>1, <3>2
  <2>8. \A q \in Proc : EndsWell(q)
    BY <2>5 DEF EndsWell, Ends, Busy
  <2> QED
    BY <1>0, <2>4, <2>6, <2>7, <2>8 DEF CallInv
<1>3. ASSUME NEW p \in Proc, Step(p) PROVE Goal
  BY <1>1, <1>3, StepKeepsCall
<1>4. ASSUME NEW p \in Proc, Break(p) PROVE Goal
  <2>1. FilesType' /\ Busy(p) /\ session[p] \in Session /\ UNCHANGED alone
    BY <1>4, StepKeepsTypes
  <2>2. PICK inBody \in BOOLEAN :
          /\ disk' = IF inBody /\ session[p].op = "download"
                     THEN [disk EXCEPT ![p][session[p].next] = "part"] ELSE disk
          /\ stored' = IF inBody /\ session[p].op = "upload"
                       THEN [stored EXCEPT ![p][session[p].next] = "part"] ELSE stored
          /\ TryAgain(p, session[p].read \/ inBody)
    BY <1>4 DEF Break
  <2>3. (session[p].read \/ inBody) \in BOOLEAN /\ UNCHANGED login
    BY <1>4, <2>1 DEF Session, Break
  <2>4. \A q \in Proc \ {p} : disk'[q] = disk[q] /\ stored'[q] = stored[q]
    BY <2>2 DEF CallInv, FilesType
  <2>5. \A f \in 1..Files : f < session[p].next =>
           disk'[p][f] = disk[p][f] /\ stored'[p][f] = stored[p][f]
    <3>1. session[p].next \in 1..Files
      BY <2>1 DEF Session
    <3> QED
      BY <2>2, <3>1 DEF CallInv, FilesType
  <2>6. OwnStep(p)
    BY <2>1, <2>2, <2>4 DEF CallInv, TypeOK, FilesType, OwnStep, TryAgain, Advance, End
  <2>7. CallInv' /\ EndsWell(p)
    BY <1>0, <2>1, <2>2, <2>3, <2>4, <2>5, TryAgainKeeps
  <2> QED
    BY <1>1, <2>6, <2>7
<1>5. ASSUME NEW p \in Proc, LoseList(p) PROVE Goal
  <2>1. FilesType' /\ Busy(p) /\ session[p] \in Session /\ UNCHANGED alone
    BY <1>5, StepKeepsTypes
  <2>2. OwnStep(p)
    BY <1>5, <2>1 DEF CallInv, TypeOK, FilesType, OwnStep, LoseList, End
  <2> QED
    BY <1>0, <1>1, <1>5, <2>1, <2>2, EndKeeps DEF LoseList, Outcome
<1>6. CASE Expire
  BY <1>0, <1>6 DEF Expire, CallInv, FilesType, HasTransferred, Transferred, HasLogin, Busy,
        EndsWell, Ends
<1>7. CASE ChangeUser
  BY <1>0, <1>7 DEF ChangeUser, CallInv, FilesType, HasTransferred, Transferred, HasLogin,
        Busy, EndsWell, Ends
<1>8. CASE UNCHANGED vars
  BY <1>0, <1>8 DEF vars, bounds, CallInv, FilesType, HasTransferred, Transferred, HasLogin,
        Busy, EndsWell, Ends
<1> QED
  BY <1>2, <1>3, <1>4, <1>5, <1>6, <1>7, <1>8 DEF Next

LEMMA InitCall == Init => CallInv /\ SpeaksForItsUser
BY InitSpeaks DEF Init, CallInv, FilesType, Nothing, Busy

LEMMA SpecCall == Spec => [](CallInv /\ SpeaksForItsUser)
<1>1. CallInv /\ SpeaksForItsUser /\ [Next]_vars => (CallInv /\ SpeaksForItsUser)'
  BY NextKeepsCall, NextSpeaks DEF CallInv
<1> QED
  BY InitCall, <1>1, PTL DEF Spec

\* The step of a call that reports success leaves all its files whole, however often the
\* connection broke or the whole call was begun anew.
THEOREM SuccessIsWhole == Spec => DoneIsWhole
<1> DEFINE Whole == \A p \in Proc : Ends(p, "done") =>
              Everything = IF session[p].op = "download" THEN disk'[p] ELSE stored'[p]
<1>1. CallInv /\ SpeaksForItsUser /\ [Next]_vars => [Whole]_vars
  BY NextKeepsCall DEF EndsWell
<1> QED
  BY SpecCall, <1>1, PTL DEF Spec, DoneIsWhole

\* The step of a call that reports success, alone with the remote, leaves in the database
\* the user and the token the call ended with.
THEOREM SuccessKeepsLogin == Spec => LoginRemembered
<1> DEFINE Kept == \A p \in Proc : Ends(p, "done") /\ alone[p] =>
              login' = [user |-> session[p].user, token |-> session[p].token]
<1>1. CallInv /\ SpeaksForItsUser /\ [Next]_vars => [Kept]_vars
  BY NextKeepsCall DEF EndsWell, Ends, CallInv, HasLogin
<1> QED
  BY SpecCall, <1>1, PTL DEF Spec, LoginRemembered
=============================================================================
