----------------------------- MODULE RestClient -----------------------------
(***************************************************************************)
(* One remote as conan processes see it: a call that downloads or uploads  *)
(* files, repeated file by file when the connection breaks                 *)
(* (client/rest/uploader_downloader.py), and repeated as a whole when the  *)
(* server refuses it (client/rest/auth_manager.py).  Processes share the   *)
(* login of the remote in the local database; tokens expire at any time.   *)
(***************************************************************************)
EXTENDS Naturals, Sequences

CONSTANTS
    Proc,           \* conan processes
    User,           \* accounts of the server
    Allowed,        \* users with the permission to do it
    Nobody,         \* no user
    Files,          \* files to transfer, in this order
    Retry,          \* attempts at a file beyond the first
    LoginRetries,   \* wrong passwords in a row before the call gives up
    MaxCalls,       \* bound: calls
    MaxBreaks,      \* bound: broken connections
    MaxExpiries,    \* bound: tokens that expire
    MaxUserChanges  \* bound: runs of `conan user'

ASSUME SomeFiles == Files \in Nat \ {0} /\ LoginRetries \in Nat \ {0}
ASSUME AllowedUsers == Allowed \subseteq User /\ Nobody \notin User
ASSUME RestBounds ==
    {Retry, MaxCalls, MaxBreaks, MaxExpiries, MaxUserChanges} \subseteq Nat

VARIABLES
    open,      \* whether the server does it for anybody, without a token
    issued,    \* whose each token is, in the order of issue; token 0 is none
    valid,     \* tokens that have not expired
    login,     \* user and token in the local database
    session,   \* what each process is doing
    disk,      \* what each process has of the files it downloads
    stored,    \* what the server has of the files each process uploads
    outcome,   \* how the last call of each process ended
    alone,     \* no other process was busy with the remote during the call (history)
    calls, breaks, expiries, userChanges

bounds == <<calls, breaks, expiries, userChanges>>
vars == <<open, issued, valid, login, session, disk, stored, outcome, alone, bounds>>

Idle == [step |-> "idle"]
Nothing == [f \in 1..Files |-> "none"]
Everything == [f \in 1..Files |-> "whole"]

Init ==
    /\ open \in BOOLEAN
    /\ issued = <<>> /\ valid = {}
    /\ login = [user |-> Nobody, token |-> 0]
    /\ session = [p \in Proc |-> Idle]
    /\ disk = [p \in Proc |-> Nothing] /\ stored = [p \in Proc |-> Nothing]
    /\ outcome = [p \in Proc |-> "none"]
    /\ alone = [p \in Proc |-> TRUE]
    /\ calls = 0 /\ breaks = 0 /\ expiries = 0 /\ userChanges = 0

Busy(p) == session[p] # Idle
Start(op) == IF op = "download" THEN "ask" ELSE "transfer"

\* The call begins, or begins again: from the first file.
Afresh(s, user, token) ==
    [step |-> Start(s.op), op |-> s.op, user |-> user, token |-> token, next |-> 1,
     attempt |-> 0, read |-> FALSE, failed |-> FALSE, asked |-> 0]

End(p, how) ==
    /\ session' = [session EXCEPT ![p] = Idle]
    /\ outcome' = [outcome EXCEPT ![p] = how]

\* The remote is set, and with it the login; a folder for a download is empty.
Begin(p) ==
    /\ ~Busy(p) /\ calls < MaxCalls /\ calls' = calls + 1
    /\ \E op \in {"download", "upload"} :
         session' = [session EXCEPT ![p] = Afresh([op |-> op], login.user, login.token)]
    /\ disk' = [disk EXCEPT ![p] = Nothing] /\ stored' = [stored EXCEPT ![p] = Nothing]
    /\ outcome' = [outcome EXCEPT ![p] = "none"]
    /\ alone' = [q \in Proc |-> IF q = p THEN \A r \in Proc \ {p} : ~Busy(r)
                                ELSE alone[q] /\ ~Busy(q)]
    /\ UNCHANGED <<open, issued, valid, login, breaks, expiries, userChanges>>
----------------------------------------------------------------------------
(* What the server makes of a request with this token. *)

Refused(token) == IF token = 0 THEN ~open ELSE token \notin valid
Forbidden(token) == ~Refused(token) /\ ~open /\ issued[token] \notin Allowed
Admitted(p) == ~Refused(session[p].token) /\ ~Forbidden(session[p].token)
Requesting(p) == session[p].step \in {"ask", "transfer"}

\* A download asks for the list of files first.
Ask(p) ==
    /\ session[p].step = "ask" /\ Admitted(p)
    /\ session' = [session EXCEPT ![p].step = "transfer"]
    /\ UNCHANGED <<open, issued, valid, login, disk, stored, outcome, alone, bounds>>

\* To the next file; after the last the call ends, and an upload that left files
\* behind fails.
Advance(p, failed) ==
    IF session[p].next < Files
    THEN /\ session' = [session EXCEPT ![p].next = @ + 1, ![p].attempt = 0,
                                       ![p].read = FALSE, ![p].failed = failed]
         /\ UNCHANGED outcome
    ELSE End(p, IF failed THEN "failed" ELSE "done")

Transferring(p, op) == session[p].step = "transfer" /\ session[p].op = op

\* FileDownloader.download refuses a file that is there, before it asks the server.
FileExists(p) ==
    LET s == session[p] IN s.attempt = 0 /\ disk[p][s.next] # "none"

Receive(p) ==
    /\ Transferring(p, "download") /\ ~FileExists(p) /\ Admitted(p)
    /\ disk' = [disk EXCEPT ![p][session[p].next] = "whole"]
    /\ Advance(p, FALSE)
    /\ UNCHANGED <<open, issued, valid, login, stored, alone, bounds>>

RefuseFile(p) ==
    /\ Transferring(p, "download") /\ FileExists(p)
    /\ End(p, "exists")
    /\ UNCHANGED <<open, issued, valid, login, disk, stored, alone, bounds>>

Store(p) ==
    /\ Transferring(p, "upload") /\ ~session[p].read /\ Admitted(p)
    /\ stored' = [stored EXCEPT ![p][session[p].next] = "whole"]
    /\ Advance(p, session[p].failed)
    /\ UNCHANGED <<open, issued, valid, login, disk, alone, bounds>>

StopTrying(p, read) ==
    LET s == session[p]
    IN  IF s.attempt < Retry
        THEN /\ session' = [session EXCEPT ![p].attempt = @ + 1]
             /\ UNCHANGED outcome
        ELSE Advance(p, s.failed)
\* call_with_retry.  A download stops at the file it cannot get; an upload takes note
\* and goes on with the next one.
TryAgain(p, read) ==
    LET s == session[p]
    IN  IF s.attempt < Retry
        THEN /\ session' = [session EXCEPT ![p].attempt = @ + 1, ![p].read = read]
             /\ UNCHANGED outcome
        ELSE IF s.op = "download" THEN End(p, "failed") ELSE Advance(p, TRUE)

\* The connection breaks, before the body (nothing was read of the file) or in it.
Break(p) ==
    LET s == session[p]
    IN  /\ s.step = "transfer" /\ (s.op = "download" => ~FileExists(p))
        /\ breaks < MaxBreaks /\ breaks' = breaks + 1
        /\ \E inBody \in BOOLEAN :
             /\ inBody => Admitted(p)
             /\ disk' = IF inBody /\ s.op = "download"
                        THEN [disk EXCEPT ![p][s.next] = "part"] ELSE disk
             /\ stored' = IF inBody /\ s.op = "upload"
                          THEN [stored EXCEPT ![p][s.next] = "part"] ELSE stored
             /\ TryAgain(p, s.read \/ inBody)
        /\ UNCHANGED <<open, issued, valid, login, alone, calls, expiries, userChanges>>

\* Only files are retried.
LoseList(p) ==
    /\ session[p].step = "ask"
    /\ breaks < MaxBreaks /\ breaks' = breaks + 1
    /\ End(p, "failed")
    /\ UNCHANGED <<open, issued, valid, login, disk, stored, alone, calls, expiries,
                   userChanges>>

\* The retries of one upload share one iterator over the file: what is left of it is
\* shorter than the length announced, and the server waits in vain.
SendRest(p) ==
    /\ Transferring(p, "upload") /\ session[p].read /\ Admitted(p)
    /\ TryAgain(p, TRUE)
    /\ UNCHANGED <<open, issued, valid, login, disk, stored, alone, bounds>>
----------------------------------------------------------------------------
(* input_credentials_if_unauthorized *)

Forbid(p) ==
    /\ Requesting(p) /\ Forbidden(session[p].token)
    /\ Transferring(p, "download") => ~FileExists(p)
    /\ End(p, "forbidden")
    /\ UNCHANGED <<open, issued, valid, login, disk, stored, alone, bounds>>

Refuse(p) ==
    /\ Requesting(p) /\ Refused(session[p].token)
    /\ Transferring(p, "download") => ~FileExists(p)

\* A token was refused: it is forgotten, and the call repeated without.
ForgetInDatabase(p) ==
    /\ Refuse(p) /\ session[p].user # Nobody /\ session[p].token # 0
    /\ login' = [user |-> session[p].user, token |-> 0]
    /\ session' = [session EXCEPT ![p] = Afresh(@, @.user, @.token)]
    /\ UNCHANGED <<open, issued, valid, disk, stored, outcome, alone, bounds>>
ForgetToken(p) ==
    /\ Refuse(p) /\ session[p].user # Nobody /\ session[p].token # 0
    /\ login' = [user |-> session[p].user, token |-> 0]
    /\ session' = [session EXCEPT ![p] = Afresh(@, @.user, 0)]
    /\ UNCHANGED <<open, issued, valid, disk, stored, outcome, alone, bounds>>

\* Nothing was sent that could be refused: ask the user.
AskUser(p) ==
    /\ Refuse(p) /\ (session[p].user = Nobody \/ session[p].token = 0)
    /\ session' = [session EXCEPT ![p].step = "login", ![p].asked = 0]
    /\ UNCHANGED <<open, issued, valid, login, disk, stored, outcome, alone, bounds>>

WrongPassword(p) ==
    /\ session[p].step = "login"
    /\ IF session[p].asked + 1 < LoginRetries
       THEN session' = [session EXCEPT ![p].asked = @ + 1] /\ UNCHANGED outcome
       ELSE End(p, "unknown")
    /\ UNCHANGED <<open, issued, valid, login, disk, stored, alone, bounds>>

LogInUnsaved(p) ==
    /\ session[p].step = "login"
    /\ \E u \in IF session[p].user = Nobody THEN User ELSE {session[p].user} :
         /\ issued' = Append(issued, u)
         /\ valid' = valid \union {Len(issued')}
         /\ session' = [session EXCEPT ![p] = Afresh(@, u, Len(issued'))]
    /\ UNCHANGED <<open, login, disk, stored, outcome, alone, bounds>>
LogInAsBefore(p) ==
    /\ session[p].step = "login"
    /\ \E u \in IF session[p].user = Nobody THEN User ELSE {session[p].user} :
         /\ issued' = Append(issued, u)
         /\ valid' = valid \union {Len(issued')}
         /\ login' = [user |-> u, token |-> Len(issued')]
         /\ session' = [session EXCEPT ![p] = Afresh(@, @.user, Len(issued'))]
    /\ UNCHANGED <<open, disk, stored, outcome, alone, bounds>>
\* The new token is stored, and the call repeated with it.
LogIn(p) ==
    /\ session[p].step = "login"
    /\ \E u \in IF session[p].user = Nobody THEN User ELSE {session[p].user} :
         /\ issued' = Append(issued, u)
         /\ valid' = valid \union {Len(issued')}
         /\ login' = [user |-> u, token |-> Len(issued')]
         /\ session' = [session EXCEPT ![p] = Afresh(@, u, Len(issued'))]
    /\ UNCHANGED <<open, disk, stored, outcome, alone, bounds>>

\* No terminal, ^C, or no answer to the request for a token.
GiveUp(p) ==
    /\ session[p].step = "login"
    /\ End(p, "failed")
    /\ UNCHANGED <<open, issued, valid, login, disk, stored, alone, bounds>>
----------------------------------------------------------------------------
Expire ==
    /\ expiries < MaxExpiries /\ expiries' = expiries + 1
    /\ \E t \in valid : valid' = valid \ {t}
    /\ UNCHANGED <<open, issued, login, session, disk, stored, outcome, alone, calls, breaks,
                   userChanges>>

\* `conan user NAME' or `conan user none' of another process.
ChangeUser ==
    /\ userChanges < MaxUserChanges /\ userChanges' = userChanges + 1
    /\ \E u \in User \union {Nobody} : login' = [user |-> u, token |-> 0]
    /\ alone' = [p \in Proc |-> alone[p] /\ ~Busy(p)]
    /\ UNCHANGED <<open, issued, valid, session, disk, stored, outcome, calls, breaks, expiries>>

Step(p) ==
    \/ Ask(p) \/ Receive(p) \/ RefuseFile(p) \/ Store(p) \/ SendRest(p) \/ Forbid(p)
    \/ ForgetToken(p) \/ AskUser(p) \/ WrongPassword(p) \/ LogIn(p) \/ GiveUp(p)

Next ==
    \/ \E p \in Proc : Begin(p) \/ Step(p) \/ Break(p) \/ LoseList(p)
    \/ Expire \/ ChangeUser
    \/ (\A p \in Proc : ~Busy(p)) /\ UNCHANGED vars   \* nobody at work

Spec == Init /\ [][Next]_vars
\* A process that can go on, or whose user is at the keyboard, does.
FairSpec == Spec /\ \A p \in Proc : WF_vars(Step(p))
----------------------------------------------------------------------------
Token == {0} \union DOMAIN issued
Session ==
    [step : {"ask", "transfer", "login"}, op : {"download", "upload"},
     user : User \union {Nobody}, token : Token, next : 1..Files, attempt : 0..Retry,
     read : BOOLEAN, failed : BOOLEAN, asked : 0..LoginRetries - 1]

TypeOK ==
    /\ issued \in Seq(User) /\ valid \subseteq DOMAIN issued
    /\ login \in [user : User \union {Nobody}, token : Token]
    /\ session \in [Proc -> Session \union {Idle}]

\* The user named in the headers of a request (X-Client-Id), and in the messages, is the
\* one whose token it carries, whoever logged in when and whatever `conan user' did.
SpeaksForItsUser ==
    /\ login.token # 0 => issued[login.token] = login.user
    /\ \A p \in Proc : Busy(p) /\ session[p].token # 0 =>
         issued[session[p].token] = session[p].user

Ends(p, how) == Busy(p) /\ session'[p] = Idle /\ outcome'[p] = how

\* A call that reports success has transferred every file whole, however often files
\* were retried and the whole call repeated.
DoneIsWhole ==
    [][\A p \in Proc : Ends(p, "done") =>
         Everything = IF session[p].op = "download" THEN disk'[p] ELSE stored'[p]]_vars

\* After a call that ended well the database holds the login it ended with, expired
\* tokens forgotten and new ones remembered, so that the next command need not ask;
\* unless another process used the remote meanwhile.
LoginRemembered ==
    [][\A p \in Proc : Ends(p, "done") /\ alone[p] =>
         login' = [user |-> session[p].user, token |-> session[p].token]]_vars

\* Every call ends, though a login begins the count of passwords anew and a refusal the
\* whole call: tokens do not expire for ever.
CallEnds == \A p \in Proc : Busy(p) ~> ~Busy(p)

\* auth_manager.py 11: a refused call is repeated with the new token.  It must not fail
\* over the files it left itself.
RepeatedCallGoesOn == [][\A p \in Proc : ~Ends(p, "exists")]_vars

\* command.py 1214, "In case of fail retries to upload again the specified times": an
\* attempt that the server admits, on a connection that holds, stores the file.
AttemptUploads ==
    [][\A p \in Proc :
         Transferring(p, "upload") /\ Admitted(p) /\ session'[p] # session[p]
         /\ breaks' = breaks => stored'[p][session[p].next] = "whole"]_vars
=============================================================================
