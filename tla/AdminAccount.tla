---------------------------- MODULE AdminAccount ----------------------------
(***************************************************************************)
(* The first-run setup and the administrator's account: a setup checks the *)
(* flag of setup_status, inserts an account and sets the flag, in three     *)
(* statements; a login reads the account; a profile edit is one statement;  *)
(* a password change reads the account, compares and writes.  Requests      *)
(* interleave between their statements, every statement may fail, or take   *)
(* effect although its caller is told otherwise, and a request may end      *)
(* anywhere with its process or its client.                                *)
(***************************************************************************)
EXTENDS Integers, FiniteSets

CONSTANTS
    Requests,  \* requests, each made once; an account's id is the setup that made it
    Emails,
    Passwords,
    None

ASSUME AccountAssumption == None \notin Requests \cup Emails \cup Passwords

VARIABLES
    complete, \* setup_status.is_complete
    admins,   \* admin_users: id -> [email, password]
    req,      \* the requests
    tokens    \* the accounts somebody holds a token of

accountVars == <<complete, admins, req, tokens>>

\* answer: the status of the answer, or 0.  History: late, setup was complete when the
\* request arrived; told, some setup had been answered 201 or 409 by then; held, the
\* passwords its account had since then.
New == [at |-> "new", id |-> None, email |-> None, password |-> None, next |-> None,
        answer |-> 0, late |-> FALSE, told |-> FALSE, held |-> {}]

Created == 201
Success == 200
Rejected == 400
NotFound == 404
Conflict == 409
Failed == 500

AccountInit ==
    /\ complete = FALSE
    /\ admins = <<>>
    /\ req = [r \in Requests |-> New]
    /\ tokens = {}

Ids == DOMAIN admins
Taken(email, id) == \E a \in Ids \ {id} : admins[a].email = email
Arrives(r, fields) == req[r].at = "new" /\ req' = [req EXCEPT ![r] = fields]
Proceed(r, from, to) == req[r].at = from /\ req' = [req EXCEPT ![r].at = to]
Answer(r, from, status) ==
    /\ req[r].at = from
    /\ req' = [req EXCEPT ![r].at = "end", ![r].answer = status]

-----------------------------------------------------------------------------
(* Setup. *)

\* Setup r was answered that setup is complete.
Told(r) == req[r].answer \in {Created, Conflict}

\* Mutant: the flag is read and not looked at.
CheckUnread(r) ==
    /\ Proceed(r, "check", "create")
    /\ UNCHANGED <<complete, admins, tokens>>

BeginSetup(r) ==
    /\ \E email \in Emails, password \in Passwords :
        Arrives(r, [New EXCEPT !.at = "check", !.email = email, !.password = password,
                               !.late = complete,
                               !.told = \E s \in Requests : Told(s)])
    /\ UNCHANGED <<complete, admins, tokens>>

CheckSetup(r) ==
    /\ ~complete /\ Proceed(r, "check", "create")
    /\ UNCHANGED <<complete, admins, tokens>>
AlreadyComplete(r) ==
    /\ complete /\ Answer(r, "check", Conflict)
    /\ UNCHANGED <<complete, admins, tokens>>
\* A missing field, or a password of less than eight characters.
FormRejected(r) ==
    /\ Answer(r, "create", Rejected)
    /\ UNCHANGED <<complete, admins, tokens>>

Inserted(r) == [a \in Ids \cup {r} |->
    IF a = r THEN [email |-> req[r].email, password |-> req[r].password] ELSE admins[a]]

CreateAdmin(r) ==
    /\ ~Taken(req[r].email, r)
    /\ admins' = Inserted(r)
    /\ \/ Proceed(r, "create", "complete")
       \/ Answer(r, "create", Failed) \* it took effect, and the answer was lost
    /\ UNCHANGED <<complete, tokens>>

\* Mutant: the flag is set before the account is there.
CompleteEarly(r) ==
    /\ complete' = TRUE
    /\ \/ /\ Answer(r, "complete", Created) /\ tokens' = tokens \cup {r}
       \/ /\ Answer(r, "create", Failed) /\ UNCHANGED tokens
    /\ UNCHANGED admins
\* Mutant: the error of the statement that sets the flag is ignored.
CompleteUnheard(r) ==
    /\ complete' \in {complete, TRUE}
    /\ Answer(r, "complete", Created) /\ tokens' = tokens \cup {r}
    /\ UNCHANGED admins
CompleteSetup(r) ==
    /\ complete' = TRUE
    /\ \/ /\ Answer(r, "complete", Created) /\ tokens' = tokens \cup {r}
       \/ /\ Answer(r, "complete", Failed) /\ UNCHANGED tokens
    /\ UNCHANGED admins

-----------------------------------------------------------------------------
(* Login, profile and password. *)

Login(r) ==
    /\ \E a \in Ids :
        /\ Arrives(r, [New EXCEPT !.at = "end", !.id = a, !.answer = Success])
        /\ tokens' = tokens \cup {a}
    /\ UNCHANGED <<complete, admins>>

\* One statement, which the unique index on email may refuse.
UpdateProfile(r) ==
    /\ \E a \in tokens, email \in Emails :
        /\ ~Taken(email, a)
        /\ \E status \in {Success, Failed} :
            Arrives(r, [New EXCEPT !.at = "end", !.id = a, !.answer = status])
        /\ admins' = [admins EXCEPT ![a].email = email]
    /\ UNCHANGED <<complete, tokens>>
ProfileFails(r) ==
    /\ \E a \in tokens :
        Arrives(r, [New EXCEPT !.at = "end", !.id = a, !.answer = Failed])
    /\ UNCHANGED <<complete, admins, tokens>>

BeginPassword(r) ==
    /\ \E a \in tokens, current, next \in Passwords :
        Arrives(r, [New EXCEPT !.at = "compare", !.id = a, !.password = current,
                               !.next = next, !.held = {admins[a].password}])
    /\ UNCHANGED <<complete, admins, tokens>>

\* Mutant: the current password is not compared.
CompareNothing(r) ==
    /\ Proceed(r, "compare", "write")
    /\ UNCHANGED <<complete, admins, tokens>>
\* The account is read and the current password compared with what was read.
Compare(r) ==
    /\ req[r].at = "compare"
    /\ req[r].password = admins[req[r].id].password
    /\ Proceed(r, "compare", "write")
    /\ UNCHANGED <<complete, admins, tokens>>
Incorrect(r) ==
    /\ req[r].at = "compare"
    /\ req[r].password # admins[req[r].id].password
    /\ Answer(r, "compare", Rejected)
    /\ UNCHANGED <<complete, admins, tokens>>
\* A new password of less than eight characters.
NewRejected(r) ==
    /\ Answer(r, "write", Rejected)
    /\ UNCHANGED <<complete, admins, tokens>>

ChangePassword(r) ==
    /\ req[r].at = "write"
    /\ admins' = [admins EXCEPT ![req[r].id].password = req[r].next]
    /\ \E status \in {Success, Failed} :
        req' = [s \in Requests |->
            IF s = r THEN [req[r] EXCEPT !.at = "end", !.answer = status]
            ELSE IF req[s].id = req[r].id THEN [req[s] EXCEPT !.held = @ \cup {req[r].next}]
            ELSE req[s]]
    /\ UNCHANGED <<complete, tokens>>

\* A statement fails, an email is taken, or nobody is left to take the answer.
StatementFails(r) ==
    /\ \E at \in {"check", "create", "complete", "write"} : Answer(r, at, Failed)
    /\ UNCHANGED <<complete, admins, tokens>>
ReadFails(r) ==
    /\ Answer(r, "compare", NotFound)
    /\ UNCHANGED <<complete, admins, tokens>>

-----------------------------------------------------------------------------
Setup(r) == \/ BeginSetup(r) \/ CheckSetup(r) \/ AlreadyComplete(r) \/ FormRejected(r)
            \/ CreateAdmin(r) \/ CompleteSetup(r)
Account(r) == \/ Login(r) \/ UpdateProfile(r) \/ ProfileFails(r)
              \/ BeginPassword(r) \/ Compare(r) \/ Incorrect(r) \/ NewRejected(r)
              \/ ChangePassword(r)
AccountNext == \E r \in Requests : Setup(r) \/ Account(r) \/ StatementFails(r) \/ ReadFails(r)

AccountSpec == AccountInit /\ [][AccountNext]_accountVars
-----------------------------------------------------------------------------
(* Properties. *)

\* Once setup is complete there is an account to log in with: whatever fails between
\* the statements, nobody is locked out (setup.go:61-70).
SomebodyCanLogIn == complete => Ids # {}

\* A setup that arrived when setup was complete makes no account, however long the
\* requests before it took (setup.go:29-37).
SetupCloses == \A a \in Ids : ~req[a].late

\* What setups are answered holds, whatever statement of whichever setup fails and
\* however they interleave: who was answered 201 has an account, and once anybody was
\* answered 201 or 409 no setup that begins later makes one.  A setup answered 500 may
\* have made an account, or completed the setup, all the same (setup.go:28-97).
AnswersHold ==
    /\ \A r \in Requests : req[r].answer = Created => r \in Ids
    /\ \A a \in Ids : ~req[a].told

\* An account's password changes only for a request whose current password was the
\* account's since it arrived (auth.go:119-163).
ChangedByHolder == [][\A a \in Ids : admins'[a].password # admins[a].password =>
    \E r \in Requests : /\ req[r].at = "write" /\ req'[r].at = "end"
                        /\ req[r].id = a /\ req[r].password \in req[r].held]_accountVars
=============================================================================
