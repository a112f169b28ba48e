------------------------------- MODULE AuthService -------------------------------
(***************************************************************************)
(* Registration and login (app/services/auth_service.py) on the users rows *)
(* (app/repositories/users.py, app/models/user.py).  A registration looks  *)
(* for its login and its e-mail, one query each, and inserts its row       *)
(* later: what other registrations do in between is left to the two unique *)
(* indexes, which an INSERT enters one after the other.                    *)
(*                                                                         *)
(* A password's hash is the password: verify accepts the password a hash   *)
(* was made of and no other.  A token is its subject, with the credentials *)
(* it was given for.                                                       *)
(***************************************************************************)
EXTENDS FiniteSets

CONSTANTS
    Processes,  \* processes that serve HTTP requests
    Logins,     \* login names
    Addresses,  \* e-mail addresses, whatever the case they are written in
    Passwords,  \* passwords
    Ids,        \* values of the sequence of users.id
    None        \* a field of an idle session

Emails == [address : Addresses, spelling : {"lower", "mixed"}]

ASSUME NoneAssumption == None \notin Logins \cup Emails \cup Passwords

VARIABLES
    users,    \* the committed users rows
    tokens,   \* the tokens that have not expired
    session   \* what each process does

vars == <<users, tokens, session>>

Rows == [id : Ids, login : Logins, email : Emails, password : Passwords]

NoSession ==
    [pc |-> "idle", login |-> None, email |-> None, password |-> None, keys |-> {}]

Init ==
    /\ users = {}
    /\ tokens = {}
    /\ session = [p \in Processes |-> NoSession]

--------------------------------------------------------------------------------
(* Rows and unique indexes.                                                *)

\* Mutant: the e-mail is kept as it was typed.
LowerNothing(email) == email

\* payload.email.lower()
Lower(email) == [email EXCEPT !.spelling = "lower"]

At(p, pc) == session[p].pc = pc

Goto(p, pc) ==
    /\ session' = [session EXCEPT ![p].pc = pc]
    /\ UNCHANGED <<users, tokens>>

LoginTaken(p) == \E u \in users : u.login = session[p].login
EmailTaken(p) == \E u \in users : u.email = session[p].email

\* An INSERT waits for a transaction in flight that has entered its key.
LoginFree(p) ==
    \A q \in Processes \ {p} :
        "login" \in session[q].keys => session[q].login # session[p].login
EmailFree(p) ==
    \A q \in Processes \ {p} :
        "email" \in session[q].keys => session[q].email # session[p].email

--------------------------------------------------------------------------------
(* A registration, query by query.                                         *)

Register(p, login, email, password) ==
    /\ At(p, "idle")
    /\ session' = [session EXCEPT ![p] =
            [pc |-> "get_by_login", login |-> login, email |-> Lower(email),
             password |-> password, keys |-> {}]]
    /\ UNCHANGED <<users, tokens>>

GetByLogin(p) ==
    /\ At(p, "get_by_login")
    /\ Goto(p, IF LoginTaken(p) THEN "conflict" ELSE "get_by_email")

GetByEmail(p) ==
    /\ At(p, "get_by_email")
    /\ Goto(p, IF EmailTaken(p) THEN "conflict" ELSE "insert_login")

\* The INSERT of the row enters a key into an index.
Enter(p, key, pc) ==
    /\ session' = [session EXCEPT ![p].keys = @ \cup {key}, ![p].pc = pc]
    /\ UNCHANGED <<users, tokens>>

InsertLogin(p) ==
    /\ At(p, "insert_login")
    /\ LoginFree(p) /\ ~LoginTaken(p)
    /\ Enter(p, "login", "insert_email")

\* Mutant: the index of the e-mail column is not unique.
InsertEmailNotUnique(p) ==
    /\ At(p, "insert_email")
    /\ Enter(p, "email", "commit")

InsertEmail(p) ==
    /\ At(p, "insert_email")
    /\ EmailFree(p) /\ ~EmailTaken(p)
    /\ Enter(p, "email", "commit")

\* Mutant: the INSERT is tried again.
InsertViolatesUniqueRetries(p) ==
    /\ \/ At(p, "insert_login") /\ LoginTaken(p)
       \/ At(p, "insert_email") /\ EmailTaken(p)
    /\ session' = [session EXCEPT ![p].pc = "insert_login", ![p].keys = {}]
    /\ UNCHANGED <<users, tokens>>

\* The IntegrityError of either index: PostgreSQL gives up the keys at the error,
\* before the session is rolled back and the conflict is answered.
InsertViolatesUnique(p) ==
    /\ \/ At(p, "insert_login") /\ LoginTaken(p)
       \/ At(p, "insert_email") /\ EmailTaken(p)
    /\ session' = [session EXCEPT ![p].pc = "conflict", ![p].keys = {}]
    /\ UNCHANGED <<users, tokens>>

\* UserRepository.create commits; nobody has seen the row's id before.
Commit(p) ==
    LET s == session[p] IN
    /\ At(p, "commit")
    /\ \E i \in Ids \ {u.id : u \in users} :
            users' = users \cup {[id |-> i, login |-> s.login, email |-> s.email,
                                  password |-> s.password]}
    /\ session' = [session EXCEPT ![p].pc = "created", ![p].keys = {}]
    /\ UNCHANGED tokens

\* 201 with the row, read again, or 409.
Respond(p) ==
    /\ session[p].pc \in {"created", "conflict"}
    /\ session' = [session EXCEPT ![p] = NoSession]
    /\ UNCHANGED <<users, tokens>>

\* Mutant: every error of a registration is reported as a conflict.
FailAsConflict(p) ==
    /\ ~At(p, "idle")
    /\ session' = [session EXCEPT ![p].pc = "conflict", ![p].keys = {}]
    /\ UNCHANGED <<users, tokens>>

\* The process dies or loses its connection; an answer that was due is lost.
Fail(p) ==
    /\ ~At(p, "idle")
    /\ session' = [session EXCEPT ![p] = NoSession]
    /\ UNCHANGED <<users, tokens>>

--------------------------------------------------------------------------------
(* Tokens.                                                                 *)

\* login: one query, verify_password and create_access_token.
Login(p, login, password) ==
    /\ At(p, "idle")
    /\ \E u \in users :
        /\ u.login = login /\ u.password = password
        /\ tokens' = tokens \cup
                {[sub |-> u.id, login |-> login, password |-> password]}
    /\ UNCHANGED <<users, session>>

\* decode_access_token raises TOKEN_EXPIRED from now on.
Expire(t) ==
    /\ t \in tokens
    /\ tokens' = tokens \ {t}
    /\ UNCHANGED <<users, session>>

\* get_current_user of a token that has not expired.
CurrentUser(t) == CHOOSE u \in users : u.id = t.sub

--------------------------------------------------------------------------------

Step(p) == GetByLogin(p) \/ GetByEmail(p) \/ Commit(p) \/ Respond(p)

\* Statements that may wait for another INSERT.
IndexStep(p) == InsertLogin(p) \/ InsertEmail(p) \/ InsertViolatesUnique(p)

Next ==
    \/ \E p \in Processes :
        \/ \E login \in Logins, password \in Passwords :
            \/ \E email \in Emails : Register(p, login, email, password)
            \/ Login(p, login, password)
        \/ Step(p) \/ IndexStep(p) \/ Fail(p)
    \/ \E t \in tokens : Expire(t)

Spec == Init /\ [][Next]_vars

\* A process that runs goes on, and PostgreSQL wakes the waiters of a key.
FairSpec ==
    /\ Spec
    /\ \A p \in Processes : WF_vars(Step(p)) /\ SF_vars(IndexStep(p))

--------------------------------------------------------------------------------
(* Properties.                                                             *)

Sessions ==
    [pc : {"idle", "get_by_login", "get_by_email", "insert_login", "insert_email",
           "commit", "created", "conflict"},
     login : Logins \cup {None}, email : Emails \cup {None},
     password : Passwords \cup {None}, keys : SUBSET {"login", "email"}]

\* The index keys a transaction has entered, up to where it is.
KeysEntered(pc) ==
    IF pc = "commit" THEN {"login", "email"}
    ELSE IF pc = "insert_email" THEN {"login"} ELSE {}

\* Column types and the NOT NULL columns; the e-mails of all rows are in lower
\* case, as the index on the column as it is needs them to be; a session holds
\* the keys it has entered and no others.
TypeOK ==
    /\ \A p \in Processes : session[p].keys = KeysEntered(session[p].pc)
    /\ users \subseteq Rows
    /\ \A u \in users : u.email.spelling = "lower"
    /\ tokens \subseteq [sub : Ids, login : Logins, password : Passwords]
    /\ session \in [Processes -> Sessions]

\* A conflict is reported only to a registration whose login or e-mail is
\* taken (perhaps by itself, when its first answer was lost), never because of
\* a registration that fails.
ConflictsAreReal ==
    \A p \in Processes : At(p, "conflict") => LoginTaken(p) \/ EmailTaken(p)

AccountOf(u) ==
    [login |-> u.login, address |-> u.email.address, password |-> u.password]

Directory ==
    INSTANCE AccountDirectory WITH
        accounts <- {AccountOf(u) : u \in users},
        signedIn <- {[login |-> t.login, password |-> t.password,
                      address |-> CurrentUser(t).email.address] : t \in tokens}

\* The rows and tokens behave as the abstract directory: of two overlapping
\* registrations of one login or of one address one opens an account, and a
\* token speaks for the account whose password bought it.
ImplementsDirectory == Directory!Spec

\* Every registration is answered: two whose logins and e-mails cross do not
\* wait for each other, and one that an index refuses does not try for ever.
RegistrationsEnd == \A p \in Processes : ~At(p, "idle") ~> At(p, "idle")
================================================================================
