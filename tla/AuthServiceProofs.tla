---------------------------- MODULE AuthServiceProofs ----------------------------
(***************************************************************************)
(* Theorems about AuthService for any number of processes, logins,         *)
(* addresses and passwords.                                                *)
(***************************************************************************)
EXTENDS AuthService, TLAPS

(***************************************************************************)
(* The inductive invariant.                                                *)
(***************************************************************************)

\* An e-mail is in lower case once the registration has begun.
Lowered(e) == e \in Emails /\ e.spelling = "lower"

\* A registration under way has its data.
SessionsOK ==
    \A p \in Processes :
        ~At(p, "idle") =>
            /\ session[p].login \in Logins
            /\ Lowered(session[p].email)
            /\ session[p].password \in Passwords

\* A key that is entered in an index is in no committed row and in no other
\* transaction.
KeysExclusive ==
    \A p \in Processes :
        /\ "login" \in session[p].keys => LoginFree(p) /\ ~LoginTaken(p)
        /\ "email" \in session[p].keys => EmailFree(p) /\ ~EmailTaken(p)

\* The three unique columns, and the only spelling of an address.
UsersUnique ==
    /\ \A u \in users : Lowered(u.email)
    /\ \A u, v \in users :
            u.id = v.id \/ u.login = v.login \/ u.email = v.email => u = v

\* A token's subject is the user whose credentials were presented.
TokensSound ==
    \A t \in tokens :
        \E u \in users : u.id = t.sub /\ u.login = t.login /\ u.password = t.password

Inv ==
    /\ TypeOK
    /\ SessionsOK
    /\ KeysExclusive
    /\ UsersUnique
    /\ TokensSound
    /\ ConflictsAreReal

USE NoneAssumption

--------------------------------------------------------------------------------

LEMMA InitInv == Init => Inv
  BY DEF Init, Inv, TypeOK, SessionsOK, KeysExclusive, UsersUnique, TokensSound,
     ConflictsAreReal, NoSession, KeysEntered, Sessions, At

\* Lower gives an address in lower case.
LEMMA LowerLowered == \A e \in Emails : Lowered(Lower(e)) /\ Lower(e).address = e.address
  BY DEF Lower, Lowered, Emails

\* A step of one session that leaves the rows alone and keeps what its place
\* requires of it.
LEMMA SessionStep ==
    ASSUME Inv, NEW p \in Processes, NEW s,
           session' = [session EXCEPT ![p] = s],
           UNCHANGED <<users, tokens>>,
           s.pc # "idle" =>
                /\ s.login \in Logins /\ Lowered(s.email) /\ s.password \in Passwords,
           s \in Sessions,
           s.keys = KeysEntered(s.pc),
           s.keys = {}
           \/ /\ s.login = session[p].login /\ s.email = session[p].email
              /\ "login" \in s.keys => LoginFree(p) /\ ~LoginTaken(p)
              /\ "email" \in s.keys => EmailFree(p) /\ ~EmailTaken(p),
           s.pc = "conflict" =>
                \E u \in users : u.login = s.login \/ u.email = s.email
    PROVE  Inv'
  <1>1. /\ session'[p] = s
        /\ \A q \in Processes \ {p} : session'[q] = session[q]
        /\ session \in [Processes -> Sessions]
    BY DEF Inv, TypeOK
  <1>2. TypeOK'
    BY <1>1 DEF Inv, TypeOK, Sessions
  <1>3. SessionsOK' /\ ConflictsAreReal'
    BY <1>1 DEF Inv, SessionsOK, ConflictsAreReal, LoginTaken, EmailTaken, At
  <1>4. KeysExclusive'
    <2>1. ASSUME NEW q \in Processes
          PROVE  /\ "login" \in session'[q].keys => LoginFree(q)' /\ ~LoginTaken(q)'
                 /\ "email" \in session'[q].keys => EmailFree(q)' /\ ~EmailTaken(q)'
      BY <1>1 DEF Inv, KeysExclusive, LoginFree, EmailFree, LoginTaken, EmailTaken
    <2> QED
      BY <2>1 DEF KeysExclusive
  <1>5. UsersUnique' /\ TokensSound'
    BY DEF Inv, UsersUnique, TokensSound
  <1> QED
    BY <1>2, <1>3, <1>4, <1>5 DEF Inv

LEMMA RegisterInv ==
    ASSUME Inv, NEW p \in Processes, NEW l \in Logins, NEW e \in Emails,
           NEW w \in Passwords, Register(p, l, e, w)
    PROVE  Inv'
  <1> DEFINE s == [pc |-> "get_by_login", login |-> l, email |-> Lower(e),
                   password |-> w, keys |-> {}]
  <1>1. session' = [session EXCEPT ![p] = s] /\ UNCHANGED <<users, tokens>>
    BY DEF Register
  <1>2. Lowered(s.email)
    BY LowerLowered
  <1>3. s.keys = KeysEntered(s.pc)
    BY DEF KeysEntered
  <1> QED
    BY <1>1, <1>2, <1>3, SessionStep DEF Lowered, Sessions

\* Queries, INSERTs, answers and failures move one session.
LEMMA MoveInv ==
    ASSUME Inv, NEW p \in Processes,
           GetByLogin(p) \/ GetByEmail(p) \/ IndexStep(p) \/ Respond(p) \/ Fail(p)
    PROVE  Inv'
  <1>1. /\ session[p] \in Sessions
        /\ session[p].keys = KeysEntered(session[p].pc)
        /\ session[p].pc # "idle" =>
                /\ session[p].login \in Logins /\ Lowered(session[p].email)
                /\ session[p].password \in Passwords
    BY DEF Inv, TypeOK, SessionsOK, At
  <1>2. ASSUME NEW pc \in {"get_by_email", "insert_login", "insert_email", "commit", "conflict"},
               session' = [session EXCEPT ![p].pc = pc, ![p].keys = KeysEntered(pc)],
               UNCHANGED <<users, tokens>>, ~At(p, "idle"),
               "login" \in KeysEntered(pc) => LoginFree(p) /\ ~LoginTaken(p),
               "email" \in KeysEntered(pc) => EmailFree(p) /\ ~EmailTaken(p),
               pc = "conflict" => LoginTaken(p) \/ EmailTaken(p)
        PROVE  Inv'
    <2> DEFINE s == [session[p] EXCEPT !.pc = pc, !.keys = KeysEntered(pc)]
    <2>1. session' = [session EXCEPT ![p] = s]
      BY <1>2, <1>1 DEF Inv, TypeOK, Sessions
    <2>2. /\ s.pc = pc /\ s.keys = KeysEntered(pc) /\ s.login = session[p].login
          /\ s.email = session[p].email /\ s.password = session[p].password
          /\ s \in Sessions
      BY <1>1 DEF Sessions, KeysEntered
    <2>3. /\ s.login \in Logins /\ Lowered(s.email) /\ s.password \in Passwords
          /\ s.pc = "conflict" => \E u \in users : u.login = s.login \/ u.email = s.email
      BY <1>1, <1>2, <2>2 DEF LoginTaken, EmailTaken, At
    <2> HIDE DEF s
    <2> QED
      BY <1>2, <2>1, <2>2, <2>3, SessionStep
  <1>3. CASE GetByLogin(p) \/ GetByEmail(p)
    <2>1. session[p].keys = {}
      BY <1>1, <1>3 DEF KeysEntered, GetByLogin, GetByEmail, At
    <2>2. PICK pc \in {"get_by_email", "insert_login", "conflict"} :
            /\ session' = [session EXCEPT ![p].pc = pc]
            /\ UNCHANGED <<users, tokens>> /\ ~At(p, "idle")
            /\ pc = "conflict" => LoginTaken(p) \/ EmailTaken(p)
      BY <1>3 DEF GetByLogin, GetByEmail, Goto, At
    <2>3. session' = [session EXCEPT ![p].pc = pc, ![p].keys = KeysEntered(pc)]
      BY <1>1, <2>1, <2>2 DEF KeysEntered, Inv, TypeOK, Sessions
    <2> QED
      BY <1>2, <2>2, <2>3 DEF KeysEntered
  <1>4. CASE InsertLogin(p)
    <2>1. session[p].keys \cup {"login"} = KeysEntered("insert_email")
      BY <1>1, <1>4 DEF InsertLogin, KeysEntered, At
    <2>2. session' = [session EXCEPT ![p].pc = "insert_email",
                                     ![p].keys = KeysEntered("insert_email")]
      BY <1>1, <1>4, <2>1 DEF InsertLogin, Enter, Inv, TypeOK, Sessions
    <2> QED
      BY <1>2, <1>4, <2>2 DEF InsertLogin, Enter, KeysEntered, At
  <1>5. CASE InsertEmail(p)
    <2>1. /\ session[p].keys = {"login"}
          /\ session[p].keys \cup {"email"} = KeysEntered("commit")
      BY <1>1, <1>5 DEF InsertEmail, KeysEntered, At
    <2>2. session' = [session EXCEPT ![p].pc = "commit",
                                     ![p].keys = KeysEntered("commit")]
      BY <1>1, <1>5, <2>1 DEF InsertEmail, Enter, Inv, TypeOK, Sessions
    <2>3. LoginFree(p) /\ ~LoginTaken(p)
      BY <2>1 DEF Inv, KeysExclusive
    <2> QED
      BY <1>2, <1>5, <2>2, <2>3 DEF InsertEmail, Enter, KeysEntered, At
  <1>6. CASE InsertViolatesUnique(p)
    <2>1. session' = [session EXCEPT ![p].pc = "conflict",
                                     ![p].keys = KeysEntered("conflict")]
      BY <1>6 DEF InsertViolatesUnique, KeysEntered
    <2> QED
      BY <1>2, <1>6, <2>1 DEF InsertViolatesUnique, KeysEntered, At
  <1>7. CASE Respond(p) \/ Fail(p)
    BY <1>7, SessionStep DEF Respond, Fail, NoSession, KeysEntered, Sessions
  <1> QED
    BY <1>3, <1>4, <1>5, <1>6, <1>7 DEF IndexStep

\* The row that a commit adds, with an id of its own.
LEMMA CommitRow ==
    ASSUME Inv, NEW p \in Processes, Commit(p)
    PROVE  \E i \in Ids, u \in Rows :
            /\ u = [id |-> i, login |-> session[p].login, email |-> session[p].email,
                    password |-> session[p].password]
            /\ users' = users \cup {u}
            /\ \A v \in users : v.id # i /\ v.login # u.login /\ v.email # u.email
            /\ Lowered(u.email)
  <1>1. /\ session[p].login \in Logins /\ Lowered(session[p].email)
        /\ session[p].password \in Passwords
        /\ ~LoginTaken(p) /\ ~EmailTaken(p)
    BY DEF Commit, At, Inv, TypeOK, KeysEntered, SessionsOK, KeysExclusive
  <1>2. PICK i \in Ids \ {u.id : u \in users} :
            users' = users \cup {[id |-> i, login |-> session[p].login,
                email |-> session[p].email, password |-> session[p].password]}
    BY DEF Commit
  <1> DEFINE u == [id |-> i, login |-> session[p].login, email |-> session[p].email,
                   password |-> session[p].password]
  <1>3. u \in Rows
    BY <1>1 DEF Rows, Lowered
  <1>4. \A v \in users : v.id # i /\ v.login # u.login /\ v.email # u.email
    BY <1>1 DEF LoginTaken, EmailTaken
  <1> QED
    BY <1>1, <1>2, <1>3, <1>4

LEMMA CommitInv ==
    ASSUME Inv, NEW p \in Processes, Commit(p)
    PROVE  Inv'
  <1>1. PICK i \in Ids, u \in Rows :
            /\ u = [id |-> i, login |-> session[p].login, email |-> session[p].email,
                    password |-> session[p].password]
            /\ users' = users \cup {u}
            /\ \A v \in users : v.id # i /\ v.login # u.login /\ v.email # u.email
            /\ Lowered(u.email)
    BY CommitRow
  <1>2. /\ session \in [Processes -> Sessions]
        /\ session'[p] = [session[p] EXCEPT !.pc = "created", !.keys = {}]
        /\ \A q \in Processes \ {p} : session'[q] = session[q]
        /\ tokens' = tokens
        /\ session[p].pc = "commit" /\ session[p].keys = {"login", "email"}
    BY DEF Commit, At, Inv, TypeOK, KeysEntered
  <1>3. /\ session'[p].keys = {} /\ session'[p].pc = "created"
        /\ session'[p].login = session[p].login /\ session'[p].email = session[p].email
        /\ session'[p].password = session[p].password /\ session'[p] \in Sessions
    <2>1. session[p] \in Sessions
      BY <1>2
    <2> QED
      BY <1>2, <2>1 DEF Sessions
  <1>4. TypeOK'
    <2>0. u.email.spelling = "lower"
      BY <1>1 DEF Lowered
    <2>1. session' \in [Processes -> Sessions]
      BY <1>2, <1>3 DEF Commit, Inv, TypeOK
    <2>2. \A q \in Processes : session'[q].keys = KeysEntered(session'[q].pc)
      <3>1. session'[p].keys = KeysEntered(session'[p].pc)
        BY <1>3 DEF KeysEntered
      <3>2. \A q \in Processes \ {p} : session'[q].keys = KeysEntered(session'[q].pc)
        BY <1>2 DEF Inv, TypeOK
      <3> QED
        BY <3>1, <3>2
    <2> QED
      BY <1>1, <1>2, <2>0, <2>1, <2>2 DEF Inv, TypeOK
  <1>5. SessionsOK'
    BY <1>2, <1>3 DEF Inv, SessionsOK, At
  <1>6. KeysExclusive'
    <2>1. ASSUME NEW q \in Processes, "login" \in session'[q].keys
          PROVE  LoginFree(q)' /\ ~LoginTaken(q)'
      <3>1. q # p /\ "login" \in session[q].keys /\ session[q].login # session[p].login
        BY <1>2, <1>3, <2>1 DEF Inv, KeysExclusive, LoginFree
      <3>2. LoginFree(q) /\ ~LoginTaken(q)
        BY <3>1 DEF Inv, KeysExclusive
      <3>3. session'[q] = session[q]
        BY <1>2, <3>1
      <3>4. LoginFree(q)'
        BY <1>2, <1>3, <3>2, <3>3 DEF LoginFree
      <3>5. ~LoginTaken(q)'
        BY <1>1, <3>1, <3>2, <3>3 DEF LoginTaken
      <3> QED
        BY <3>4, <3>5
    <2>2. ASSUME NEW q \in Processes, "email" \in session'[q].keys
          PROVE  EmailFree(q)' /\ ~EmailTaken(q)'
      <3>1. q # p /\ "email" \in session[q].keys /\ session[q].email # session[p].email
        BY <1>2, <1>3, <2>2 DEF Inv, KeysExclusive, EmailFree
      <3>2. EmailFree(q) /\ ~EmailTaken(q)
        BY <3>1 DEF Inv, KeysExclusive
      <3>3. session'[q] = session[q]
        BY <1>2, <3>1
      <3>4. EmailFree(q)'
        BY <1>2, <1>3, <3>2, <3>3 DEF EmailFree
      <3>5. ~EmailTaken(q)'
        BY <1>1, <3>1, <3>2, <3>3 DEF EmailTaken
      <3> QED
        BY <3>4, <3>5
    <2> QED
      BY <2>1, <2>2 DEF KeysExclusive
  <1>7. UsersUnique'
    BY <1>1 DEF Inv, UsersUnique
  <1>8. TokensSound'
    BY <1>1, <1>2 DEF Inv, TokensSound
  <1>9. ConflictsAreReal'
    <2> SUFFICES ASSUME NEW q \in Processes, session'[q].pc = "conflict"
                 PROVE  LoginTaken(q)' \/ EmailTaken(q)'
      BY DEF ConflictsAreReal, At
    <2>1. session'[q] = session[q] /\ (LoginTaken(q) \/ EmailTaken(q))
      BY <1>2, <1>3 DEF Inv, ConflictsAreReal, At
    <2> QED
      BY <1>1, <2>1 DEF LoginTaken, EmailTaken
  <1> QED
    BY <1>4, <1>5, <1>6, <1>7, <1>8, <1>9 DEF Inv

LEMMA TokenInv ==
    ASSUME Inv, UNCHANGED <<users, session>>,
           tokens' \subseteq [sub : Ids, login : Logins, password : Passwords],
           TokensSound'
    PROVE  Inv'
  BY DEF Inv, TypeOK, SessionsOK, KeysExclusive, UsersUnique, ConflictsAreReal,
     LoginFree, EmailFree, LoginTaken, EmailTaken, At

LEMMA LoginInv ==
    ASSUME Inv, NEW p \in Processes, NEW l \in Logins, NEW w \in Passwords,
           Login(p, l, w)
    PROVE  Inv'
  <1>1. PICK u \in users :
            /\ u.login = l /\ u.password = w
            /\ tokens' = tokens \cup {[sub |-> u.id, login |-> l, password |-> w]}
            /\ UNCHANGED <<users, session>>
    BY DEF Login
  <1>2. u.id \in Ids
    BY DEF Inv, TypeOK, Rows
  <1>3. tokens' \subseteq [sub : Ids, login : Logins, password : Passwords]
    BY <1>1, <1>2 DEF Inv, TypeOK
  <1>4. TokensSound'
    BY <1>1 DEF Inv, TokensSound
  <1> QED
    BY <1>1, <1>3, <1>4, TokenInv

LEMMA ExpireInv ==
    ASSUME Inv, NEW t, Expire(t)
    PROVE  Inv'
  <1>1. /\ tokens' \subseteq [sub : Ids, login : Logins, password : Passwords]
        /\ TokensSound'
    BY DEF Expire, Inv, TypeOK, TokensSound
  <1> QED
    BY <1>1, TokenInv DEF Expire

LEMMA NextInv == Inv /\ [Next]_vars => Inv'
  <1> SUFFICES ASSUME Inv, [Next]_vars PROVE Inv'
    OBVIOUS
  <1>1. ASSUME NEW p \in Processes, Step(p) \/ IndexStep(p) \/ Fail(p)
        PROVE  Inv'
    BY <1>1, MoveInv, CommitInv DEF Step
  <1>2. CASE UNCHANGED vars
    BY <1>2 DEF vars, Inv, TypeOK, SessionsOK, KeysExclusive, UsersUnique, TokensSound,
       ConflictsAreReal, LoginFree, EmailFree, LoginTaken, EmailTaken, At
  <1> QED
    BY <1>1, <1>2, RegisterInv, LoginInv, ExpireInv DEF Next

LEMMA Invariance == Spec => []Inv
  BY InitInv, NextInv, PTL DEF Spec

\* Whatever interleaves, rows have their columns, every e-mail is stored in lower
\* case, and no index key is held by a transaction that has ended.
THEOREM TypeCorrect == Spec => []TypeOK
  <1>1. Inv => TypeOK
    BY DEF Inv
  <1> QED
    BY <1>1, Invariance, PTL

\* A registration is refused as a conflict only if its login or e-mail is taken.
THEOREM ConflictsReal == Spec => []ConflictsAreReal
  <1>1. Inv => ConflictsAreReal
    BY DEF Inv
  <1> QED
    BY <1>1, Invariance, PTL

--------------------------------------------------------------------------------
(***************************************************************************)
(* The refinement.                                                         *)
(***************************************************************************)

accounts == {AccountOf(u) : u \in users}

signedIn ==
    {[login |-> t.login, password |-> t.password,
      address |-> CurrentUser(t).email.address] : t \in tokens}

\* A token resolves to the one user with its subject, before and after a commit.
LEMMA CurrentUserOf ==
    ASSUME Inv, NEW t \in tokens
    PROVE  /\ CurrentUser(t) \in users
           /\ CurrentUser(t).id = t.sub
           /\ CurrentUser(t).login = t.login /\ CurrentUser(t).password = t.password
  BY DEF Inv, TokensSound, UsersUnique, CurrentUser

LEMMA CurrentUserStays ==
    ASSUME Inv, Inv', NEW t \in tokens, t \in tokens', users \subseteq users'
    PROVE  CurrentUser(t)' = CurrentUser(t)
  <1>1. CurrentUser(t) \in users' /\ CurrentUser(t).id = t.sub
    BY CurrentUserOf
  <1>2. \A u \in users' : u.id = t.sub => u = CurrentUser(t)
    BY <1>1 DEF Inv, UsersUnique
  <1>3. CurrentUser(t)' = CHOOSE u \in users' : u.id = t.sub
    BY DEF CurrentUser
  <1> QED
    BY <1>1, <1>2, <1>3

LEMMA DirectoryInit == Init => Directory!Init
  BY DEF Init, Directory!Init

LEMMA CommitDirectory ==
    ASSUME Inv, Inv', NEW p \in Processes, Commit(p)
    PROVE  Directory!Next
  <1>1. PICK i \in Ids, u \in Rows :
            /\ u = [id |-> i, login |-> session[p].login, email |-> session[p].email,
                    password |-> session[p].password]
            /\ users' = users \cup {u}
            /\ \A v \in users : v.id # i /\ v.login # u.login /\ v.email # u.email
            /\ Lowered(u.email)
    BY CommitRow
  <1>2. \A v \in users : v.email.address # u.email.address
    BY <1>1 DEF Inv, UsersUnique, Lowered, Emails
  <1>3. AccountOf(u) \in Directory!Accounts
    BY DEF AccountOf, Directory!Accounts, Rows, Emails
  <1>4. \A b \in accounts :
            b.login # AccountOf(u).login /\ b.address # AccountOf(u).address
    BY <1>1, <1>2 DEF accounts, AccountOf
  <1>5. accounts' = accounts \cup {AccountOf(u)}
    BY <1>1 DEF accounts, AccountOf
  <1>6. signedIn' = signedIn
    BY <1>1, CurrentUserStays DEF signedIn, Commit
  <1>7. Directory!Register(AccountOf(u))
    BY <1>4, <1>5, <1>6 DEF Directory!Register, accounts, signedIn
  <1> QED
    BY <1>3, <1>7 DEF Directory!Next

LEMMA LoginDirectory ==
    ASSUME Inv, Inv', NEW p \in Processes, NEW l \in Logins, NEW w \in Passwords,
           Login(p, l, w)
    PROVE  Directory!Next
  <1>1. PICK u \in users :
            /\ u.login = l /\ u.password = w
            /\ tokens' = tokens \cup {[sub |-> u.id, login |-> l, password |-> w]}
            /\ UNCHANGED <<users, session>>
    BY DEF Login
  <1> DEFINE t == [sub |-> u.id, login |-> l, password |-> w]
  <1>2. CurrentUser(t)' = u
    BY <1>1 DEF CurrentUser, Inv, UsersUnique
  <1>3. AccountOf(u) \in Directory!Accounts /\ AccountOf(u) \in accounts
    BY DEF AccountOf, Directory!Accounts, Rows, Emails, accounts, Inv, TypeOK
  <1>4. signedIn' = signedIn \cup {AccountOf(u)}
    <2>1. \A s \in tokens : CurrentUser(s)' = CurrentUser(s)
      BY <1>1, CurrentUserStays
    <2> QED
      BY <1>1, <1>2, <2>1 DEF signedIn, AccountOf
  <1>5. accounts' = accounts
    BY <1>1 DEF accounts, AccountOf
  <1>6. Directory!Login(AccountOf(u))
    BY <1>3, <1>4, <1>5 DEF Directory!Login, accounts, signedIn
  <1> QED
    BY <1>3, <1>6 DEF Directory!Next

LEMMA ExpireDirectory ==
    ASSUME Inv, Inv', NEW t \in tokens, Expire(t)
    PROVE  Directory!Next
  <1>0. PICK u : u = CurrentUser(t)
    OBVIOUS
  <1>1. /\ u \in users /\ u.id = t.sub /\ u.login = t.login /\ u.password = t.password
    BY <1>0, CurrentUserOf
  <1>2. AccountOf(u) \in Directory!Accounts
    BY <1>1 DEF AccountOf, Directory!Accounts, Rows, Emails, Inv, TypeOK
  <1>3. \A s \in tokens : s # t => s.login # t.login
    <2> SUFFICES ASSUME NEW s \in tokens, s.login = t.login PROVE s = t
      OBVIOUS
    <2>1. CurrentUser(s) = u
      BY <1>1, CurrentUserOf DEF Inv, UsersUnique
    <2>2. s.sub = t.sub /\ s.password = t.password
      BY <1>1, <2>1, CurrentUserOf
    <2> QED
      BY <2>2 DEF Inv, TypeOK
  <1>4. signedIn' = signedIn \ {AccountOf(u)}
    <2>1. \A s \in tokens : CurrentUser(s)' = CurrentUser(s)
      BY DEF Expire, CurrentUser
    <2>2. AccountOf(u) = [login |-> t.login, password |-> t.password,
                          address |-> CurrentUser(t).email.address]
      BY <1>0, <1>1 DEF AccountOf
    <2>3. AccountOf(u).login = t.login
      BY <2>2
    <2>4. \A s \in tokens : s # t =>
            [login |-> s.login, password |-> s.password,
             address |-> CurrentUser(s).email.address] # AccountOf(u)
      BY <1>3, <2>3
    <2> QED
      BY <2>1, <2>2, <2>4 DEF Expire, signedIn
  <1>5. accounts' = accounts
    BY DEF Expire, accounts, AccountOf
  <1>6. Directory!Expire(AccountOf(u))
    BY <1>4, <1>5 DEF Directory!Expire, accounts, signedIn
  <1> QED
    BY <1>2, <1>6 DEF Directory!Next

LEMMA DirectoryStep == Inv /\ Inv' /\ [Next]_vars => [Directory!Next]_(Directory!vars)
  <1> SUFFICES ASSUME Inv, Inv', [Next]_vars
               PROVE  [Directory!Next]_(Directory!vars)
    OBVIOUS
  <1>1. ASSUME UNCHANGED <<users, tokens>>
        PROVE  UNCHANGED Directory!vars
    BY <1>1 DEF Directory!vars, AccountOf, CurrentUser
  <1>2. ASSUME NEW p \in Processes, Step(p) \/ IndexStep(p) \/ Fail(p)
        PROVE  Commit(p) \/ UNCHANGED <<users, tokens>>
    BY <1>2 DEF Step, IndexStep, GetByLogin, GetByEmail, Goto, Respond, InsertLogin,
       InsertEmail, Enter, InsertViolatesUnique, Fail
  <1>3. ASSUME NEW p \in Processes, NEW l \in Logins, NEW e \in Emails,
               NEW w \in Passwords, Register(p, l, e, w)
        PROVE  UNCHANGED <<users, tokens>>
    BY <1>3 DEF Register
  <1> QED
    BY <1>1, <1>2, <1>3, CommitDirectory, LoginDirectory, ExpireDirectory DEF Next, vars

\* The commit of a registration opens the account, whatever other registrations
\* of its login or address are under way; tokens are what their passwords bought.
THEOREM DirectoryImplemented == Spec => ImplementsDirectory
  BY DirectoryInit, DirectoryStep, Invariance, PTL
  DEF Spec, ImplementsDirectory, Directory!Spec
================================================================================
