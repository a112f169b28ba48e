---------------------------- MODULE AccountDirectory ----------------------------
(***************************************************************************)
(* What registration and login promise: a directory of accounts in which   *)
(* no login and no e-mail address occurs twice, and tokens that only the   *)
(* password of an account buys.                                            *)
(***************************************************************************)
CONSTANTS
    Logins,     \* login names
    Addresses,  \* e-mail addresses, whatever the case they are written in
    Passwords   \* passwords

VARIABLES
    accounts,  \* the accounts there are
    signedIn   \* the accounts a valid token is out for

vars == <<accounts, signedIn>>

Accounts == [login : Logins, address : Addresses, password : Passwords]

Init ==
    /\ accounts = {}
    /\ signedIn = {}

\* An account is opened in one step.
Register(a) ==
    /\ \A b \in accounts : b.login # a.login /\ b.address # a.address
    /\ accounts' = accounts \cup {a}
    /\ UNCHANGED signedIn

\* Whoever knows an account's login and password gets a token.
Login(a) ==
    /\ a \in accounts
    /\ signedIn' = signedIn \cup {a}
    /\ UNCHANGED accounts

\* Tokens expire.
Expire(a) ==
    /\ signedIn' = signedIn \ {a}
    /\ UNCHANGED accounts

Next == \E a \in Accounts : Register(a) \/ Login(a) \/ Expire(a)

Spec == Init /\ [][Next]_vars
================================================================================
