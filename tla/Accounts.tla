------------------------------ MODULE Accounts ------------------------------
(***************************************************************************)
(* Accounts and login sessions: registration, the user's and the           *)
(* administrator's login, logout, changing the password, and the bootstrap *)
(* of the first administrator.  A login reads the password's hash, takes   *)
(* its time to verify it and then inserts a session; changing a password   *)
(* reads, verifies and then updates; the bootstrap counts administrators,  *)
(* looks its account up, and then updates or inserts it.                   *)
(*                                                                         *)
(* An account is its e-mail address, which registrations store and every   *)
(* look-up asks for in lower case.  The bootstrap alone inserts the address *)
(* as the environment writes it: an account of its own if that has         *)
(* capitals, which no login and no later look-up finds.  A session is the  *)
(* cookie that carries its id.  Resetting a password is not routed and is  *)
(* left out.                                                               *)
(***************************************************************************)
EXTENDS Naturals, FiniteSets

CONSTANTS
    Users,
    Bootstrap,     \* ADMIN_BOOTSTRAP_EMAIL in lower case
    AsWritten,     \* and as it is written: the same address, or another account
    Sids,          \* login sessions
    SidOf,         \* the account whose credentials each one is asked for with
    Registered,    \* accounts of the initial state
    LoggedIn,      \* sessions of the initial state
    Passwords,
    FirstPassword, \* every account's password in the initial state, and the bootstrap's
    None,
    MaxFaults,     \* bound: statements and calls that fail, restarts
    MaxEvents      \* bound: requests, disconnections, time running out, faults

\* Accounts that a look-up can find.
Addressed == IF AsWritten = Bootstrap THEN Users ELSE Users \ {AsWritten}

ASSUME AccountsAssumption ==
    /\ {Bootstrap, AsWritten} \subseteq Users
    /\ SidOf \in [Sids -> Addressed]
    /\ Registered \subseteq Addressed /\ LoggedIn \subseteq Sids
    /\ \A s \in LoggedIn : SidOf[s] \in Registered
    /\ FirstPassword \in Passwords
    /\ None \notin Users \cup Sids \cup Passwords
    /\ {MaxFaults, MaxEvents} \subseteq Nat

VARIABLES
    account,  \* users: password (None when there is no row) and is_admin
    login,    \* sessions: where each one is, and is_admin
    changer,  \* change_password between the verification and the UPDATE
    setup,    \* setup_admin requests that have counted no administrator, and those of
              \* them that have found no account either
    used      \* counters behind the bounds

accountVars == <<account, login, changer, setup>>

Event ==
    /\ used.events < MaxEvents
    /\ used' = [used EXCEPT !.events = @ + 1]
Fault(kind) ==
    /\ used.events < MaxEvents
    /\ used.failures + used.stops < MaxFaults
    /\ used' = [used EXCEPT !.events = @ + 1, ![kind] = @ + 1]
Failed == Fault("failures")
Stopped == Fault("stops")

NoSetup == [counted |-> 0, missed |-> 0]
NoChange == [user |-> None, password |-> None]
Admins == {u \in Users : account[u].admin}
-----------------------------------------------------------------------------
\* The address is looked up and is UNIQUE: one of two registrations succeeds.
Register(u) ==
    /\ u \in Addressed /\ account[u].password = None
    /\ Event
    /\ account' = [account EXCEPT ![u].password = FirstPassword]
    /\ UNCHANGED <<login, changer, setup>>

\* Faulty variant: any account may log in as an administrator.
MayLogInAsAnyone(u, admin) == account[u].password # None

\* post_login and post_admin_login; only the latter makes an administrator's session.
MayLogIn(u, admin) == account[u].password # None /\ (admin => account[u].admin)

\* The hash is read and verified.
LoginVerify(s, admin) ==
    /\ login[s].at = "new"
    /\ MayLogIn(SidOf[s], admin)
    /\ Event
    /\ login' = [login EXCEPT ![s] = [at |-> "verified", admin |-> admin]]
    /\ UNCHANGED <<account, changer, setup>>

\* create_session, which may fail.
LoginInsert(s) ==
    /\ login[s].at = "verified"
    /\ \/ login' = [login EXCEPT ![s].at = "live"] /\ UNCHANGED used
       \/ login' = [login EXCEPT ![s].at = "ended"] /\ Failed
    /\ UNCHANGED <<account, changer, setup>>

\* destroy_session; a DELETE that fails leaves the row and only the cookie is gone.
Logout(s) ==
    /\ login[s].at \in {"live", "expired"}
    /\ \/ Event /\ login' = [login EXCEPT ![s].at = "ended"]
       \/ Failed /\ UNCHANGED login
    /\ UNCHANGED <<account, changer, setup>>

\* expires_at has passed.
LoginExpires(s) ==
    /\ login[s].at = "live"
    /\ Event
    /\ login' = [login EXCEPT ![s].at = "expired"]
    /\ UNCHANGED <<account, changer, setup>>

\* current_user_id as its callers see it: who the cookie stands for.
CurrentUser(s) == IF login[s].at = "live" THEN SidOf[s] ELSE None

\* And what it does to an expired session that some request still carries.
CurrentUserExpired(s) ==
    /\ login[s].at = "expired"
    /\ Event
    /\ login' = [login EXCEPT ![s].at = "ended"]
    /\ UNCHANGED <<account, changer, setup>>

\* change_password: the current password is verified.
ChangeVerify(s, password) ==
    /\ changer = NoChange
    /\ CurrentUser(s) # None
    /\ password # account[SidOf[s]].password
    /\ Event
    /\ changer' = [user |-> SidOf[s], password |-> password]
    /\ UNCHANGED <<account, login, setup>>

\* admin_change_password wants an administrator's session.
AdminChangeVerify(s, password) == login[s].admin /\ ChangeVerify(s, password)

\* The UPDATE does not compare the hash again; sessions stay.
ChangeUpdate ==
    /\ changer # NoChange
    /\ changer' = NoChange
    /\ \/ /\ account' = [account EXCEPT ![changer.user].password = changer.password]
          /\ UNCHANGED used
       \/ Failed /\ UNCHANGED account
    /\ UNCHANGED <<login, setup>>

\* setup_admin: the token is right and there is no administrator.  A count that fails
\* is taken for zero.
SetupCount ==
    /\ setup.counted + setup.missed < 2
    /\ \/ Admins = {} /\ Event
       \/ Admins # {} /\ Failed
    /\ setup' = [setup EXCEPT !.counted = @ + 1]
    /\ UNCHANGED <<account, login, changer>>

\* The account becomes the administrator's, with the environment's password.
MakeAdmin(u) ==
    account' = [account EXCEPT ![u] = [password |-> FirstPassword, admin |-> TRUE]]

\* The account with the address in lower case is promoted and its password reset,
SetupPromote ==
    /\ setup.counted > 0
    /\ account[Bootstrap].password # None
    /\ setup' = [setup EXCEPT !.counted = @ - 1]
    /\ \/ MakeAdmin(Bootstrap) /\ UNCHANGED used
       \/ Failed /\ UNCHANGED account
    /\ UNCHANGED <<login, changer>>

\* or there is none,
SetupMiss ==
    /\ setup.counted > 0
    /\ \/ /\ account[Bootstrap].password = None
          /\ setup' = [setup EXCEPT !.counted = @ - 1, !.missed = @ + 1]
          /\ UNCHANGED used
       \/ /\ Failed
          /\ setup' = [setup EXCEPT !.counted = @ - 1]
    /\ UNCHANGED <<account, login, changer>>

\* and one is made, with the address as it is written, unless that one exists.
SetupInsert ==
    /\ setup.missed > 0
    /\ setup' = [setup EXCEPT !.missed = @ - 1]
    /\ IF account[AsWritten].password = None
         THEN \/ MakeAdmin(AsWritten) /\ UNCHANGED used
              \/ Failed /\ UNCHANGED account
         ELSE UNCHANGED <<account, used>>
    /\ UNCHANGED <<login, changer>>
-----------------------------------------------------------------------------
AccountsInit ==
    /\ account = [u \in Users |->
                     [password |-> IF u \in Registered THEN FirstPassword ELSE None,
                      admin |-> FALSE]]
    /\ login = [s \in Sids |-> [at |-> IF s \in LoggedIn THEN "live" ELSE "new",
                                admin |-> FALSE]]
    /\ changer = NoChange
    /\ setup = NoSetup
    /\ used = [events |-> 0, failures |-> 0, stops |-> 0]

\* What handlers that have begun do.
AccountsSystem ==
    \/ \E s \in Sids : LoginInsert(s)
    \/ ChangeUpdate
    \/ SetupPromote \/ SetupMiss \/ SetupInsert

\* What users, and time, do.
AccountsClients ==
    \/ \E u \in Users : Register(u)
    \/ \E s \in Sids :
          \/ Logout(s)
          \/ LoginExpires(s)
          \/ CurrentUserExpired(s)
          \/ \E admin \in BOOLEAN : LoginVerify(s, admin)
          \/ \E password \in Passwords :
                ChangeVerify(s, password) \/ AdminChangeVerify(s, password)
    \/ SetupCount

\* Handlers end with the process; rows stay.
AccountsCrash ==
    /\ login' = [s \in Sids |-> IF login[s].at = "verified"
                                  THEN [login[s] EXCEPT !.at = "ended"] ELSE login[s]]
    /\ changer' = NoChange
    /\ setup' = NoSetup
    /\ UNCHANGED account

\* An administrator's session belongs to an administrator, and however many bootstraps
\* race, they make administrators of no accounts but those of the environment's address:
\* one, or two when the address has capitals.  The account with the capitals exists only
\* as an administrator's.
AccountsTypeOK ==
    /\ account \in [Users -> [password : Passwords \cup {None}, admin : BOOLEAN]]
    /\ login \in [Sids -> [at : {"new", "verified", "live", "expired", "ended"},
                           admin : BOOLEAN]]
    /\ changer \in [user : Users \cup {None}, password : Passwords \cup {None}]
    /\ setup \in [counted : 0 .. 2, missed : 0 .. 2]
    /\ setup.counted + setup.missed <= 2
    /\ \A s \in Sids :
          /\ login[s].at \in {"verified", "live"} => account[SidOf[s]].password # None
          /\ login[s].admin => account[SidOf[s]].admin
    /\ Admins \subseteq {Bootstrap, AsWritten}
    /\ \A u \in Users \ Addressed : account[u].password # None => account[u].admin
=============================================================================
