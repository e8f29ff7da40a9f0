--------------------------- MODULE PlaybackProofs ---------------------------
(***************************************************************************)
(* Proofs about Playback and the accounts it extends.  The inductive       *)
(* invariant relates each session's request, row, directory and ffmpeg     *)
(* task (GoodPlay, Offered), what the cleanups and serve_hls hold on to,   *)
(* and who the session belongs to.                                         *)
(***************************************************************************)
EXTENDS Playback, TLAPS

-----------------------------------------------------------------------------
(* The inductive invariant. *)

\* A password change that is under way has an account with a session, and a password.
ChangerOK == changer = NoChange \/ changer \in [user : Addressed, password : Passwords]
SetupOK == /\ setup \in [counted : 0 .. 2, missed : 0 .. 2]
           /\ setup.counted + setup.missed <= 2
UsedOK == used \in [events : Nat, failures : Nat, stops : Nat]
AccountsOK == AccountsTypeOK /\ ChangerOK /\ UsedOK

PlayRecs == [at : InFlight \cup {"new", "done", "dropped"},
             user : Users \cup {None}, granted : BOOLEAN,
             row : {"absent", "starting", "ready", "completed", "error"},
             expired : BOOLEAN, dir : {"none", "empty", "playlist"},
             ffmpeg : {"none", "running", "failed"}, late : {"none", "completed", "error"},
             result : {"none", "ok", "error", "closed"}]

\* A session that nobody has asked for is blank; one that has a row, or whose request is
\* on its way, was granted; the row outlives the request that inserted it, and ffmpeg is
\* gone when that request has given up; a status comes late only after that.
GoodPlay(x) ==
    /\ x \in PlayRecs
    /\ x.at = "new" => x = NoPlay
    /\ x.at \in InFlight \/ x.row # "absent" => x.granted
    /\ x.expired => x.at \in {"done", "dropped"}
    /\ x.at = "mkdir" => x.row = "absent" /\ x.dir = "none"
    /\ x.at = "insert" => x.row = "absent"
    /\ x.at \in {"poll", "seen", "fail"} => x.row # "absent"
    /\ x.at \in {"mkdir", "insert"} => x.result = "none"
    /\ x.result # "none" => x.ffmpeg = "none"
    /\ x.ffmpeg # "none" => x.at \in {"poll", "seen", "done", "dropped"}
    /\ x.late # "none" => x.at \in {"fail", "remove", "done", "dropped"}
    /\ x.late # "none" /\ x.at = "fail" => x.dir # "none"
    /\ x.at = "seen" \/ (x.at = "done" /\ x.ffmpeg = "running") => x.dir # "empty"

\* While no statement has failed: what the row of a session says of its directory.
Offered(x, over) ==
    /\ x.at = "seen" => x.dir = "playlist" \/ x.row = "error"
    /\ x.ffmpeg = "failed" => x.row \in {"absent", "error"} \/ over
    /\ x.ffmpeg = "failed" /\ x.at \in {"poll", "seen"} => x.row = "error"
    /\ x.at = "remove" => x.row \in {"absent", "error"} \/ over
    /\ x.at = "poll" /\ x.result = "error" => x.row = "error"
    /\ x.row \in {"ready", "completed"} /\ x.dir # "playlist" =>
          \/ x.expired \/ over
          \/ x.row = "completed" /\ x.dir = "empty" /\ x.at \in {"poll", "fail", "dropped"}

PlaysOK == play \in [Plays -> PlayRecs] /\ \A p \in Plays : GoodPlay(play[p])
OffersOK == used.failures = 0 => \A p \in Plays : Offered(play[p], p \in overtaken)

\* A cleanup works on expired sessions, and the directory it has removed stays away.
CleanersOK ==
    /\ cleaner \in [Cleaners -> [todo : SUBSET Plays, removed : Plays \cup {None}]]
    /\ \A c \in Cleaners :
          /\ \A p \in cleaner[c].todo : play[p].expired
          /\ cleaner[c].removed # None =>
                play[cleaner[c].removed].expired /\ play[cleaner[c].removed].dir = "none"

\* A file is opened for the session's user; what serve_hls removes is expired.
ServingOK ==
    /\ serving \in [at : {"idle", "delete", "remove", "open"},
                    user : Users \cup {None}, play : Plays \cup {None}]
    /\ serving.at # "idle" => serving.user \in Users /\ serving.play \in Plays
    /\ serving.at = "open" => /\ play[serving.play].user = serving.user
                              /\ play[serving.play].granted
    /\ serving.at \in {"delete", "remove"} => play[serving.play].expired

\* A directory without a row.
DirsNamed ==
    \A p \in Plays :
       Unnamed(p) => \/ play[p].at \in {"insert", "remove"}
                     \/ serving.at = "remove" /\ serving.play = p
                     \/ p \in lost

RestOK ==
    /\ free \in BOOLEAN
    /\ entitled \subseteq Users /\ lost \subseteq Plays /\ overtaken \subseteq Plays
    /\ served \in [Plays -> SUBSET Users]

PlayInv == /\ AccountsOK /\ PlaysOK /\ OffersOK /\ CleanersOK /\ ServingOK /\ DirsNamed /\ RestOK
           /\ ServedToItsViewer

LEMMA EventUsed ==
  ASSUME UsedOK, Event PROVE UsedOK' /\ used'.failures = used.failures
BY DEF UsedOK, Event

LEMMA FailedUsed ==
  ASSUME UsedOK, Failed PROVE UsedOK' /\ used'.failures # 0
<1>1. used' = [used EXCEPT !.events = @ + 1, !.failures = @ + 1]
  BY DEF Failed, Fault
<1>2. used' = [events |-> used.events + 1, failures |-> used.failures + 1, stops |-> used.stops]
  BY <1>1 DEF UsedOK
<1> QED BY <1>2 DEF UsedOK

LEMMA StoppedUsed ==
  ASSUME UsedOK, Stopped PROVE UsedOK' /\ used'.failures = used.failures
<1>1. used' = [used EXCEPT !.events = @ + 1, !.stops = @ + 1]
  BY DEF Stopped, Fault
<1>2. used' = [events |-> used.events + 1, failures |-> used.failures, stops |-> used.stops + 1]
  BY <1>1 DEF UsedOK
<1> QED BY <1>2 DEF UsedOK

\* Failures are counted, never forgotten.
UsedGrows == used'.failures = 0 => used.failures = 0

-----------------------------------------------------------------------------
(* Accounts and login sessions. *)

\* What the handlers do to accounts, and to sessions.
LEMMA AccountChanges ==
  ASSUME AccountsOK, NEW u \in Users, NEW password \in Passwords, NEW admin \in BOOLEAN,
         account[u].admin => admin, admin => account[u].admin \/ u \in {Bootstrap, AsWritten},
         u \in Addressed \/ admin,
         account' = [account EXCEPT ![u] = [password |-> password, admin |-> admin]],
         UNCHANGED login, UsedOK', ChangerOK', SetupOK',
         changer' \in [user : Users \cup {None}, password : Passwords \cup {None}]
  PROVE  AccountsOK'
<1>1. /\ account' \in [Users -> [password : Passwords \cup {None}, admin : BOOLEAN]]
      /\ account'[u].password # None /\ (account[u].admin => account'[u].admin)
      /\ account'[u].admin => account[u].admin \/ u \in {Bootstrap, AsWritten}
      /\ u \in Addressed \/ account'[u].admin
      /\ \A z \in Users : z # u => account'[z] = account[z]
  BY AccountsAssumption DEF AccountsOK, AccountsTypeOK
<1>2. \A s \in Sids : /\ login[s].at \in {"verified", "live"} => account'[SidOf[s]].password # None
                      /\ login[s].admin => account'[SidOf[s]].admin
  BY <1>1, AccountsAssumption DEF AccountsOK, AccountsTypeOK
<1>3. Admins' \subseteq {Bootstrap, AsWritten}
  BY <1>1 DEF AccountsOK, AccountsTypeOK, Admins
<1>4. \A z \in Users \ Addressed : account'[z].password # None => account'[z].admin
  BY <1>1 DEF AccountsOK, AccountsTypeOK
<1> QED BY <1>1, <1>2, <1>3, <1>4 DEF AccountsOK, AccountsTypeOK, SetupOK

LEMMA LoginChanges ==
  ASSUME AccountsOK, NEW s \in Sids, NEW at \in {"verified", "live", "expired", "ended"},
         NEW admin \in BOOLEAN, login' = [login EXCEPT ![s] = [at |-> at, admin |-> admin]],
         at \in {"verified", "live"} => account[SidOf[s]].password # None,
         admin => account[SidOf[s]].admin,
         UNCHANGED <<account, changer, setup>>, UsedOK'
  PROVE  AccountsOK'
<1>1. /\ login' \in [Sids -> [at : {"new", "verified", "live", "expired", "ended"}, admin : BOOLEAN]]
      /\ login'[s].at = at /\ login'[s].admin = admin
      /\ \A z \in Sids : z # s => login'[z] = login[z]
  BY DEF AccountsOK, AccountsTypeOK
<1>2. \A z \in Sids : /\ login'[z].at \in {"verified", "live"} => account[SidOf[z]].password # None
                      /\ login'[z].admin => account[SidOf[z]].admin
  BY <1>1 DEF AccountsOK, AccountsTypeOK
<1> QED BY <1>1, <1>2 DEF AccountsOK, AccountsTypeOK, ChangerOK, Admins

LEMMA AccountsSame ==
  ASSUME AccountsOK, UNCHANGED <<account, login>>, UsedOK', ChangerOK', SetupOK',
         changer' \in [user : Users \cup {None}, password : Passwords \cup {None}]
  PROVE  AccountsOK'
BY DEF AccountsOK, AccountsTypeOK, Admins, SetupOK

LEMMA AccountsKept ==
  ASSUME AccountsOK, UNCHANGED accountVars, UsedOK'
  PROVE  AccountsOK'
BY DEF AccountsOK, AccountsTypeOK, Admins, ChangerOK, accountVars

LEMMA LoginSteps ==
  ASSUME AccountsOK, NEW s \in Sids,
         \/ LoginInsert(s) \/ Logout(s) \/ LoginExpires(s) \/ CurrentUserExpired(s)
         \/ \E admin \in BOOLEAN : LoginVerify(s, admin)
  PROVE  AccountsOK' /\ UsedGrows
<1>1. /\ login \in [Sids -> [at : {"new", "verified", "live", "expired", "ended"}, admin : BOOLEAN]]
      /\ UsedOK
  BY DEF AccountsOK, AccountsTypeOK
<1>2. UsedOK' /\ UsedGrows
  BY <1>1, EventUsed, FailedUsed
     DEF LoginInsert, Logout, LoginExpires, CurrentUserExpired, LoginVerify, UsedGrows, UsedOK
<1>3. UNCHANGED <<account, changer, setup>>
  BY DEF LoginInsert, Logout, LoginExpires, CurrentUserExpired, LoginVerify
<1>4. CASE UNCHANGED login
  BY <1>2, <1>3, <1>4, AccountsKept DEF accountVars
<1>5. ASSUME NEW admin \in BOOLEAN, LoginVerify(s, admin) PROVE AccountsOK'
  <2>1. /\ login' = [login EXCEPT ![s] = [at |-> "verified", admin |-> admin]]
        /\ account[SidOf[s]].password # None /\ (admin => account[SidOf[s]].admin)
    BY <1>5 DEF LoginVerify, MayLogIn
  <2> QED BY <1>2, <1>3, <2>1, LoginChanges
<1>6. ASSUME NEW at \in {"live", "expired", "ended"}, at = "live" => login[s].at = "verified",
             login' = [login EXCEPT ![s].at = at]
      PROVE  AccountsOK'
  <2>1. login' = [login EXCEPT ![s] = [at |-> at, admin |-> login[s].admin]]
    <3>1. [login[s] EXCEPT !.at = at] = [at |-> at, admin |-> login[s].admin]
      BY <1>1
    <3>2. login' = [login EXCEPT ![s] = [login[s] EXCEPT !.at = at]]
      BY <1>6
    <3> QED BY <3>1, <3>2
  <2>2. /\ login[s].admin \in BOOLEAN /\ (login[s].admin => account[SidOf[s]].admin)
        /\ at \in {"verified", "live"} => account[SidOf[s]].password # None
    BY <1>6 DEF AccountsOK, AccountsTypeOK
  <2> QED BY <1>2, <1>3, <2>1, <2>2, LoginChanges
<1>7. \/ UNCHANGED login
      \/ \E admin \in BOOLEAN : LoginVerify(s, admin)
      \/ \E at \in {"live", "expired", "ended"} :
            /\ at = "live" => login[s].at = "verified"
            /\ login' = [login EXCEPT ![s].at = at]
  BY DEF LoginInsert, Logout, LoginExpires, CurrentUserExpired
<1> QED BY <1>2, <1>4, <1>5, <1>6, <1>7

LEMMA AccountSteps ==
  ASSUME AccountsOK,
         \/ \E u \in Users : Register(u)
         \/ \E s \in Sids, password \in Passwords :
               ChangeVerify(s, password) \/ AdminChangeVerify(s, password)
         \/ ChangeUpdate \/ SetupCount \/ SetupPromote \/ SetupMiss \/ SetupInsert
  PROVE  AccountsOK' /\ UsedGrows
<1>1. UsedOK /\ ChangerOK /\ SetupOK
      /\ changer \in [user : Users \cup {None}, password : Passwords \cup {None}]
      /\ account \in [Users -> [password : Passwords \cup {None}, admin : BOOLEAN]]
      /\ {Bootstrap, AsWritten} \subseteq Users /\ Bootstrap \in Addressed
      /\ FirstPassword \in Passwords
  BY AccountsAssumption DEF AccountsOK, AccountsTypeOK, SetupOK, Addressed
<1>2. UsedOK' /\ UsedGrows
  BY <1>1, EventUsed, FailedUsed
     DEF Register, ChangeVerify, AdminChangeVerify, ChangeUpdate, SetupCount, SetupPromote,
         SetupMiss, SetupInsert, UsedGrows, UsedOK
<1>3. ASSUME NEW u \in Users, Register(u) PROVE AccountsOK'
  <2>1. account' = [account EXCEPT ![u] = [password |-> FirstPassword, admin |-> account[u].admin]]
    <3>1. [account[u] EXCEPT !.password = FirstPassword] =
             [password |-> FirstPassword, admin |-> account[u].admin]
      BY <1>1
    <3>2. account' = [account EXCEPT ![u] = [account[u] EXCEPT !.password = FirstPassword]]
      BY <1>3 DEF Register
    <3> QED BY <3>1, <3>2
  <2>2. account[u].admin \in BOOLEAN /\ FirstPassword \in Passwords /\ u \in Addressed
        /\ UNCHANGED <<login, changer, setup>>
    BY <1>1, <1>3, AccountsAssumption DEF Register
  <2> QED BY <1>1, <1>2, <2>1, <2>2, AccountChanges DEF ChangerOK, SetupOK
<1>4. ASSUME NEW s \in Sids, NEW password \in Passwords, ChangeVerify(s, password)
      PROVE  AccountsOK'
  <2>1. /\ changer' = [user |-> SidOf[s], password |-> password] /\ SidOf[s] \in Addressed
        /\ UNCHANGED <<account, login, setup>>
    BY <1>4, AccountsAssumption DEF ChangeVerify
  <2>2. ChangerOK' /\ changer' \in [user : Users \cup {None}, password : Passwords \cup {None}]
    BY <2>1 DEF ChangerOK, Addressed
  <2> QED BY <1>1, <1>2, <2>1, <2>2, AccountsSame DEF SetupOK
<1>5. ASSUME ChangeUpdate PROVE AccountsOK'
  <2>1. changer' = NoChange /\ changer \in [user : Addressed, password : Passwords]
        /\ UNCHANGED <<login, setup>>
    BY <1>1, <1>5 DEF ChangeUpdate, ChangerOK
  <2>2. ChangerOK' /\ changer' \in [user : Users \cup {None}, password : Passwords \cup {None}]
    BY <2>1 DEF ChangerOK, NoChange
  <2>3. CASE UNCHANGED account
    BY <1>1, <1>2, <2>1, <2>2, <2>3, AccountsSame DEF SetupOK
  <2>4. CASE account' = [account EXCEPT ![changer.user].password = changer.password]
    <3> DEFINE u == changer.user
               pw == changer.password
    <3>1. u \in Users /\ u \in Addressed /\ pw \in Passwords
      BY <2>1 DEF Addressed
    <3>2. account' = [account EXCEPT ![u] = [password |-> pw, admin |-> account[u].admin]]
      <4>1. [account[u] EXCEPT !.password = pw] = [password |-> pw, admin |-> account[u].admin]
        BY <1>1, <3>1
      <4>2. account' = [account EXCEPT ![u] = [account[u] EXCEPT !.password = pw]]
        BY <2>4
      <4> QED BY <4>1, <4>2
    <3> HIDE DEF u, pw
    <3>3. account[u].admin \in BOOLEAN
      BY <1>1, <3>1
    <3> QED BY <1>1, <1>2, <2>1, <2>2, <3>1, <3>2, <3>3, AccountChanges DEF SetupOK
  <2> QED BY <1>5, <2>3, <2>4 DEF ChangeUpdate
<1>6. ASSUME SetupCount \/ SetupMiss PROVE AccountsOK'
  <2>1. \/ /\ setup.counted + setup.missed < 2
           /\ setup' = [counted |-> setup.counted + 1, missed |-> setup.missed]
        \/ /\ setup.counted > 0
           /\ setup' = [counted |-> setup.counted - 1, missed |-> setup.missed + 1]
        \/ /\ setup.counted > 0
           /\ setup' = [counted |-> setup.counted - 1, missed |-> setup.missed]
    BY <1>1, <1>6 DEF SetupCount, SetupMiss, SetupOK
  <2>2. setup.counted \in 0 .. 2 /\ setup.missed \in 0 .. 2 /\ setup.counted + setup.missed <= 2
    BY <1>1 DEF SetupOK
  <2>3. SetupOK'
    BY <2>1, <2>2 DEF SetupOK
  <2>4. UNCHANGED <<account, login, changer>>
    BY <1>6 DEF SetupCount, SetupMiss
  <2> QED BY <1>1, <1>2, <2>3, <2>4, AccountsSame DEF ChangerOK
<1>7. ASSUME SetupPromote \/ SetupInsert PROVE AccountsOK'
  <2>1. SetupOK' /\ UNCHANGED <<login, changer>>
    BY <1>1, <1>7 DEF SetupPromote, SetupInsert, SetupOK
  <2>2. CASE UNCHANGED account
    BY <1>1, <1>2, <2>1, <2>2, AccountsSame DEF ChangerOK
  <2>3. ASSUME NEW u \in {Bootstrap, AsWritten}, MakeAdmin(u) PROVE AccountsOK'
    <3>1. account' = [account EXCEPT ![u] = [password |-> FirstPassword, admin |-> TRUE]]
      BY <2>3 DEF MakeAdmin
    <3> QED BY <1>1, <1>2, <2>1, <2>3, <3>1, AccountChanges DEF ChangerOK
  <2> QED BY <1>7, <2>2, <2>3 DEF SetupPromote, SetupInsert
<1> QED BY <1>2, <1>3, <1>4, <1>5, <1>6, <1>7 DEF AdminChangeVerify

LEMMA AccountsStep ==
  ASSUME AccountsOK, AccountsSystem \/ AccountsClients
  PROVE  AccountsOK' /\ UsedGrows
BY LoginSteps, AccountSteps DEF AccountsSystem, AccountsClients

LEMMA AccountsStop ==
  ASSUME AccountsOK, Stopped, AccountsCrash
  PROVE  AccountsOK' /\ UsedGrows
<1>1. UsedOK' /\ UsedGrows
  BY StoppedUsed DEF AccountsOK, UsedGrows
<1>2. \A s \in Sids : login'[s] = login[s] \/ login'[s] = [login[s] EXCEPT !.at = "ended"]
  BY DEF AccountsCrash
<1>3. /\ login' \in [Sids -> [at : {"new", "verified", "live", "expired", "ended"}, admin : BOOLEAN]]
      /\ \A s \in Sids : /\ login'[s].admin = login[s].admin
                         /\ login'[s].at \in {"verified", "live"} => login'[s].at = login[s].at
  BY <1>2 DEF AccountsCrash, AccountsOK, AccountsTypeOK
<1>4. ChangerOK' /\ changer' \in [user : Users \cup {None}, password : Passwords \cup {None}]
  BY DEF AccountsCrash, ChangerOK, NoChange
<1>5. setup' \in [counted : 0 .. 2, missed : 0 .. 2] /\ setup'.counted + setup'.missed <= 2
  BY DEF AccountsCrash, NoSetup
<1> QED BY <1>1, <1>3, <1>4, <1>5 DEF AccountsOK, AccountsTypeOK, Admins, AccountsCrash

\* Whoever a session stands for is a user.
LEMMA CurrentUserIsUser ==
  ASSUME NEW s \in Sids, CurrentUser(s) # None PROVE CurrentUser(s) \in Users
BY AccountsAssumption DEF CurrentUser, Addressed
-----------------------------------------------------------------------------
(* One session moves on. *)

\* y is x with new values for some of the fields that a request, its ffmpeg task and the
\* cleanups write.
Turn(x, y, at, row, dir, ffmpeg, result) ==
    /\ y \in PlayRecs
    /\ y.at = at /\ y.row = row /\ y.dir = dir /\ y.ffmpeg = ffmpeg /\ y.result = result
    /\ y.late = x.late
    /\ y.user = x.user /\ y.granted = x.granted /\ y.expired = x.expired

\* The viewer and the grant of a session stay; so does its expiry, and its directory
\* does not come back after it.
Moves(x, y) ==
    /\ x.at # "new" => y.user = x.user /\ y.granted = x.granted
    /\ x.expired => y.expired /\ (x.dir = "none" => y.dir = "none")

ExpiredLast ==
    \A q \in Plays : play[q].expired => /\ play'[q].expired
                                        /\ play[q].dir = "none" => play'[q].dir = "none"

LEMMA PlayCell ==
  ASSUME PlaysOK, NEW p \in Plays, NEW y, play' = [play EXCEPT ![p] = y], GoodPlay(y)
  PROVE  PlaysOK' /\ play'[p] = y /\ \A q \in Plays : q # p => play'[q] = play[q]
<1>1. y \in PlayRecs
  BY DEF GoodPlay
<1>2. /\ play' \in [Plays -> PlayRecs]
      /\ play'[p] = y /\ \A q \in Plays : q # p => play'[q] = play[q]
  BY <1>1 DEF PlaysOK
<1> QED BY <1>2 DEF PlaysOK

\* What a move of session p keeps of the rest.
LEMMA OnePlay ==
  ASSUME PlayInv, NEW p \in Plays, NEW y, play' = [play EXCEPT ![p] = y], GoodPlay(y),
         Moves(play[p], y), AccountsOK', UsedGrows,
         used'.failures = 0 /\ Offered(play[p], p \in overtaken) => Offered(y, p \in overtaken'),
         y.row = "absent" /\ y.dir # "none" =>
            \/ y.at \in {"insert", "remove"}
            \/ serving'.at = "remove" /\ serving'.play = p
            \/ p \in lost',
         \A q \in Plays : q # p /\ serving.at = "remove" /\ serving.play = q =>
                          serving'.at = "remove" /\ serving'.play = q,
         UNCHANGED <<served, free, entitled>>,
         lost \subseteq lost', lost' \subseteq Plays,
         overtaken \subseteq overtaken', overtaken' \subseteq Plays
  PROVE  /\ AccountsOK' /\ PlaysOK' /\ OffersOK' /\ DirsNamed' /\ RestOK' /\ ServedToItsViewer'
         /\ UNCHANGED serving => ServingOK'
         /\ ExpiredLast
<1>1. /\ PlaysOK' /\ play'[p] = y /\ \A q \in Plays : q # p => play'[q] = play[q]
  BY PlayCell DEF PlayInv
<1>2. GoodPlay(play[p]) /\ play[p].at = "new" => play[p].user = None /\ ~play[p].granted
  BY DEF GoodPlay, NoPlay
<1>3. GoodPlay(play[p])
  BY DEF PlayInv, PlaysOK
<1>4. OffersOK'
  <2> SUFFICES ASSUME used'.failures = 0, NEW q \in Plays
               PROVE  Offered(play'[q], q \in overtaken')
    BY DEF OffersOK
  <2>1. Offered(play[q], q \in overtaken)
    BY DEF PlayInv, OffersOK, UsedGrows
  <2>2. CASE q = p
    BY <1>1, <2>1, <2>2
  <2>3. CASE q # p
    BY <1>1, <2>1, <2>3 DEF Offered
  <2> QED BY <2>2, <2>3
<1>5. DirsNamed'
  <2> SUFFICES ASSUME NEW q \in Plays, play'[q].row = "absent" /\ play'[q].dir # "none"
               PROVE  \/ play'[q].at \in {"insert", "remove"}
                      \/ serving'.at = "remove" /\ serving'.play = q
                      \/ q \in lost'
    BY DEF DirsNamed, Unnamed
  <2>1. CASE q = p
    BY <1>1, <2>1
  <2>2. CASE q # p
    <3>1. \/ play[q].at \in {"insert", "remove"}
          \/ serving.at = "remove" /\ serving.play = q
          \/ q \in lost
      BY <1>1, <2>2 DEF PlayInv, DirsNamed, Unnamed
    <3> QED BY <1>1, <2>2, <3>1
  <2> QED BY <2>1, <2>2
<1>6. RestOK'
  BY DEF PlayInv, RestOK
<1>7. ServedToItsViewer'
  <2> SUFFICES ASSUME NEW q \in Plays, NEW u \in served[q]
               PROVE  u = play'[q].user /\ play'[q].granted
    BY DEF ServedToItsViewer
  <2>1. u = play[q].user /\ play[q].granted
    BY DEF PlayInv, ServedToItsViewer
  <2> QED BY <1>1, <1>2, <1>3, <2>1 DEF Moves
<1>8. UNCHANGED serving => ServingOK'
  <2> SUFFICES ASSUME UNCHANGED serving PROVE ServingOK'
    OBVIOUS
  <2>1. ServingOK
    BY DEF PlayInv
  <2>2. CASE serving.play = p
    BY <1>1, <1>2, <1>3, <2>1, <2>2 DEF ServingOK, Moves
  <2>3. CASE serving.play # p
    BY <1>1, <2>1, <2>3 DEF ServingOK
  <2> QED BY <2>2, <2>3
<1>9. ExpiredLast
  BY <1>1 DEF Moves, ExpiredLast
<1> QED BY <1>1, <1>4, <1>5, <1>6, <1>7, <1>8, <1>9

\* What a cleanup has still to do, or has just done.
LEMMA CleanersLast ==
  ASSUME CleanersOK, ExpiredLast,
         cleaner' \in [Cleaners -> [todo : SUBSET Plays, removed : Plays \cup {None}]],
         \A c \in Cleaners :
            /\ \A q \in cleaner'[c].todo : q \in cleaner[c].todo \/ play'[q].expired
            /\ \/ cleaner'[c].removed \in {cleaner[c].removed, None}
               \/ /\ play'[cleaner'[c].removed].expired
                  /\ play'[cleaner'[c].removed].dir = "none"
  PROVE  CleanersOK'
<1>1. \A c \in Cleaners : cleaner[c].todo \subseteq Plays /\ cleaner[c].removed \in Plays \cup {None}
  BY DEF CleanersOK
<1>2. \A c \in Cleaners : \A q \in cleaner'[c].todo : play'[q].expired
  BY <1>1 DEF CleanersOK, ExpiredLast
<1>3. \A c \in Cleaners : cleaner'[c].removed # None =>
         play'[cleaner'[c].removed].expired /\ play'[cleaner'[c].removed].dir = "none"
  BY <1>1 DEF CleanersOK, ExpiredLast
<1> QED BY <1>2, <1>3 DEF CleanersOK

LEMMA CleanersSame ==
  ASSUME CleanersOK, ExpiredLast, UNCHANGED cleaner PROVE CleanersOK'
BY CleanersLast DEF CleanersOK

LEMMA UsedSteps ==
  ASSUME AccountsOK, UNCHANGED accountVars, UNCHANGED used \/ Event \/ Failed
  PROVE  AccountsOK' /\ UsedGrows
<1>1. UsedOK
  BY DEF AccountsOK
<1>2. UsedOK' /\ UsedGrows
  BY <1>1, EventUsed, FailedUsed DEF UsedGrows, UsedOK
<1> QED BY <1>2, AccountsKept

\* A step of a session's request or of its ffmpeg task.
LEMMA SessionStep ==
  ASSUME PlayInv, NEW p \in Plays, NEW y, play' = [play EXCEPT ![p] = y], GoodPlay(y),
         Moves(play[p], y), UNCHANGED used \/ Event,
         Offered(play[p], p \in overtaken) => Offered(y, p \in overtaken'),
         y.row = "absent" /\ y.dir # "none" =>
            \/ y.at \in {"insert", "remove"}
            \/ serving.at = "remove" /\ serving.play = p
            \/ p \in lost',
         lost' \in {lost, lost \cup {p}}, overtaken' \in {overtaken, overtaken \cup {p}},
         UNCHANGED <<accountVars, cleaner, serving, free, entitled, served>>
  PROVE  PlayInv'
<1>1. AccountsOK' /\ UsedGrows
  BY UsedSteps DEF PlayInv
<1>3. /\ lost \subseteq lost' /\ lost' \subseteq Plays
      /\ overtaken \subseteq overtaken' /\ overtaken' \subseteq Plays
  BY DEF PlayInv, RestOK
<1>4. /\ AccountsOK' /\ PlaysOK' /\ OffersOK' /\ DirsNamed' /\ RestOK' /\ ServedToItsViewer'
      /\ ServingOK' /\ ExpiredLast
  BY <1>1, <1>3, OnePlay
<1>5. CleanersOK'
  BY <1>4, CleanersSame DEF PlayInv
<1> QED BY <1>4, <1>5 DEF PlayInv

\* When a statement has failed, nothing is promised of what is offered.
LEMMA SessionFails ==
  ASSUME PlayInv, NEW p \in Plays, NEW y, play' = [play EXCEPT ![p] = y], GoodPlay(y),
         Moves(play[p], y), Failed,
         y.row = "absent" /\ y.dir # "none" =>
            \/ y.at \in {"insert", "remove"}
            \/ serving.at = "remove" /\ serving.play = p
            \/ p \in lost',
         lost' \in {lost, lost \cup {p}},
         UNCHANGED <<accountVars, cleaner, serving, free, entitled, served, overtaken>>
  PROVE  PlayInv'
<1>1. UsedOK' /\ used'.failures # 0
  BY FailedUsed DEF PlayInv, AccountsOK
<1>2. AccountsOK' /\ UsedGrows
  BY <1>1, AccountsKept DEF PlayInv, UsedGrows
<1>3. /\ lost \subseteq lost' /\ lost' \subseteq Plays
      /\ overtaken \subseteq overtaken' /\ overtaken' \subseteq Plays
  BY DEF PlayInv, RestOK
<1>4. /\ AccountsOK' /\ PlaysOK' /\ OffersOK' /\ DirsNamed' /\ RestOK' /\ ServedToItsViewer'
      /\ ServingOK' /\ ExpiredLast
  BY <1>1, <1>2, <1>3, OnePlay
<1>5. CleanersOK'
  BY <1>4, CleanersSame DEF PlayInv
<1> QED BY <1>4, <1>5 DEF PlayInv

-----------------------------------------------------------------------------
(* request_play, after its first step. *)

LEMMA PlayMkdirStep ==
  ASSUME PlayInv, NEW p \in Plays, PlayMkdir(p) PROVE PlayInv'
<1> DEFINE x == play[p]
<1>1. /\ play \in [Plays -> PlayRecs]
      /\ x \in PlayRecs /\ GoodPlay(x) /\ x.at = "mkdir"
      /\ UNCHANGED <<accountVars, cleaner, serving, free, entitled, served>>
      /\ UNCHANGED lost /\ UNCHANGED overtaken
      /\ x.row = "absent" /\ x.dir # "none" =>
            \/ x.at \in {"insert", "remove"}
            \/ serving.at = "remove" /\ serving.play = p
            \/ p \in lost
  BY DEF PlayInv, PlaysOK, DirsNamed, Unnamed, PlayMkdir
<1>2. ASSUME UNCHANGED used,
             play' = [play EXCEPT ![p].at = "insert", ![p].dir = "empty"]
      PROVE  PlayInv'
  <2> DEFINE y == [x EXCEPT !.at = "insert", !.dir = "empty"]
  <2>1. play' = [play EXCEPT ![p] = y]
    BY <1>1, <1>2
  <2>3. Turn(x, y, "insert", x.row, "empty", x.ffmpeg, x.result)
    BY <1>1, <1>2 DEF Turn, PlayRecs, InFlight
  <2> HIDE DEF x, y
  <2>4. GoodPlay(y) /\ Moves(x, y)
    BY <1>1, <1>2, <2>3 DEF GoodPlay, Moves, Turn, InFlight
  <2>5. Offered(x, p \in overtaken) => Offered(y, p \in overtaken')
    BY <1>1, <1>2, <2>3 DEF Offered, GoodPlay, Turn, InFlight
  <2>6. y.row = "absent" /\ y.dir # "none" =>
           \/ y.at \in {"insert", "remove"}
           \/ serving.at = "remove" /\ serving.play = p
           \/ p \in lost'
    BY <1>1, <1>2, <2>3 DEF GoodPlay, Turn, InFlight
  <2> QED BY <1>1, <1>2, <2>1, <2>4, <2>5, <2>6, SessionStep DEF x
<1>3. ASSUME Failed,
             play' = [play EXCEPT ![p].at = "done"]
      PROVE  PlayInv'
  <2> DEFINE y == [x EXCEPT !.at = "done"]
  <2>1. play' = [play EXCEPT ![p] = y]
    BY <1>1, <1>3
  <2>3. Turn(x, y, "done", x.row, x.dir, x.ffmpeg, x.result)
    BY <1>1, <1>3 DEF Turn, PlayRecs, InFlight
  <2> HIDE DEF x, y
  <2>4. GoodPlay(y) /\ Moves(x, y)
    BY <1>1, <1>3, <2>3 DEF GoodPlay, Moves, Turn, InFlight
  <2>6. y.row = "absent" /\ y.dir # "none" =>
           \/ y.at \in {"insert", "remove"}
           \/ serving.at = "remove" /\ serving.play = p
           \/ p \in lost'
    BY <1>1, <1>3, <2>3 DEF GoodPlay, Turn, InFlight
  <2> QED BY <1>1, <1>3, <2>1, <2>4, <2>6, SessionFails DEF x
<1>4. ASSUME Failed,
             play' = [play EXCEPT ![p].at = "remove", ![p].dir = "empty"]
      PROVE  PlayInv'
  <2> DEFINE y == [x EXCEPT !.at = "remove", !.dir = "empty"]
  <2>1. play' = [play EXCEPT ![p] = y]
    BY <1>1, <1>4
  <2>3. Turn(x, y, "remove", x.row, "empty", x.ffmpeg, x.result)
    BY <1>1, <1>4 DEF Turn, PlayRecs, InFlight
  <2> HIDE DEF x, y
  <2>4. GoodPlay(y) /\ Moves(x, y)
    BY <1>1, <1>4, <2>3 DEF GoodPlay, Moves, Turn, InFlight
  <2>6. y.row = "absent" /\ y.dir # "none" =>
           \/ y.at \in {"insert", "remove"}
           \/ serving.at = "remove" /\ serving.play = p
           \/ p \in lost'
    BY <1>1, <1>4, <2>3 DEF GoodPlay, Turn, InFlight
  <2> QED BY <1>1, <1>4, <2>1, <2>4, <2>6, SessionFails DEF x
<1> QED BY <1>2, <1>3, <1>4 DEF PlayMkdir

LEMMA PlayInsertStep ==
  ASSUME PlayInv, NEW p \in Plays, PlayInsert(p) PROVE PlayInv'
<1> DEFINE x == play[p]
<1>1. /\ play \in [Plays -> PlayRecs]
      /\ x \in PlayRecs /\ GoodPlay(x) /\ x.at = "insert"
      /\ UNCHANGED <<accountVars, cleaner, serving, free, entitled, served>>
      /\ UNCHANGED lost /\ UNCHANGED overtaken
      /\ x.row = "absent" /\ x.dir # "none" =>
            \/ x.at \in {"insert", "remove"}
            \/ serving.at = "remove" /\ serving.play = p
            \/ p \in lost
  BY DEF PlayInv, PlaysOK, DirsNamed, Unnamed, PlayInsert
<1>2. ASSUME UNCHANGED used,
             play' = [play EXCEPT ![p].at = "poll", ![p].row = "starting", ![p].ffmpeg = "running"]
      PROVE  PlayInv'
  <2> DEFINE y == [x EXCEPT !.at = "poll", !.row = "starting", !.ffmpeg = "running"]
  <2>1. play' = [play EXCEPT ![p] = y]
    BY <1>1, <1>2
  <2>3. Turn(x, y, "poll", "starting", x.dir, "running", x.result)
    BY <1>1, <1>2 DEF Turn, PlayRecs, InFlight
  <2> HIDE DEF x, y
  <2>4. GoodPlay(y) /\ Moves(x, y)
    BY <1>1, <1>2, <2>3 DEF GoodPlay, Moves, Turn, InFlight
  <2>5. Offered(x, p \in overtaken) => Offered(y, p \in overtaken')
    BY <1>1, <1>2, <2>3 DEF Offered, GoodPlay, Turn, InFlight
  <2>6. y.row = "absent" /\ y.dir # "none" =>
           \/ y.at \in {"insert", "remove"}
           \/ serving.at = "remove" /\ serving.play = p
           \/ p \in lost'
    BY <1>1, <1>2, <2>3 DEF GoodPlay, Turn, InFlight
  <2> QED BY <1>1, <1>2, <2>1, <2>4, <2>5, <2>6, SessionStep DEF x
<1>3. ASSUME UNCHANGED used,
             play' = [play EXCEPT ![p].at = "fail", ![p].row = "starting"]
      PROVE  PlayInv'
  <2> DEFINE y == [x EXCEPT !.at = "fail", !.row = "starting"]
  <2>1. play' = [play EXCEPT ![p] = y]
    BY <1>1, <1>3
  <2>3. Turn(x, y, "fail", "starting", x.dir, x.ffmpeg, x.result)
    BY <1>1, <1>3 DEF Turn, PlayRecs, InFlight
  <2> HIDE DEF x, y
  <2>4. GoodPlay(y) /\ Moves(x, y)
    BY <1>1, <1>3, <2>3 DEF GoodPlay, Moves, Turn, InFlight
  <2>5. Offered(x, p \in overtaken) => Offered(y, p \in overtaken')
    BY <1>1, <1>3, <2>3 DEF Offered, GoodPlay, Turn, InFlight
  <2>6. y.row = "absent" /\ y.dir # "none" =>
           \/ y.at \in {"insert", "remove"}
           \/ serving.at = "remove" /\ serving.play = p
           \/ p \in lost'
    BY <1>1, <1>3, <2>3 DEF GoodPlay, Turn, InFlight
  <2> QED BY <1>1, <1>3, <2>1, <2>4, <2>5, <2>6, SessionStep DEF x
<1>4. ASSUME Failed,
             play' = [play EXCEPT ![p].at = "remove"]
      PROVE  PlayInv'
  <2> DEFINE y == [x EXCEPT !.at = "remove"]
  <2>1. play' = [play EXCEPT ![p] = y]
    BY <1>1, <1>4
  <2>3. Turn(x, y, "remove", x.row, x.dir, x.ffmpeg, x.result)
    BY <1>1, <1>4 DEF Turn, PlayRecs, InFlight
  <2> HIDE DEF x, y
  <2>4. GoodPlay(y) /\ Moves(x, y)
    BY <1>1, <1>4, <2>3 DEF GoodPlay, Moves, Turn, InFlight
  <2>6. y.row = "absent" /\ y.dir # "none" =>
           \/ y.at \in {"insert", "remove"}
           \/ serving.at = "remove" /\ serving.play = p
           \/ p \in lost'
    BY <1>1, <1>4, <2>3 DEF GoodPlay, Turn, InFlight
  <2> QED BY <1>1, <1>4, <2>1, <2>4, <2>6, SessionFails DEF x
<1> QED BY <1>2, <1>3, <1>4 DEF PlayInsert

LEMMA PollSeesStep ==
  ASSUME PlayInv, NEW p \in Plays, PollSees(p) PROVE PlayInv'
<1> DEFINE x == play[p]
<1>1. /\ play \in [Plays -> PlayRecs]
      /\ x \in PlayRecs /\ GoodPlay(x) /\ x.at = "poll" /\ x.dir = "playlist"
      /\ UNCHANGED <<accountVars, cleaner, serving, free, entitled, served>>
      /\ UNCHANGED lost /\ UNCHANGED overtaken
      /\ x.row = "absent" /\ x.dir # "none" =>
            \/ x.at \in {"insert", "remove"}
            \/ serving.at = "remove" /\ serving.play = p
            \/ p \in lost
  BY DEF PlayInv, PlaysOK, DirsNamed, Unnamed, PollSees
<1>2. ASSUME UNCHANGED used,
             play' = [play EXCEPT ![p].at = "seen"]
      PROVE  PlayInv'
  <2> DEFINE y == [x EXCEPT !.at = "seen"]
  <2>1. play' = [play EXCEPT ![p] = y]
    BY <1>1, <1>2
  <2>3. Turn(x, y, "seen", x.row, x.dir, x.ffmpeg, x.result)
    BY <1>1, <1>2 DEF Turn, PlayRecs, InFlight
  <2> HIDE DEF x, y
  <2>4. GoodPlay(y) /\ Moves(x, y)
    BY <1>1, <1>2, <2>3 DEF GoodPlay, Moves, Turn, InFlight
  <2>5. Offered(x, p \in overtaken) => Offered(y, p \in overtaken')
    BY <1>1, <1>2, <2>3 DEF Offered, GoodPlay, Turn, InFlight
  <2>6. y.row = "absent" /\ y.dir # "none" =>
           \/ y.at \in {"insert", "remove"}
           \/ serving.at = "remove" /\ serving.play = p
           \/ p \in lost'
    BY <1>1, <1>2, <2>3 DEF GoodPlay, Turn, InFlight
  <2> QED BY <1>1, <1>2, <2>1, <2>4, <2>5, <2>6, SessionStep DEF x
<1> QED BY <1>2 DEF PollSees

\* What abort() leaves of a session that was being polled.
LEMMA AbortedFits ==
  ASSUME NEW x \in PlayRecs, GoodPlay(x), x.at \in {"poll", "seen"}, NEW y \in Aborted(x)
  PROVE  /\ y \in PlayRecs /\ y.at = "fail" /\ y.ffmpeg = "none" /\ y.result = "none"
         /\ y.row = x.row /\ y.user = x.user /\ y.granted = x.granted /\ y.expired = x.expired
         /\ y.late # "none" => y.dir # "none"
         /\ y.dir = x.dir \/ (y.dir = "none" /\ x.ffmpeg = "failed")
<1> DEFINE gone == [x EXCEPT !.at = "fail", !.ffmpeg = "none", !.result = "none"]
<1>1. /\ gone \in PlayRecs /\ gone.at = "fail" /\ gone.ffmpeg = "none" /\ gone.result = "none"
      /\ gone.row = x.row /\ gone.user = x.user /\ gone.granted = x.granted
      /\ gone.expired = x.expired /\ gone.dir = x.dir /\ gone.late = x.late
  BY DEF PlayRecs, InFlight
<1>2. x.late = "none"
  BY DEF GoodPlay
<1>3. \/ /\ x.ffmpeg = "running" /\ x.dir # "none"
         /\ \E status \in {"none", "completed", "error"} : y = [gone EXCEPT !.late = status]
      \/ y = gone
      \/ x.ffmpeg = "failed" /\ y = [gone EXCEPT !.dir = "none"]
  BY DEF Aborted
<1> HIDE DEF gone
<1>4. CASE y = gone
  BY <1>1, <1>2, <1>4
<1>5. CASE x.ffmpeg = "failed" /\ y = [gone EXCEPT !.dir = "none"]
  BY <1>1, <1>2, <1>5 DEF PlayRecs
<1>6. ASSUME x.dir # "none", NEW status \in {"none", "completed", "error"},
             y = [gone EXCEPT !.late = status]
      PROVE  /\ y \in PlayRecs /\ y.at = "fail" /\ y.ffmpeg = "none" /\ y.result = "none"
             /\ y.row = x.row /\ y.user = x.user /\ y.granted = x.granted
             /\ y.expired = x.expired /\ y.dir = x.dir
  BY <1>1, <1>6 DEF PlayRecs
<1> QED BY <1>3, <1>4, <1>5, <1>6

\* The session of a request that has just given up.
LEMMA AbortStep ==
  ASSUME PlayInv, NEW p \in Plays, play[p].at = "poll" \/ (play[p].at = "seen" /\ Failed),
         NEW y \in Aborted(play[p]), play' = [play EXCEPT ![p] = y], UNCHANGED used \/ Failed,
         UNCHANGED <<accountVars, cleaner, serving, free, entitled, served, lost, overtaken>>
  PROVE  PlayInv'
<1> DEFINE x == play[p]
<1>1. GoodPlay(x) /\ x \in PlayRecs /\ x.at \in {"poll", "seen"}
  BY DEF PlayInv, PlaysOK
<1>2. /\ y \in PlayRecs /\ y.at = "fail" /\ y.ffmpeg = "none" /\ y.result = "none"
      /\ y.row = x.row /\ y.user = x.user /\ y.granted = x.granted /\ y.expired = x.expired
      /\ y.late # "none" => y.dir # "none"
      /\ y.dir = x.dir \/ (y.dir = "none" /\ x.ffmpeg = "failed")
  BY <1>1, AbortedFits
<1> HIDE DEF x
<1>3. GoodPlay(y) /\ Moves(x, y)
  BY <1>1, <1>2 DEF GoodPlay, Moves, InFlight
<1>4. x.at = "poll" => (Offered(x, p \in overtaken) => Offered(y, p \in overtaken'))
  BY <1>1, <1>2 DEF Offered, GoodPlay
<1>5. y.row # "absent"
  BY <1>1, <1>2 DEF GoodPlay
<1>6. CASE Failed
  BY <1>3, <1>5, <1>6, SessionFails DEF x
<1>7. CASE UNCHANGED used /\ x.at = "poll"
  BY <1>3, <1>4, <1>5, <1>7, SessionStep DEF x
<1> QED BY <1>6, <1>7 DEF x

LEMMA PollUpdateStep ==
  ASSUME PlayInv, NEW p \in Plays, PollUpdate(p) PROVE PlayInv'
<1> DEFINE x == play[p]
<1>1. /\ play \in [Plays -> PlayRecs]
      /\ x \in PlayRecs /\ GoodPlay(x) /\ x.at = "seen"
      /\ UNCHANGED <<accountVars, cleaner, serving, free, entitled, served>>
      /\ UNCHANGED lost /\ overtaken' \in {overtaken, overtaken \cup {p}}
      /\ x.row = "absent" /\ x.dir # "none" =>
            \/ x.at \in {"insert", "remove"}
            \/ serving.at = "remove" /\ serving.play = p
            \/ p \in lost
  BY DEF PlayInv, PlaysOK, DirsNamed, Unnamed, PollUpdate
<1>2. ASSUME UNCHANGED used,
             overtaken' = IF x.row = "error" THEN overtaken \cup {p} ELSE overtaken,
             play' = [play EXCEPT ![p].at = "done", ![p].row = SetRow(p, "ready")]
      PROVE  PlayInv'
  <2> DEFINE y == [x EXCEPT !.at = "done", !.row = SetRow(p, "ready")]
  <2>1. play' = [play EXCEPT ![p] = y]
    BY <1>1, <1>2
  <2>2. SetRow(p, "ready") = IF x.row = "absent" THEN "absent" ELSE "ready"
    BY DEF SetRow
  <2>3. Turn(x, y, "done", SetRow(p, "ready"), x.dir, x.ffmpeg, x.result)
    BY <1>1, <2>2, <1>2 DEF Turn, PlayRecs, InFlight
  <2> HIDE DEF x, y
  <2>4. GoodPlay(y) /\ Moves(x, y)
    BY <1>1, <1>2, <2>2, <2>3 DEF GoodPlay, Moves, Turn, InFlight
  <2>5. Offered(x, p \in overtaken) => Offered(y, p \in overtaken')
    BY <1>1, <1>2, <2>2, <2>3 DEF Offered, GoodPlay, Turn, InFlight
  <2>6. y.row = "absent" /\ y.dir # "none" =>
           \/ y.at \in {"insert", "remove"}
           \/ serving.at = "remove" /\ serving.play = p
           \/ p \in lost'
    BY <1>1, <1>2, <2>2, <2>3 DEF GoodPlay, Turn, InFlight
  <2> QED BY <1>1, <1>2, <2>1, <2>4, <2>5, <2>6, SessionStep DEF x
<1>3. ASSUME Failed, UNCHANGED overtaken, NEW y \in Aborted(x), play' = [play EXCEPT ![p] = y]
      PROVE  PlayInv'
  BY <1>1, <1>3, AbortStep
<1> QED BY <1>2, <1>3 DEF PollUpdate

LEMMA PollResultStep ==
  ASSUME PlayInv, NEW p \in Plays, PollResult(p) PROVE PlayInv'
<1> DEFINE x == play[p]
<1>1. /\ play \in [Plays -> PlayRecs]
      /\ x \in PlayRecs /\ GoodPlay(x) /\ x.at = "poll"
      /\ UNCHANGED <<accountVars, cleaner, serving, free, entitled, served>>
      /\ UNCHANGED lost /\ UNCHANGED overtaken
      /\ x.row = "absent" /\ x.dir # "none" =>
            \/ x.at \in {"insert", "remove"}
            \/ serving.at = "remove" /\ serving.play = p
            \/ p \in lost
  BY DEF PlayInv, PlaysOK, DirsNamed, Unnamed, PollResult
<1>2. ASSUME UNCHANGED used,
             x.result = "error",
             play' = [play EXCEPT ![p].at = "done", ![p].result = "none"]
      PROVE  PlayInv'
  <2> DEFINE y == [x EXCEPT !.at = "done", !.result = "none"]
  <2>1. play' = [play EXCEPT ![p] = y]
    BY <1>1, <1>2
  <2>3. Turn(x, y, "done", x.row, x.dir, x.ffmpeg, "none")
    BY <1>1, <1>2 DEF Turn, PlayRecs, InFlight
  <2> HIDE DEF x, y
  <2>4. GoodPlay(y) /\ Moves(x, y)
    BY <1>1, <1>2, <2>3 DEF GoodPlay, Moves, Turn, InFlight
  <2>5. Offered(x, p \in overtaken) => Offered(y, p \in overtaken')
    BY <1>1, <1>2, <2>3 DEF Offered, GoodPlay, Turn, InFlight
  <2>6. y.row = "absent" /\ y.dir # "none" =>
           \/ y.at \in {"insert", "remove"}
           \/ serving.at = "remove" /\ serving.play = p
           \/ p \in lost'
    BY <1>1, <1>2, <2>3 DEF GoodPlay, Turn, InFlight
  <2> QED BY <1>1, <1>2, <2>1, <2>4, <2>5, <2>6, SessionStep DEF x
<1>3. ASSUME UNCHANGED used,
             (x.result = "ok" /\ x.dir # "playlist") \/ x.result = "closed",
             play' = [play EXCEPT ![p].at = "fail", ![p].result = "none"]
      PROVE  PlayInv'
  <2> DEFINE y == [x EXCEPT !.at = "fail", !.result = "none"]
  <2>1. play' = [play EXCEPT ![p] = y]
    BY <1>1, <1>3
  <2>3. Turn(x, y, "fail", x.row, x.dir, x.ffmpeg, "none")
    BY <1>1, <1>3 DEF Turn, PlayRecs, InFlight
  <2> HIDE DEF x, y
  <2>4. GoodPlay(y) /\ Moves(x, y)
    BY <1>1, <1>3, <2>3 DEF GoodPlay, Moves, Turn, InFlight
  <2>5. Offered(x, p \in overtaken) => Offered(y, p \in overtaken')
    BY <1>1, <1>3, <2>3 DEF Offered, GoodPlay, Turn, InFlight
  <2>6. y.row = "absent" /\ y.dir # "none" =>
           \/ y.at \in {"insert", "remove"}
           \/ serving.at = "remove" /\ serving.play = p
           \/ p \in lost'
    BY <1>1, <1>3, <2>3 DEF GoodPlay, Turn, InFlight
  <2> QED BY <1>1, <1>3, <2>1, <2>4, <2>5, <2>6, SessionStep DEF x
<1> QED BY <1>2, <1>3 DEF PollResult

LEMMA PollTimeoutStep ==
  ASSUME PlayInv, NEW p \in Plays, PollTimeout(p) PROVE PlayInv'
<1>1. PICK y \in Aborted(play[p]) : play' = [play EXCEPT ![p] = y]
  BY DEF PollTimeout
<1> QED BY <1>1, AbortStep DEF PollTimeout

LEMMA PlayFailStep ==
  ASSUME PlayInv, NEW p \in Plays, PlayFail(p) PROVE PlayInv'
<1> DEFINE x == play[p]
<1>1. /\ play \in [Plays -> PlayRecs]
      /\ x \in PlayRecs /\ GoodPlay(x) /\ x.at = "fail"
      /\ UNCHANGED <<accountVars, cleaner, serving, free, entitled, served>>
      /\ UNCHANGED lost /\ UNCHANGED overtaken
      /\ x.row = "absent" /\ x.dir # "none" =>
            \/ x.at \in {"insert", "remove"}
            \/ serving.at = "remove" /\ serving.play = p
            \/ p \in lost
  BY DEF PlayInv, PlaysOK, DirsNamed, Unnamed, PlayFail
<1>2. ASSUME UNCHANGED used,
             play' = [play EXCEPT ![p].at = "remove", ![p].row = SetRow(p, "error")]
      PROVE  PlayInv'
  <2> DEFINE y == [x EXCEPT !.at = "remove", !.row = SetRow(p, "error")]
  <2>1. play' = [play EXCEPT ![p] = y]
    BY <1>1, <1>2
  <2>2. SetRow(p, "error") = IF x.row = "absent" THEN "absent" ELSE "error"
    BY DEF SetRow
  <2>3. Turn(x, y, "remove", SetRow(p, "error"), x.dir, x.ffmpeg, x.result)
    BY <1>1, <2>2, <1>2 DEF Turn, PlayRecs, InFlight
  <2> HIDE DEF x, y
  <2>4. GoodPlay(y) /\ Moves(x, y)
    BY <1>1, <1>2, <2>2, <2>3 DEF GoodPlay, Moves, Turn, InFlight
  <2>5. Offered(x, p \in overtaken) => Offered(y, p \in overtaken')
    BY <1>1, <1>2, <2>2, <2>3 DEF Offered, GoodPlay, Turn, InFlight
  <2>6. y.row = "absent" /\ y.dir # "none" =>
           \/ y.at \in {"insert", "remove"}
           \/ serving.at = "remove" /\ serving.play = p
           \/ p \in lost'
    BY <1>1, <1>2, <2>2, <2>3 DEF GoodPlay, Turn, InFlight
  <2> QED BY <1>1, <1>2, <2>1, <2>4, <2>5, <2>6, SessionStep DEF x
<1>3. ASSUME Failed,
             play' = [play EXCEPT ![p].at = "remove"]
      PROVE  PlayInv'
  <2> DEFINE y == [x EXCEPT !.at = "remove"]
  <2>1. play' = [play EXCEPT ![p] = y]
    BY <1>1, <1>3
  <2>3. Turn(x, y, "remove", x.row, x.dir, x.ffmpeg, x.result)
    BY <1>1, <1>3 DEF Turn, PlayRecs, InFlight
  <2> HIDE DEF x, y
  <2>4. GoodPlay(y) /\ Moves(x, y)
    BY <1>1, <1>3, <2>3 DEF GoodPlay, Moves, Turn, InFlight
  <2>6. y.row = "absent" /\ y.dir # "none" =>
           \/ y.at \in {"insert", "remove"}
           \/ serving.at = "remove" /\ serving.play = p
           \/ p \in lost'
    BY <1>1, <1>3, <2>3 DEF GoodPlay, Turn, InFlight
  <2> QED BY <1>1, <1>3, <2>1, <2>4, <2>6, SessionFails DEF x
<1> QED BY <1>2, <1>3 DEF PlayFail

LEMMA PlayRemoveStep ==
  ASSUME PlayInv, NEW p \in Plays, PlayRemove(p) PROVE PlayInv'
<1> DEFINE x == play[p]
<1>1. /\ play \in [Plays -> PlayRecs]
      /\ x \in PlayRecs /\ GoodPlay(x) /\ x.at = "remove"
      /\ UNCHANGED <<accountVars, cleaner, serving, free, entitled, served>>
      /\ lost' \in {lost, lost \cup {p}} /\ UNCHANGED overtaken
      /\ x.row = "absent" /\ x.dir # "none" =>
            \/ x.at \in {"insert", "remove"}
            \/ serving.at = "remove" /\ serving.play = p
            \/ p \in lost
  BY DEF PlayInv, PlaysOK, DirsNamed, Unnamed, PlayRemove
<1>2. ASSUME UNCHANGED used,
             play' = [play EXCEPT ![p].at = "done", ![p].dir = "none"]
      PROVE  PlayInv'
  <2> DEFINE y == [x EXCEPT !.at = "done", !.dir = "none"]
  <2>1. play' = [play EXCEPT ![p] = y]
    BY <1>1, <1>2
  <2>3. Turn(x, y, "done", x.row, "none", x.ffmpeg, x.result)
    BY <1>1, <1>2 DEF Turn, PlayRecs, InFlight
  <2> HIDE DEF x, y
  <2>4. GoodPlay(y) /\ Moves(x, y)
    BY <1>1, <1>2, <2>3 DEF GoodPlay, Moves, Turn, InFlight
  <2>5. Offered(x, p \in overtaken) => Offered(y, p \in overtaken')
    BY <1>1, <1>2, <2>3 DEF Offered, GoodPlay, Turn, InFlight
  <2>6. y.row = "absent" /\ y.dir # "none" =>
           \/ y.at \in {"insert", "remove"}
           \/ serving.at = "remove" /\ serving.play = p
           \/ p \in lost'
    BY <1>1, <1>2, <2>3 DEF GoodPlay, Turn, InFlight
  <2> QED BY <1>1, <1>2, <2>1, <2>4, <2>5, <2>6, SessionStep DEF x
<1>3. ASSUME Failed,
             x.row = "absent" /\ x.dir # "none" => p \in lost',
             play' = [play EXCEPT ![p].at = "done"]
      PROVE  PlayInv'
  <2> DEFINE y == [x EXCEPT !.at = "done"]
  <2>1. play' = [play EXCEPT ![p] = y]
    BY <1>1, <1>3
  <2>3. Turn(x, y, "done", x.row, x.dir, x.ffmpeg, x.result)
    BY <1>1, <1>3 DEF Turn, PlayRecs, InFlight
  <2> HIDE DEF x, y
  <2>4. GoodPlay(y) /\ Moves(x, y)
    BY <1>1, <1>3, <2>3 DEF GoodPlay, Moves, Turn, InFlight
  <2>6. y.row = "absent" /\ y.dir # "none" =>
           \/ y.at \in {"insert", "remove"}
           \/ serving.at = "remove" /\ serving.play = p
           \/ p \in lost'
    BY <1>1, <1>3, <2>3 DEF GoodPlay, Turn, InFlight
  <2> QED BY <1>1, <1>3, <2>1, <2>4, <2>6, SessionFails DEF x
<1> QED BY <1>2, <1>3 DEF PlayRemove, Unnamed
-----------------------------------------------------------------------------
(* The ffmpeg task. *)

LEMMA FfmpegPlaylistStep ==
  ASSUME PlayInv, NEW p \in Plays, FfmpegPlaylist(p) PROVE PlayInv'
<1> DEFINE x == play[p]
<1>1. /\ play \in [Plays -> PlayRecs]
      /\ x \in PlayRecs /\ GoodPlay(x) /\ x.ffmpeg = "running" /\ x.dir = "empty"
      /\ UNCHANGED <<accountVars, cleaner, serving, free, entitled, served>>
      /\ UNCHANGED lost /\ UNCHANGED overtaken
      /\ x.row = "absent" /\ x.dir # "none" =>
            \/ x.at \in {"insert", "remove"}
            \/ serving.at = "remove" /\ serving.play = p
            \/ p \in lost
  BY DEF PlayInv, PlaysOK, DirsNamed, Unnamed, FfmpegPlaylist
<1>2. ASSUME UNCHANGED used,
             play' = [play EXCEPT ![p].dir = "playlist"]
      PROVE  PlayInv'
  <2> DEFINE y == [x EXCEPT !.dir = "playlist"]
  <2>1. play' = [play EXCEPT ![p] = y]
    BY <1>1, <1>2
  <2>3. Turn(x, y, x.at, x.row, "playlist", x.ffmpeg, x.result)
    BY <1>1, <1>2 DEF Turn, PlayRecs, InFlight
  <2> HIDE DEF x, y
  <2>4. GoodPlay(y) /\ Moves(x, y)
    BY <1>1, <1>2, <2>3 DEF GoodPlay, Moves, Turn, InFlight
  <2>5. Offered(x, p \in overtaken) => Offered(y, p \in overtaken')
    BY <1>1, <1>2, <2>3 DEF Offered, GoodPlay, Turn, InFlight
  <2>6. y.row = "absent" /\ y.dir # "none" =>
           \/ y.at \in {"insert", "remove"}
           \/ serving.at = "remove" /\ serving.play = p
           \/ p \in lost'
    BY <1>1, <1>2, <2>3 DEF GoodPlay, Turn, InFlight
  <2> QED BY <1>1, <1>2, <2>1, <2>4, <2>5, <2>6, SessionStep DEF x
<1> QED BY <1>2 DEF FfmpegPlaylist

LEMMA FfmpegDoneStep ==
  ASSUME PlayInv, NEW p \in Plays, FfmpegDone(p) PROVE PlayInv'
<1> DEFINE x == play[p]
<1>1. /\ play \in [Plays -> PlayRecs]
      /\ x \in PlayRecs /\ GoodPlay(x) /\ x.ffmpeg = "running" /\ x.dir # "none"
      /\ UNCHANGED <<accountVars, cleaner, serving, free, entitled, served>>
      /\ UNCHANGED lost /\ UNCHANGED overtaken
      /\ x.row = "absent" /\ x.dir # "none" =>
            \/ x.at \in {"insert", "remove"}
            \/ serving.at = "remove" /\ serving.play = p
            \/ p \in lost
  BY DEF PlayInv, PlaysOK, DirsNamed, Unnamed, FfmpegDone
<1>2. ASSUME UNCHANGED used,
             play' = [play EXCEPT ![p].ffmpeg = "none", ![p].row = SetRow(p, "completed"), ![p].result = Sent(p, "ok")]
      PROVE  PlayInv'
  <2> DEFINE y == [x EXCEPT !.ffmpeg = "none", !.row = SetRow(p, "completed"), !.result = Sent(p, "ok")]
  <2>1. play' = [play EXCEPT ![p] = y]
    BY <1>1, <1>2
  <2>2. /\ SetRow(p, "completed") = IF x.row = "absent" THEN "absent" ELSE "completed"
        /\ Sent(p, "ok") = IF x.at = "poll" THEN "ok" ELSE "none"
    BY DEF SetRow, Sent
  <2>3. Turn(x, y, x.at, SetRow(p, "completed"), x.dir, "none", Sent(p, "ok"))
    BY ZenonT(30), <1>1, <2>2, <1>2 DEF Turn, PlayRecs, InFlight
  <2> HIDE DEF x, y
  <2>4. GoodPlay(y) /\ Moves(x, y)
    BY <1>1, <1>2, <2>2, <2>3 DEF GoodPlay, Moves, Turn, InFlight
  <2>5. Offered(x, p \in overtaken) => Offered(y, p \in overtaken')
    BY <1>1, <1>2, <2>2, <2>3 DEF Offered, GoodPlay, Turn, InFlight, PlayRecs
  <2>6. y.row = "absent" /\ y.dir # "none" =>
           \/ y.at \in {"insert", "remove"}
           \/ serving.at = "remove" /\ serving.play = p
           \/ p \in lost'
    BY <1>1, <1>2, <2>2, <2>3 DEF GoodPlay, Turn, InFlight
  <2> QED BY <1>1, <1>2, <2>1, <2>4, <2>5, <2>6, SessionStep DEF x
<1>3. ASSUME Failed,
             play' = [play EXCEPT ![p].ffmpeg = "none", ![p].row = SetRow(p, x.row), ![p].result = Sent(p, "ok")]
      PROVE  PlayInv'
  <2> DEFINE y == [x EXCEPT !.ffmpeg = "none", !.row = SetRow(p, x.row), !.result = Sent(p, "ok")]
  <2>1. play' = [play EXCEPT ![p] = y]
    BY <1>1, <1>3
  <2>2. /\ SetRow(p, x.row) = IF x.row = "absent" THEN "absent" ELSE x.row
        /\ Sent(p, "ok") = IF x.at = "poll" THEN "ok" ELSE "none"
    BY DEF SetRow, Sent
  <2>3. Turn(x, y, x.at, SetRow(p, x.row), x.dir, "none", Sent(p, "ok"))
    BY ZenonT(30), <1>1, <2>2, <1>3 DEF Turn, PlayRecs, InFlight
  <2> HIDE DEF x, y
  <2>4. GoodPlay(y) /\ Moves(x, y)
    BY <1>1, <1>3, <2>2, <2>3 DEF GoodPlay, Moves, Turn, InFlight
  <2>6. y.row = "absent" /\ y.dir # "none" =>
           \/ y.at \in {"insert", "remove"}
           \/ serving.at = "remove" /\ serving.play = p
           \/ p \in lost'
    BY <1>1, <1>3, <2>2, <2>3 DEF GoodPlay, Turn, InFlight
  <2> QED BY <1>1, <1>3, <2>1, <2>4, <2>6, SessionFails DEF x
<1> QED BY <1>2, <1>3 DEF FfmpegDone

LEMMA FfmpegFailsStep ==
  ASSUME PlayInv, NEW p \in Plays, FfmpegFails(p) PROVE PlayInv'
<1> DEFINE x == play[p]
<1>1. /\ play \in [Plays -> PlayRecs]
      /\ x \in PlayRecs /\ GoodPlay(x) /\ x.ffmpeg = "running"
      /\ UNCHANGED <<accountVars, cleaner, serving, free, entitled, served>>
      /\ UNCHANGED lost /\ UNCHANGED overtaken
      /\ x.row = "absent" /\ x.dir # "none" =>
            \/ x.at \in {"insert", "remove"}
            \/ serving.at = "remove" /\ serving.play = p
            \/ p \in lost
  BY DEF PlayInv, PlaysOK, DirsNamed, Unnamed, FfmpegFails
<1>2. ASSUME UNCHANGED used,
             play' = [play EXCEPT ![p].ffmpeg = "failed", ![p].row = SetRow(p, "error")]
      PROVE  PlayInv'
  <2> DEFINE y == [x EXCEPT !.ffmpeg = "failed", !.row = SetRow(p, "error")]
  <2>1. play' = [play EXCEPT ![p] = y]
    BY <1>1, <1>2
  <2>2. SetRow(p, "error") = IF x.row = "absent" THEN "absent" ELSE "error"
    BY DEF SetRow
  <2>3. Turn(x, y, x.at, SetRow(p, "error"), x.dir, "failed", x.result)
    BY <1>1, <2>2, <1>2 DEF Turn, PlayRecs, InFlight
  <2> HIDE DEF x, y
  <2>4. GoodPlay(y) /\ Moves(x, y)
    BY <1>1, <1>2, <2>2, <2>3 DEF GoodPlay, Moves, Turn, InFlight
  <2>5. Offered(x, p \in overtaken) => Offered(y, p \in overtaken')
    BY <1>1, <1>2, <2>2, <2>3 DEF Offered, GoodPlay, Turn, InFlight
  <2>6. y.row = "absent" /\ y.dir # "none" =>
           \/ y.at \in {"insert", "remove"}
           \/ serving.at = "remove" /\ serving.play = p
           \/ p \in lost'
    BY <1>1, <1>2, <2>2, <2>3 DEF GoodPlay, Turn, InFlight
  <2> QED BY <1>1, <1>2, <2>1, <2>4, <2>5, <2>6, SessionStep DEF x
<1>3. ASSUME Failed,
             play' = [play EXCEPT ![p].ffmpeg = "failed"]
      PROVE  PlayInv'
  <2> DEFINE y == [x EXCEPT !.ffmpeg = "failed"]
  <2>1. play' = [play EXCEPT ![p] = y]
    BY <1>1, <1>3
  <2>3. Turn(x, y, x.at, x.row, x.dir, "failed", x.result)
    BY <1>1, <1>3 DEF Turn, PlayRecs, InFlight
  <2> HIDE DEF x, y
  <2>4. GoodPlay(y) /\ Moves(x, y)
    BY <1>1, <1>3, <2>3 DEF GoodPlay, Moves, Turn, InFlight
  <2>6. y.row = "absent" /\ y.dir # "none" =>
           \/ y.at \in {"insert", "remove"}
           \/ serving.at = "remove" /\ serving.play = p
           \/ p \in lost'
    BY <1>1, <1>3, <2>3 DEF GoodPlay, Turn, InFlight
  <2> QED BY <1>1, <1>3, <2>1, <2>4, <2>6, SessionFails DEF x
<1> QED BY <1>2, <1>3 DEF FfmpegFails

LEMMA FfmpegRemovesStep ==
  ASSUME PlayInv, NEW p \in Plays, FfmpegRemoves(p) PROVE PlayInv'
<1> DEFINE x == play[p]
<1>1. /\ play \in [Plays -> PlayRecs]
      /\ x \in PlayRecs /\ GoodPlay(x) /\ x.ffmpeg = "failed"
      /\ UNCHANGED <<accountVars, cleaner, serving, free, entitled, served>>
      /\ lost' \in {lost, lost \cup {p}} /\ UNCHANGED overtaken
      /\ x.row = "absent" /\ x.dir # "none" =>
            \/ x.at \in {"insert", "remove"}
            \/ serving.at = "remove" /\ serving.play = p
            \/ p \in lost
  BY DEF PlayInv, PlaysOK, DirsNamed, Unnamed, FfmpegRemoves
<1>2. ASSUME UNCHANGED used,
             play' = [play EXCEPT ![p].ffmpeg = "none", ![p].dir = "none", ![p].result = Sent(p, "error")]
      PROVE  PlayInv'
  <2> DEFINE y == [x EXCEPT !.ffmpeg = "none", !.dir = "none", !.result = Sent(p, "error")]
  <2>1. play' = [play EXCEPT ![p] = y]
    BY <1>1, <1>2
  <2>2. Sent(p, "error") = IF x.at = "poll" THEN "error" ELSE "none"
    BY DEF Sent
  <2>3. Turn(x, y, x.at, x.row, "none", "none", Sent(p, "error"))
    BY <1>1, <2>2, <1>2 DEF Turn, PlayRecs, InFlight
  <2> HIDE DEF x, y
  <2>4. GoodPlay(y) /\ Moves(x, y)
    BY <1>1, <1>2, <2>2, <2>3 DEF GoodPlay, Moves, Turn, InFlight
  <2>5. Offered(x, p \in overtaken) => Offered(y, p \in overtaken')
    BY <1>1, <1>2, <2>2, <2>3 DEF Offered, GoodPlay, Turn, InFlight
  <2>6. y.row = "absent" /\ y.dir # "none" =>
           \/ y.at \in {"insert", "remove"}
           \/ serving.at = "remove" /\ serving.play = p
           \/ p \in lost'
    BY <1>1, <1>2, <2>2, <2>3 DEF GoodPlay, Turn, InFlight
  <2> QED BY <1>1, <1>2, <2>1, <2>4, <2>5, <2>6, SessionStep DEF x
<1>3. ASSUME Failed,
             x.row = "absent" /\ x.dir # "none" => p \in lost',
             play' = [play EXCEPT ![p].ffmpeg = "none", ![p].result = Sent(p, "error")]
      PROVE  PlayInv'
  <2> DEFINE y == [x EXCEPT !.ffmpeg = "none", !.result = Sent(p, "error")]
  <2>1. play' = [play EXCEPT ![p] = y]
    BY <1>1, <1>3
  <2>2. Sent(p, "error") = IF x.at = "poll" THEN "error" ELSE "none"
    BY DEF Sent
  <2>3. Turn(x, y, x.at, x.row, x.dir, "none", Sent(p, "error"))
    BY <1>1, <2>2, <1>3 DEF Turn, PlayRecs, InFlight
  <2> HIDE DEF x, y
  <2>4. GoodPlay(y) /\ Moves(x, y)
    BY <1>1, <1>3, <2>2, <2>3 DEF GoodPlay, Moves, Turn, InFlight
  <2>6. y.row = "absent" /\ y.dir # "none" =>
           \/ y.at \in {"insert", "remove"}
           \/ serving.at = "remove" /\ serving.play = p
           \/ p \in lost'
    BY <1>1, <1>3, <2>2, <2>3 DEF GoodPlay, Turn, InFlight
  <2> QED BY <1>1, <1>3, <2>1, <2>4, <2>6, SessionFails DEF x
<1> QED BY <1>2, <1>3 DEF FfmpegRemoves, Unnamed

LEMMA FfmpegPanicsStep ==
  ASSUME PlayInv, NEW p \in Plays, FfmpegPanics(p) PROVE PlayInv'
<1> DEFINE x == play[p]
           y == [x EXCEPT !.ffmpeg = "none", !.result = Sent(p, "closed")]
<1>1. /\ play \in [Plays -> PlayRecs]
      /\ x \in PlayRecs /\ GoodPlay(x) /\ x.ffmpeg # "none" /\ Failed
      /\ play' = [play EXCEPT ![p].ffmpeg = "none", ![p].result = Sent(p, "closed")]
      /\ UNCHANGED <<accountVars, cleaner, serving, free, entitled, served, lost, overtaken>>
      /\ x.row = "absent" /\ x.dir # "none" =>
            \/ x.at \in {"insert", "remove"}
            \/ serving.at = "remove" /\ serving.play = p
            \/ p \in lost
  BY DEF PlayInv, PlaysOK, DirsNamed, Unnamed, FfmpegPanics
<1>2. play' = [play EXCEPT ![p] = y]
  BY <1>1
<1>3. Sent(p, "closed") = IF x.at = "poll" THEN "closed" ELSE "none"
  BY DEF Sent
<1>4. Turn(x, y, x.at, x.row, x.dir, "none", Sent(p, "closed"))
  BY <1>1, <1>3 DEF Turn, PlayRecs, InFlight
<1> HIDE DEF x, y
<1>5. GoodPlay(y) /\ Moves(x, y)
  BY <1>1, <1>3, <1>4 DEF GoodPlay, Moves, Turn, InFlight
<1>6. y.row = "absent" /\ y.dir # "none" =>
         \/ y.at \in {"insert", "remove"}
         \/ serving.at = "remove" /\ serving.play = p
         \/ p \in lost'
  BY <1>1, <1>4 DEF Turn
<1> QED BY <1>1, <1>2, <1>5, <1>6, SessionFails DEF x

LEMMA LateStatusStep ==
  ASSUME PlayInv, NEW p \in Plays, LateStatus(p) PROVE PlayInv'
<1> DEFINE x == play[p]
           row == SetRow(p, x.late)
           y == [x EXCEPT !.late = "none", !.row = row]
<1>1. /\ play \in [Plays -> PlayRecs]
      /\ x \in PlayRecs /\ GoodPlay(x) /\ x.late # "none"
      /\ play' = [play EXCEPT ![p].late = "none", ![p].row = row]
      /\ overtaken' \in {overtaken, overtaken \cup {p}}
      /\ x.late = "completed" /\ x.at # "fail" => p \in overtaken'
      /\ p \in overtaken => p \in overtaken'
      /\ UNCHANGED <<accountVars, cleaner, serving, free, entitled, served, lost, used>>
      /\ x.row = "absent" /\ x.dir # "none" =>
            \/ x.at \in {"insert", "remove"}
            \/ serving.at = "remove" /\ serving.play = p
            \/ p \in lost
  BY DEF PlayInv, PlaysOK, DirsNamed, Unnamed, LateStatus
<1>2. play' = [play EXCEPT ![p] = y]
  BY <1>1
<1>3. /\ row = IF x.row = "absent" THEN "absent" ELSE x.late
      /\ x.late \in {"completed", "error"}
  BY <1>1 DEF SetRow, PlayRecs
<1> HIDE DEF row
<1>4. /\ y \in PlayRecs /\ y.late = "none" /\ y.row = row /\ y.at = x.at /\ y.dir = x.dir
      /\ y.ffmpeg = x.ffmpeg /\ y.result = x.result /\ y.user = x.user
      /\ y.granted = x.granted /\ y.expired = x.expired
  BY <1>1, <1>3 DEF PlayRecs, InFlight
<1> HIDE DEF x, y
<1>5. x.at \in {"fail", "remove", "done", "dropped"} /\ (x.at = "fail" => x.dir # "none")
  BY <1>1 DEF GoodPlay
<1>6. GoodPlay(y) /\ Moves(x, y)
  BY <1>1, <1>3, <1>4, <1>5 DEF GoodPlay, Moves, InFlight
<1>7. Offered(x, p \in overtaken) => Offered(y, p \in overtaken')
  <2>1. y.dir \in {"none", "empty", "playlist"}
    BY <1>4 DEF PlayRecs
  <2> QED BY <1>1, <1>3, <1>4, <1>5, <2>1 DEF Offered, GoodPlay
<1>8. y.row = "absent" /\ y.dir # "none" =>
         \/ y.at \in {"insert", "remove"}
         \/ serving.at = "remove" /\ serving.play = p
         \/ p \in lost'
  BY <1>1, <1>3, <1>4
<1> QED BY <1>1, <1>2, <1>6, <1>7, <1>8, SessionStep DEF x
-----------------------------------------------------------------------------
(* The first step of request_play, a disconnection, and time. *)

LEMMA PlayBeginStep ==
  ASSUME PlayInv, NEW p \in Plays, NEW s \in Sids, PlayBegin(p, s) PROVE PlayInv'
<1> DEFINE x == play[p]
           u == CurrentUser(s)
           granted == HasAccess(u)
           at == IF granted THEN "mkdir" ELSE "done"
           y == [x EXCEPT !.at = at, !.user = u, !.granted = granted]
<1>1. /\ play \in [Plays -> PlayRecs] /\ x = NoPlay /\ x \in PlayRecs /\ CleanersOK
      /\ u \in Users /\ Event
      /\ UNCHANGED <<accountVars, serving, free, entitled, served, lost, overtaken>>
  BY CurrentUserIsUser DEF PlayInv, PlaysOK, GoodPlay, PlayBegin
<1>2. granted \in BOOLEAN
  BY <1>1 DEF HasAccess, PlayInv, RestOK, AccountsOK, AccountsTypeOK
<1>3. play' = [play EXCEPT ![p].at = at, ![p].user = u, ![p].granted = granted]
  BY DEF PlayBegin
<1>4. cleaner' = IF granted THEN [cleaner EXCEPT ![p].todo = ExpiredRows] ELSE cleaner
  BY DEF PlayBegin, SelectExpired
<1> HIDE DEF u, granted
<1>5. play' = [play EXCEPT ![p] = y]
  BY <1>1, <1>3
<1>6. /\ y \in PlayRecs /\ y.at = at /\ y.user = u /\ y.granted = granted
      /\ y.row = "absent" /\ ~y.expired /\ y.dir = "none" /\ y.ffmpeg = "none"
      /\ y.late = "none" /\ y.result = "none"
  <2>1. x.row = "absent" /\ ~x.expired /\ x.dir = "none" /\ x.ffmpeg = "none" /\ x.late = "none"
        /\ x.result = "none"
    BY <1>1 DEF NoPlay
  <2>2. at \in {"mkdir", "done"}
    OBVIOUS
  <2> HIDE DEF x, at
  <2> QED BY ZenonT(30), <1>1, <1>2, <2>1, <2>2 DEF PlayRecs, InFlight
<1>7. x.at = "new" /\ ~x.expired
  BY <1>1 DEF NoPlay
<1>8. at \in {"mkdir", "done"} /\ (at = "mkdir" => granted)
  OBVIOUS
<1> HIDE DEF x, at, y
<1>9. GoodPlay(y) /\ Moves(x, y) /\ Offered(y, p \in overtaken') /\ y.dir = "none"
  BY <1>6, <1>7, <1>8 DEF GoodPlay, Moves, Offered, InFlight
<1>10. AccountsOK' /\ UsedGrows
  BY <1>1, UsedSteps DEF PlayInv
<1>11. /\ lost \subseteq lost' /\ lost' \subseteq Plays
       /\ overtaken \subseteq overtaken' /\ overtaken' \subseteq Plays
  BY <1>1 DEF PlayInv, RestOK
<1>12. /\ AccountsOK' /\ PlaysOK' /\ OffersOK' /\ DirsNamed' /\ RestOK' /\ ServedToItsViewer'
       /\ ServingOK' /\ ExpiredLast
  BY <1>1, <1>5, <1>9, <1>10, <1>11, OnePlay DEF x
<1>13. CleanersOK'
  <2>1. CASE ~granted
    BY <1>1, <1>4, <1>12, <2>1, CleanersSame
  <2>2. CASE granted
    <3> USE <1>1 DEF Cleaners
    <3>1. cleaner' = [cleaner EXCEPT ![p] = [cleaner[p] EXCEPT !.todo = ExpiredRows]]
      BY <1>4, <2>2 DEF CleanersOK
    <3>2. [cleaner[p] EXCEPT !.todo = ExpiredRows] =
             [todo |-> ExpiredRows, removed |-> cleaner[p].removed]
      BY DEF CleanersOK
    <3>3. cleaner' = [cleaner EXCEPT ![p] = [todo |-> ExpiredRows, removed |-> cleaner[p].removed]]
      BY <3>1, <3>2
    <3>4. /\ ExpiredRows \subseteq Plays
          /\ \A q \in ExpiredRows : play'[q].expired
      BY <1>12 DEF ExpiredRows, ExpiredLast
    <3>5. cleaner' \in [Cleaners -> [todo : SUBSET Plays, removed : Plays \cup {None}]]
      BY <3>3, <3>4 DEF CleanersOK
    <3>6. \A c \in Cleaners :
            /\ \A q \in cleaner'[c].todo : q \in cleaner[c].todo \/ play'[q].expired
            /\ cleaner'[c].removed \in {cleaner[c].removed, None}
      BY <3>3, <3>4 DEF CleanersOK
    <3> QED BY <1>12, <3>5, <3>6, CleanersLast
  <2> QED BY <2>1, <2>2
<1> QED BY <1>12, <1>13 DEF PlayInv

LEMMA PlayDropStep ==
  ASSUME PlayInv, NEW p \in Plays, PlayDrop(p) PROVE PlayInv'
<1> DEFINE x == play[p]
           y == [x EXCEPT !.at = "dropped", !.result = "none"]
<1>1. /\ play \in [Plays -> PlayRecs] /\ GoodPlay(x) /\ x \in PlayRecs /\ CleanersOK
      /\ x.at \in InFlight /\ Event
      /\ play' = [play EXCEPT ![p].at = "dropped", ![p].result = "none"]
      /\ cleaner' = [cleaner EXCEPT ![p] = NotCleaning]
      /\ x.row = "absent" /\ x.dir # "none" => p \in lost'
      /\ lost' \in {lost, lost \cup {p}}
      /\ UNCHANGED <<accountVars, serving, free, entitled, served, overtaken>>
  BY DEF PlayInv, PlaysOK, PlayDrop, Unnamed
<1>2. play' = [play EXCEPT ![p] = y]
  BY <1>1
<1>3. Turn(x, y, "dropped", x.row, x.dir, x.ffmpeg, "none")
  BY ZenonT(30), <1>1 DEF Turn, PlayRecs, InFlight
<1> HIDE DEF x, y
<1>4. GoodPlay(y) /\ Moves(x, y)
  BY <1>1, <1>3 DEF GoodPlay, Moves, Turn, InFlight
<1>5. Offered(x, p \in overtaken) => Offered(y, p \in overtaken')
  BY <1>1, <1>3 DEF Offered, GoodPlay, Turn, InFlight
<1>6. y.row = "absent" /\ y.dir # "none" => p \in lost'
  BY <1>1, <1>3 DEF Turn
<1>7. AccountsOK' /\ UsedGrows
  BY <1>1, UsedSteps DEF PlayInv
<1>8. /\ lost \subseteq lost' /\ lost' \subseteq Plays
      /\ overtaken \subseteq overtaken' /\ overtaken' \subseteq Plays
  BY <1>1 DEF PlayInv, RestOK
<1>9. /\ AccountsOK' /\ PlaysOK' /\ OffersOK' /\ DirsNamed' /\ RestOK' /\ ServedToItsViewer'
      /\ ServingOK' /\ ExpiredLast
  BY <1>1, <1>2, <1>4, <1>5, <1>6, <1>7, <1>8, OnePlay DEF x
<1>10. CleanersOK'
  <2>1. cleaner' \in [Cleaners -> [todo : SUBSET Plays, removed : Plays \cup {None}]]
    BY <1>1 DEF CleanersOK, NotCleaning, Cleaners
  <2>2. \A c \in Cleaners :
          /\ \A q \in cleaner'[c].todo : q \in cleaner[c].todo \/ play'[q].expired
          /\ cleaner'[c].removed \in {cleaner[c].removed, None}
    BY <1>1 DEF CleanersOK, NotCleaning, Cleaners
  <2> QED BY <1>1, <1>9, <2>1, <2>2, CleanersLast
<1> QED BY <1>9, <1>10 DEF PlayInv

LEMMA ExpireStep ==
  ASSUME PlayInv, NEW p \in Plays, Expire(p) PROVE PlayInv'
<1> DEFINE x == play[p]
           y == [x EXCEPT !.expired = TRUE]
<1>1. /\ play \in [Plays -> PlayRecs] /\ GoodPlay(x) /\ x \in PlayRecs
      /\ x.at \in {"done", "dropped"} /\ x.row # "absent" /\ ~x.expired /\ Event
      /\ play' = [play EXCEPT ![p].expired = TRUE]
      /\ UNCHANGED <<accountVars, cleaner, serving, free, entitled, served, lost, overtaken>>
  BY DEF PlayInv, PlaysOK, Expire
<1>2. play' = [play EXCEPT ![p] = y]
  BY <1>1
<1>3. /\ y \in PlayRecs /\ y.expired
      /\ y.at = x.at /\ y.user = x.user /\ y.granted = x.granted /\ y.row = x.row
      /\ y.dir = x.dir /\ y.ffmpeg = x.ffmpeg /\ y.late = x.late /\ y.result = x.result
  BY <1>1 DEF PlayRecs, InFlight
<1> HIDE DEF x, y
<1>4. GoodPlay(y) /\ Moves(x, y)
  BY <1>1, <1>3 DEF GoodPlay, Moves, InFlight
<1>5. Offered(x, p \in overtaken) => Offered(y, p \in overtaken')
  BY <1>1, <1>3 DEF Offered
<1>6. y.row # "absent"
  BY <1>1, <1>3
<1> QED BY <1>1, <1>2, <1>4, <1>5, <1>6, SessionStep DEF x
-----------------------------------------------------------------------------
(* The cleanups. *)

\* A step that leaves the sessions alone.
LEMMA NoPlayMoves ==
  ASSUME PlayInv, UNCHANGED <<play, serving, served, lost, overtaken>>, AccountsOK', UsedGrows,
         free' \in BOOLEAN, entitled' \subseteq Users, CleanersOK'
  PROVE  PlayInv'
<1>1. OffersOK'
  BY DEF PlayInv, OffersOK, UsedGrows
<1> QED BY <1>1 DEF PlayInv, PlaysOK, ServingOK, DirsNamed, Unnamed, RestOK, ServedToItsViewer

\* An expired session's row or directory goes.
LEMMA ExpiredGoes ==
  ASSUME PlayInv, NEW p \in Plays, play[p].expired, NEW row, NEW dir, NEW y,
         \/ row = play[p].row /\ dir = "none"
         \/ row = "absent" /\ dir = play[p].dir,
         Turn(play[p], y, play[p].at, row, dir, play[p].ffmpeg, play[p].result)
  PROVE  /\ GoodPlay(y) /\ Moves(play[p], y)
         /\ Offered(play[p], p \in overtaken) => Offered(y, p \in overtaken)
<1>1. GoodPlay(play[p])
  BY DEF PlayInv, PlaysOK
<1>2. GoodPlay(y) /\ Moves(play[p], y)
  BY <1>1 DEF GoodPlay, Moves, Turn, InFlight
<1>3. Offered(play[p], p \in overtaken) => Offered(y, p \in overtaken)
  BY <1>1 DEF GoodPlay, Offered, Turn, InFlight
<1> QED BY <1>2, <1>3

LEMMA TaskSelectStep ==
  ASSUME PlayInv, TaskSelect PROVE PlayInv'
<1>1. /\ CleanersOK /\ PlaysOK
      /\ cleaner' = [cleaner EXCEPT !["task"].todo = ExpiredRows]
      /\ UNCHANGED <<accountVars, play, serving, free, entitled, served, lost, overtaken, used>>
  BY DEF PlayInv, TaskSelect, SelectExpired
<1>2. AccountsOK' /\ UsedGrows
  BY <1>1, UsedSteps DEF PlayInv
<1>3. ExpiredLast
  BY <1>1 DEF ExpiredLast
<1>4. ExpiredRows \subseteq Plays /\ \A q \in ExpiredRows : play'[q].expired
  BY <1>1 DEF ExpiredRows
<1>5. cleaner' = [cleaner EXCEPT !["task"] = [todo |-> ExpiredRows,
                                              removed |-> cleaner["task"].removed]]
  <2>1. cleaner' = [cleaner EXCEPT !["task"] = [cleaner["task"] EXCEPT !.todo = ExpiredRows]]
    BY <1>1 DEF CleanersOK
  <2>2. [cleaner["task"] EXCEPT !.todo = ExpiredRows] =
           [todo |-> ExpiredRows, removed |-> cleaner["task"].removed]
    BY <1>1 DEF CleanersOK, Cleaners
  <2> QED BY <2>1, <2>2
<1>6. cleaner' \in [Cleaners -> [todo : SUBSET Plays, removed : Plays \cup {None}]]
  BY <1>1, <1>4, <1>5 DEF CleanersOK, Cleaners
<1>7. \A c \in Cleaners :
        /\ \A q \in cleaner'[c].todo : q \in cleaner[c].todo \/ play'[q].expired
        /\ cleaner'[c].removed \in {cleaner[c].removed, None}
  BY <1>1, <1>4, <1>5 DEF CleanersOK
<1>8. CleanersOK'
  BY <1>1, <1>3, <1>6, <1>7, CleanersLast
<1> QED BY <1>1, <1>2, <1>8, NoPlayMoves DEF PlayInv, RestOK

LEMMA CleanRemoveStep ==
  ASSUME PlayInv, NEW c \in Cleaners, CleanRemove(c) PROVE PlayInv'
<1>1. /\ CleanersOK /\ play \in [Plays -> PlayRecs]
      /\ UNCHANGED <<accountVars, serving, free, entitled, served, lost, overtaken>>
  BY DEF PlayInv, PlaysOK, CleanRemove
<1>2. PICK p \in cleaner[c].todo :
          \/ /\ play' = [play EXCEPT ![p].dir = "none"]
             /\ cleaner' = [cleaner EXCEPT ![c] = [todo |-> @.todo \ {p}, removed |-> p]]
             /\ UNCHANGED used
          \/ /\ Failed
             /\ cleaner' = [cleaner EXCEPT ![c].todo = @ \ {p}]
             /\ UNCHANGED play
  BY DEF CleanRemove
<1>3. p \in Plays /\ play[p].expired /\ play[p] \in PlayRecs
  BY <1>1 DEF CleanersOK
<1>4. AccountsOK' /\ UsedGrows
  BY <1>1, <1>2, UsedSteps DEF PlayInv
<1>5. ASSUME NEW removed \in Plays \cup {None}, ExpiredLast,
             cleaner' = [cleaner EXCEPT ![c] = [todo |-> cleaner[c].todo \ {p},
                                                removed |-> removed]],
             \/ removed = cleaner[c].removed
             \/ play'[removed].expired /\ play'[removed].dir = "none"
      PROVE  CleanersOK'
  <2>1. cleaner' \in [Cleaners -> [todo : SUBSET Plays, removed : Plays \cup {None}]]
    BY <1>1, <1>5 DEF CleanersOK
  <2>2. \A d \in Cleaners :
          /\ \A q \in cleaner'[d].todo : q \in cleaner[d].todo \/ play'[q].expired
          /\ \/ cleaner'[d].removed \in {cleaner[d].removed, None}
             \/ /\ play'[cleaner'[d].removed].expired
                /\ play'[cleaner'[d].removed].dir = "none"
    BY <1>1, <1>5 DEF CleanersOK
  <2> QED BY <1>1, <1>5, <2>1, <2>2, CleanersLast
<1>6. CASE /\ play' = [play EXCEPT ![p].dir = "none"]
           /\ cleaner' = [cleaner EXCEPT ![c] = [todo |-> @.todo \ {p}, removed |-> p]]
           /\ UNCHANGED used
  <2> DEFINE x == play[p]
             y == [x EXCEPT !.dir = "none"]
  <2>1. play' = [play EXCEPT ![p] = y]
    BY <1>1, <1>6
  <2>2. Turn(x, y, x.at, x.row, "none", x.ffmpeg, x.result)
    BY <1>3 DEF Turn, PlayRecs
  <2> HIDE DEF x, y
  <2>3. /\ GoodPlay(y) /\ Moves(x, y)
        /\ Offered(x, p \in overtaken) => Offered(y, p \in overtaken)
    BY <1>3, <2>2, ExpiredGoes DEF x
  <2>4. y.dir = "none" /\ y.expired
    BY <1>3, <2>2 DEF Turn, x
  <2>5. /\ AccountsOK' /\ PlaysOK' /\ OffersOK' /\ DirsNamed' /\ RestOK' /\ ServedToItsViewer'
        /\ ServingOK' /\ ExpiredLast
    <3>1. lost' \subseteq Plays /\ overtaken' \subseteq Plays
      BY <1>1 DEF PlayInv, RestOK
    <3>2. Offered(x, p \in overtaken) => Offered(y, p \in overtaken')
      BY <1>1, <2>3
    <3> QED BY <1>1, <1>3, <1>4, <2>1, <2>3, <2>4, <3>1, <3>2, OnePlay DEF x
  <2>6. play'[p].expired /\ play'[p].dir = "none"
    BY <1>1, <1>3, <2>1, <2>4
  <2>7. cleaner' = [cleaner EXCEPT ![c] = [todo |-> cleaner[c].todo \ {p}, removed |-> p]]
    BY <1>6
  <2>8. CleanersOK'
    BY <1>3, <1>5, <2>5, <2>6, <2>7
  <2> QED BY <2>5, <2>8 DEF PlayInv
<1>7. CASE /\ Failed
           /\ cleaner' = [cleaner EXCEPT ![c].todo = @ \ {p}]
           /\ UNCHANGED play
  <2>1. cleaner' = [cleaner EXCEPT ![c] = [todo |-> cleaner[c].todo \ {p},
                                           removed |-> cleaner[c].removed]]
    <3>1. cleaner' = [cleaner EXCEPT ![c] = [cleaner[c] EXCEPT !.todo = cleaner[c].todo \ {p}]]
      BY <1>1, <1>7 DEF CleanersOK
    <3>2. \A t : [cleaner[c] EXCEPT !.todo = t] = [todo |-> t, removed |-> cleaner[c].removed]
      BY <1>1 DEF CleanersOK
    <3> QED BY <3>1, <3>2
  <2>2. ExpiredLast
    BY <1>7 DEF ExpiredLast
  <2>3. CleanersOK'
    <3>1. cleaner[c].removed \in Plays \cup {None}
      BY <1>1 DEF CleanersOK
    <3> QED BY <1>5, <2>1, <2>2, <3>1
  <2> QED BY <1>1, <1>4, <1>7, <2>3, NoPlayMoves DEF PlayInv, RestOK
<1> QED BY <1>2, <1>6, <1>7

LEMMA CleanDeleteStep ==
  ASSUME PlayInv, NEW c \in Cleaners, CleanDelete(c) PROVE PlayInv'
<1> DEFINE p == cleaner[c].removed
           x == play[p]
<1>1. /\ CleanersOK /\ play \in [Plays -> PlayRecs]
      /\ UNCHANGED <<accountVars, serving, free, entitled, served, lost, overtaken>>
  BY DEF PlayInv, PlaysOK, CleanDelete
<1>2. p \in Plays /\ x.expired /\ x.dir = "none" /\ x \in PlayRecs
  BY <1>1 DEF CleanersOK, CleanDelete
<1>3. AccountsOK' /\ UsedGrows
  BY <1>1, UsedSteps DEF PlayInv, CleanDelete
<1>4. ASSUME NEW todo \in SUBSET Plays, ExpiredLast, todo \subseteq cleaner[c].todo,
             cleaner' = [cleaner EXCEPT ![c] = [todo |-> todo, removed |-> None]]
      PROVE  CleanersOK'
  <2>1. cleaner' \in [Cleaners -> [todo : SUBSET Plays, removed : Plays \cup {None}]]
    BY <1>1, <1>4 DEF CleanersOK
  <2>2. \A d \in Cleaners :
          /\ \A q \in cleaner'[d].todo : q \in cleaner[d].todo \/ play'[q].expired
          /\ cleaner'[d].removed \in {cleaner[d].removed, None}
    BY <1>1, <1>4 DEF CleanersOK
  <2> QED BY <1>1, <1>4, <2>1, <2>2, CleanersLast
<1>5. CASE /\ play' = [play EXCEPT ![p].row = "absent"]
           /\ cleaner' = [cleaner EXCEPT ![c].removed = None]
           /\ UNCHANGED used
  <2> DEFINE y == [x EXCEPT !.row = "absent"]
  <2>1. play' = [play EXCEPT ![p] = y]
    BY <1>1, <1>5
  <2>2. Turn(x, y, x.at, "absent", x.dir, x.ffmpeg, x.result)
    BY <1>2 DEF Turn, PlayRecs
  <2>3. cleaner' = [cleaner EXCEPT ![c] = [todo |-> cleaner[c].todo, removed |-> None]]
    <3>1. cleaner' = [cleaner EXCEPT ![c] = [cleaner[c] EXCEPT !.removed = None]]
      BY <1>1, <1>5 DEF CleanersOK
    <3>2. [cleaner[c] EXCEPT !.removed = None] = [todo |-> cleaner[c].todo, removed |-> None]
      BY <1>1 DEF CleanersOK
    <3> QED BY <3>1, <3>2
  <2> HIDE DEF p, x, y
  <2>4. /\ GoodPlay(y) /\ Moves(x, y)
        /\ Offered(x, p \in overtaken) => Offered(y, p \in overtaken')
    BY <1>1, <1>2, <2>2, ExpiredGoes DEF x
  <2>5. y.dir = "none"
    BY <1>2, <2>2 DEF Turn
  <2>6. lost' \subseteq Plays /\ overtaken' \subseteq Plays
    BY <1>1 DEF PlayInv, RestOK
  <2>7. /\ AccountsOK' /\ PlaysOK' /\ OffersOK' /\ DirsNamed' /\ RestOK' /\ ServedToItsViewer'
        /\ ServingOK' /\ ExpiredLast
    BY <1>1, <1>2, <1>3, <2>1, <2>4, <2>5, <2>6, OnePlay DEF x
  <2>8. CleanersOK'
    <3>1. cleaner[c].todo \in SUBSET Plays
      BY <1>1 DEF CleanersOK
    <3> QED BY <1>4, <2>3, <2>7, <3>1
  <2> QED BY <2>7, <2>8 DEF PlayInv
<1>6. CASE Failed /\ cleaner' = [cleaner EXCEPT ![c] = NotCleaning] /\ UNCHANGED play
  <2>1. ExpiredLast
    BY <1>6 DEF ExpiredLast
  <2>2. CleanersOK'
    <3>1. cleaner' = [cleaner EXCEPT ![c] = [todo |-> {}, removed |-> None]]
      BY <1>6 DEF NotCleaning
    <3>2. {} \in SUBSET Plays /\ {} \subseteq cleaner[c].todo
      OBVIOUS
    <3> QED BY <1>4, <2>1, <3>1, <3>2
  <2> QED BY <1>1, <1>3, <1>6, <2>2, NoPlayMoves DEF PlayInv, RestOK
<1> QED BY <1>5, <1>6 DEF CleanDelete
-----------------------------------------------------------------------------
(* serve_hls. *)

\* A step that moves serve_hls on and leaves session p as it is, apart from who names it.
LEMMA ServeMoves ==
  ASSUME PlayInv, NEW p \in Plays, UNCHANGED <<accountVars, play, cleaner, free, entitled, served, overtaken>>,
         UNCHANGED used \/ Event \/ Failed, ServingOK',
         serving.at = "remove" => serving.play = p,
         lost' \in {lost, lost \cup {p}},
         play[p].row = "absent" /\ play[p].dir # "none" =>
            \/ play[p].at \in {"insert", "remove"}
            \/ serving'.at = "remove" /\ serving'.play = p
            \/ p \in lost'
  PROVE  PlayInv'
<1>1. AccountsOK' /\ UsedGrows
  BY UsedSteps DEF PlayInv
<1>2. play' = [play EXCEPT ![p] = play[p]] /\ GoodPlay(play[p]) /\ Moves(play[p], play[p])
  BY DEF PlayInv, PlaysOK, Moves
<1>3. /\ lost \subseteq lost' /\ lost' \subseteq Plays
      /\ overtaken \subseteq overtaken' /\ overtaken' \subseteq Plays
  BY DEF PlayInv, RestOK
<1>4. Offered(play[p], p \in overtaken) => Offered(play[p], p \in overtaken')
  OBVIOUS
<1>5. /\ AccountsOK' /\ PlaysOK' /\ OffersOK' /\ DirsNamed' /\ RestOK' /\ ServedToItsViewer'
      /\ ExpiredLast
  BY <1>1, <1>2, <1>3, <1>4, OnePlay
<1>6. CleanersOK'
  BY <1>5, CleanersSame DEF PlayInv
<1> QED BY <1>5, <1>6 DEF PlayInv

LEMMA ServeLookupStep ==
  ASSUME PlayInv, NEW p \in Plays, NEW s \in Sids, ServeLookup(p, s) PROVE PlayInv'
<1>1. /\ serving.at = "idle" /\ CurrentUser(s) \in Users /\ Event
      /\ UNCHANGED <<accountVars, play, cleaner, free, entitled, served, lost, overtaken>>
  BY CurrentUserIsUser DEF ServeLookup
<1>2. GoodPlay(play[p])
  BY DEF PlayInv, PlaysOK
<1>3. ServingOK'
  <2>1. CASE /\ MayServe(p, CurrentUser(s))
             /\ serving' = [at |-> "open", user |-> CurrentUser(s), play |-> p]
    <3>1. play[p].user = CurrentUser(s) /\ play[p].granted
      BY <1>2, <2>1 DEF MayServe, GoodPlay
    <3> QED BY <1>1, <2>1, <3>1 DEF ServingOK
  <2>2. CASE /\ p \in ExpiredRows
             /\ serving' = [at |-> "delete", user |-> CurrentUser(s), play |-> p]
    BY <1>1, <2>2 DEF ServingOK, ExpiredRows
  <2> QED BY <2>1, <2>2 DEF ServeLookup
<1>4. play[p].row = "absent" /\ play[p].dir # "none" =>
         play[p].at \in {"insert", "remove"} \/ p \in lost'
  BY <1>1 DEF PlayInv, DirsNamed, Unnamed
<1> QED BY <1>1, <1>3, <1>4, ServeMoves

\* Where serve_hls is.
LEMMA ServingFacts ==
  ASSUME PlayInv
  PROVE  /\ serving.at # "idle" => /\ serving.play \in Plays /\ serving.user \in Users
                                   /\ play[serving.play] \in PlayRecs
         /\ serving.at \in {"delete", "remove"} => play[serving.play].expired
         /\ ServingOK
BY DEF PlayInv, ServingOK, PlaysOK

LEMMA ServeDeleteStep ==
  ASSUME PlayInv, ServeDelete PROVE PlayInv'
<1> DEFINE p == serving.play
           x == play[p]
<1>1. /\ serving.at = "delete" /\ serving' = [serving EXCEPT !.at = "remove"]
      /\ UNCHANGED <<accountVars, cleaner, free, entitled, served, lost, overtaken>>
  BY DEF ServeDelete
<1>2. p \in Plays /\ x \in PlayRecs /\ x.expired /\ ServingOK
  BY <1>1, ServingFacts
<1>3. /\ serving' \in [at : {"idle", "delete", "remove", "open"},
                       user : Users \cup {None}, play : Plays \cup {None}]
      /\ serving'.at = "remove" /\ serving'.play = p /\ serving'.user \in Users
  BY <1>1, <1>2 DEF ServingOK
<1>4. CASE play' = [play EXCEPT ![p].row = "absent"] /\ UNCHANGED used
  <2> DEFINE y == [x EXCEPT !.row = "absent"]
  <2>1. play' = [play EXCEPT ![p] = y] /\ play \in [Plays -> PlayRecs]
    BY <1>4 DEF PlayInv, PlaysOK
  <2>2. Turn(x, y, x.at, "absent", x.dir, x.ffmpeg, x.result)
    BY <1>2 DEF Turn, PlayRecs
  <2> HIDE DEF p, x, y
  <2>3. /\ GoodPlay(y) /\ Moves(x, y)
        /\ Offered(x, p \in overtaken) => Offered(y, p \in overtaken')
    BY <1>1, <1>2, <2>2, ExpiredGoes DEF x
  <2>4. AccountsOK' /\ UsedGrows
    BY <1>1, <1>4, UsedSteps DEF PlayInv
  <2>5. lost' \subseteq Plays /\ overtaken' \subseteq Plays
    BY <1>1 DEF PlayInv, RestOK
  <2>6. /\ AccountsOK' /\ PlaysOK' /\ OffersOK' /\ DirsNamed' /\ RestOK' /\ ServedToItsViewer'
        /\ ExpiredLast
    BY <1>1, <1>2, <1>3, <2>1, <2>3, <2>4, <2>5, OnePlay DEF x
  <2>7. ServingOK'
    BY <1>2, <1>3, <2>6 DEF ServingOK, ExpiredLast, x
  <2>8. CleanersOK'
    BY <1>1, <2>6, CleanersSame DEF PlayInv
  <2> QED BY <2>6, <2>7, <2>8 DEF PlayInv
<1>5. CASE Failed /\ UNCHANGED play
  <2>1. ServingOK'
    BY <1>2, <1>3, <1>5 DEF ServingOK
  <2> HIDE DEF p
  <2> QED BY <1>1, <1>2, <1>3, <1>5, <2>1, ServeMoves
<1> QED BY <1>4, <1>5 DEF ServeDelete

LEMMA ServeRemoveStep ==
  ASSUME PlayInv, ServeRemove PROVE PlayInv'
<1> DEFINE p == serving.play
           x == play[p]
<1>1. /\ serving.at = "remove" /\ serving' = NotServing
      /\ UNCHANGED <<accountVars, cleaner, free, entitled, served, overtaken>>
  BY DEF ServeRemove
<1>2. p \in Plays /\ x \in PlayRecs /\ x.expired
  BY <1>1, ServingFacts
<1>3. ServingOK'
  BY <1>1 DEF ServingOK, NotServing
<1>4. CASE play' = [play EXCEPT ![p].dir = "none"] /\ UNCHANGED <<lost, used>>
  <2> DEFINE y == [x EXCEPT !.dir = "none"]
  <2>1. play' = [play EXCEPT ![p] = y] /\ play \in [Plays -> PlayRecs]
    BY <1>4 DEF PlayInv, PlaysOK
  <2>2. Turn(x, y, x.at, x.row, "none", x.ffmpeg, x.result)
    BY <1>2 DEF Turn, PlayRecs
  <2>3. \A q \in Plays : q # p => ~(serving.at = "remove" /\ serving.play = q)
    OBVIOUS
  <2> HIDE DEF p, x, y
  <2>4. /\ GoodPlay(y) /\ Moves(x, y)
        /\ Offered(x, p \in overtaken) => Offered(y, p \in overtaken')
    BY <1>1, <1>2, <2>2, ExpiredGoes DEF x
  <2>5. AccountsOK' /\ UsedGrows
    BY <1>1, <1>4, UsedSteps DEF PlayInv
  <2>6. lost' \subseteq Plays /\ overtaken' \subseteq Plays /\ y.dir = "none"
    BY <1>1, <1>4, <2>2 DEF PlayInv, RestOK, Turn
  <2>7. /\ AccountsOK' /\ PlaysOK' /\ OffersOK' /\ DirsNamed' /\ RestOK' /\ ServedToItsViewer'
        /\ ExpiredLast
    BY <1>1, <1>2, <1>4, <2>1, <2>3, <2>4, <2>5, <2>6, OnePlay DEF x
  <2>8. CleanersOK'
    BY <1>1, <2>7, CleanersSame DEF PlayInv
  <2> QED BY <1>3, <2>7, <2>8 DEF PlayInv
<1>5. CASE /\ Failed /\ UNCHANGED play
           /\ lost' = IF Unnamed(p) THEN lost \cup {p} ELSE lost
  <2>1. /\ lost' \in {lost, lost \cup {p}}
        /\ play[p].row = "absent" /\ play[p].dir # "none" => p \in lost'
    BY <1>5 DEF Unnamed
  <2> HIDE DEF p
  <2> QED BY <1>1, <1>2, <1>3, <1>5, <2>1, ServeMoves DEF p
<1> QED BY <1>4, <1>5 DEF ServeRemove

LEMMA ServeOpenStep ==
  ASSUME PlayInv, ServeOpen PROVE PlayInv'
<1> DEFINE p == serving.play
<1>1. /\ serving.at = "open" /\ serving' = NotServing
      /\ UNCHANGED <<accountVars, play, cleaner, free, entitled, lost, overtaken, used>>
      /\ served' \in {served, [served EXCEPT ![p] = @ \cup {serving.user}]}
  BY DEF ServeOpen
<1>2. /\ p \in Plays /\ serving.user \in Users
      /\ play[p].user = serving.user /\ play[p].granted
  BY <1>1 DEF PlayInv, ServingOK
<1>3. AccountsOK'
  BY <1>1, UsedSteps DEF PlayInv
<1>4. ServingOK'
  BY <1>1 DEF ServingOK, NotServing
<1> HIDE DEF p
<1>5. served' \in [Plays -> SUBSET Users] /\ ServedToItsViewer'
  BY <1>1, <1>2 DEF PlayInv, RestOK, ServedToItsViewer
<1>6. PlaysOK' /\ OffersOK' /\ DirsNamed' /\ CleanersOK'
  BY <1>1 DEF PlayInv, PlaysOK, OffersOK, DirsNamed, Unnamed, CleanersOK
<1>7. RestOK'
  BY <1>1, <1>5 DEF PlayInv, RestOK
<1> QED BY <1>3, <1>4, <1>5, <1>6, <1>7 DEF PlayInv
-----------------------------------------------------------------------------
(* The rest of Next, and the theorems. *)

LEMMA RestartStep ==
  ASSUME PlayInv, Restart PROVE PlayInv'
<1> DEFINE dropped(x) == [x EXCEPT !.at = IF @ \in InFlight THEN "dropped" ELSE @,
                                   !.ffmpeg = "none", !.result = "none"]
<1>1. /\ play \in [Plays -> PlayRecs] /\ (\A p \in Plays : GoodPlay(play[p]))
      /\ play' = [p \in Plays |-> dropped(play[p])]
      /\ cleaner' = [c \in Cleaners |-> NotCleaning] /\ serving' = NotServing
      /\ lost' = lost \cup {p \in Plays : Unnamed(p)}
      /\ UNCHANGED <<free, entitled, served, overtaken>>
  BY DEF PlayInv, PlaysOK, Restart
<1>2. AccountsOK' /\ UsedGrows
  BY AccountsStop DEF PlayInv, Restart
<1>3. ASSUME NEW p \in Plays
      PROVE  Turn(play[p], dropped(play[p]),
                  IF play[p].at \in InFlight THEN "dropped" ELSE play[p].at,
                  play[p].row, play[p].dir, "none", "none")
  <2> DEFINE x == play[p]
             at == IF x.at \in InFlight THEN "dropped" ELSE x.at
  <2>1. x \in PlayRecs
    BY <1>1
  <2>2. dropped(x) = [x EXCEPT !.at = at, !.ffmpeg = "none", !.result = "none"]
    BY <2>1 DEF PlayRecs
  <2>3. at \in InFlight \cup {"new", "done", "dropped"}
    BY <2>1 DEF PlayRecs
  <2> HIDE DEF x, at
  <2>4. Turn(x, [x EXCEPT !.at = at, !.ffmpeg = "none", !.result = "none"], at, x.row, x.dir,
             "none", "none")
    BY <2>1, <2>3 DEF Turn, PlayRecs
  <2> QED BY <2>2, <2>4 DEF x, at
<1>4. ASSUME NEW p \in Plays
      PROVE  /\ play'[p] = dropped(play[p]) /\ GoodPlay(play'[p]) /\ Moves(play[p], play'[p])
             /\ play'[p].row = play[p].row /\ play'[p].dir = play[p].dir
             /\ Offered(play[p], p \in overtaken) => Offered(play'[p], p \in overtaken')
  <2> DEFINE x == play[p]
             y == play'[p]
  <2>1. y = dropped(x)
    BY <1>1
  <2>2. Turn(x, y, IF x.at \in InFlight THEN "dropped" ELSE x.at, x.row, x.dir, "none", "none")
    BY <1>3, <2>1
  <2>3. x.at = "new" => y = NoPlay
    <3> SUFFICES ASSUME x.at = "new" PROVE dropped(x) = NoPlay
      BY <2>1
    <3>1. x = NoPlay
      BY <1>1 DEF GoodPlay
    <3>2. NoPlay.at = "new" /\ NoPlay.ffmpeg = "none" /\ NoPlay.result = "none" /\ "new" \notin InFlight
      BY DEF NoPlay, InFlight
    <3>3. /\ [NoPlay EXCEPT !.at = NoPlay.at] = NoPlay
          /\ [NoPlay EXCEPT !.ffmpeg = NoPlay.ffmpeg] = NoPlay
          /\ [NoPlay EXCEPT !.result = NoPlay.result] = NoPlay
      BY DEF NoPlay
    <3>4. dropped(NoPlay) = [[[NoPlay EXCEPT !.at = NoPlay.at] EXCEPT !.ffmpeg = NoPlay.ffmpeg]
                                EXCEPT !.result = NoPlay.result]
      BY <3>2
    <3> QED BY <3>1, <3>3, <3>4
  <2>4. GoodPlay(x) /\ UNCHANGED overtaken
    BY <1>1
  <2> HIDE DEF x, y, dropped
  <2>5. GoodPlay(y) /\ Moves(x, y) /\ y.row = x.row /\ y.dir = x.dir
    BY <2>2, <2>3, <2>4 DEF GoodPlay, Turn, Moves, InFlight
  <2>6. Offered(x, p \in overtaken) => Offered(y, p \in overtaken')
    BY <2>2, <2>4 DEF GoodPlay, Turn, Offered, InFlight
  <2> QED BY <2>1, <2>5, <2>6 DEF x, y
<1>5. PlaysOK'
  <2>1. \A p \in Plays : play'[p] \in PlayRecs /\ GoodPlay(play'[p])
    BY <1>4 DEF GoodPlay
  <2> QED BY <1>1, <2>1 DEF PlaysOK
<1> HIDE DEF dropped
<1>6. OffersOK'
  BY <1>2, <1>4 DEF PlayInv, OffersOK, UsedGrows
<1>7. DirsNamed' /\ ServingOK'
  BY <1>1, <1>4 DEF DirsNamed, Unnamed, ServingOK, NotServing
<1>8. CleanersOK'
  <2>1. NotCleaning \in [todo : SUBSET Plays, removed : Plays \cup {None}]
        /\ NotCleaning.todo = {} /\ NotCleaning.removed = None
    BY DEF NotCleaning
  <2>2. cleaner' \in [Cleaners -> [todo : SUBSET Plays, removed : Plays \cup {None}]]
    BY <1>1, <2>1
  <2>3. \A c \in Cleaners : cleaner'[c] = NotCleaning
    BY <1>1
  <2> QED BY <2>1, <2>2, <2>3 DEF CleanersOK
<1>9. RestOK'
  BY <1>1 DEF PlayInv, RestOK
<1>10. ServedToItsViewer'
  <2> SUFFICES ASSUME NEW p \in Plays, NEW u \in served[p]
               PROVE  u = play'[p].user /\ play'[p].granted
    BY <1>1 DEF ServedToItsViewer
  <2>1. u = play[p].user /\ play[p].granted
    BY DEF PlayInv, ServedToItsViewer
  <2>2. play[p].at # "new"
    BY <1>1, <2>1 DEF GoodPlay, NoPlay
  <2> QED BY <1>4, <2>1, <2>2 DEF Moves
<1> QED BY <1>2, <1>5, <1>6, <1>7, <1>8, <1>9, <1>10 DEF PlayInv

\* Access that changes: a purchase, an allowlist entry, the price.
LEMMA AccessSteps ==
  ASSUME PlayInv, (\E u \in Users : Grant(u)) \/ SetPrice PROVE PlayInv'
<1>1. /\ UNCHANGED <<accountVars, play, cleaner, serving, served, lost, overtaken>> /\ Event
      /\ free' \in BOOLEAN /\ entitled' \subseteq Users
  BY DEF Grant, SetPrice, PlayInv, RestOK
<1>2. AccountsOK' /\ UsedGrows
  BY <1>1, UsedSteps DEF PlayInv
<1>3. CleanersOK'
  BY <1>1, CleanersSame DEF PlayInv, ExpiredLast
<1> QED BY <1>1, <1>2, <1>3, NoPlayMoves

LEMMA AccountsOnly ==
  ASSUME PlayInv, AccountsSystem \/ AccountsClients, UNCHANGED playbackVars PROVE PlayInv'
<1>1. AccountsOK' /\ UsedGrows
  BY AccountsStep DEF PlayInv
<1>2. UNCHANGED <<play, cleaner, serving, free, entitled, served, lost, overtaken>>
  BY DEF playbackVars
<1>3. CleanersOK'
  BY <1>2, CleanersSame DEF PlayInv, ExpiredLast
<1> QED BY <1>1, <1>2, <1>3, NoPlayMoves DEF PlayInv, RestOK

LEMMA PlayInvInit ==
  ASSUME Init PROVE PlayInv
<1>1. AccountsOK
  <2>1. /\ account \in [Users -> [password : Passwords \cup {None}, admin : BOOLEAN]]
        /\ login \in [Sids -> [at : {"new", "verified", "live", "expired", "ended"},
                               admin : BOOLEAN]]
        /\ \A u \in Users : ~account[u].admin
    BY AccountsAssumption DEF Init, AccountsInit
  <2>2. \A s \in Sids : /\ login[s].at \in {"verified", "live"} => account[SidOf[s]].password # None
                        /\ ~login[s].admin
    BY AccountsAssumption DEF Init, AccountsInit, Addressed
  <2>3. changer = NoChange /\ setup = NoSetup /\ UsedOK
    BY DEF Init, AccountsInit, UsedOK
  <2>4. setup \in [counted : 0 .. 2, missed : 0 .. 2] /\ setup.counted + setup.missed <= 2
    BY <2>3 DEF NoSetup
  <2>5. \A u \in Users \ Addressed : account[u].password = None
    BY AccountsAssumption DEF Init, AccountsInit
  <2> QED BY <2>1, <2>2, <2>3, <2>4, <2>5
      DEF AccountsOK, AccountsTypeOK, ChangerOK, NoChange, Admins
<1>2. NoPlay \in PlayRecs
  BY DEF NoPlay, PlayRecs, InFlight
<1>3. GoodPlay(NoPlay) /\ \A over : Offered(NoPlay, over)
  BY <1>2 DEF GoodPlay, Offered, NoPlay, InFlight
<1>4. /\ play = [p \in Plays |-> NoPlay] /\ cleaner = [c \in Cleaners |-> NotCleaning]
      /\ serving = NotServing /\ served = [p \in Plays |-> {}]
  BY DEF Init
<1>5. PlaysOK /\ OffersOK
  BY <1>2, <1>3, <1>4 DEF PlaysOK, OffersOK
<1>6. CleanersOK
  <2>1. NotCleaning \in [todo : SUBSET Plays, removed : Plays \cup {None}]
        /\ NotCleaning.todo = {} /\ NotCleaning.removed = None
    BY DEF NotCleaning
  <2> QED BY <1>4, <2>1 DEF CleanersOK
<1>7. ServingOK /\ DirsNamed
  BY <1>4 DEF ServingOK, NotServing, DirsNamed, Unnamed, NoPlay
<1>8. RestOK /\ ServedToItsViewer
  BY <1>4, PlaybackAssumption DEF Init, RestOK, ServedToItsViewer
<1> QED BY <1>1, <1>5, <1>6, <1>7, <1>8 DEF PlayInv

LEMMA PlayInvNext ==
  ASSUME PlayInv, [Next]_vars PROVE PlayInv'
<1>1. CASE UNCHANGED vars
  <2>1. UNCHANGED <<accountVars, play, cleaner, serving, free, entitled, served, lost, overtaken,
                    used>>
    BY <1>1 DEF vars, playbackVars
  <2>2. AccountsOK' /\ UsedGrows
    BY <2>1, UsedSteps DEF PlayInv
  <2>3. CleanersOK'
    BY <2>1, CleanersSame DEF PlayInv, ExpiredLast
  <2> QED BY <2>1, <2>2, <2>3, NoPlayMoves DEF PlayInv, RestOK
<1>2. CASE SystemNext
  <2>1. CASE AccountsSystem /\ UNCHANGED playbackVars
    BY <2>1, AccountsOnly
  <2>2. ASSUME NEW p \in Plays,
               \/ PlayMkdir(p) \/ PlayInsert(p)
               \/ PollSees(p) \/ PollUpdate(p) \/ PollResult(p) \/ PollTimeout(p)
               \/ PlayFail(p) \/ PlayRemove(p)
        PROVE  PlayInv'
    BY <2>2, PlayMkdirStep, PlayInsertStep, PollSeesStep, PollUpdateStep, PollResultStep,
       PollTimeoutStep, PlayFailStep, PlayRemoveStep
  <2>3. ASSUME NEW p \in Plays,
               \/ FfmpegPlaylist(p) \/ FfmpegDone(p) \/ FfmpegFails(p) \/ FfmpegRemoves(p)
               \/ LateStatus(p)
        PROVE  PlayInv'
    BY <2>3, FfmpegPlaylistStep, FfmpegDoneStep, FfmpegFailsStep, FfmpegRemovesStep,
       LateStatusStep
  <2>4. ASSUME TaskSelect \/ \E c \in Cleaners : CleanRemove(c) \/ CleanDelete(c) PROVE PlayInv'
    BY <2>4, TaskSelectStep, CleanRemoveStep, CleanDeleteStep
  <2>5. ASSUME ServeDelete \/ ServeRemove \/ ServeOpen PROVE PlayInv'
    BY <2>5, ServeDeleteStep, ServeRemoveStep, ServeOpenStep
  <2> QED BY <1>2, <2>1, <2>2, <2>3, <2>4, <2>5 DEF SystemNext
<1>3. CASE AccountsClients /\ UNCHANGED playbackVars
  BY <1>3, AccountsOnly
<1>4. ASSUME NEW s \in Sids, NEW p \in Plays, PlayBegin(p, s) \/ ServeLookup(p, s) PROVE PlayInv'
  BY <1>4, PlayBeginStep, ServeLookupStep
<1>5. ASSUME NEW p \in Plays, PlayDrop(p) \/ Expire(p) \/ FfmpegPanics(p) PROVE PlayInv'
  BY <1>5, PlayDropStep, ExpireStep, FfmpegPanicsStep
<1>6. ASSUME (\E u \in Users : Grant(u)) \/ SetPrice PROVE PlayInv'
  BY <1>6, AccessSteps
<1>7. CASE Restart
  BY <1>7, RestartStep
<1> QED BY <1>1, <1>2, <1>3, <1>4, <1>5, <1>6, <1>7 DEF Next

\* The inductive invariant holds in every state: of accounts and password changes, of each
\* request_play with its row, directory and ffmpeg task, of the cleanups and of serve_hls.
THEOREM PlaybackInvariant == Spec => []PlayInv
<1>1. Init => PlayInv
  BY PlayInvInit
<1>2. PlayInv /\ [Next]_vars => PlayInv'
  BY PlayInvNext
<1> QED BY <1>1, <1>2, PTL DEF Spec

\* The variables keep their types; whoever holds an administrator's session is an
\* administrator, and bootstraps that race through setup_admin make administrators of no
\* account but the one it looks up in lower case and the one it inserts as written.
THEOREM PlaybackType == Spec => []TypeOK
<1>1. PlayInv => TypeOK
  BY DEF PlayInv, TypeOK, AccountsOK, PlaysOK, PlayRecs, CleanersOK, ServingOK, RestOK
<1> QED BY <1>1, PlaybackInvariant, PTL

\* serve_hls hands the files of a session to the user who asked for the playback and to
\* nobody else, and only if user_has_view_access had granted it, however logins,
\* logouts, grants, cleanups and restarts interleave.
THEOREM PlaybackServedToItsViewer == Spec => []ServedToItsViewer
<1>1. PlayInv => ServedToItsViewer
  BY DEF PlayInv
<1> QED BY <1>1, PlaybackInvariant, PTL

\* Rows of playback_sessions and directories under the HLS root go together, in whichever
\* order request_play, the ffmpeg task, the cleanups and serve_hls write and remove them:
\* an unnamed directory is accounted for, and a session offered as 'ready' or 'completed'
\* has its playlist, up to the races the property names.
THEOREM PlaybackDirectoriesMatchRows == Spec => []DirectoriesMatchRows
<1>1. PlayInv => DirectoriesMatchRows
  <2> SUFFICES ASSUME PlayInv, NEW p \in Plays
               PROVE  /\ Unnamed(p) => \/ play[p].at \in {"insert", "remove"}
                                       \/ serving.at = "remove" /\ serving.play = p
                                       \/ p \in lost
                      /\ play[p].row \in {"ready", "completed"} /\ play[p].dir # "playlist" =>
                            \/ play[p].expired
                            \/ p \in overtaken
                            \/ /\ play[p].row = "completed" /\ play[p].dir = "empty"
                               /\ play[p].at \in {"poll", "fail", "dropped"}
                            \/ used.failures > 0
    BY DEF DirectoriesMatchRows
  <2>1. used.failures \in Nat
    BY DEF PlayInv, AccountsOK, UsedOK
  <2>2. used.failures > 0 \/ Offered(play[p], p \in overtaken)
    BY <2>1 DEF PlayInv, OffersOK
  <2>3. used.failures > 0 \/ (play[p].row \in {"ready", "completed"} /\ play[p].dir # "playlist" =>
            \/ play[p].expired \/ p \in overtaken
            \/ /\ play[p].row = "completed" /\ play[p].dir = "empty"
               /\ play[p].at \in {"poll", "fail", "dropped"})
    BY <2>2 DEF Offered
  <2> QED BY <2>3 DEF PlayInv, DirsNamed
<1> QED BY <1>1, PlaybackInvariant, PTL
=============================================================================
