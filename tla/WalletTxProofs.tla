--------------------------- MODULE WalletTxProofs ---------------------------
(***************************************************************************)
(* The wallet with row locks implements the atomic wallet, for any number  *)
(* of concurrent requests.  The argument is two-phase locking: a request   *)
(* holds the rows it has read until it commits, so what it read is still   *)
(* there when it writes (RequestOK), because no two requests hold one row  *)
(* (LocksExclusive).                                                       *)
(***************************************************************************)
EXTENDS WalletTx, WalletProofs

-----------------------------------------------------------------------------
(* The inductive invariant. *)

\* What the checks before BEGIN leave in a job that moves money.
MoveJobOK(j) ==
    /\ j \in MoveJobs
    /\ j.op = "withdraw" =>
          j.to = j.from /\ j.debit \in Amounts /\ j.debit >= MinWithdrawal
    /\ j.op = "transfer" =>
          /\ j.from # j.to /\ j.debit \in Amounts
          /\ j.credit = j.debit /\ j.debit >= MinTransfer
    /\ j.op = "pay" =>
          /\ j.video \in Videos /\ j.from = j.buyer /\ j.to = Owner[j.video]
          /\ j.from # j.to /\ j.debit \in Amounts /\ j.credit = CreatorCut(j.debit)
    /\ j.op = "referral" =>
          /\ j.video \in Videos /\ j.to = Owner[j.video] /\ j.debit \in Amounts
          /\ j.ref \in Users
    /\ j.op = "commission" =>
          /\ j.video \in Videos /\ j.from = Owner[j.video]
          /\ j.to \notin {j.buyer, j.from} /\ j.debit > 0 /\ j.credit = j.debit
          /\ \E p \in Amounts, pct \in Percents : j.debit = CommissionOf(p, pct)

\* What a decision knows of its ledger row.  Approve and reject hold the row, so
\* it is still pending; complete does not, and only knows the type.
AdminJobOK(r) ==
    LET j == job[r] IN
    /\ j \in AdminJobs
    /\ j.txn \in 1 .. Len(txns)
    /\ j.user = txns[j.txn].user
    /\ j.op = "complete" => txns[j.txn].type = "withdrawal"
    /\ j.op = "approve" => txns[j.txn].type = "deposit"
    /\ j.op \in {"approve", "reject"} =>
          heldTxn[r] = {j.txn} /\ txns[j.txn].status = "pending"

\* A job in a transaction that locks user rows.
Moving(r) == MoveJobOK(job[r]) /\ job[r].op # "referral" /\ heldTxn[r] = {}

\* A job in a transaction that locks its ledger row first.
Deciding(r) == AdminJobOK(r) /\ job[r].op \in {"approve", "reject"}

\* The balances that were read, and found sufficient, are the current ones.
ReadyToMove(r) ==
    /\ Moving(r)
    /\ held[r] = RowsOf(job[r])
    /\ seen[r].from = balance[job[r].from]
    /\ seen[r].to = balance[job[r].to]
    /\ balance[job[r].from] >= job[r].debit

\* The row of the user who is credited is held; rejecting a deposit credits nobody.
ReadyToDecide(r) ==
    /\ Deciding(r)
    /\ \/ held[r] = {job[r].user}
       \/ /\ held[r] = {} /\ job[r].op = "reject"
          /\ txns[job[r].txn].type # "withdrawal"

\* Where a request is, what it works on and which rows it holds belong together.
RequestOK(r) ==
    /\ pc[r] \in {"new", "done"} => held[r] = {} /\ heldTxn[r] = {}
    /\ pc[r] = "checked" =>
          AdminJobOK(r) /\ job[r].op = "complete" /\ held[r] = {} /\ heldTxn[r] = {}
    /\ pc[r] = "paid" =>
          /\ MoveJobOK(job[r]) /\ job[r].op = "referral"
          /\ held[r] = {} /\ heldTxn[r] = {}
    /\ pc[r] = "locking" =>
          \/ Moving(r) /\ held[r] \subseteq RowsOf(job[r])
          \/ Deciding(r) /\ held[r] = {}
    /\ pc[r] = "locked" => Moving(r) /\ held[r] = RowsOf(job[r])
    /\ pc[r] = "read" => ReadyToMove(r) \/ ReadyToDecide(r)

\* No two requests hold the same user row or the same ledger row.
LocksExclusive ==
    \A r, s \in Requests :
        r # s => held[r] \cap held[s] = {} /\ heldTxn[r] \cap heldTxn[s] = {}

RequestTypes ==
    /\ price \in [Videos -> Prices]
    /\ percent \in [Videos -> Percents]
    /\ enabled \in [payment : BOOLEAN, transfer : BOOLEAN]
    /\ pc \in [Requests -> PCs]
    /\ job \in [Requests -> MoveJobs \cup AdminJobs \cup {NoJob}]
    /\ seen \in [Requests -> [from : Int, to : Int]]
    /\ held \in [Requests -> SUBSET Users]
    /\ heldTxn \in [Requests -> SUBSET (1 .. Len(txns))]

TxInv ==
    /\ WalletInv
    /\ RequestTypes
    /\ LocksExclusive
    /\ \A r \in Requests : RequestOK(r)

\* The invariant holds before the first request.
LEMMA TxInitInv == TxInit => TxInv
<1> SUFFICES ASSUME TxInit PROVE TxInv
  OBVIOUS
<1>1. WalletInv
  BY InitInv DEF TxInit
<1>2. RequestTypes
  BY WalletTxAssumption DEF TxInit, RequestTypes, PCs, NotRead
<1>3. LocksExclusive
  BY DEF TxInit, LocksExclusive
<1>4. \A r \in Requests : RequestOK(r)
  BY DEF TxInit, RequestOK
<1> QED BY <1>1, <1>2, <1>3, <1>4 DEF TxInv
-----------------------------------------------------------------------------
(* What a step of one request leaves alone for the others. *)

\* The tables after a step of r: rows of the ledger keep their user, type and
\* amount, and what another request holds does not change.
TablesFor(s) ==
    /\ Len(txns') \in Nat /\ Len(txns) <= Len(txns')
    /\ \A t \in 1 .. Len(txns) :
          txns'[t].user = txns[t].user /\ txns'[t].type = txns[t].type
    /\ \A t \in heldTxn[s] : txns'[t].status = txns[t].status
    /\ \A u \in held[s] : balance'[u] = balance[u]

\* The part of the state that belongs to s.
SameRequest(s) ==
    /\ pc'[s] = pc[s] /\ job'[s] = job[s] /\ seen'[s] = seen[s]
    /\ held'[s] = held[s] /\ heldTxn'[s] = heldTxn[s]

\* A request that did not move keeps what it relies on.
LEMMA OthersKeep ==
  ASSUME TxInv, NEW s \in Requests, SameRequest(s), TablesFor(s)
  PROVE  RequestOK(s)'
<1>1. RequestOK(s) /\ Len(txns) \in Nat
  BY DEF TxInv, WalletInv, MoneyInv
<1>2. job[s] \in AdminJobs => job[s].txn \in Nat
  BY DEF AdminJobs
<1>3. AdminJobOK(s) => AdminJobOK(s)'
  BY <1>1 DEF AdminJobOK, SameRequest, TablesFor
<1>4. Moving(s) => Moving(s)'
  BY DEF Moving, SameRequest
<1>5. Deciding(s) => Deciding(s)'
  BY <1>3 DEF Deciding, SameRequest
<1>6. Deciding(s) => txns'[job[s].txn].type = txns[job[s].txn].type
  BY DEF Deciding, AdminJobOK, TablesFor
<1>7. CASE pc[s] \in {"new", "done", "checked", "paid"}
  BY <1>1, <1>3, <1>7 DEF RequestOK, SameRequest
<1>8. CASE pc[s] = "locking"
  BY <1>1, <1>4, <1>5, <1>8 DEF RequestOK, SameRequest
<1>9. CASE pc[s] = "locked"
  BY <1>1, <1>4, <1>9 DEF RequestOK, SameRequest
<1>10. CASE pc[s] = "read"
  <2>1. CASE ReadyToDecide(s)
    <3>1. ReadyToDecide(s)'
      BY <1>5, <1>6, <2>1 DEF ReadyToDecide, SameRequest
    <3> QED BY <1>10, <3>1 DEF RequestOK, SameRequest
  <2>2. CASE ReadyToMove(s)
    <3>1. balance'[job[s].from] = balance[job[s].from]
          /\ balance'[job[s].to] = balance[job[s].to]
      BY <2>2 DEF ReadyToMove, TablesFor, RowsOf
    <3>2. ReadyToMove(s)'
      BY <1>4, <2>2, <3>1 DEF ReadyToMove, SameRequest
    <3> QED BY <1>10, <3>2 DEF RequestOK, SameRequest
  <2> QED BY <1>1, <1>10, <2>1, <2>2 DEF RequestOK
<1>11. pc[s] \in PCs
  BY DEF TxInv, RequestTypes
<1> QED BY <1>7, <1>8, <1>9, <1>10, <1>11 DEF PCs

\* Steps that only touch request r and tables nobody else relies on.
LEMMA StepKeeps ==
  ASSUME TxInv, NEW r \in Requests, WalletInv', RequestTypes', RequestOK(r)',
         \A s \in Requests \ {r} :
            /\ SameRequest(s) /\ TablesFor(s)
            /\ held'[r] \cap held[s] = {} /\ heldTxn'[r] \cap heldTxn[s] = {}
  PROVE  TxInv'
<1>1. \A s \in Requests : RequestOK(s)'
  BY OthersKeep
<1>2. LocksExclusive'
  BY DEF TxInv, LocksExclusive, SameRequest
<1> QED BY <1>1, <1>2 DEF TxInv

\* Tables that do not change serve every request.
LEMMA QuietTables ==
  ASSUME TxInv, UNCHANGED walletVars
  PROVE  WalletInv' /\ \A s : TablesFor(s)
<1>1. WalletInv'
  BY NextInv DEF TxInv
<1>2. txns \in Seq(Rows)
  BY DEF TxInv, WalletInv, MoneyInv
<1> QED BY <1>1, <1>2 DEF TablesFor, walletVars

\* A request that ends holds nothing, and the others do not notice.
LEMMA FinishKeeps ==
  ASSUME TxInv, NEW r \in Requests, Finish(r), UNCHANGED settingVars,
         WalletInv', \A s \in Requests \ {r} : TablesFor(s), Len(txns) <= Len(txns')
  PROVE  TxInv'
<1>1. txns \in Seq(Rows) /\ txns' \in Seq(Rows)
  BY DEF TxInv, WalletInv, MoneyInv
<1>2. RequestTypes'
  <2>1. heldTxn' \in [Requests -> SUBSET (1 .. Len(txns'))]
    BY <1>1 DEF TxInv, RequestTypes, Finish
  <2>2. seen' \in [Requests -> [from : Int, to : Int]]
    BY DEF TxInv, RequestTypes, Finish, NotRead
  <2> QED BY <2>1, <2>2 DEF TxInv, RequestTypes, Finish, settingVars, PCs
<1>3. RequestOK(r)'
  BY DEF TxInv, RequestTypes, Finish, RequestOK
<1>4. \A s \in Requests \ {r} :
         /\ SameRequest(s)
         /\ held'[r] \cap held[s] = {} /\ heldTxn'[r] \cap heldTxn[s] = {}
  BY DEF TxInv, RequestTypes, Finish, SameRequest
<1> QED BY <1>2, <1>3, <1>4, StepKeeps

\* A request that ends without having written anything.
LEMMA QuietFinishKeeps ==
  ASSUME TxInv, NEW r \in Requests, Finish(r), UNCHANGED settingVars,
         UNCHANGED walletVars
  PROVE  TxInv'
<1>1. Len(txns) <= Len(txns')
  BY DEF walletVars, TxInv, WalletInv, MoneyInv
<1> QED BY <1>1, QuietTables, FinishKeeps

\* A request that has checked what it was asked and goes on to lock user rows.
LEMMA BeginKeeps ==
  ASSUME TxInv, NEW r \in Requests, pc[r] \in {"new", "paid"},
         NEW j, MoveJobOK(j), j.op # "referral",
         Begin(r, j, "locking"), UNCHANGED settingVars, UNCHANGED walletVars
  PROVE  TxInv'
<1>1. held[r] = {} /\ heldTxn[r] = {}
  BY DEF TxInv, RequestOK
<1>2. /\ pc'[r] = "locking" /\ job'[r] = j /\ held'[r] = {} /\ heldTxn'[r] = {}
      /\ \A s \in Requests \ {r} : SameRequest(s)
  BY <1>1 DEF TxInv, RequestTypes, Begin, SameRequest
<1>3. RequestTypes'
  <2>1. j \in MoveJobs /\ txns' = txns
    BY DEF MoveJobOK, walletVars
  <2> QED BY <2>1 DEF TxInv, RequestTypes, Begin, settingVars, PCs
<1>4. RequestOK(r)'
  BY <1>2 DEF RequestOK, Moving
<1>5. \A s \in Requests \ {r} :
         held'[r] \cap held[s] = {} /\ heldTxn'[r] \cap heldTxn[s] = {}
  BY <1>2
<1> QED BY <1>2, <1>3, <1>4, <1>5, QuietTables, StepKeeps
-----------------------------------------------------------------------------
(* Requests up to their first lock. *)

\* A withdrawal that was accepted and goes on to lock keeps the invariant.
LEMMA WithdrawRequestKeeps ==
  ASSUME TxInv, NEW r \in Requests, NEW u \in Users, NEW amount \in Amounts,
         WithdrawRequest(r, u, amount)
  PROVE  TxInv'
<1> DEFINE j == [op |-> "withdraw", from |-> u, to |-> u, debit |-> amount,
                 credit |-> 0, buyer |-> u, video |-> None, ref |-> None]
<1>1. MoveJobOK(j) /\ j.op # "referral"
  BY WalletAssumption DEF MoveJobOK, MoveJobs, WithdrawRequest
<1>2. /\ pc[r] = "new" /\ Begin(r, j, "locking")
      /\ UNCHANGED walletVars /\ UNCHANGED settingVars
  BY DEF WithdrawRequest
<1> HIDE DEF j
<1> QED BY <1>1, <1>2, BeginKeeps

\* A transfer that was accepted and goes on to lock keeps the invariant.
LEMMA TransferRequestKeeps ==
  ASSUME TxInv, NEW r \in Requests, NEW from \in Users, NEW to \in Users,
         NEW amount \in Amounts, TransferRequest(r, from, to, amount)
  PROVE  TxInv'
<1> DEFINE j == [op |-> "transfer", from |-> from, to |-> to, debit |-> amount,
                 credit |-> amount, buyer |-> from, video |-> None, ref |-> None]
<1>1. MoveJobOK(j) /\ j.op # "referral"
  BY WalletAssumption DEF MoveJobOK, MoveJobs, TransferRequest
<1>2. /\ pc[r] = "new" /\ Begin(r, j, "locking")
      /\ UNCHANGED walletVars /\ UNCHANGED settingVars
  BY DEF TransferRequest
<1> HIDE DEF j
<1> QED BY <1>1, <1>2, BeginKeeps

\* A purchase that passed its unlocked checks keeps the invariant.
LEMMA PayRequestKeeps ==
  ASSUME TxInv, NEW r \in Requests, NEW buyer \in Users, NEW v \in Videos,
         NEW ref \in Users \cup {None}, PayRequest(r, buyer, v, ref)
  PROVE  TxInv'
<1> DEFINE p == price[v]
           c == CreatorCut(p)
           j == [op |-> "pay", from |-> buyer, to |-> Owner[v], debit |-> p,
                 credit |-> c, buyer |-> buyer, video |-> v, ref |-> ref]
<1>1. p \in Amounts /\ p \in Nat /\ Owner[v] \in Users
  <2>1. p \in Amounts \cup {0} /\ p > 0
    BY WalletTxAssumption DEF TxInv, RequestTypes, PayRequest
  <2> HIDE DEF p
  <2> QED BY <2>1, WalletAssumption
<1>2. c \in Nat
  BY <1>1, CutBounds
<1>3. /\ pc[r] = "new" /\ Begin(r, j, "locking") /\ Owner[v] # buyer
      /\ UNCHANGED walletVars /\ UNCHANGED settingVars
  BY DEF PayRequest
<1>4. MoveJobOK(j) /\ j.op # "referral"
  BY <1>1, <1>2, <1>3 DEF MoveJobOK, MoveJobs
<1> HIDE DEF j
<1> QED BY <1>3, <1>4, BeginKeeps

\* The commission that follows a purchase begins, or is not due, and keeps the
\* invariant.
LEMMA ReferralRequestKeeps ==
  ASSUME TxInv, NEW r \in Requests, ReferralRequest(r)
  PROVE  TxInv'
<1> DEFINE j == job[r]
           amount == CommissionOf(j.debit, percent[j.video])
           k == [j EXCEPT !.op = "commission", !.from = j.to, !.to = j.ref,
                          !.debit = amount, !.credit = amount]
<1>1. pc[r] = "paid" /\ UNCHANGED walletVars /\ UNCHANGED settingVars
  BY DEF ReferralRequest
<1>2. MoveJobOK(j) /\ j.op = "referral"
  BY <1>1 DEF TxInv, RequestOK
<1>3. CASE percent[j.video] > 0 /\ j.ref \notin {j.buyer, j.to} /\ amount > 0
  <2>1. Begin(r, k, "locking")
    BY <1>3 DEF ReferralRequest
  <2>2. /\ j \in MoveJobs /\ j.video \in Videos /\ j.to = Owner[j.video]
        /\ j.debit \in Amounts /\ j.ref \in Users
    BY <1>2 DEF MoveJobOK
  <2>3. percent[j.video] \in Percents
    BY <2>2 DEF TxInv, RequestTypes
  <2>4. amount \in Nat
    <3>1. amount \in Int
      BY <2>2, <2>3, CommissionInt
    <3> QED BY <1>3, <3>1
  <2>5. \E p \in Amounts, pct \in Percents : amount = CommissionOf(p, pct)
    BY <2>2, <2>3
  <2> HIDE DEF amount
  <2>6. k \in MoveJobs
    BY <2>2, <2>4 DEF MoveJobs
  <2>7. /\ k.op = "commission" /\ k.video = j.video /\ k.from = j.to /\ k.to = j.ref
        /\ k.debit = amount /\ k.credit = amount /\ k.buyer = j.buyer
    BY <2>2 DEF MoveJobs
  <2> HIDE DEF k
  <2>8. MoveJobOK(k) /\ k.op # "referral"
    BY <1>3, <2>2, <2>5, <2>6, <2>7 DEF MoveJobOK
  <2> QED BY <1>1, <2>1, <2>8, BeginKeeps
<1>4. CASE ~(percent[j.video] > 0 /\ j.ref \notin {j.buyer, j.to} /\ amount > 0)
  <2>1. Finish(r)
    BY <1>4 DEF ReferralRequest
  <2> QED BY <1>1, <2>1, QuietFinishKeeps
<1> QED BY <1>3, <1>4

\* The unlocked read of admin_wallet_complete keeps the invariant.
LEMMA CompleteRequestKeeps ==
  ASSUME TxInv, NEW r \in Requests, NEW t \in DOMAIN txns, CompleteRequest(r, t)
  PROVE  TxInv'
<1> DEFINE j == [op |-> "complete", txn |-> t, user |-> txns[t].user]
<1>1. txns \in Seq(Rows) /\ t \in 1 .. Len(txns) /\ txns[t] \in Rows
  BY DEF TxInv, WalletInv, MoneyInv
<1>2. /\ pc[r] = "new" /\ txns[t].type = "withdrawal" /\ Begin(r, j, "checked")
      /\ UNCHANGED walletVars /\ UNCHANGED settingVars
  BY DEF CompleteRequest
<1>3. j \in AdminJobs
  BY <1>1 DEF AdminJobs, Rows
<1>4. held[r] = {} /\ heldTxn[r] = {} /\ txns' = txns
  BY <1>2 DEF TxInv, RequestOK, walletVars
<1>5. /\ pc'[r] = "checked" /\ job'[r] = j /\ held'[r] = {} /\ heldTxn'[r] = {}
      /\ \A s \in Requests \ {r} : SameRequest(s)
  BY <1>2, <1>4 DEF TxInv, RequestTypes, Begin, SameRequest
<1>6. RequestTypes'
  <2> HIDE DEF j
  <2> QED BY <1>2, <1>3, <1>4 DEF TxInv, RequestTypes, Begin, settingVars, PCs
<1>7. RequestOK(r)'
  <2>1. AdminJobOK(r)'
    BY <1>1, <1>2, <1>3, <1>4, <1>5 DEF AdminJobOK
  <2> QED BY <1>5, <2>1 DEF RequestOK
<1>8. \A s \in Requests \ {r} :
         held'[r] \cap held[s] = {} /\ heldTxn'[r] \cap heldTxn[s] = {}
  BY <1>5
<1> QED BY <1>2, <1>5, <1>6, <1>7, <1>8, QuietTables, StepKeeps

\* Locking the ledger row to approve or reject keeps the invariant.
LEMMA DecideRequestKeeps ==
  ASSUME TxInv, NEW r \in Requests, NEW t \in DOMAIN txns,
         NEW op \in {"approve", "reject"}, DecideRequest(r, t, op)
  PROVE  TxInv'
<1> DEFINE j == [op |-> op, txn |-> t, user |-> txns[t].user]
           direct == op = "reject" /\ txns[t].type # "withdrawal"
<1>1. txns \in Seq(Rows) /\ t \in 1 .. Len(txns) /\ txns[t] \in Rows
  BY DEF TxInv, WalletInv, MoneyInv
<1>2. /\ pc[r] = "new" /\ UnlockedTxn(r, t) /\ txns[t].status = "pending"
      /\ op = "approve" => txns[t].type = "deposit"
      /\ UNCHANGED walletVars /\ UNCHANGED settingVars
  BY DEF DecideRequest
<1>3. j \in AdminJobs
  BY <1>1 DEF AdminJobs, Rows
<1>4. held[r] = {} /\ heldTxn[r] = {} /\ txns' = txns
  BY <1>2 DEF TxInv, RequestOK, walletVars
<1>5. /\ pc'[r] = IF direct THEN "read" ELSE "locking"
      /\ job'[r] = j /\ held'[r] = {} /\ heldTxn'[r] = {t}
      /\ \A s \in Requests \ {r} : SameRequest(s)
  BY <1>4 DEF TxInv, RequestTypes, DecideRequest, SameRequest
<1>6. RequestTypes'
  <2>1. job' \in [Requests -> MoveJobs \cup AdminJobs \cup {NoJob}]
    BY <1>3 DEF TxInv, RequestTypes, DecideRequest
  <2>2. heldTxn' \in [Requests -> SUBSET (1 .. Len(txns'))]
    BY <1>1, <1>4 DEF TxInv, RequestTypes, DecideRequest
  <2>3. pc' \in [Requests -> PCs]
    BY DEF TxInv, RequestTypes, DecideRequest, PCs
  <2> QED BY <2>1, <2>2, <2>3 DEF TxInv, RequestTypes, DecideRequest, settingVars
<1>7. RequestOK(r)'
  <2>1. AdminJobOK(r)'
    BY <1>1, <1>2, <1>3, <1>4, <1>5 DEF AdminJobOK
  <2>2. Deciding(r)'
    BY <1>5, <2>1 DEF Deciding
  <2>3. direct => ReadyToDecide(r)'
    BY <1>4, <1>5, <2>2 DEF ReadyToDecide
  <2> HIDE DEF direct
  <2> QED BY <1>5, <2>2, <2>3 DEF RequestOK
<1>8. \A s \in Requests \ {r} :
         held'[r] \cap held[s] = {} /\ heldTxn'[r] \cap heldTxn[s] = {}
  BY <1>2, <1>5 DEF UnlockedTxn
<1> QED BY <1>2, <1>5, <1>6, <1>7, <1>8, QuietTables, StepKeeps
-----------------------------------------------------------------------------
(* Locks and reads. *)

\* Taking the next row lock of a transaction keeps the invariant.
LEMMA LockNextRowKeeps ==
  ASSUME TxInv, NEW r \in Requests, NEW u \in Users, LockNextRow(r, u)
  PROVE  TxInv'
<1>1. /\ pc[r] = "locking" /\ job[r] \in MoveJobs /\ u \in RowsOf(job[r])
      /\ Unlocked(r, u) /\ UNCHANGED walletVars /\ UNCHANGED settingVars
  BY DEF LockNextRow, IsNextRow
<1>2. Moving(r) /\ held[r] \subseteq RowsOf(job[r])
  <2>1. job[r].op \notin {"approve", "reject"}
    BY <1>1 DEF MoveJobs
  <2> QED BY <1>1, <2>1 DEF TxInv, RequestOK, Deciding
<1>3. /\ held'[r] = held[r] \cup {u} /\ heldTxn'[r] = heldTxn[r] /\ job'[r] = job[r]
      /\ pc'[r] = IF RowsOf(job[r]) \subseteq held[r] \cup {u} THEN "locked" ELSE "locking"
      /\ \A s \in Requests \ {r} : SameRequest(s)
  BY DEF TxInv, RequestTypes, LockNextRow, SameRequest
<1>4. RequestTypes'
  BY <1>1 DEF TxInv, RequestTypes, LockNextRow, settingVars, walletVars, PCs
<1>5. RequestOK(r)'
  <2>1. Moving(r)'
    BY <1>2, <1>3 DEF Moving
  <2> QED BY <1>1, <1>2, <1>3, <2>1 DEF RequestOK
<1>6. \A s \in Requests \ {r} :
         held'[r] \cap held[s] = {} /\ heldTxn'[r] \cap heldTxn[s] = {}
  BY <1>1, <1>3 DEF Unlocked, TxInv, LocksExclusive
<1> QED BY <1>1, <1>3, <1>4, <1>5, <1>6, QuietTables, StepKeeps

\* Taking the lock on the user an administrator's decision concerns keeps it.
LEMMA LockDecidedUserKeeps ==
  ASSUME TxInv, NEW r \in Requests, LockDecidedUser(r)
  PROVE  TxInv'
<1>1. /\ pc[r] = "locking" /\ job[r] \in AdminJobs /\ Unlocked(r, job[r].user)
      /\ UNCHANGED walletVars /\ UNCHANGED settingVars
  BY DEF LockDecidedUser
<1>2. Deciding(r) /\ job[r].user \in Users
  <2>1. job[r].op \in {"approve", "complete", "reject"} /\ job[r].user \in Users
    BY <1>1 DEF AdminJobs
  <2>2. ~Moving(r)
    BY <2>1 DEF Moving, MoveJobOK, MoveJobs
  <2> QED BY <1>1, <2>1, <2>2 DEF TxInv, RequestOK
<1>3. /\ held'[r] = {job[r].user} /\ heldTxn'[r] = heldTxn[r] /\ job'[r] = job[r]
      /\ pc'[r] = "read"
      /\ \A s \in Requests \ {r} : SameRequest(s)
  BY DEF TxInv, RequestTypes, LockDecidedUser, SameRequest
<1>4. RequestTypes'
  BY <1>1, <1>2 DEF TxInv, RequestTypes, LockDecidedUser, settingVars, walletVars, PCs
<1>5. RequestOK(r)'
  <2>1. Deciding(r)'
    BY <1>1, <1>2, <1>3 DEF Deciding, AdminJobOK, walletVars
  <2>2. ReadyToDecide(r)'
    BY <1>3, <2>1 DEF ReadyToDecide
  <2> QED BY <1>3, <2>2 DEF RequestOK
<1>6. \A s \in Requests \ {r} :
         held'[r] \cap held[s] = {} /\ heldTxn'[r] \cap heldTxn[s] = {}
  BY <1>1, <1>3 DEF Unlocked, TxInv, LocksExclusive
<1> QED BY <1>1, <1>3, <1>4, <1>5, <1>6, QuietTables, StepKeeps

\* Reading the balances under the locks, or rolling back, keeps the invariant.
LEMMA ReadBalancesKeeps ==
  ASSUME TxInv, NEW r \in Requests, ReadBalances(r)
  PROVE  TxInv'
<1> DEFINE j == job[r]
<1>1. pc[r] = "locked" /\ UNCHANGED walletVars /\ UNCHANGED settingVars
  BY DEF ReadBalances
<1>2. Moving(r) /\ held[r] = RowsOf(j)
  BY <1>1 DEF TxInv, RequestOK
<1>3. CASE balance[j.from] >= j.debit
  <2> DEFINE sn == [from |-> balance[j.from], to |-> balance[j.to]]
  <2>1. balance[j.from] \in Int /\ balance[j.to] \in Int
    BY <1>2 DEF TxInv, WalletInv, MoneyInv, Moving, MoveJobOK, MoveJobs
  <2>2. /\ seen' = [seen EXCEPT ![r] = sn]
        /\ pc' = [pc EXCEPT ![r] = "read"] /\ UNCHANGED <<job, held, heldTxn>>
    BY <1>3 DEF ReadBalances
  <2>3. /\ pc'[r] = "read" /\ job'[r] = j /\ held'[r] = held[r]
        /\ heldTxn'[r] = heldTxn[r] /\ seen'[r] = sn
        /\ \A s \in Requests \ {r} : SameRequest(s)
    BY <2>2 DEF TxInv, RequestTypes, SameRequest
  <2>4. RequestTypes'
    <3>1. seen' \in [Requests -> [from : Int, to : Int]]
      BY <2>1, <2>2 DEF TxInv, RequestTypes
    <3> QED BY <1>1, <2>2, <3>1 DEF TxInv, RequestTypes, settingVars, walletVars, PCs
  <2>5. ReadyToMove(r)'
    BY <1>1, <1>2, <1>3, <2>3 DEF ReadyToMove, Moving, walletVars
  <2>6. RequestOK(r)'
    BY <2>3, <2>5 DEF RequestOK
  <2>7. \A s \in Requests \ {r} :
           held'[r] \cap held[s] = {} /\ heldTxn'[r] \cap heldTxn[s] = {}
    BY <2>3 DEF TxInv, LocksExclusive
  <2> QED BY <1>1, <2>3, <2>4, <2>6, <2>7, QuietTables, StepKeeps
<1>4. CASE ~(balance[j.from] >= j.debit)
  <2>1. Finish(r)
    BY <1>4 DEF ReadBalances
  <2> QED BY <1>1, <2>1, QuietFinishKeeps
<1> QED BY <1>3, <1>4
-----------------------------------------------------------------------------
(* Commits: each is a step of the atomic wallet. *)

\* What a transaction that is about to commit may rely on.
LEMMA ReadyFacts ==
  ASSUME TxInv, NEW r \in Requests, pc[r] = "read"
  PROVE  /\ job[r].op \in {"withdraw", "transfer", "pay", "commission"} => ReadyToMove(r)
         /\ job[r].op \in {"approve", "reject"} => ReadyToDecide(r)
<1>1. ReadyToMove(r) \/ ReadyToDecide(r)
  BY DEF TxInv, RequestOK
<1>2. ReadyToMove(r) => job[r].op \notin {"approve", "reject"}
  BY DEF ReadyToMove, Moving, MoveJobOK, MoveJobs
<1>3. ReadyToDecide(r) => job[r].op \in {"approve", "reject"}
  BY DEF ReadyToDecide, Deciding
<1> QED BY <1>1, <1>2, <1>3

\* Rows that r inserts, and balances that only r holds, disturb nobody else.
LEMMA InsertTables ==
  ASSUME TxInv, NEW r \in Requests, NEW rows \in Seq(Rows), txns' = txns \o rows,
         \A u \in Users \ held[r] : balance'[u] = balance[u]
  PROVE  Len(txns) <= Len(txns') /\ \A s \in Requests \ {r} : TablesFor(s)
<1>1. txns \in Seq(Rows)
  BY DEF TxInv, WalletInv, MoneyInv
<1>2. /\ Len(txns) \in Nat /\ Len(txns') \in Nat /\ Len(txns) <= Len(txns')
      /\ \A t \in 1 .. Len(txns) : txns'[t] = txns[t]
  BY <1>1
<1>3. ASSUME NEW s \in Requests \ {r} PROVE TablesFor(s)
  <2>1. /\ held[s] \subseteq Users \ held[r]
        /\ heldTxn[s] \subseteq 1 .. Len(txns)
    BY DEF TxInv, LocksExclusive, RequestTypes
  <2> QED BY <1>2, <2>1 DEF TablesFor
<1> QED BY <1>2, <1>3

\* A row that nobody else holds can change its status.
LEMMA UpdateTables ==
  ASSUME TxInv, NEW r \in Requests, NEW t \in 1 .. Len(txns), NEW x,
         txns' = [txns EXCEPT ![t].status = x], UnlockedTxn(r, t),
         \A u \in Users \ held[r] : balance'[u] = balance[u]
  PROVE  Len(txns) <= Len(txns') /\ \A s \in Requests \ {r} : TablesFor(s)
<1>1. txns \in Seq(Rows) /\ txns[t] \in Rows
  BY DEF TxInv, WalletInv, MoneyInv
<1>2. /\ Len(txns) \in Nat /\ Len(txns') = Len(txns)
      /\ \A i \in 1 .. Len(txns) : i # t => txns'[i] = txns[i]
      /\ txns'[t] = [txns[t] EXCEPT !.status = x]
  BY <1>1
<1>3. txns'[t].user = txns[t].user /\ txns'[t].type = txns[t].type
  BY <1>1, <1>2 DEF Rows
<1>4. ASSUME NEW s \in Requests \ {r} PROVE TablesFor(s)
  <2>1. /\ held[s] \subseteq Users \ held[r]
        /\ heldTxn[s] \subseteq 1 .. Len(txns) /\ t \notin heldTxn[s]
    BY DEF TxInv, LocksExclusive, RequestTypes, UnlockedTxn
  <2> QED BY <1>2, <1>3, <2>1 DEF TablesFor
<1> QED BY <1>2, <1>4

\* A deposit is one INSERT: it keeps the invariant and is Wallet's Deposit.
LEMMA DepositRequestKeeps ==
  ASSUME TxInv, NEW r \in Requests, NEW u \in Users, NEW amount \in Amounts,
         DepositRequest(r, u, amount)
  PROVE  Next /\ TxInv'
<1> DEFINE row == NewRow(u, "deposit", amount, "pending")
<1>1. Deposit(u, amount) /\ Finish(r) /\ UNCHANGED settingVars
  BY DEF DepositRequest
<1>2. Next
  BY <1>1 DEF Next
<1>3. WalletInv'
  BY <1>2, NextInv DEF TxInv
<1>4. row \in Rows
  BY WalletAssumption DEF NewRow, Rows, TxnTypes, Statuses
<1>5. txns \in Seq(Rows) /\ txns' = Append(txns, row) /\ balance' = balance
  BY <1>1 DEF TxInv, WalletInv, MoneyInv, Deposit
<1> HIDE DEF row
<1>6. <<row>> \in Seq(Rows) /\ txns' = txns \o <<row>>
  BY <1>4, <1>5
<1>7. Len(txns) <= Len(txns') /\ \A s \in Requests \ {r} : TablesFor(s)
  BY <1>5, <1>6, InsertTables
<1> QED BY <1>1, <1>2, <1>3, <1>7, FinishKeeps

\* The row a withdrawal adds is a ledger row.
LEMMA WithdrawRow ==
  ASSUME NEW u \in Users, NEW amount \in Amounts
  PROVE  NewRow(u, "withdrawal", amount, "pending") \in Rows
<1>1. amount \in Nat \ {0}
  BY WalletAssumption
<1> QED BY <1>1 DEF NewRow, Rows, TxnTypes, Statuses

\* The commit of a withdrawal is Wallet's Withdraw.
LEMMA CommitWithdrawKeeps ==
  ASSUME TxInv, NEW r \in Requests, CommitWithdraw(r)
  PROVE  Next /\ TxInv'
<1> DEFINE u == job[r].from
           amount == job[r].debit
           row == NewRow(u, "withdrawal", amount, "pending")
<1>1. /\ pc[r] = "read" /\ job[r].op = "withdraw"
      /\ Finish(r) /\ UNCHANGED settingVars
  BY DEF CommitWithdraw
<1>2. ReadyToMove(r)
  BY <1>1, ReadyFacts
<1>3. /\ u \in Users /\ amount \in Amounts /\ amount >= MinWithdrawal
      /\ seen[r].from = balance[u] /\ balance[u] >= amount /\ held[r] = {u}
  BY <1>1, <1>2 DEF ReadyToMove, Moving, MoveJobOK, MoveJobs, RowsOf
<1>4. Withdraw(u, amount)
  BY <1>3 DEF CommitWithdraw, Withdraw
<1>5. Next
  BY <1>3, <1>4 DEF Next
<1>6. WalletInv'
  BY <1>5, NextInv DEF TxInv
<1>7. row \in Rows
  BY <1>3, WithdrawRow
<1>8. /\ txns \in Seq(Rows) /\ txns' = Append(txns, row)
      /\ \A w \in Users \ held[r] : balance'[w] = balance[w]
  BY <1>3, <1>4 DEF TxInv, WalletInv, MoneyInv, Withdraw
<1> HIDE DEF row
<1>9. <<row>> \in Seq(Rows) /\ txns' = txns \o <<row>>
  BY <1>7, <1>8
<1>10. Len(txns) <= Len(txns') /\ \A s \in Requests \ {r} : TablesFor(s)
  BY <1>8, <1>9, InsertTables
<1> QED BY <1>1, <1>5, <1>6, <1>10, FinishKeeps

\* Writing back what was read, less the debit and plus the credit, is the move.
LEMMA WriteIsMove ==
  ASSUME TxInv, NEW r \in Requests, ReadyToMove(r), job[r].from # job[r].to,
         job[r].debit \in Nat \ {0}, job[r].credit \in Nat \ {0},
         NEW outType \in {"transfer_out", "payment"},
         WriteBalances(r), AppendMove(job[r], outType)
  PROVE  /\ Move(job[r].from, job[r].to, job[r].debit, job[r].credit, outType)
         /\ Len(txns) <= Len(txns')
         /\ \A s \in Requests \ {r} : TablesFor(s)
<1> DEFINE j == job[r]
           a == NewRow(j.from, outType, j.debit, "completed")
           b == NewRow(j.to, "transfer_in", j.credit, "completed")
<1>1. /\ j.from \in Users /\ j.to \in Users /\ held[r] = {j.from, j.to}
      /\ seen[r].from = balance[j.from] /\ seen[r].to = balance[j.to]
  BY DEF ReadyToMove, Moving, MoveJobOK, MoveJobs, RowsOf
<1>2. balance \in [Users -> Int]
  BY DEF TxInv, WalletInv, MoneyInv
<1>3. Move(j.from, j.to, j.debit, j.credit, outType)
  BY <1>1, <1>2 DEF WriteBalances, AppendMove, Move
<1>4. \A w \in Users \ held[r] : balance'[w] = balance[w]
  BY <1>1, <1>2 DEF WriteBalances
<1>5. a \in Rows /\ b \in Rows
  BY <1>1 DEF NewRow, Rows, TxnTypes, Statuses
<1>6. txns' = txns \o <<a, b>>
  BY DEF AppendMove
<1> HIDE DEF a, b
<1>7. <<a, b>> \in Seq(Rows)
  BY <1>5
<1> QED BY <1>3, <1>4, <1>6, <1>7, InsertTables

\* The commit of a transfer is Wallet's Transfer.
LEMMA CommitTransferKeeps ==
  ASSUME TxInv, NEW r \in Requests, CommitTransfer(r)
  PROVE  Next /\ TxInv'
<1> DEFINE j == job[r]
<1>1. /\ pc[r] = "read" /\ j.op = "transfer" /\ Finish(r) /\ UNCHANGED settingVars
      /\ WriteBalances(r) /\ AppendMove(j, "transfer_out")
      /\ UNCHANGED <<refunded, purchases, allowlist, commissions, blocked>>
  BY DEF CommitTransfer
<1>2. ReadyToMove(r)
  BY <1>1, ReadyFacts
<1>3. /\ j.from \in Users /\ j.to \in Users /\ j.debit \in Amounts /\ j.from # j.to
      /\ j.debit >= MinTransfer /\ j.credit = j.debit /\ balance[j.from] >= j.debit
  BY <1>1, <1>2 DEF ReadyToMove, Moving, MoveJobOK, MoveJobs
<1>4. j.debit \in Nat \ {0} /\ j.credit \in Nat \ {0}
  <2>1. Amounts \subseteq Nat \ {0}
    BY WalletAssumption
  <2> QED BY <1>3, <2>1
<1>5. /\ Move(j.from, j.to, j.debit, j.debit, "transfer_out")
      /\ Len(txns) <= Len(txns') /\ \A s \in Requests \ {r} : TablesFor(s)
  BY <1>1, <1>2, <1>3, <1>4, WriteIsMove
<1>6. Transfer(j.from, j.to, j.debit)
  BY <1>1, <1>3, <1>5 DEF Transfer
<1>7. Next
  BY <1>3, <1>6 DEF Next
<1>8. WalletInv'
  BY <1>7, NextInv DEF TxInv
<1> QED BY <1>1, <1>5, <1>7, <1>8, FinishKeeps

\* The commit of a commission is Wallet's Commission.
LEMMA CommitCommissionKeeps ==
  ASSUME TxInv, NEW r \in Requests, CommitCommission(r)
  PROVE  Next /\ TxInv'
<1> DEFINE j == job[r]
<1>1. /\ pc[r] = "read" /\ j.op = "commission" /\ Finish(r) /\ UNCHANGED settingVars
      /\ WriteBalances(r) /\ AppendMove(j, "transfer_out")
      /\ commissions' = [commissions EXCEPT ![<<j.buyer, j.video>>] = @ + 1]
      /\ UNCHANGED <<refunded, purchases, allowlist, blocked>>
  BY DEF CommitCommission
<1>2. ReadyToMove(r)
  BY <1>1, ReadyFacts
<1>3. /\ j.from \in Users /\ j.to \in Users /\ j.buyer \in Users /\ j.video \in Videos
      /\ j.debit \in Nat /\ j.debit > 0 /\ j.credit = j.debit /\ j.from = Owner[j.video]
      /\ j.to \notin {j.buyer, j.from} /\ balance[j.from] >= j.debit
      /\ \E p \in Amounts, pct \in Percents : j.debit = CommissionOf(p, pct)
  BY <1>1, <1>2 DEF ReadyToMove, Moving, MoveJobOK, MoveJobs
<1>4. j.debit \in Nat \ {0} /\ j.credit \in Nat \ {0} /\ j.from # j.to
  BY <1>3
<1>5. /\ Move(j.from, j.to, j.debit, j.debit, "transfer_out")
      /\ Len(txns) <= Len(txns') /\ \A s \in Requests \ {r} : TablesFor(s)
  BY <1>1, <1>2, <1>3, <1>4, WriteIsMove
<1>6. Commission(j.video, j.buyer, j.to, j.debit)
  BY <1>1, <1>3, <1>5 DEF Commission
<1>7. Next
  BY <1>3, <1>6 DEF Next
<1>8. WalletInv'
  BY <1>7, NextInv DEF TxInv
<1> QED BY <1>1, <1>5, <1>7, <1>8, FinishKeeps

\* The commit of a purchase is Wallet's Pay.
LEMMA CommitPayKeeps ==
  ASSUME TxInv, NEW r \in Requests, CommitPay(r)
  PROVE  Next /\ TxInv'
<1> DEFINE j == job[r]
<1>1. /\ pc[r] = "read" /\ j.op = "pay" /\ ~PayRefused(j)
      /\ WriteBalances(r) /\ AppendMove(j, "payment") /\ RecordPurchase(j)
      /\ UNCHANGED <<refunded, commissions, blocked>> /\ UNCHANGED settingVars
  BY DEF CommitPay
<1>2. ReadyToMove(r)
  BY <1>1, ReadyFacts
<1>3. /\ j.from \in Users /\ j.to \in Users /\ j.video \in Videos /\ j.from = j.buyer
      /\ j.to = Owner[j.video] /\ j.from # j.to /\ j.debit \in Amounts
      /\ j.credit = CreatorCut(j.debit) /\ j.credit \in Nat
      /\ balance[j.from] >= j.debit /\ held[r] = RowsOf(j) /\ heldTxn[r] = {}
      /\ j \in MoveJobs /\ j.ref \in Users \cup {None}
  BY <1>1, <1>2 DEF ReadyToMove, Moving, MoveJobOK, MoveJobs
<1>4. j.debit \in Nat \ {0} /\ j.credit \in Nat \ {0} /\ j.credit > 0
  <2>1. Amounts \subseteq Nat \ {0}
    BY WalletAssumption
  <2>2. ~(j.credit <= 0)
    BY <1>1 DEF PayRefused
  <2>3. j.debit \in Nat \ {0}
    BY <1>3, <2>1
  <2>4. \A c \in Nat : ~(c <= 0) => c \in Nat \ {0} /\ c > 0
    OBVIOUS
  <2> QED BY <1>3, <2>2, <2>3, <2>4
<1>5. /\ Move(j.from, j.to, j.debit, j.credit, "payment")
      /\ Len(txns) <= Len(txns') /\ \A s \in Requests \ {r} : TablesFor(s)
  BY <1>1, <1>2, <1>3, <1>4, WriteIsMove
<1>6. Pay(j.from, j.video, j.debit)
  BY <1>1, <1>3, <1>4, <1>5 DEF Pay, PayRefused, RecordPurchase, AllowBuyer
<1>7. Next
  BY <1>3, <1>6 DEF Next
<1>8. WalletInv'
  BY <1>7, NextInv DEF TxInv
<1>9. CASE j.ref = None
  <2>1. Finish(r)
    BY <1>9 DEF CommitPay
  <2> QED BY <1>1, <1>5, <1>7, <1>8, <2>1, FinishKeeps
<1>10. CASE j.ref # None
  <2> DEFINE k == [j EXCEPT !.op = "referral"]
  <2>1. /\ pc' = [pc EXCEPT ![r] = "paid"] /\ job' = [job EXCEPT ![r] = k]
        /\ seen' = [seen EXCEPT ![r] = NotRead] /\ held' = [held EXCEPT ![r] = {}]
        /\ heldTxn' = heldTxn
    BY <1>10 DEF CommitPay, GoOnToReferral
  <2>2. /\ k \in MoveJobs /\ k.op = "referral" /\ k.video = j.video /\ k.to = j.to
        /\ k.debit = j.debit /\ k.ref = j.ref
    BY <1>3 DEF MoveJobs
  <2> HIDE DEF k
  <2>3. MoveJobOK(k)
    BY <1>3, <1>10, <2>2 DEF MoveJobOK
  <2>4. /\ pc'[r] = "paid" /\ job'[r] = k /\ held'[r] = {} /\ heldTxn'[r] = {}
        /\ \A s \in Requests \ {r} : SameRequest(s)
    BY <1>3, <2>1 DEF TxInv, RequestTypes, SameRequest
  <2>5. RequestTypes'
    <3>1. txns \in Seq(Rows) /\ txns' \in Seq(Rows)
      BY <1>8 DEF TxInv, WalletInv, MoneyInv
    <3>2. heldTxn' \in [Requests -> SUBSET (1 .. Len(txns'))]
      BY <1>5, <2>1, <3>1 DEF TxInv, RequestTypes
    <3>3. seen' \in [Requests -> [from : Int, to : Int]]
      BY <2>1 DEF TxInv, RequestTypes, NotRead
    <3> QED BY <1>1, <2>1, <2>2, <3>2, <3>3 DEF TxInv, RequestTypes, settingVars, PCs
  <2>6. RequestOK(r)'
    BY <2>2, <2>3, <2>4 DEF RequestOK
  <2>7. \A s \in Requests \ {r} :
           held'[r] \cap held[s] = {} /\ heldTxn'[r] \cap heldTxn[s] = {}
    BY <2>4
  <2>8. TxInv'
    BY <1>5, <1>8, <2>4, <2>5, <2>6, <2>7, StepKeeps
  <2> QED BY <1>7, <2>8
<1> QED BY <1>9, <1>10

\* The commit of an approval is Wallet's Approve.
LEMMA CommitApproveKeeps ==
  ASSUME TxInv, NEW r \in Requests, CommitApprove(r)
  PROVE  Next /\ TxInv'
<1> DEFINE t == job[r].txn
<1>1. /\ pc[r] = "read" /\ job[r].op = "approve" /\ Finish(r) /\ UNCHANGED settingVars
      /\ balance' = [balance EXCEPT ![job[r].user] = @ + txns[t].amount]
      /\ txns' = [txns EXCEPT ![t].status = "approved"]
      /\ UNCHANGED <<refunded, purchases, allowlist, commissions, blocked>>
  BY DEF CommitApprove
<1>2. ReadyToDecide(r)
  BY <1>1, ReadyFacts
<1>3. /\ t \in 1 .. Len(txns) /\ job[r].user = txns[t].user /\ heldTxn[r] = {t}
      /\ txns[t].type = "deposit" /\ txns[t].status = "pending"
      /\ held[r] = {job[r].user}
  BY <1>1, <1>2 DEF ReadyToDecide, Deciding, AdminJobOK
<1>4. Approve(t)
  BY <1>1, <1>3 DEF Approve
<1>5. Next
  <2>1. t \in DOMAIN txns
    BY <1>3 DEF TxInv, WalletInv, MoneyInv
  <2> QED BY <1>4, <2>1 DEF Next
<1>6. WalletInv'
  BY <1>5, NextInv DEF TxInv
<1>7. \A w \in Users \ held[r] : balance'[w] = balance[w]
  BY <1>1, <1>3 DEF TxInv, WalletInv, MoneyInv
<1>8. UnlockedTxn(r, t)
  BY <1>3 DEF UnlockedTxn, TxInv, LocksExclusive
<1>9. Len(txns) <= Len(txns') /\ \A s \in Requests \ {r} : TablesFor(s)
  BY <1>1, <1>3, <1>7, <1>8, UpdateTables
<1> QED BY <1>1, <1>5, <1>6, <1>9, FinishKeeps

\* The commit of a rejection is Wallet's Reject.
LEMMA CommitRejectKeeps ==
  ASSUME TxInv, NEW r \in Requests, CommitReject(r)
  PROVE  Next /\ TxInv'
<1> DEFINE t == job[r].txn
<1>1. /\ pc[r] = "read" /\ job[r].op = "reject" /\ Finish(r) /\ UNCHANGED settingVars
      /\ txns' = [txns EXCEPT ![t].status = "rejected"]
      /\ IF txns[t].type = "withdrawal"
         THEN /\ balance' = [balance EXCEPT ![job[r].user] = @ + txns[t].amount]
              /\ refunded' = refunded \cup {t}
         ELSE UNCHANGED <<balance, refunded>>
      /\ UNCHANGED <<purchases, allowlist, commissions, blocked>>
  BY DEF CommitReject
<1>2. ReadyToDecide(r)
  BY <1>1, ReadyFacts
<1>3. /\ t \in 1 .. Len(txns) /\ job[r].user = txns[t].user /\ heldTxn[r] = {t}
      /\ txns[t].status = "pending"
      /\ txns[t].type = "withdrawal" => held[r] = {job[r].user}
  BY <1>1, <1>2 DEF ReadyToDecide, Deciding, AdminJobOK
<1>4. Reject(t)
  BY <1>1, <1>3 DEF Reject
<1>5. Next
  <2>1. t \in DOMAIN txns
    BY <1>3 DEF TxInv, WalletInv, MoneyInv
  <2> QED BY <1>4, <2>1 DEF Next
<1>6. WalletInv'
  BY <1>5, NextInv DEF TxInv
<1>7. \A w \in Users \ held[r] : balance'[w] = balance[w]
  BY <1>1, <1>3 DEF TxInv, WalletInv, MoneyInv
<1>8. UnlockedTxn(r, t)
  BY <1>3 DEF UnlockedTxn, TxInv, LocksExclusive
<1>9. Len(txns) <= Len(txns') /\ \A s \in Requests \ {r} : TablesFor(s)
  BY <1>1, <1>3, <1>7, <1>8, UpdateTables
<1> QED BY <1>1, <1>5, <1>6, <1>9, FinishKeeps

\* The UPDATE of admin_wallet_complete is Wallet's Complete.
LEMMA CompleteUpdateKeeps ==
  ASSUME TxInv, NEW r \in Requests, CompleteUpdate(r)
  PROVE  Next /\ TxInv'
<1> DEFINE t == job[r].txn
<1>1. /\ pc[r] = "checked" /\ Finish(r) /\ UNCHANGED settingVars /\ UnlockedTxn(r, t)
      /\ txns' = [txns EXCEPT ![t].status = "completed"]
      /\ UNCHANGED <<balance, refunded, purchases, allowlist, commissions, blocked>>
  BY DEF CompleteUpdate
<1>2. t \in 1 .. Len(txns) /\ txns[t].type = "withdrawal"
  BY <1>1 DEF TxInv, RequestOK, AdminJobOK
<1>3. Complete(t)
  BY <1>1, <1>2 DEF Complete
<1>4. Next
  <2>1. t \in DOMAIN txns
    BY <1>2 DEF TxInv, WalletInv, MoneyInv
  <2> QED BY <1>3, <2>1 DEF Next
<1>5. WalletInv'
  BY <1>4, NextInv DEF TxInv
<1>6. Len(txns) <= Len(txns') /\ \A s \in Requests \ {r} : TablesFor(s)
  BY <1>1, <1>2, UpdateTables
<1> QED BY <1>1, <1>4, <1>5, <1>6, FinishKeeps
-----------------------------------------------------------------------------
(* The theorem. *)

\* A change of a setting, or of a block list, concerns no request.
LEMMA SettingsKeep ==
  ASSUME TxInv, Settings
  PROVE  [Next]_walletVars /\ TxInv'
<1>1. UNCHANGED reqVars /\ UNCHANGED <<txns, balance>>
  BY DEF Settings, SetPrice, SetPercent, SetEnabled, ChangeBlock, BlockUser, UnblockUser,
         walletVars
<1>2. [Next]_walletVars
  <2>1. ASSUME NEW p \in MayBlock, ChangeBlock(p[1], p[2]) PROVE Next
    BY <2>1 DEF ChangeBlock, Next
  <2> QED BY <2>1 DEF Settings, SetPrice, SetPercent, SetEnabled
<1>3. WalletInv'
  BY <1>2, NextInv DEF TxInv
<1> DEFINE SettingTypes ==
             /\ price' \in [Videos -> Prices] /\ percent' \in [Videos -> Percents]
             /\ enabled' \in [payment : BOOLEAN, transfer : BOOLEAN]
<1>4. SettingTypes
  <2>1. /\ price \in [Videos -> Prices] /\ percent \in [Videos -> Percents]
        /\ enabled \in [payment : BOOLEAN, transfer : BOOLEAN]
    BY DEF TxInv, RequestTypes
  <2>2. ASSUME NEW v \in Videos, NEW p \in Prices, SetPrice(v, p)
        PROVE  SettingTypes
    BY <2>1, <2>2 DEF SetPrice
  <2>3. ASSUME NEW v \in Videos, NEW p \in Percents, SetPercent(v, p)
        PROVE  SettingTypes
    BY <2>1, <2>3 DEF SetPercent
  <2>4. ASSUME NEW x \in Switches, SetEnabled(x)
        PROVE  SettingTypes
    BY <2>1, <2>4, WalletTxAssumption DEF SetEnabled
  <2>5. ASSUME NEW p \in MayBlock, ChangeBlock(p[1], p[2])
        PROVE  SettingTypes
    BY <2>1, <2>5 DEF ChangeBlock, settingVars
  <2> QED BY <2>2, <2>3, <2>4, <2>5 DEF Settings
<1>5. RequestTypes'
  BY <1>1, <1>4 DEF TxInv, RequestTypes, reqVars
<1>6. \A s \in Requests : SameRequest(s) /\ TablesFor(s)
  BY <1>1 DEF TxInv, WalletInv, MoneyInv, SameRequest, TablesFor, reqVars
<1>7. LocksExclusive'
  BY <1>1 DEF TxInv, LocksExclusive, reqVars
<1>8. \A s \in Requests : RequestOK(s)'
  BY <1>6, OthersKeep
<1> QED BY <1>2, <1>3, <1>5, <1>7, <1>8 DEF TxInv

\* Every step of the handlers keeps the invariant and is a step of the atomic
\* wallet or leaves its tables alone.
LEMMA TxStep ==
  ASSUME TxInv, [TxNext]_vars
  PROVE  [Next]_walletVars /\ TxInv'
<1>1. ASSUME NEW r \in Requests, Start(r) PROVE [Next]_walletVars /\ TxInv'
  <2>1. ASSUME NEW u \in Users, NEW amount \in Amounts, DepositRequest(r, u, amount)
        PROVE  [Next]_walletVars /\ TxInv'
    BY <2>1, DepositRequestKeeps
  <2>2. ASSUME NEW u \in Users, NEW amount \in Amounts, WithdrawRequest(r, u, amount)
        PROVE  [Next]_walletVars /\ TxInv'
    BY <2>2, WithdrawRequestKeeps DEF WithdrawRequest
  <2>3. ASSUME NEW from \in Users, NEW to \in Users, NEW amount \in Amounts,
               TransferRequest(r, from, to, amount)
        PROVE  [Next]_walletVars /\ TxInv'
    BY <2>3, TransferRequestKeeps DEF TransferRequest
  <2>4. ASSUME NEW buyer \in Users, NEW v \in Videos, NEW ref \in Users \cup {None},
               PayRequest(r, buyer, v, ref)
        PROVE  [Next]_walletVars /\ TxInv'
    BY <2>4, PayRequestKeeps DEF PayRequest
  <2>5. ASSUME NEW t \in DOMAIN txns, CompleteRequest(r, t)
        PROVE  [Next]_walletVars /\ TxInv'
    BY <2>5, CompleteRequestKeeps DEF CompleteRequest
  <2>6. ASSUME NEW t \in DOMAIN txns, NEW op \in {"approve", "reject"},
               DecideRequest(r, t, op)
        PROVE  [Next]_walletVars /\ TxInv'
    BY <2>6, DecideRequestKeeps DEF DecideRequest
  <2> QED BY <1>1, <2>1, <2>2, <2>3, <2>4, <2>5, <2>6 DEF Start
<1>2. ASSUME NEW r \in Requests, Step(r) PROVE [Next]_walletVars /\ TxInv'
  <2>1. CASE ReferralRequest(r)
    BY <2>1, ReferralRequestKeeps DEF ReferralRequest
  <2>2. ASSUME NEW u \in Users, LockNextRow(r, u) PROVE [Next]_walletVars /\ TxInv'
    BY <2>2, LockNextRowKeeps DEF LockNextRow
  <2>3. CASE LockDecidedUser(r)
    BY <2>3, LockDecidedUserKeeps DEF LockDecidedUser
  <2>4. CASE ReadBalances(r)
    BY <2>4, ReadBalancesKeeps DEF ReadBalances
  <2>5. CASE CommitWithdraw(r)
    BY <2>5, CommitWithdrawKeeps
  <2>6. CASE CommitTransfer(r)
    BY <2>6, CommitTransferKeeps
  <2>7. CASE CommitPay(r)
    BY <2>7, CommitPayKeeps
  <2>8. CASE RollbackPay(r)
    BY <2>8, QuietFinishKeeps DEF RollbackPay
  <2>9. CASE CommitCommission(r)
    BY <2>9, CommitCommissionKeeps
  <2>10. CASE CommitApprove(r)
    BY <2>10, CommitApproveKeeps
  <2>11. CASE CommitReject(r)
    BY <2>11, CommitRejectKeeps
  <2>12. CASE CompleteUpdate(r)
    BY <2>12, CompleteUpdateKeeps
  <2> QED BY <1>2, <2>1, <2>2, <2>3, <2>4, <2>5, <2>6, <2>7, <2>8, <2>9, <2>10, <2>11,
             <2>12 DEF Step
<1>3. ASSUME NEW r \in Requests, Abort(r) \/ DeadlockVictim(r)
      PROVE  [Next]_walletVars /\ TxInv'
  BY <1>3, QuietFinishKeeps DEF Abort, DeadlockVictim
<1>4. CASE Settings
  BY <1>4, SettingsKeep
<1>5. CASE UNCHANGED vars
  <2>1. UNCHANGED walletVars /\ UNCHANGED reqVars /\ UNCHANGED settingVars
    BY <1>5 DEF vars, walletVars, reqVars, settingVars
  <2>2. WalletInv' /\ \A s \in Requests : SameRequest(s) /\ TablesFor(s)
    BY <2>1, QuietTables DEF SameRequest, reqVars
  <2>3. \A s \in Requests : RequestOK(s)'
    BY <2>2, OthersKeep
  <2>4. RequestTypes' /\ LocksExclusive'
    BY <2>1 DEF TxInv, RequestTypes, LocksExclusive, reqVars, settingVars, walletVars
  <2> QED BY <2>1, <2>2, <2>3, <2>4 DEF TxInv
<1> QED BY <1>1, <1>2, <1>3, <1>4, <1>5 DEF TxNext

\* The lock discipline and the money invariant hold in every state the handlers
\* reach, for any number of requests.
THEOREM TxInvariant == TxSpec => []TxInv
<1>1. TxInv /\ [TxNext]_vars => TxInv'
  BY TxStep
<1> QED BY <1>1, TxInitInv, PTL DEF TxSpec

\* The handlers with their row locks implement the atomic wallet.
THEOREM TxImplementsWallet == TxSpec => Spec
<1>1. TxInit => Init
  BY DEF TxInit
<1>2. TxInv /\ [TxNext]_vars => [Next]_walletVars
  BY TxStep
<1> QED BY <1>1, <1>2, TxInvariant, PTL DEF TxSpec, Spec

\* The same, in the form the model checker evaluates.
THEOREM TxImplementsWalletProperty == TxSpec => ImplementsWallet
<1>1. TxInit => Init
  BY DEF TxInit
<1>2. TxInv /\ [TxNext]_vars => [walletVars' # walletVars => Next]_walletVars
  BY TxStep
<1> QED BY <1>1, <1>2, TxInvariant, PTL DEF TxSpec, ImplementsWallet

\* No update is lost: a transaction writes back values computed from balances
\* that are still the committed ones.
THEOREM TxReadsStayCurrent == TxSpec => []ReadsStayCurrent
<1>1. TxInv => ReadsStayCurrent
  <2> SUFFICES ASSUME TxInv, NEW r \in Requests, pc[r] = "read", job[r] \in MoveJobs
               PROVE  /\ seen[r].from = balance[job[r].from]
                      /\ seen[r].to = balance[job[r].to]
    BY DEF ReadsStayCurrent
  <2>1. ReadyToMove(r) \/ ReadyToDecide(r)
    BY DEF TxInv, RequestOK
  <2>2. job[r].op \notin {"approve", "reject"}
    BY DEF MoveJobs
  <2> QED BY <2>1, <2>2 DEF ReadyToMove, ReadyToDecide, Deciding
<1> QED BY <1>1, TxInvariant, PTL

\* Every variable keeps its type and no finished request holds a row.
THEOREM TxType == TxSpec => []TxTypeOK
<1>1. TxInv => TxTypeOK
  <2> SUFFICES ASSUME TxInv PROVE TxTypeOK
    OBVIOUS
  <2>1. TypeOK
    BY WalletInvImplies DEF TxInv
  <2>2. DOMAIN txns = 1 .. Len(txns)
    BY DEF TxInv, WalletInv, MoneyInv
  <2>3. \A r \in Requests : pc[r] \in {"new", "checked", "paid", "done"} =>
                            held[r] = {} /\ heldTxn[r] = {}
    BY DEF TxInv, RequestOK
  <2> QED BY <2>1, <2>2, <2>3 DEF TxInv, RequestTypes, TxTypeOK
<1> QED BY <1>1, TxInvariant, PTL


\* Whatever runs at the same time, no balance is ever negative.
THEOREM TxNonNegative == TxSpec => []NonNegative
<1>1. TxInv => NonNegative
  BY WalletInvImplies DEF TxInv
<1> QED BY <1>1, TxInvariant, PTL

\* Whatever runs at the same time, the ledger explains every balance.
THEOREM TxLedger == TxSpec => []LedgerExplainsBalance
<1>1. TxInv => LedgerExplainsBalance
  BY WalletInvImplies DEF TxInv
<1> QED BY <1>1, TxInvariant, PTL

\* Whatever runs at the same time, transfers, sales and commissions create no money.
THEOREM TxNoMoney == TxSpec => []TransfersCreateNoMoney
<1>1. TxInv => TransfersCreateNoMoney
  BY WalletInvImplies DEF TxInv
<1> QED BY <1>1, TxInvariant, PTL

\* However purchases overlap, a buyer has as many payment rows as purchases.
THEOREM TxPaymentsMatch == TxSpec => []PaymentsMatchPurchases
BY TxImplementsWallet, WalletPaymentsMatch, PTL
-----------------------------------------------------------------------------
(* Locking rows in id order. *)

\* The rows a transaction has come before the rows it still wants.
LockOrder ==
    \A r \in Requests : pc[r] = "locking" =>
        \A u \in held[r], w \in RowsOf(job[r]) \ held[r] : u <= w

\* A request that takes a step starts over, has all its rows, or takes the next one.
LEMMA LockOrderOne ==
  ASSUME TxInv, TxInv', LockOrder, NEW r \in Requests,
         \A s \in Requests \ {r} : pc'[s] = pc[s] /\ job'[s] = job[s] /\ held'[s] = held[s],
         \/ held'[r] = {} \/ pc'[r] # "locking"
         \/ \E u \in Users : LockNextRow(r, u)
  PROVE  LockOrder'
<1> SUFFICES ASSUME NEW s \in Requests, pc'[s] = "locking", NEW u \in held'[s],
                    NEW w, (w \in RowsOf(job[s]) \ held[s])'
             PROVE  u <= w
  BY DEF LockOrder
<1>1. CASE s # r
  <2>1. pc[s] = "locking" /\ u \in held[s] /\ w \in RowsOf(job[s]) \ held[s]
    BY <1>1 DEF RowsOf
  <2> QED BY <2>1 DEF LockOrder
<1>2. CASE s = r
  <2>1. PICK n \in Users : LockNextRow(r, n)
    BY <1>2
  <2>2. /\ pc[r] = "locking" /\ held'[r] = held[r] \cup {n} /\ job'[r] = job[r]
        /\ n \in RowsOf(job[r]) \ held[r]
        /\ \A v \in RowsOf(job[r]) \ held[r] : n <= v
    BY <2>1 DEF LockNextRow, IsNextRow, TxInv, RequestTypes
  <2>3. w \in RowsOf(job[r]) \ held[r] /\ w # n
    BY <1>2, <2>2 DEF RowsOf
  <2>4. CASE u = n
    BY <2>2, <2>3, <2>4
  <2>5. CASE u \in held[r]
    BY <2>2, <2>3, <2>5 DEF LockOrder
  <2> QED BY <1>2, <2>2, <2>4, <2>5
<1> QED BY <1>1, <1>2

\* A request that begins holds no user row, and one that ends gives its rows back.
LEMMA BeginOrEnd ==
  ASSUME TxInv, TxInv', NEW r \in Requests, Start(r) \/ Step(r) \/ Abort(r) \/ DeadlockVictim(r)
  PROVE  /\ \A s \in Requests \ {r} :
                pc'[s] = pc[s] /\ job'[s] = job[s] /\ held'[s] = held[s]
         /\ \/ held'[r] = {} \/ pc'[r] # "locking"
            \/ \E u \in Users : LockNextRow(r, u)
<1> USE DEF TxInv, RequestTypes
<1>1. CASE Finish(r)
  BY <1>1 DEF Finish
<1>2. ASSUME NEW j, NEW where, pc[r] \in {"new", "paid"}, Begin(r, j, where)
      PROVE  /\ \A s \in Requests \ {r} :
                    pc'[s] = pc[s] /\ job'[s] = job[s] /\ held'[s] = held[s]
             /\ held'[r] = {}
  BY <1>2 DEF Begin, RequestOK
<1>3. CASE Start(r)
  <2>1. ASSUME NEW t, NEW op, DecideRequest(r, t, op)
        PROVE  /\ \A s \in Requests \ {r} :
                      pc'[s] = pc[s] /\ job'[s] = job[s] /\ held'[s] = held[s]
               /\ held'[r] = {}
    BY <2>1 DEF DecideRequest, RequestOK
  <2>2. ASSUME NEW u, NEW amount, DepositRequest(r, u, amount) PROVE Finish(r)
    BY <2>2 DEF DepositRequest
  <2>3. ASSUME \/ \E u, amount : WithdrawRequest(r, u, amount)
               \/ \E from, to, amount : TransferRequest(r, from, to, amount)
               \/ \E buyer, v, ref : PayRequest(r, buyer, v, ref)
               \/ \E t : CompleteRequest(r, t)
        PROVE  pc[r] = "new" /\ \E j, where : Begin(r, j, where)
    BY <2>3 DEF WithdrawRequest, TransferRequest, PayRequest, CompleteRequest
  <2>4. CASE pc[r] = "new" /\ \E j, where : Begin(r, j, where)
    BY <1>2, <2>4
  <2> QED BY <1>1, <1>3, <2>1, <2>2, <2>3, <2>4 DEF Start
<1>4. CASE Step(r)
  <2>1. CASE \E u \in Users : LockNextRow(r, u)
    BY <2>1 DEF LockNextRow
  <2>2. CASE LockDecidedUser(r)
    BY <2>2 DEF LockDecidedUser
  <2>3. CASE ReadBalances(r)
    BY <1>1, <2>3 DEF ReadBalances
  <2>4. CASE GoOnToReferral(r)
    BY <2>4 DEF GoOnToReferral
  <2>5. CASE ReferralRequest(r)
    BY <1>1, <1>2, <2>5 DEF ReferralRequest
  <2> QED BY <1>1, <1>4, <2>1, <2>2, <2>3, <2>4, <2>5 DEF Step, CommitWithdraw,
             CommitTransfer, CommitPay, RollbackPay, CommitCommission, CommitApprove,
             CommitReject, CompleteUpdate
<1> QED BY <1>1, <1>3, <1>4 DEF Abort, DeadlockVictim

LEMMA LockOrderStep ==
  ASSUME TxInv, TxInv', LockOrder, [TxNext]_vars
  PROVE  LockOrder'
<1>1. CASE UNCHANGED <<pc, job, held>>
  BY <1>1 DEF LockOrder, RowsOf
<1>2. ASSUME NEW r \in Requests, Start(r) \/ Step(r) \/ Abort(r) \/ DeadlockVictim(r)
      PROVE  LockOrder'
  BY <1>2, BeginOrEnd, LockOrderOne
<1>3. Settings => UNCHANGED <<pc, job, held>>
  BY DEF Settings, SetPrice, SetPercent, SetEnabled, ChangeBlock, reqVars
<1> QED BY <1>1, <1>2, <1>3 DEF TxNext, vars

\* A nonempty finite set of ids has a last one.
LEMMA LastId ==
  ASSUME NEW H \in SUBSET Nat, IsFiniteSet(H), H # {}
  PROVE  \E m \in H : \A u \in H : u <= m
<1> DEFINE HasLast(K) == \E m \in K : \A u \in K : u <= m
           T == {n \in Nat : \E K \in SUBSET H :
                    K # {} /\ Cardinality(K) = n /\ ~HasLast(K)}
<1>1. \A K \in SUBSET H : IsFiniteSet(K) /\ Cardinality(K) \in Nat
  BY FS_Subset, FS_CardinalityType
<1>2. ASSUME T # {} PROVE FALSE
  <2>1. PICK n \in T : \A k \in T : n <= k
    <3> HIDE DEF T
    <3>1. T \subseteq Nat
      BY DEF T
    <3> QED BY <1>2, <3>1, LeastNat
  <2>2. PICK K \in SUBSET H : K # {} /\ Cardinality(K) = n /\ ~HasLast(K)
    BY <2>1
  <2>3. PICK x \in K : TRUE
    BY <2>2
  <2> DEFINE L == K \ {x}
  <2>4. Cardinality(L) = n - 1 /\ n \in Nat /\ Cardinality(L) \in Nat
    BY <1>1, <2>2, <2>3, FS_RemoveElement
  <2>5. L # {}
    <3>1. L = {} => \A u \in K : u <= x
      BY <2>3
    <3> QED BY <2>2, <2>3, <3>1
  <2>6. HasLast(L)
    <3>1. n - 1 \notin T
      BY <2>1, <2>4
    <3> QED BY <2>4, <2>5, <3>1
  <2>7. PICK m \in L : \A u \in L : u <= m
    BY <2>6
  <2>8. HasLast(K)
    <3>1. x \in Nat /\ m \in Nat
      OBVIOUS
    <3>2. CASE m <= x
      <4>1. \A u \in K : u <= x
        BY <2>7, <3>1, <3>2
      <4> QED BY <4>1
    <3>3. CASE x <= m
      <4>1. \A u \in K : u <= m
        BY <2>7, <3>1, <3>3
      <4> QED BY <4>1
    <3> QED BY <3>1, <3>2, <3>3
  <2> QED BY <2>2, <2>8
<1>3. HasLast(H)
  <2>1. Cardinality(H) \in T \/ HasLast(H)
    BY <1>1
  <2> QED BY <1>2, <2>1
<1> QED BY <1>3

\* Among requests that wait for each other and of which none is a commission that
\* waits for its buyer, whoever holds a user row waits for a later one.
LEMMA HolderWaitsHigher ==
  ASSUME TxInv, LockOrder, NEW S \in SUBSET Requests, Deadlocked(S),
         ~ \E r \in S : pc[r] = "read" /\ job[r].op = "commission",
         NEW s \in S, NEW u \in held[s]
  PROVE  \E w \in Users, q \in S : w \in held[q] /\ u < w
<1> USE DEF TxInv
<1>1. PICK q \in S : q \in WaitsFor(s)
  BY DEF Deadlocked
<1>2. RequestOK(s) /\ held[s] \subseteq Users /\ held[q] \subseteq Users
  BY DEF RequestTypes
<1>3. pc[s] # "checked"
  BY <1>2 DEF RequestOK
<1>4. ~(pc[s] = "locking" /\ job[s] \in AdminJobs)
  BY <1>2 DEF RequestOK, Moving, MoveJobOK, MoveJobs, AdminJobs
<1>5. pc[s] = "locking" /\ \E w \in held[q] : IsNextRow(s, w)
  BY <1>1, <1>3, <1>4 DEF WaitsFor
<1>6. PICK w \in held[q] : IsNextRow(s, w)
  BY <1>5
<1>7. w \in RowsOf(job[s]) \ held[s]
  BY <1>6 DEF IsNextRow
<1>8. u <= w /\ u # w
  BY <1>5, <1>7 DEF LockOrder
<1>9. u \in Nat /\ w \in Nat /\ w \in Users
  <2>1. Users \subseteq Nat
    BY WalletAssumption
  <2>2. u \in Users /\ w \in Users
    BY <1>2, <1>6
  <2> QED BY <2>1, <2>2
<1> QED BY <1>6, <1>8, <1>9

\* And somebody among them holds a user row.
LEMMA SomebodyHolds ==
  ASSUME TxInv, NEW S \in SUBSET Requests, S # {}, Deadlocked(S),
         ~ \E r \in S : pc[r] = "read" /\ job[r].op = "commission"
  PROVE  \E s \in S : held[s] # {}
<1> USE DEF TxInv
<1>1. ASSUME NEW r \in S, pc[r] # "checked"
      PROVE  \E s \in S : held[s] # {}
  <2>1. PICK q \in S : q \in WaitsFor(r)
    BY DEF Deadlocked
  <2> QED BY <1>1, <2>1 DEF WaitsFor
<1>2. ASSUME NEW r \in S, pc[r] = "checked"
      PROVE  \E s \in S : pc[s] # "checked"
  <2>1. PICK q \in S : q \in WaitsFor(r)
    BY DEF Deadlocked
  <2>2. heldTxn[q] # {}
    BY <1>2, <2>1 DEF WaitsFor
  <2>3. RequestOK(q)
    OBVIOUS
  <2> QED BY <2>2, <2>3 DEF RequestOK
<1> QED BY <1>1, <1>2

\* Withdrawals, transfers, purchases and the administrator's decisions never wait for
\* each other in a circle, however many of them run: a row held among them has a later
\* one, and the table ends.
THEOREM TxOnlyCommissionsDeadlock == TxSpec => []OnlyCommissionsDeadlock
<1>1. TxInit => LockOrder
  BY DEF TxInit, LockOrder
<1>2. TxInv /\ TxInv' /\ LockOrder /\ [TxNext]_vars => LockOrder'
  BY LockOrderStep
<1>3. TxInv /\ LockOrder => OnlyCommissionsDeadlock
  <2> SUFFICES ASSUME TxInv, LockOrder, NEW S \in SUBSET Requests, S # {}, Deadlocked(S),
                      ~ \E r \in S : pc[r] = "read" /\ job[r].op = "commission"
               PROVE  FALSE
    BY DEF OnlyCommissionsDeadlock
  <2> DEFINE H == {u \in Users : \E s \in S : u \in held[s]}
  <2>1. H # {}
    BY SomebodyHolds DEF TxInv, RequestTypes
  <2>2. H \subseteq Nat /\ IsFiniteSet(H)
    BY WalletAssumption, WalletTxAssumption, FS_Subset
  <2>3. PICK m \in H : \A u \in H : u <= m
    <3> HIDE DEF H
    <3> QED BY <2>1, <2>2, LastId
  <2>4. PICK s \in S : m \in held[s]
    BY <2>3
  <2>5. PICK w \in Users, q \in S : w \in held[q] /\ m < w
    BY <2>4, HolderWaitsHigher
  <2>6. w <= m /\ m \in Nat /\ w \in Nat
    BY <2>2, <2>3, <2>5, WalletAssumption
  <2> QED BY <2>5, <2>6
<1> QED BY <1>1, <1>2, <1>3, TxInvariant, PTL DEF TxSpec
-----------------------------------------------------------------------------
(* Every commission has its purchase. *)

\* The requests that have sold this video to this buyer and still owe the commission.
Owing(b, v) ==
    {r \in Requests : /\ job[r].op \in {"referral", "commission"}
                      /\ job[r].buyer = b /\ job[r].video = v}

Backed(b, v) ==
    /\ IsFiniteSet(Owing(b, v))
    /\ commissions[<<b, v>>] + Cardinality(Owing(b, v)) <= purchases[<<b, v>>]

AllBacked == \A b \in Users, v \in Videos : Backed(b, v)

\* The group shrinks; or one joins it with a purchase; or one leaves with a commission.
LEMMA BackedStep ==
  ASSUME TxInv, TxInv', NEW b \in Users, NEW v \in Videos, Backed(b, v), NEW r,
         \/ /\ Owing(b, v)' \subseteq Owing(b, v)
            /\ commissions'[<<b, v>>] = commissions[<<b, v>>]
            /\ purchases'[<<b, v>>] >= purchases[<<b, v>>]
         \/ /\ Owing(b, v)' \subseteq Owing(b, v) \cup {r}
            /\ commissions'[<<b, v>>] = commissions[<<b, v>>]
            /\ purchases'[<<b, v>>] = purchases[<<b, v>>] + 1
         \/ /\ r \in Owing(b, v) /\ Owing(b, v)' \subseteq Owing(b, v) \ {r}
            /\ commissions'[<<b, v>>] = commissions[<<b, v>>] + 1
            /\ purchases'[<<b, v>>] = purchases[<<b, v>>]
  PROVE  Backed(b, v)'
<1> DEFINE P == Owing(b, v)
           Q == Owing(b, v)'
           p == <<b, v>>
<1>1. /\ commissions[p] \in Nat /\ purchases[p] \in Nat
      /\ commissions'[p] \in Nat /\ purchases'[p] \in Nat
  <2>1. /\ commissions \in [Users \X Videos -> Nat] /\ purchases \in [Users \X Videos -> Nat]
        /\ commissions' \in [Users \X Videos -> Nat] /\ purchases' \in [Users \X Videos -> Nat]
    BY DEF TxInv, WalletInv, MoneyInv, AccessInv
  <2>2. p \in Users \X Videos
    OBVIOUS
  <2> HIDE DEF p
  <2> QED BY <2>1, <2>2
<1>2. IsFiniteSet(P) /\ Cardinality(P) \in Nat /\ commissions[p] + Cardinality(P) <= purchases[p]
  BY FS_CardinalityType DEF Backed
<1>3. /\ IsFiniteSet(P \cup {r}) /\ Cardinality(P \cup {r}) \in Nat
      /\ Cardinality(P \cup {r}) <= Cardinality(P) + 1
  <2> HIDE DEF P
  <2>1. /\ IsFiniteSet(P \cup {r})
        /\ \/ Cardinality(P \cup {r}) = Cardinality(P)
           \/ Cardinality(P \cup {r}) = Cardinality(P) + 1
    BY <1>2, FS_AddElement
  <2> QED BY <1>2, <2>1
<1>4. /\ IsFiniteSet(P \ {r}) /\ Cardinality(P \ {r}) \in Nat
      /\ r \in P => Cardinality(P \ {r}) = Cardinality(P) - 1
  BY <1>2, FS_RemoveElement, FS_CardinalityType
<1>5. IsFiniteSet(Q) /\ Cardinality(Q) \in Nat
  <2>1. Q \in SUBSET (P \cup {r})
    OBVIOUS
  <2> HIDE DEF P, Q
  <2> QED BY <1>3, <2>1, FS_Subset, FS_CardinalityType
<1>6. commissions'[p] + Cardinality(Q) <= purchases'[p]
  <2>1. CASE Q \subseteq P /\ commissions'[p] = commissions[p] /\ purchases'[p] >= purchases[p]
    <3>1. Cardinality(Q) <= Cardinality(P)
      <4> HIDE DEF P, Q
      <4> QED BY <1>2, <2>1, FS_Subset
    <3> HIDE DEF P, Q, p
    <3> QED BY <1>1, <1>2, <1>5, <2>1, <3>1
  <2>2. CASE /\ Q \subseteq P \cup {r} /\ commissions'[p] = commissions[p]
             /\ purchases'[p] = purchases[p] + 1
    <3>1. Cardinality(Q) <= Cardinality(P \cup {r})
      <4> HIDE DEF P, Q
      <4> QED BY <1>3, <2>2, FS_Subset
    <3> HIDE DEF P, Q, p
    <3> QED BY <1>1, <1>2, <1>3, <1>5, <2>2, <3>1
  <2>3. CASE /\ r \in P /\ Q \subseteq P \ {r} /\ commissions'[p] = commissions[p] + 1
             /\ purchases'[p] = purchases[p]
    <3>1. Cardinality(Q) <= Cardinality(P \ {r})
      <4> HIDE DEF P, Q
      <4> QED BY <1>4, <2>3, FS_Subset
    <3> HIDE DEF P, Q, p
    <3> QED BY <1>1, <1>2, <1>4, <1>5, <2>3, <3>1
  <2> QED BY <2>1, <2>2, <2>3
<1> QED BY <1>5, <1>6 DEF Backed

\* A request that goes on without selling or paying a commission.
LEMMA QuietBacked ==
  ASSUME TxInv, TxInv', AllBacked, UNCHANGED <<purchases, commissions>>,
         \A r \in Requests :
             \/ job'[r] = job[r]
             \/ job'[r].op \notin {"referral", "commission"}
             \/ /\ job[r].op \in {"referral", "commission"}
                /\ job'[r].buyer = job[r].buyer /\ job'[r].video = job[r].video
  PROVE  AllBacked'
<1> SUFFICES ASSUME NEW b \in Users, NEW v \in Videos PROVE Backed(b, v)'
  BY DEF AllBacked
<1>1. Owing(b, v)' \subseteq Owing(b, v)
  BY DEF Owing
<1>2. purchases[<<b, v>>] \in Nat
  BY WalletInvImplies DEF TxInv, TypeOK
<1> QED BY <1>1, <1>2, BackedStep DEF AllBacked

LEMMA FinishJobs ==
  ASSUME TxInv, NEW r \in Requests, Finish(r)
  PROVE  job'[r].op = "none" /\ \A s \in Requests : s # r => job'[s] = job[s]
BY DEF TxInv, RequestTypes, Finish, NoJob

LEMMA CommitPayBacked ==
  ASSUME TxInv, TxInv', AllBacked, NEW r \in Requests, CommitPay(r)
  PROVE  AllBacked'
<1> DEFINE b == job[r].buyer
           v == job[r].video
<1>1. job[r].op = "pay" /\ pc[r] = "read"
  BY DEF CommitPay
<1>2. job[r] \in MoveJobs /\ b \in Users /\ v \in Videos
  BY <1>1 DEF TxInv, RequestOK, ReadyToMove, ReadyToDecide, Deciding, Moving, MoveJobOK,
     MoveJobs
<1>3. /\ \A s \in Requests : s # r => job'[s] = job[s]
      /\ \/ job'[r].op = "none"
         \/ job'[r].op = "referral" /\ job'[r].buyer = b /\ job'[r].video = v
  <2>1. CASE Finish(r)
    BY <2>1, FinishJobs
  <2>2. CASE GoOnToReferral(r)
    <3>1. job' = [job EXCEPT ![r] = [job[r] EXCEPT !.op = "referral"]]
      BY <2>2 DEF GoOnToReferral, TxInv, RequestTypes
    <3>2. job'[r] = [job[r] EXCEPT !.op = "referral"]
      BY <3>1 DEF TxInv, RequestTypes
    <3>3. job'[r].op = "referral" /\ job'[r].buyer = b /\ job'[r].video = v
      BY <1>2, <3>2 DEF MoveJobs
    <3> QED BY <3>1, <3>3 DEF TxInv, RequestTypes
  <2> QED BY <2>1, <2>2 DEF CommitPay
<1>4. UNCHANGED commissions /\ purchases \in [Users \X Videos -> Nat]
      /\ purchases' = [purchases EXCEPT ![<<b, v>>] = @ + 1]
  BY WalletInvImplies DEF CommitPay, RecordPurchase, TxInv, TypeOK
<1> SUFFICES ASSUME NEW c \in Users, NEW w \in Videos PROVE Backed(c, w)'
  BY DEF AllBacked
<1>5. Backed(c, w) /\ purchases[<<c, w>>] \in Nat
  BY <1>4 DEF AllBacked
<1>6. CASE c = b /\ w = v
  <2>1. purchases'[<<c, w>>] = purchases[<<c, w>>] + 1
    BY <1>2, <1>4, <1>6
  <2>2. Owing(c, w)' \subseteq Owing(c, w) \cup {r}
    BY <1>3 DEF Owing
  <2> QED BY <1>4, <1>5, <2>1, <2>2, BackedStep
<1>7. CASE ~(c = b /\ w = v)
  <2>1. purchases'[<<c, w>>] = purchases[<<c, w>>]
    BY <1>2, <1>4, <1>7
  <2>2. Owing(c, w)' \subseteq Owing(c, w)
    BY <1>3, <1>7 DEF Owing
  <2> QED BY <1>4, <1>5, <2>1, <2>2, BackedStep
<1> QED BY <1>6, <1>7

LEMMA CommitCommissionBacked ==
  ASSUME TxInv, TxInv', AllBacked, NEW r \in Requests, CommitCommission(r)
  PROVE  AllBacked'
<1> DEFINE b == job[r].buyer
           v == job[r].video
<1>1. job[r].op = "commission" /\ pc[r] = "read"
  BY DEF CommitCommission
<1>2. b \in Users /\ v \in Videos
  BY <1>1 DEF TxInv, RequestOK, ReadyToMove, ReadyToDecide, Deciding, Moving, MoveJobOK,
     MoveJobs
<1>3. job'[r].op = "none" /\ \A s \in Requests : s # r => job'[s] = job[s]
  BY FinishJobs DEF CommitCommission
<1>4. UNCHANGED purchases /\ commissions \in [Users \X Videos -> Nat]
      /\ commissions' = [commissions EXCEPT ![<<b, v>>] = @ + 1]
  BY WalletInvImplies DEF CommitCommission, TxInv, TypeOK
<1> SUFFICES ASSUME NEW c \in Users, NEW w \in Videos PROVE Backed(c, w)'
  BY DEF AllBacked
<1>5. Backed(c, w) /\ purchases[<<c, w>>] \in Nat
  BY WalletInvImplies DEF AllBacked, TxInv, TypeOK
<1>6. CASE c = b /\ w = v
  <2>1. commissions'[<<c, w>>] = commissions[<<c, w>>] + 1
    BY <1>2, <1>4, <1>6
  <2>2. r \in Owing(c, w) /\ Owing(c, w)' \subseteq Owing(c, w) \ {r}
    BY <1>1, <1>3, <1>6 DEF Owing
  <2> QED BY <1>4, <1>5, <2>1, <2>2, BackedStep
<1>7. CASE ~(c = b /\ w = v)
  <2>1. commissions'[<<c, w>>] = commissions[<<c, w>>]
    BY <1>2, <1>4, <1>7
  <2>2. Owing(c, w)' \subseteq Owing(c, w)
    BY <1>3 DEF Owing
  <2> QED BY <1>4, <1>5, <2>1, <2>2, BackedStep
<1> QED BY <1>6, <1>7

LEMMA ReferralBacked ==
  ASSUME TxInv, TxInv', AllBacked, NEW r \in Requests, ReferralRequest(r)
  PROVE  AllBacked'
<1>1. UNCHANGED <<purchases, commissions>> /\ pc[r] = "paid"
  BY DEF ReferralRequest, walletVars
<1>2. job[r] \in MoveJobs /\ job[r].op = "referral"
  BY <1>1 DEF TxInv, RequestOK, MoveJobOK
<1>3. CASE Finish(r)
  BY <1>1, <1>3, FinishJobs, QuietBacked
<1>4. ASSUME NEW amount,
             Begin(r, [job[r] EXCEPT !.op = "commission", !.from = job[r].to,
                              !.to = job[r].ref, !.debit = amount, !.credit = amount],
                   "locking")
      PROVE  AllBacked'
  <2>1. job'[r].buyer = job[r].buyer /\ job'[r].video = job[r].video
    BY <1>2, <1>4 DEF Begin, TxInv, RequestTypes, MoveJobs
  <2>2. \A s \in Requests : s # r => job'[s] = job[s]
    BY <1>4 DEF Begin, TxInv, RequestTypes
  <2> QED BY <1>1, <1>2, <2>1, <2>2, QuietBacked
<1> QED BY <1>3, <1>4 DEF ReferralRequest

LEMMA StartBacked ==
  ASSUME TxInv, TxInv', AllBacked, NEW r \in Requests, Start(r)
  PROVE  AllBacked'
<1>1. UNCHANGED <<purchases, commissions>>
  BY DEF Start, DepositRequest, Deposit, WithdrawRequest, TransferRequest, PayRequest,
     CompleteRequest, DecideRequest, walletVars
<1>2. CASE Finish(r)
  BY <1>1, <1>2, FinishJobs, QuietBacked
<1>3. ASSUME NEW j, job' = [job EXCEPT ![r] = j], j.op \notin {"referral", "commission"}
      PROVE  AllBacked'
  <2>1. job'[r] = j /\ \A s \in Requests : s # r => job'[s] = job[s]
    BY <1>3 DEF TxInv, RequestTypes
  <2> QED BY <1>1, <1>3, <2>1, QuietBacked
<1>4. ASSUME NEW u, NEW amount, DepositRequest(r, u, amount) PROVE AllBacked'
  BY <1>2, <1>4 DEF DepositRequest
<1>5. ASSUME NEW u, NEW amount, WithdrawRequest(r, u, amount) PROVE AllBacked'
  BY <1>3, <1>5 DEF WithdrawRequest, Begin
<1>6. ASSUME NEW from, NEW to, NEW amount, TransferRequest(r, from, to, amount)
      PROVE  AllBacked'
  BY <1>3, <1>6 DEF TransferRequest, Begin
<1>7. ASSUME NEW buyer, NEW v, NEW ref, PayRequest(r, buyer, v, ref) PROVE AllBacked'
  BY <1>3, <1>7 DEF PayRequest, Begin
<1>8. ASSUME NEW t, CompleteRequest(r, t) PROVE AllBacked'
  BY <1>3, <1>8 DEF CompleteRequest, Begin
<1>9. ASSUME NEW t, NEW op \in {"approve", "reject"}, DecideRequest(r, t, op)
      PROVE  AllBacked'
  BY <1>3, <1>9 DEF DecideRequest
<1> QED BY <1>4, <1>5, <1>6, <1>7, <1>8, <1>9 DEF Start

LEMMA AllBackedStep ==
  ASSUME TxInv, TxInv', AllBacked, [TxNext]_vars
  PROVE  AllBacked'
<1>1. CASE UNCHANGED <<job, purchases, commissions>>
  BY <1>1, QuietBacked
<1>2. ASSUME NEW r \in Requests, Finish(r), UNCHANGED <<purchases, commissions>>
      PROVE  AllBacked'
  BY <1>2, FinishJobs, QuietBacked
<1>3. ASSUME NEW r \in Requests, Step(r) PROVE AllBacked'
  <2>1. CASE \/ ReferralRequest(r) \/ CommitPay(r) \/ CommitCommission(r)
    BY <2>1, ReferralBacked, CommitPayBacked, CommitCommissionBacked
  <2>2. CASE \/ \E u \in Users : LockNextRow(r, u)
             \/ LockDecidedUser(r)
             \/ ReadBalances(r) /\ UNCHANGED job
    BY <1>1, <2>2 DEF LockNextRow, LockDecidedUser, ReadBalances, walletVars
  <2>3. CASE \/ ReadBalances(r) /\ Finish(r)
             \/ CommitWithdraw(r) \/ CommitTransfer(r) \/ RollbackPay(r)
             \/ CommitApprove(r) \/ CommitReject(r) \/ CompleteUpdate(r)
    BY <1>2, <2>3 DEF ReadBalances, CommitWithdraw, CommitTransfer, RollbackPay,
       CommitApprove, CommitReject, CompleteUpdate, walletVars
  <2> QED BY <1>3, <2>1, <2>2, <2>3 DEF Step, ReadBalances
<1>4. ASSUME NEW r \in Requests, Abort(r) \/ DeadlockVictim(r) PROVE AllBacked'
  BY <1>2, <1>4 DEF Abort, DeadlockVictim, walletVars
<1>5. Settings => UNCHANGED <<job, purchases, commissions>>
  BY DEF Settings, SetPrice, SetPercent, SetEnabled, ChangeBlock, BlockUser, UnblockUser,
     reqVars, walletVars
<1> QED BY <1>1, <1>3, <1>4, <1>5, StartBacked DEF TxNext, vars

\* No affiliate is paid twice for one purchase, or for one that did not happen, however
\* many purchases of the same video run at the same time and wherever they end early.
THEOREM TxCommissionsBacked == TxSpec => []CommissionsBacked
<1>1. TxInit => AllBacked
  <2> SUFFICES ASSUME TxInit, NEW b \in Users, NEW v \in Videos PROVE Backed(b, v)
    BY DEF AllBacked
  <2>1. Owing(b, v) = {}
    BY DEF TxInit, Owing, NoJob
  <2>2. commissions[<<b, v>>] = 0 /\ purchases[<<b, v>>] = 0
    BY DEF TxInit, Init
  <2> QED BY <2>1, <2>2, FS_EmptySet DEF Backed
<1>2. TxInv /\ TxInv' /\ AllBacked /\ [TxNext]_vars => AllBacked'
  BY AllBackedStep
<1>3. TxInv /\ AllBacked => CommissionsBacked
  <2> SUFFICES ASSUME TxInv, AllBacked, NEW b \in Users, NEW v \in Videos
               PROVE  commissions[<<b, v>>] <= purchases[<<b, v>>]
    BY DEF CommissionsBacked
  <2>1. /\ Cardinality(Owing(b, v)) \in Nat
        /\ commissions[<<b, v>>] + Cardinality(Owing(b, v)) <= purchases[<<b, v>>]
    BY FS_CardinalityType DEF AllBacked, Backed
  <2>2. commissions[<<b, v>>] \in Nat /\ purchases[<<b, v>>] \in Nat
    BY WalletInvImplies DEF TxInv, TypeOK
  <2> QED BY <2>1, <2>2
<1> QED BY <1>1, <1>2, <1>3, TxInvariant, PTL DEF TxSpec
=============================================================================
