------------------------------ MODULE WalletTx ------------------------------
(***************************************************************************)
(* The wallet as the handlers run it: each HTTP request is a process that  *)
(* issues one SQL statement after another against PostgreSQL at READ       *)
(* COMMITTED.  What is read outside a transaction may be stale when it is  *)
(* used; inside one, SELECT ... ORDER BY id FOR UPDATE takes row locks one *)
(* after the other, and they are held until the transaction ends.          *)
(*                                                                         *)
(* A transaction's writes become visible, and its locks are released, at   *)
(* its commit, so each commit is one step; the new balances it writes were *)
(* computed by an earlier step, from the balances read then.               *)
(***************************************************************************)
EXTENDS Wallet

CONSTANTS
    Prices,     \* prices a creator may set; 0 for a free video
    Switches,   \* payment_settings the administrator may choose
    Requests,   \* HTTP requests; each is served once
    None,       \* no video, or no ref_code
    LookupsFail \* whether queries outside a transaction may fail; the handlers
                \* go on with a default where the code says unwrap_or

ASSUME WalletTxAssumption ==
    /\ IsFiniteSet(Users)
    /\ None \notin Users \cup Videos
    /\ Prices \subseteq Amounts \cup {0}
    /\ Switches \subseteq [payment : BOOLEAN, transfer : BOOLEAN]

ASSUME LookupsAssumption == LookupsFail \in BOOLEAN

VARIABLES
    price,     \* videos.price_cents
    percent,   \* affiliate_settings: commission_pct, 0 when disabled or missing
    enabled,   \* payment_settings: wallet_payment_enabled, wallet_transfer_enabled
    pc,        \* where each request is
    job,       \* what each request is working on
    seen,      \* the balances each request's transaction has read
    held,      \* user rows each request's transaction has locked
    heldTxn    \* ledger rows each request's transaction has locked

reqVars == <<pc, job, seen, held, heldTxn>>
settingVars == <<price, percent, enabled>>
vars == <<balance, txns, refunded, purchases, allowlist, commissions, blocked,
          price, percent, enabled, pc, job, seen, held, heldTxn>>

PCs == {"new", "checked", "locking", "locked", "read", "paid", "done"}

\* A transaction that debits `from` and credits `to` (withdraw, transfer, pay,
\* commission); a withdrawal credits nobody and has to = from.  After the
\* purchase commits the same request goes on to the commission ("referral").
MoveJobs ==
    [op : {"withdraw", "transfer", "pay", "referral", "commission"},
     from : Users, to : Users, debit : Nat, credit : Nat,
     buyer : Users, video : Videos \cup {None}, ref : Users \cup {None}]

\* An administrator's decision on ledger row txn, and the user it concerns.
AdminJobs == [op : {"approve", "complete", "reject"}, txn : Nat \ {0}, user : Users]

NoJob == [op |-> "none"]

\* The balances a transaction read for its two users.
NotRead == [from |-> 0, to |-> 0]
-----------------------------------------------------------------------------
(* Row locks. *)

\* Faulty variant: the row of the user who receives is not locked.
RowsOfPayer(j) == {j.from}

\* The user rows a balance transaction locks with SELECT ... FOR UPDATE.
RowsOf(j) == {j.from, j.to}

\* Faulty variant: the payer's row is locked first, whatever the ids.
IsNextRowPayerFirst(r, u) ==
    /\ u \in RowsOf(job[r]) \ held[r]
    /\ job[r].from \notin held[r] => u = job[r].from

\* ORDER BY id: the lowest row that is not locked yet comes next.
IsNextRow(r, u) ==
    /\ u \in RowsOf(job[r]) \ held[r]
    /\ \A w \in RowsOf(job[r]) \ held[r] : u <= w

\* Faulty variant: the SELECT without FOR UPDATE.
NeverLocked(r, u) == r \in Requests

\* FOR UPDATE and FOR NO KEY UPDATE wait for any other holder of the row.
Unlocked(r, u) == \A s \in Requests \ {r} : u \notin held[s]

UnlockedTxn(r, t) == \A s \in Requests \ {r} : t \notin heldTxn[s]

\* A foreign key check takes FOR KEY SHARE on the user row: it waits for FOR
\* UPDATE, and not for the UPDATE of balance_cents that approve and reject run.
KeyShareable(r, u) ==
    \A s \in Requests \ {r} : u \in held[s] => job[s].op \in {"approve", "reject"}

\* Faulty variant: an early return that leaves the transaction open.
FinishHoldingLocks(r) ==
    /\ pc' = [pc EXCEPT ![r] = "done"]
    /\ job' = [job EXCEPT ![r] = NoJob]
    /\ seen' = [seen EXCEPT ![r] = NotRead]
    /\ UNCHANGED <<held, heldTxn>>

\* The request ends: commit or rollback releases its locks.
Finish(r) ==
    /\ pc' = [pc EXCEPT ![r] = "done"]
    /\ job' = [job EXCEPT ![r] = NoJob]
    /\ seen' = [seen EXCEPT ![r] = NotRead]
    /\ held' = [held EXCEPT ![r] = {}]
    /\ heldTxn' = [heldTxn EXCEPT ![r] = {}]

\* The request gets something to do, and holds no lock yet.
Begin(r, j, where) ==
    /\ pc' = [pc EXCEPT ![r] = where]
    /\ job' = [job EXCEPT ![r] = j]
    /\ UNCHANGED <<seen, held, heldTxn>>
-----------------------------------------------------------------------------
(* Requests up to their first lock. *)

\* A check that reads outside a transaction: a query that fails passes it.
Passes(check) == check \/ LookupsFail

\* wallet_deposit: one INSERT; its foreign key waits for the user's row.
DepositRequest(r, u, amount) ==
    /\ pc[r] = "new"
    /\ KeyShareable(r, u)
    /\ Deposit(u, amount)
    /\ Finish(r)
    /\ UNCHANGED settingVars

WithdrawRequest(r, u, amount) ==
    /\ pc[r] = "new"
    /\ amount >= MinWithdrawal
    /\ Begin(r, [op |-> "withdraw", from |-> u, to |-> u, debit |-> amount,
                 credit |-> 0, buyer |-> u, video |-> None, ref |-> None], "locking")
    /\ UNCHANGED <<walletVars, settingVars>>

TransferRequest(r, from, to, amount) ==
    /\ pc[r] = "new"
    /\ Passes(enabled.transfer)          \* PaymentSettings::default() enables all
    /\ amount >= MinTransfer
    /\ from # to
    /\ Begin(r, [op |-> "transfer", from |-> from, to |-> to, debit |-> amount,
                 credit |-> amount, buyer |-> from, video |-> None, ref |-> None],
             "locking")
    /\ UNCHANGED <<walletVars, settingVars>>

\* wallet_pay_video up to BEGIN: price, ownership and the purchases count are
\* read outside the transaction and never looked at again.  A count that fails
\* is taken for zero.
PayRequest(r, buyer, v, ref) ==
    /\ pc[r] = "new"
    /\ Passes(enabled.payment)
    /\ Owner[v] # buyer
    /\ price[v] > 0
    /\ Passes(purchases[<<buyer, v>>] = 0)
    /\ Begin(r, [op |-> "pay", from |-> buyer, to |-> Owner[v], debit |-> price[v],
                 credit |-> CreatorCut(price[v]), buyer |-> buyer, video |-> v,
                 ref |-> ref], "locking")
    /\ UNCHANGED <<walletVars, settingVars>>

\* process_affiliate_commission up to BEGIN: the percentage is read outside the
\* transaction; a disabled program, an affiliate who is the buyer or the owner,
\* or an amount rounded down to zero ends the request.
ReferralRequest(r) ==
    LET j == job[r]
        amount == CommissionOf(j.debit, percent[j.video])
    IN  /\ pc[r] = "paid"
        /\ IF percent[j.video] > 0 /\ j.ref \notin {j.buyer, j.to} /\ amount > 0
           THEN Begin(r, [j EXCEPT !.op = "commission", !.from = j.to, !.to = j.ref,
                                   !.debit = amount, !.credit = amount], "locking")
           ELSE Finish(r)
        /\ UNCHANGED <<walletVars, settingVars>>

\* admin_wallet_complete: the status is read without a lock.
CompleteRequest(r, t) ==
    /\ pc[r] = "new"
    /\ txns[t].status = "pending"
    /\ txns[t].type = "withdrawal"
    /\ Begin(r, [op |-> "complete", txn |-> t, user |-> txns[t].user], "checked")
    /\ UNCHANGED <<walletVars, settingVars>>

\* admin_wallet_approve and admin_wallet_reject: SELECT ... FOR UPDATE on the
\* ledger row, and the status is checked under that lock.  Rejecting a deposit
\* leaves the user's row alone.
DecideRequest(r, t, op) ==
    /\ pc[r] = "new"
    /\ UnlockedTxn(r, t)
    /\ txns[t].status = "pending"
    /\ op = "approve" => txns[t].type = "deposit"
    /\ pc' = [pc EXCEPT ![r] = IF op = "reject" /\ txns[t].type # "withdrawal"
                               THEN "read" ELSE "locking"]
    /\ job' = [job EXCEPT ![r] = [op |-> op, txn |-> t, user |-> txns[t].user]]
    /\ heldTxn' = [heldTxn EXCEPT ![r] = {t}]
    /\ UNCHANGED <<walletVars, settingVars, seen, held>>
-----------------------------------------------------------------------------
(* Inside the transaction. *)

\* One row of SELECT id FROM users WHERE id IN (...) ORDER BY id FOR UPDATE.
LockNextRow(r, u) ==
    /\ pc[r] = "locking"
    /\ job[r] \in MoveJobs
    /\ IsNextRow(r, u)
    /\ Unlocked(r, u)
    /\ held' = [held EXCEPT ![r] = @ \cup {u}]
    /\ pc' = [pc EXCEPT ![r] = IF RowsOf(job[r]) \subseteq held[r] \cup {u}
                               THEN "locked" ELSE "locking"]
    /\ UNCHANGED <<walletVars, settingVars, job, seen, heldTxn>>

\* The UPDATE of users.balance_cents by an administrator's decision.
LockDecidedUser(r) ==
    /\ pc[r] = "locking"
    /\ job[r] \in AdminJobs
    /\ Unlocked(r, job[r].user)
    /\ held' = [held EXCEPT ![r] = {job[r].user}]
    /\ pc' = [pc EXCEPT ![r] = "read"]
    /\ UNCHANGED <<walletVars, settingVars, job, seen, heldTxn>>

\* Faulty variants: no check of the payer's balance; no rollback when it is low.
ReadBalancesUnchecked(r) ==
    /\ pc[r] = "locked"
    /\ seen' = [seen EXCEPT ![r] = [from |-> balance[job[r].from],
                                    to |-> balance[job[r].to]]]
    /\ pc' = [pc EXCEPT ![r] = "read"]
    /\ UNCHANGED <<walletVars, settingVars, job, held, heldTxn>>

ReadBalancesNoRollback(r) ==
    /\ ReadBalancesUnchecked(r)
    /\ balance[job[r].from] >= job[r].debit

\* Both balances are read and the payer's is checked; too little rolls back.
ReadBalances(r) ==
    /\ pc[r] = "locked"
    /\ IF balance[job[r].from] >= job[r].debit
       THEN /\ seen' = [seen EXCEPT ![r] = [from |-> balance[job[r].from],
                                            to |-> balance[job[r].to]]]
            /\ pc' = [pc EXCEPT ![r] = "read"]
            /\ UNCHANGED <<job, held, heldTxn>>
       ELSE Finish(r)
    /\ UNCHANGED <<walletVars, settingVars>>

\* UPDATE users SET balance_cents = <value computed from what was read>.
WriteBalances(r) ==
    balance' = [balance EXCEPT ![job[r].from] = seen[r].from - job[r].debit,
                               ![job[r].to] = seen[r].to + job[r].credit]

\* The two ledger rows of a transaction between two users.
AppendMove(j, outType) ==
    txns' = txns \o << NewRow(j.from, outType, j.debit, "completed"),
                       NewRow(j.to, "transfer_in", j.credit, "completed") >>

CommitWithdraw(r) ==
    /\ pc[r] = "read"
    /\ job[r].op = "withdraw"
    /\ balance' = [balance EXCEPT ![job[r].from] = seen[r].from - job[r].debit]
    /\ txns' = Append(txns, NewRow(job[r].from, "withdrawal", job[r].debit, "pending"))
    /\ Finish(r)
    /\ UNCHANGED <<refunded, purchases, allowlist, commissions, blocked, settingVars>>

CommitTransfer(r) ==
    /\ pc[r] = "read"
    /\ job[r].op = "transfer"
    /\ WriteBalances(r)
    /\ AppendMove(job[r], "transfer_out")
    /\ Finish(r)
    /\ UNCHANGED <<refunded, purchases, allowlist, commissions, blocked, settingVars>>

\* The CHECK on amount_cents and the trigger on purchases may still refuse.
PayRefused(j) == j.credit <= 0 \/ <<j.to, j.buyer>> \in blocked

\* INSERT INTO allowlist, which takes the buyer's name; it was looked up before
\* BEGIN, is empty when that failed, and then there is no INSERT.
AllowBuyer(j) ==
    \/ allowlist' = allowlist \cup {<<j.video, j.buyer>>}
    \/ LookupsFail /\ UNCHANGED allowlist

\* Faulty variant: one row per buyer and video, as if ON CONFLICT had a unique
\* index to refer to.
RecordPurchaseOnce(j) ==
    /\ purchases' = [purchases EXCEPT ![<<j.buyer, j.video>>] = 1]
    /\ AllowBuyer(j)

\* INSERT INTO purchases ... ON CONFLICT DO NOTHING: the table has no unique
\* index on buyer and video, so there is always a new row.
RecordPurchase(j) ==
    /\ purchases' = [purchases EXCEPT ![<<j.buyer, j.video>>] = @ + 1]
    /\ AllowBuyer(j)

\* After the commit the locks are gone and the request goes on to the referral.
GoOnToReferral(r) ==
    /\ pc' = [pc EXCEPT ![r] = "paid"]
    /\ job' = [job EXCEPT ![r].op = "referral"]
    /\ seen' = [seen EXCEPT ![r] = NotRead]
    /\ held' = [held EXCEPT ![r] = {}]
    /\ UNCHANGED heldTxn

CommitPay(r) ==
    /\ pc[r] = "read"
    /\ job[r].op = "pay"
    /\ ~PayRefused(job[r])
    /\ WriteBalances(r)
    /\ AppendMove(job[r], "payment")
    /\ RecordPurchase(job[r])
    /\ IF job[r].ref = None
       THEN Finish(r)
       ELSE GoOnToReferral(r)
    /\ UNCHANGED <<refunded, commissions, blocked, settingVars>>

\* Faulty variant: the refused purchase still pays its affiliate.
RollbackPayWithReferral(r) ==
    /\ pc[r] = "read"
    /\ job[r].op = "pay"
    /\ PayRefused(job[r])
    /\ IF job[r].ref = None THEN Finish(r) ELSE GoOnToReferral(r)
    /\ UNCHANGED <<walletVars, settingVars>>

RollbackPay(r) ==
    /\ pc[r] = "read"
    /\ job[r].op = "pay"
    /\ PayRefused(job[r])
    /\ Finish(r)
    /\ UNCHANGED <<walletVars, settingVars>>

\* The INSERT into affiliate_commissions references the buyer, whose row this
\* transaction has not locked: its foreign key waits for that row.
CommitCommission(r) ==
    /\ pc[r] = "read"
    /\ job[r].op = "commission"
    /\ KeyShareable(r, job[r].buyer)
    /\ WriteBalances(r)
    /\ AppendMove(job[r], "transfer_out")
    /\ commissions' = [commissions EXCEPT ![<<job[r].buyer, job[r].video>>] = @ + 1]
    /\ Finish(r)
    /\ UNCHANGED <<refunded, purchases, allowlist, blocked, settingVars>>

CommitApprove(r) ==
    LET t == job[r].txn IN
    /\ pc[r] = "read"
    /\ job[r].op = "approve"
    /\ balance' = [balance EXCEPT ![job[r].user] = @ + txns[t].amount]
    /\ txns' = [txns EXCEPT ![t].status = "approved"]
    /\ Finish(r)
    /\ UNCHANGED <<refunded, purchases, allowlist, commissions, blocked, settingVars>>

CommitReject(r) ==
    LET t == job[r].txn IN
    /\ pc[r] = "read"
    /\ job[r].op = "reject"
    /\ txns' = [txns EXCEPT ![t].status = "rejected"]
    /\ IF txns[t].type = "withdrawal"
       THEN /\ balance' = [balance EXCEPT ![job[r].user] = @ + txns[t].amount]
            /\ refunded' = refunded \cup {t}
       ELSE UNCHANGED <<balance, refunded>>
    /\ Finish(r)
    /\ UNCHANGED <<purchases, allowlist, commissions, blocked, settingVars>>

\* UPDATE ... SET status = 'completed' WHERE id = ...: waits for the row lock
\* and does not look at the status again.
CompleteUpdate(r) ==
    LET t == job[r].txn IN
    /\ pc[r] = "checked"
    /\ UnlockedTxn(r, t)
    /\ txns' = [txns EXCEPT ![t].status = "completed"]
    /\ Finish(r)
    /\ UNCHANGED <<balance, refunded, purchases, allowlist, commissions, blocked,
                   settingVars>>
-----------------------------------------------------------------------------
(* What ends a request early, and what else changes. *)

\* A client that disconnects, a statement that fails or a server that stops
\* ends the request where it is; an open transaction rolls back.
Abort(r) ==
    /\ pc[r] \notin {"new", "done"}
    /\ Finish(r)
    /\ UNCHANGED <<walletVars, settingVars>>

\* The requests r is waiting for.
WaitsFor(r) ==
    {s \in Requests \ {r} :
        \/ /\ pc[r] = "locking" /\ job[r] \in MoveJobs
           /\ \E u \in held[s] : IsNextRow(r, u)
        \/ pc[r] = "locking" /\ job[r] \in AdminJobs /\ job[r].user \in held[s]
        \/ /\ pc[r] = "read" /\ job[r].op = "commission"
           /\ job[r].buyer \in held[s] /\ job[s].op \notin {"approve", "reject"}
        \/ pc[r] = "checked" /\ job[r].txn \in heldTxn[s]}

\* Every request of S waits for another one of S.
Deadlocked(S) == \A r \in S : WaitsFor(r) \cap S # {}

\* PostgreSQL's deadlock detector cancels a statement of one of them.
DeadlockVictim(r) ==
    /\ \E S \in SUBSET Requests : r \in S /\ Deadlocked(S)
    /\ Finish(r)
    /\ UNCHANGED <<walletVars, settingVars>>

\* update_video and affiliate_settings_save by the owner, and the payment
\* switches of the administrator.
SetPrice(v, p) ==
    /\ price' = [price EXCEPT ![v] = p]
    /\ UNCHANGED <<walletVars, percent, enabled, reqVars>>

SetPercent(v, p) ==
    /\ percent' = [percent EXCEPT ![v] = p]
    /\ UNCHANGED <<walletVars, price, enabled, reqVars>>

SetEnabled(s) ==
    /\ enabled' = s
    /\ UNCHANGED <<walletVars, price, percent, reqVars>>

ChangeBlock(creator, u) ==
    /\ BlockUser(creator, u) \/ UnblockUser(creator, u)
    /\ UNCHANGED <<settingVars, reqVars>>
-----------------------------------------------------------------------------
TxInit ==
    /\ Init
    /\ price \in [Videos -> Prices]
    /\ percent \in [Videos -> Percents]
    /\ enabled = [payment |-> TRUE, transfer |-> TRUE]
    /\ pc = [r \in Requests |-> "new"]
    /\ job = [r \in Requests |-> NoJob]
    /\ seen = [r \in Requests |-> NotRead]
    /\ held = [r \in Requests |-> {}]
    /\ heldTxn = [r \in Requests |-> {}]

Start(r) ==
    \/ \E u \in Users, amount \in Amounts :
          DepositRequest(r, u, amount) \/ WithdrawRequest(r, u, amount)
    \/ \E from, to \in Users, amount \in Amounts : TransferRequest(r, from, to, amount)
    \/ \E buyer \in Users, v \in Videos, ref \in Users \cup {None} :
          PayRequest(r, buyer, v, ref)
    \/ \E t \in DOMAIN txns :
          \/ CompleteRequest(r, t)
          \/ \E op \in {"approve", "reject"} : DecideRequest(r, t, op)

\* The next statement of a request that has started.
Step(r) ==
    \/ ReferralRequest(r)
    \/ \E u \in Users : LockNextRow(r, u)
    \/ LockDecidedUser(r)
    \/ ReadBalances(r)
    \/ CommitWithdraw(r) \/ CommitTransfer(r)
    \/ CommitPay(r) \/ RollbackPay(r)
    \/ CommitCommission(r)
    \/ CommitApprove(r) \/ CommitReject(r) \/ CompleteUpdate(r)

Settings ==
    \/ \E v \in Videos, p \in Prices : SetPrice(v, p)
    \/ \E v \in Videos, p \in Percents : SetPercent(v, p)
    \/ \E s \in Switches : SetEnabled(s)
    \/ \E p \in MayBlock : ChangeBlock(p[1], p[2])

TxNext ==
    \/ \E r \in Requests : Start(r) \/ Step(r) \/ Abort(r) \/ DeadlockVictim(r)
    \/ Settings

TxSpec == TxInit /\ [][TxNext]_vars

\* PostgreSQL and the runtime keep running statements that can run, and the
\* deadlock detector always finds a cycle.  Clients need not send anything.
FairTxSpec ==
    /\ TxSpec
    /\ \A r \in Requests : WF_vars(Step(r) \/ DeadlockVictim(r))
-----------------------------------------------------------------------------
(* Properties. *)

\* Every variable keeps its type; only an open transaction holds row locks, and
\* the rows of a finished request are free again.
TxTypeOK ==
    /\ TypeOK
    /\ price \in [Videos -> Prices]
    /\ percent \in [Videos -> Percents]
    /\ enabled \in [payment : BOOLEAN, transfer : BOOLEAN]
    /\ pc \in [Requests -> PCs]
    /\ job \in [Requests -> MoveJobs \cup AdminJobs \cup {NoJob}]
    /\ seen \in [Requests -> [from : Int, to : Int]]
    /\ held \in [Requests -> SUBSET Users]
    /\ heldTxn \in [Requests -> SUBSET DOMAIN txns]
    /\ \A r \in Requests : pc[r] \in {"new", "checked", "paid", "done"} =>
                           held[r] = {} /\ heldTxn[r] = {}

\* Every behaviour of the handlers is one of the atomic wallet: each commit is one
\* of Wallet's operations on the state it finds, every other step leaves the
\* tables alone.  (Wallet's Spec, with the stuttering case first.)
ImplementsWallet == Init /\ [][walletVars' # walletVars => Next]_walletVars

\* The balances a transaction has read are still the committed ones when it
\* writes back the values it computed from them: no update is lost, whichever
\* withdrawals, transfers, purchases, commissions and decisions run meanwhile.
ReadsStayCurrent ==
    \A r \in Requests :
        pc[r] = "read" /\ job[r] \in MoveJobs =>
            /\ seen[r].from = balance[job[r].from]
            /\ seen[r].to = balance[job[r].to]

\* An affiliate is paid at most once for a purchase row: commissions never
\* outnumber the purchases of that buyer and video.
CommissionsBacked ==
    \A b \in Users, v \in Videos : commissions[<<b, v>>] <= purchases[<<b, v>>]

\* Locking user rows in id order keeps withdrawals, transfers, purchases and the
\* administrator's decisions free of deadlock among themselves: a cycle of
\* waiting transactions always has a commission in it that waits for its
\* buyer's row.  (Such cycles do occur, although commission.rs locks its rows
\* in order "to prevent deadlocks".)
OnlyCommissionsDeadlock ==
    \A S \in SUBSET Requests :
        S # {} /\ Deadlocked(S) =>
            \E r \in S : pc[r] = "read" /\ job[r].op = "commission"

\* Every request that has started comes to an end: no transaction waits for a
\* row for ever.
RequestsFinish ==
    \A r \in Requests : pc[r] \notin {"new", "done"} ~> pc[r] = "done"

\* The payment guide: a wallet payment "Verifies buyer is not owner, not already
\* purchased", so nobody pays twice for a video.
BoughtOnce == \A b \in Users, v \in Videos : purchases[<<b, v>>] <= 1

\* The wallet guide: a pending withdrawal goes to completed (payout sent) or to
\* rejected (balance refunded), so a refunded one is never recorded as paid out.
RefundedStaysRejected == \A t \in refunded : txns[t].status = "rejected"
=============================================================================
