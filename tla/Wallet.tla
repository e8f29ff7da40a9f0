------------------------------- MODULE Wallet -------------------------------
(***************************************************************************)
(* What the internal wallet promises: every operation that moves money is  *)
(* one atomic step on the tables it touches.  The state is the committed   *)
(* content of the database: users.balance_cents, wallet_transactions,      *)
(* purchases, allowlist, affiliate_commissions and creator_blocked_users.  *)
(* WalletTx is the code with its row locks and its unlocked reads, and is  *)
(* shown to implement this module.                                         *)
(*                                                                         *)
(* A ledger row keeps what the handlers read back: owner, type, amount and *)
(* status.  balance_after, the counterparty and the notes are written for  *)
(* display only and are left out.                                          *)
(***************************************************************************)
EXTENDS Integers, Sequences, FiniteSets, PrefixSums

CONSTANTS
    Users,           \* account ids; the database orders them
    Videos,          \* priced videos
    Owner,           \* videos.owner_id, never updated
    Amounts,         \* amounts a client may ask for, and prices a video may have
    Percents,        \* commission_pct values a creator may set
    MayBlock,        \* <<creator, user>> pairs for which a creator uses the block list
    MinDeposit,      \* MIN_DEPOSIT_CENTS
    MinWithdrawal,   \* MIN_WITHDRAWAL_CENTS
    MinTransfer,     \* MIN_TRANSFER_CENTS
    CreatorSplitBp,  \* CREATOR_SPLIT_BP, clamped to 10000 when it is loaded
    OpeningBalance,  \* balances earned before the modelled ledger begins
    OpeningLedger    \* ledger rows already there when the behaviour begins

TxnTypes == {"deposit", "withdrawal", "transfer_out", "transfer_in", "payment"}
Statuses == {"pending", "approved", "completed", "rejected"}

\* A row of wallet_transactions; CHECK (amount_cents > 0).
Rows == [user : Users, type : TxnTypes, amount : Nat \ {0}, status : Statuses]

\* The rows an administrator decides: deposits and withdrawals.
AdminRows == {row \in Rows : row.type \in {"deposit", "withdrawal"}}

ASSUME WalletAssumption ==
    /\ Users \subseteq Nat
    /\ Owner \in [Videos -> Users]
    /\ Amounts \subseteq Nat \ {0}
    /\ Percents \subseteq 0 .. 90
    /\ MayBlock \subseteq Users \X Users
    /\ MinDeposit \in Nat \ {0}
    /\ MinWithdrawal \in Nat \ {0}
    /\ MinTransfer \in Nat \ {0}
    /\ CreatorSplitBp \in 0 .. 10000
    /\ OpeningBalance \in [Users -> Nat]
    /\ OpeningLedger \in Seq(AdminRows)

VARIABLES
    balance,      \* users.balance_cents
    txns,         \* wallet_transactions, in id order
    refunded,     \* history: ids of the withdrawals whose amount was given back
    purchases,    \* purchases: how many rows each buyer and video has
    allowlist,    \* allowlist: <<video, user>>
    commissions,  \* affiliate_commissions: how many rows each buyer and video has
    blocked       \* creator_blocked_users: <<creator, user>>

walletVars ==
    <<balance, txns, refunded, purchases, allowlist, commissions, blocked>>
-----------------------------------------------------------------------------
(* What a ledger row says about the balance of its user. *)

\* The amount row t adds to its user's balance: a deposit counts once it is
\* approved, a withdrawal is held from the moment it is asked for until its id
\* is in back, the ones given back.
Effect(row, t, back) ==
    CASE row.type = "deposit" -> IF row.status = "approved" THEN row.amount ELSE 0
      [] row.type = "withdrawal" -> IF t \in back THEN 0 ELSE -row.amount
      [] row.type = "transfer_in" -> row.amount
      [] row.type \in {"transfer_out", "payment"} -> -row.amount

\* Row by row, what the ledger adds to u's balance.
EffectsOn(u, ledger, back) ==
    [t \in 1 .. Len(ledger) |->
        IF ledger[t].user = u THEN Effect(ledger[t], t, back) ELSE 0]

LedgerBalance(u, ledger, back) ==
    OpeningBalance[u] + SumTo(EffectsOn(u, ledger, back), Len(ledger))

\* What a row moves between users: in less out.
Internal(row) ==
    CASE row.type = "transfer_in" -> row.amount
      [] row.type \in {"transfer_out", "payment"} -> -row.amount
      [] OTHER -> 0

InternalMoves(ledger) == [t \in 1 .. Len(ledger) |-> Internal(ledger[t])]

InternalTotal(ledger) == SumTo(InternalMoves(ledger), Len(ledger))
-----------------------------------------------------------------------------
(* Integer division, as the handlers round. *)

\* Faulty variant: basis points taken for percent.
CreatorCutPercent(price) == (price * CreatorSplitBp) \div 100

\* creator_split_bp basis points of the price go to the creator.
CreatorCut(price) == (price * CreatorSplitBp) \div 10000

\* commission_pct percent of the full price go to the affiliate.
CommissionOf(price, pct) == (price * pct) \div 100

NewRow(u, type, amount, status) ==
    [user |-> u, type |-> type, amount |-> amount, status |-> status]

\* Money moves from one user to another, with the two ledger rows that say so.
Move(from, to, debit, credit, outType) ==
    /\ balance' = [balance EXCEPT ![from] = @ - debit, ![to] = @ + credit]
    /\ txns' = txns \o << NewRow(from, outType, debit, "completed"),
                          NewRow(to, "transfer_in", credit, "completed") >>
-----------------------------------------------------------------------------
(* Operations. *)

\* wallet_deposit: a request for the administrator; no balance changes.
Deposit(u, amount) ==
    /\ amount >= MinDeposit
    /\ txns' = Append(txns, NewRow(u, "deposit", amount, "pending"))
    /\ UNCHANGED <<balance, refunded, purchases, allowlist, commissions, blocked>>

\* wallet_withdraw: the amount is held at once.
Withdraw(u, amount) ==
    /\ amount >= MinWithdrawal
    /\ balance[u] >= amount
    /\ balance' = [balance EXCEPT ![u] = @ - amount]
    /\ txns' = Append(txns, NewRow(u, "withdrawal", amount, "pending"))
    /\ UNCHANGED <<refunded, purchases, allowlist, commissions, blocked>>

\* wallet_transfer
Transfer(from, to, amount) ==
    /\ amount >= MinTransfer
    /\ from # to
    /\ balance[from] >= amount
    /\ Move(from, to, amount, amount, "transfer_out")
    /\ UNCHANGED <<refunded, purchases, allowlist, commissions, blocked>>

\* wallet_pay_video: the price moves, less the platform's share, and the buyer
\* gets the purchase row in the same transaction; the allowlist entry too, but
\* not when the look-up of the buyer's name has failed.
Pay(buyer, v, price) ==
    LET cut == CreatorCut(price) IN
    /\ Owner[v] # buyer
    /\ balance[buyer] >= price
    /\ cut > 0                                   \* CHECK (amount_cents > 0)
    /\ <<Owner[v], buyer>> \notin blocked        \* trigger on purchases
    /\ Move(buyer, Owner[v], price, cut, "payment")
    /\ purchases' = [purchases EXCEPT ![<<buyer, v>>] = @ + 1]
    /\ allowlist' \in {allowlist, allowlist \cup {<<v, buyer>>}}
    /\ UNCHANGED <<refunded, commissions, blocked>>

\* process_affiliate_commission: paid out of the creator's balance.
Commission(v, buyer, affiliate, amount) ==
    /\ affiliate \notin {buyer, Owner[v]}
    /\ amount > 0
    /\ balance[Owner[v]] >= amount
    /\ Move(Owner[v], affiliate, amount, amount, "transfer_out")
    /\ commissions' = [commissions EXCEPT ![<<buyer, v>>] = @ + 1]
    /\ UNCHANGED <<refunded, purchases, allowlist, blocked>>

\* admin_wallet_approve
Approve(t) ==
    /\ txns[t].type = "deposit"
    /\ txns[t].status = "pending"
    /\ balance' = [balance EXCEPT ![txns[t].user] = @ + txns[t].amount]
    /\ txns' = [txns EXCEPT ![t].status = "approved"]
    /\ UNCHANGED <<refunded, purchases, allowlist, commissions, blocked>>

\* admin_wallet_complete: the update is by id alone, so it also overwrites a
\* rejection that came after the status was read.
Complete(t) ==
    /\ txns[t].type = "withdrawal"
    /\ txns' = [txns EXCEPT ![t].status = "completed"]
    /\ UNCHANGED <<balance, refunded, purchases, allowlist, commissions, blocked>>

\* admin_wallet_reject: a rejected withdrawal is given back.
Reject(t) ==
    /\ txns[t].status = "pending"
    /\ txns' = [txns EXCEPT ![t].status = "rejected"]
    /\ IF txns[t].type = "withdrawal"
       THEN /\ balance' = [balance EXCEPT ![txns[t].user] = @ + txns[t].amount]
            /\ refunded' = refunded \cup {t}
       ELSE UNCHANGED <<balance, refunded>>
    /\ UNCHANGED <<purchases, allowlist, commissions, blocked>>

\* block_user
BlockUser(creator, u) ==
    /\ creator # u
    /\ blocked' = blocked \cup {<<creator, u>>}
    /\ UNCHANGED <<balance, txns, refunded, purchases, allowlist, commissions>>

\* unblock_user
UnblockUser(creator, u) ==
    /\ blocked' = blocked \ {<<creator, u>>}
    /\ UNCHANGED <<balance, txns, refunded, purchases, allowlist, commissions>>
-----------------------------------------------------------------------------
Init ==
    /\ txns = OpeningLedger
    /\ refunded = {t \in 1 .. Len(OpeningLedger) :
                     /\ OpeningLedger[t].type = "withdrawal"
                     /\ OpeningLedger[t].status = "rejected"}
    /\ balance = [u \in Users |-> LedgerBalance(u, txns, refunded)]
    /\ \A u \in Users : balance[u] >= 0
    /\ purchases = [p \in Users \X Videos |-> 0]
    /\ allowlist = {}
    /\ commissions = [p \in Users \X Videos |-> 0]
    /\ blocked = {}

Next ==
    \/ \E u \in Users, amount \in Amounts : Deposit(u, amount) \/ Withdraw(u, amount)
    \/ \E from, to \in Users, amount \in Amounts : Transfer(from, to, amount)
    \/ \E buyer \in Users, v \in Videos, price \in Amounts : Pay(buyer, v, price)
    \/ \E v \in Videos, buyer, affiliate \in Users, price \in Amounts, pct \in Percents :
          Commission(v, buyer, affiliate, CommissionOf(price, pct))
    \/ \E t \in DOMAIN txns : Approve(t) \/ Complete(t) \/ Reject(t)
    \/ \E p \in MayBlock : BlockUser(p[1], p[2]) \/ UnblockUser(p[1], p[2])

Spec == Init /\ [][Next]_walletVars
-----------------------------------------------------------------------------
(* Properties. *)

\* Every table keeps its type.
TypeOK ==
    /\ balance \in [Users -> Int]
    /\ txns \in Seq(Rows)
    /\ refunded \subseteq DOMAIN txns
    /\ purchases \in [Users \X Videos -> Nat]
    /\ allowlist \subseteq Videos \X Users
    /\ commissions \in [Users \X Videos -> Nat]
    /\ blocked \subseteq Users \X Users

\* No balance is ever negative, whatever withdrawals, transfers, purchases and
\* commissions run at the same time.
NonNegative == \A u \in Users : balance[u] >= 0

\* The ledger explains every balance: what a user can spend is the opening
\* balance plus approved deposits and receipts, minus payments, transfers and
\* the withdrawals that were not given back.
LedgerExplainsBalance ==
    \A u \in Users : balance[u] = LedgerBalance(u, txns, refunded)

\* Dual-sided accounting creates no money: what all users together receive from
\* transfers, sales and commissions never exceeds what they pay for them.
TransfersCreateNoMoney == InternalTotal(txns) <= 0

\* A buyer's rows in the ledger that say payment, and in purchases.
PaymentRows(b) == {t \in DOMAIN txns : txns[t].user = b /\ txns[t].type = "payment"}
PurchaseRows(b) == UNION {{v} \X (1 .. purchases[<<b, v>>]) : v \in Videos}

\* Every charge has its purchase and every purchase its charge: a buyer has as
\* many payment rows in the ledger as rows in purchases.
PaymentsMatchPurchases ==
    \A b \in Users : Cardinality(PaymentRows(b)) = Cardinality(PurchaseRows(b))
=============================================================================
