-------------------------------- MODULE Fiat --------------------------------
(***************************************************************************)
(* Card and bank payments: a buyer's request creates an invoice and asks   *)
(* the payment provider for a checkout; the provider reports what happens  *)
(* to the charge by webhooks, at least once and in any order; the webhook  *)
(* handler marks the invoice paid and grants the video, one autocommitted  *)
(* statement after the other; for Xendit it also pays the creator out, as  *)
(* an administrator may do by hand.                                        *)
(*                                                                         *)
(* The handler ignores the error of every statement it issues after its    *)
(* first SELECT, so each of them may fail without stopping it.  A server   *)
(* that stops ends a handler anywhere.                                     *)
(***************************************************************************)
EXTENDS Naturals

CONSTANTS
    Invoices,     \* fiat_invoices.invoice_uid
    Hooks,        \* tasks that serve webhooks; each serves one after the other
    Admins,       \* tasks that serve admin_disburse
    Users,
    Videos,       \* priced videos
    Owner,        \* videos.owner_id
    Providers,    \* the providers that are configured
    HasBank,      \* creators whose bank_account is set
    MayBlock,     \* <<creator, user>> pairs for which a creator uses the block list
    None,         \* no event, no invoice, no order
    MaxFailures,  \* bound: statements that fail and answers that are lost, per invoice
    MaxCrashes,   \* bound: handlers that end half-way
    MaxPayouts    \* bound: payouts an administrator asks for on one invoice

ASSUME FiatAssumption ==
    /\ Owner \in [Videos -> Users]
    /\ Providers \subseteq {"stripe", "paypal", "midtrans", "xendit"}
    /\ HasBank \subseteq Users
    /\ MayBlock \subseteq Users \X Users
    /\ MaxFailures \in Nat /\ MaxCrashes \in Nat /\ MaxPayouts \in Nat

VARIABLES
    order,        \* what each invoice is for: fixed when the row is inserted
    row,          \* fiat_invoices.status, "absent" when there is no row
    hasRef,       \* invoices whose affiliate_ref is stored
    disbursed,    \* invoices whose disbursed_at is set
    creating,     \* where the request that creates each invoice is
    charge,       \* the provider's side of each invoice
    sent,         \* webhook events the provider has sent
    unanswered,   \* those that got no HTTP answer yet: the provider repeats them
    purchases,    \* purchases: rows inserted for each invoice
    allowlist,    \* allowlist: <<video, user>>
    commissions,  \* affiliate_commissions: rows for each invoice
    payouts,      \* the provider's disbursements for each invoice
    blocked,      \* creator_blocked_users: <<creator, user>>
    acked,        \* history: invoices some webhook answered with status "paid"
    cut,          \* history: invoices whose handler stopped after it had marked
                  \* the row and before the allowlist
    hook,         \* where each webhook task is, its event and what it read
    admin,        \* where each admin_disburse is, and its invoice
    failures,     \* of each invoice
    crashes

grantVars == <<purchases, allowlist, commissions, payouts, acked>>
invoiceVars == <<order, row, hasRef, disbursed>>
providerVars == <<charge, sent, unanswered>>
boundVars == <<cut, failures, crashes>>
vars == <<order, row, hasRef, disbursed, creating, charge, sent, unanswered,
          purchases, allowlist, commissions, payouts, blocked, acked, hook, admin,
          cut, failures, crashes>>

\* ref: the request names an affiliate.
Orders ==
    [buyer : Users, video : Videos, provider : Providers, ref : BOOLEAN]

Kinds == {"pending", "authorised", "captured", "failed"}
Events == [inv : Invoices, kind : Kinds]

ASSUME NoneAssumption == None \notin Orders \cup Events

HookPCs == {"idle", "verified", "unpaid", "marked", "purchased", "allowed",
            "payout", "paidout"}
IdleHook == [at |-> "idle", event |-> None, due |-> FALSE]
\* The row is marked and the buyer is still to be put on the allowlist.
Granting == {"marked", "purchased"}

IdleAdmin == [at |-> "idle", inv |-> None]
-----------------------------------------------------------------------------
(* The payment providers. *)

\* Faulty variant: everything a provider reports is taken for a payment.
ConfirmAnything(kind) == IF kind \in Kinds THEN "paid" ELSE "unknown"

\* confirm_payment of the four plugins.  "authorised" stands for PayPal's
\* CHECKOUT.ORDER.APPROVED and for a Midtrans capture under challenge: the money
\* is reserved and may still be refused.
ConfirmPayment(kind) ==
    CASE kind \in {"captured", "authorised"} -> "paid"
      [] kind = "pending" -> "pending"
      [] kind = "failed" -> "failed"

\* The providers whose charges can be authorised before they are captured.
Authorising == {"paypal", "midtrans"}

\* The next state of a charge, and the event that reports it.
ChargeMove(i, next) ==
    /\ charge' = [charge EXCEPT ![i] = next]
    /\ sent' = sent \cup {[inv |-> i, kind |-> next]}
    /\ unanswered' = unanswered \cup {[inv |-> i, kind |-> next]}
    /\ UNCHANGED <<invoiceVars, creating, grantVars, blocked, hook, admin, boundVars>>

\* The buyer pays, gives up or is refused.  A charge may be paid although its
\* creation got no answer: Xendit mails the link to payer_email.
BuyerActs(i) ==
    \/ charge[i] = "open" /\ ChargeMove(i, "pending")
    \/ /\ charge[i] \in {"open", "pending"}
       /\ order[i].provider \in Authorising
       /\ ChargeMove(i, "authorised")
    \/ charge[i] \in {"open", "pending", "authorised"} /\ ChargeMove(i, "captured")
    \/ charge[i] \in {"open", "pending", "authorised"} /\ ChargeMove(i, "failed")
-----------------------------------------------------------------------------
(* create_invoice_with_provider *)

\* A statement or a call for invoice i that fails.
Failed(i) ==
    /\ failures[i] < MaxFailures
    /\ failures' = [failures EXCEPT ![i] = @ + 1]

\* The buyer comes from the session, the owner from the database; INSERT.
CreateInvoice(i, o) ==
    /\ creating[i] = "new"
    /\ Owner[o.video] # o.buyer
    /\ order' = [order EXCEPT ![i] = o]
    /\ row' = [row EXCEPT ![i] = "pending"]
    /\ creating' = [creating EXCEPT ![i] = IF o.ref THEN "ref" ELSE "call"]
    /\ UNCHANGED <<hasRef, disbursed, providerVars, grantVars, blocked, hook, admin,
                   boundVars>>

\* UPDATE ... SET affiliate_ref, whose error is ignored.
StoreRef(i) ==
    /\ creating[i] = "ref"
    /\ \/ hasRef' = hasRef \cup {i} /\ UNCHANGED failures
       \/ Failed(i) /\ UNCHANGED hasRef
    /\ creating' = [creating EXCEPT ![i] = "call"]
    /\ UNCHANGED <<order, row, disbursed, providerVars, grantVars, blocked, hook,
                   admin, cut, crashes>>

\* plugin.create_invoice: the provider opens a charge or refuses; its answer may
\* be lost after it opened one.
CallProvider(i) ==
    /\ creating[i] = "call"
    /\ \/ /\ charge' = [charge EXCEPT ![i] = "open"]
          /\ creating' = [creating EXCEPT ![i] = "done"]
          /\ UNCHANGED failures
       \/ /\ charge' = [charge EXCEPT ![i] = "open"]
          /\ creating' = [creating EXCEPT ![i] = "undo"]
          /\ Failed(i)
       \/ /\ creating' = [creating EXCEPT ![i] = "undo"]
          /\ UNCHANGED <<charge, failures>>
    /\ UNCHANGED <<invoiceVars, sent, unanswered, grantVars, blocked, hook, admin,
                   cut, crashes>>

\* The answer was an error: DELETE FROM fiat_invoices, whatever its status.
DeleteInvoice(i) ==
    /\ creating[i] = "undo"
    /\ \/ /\ row' = [row EXCEPT ![i] = "absent"]
          /\ hasRef' = hasRef \ {i}
          /\ disbursed' = disbursed \ {i}
          /\ UNCHANGED failures
       \/ Failed(i) /\ UNCHANGED <<row, hasRef, disbursed>>
    /\ creating' = [creating EXCEPT ![i] = "done"]
    /\ UNCHANGED <<order, providerVars, grantVars, blocked, hook, admin, cut, crashes>>

\* The server stops between two statements of the request.
CreateCrash(i) ==
    /\ creating[i] \in {"ref", "call", "undo"}
    /\ crashes < MaxCrashes
    /\ crashes' = crashes + 1
    /\ creating' = [creating EXCEPT ![i] = "done"]
    /\ UNCHANGED <<invoiceVars, providerVars, grantVars, blocked, hook, admin, cut, failures>>
-----------------------------------------------------------------------------
(* handle_webhook *)

HookAt(h, at) == hook' = [hook EXCEPT ![h].at = at]

\* The handler answers 200, whatever it found; the provider is content.
Answer(h) ==
    /\ unanswered' = unanswered \ {hook[h].event}
    /\ hook' = [hook EXCEPT ![h] = IdleHook]

\* The answer says "paid".
AnswerPaid(h) ==
    /\ Answer(h)
    /\ acked' = acked \cup {hook[h].event.inv}

\* Faulty variant: the event counts as handled as soon as it is received.
ReceiveAndAnswer(h, e) ==
    /\ hook[h].at = "idle"
    /\ hook' = [hook EXCEPT ![h] = IF ConfirmPayment(e.kind) = "paid"
                                   THEN [at |-> "verified", event |-> e, due |-> FALSE]
                                   ELSE IdleHook]
    /\ unanswered' = unanswered \ {e}
    /\ UNCHANGED <<invoiceVars, creating, charge, sent, grantVars, blocked, admin,
                   boundVars>>

\* A delivery of event e arrives; anything but a payment is answered at once.
Receive(h, e) ==
    /\ hook[h].at = "idle"
    /\ IF ConfirmPayment(e.kind) = "paid"
       THEN /\ hook' = [hook EXCEPT ![h] = [at |-> "verified", event |-> e,
                                            due |-> FALSE]]
            /\ UNCHANGED unanswered
       ELSE /\ unanswered' = unanswered \ {e}
            /\ UNCHANGED hook
    /\ UNCHANGED <<invoiceVars, creating, charge, sent, grantVars, blocked, admin,
                   boundVars>>

\* The invoice has been finalized as paid.
IsReplay(i) == row[i] = "paid"

\* The payout is due: the provider pays out itself, nothing was paid out yet and
\* the creator has a bank account.
PayoutDue(i) ==
    /\ order[i].provider = "xendit"
    /\ i \notin disbursed
    /\ Owner[order[i].video] \in HasBank

\* SELECT of the invoice.  No row, a replay and a database error end with an
\* answer that the provider takes for good; a replay is told "paid".
ReadInvoice(h) ==
    LET i == hook[h].event.inv IN
    /\ hook[h].at = "verified"
    /\ \/ /\ row[i] # "absent" /\ ~IsReplay(i)
          /\ hook' = [hook EXCEPT ![h].at = "unpaid", ![h].due = PayoutDue(i)]
          /\ UNCHANGED <<unanswered, acked, failures>>
       \/ row[i] = "absent" /\ Answer(h) /\ UNCHANGED <<acked, failures>>
       \/ IsReplay(i) /\ AnswerPaid(h) /\ UNCHANGED failures
       \/ Answer(h) /\ Failed(i) /\ UNCHANGED acked
    /\ UNCHANGED <<invoiceVars, creating, charge, sent, purchases, allowlist,
                   commissions, payouts, blocked, admin, cut, crashes>>

\* Faulty variant: the provider's word for a payment is stored as the status.
MarkSettled(h) ==
    /\ hook[h].at = "unpaid"
    /\ row' = [row EXCEPT ![hook[h].event.inv] = "settled"]
    /\ HookAt(h, "marked")
    /\ UNCHANGED <<order, hasRef, disbursed, creating, providerVars, grantVars, blocked,
                   admin, boundVars>>

\* UPDATE ... SET status = 'paid' WHERE invoice_uid = ...: no look at the status.
MarkPaid(h) ==
    LET i == hook[h].event.inv IN
    /\ hook[h].at = "unpaid"
    /\ \/ /\ row' = [row EXCEPT ![i] = IF @ = "absent" THEN @ ELSE "paid"]
          /\ UNCHANGED failures
       \/ Failed(i) /\ UNCHANGED row
    /\ HookAt(h, "marked")
    /\ UNCHANGED <<order, hasRef, disbursed, creating, providerVars, grantVars, blocked,
                   admin, cut, crashes>>

\* INSERT INTO purchases: refused by the trigger when the creator has blocked the
\* buyer, and the handler goes on.
InsertPurchase(h) ==
    LET i == hook[h].event.inv
        o == order[i]
    IN  /\ hook[h].at = "marked"
        /\ \/ /\ purchases' = [purchases EXCEPT ![i] =
                    IF <<Owner[o.video], o.buyer>> \in blocked THEN @ ELSE @ + 1]
              /\ UNCHANGED failures
           \/ Failed(i) /\ UNCHANGED purchases
        /\ HookAt(h, "purchased")
        /\ UNCHANGED <<invoiceVars, creating, providerVars, allowlist, commissions,
                       payouts, acked, blocked, admin, cut, crashes>>

\* INSERT INTO allowlist ... ON CONFLICT DO NOTHING.
InsertAllowlist(h) ==
    LET i == hook[h].event.inv
        o == order[i]
    IN
    /\ hook[h].at = "purchased"
    /\ \/ allowlist' = allowlist \cup {<<o.video, o.buyer>>} /\ UNCHANGED failures
       \/ Failed(i) /\ UNCHANGED allowlist
    /\ HookAt(h, "allowed")
    /\ UNCHANGED <<invoiceVars, creating, providerVars, purchases, commissions, payouts,
                   acked, blocked, admin, cut, crashes>>

\* process_affiliate_commission, which may find that nothing is due (see WalletTx
\* for what it does); then the payout, or the end.
PayCommission(h) ==
    LET i == hook[h].event.inv IN
    /\ hook[h].at = "allowed"
    /\ \/ i \in hasRef /\ commissions' = [commissions EXCEPT ![i] = @ + 1]
       \/ UNCHANGED commissions
    /\ IF hook[h].due
       THEN HookAt(h, "payout") /\ UNCHANGED <<unanswered, acked>>
       ELSE AnswerPaid(h)
    /\ UNCHANGED <<invoiceVars, creating, charge, sent, purchases, allowlist, payouts,
                   blocked, admin, boundVars>>

\* disburse_to_creator: paid out and answered; paid out and the answer lost; or
\* refused.  An error is logged and the handler goes on.
Disburse(i, ok, error) ==
    \/ payouts' = [payouts EXCEPT ![i] = @ + 1] /\ ok /\ UNCHANGED failures
    \/ payouts' = [payouts EXCEPT ![i] = @ + 1] /\ error /\ Failed(i)
    \/ error /\ UNCHANGED <<payouts, failures>>

\* The payout the webhook decided on when it read the invoice.
HookPayout(h) ==
    /\ hook[h].at = "payout"
    /\ Disburse(hook[h].event.inv,
                HookAt(h, "paidout") /\ UNCHANGED <<unanswered, acked>>,
                AnswerPaid(h))
    /\ UNCHANGED <<invoiceVars, creating, charge, sent, purchases, allowlist,
                   commissions, blocked, admin, cut, crashes>>

\* UPDATE ... SET disbursed_at of a row that is still there.
RecordDisbursed(i) ==
    \/ /\ disbursed' = IF row[i] = "absent" THEN disbursed ELSE disbursed \cup {i}
       /\ UNCHANGED failures
    \/ Failed(i) /\ UNCHANGED disbursed

HookRecord(h) ==
    /\ hook[h].at = "paidout"
    /\ RecordDisbursed(hook[h].event.inv)
    /\ AnswerPaid(h)
    /\ UNCHANGED <<order, row, hasRef, creating, charge, sent, purchases, allowlist,
                   commissions, payouts, blocked, admin, cut, crashes>>

\* The server stops: the event stays unanswered and comes again.
HookCrash(h) ==
    /\ hook[h].at # "idle"
    /\ crashes < MaxCrashes
    /\ crashes' = crashes + 1
    /\ cut' = IF hook[h].at \in Granting THEN cut \cup {hook[h].event.inv} ELSE cut
    /\ hook' = [hook EXCEPT ![h] = IdleHook]
    /\ UNCHANGED <<invoiceVars, creating, providerVars, grantVars, blocked, admin,
                   failures>>
-----------------------------------------------------------------------------
(* admin_disburse *)

\* Faulty variant: no look at the status.
PayableAnyStatus(i) == row[i] # "absent"

\* The invoice is paid.
Payable(i) == row[i] = "paid"

\* disbursed_at is a TIMESTAMPTZ read as a String: a value is a decoding error,
\* which unwrap_or turns into None, so the guard against a second payout never
\* holds.
AlreadyDisbursed(i) == FALSE

AdminRead(a, i) ==
    /\ admin[a].at = "idle"
    /\ Payable(i) /\ ~AlreadyDisbursed(i)
    /\ order[i].provider = "xendit" => Owner[order[i].video] \in HasBank
    /\ payouts[i] < MaxPayouts
    /\ admin' = [admin EXCEPT ![a] =
            [at |-> IF order[i].provider = "xendit" THEN "payout" ELSE "record",
             inv |-> i]]
    /\ UNCHANGED <<invoiceVars, creating, providerVars, grantVars, blocked, hook,
                   boundVars>>

\* Faulty variant: the payout is recorded whatever the provider answers.
AdminPayoutUnchecked(a) ==
    /\ admin[a].at = "payout"
    /\ Disburse(admin[a].inv, admin' = [admin EXCEPT ![a].at = "record"],
                admin' = [admin EXCEPT ![a].at = "record"])
    /\ UNCHANGED <<invoiceVars, creating, providerVars, purchases, allowlist,
                   commissions, acked, blocked, hook, cut, crashes>>

AdminPayout(a) ==
    /\ admin[a].at = "payout"
    /\ Disburse(admin[a].inv, admin' = [admin EXCEPT ![a].at = "record"],
                admin' = [admin EXCEPT ![a] = IdleAdmin])
    /\ UNCHANGED <<invoiceVars, creating, providerVars, purchases, allowlist,
                   commissions, acked, blocked, hook, cut, crashes>>

AdminRecord(a) ==
    /\ admin[a].at = "record"
    /\ RecordDisbursed(admin[a].inv)
    /\ admin' = [admin EXCEPT ![a] = IdleAdmin]
    /\ UNCHANGED <<order, row, hasRef, creating, providerVars, grantVars, blocked, hook,
                   cut, crashes>>

AdminCrash(a) ==
    /\ admin[a].at # "idle"
    /\ crashes < MaxCrashes
    /\ crashes' = crashes + 1
    /\ admin' = [admin EXCEPT ![a] = IdleAdmin]
    /\ UNCHANGED <<invoiceVars, creating, providerVars, grantVars, blocked, hook,
                   cut, failures>>
-----------------------------------------------------------------------------
\* block_user and unblock_user
ChangeBlock(creator, u) ==
    /\ blocked' = IF <<creator, u>> \in blocked THEN blocked \ {<<creator, u>>}
                                                ELSE blocked \cup {<<creator, u>>}
    /\ UNCHANGED <<invoiceVars, creating, providerVars, grantVars, hook, admin,
                   boundVars>>

\* Faulty variant: a paid invoice alone does not open the video.
HasAccessByGrants(u, v) ==
    \/ <<v, u>> \in allowlist
    \/ \E i \in Invoices :
          /\ order[i] # None /\ order[i].buyer = u /\ order[i].video = v
          /\ purchases[i] > 0

\* user_has_view_access for a priced video and a user who neither owns it nor is
\* an administrator.
HasAccess(u, v) ==
    \/ <<v, u>> \in allowlist
    \/ \E i \in Invoices :
          /\ order[i] # None /\ order[i].buyer = u /\ order[i].video = v
          /\ purchases[i] > 0 \/ row[i] = "paid"

\* The buyer of invoice i can watch its video.
BuyerCanWatch(i) == order[i] # None /\ HasAccess(order[i].buyer, order[i].video)
-----------------------------------------------------------------------------
Init ==
    /\ order = [i \in Invoices |-> None]
    /\ row = [i \in Invoices |-> "absent"]
    /\ hasRef = {}
    /\ disbursed = {}
    /\ creating = [i \in Invoices |-> "new"]
    /\ charge = [i \in Invoices |-> "none"]
    /\ sent = {}
    /\ unanswered = {}
    /\ purchases = [i \in Invoices |-> 0]
    /\ allowlist = {}
    /\ commissions = [i \in Invoices |-> 0]
    /\ payouts = [i \in Invoices |-> 0]
    /\ blocked = {}
    /\ acked = {}
    /\ hook = [h \in Hooks |-> IdleHook]
    /\ admin = [a \in Admins |-> IdleAdmin]
    /\ cut = {}
    /\ failures = [i \in Invoices |-> 0]
    /\ crashes = 0

Creation(i) ==
    \/ \E o \in Orders : CreateInvoice(i, o)
    \/ StoreRef(i) \/ CallProvider(i) \/ DeleteInvoice(i) \/ CreateCrash(i)

\* The next statement of a webhook that is being served.
HookStep(h) ==
    \/ ReadInvoice(h) \/ MarkPaid(h) \/ InsertPurchase(h) \/ InsertAllowlist(h)
    \/ PayCommission(h) \/ HookPayout(h) \/ HookRecord(h)

AdminStep(a) ==
    \/ \E i \in Invoices : AdminRead(a, i)
    \/ AdminPayout(a) \/ AdminRecord(a) \/ AdminCrash(a)

Next ==
    \/ \E i \in Invoices : Creation(i) \/ BuyerActs(i)
    \/ \E h \in Hooks :
          \/ \E e \in sent : Receive(h, e)
          \/ HookStep(h)
          \/ HookCrash(h)
    \/ \E a \in Admins : AdminStep(a)
    \/ \E p \in MayBlock : ChangeBlock(p[1], p[2])

Spec == Init /\ [][Next]_vars
-----------------------------------------------------------------------------
(* Properties. *)

\* Every variable keeps its type, and only the provider's own events are handled.
TypeOK ==
    /\ order \in [Invoices -> Orders \cup {None}]
    /\ row \in [Invoices -> {"absent", "pending", "paid"}]
    /\ hasRef \subseteq Invoices
    /\ disbursed \subseteq Invoices
    /\ creating \in [Invoices -> {"new", "ref", "call", "undo", "done"}]
    /\ charge \in [Invoices -> {"none", "open"} \cup Kinds]
    /\ sent \subseteq Events
    /\ unanswered \subseteq sent
    /\ purchases \in [Invoices -> Nat]
    /\ allowlist \subseteq Videos \X Users
    /\ commissions \in [Invoices -> Nat]
    /\ payouts \in [Invoices -> Nat]
    /\ blocked \subseteq Users \X Users
    /\ acked \subseteq Invoices
    /\ hook \in [Hooks -> [at : HookPCs, event : sent \cup {None}, due : BOOLEAN]]
    /\ admin \in [Admins -> [at : {"idle", "payout", "record"},
                             inv : Invoices \cup {None}]]
    /\ cut \subseteq Invoices
    /\ failures \in [Invoices -> 0 .. MaxFailures]
    /\ crashes \in 0 .. MaxCrashes

\* The provider has said that invoice i is paid.
ReportedPaid(i) ==
    \E e \in sent : e.inv = i /\ e.kind \in {"authorised", "captured"}

\* Nothing is granted without the provider's word: an invoice is marked paid, has
\* a purchase or pays a commission only after the provider reported it paid, and
\* a buyer is on the allowlist only with such an invoice for that video.
GrantsNeedPayment ==
    /\ \A i \in Invoices :
          row[i] = "paid" \/ purchases[i] > 0 \/ commissions[i] > 0 => ReportedPaid(i)
    /\ \A p \in allowlist : \E i \in Invoices :
          /\ order[i] # None /\ order[i].video = p[1] /\ order[i].buyer = p[2]
          /\ ReportedPaid(i)

\* The creator is paid out only with money the provider has captured, by the
\* webhook and by the administrator alike.
PayoutsAreCovered == \A i \in Invoices : payouts[i] > 0 => charge[i] = "captured"

\* disbursed_at of a Xendit invoice is set only when its creator has been paid.
RecordedPayoutsHappened ==
    \A i \in disbursed : order[i].provider = "xendit" => payouts[i] > 0

\* A webhook task is between the mark of invoice i and its allowlist.
BeingGranted(i) ==
    \E h \in Hooks : hook[h].at \in Granting /\ hook[h].event.inv = i

\* The three grants back each other up: when a webhook has answered "paid", be it
\* as a replay, the buyer can watch, although one statement failed or one answer
\* was lost on the way and the creator may have blocked the buyer.  It takes two
\* to lock one out: two failures of that invoice, or the deletion of its row,
\* after the provider's answer was lost, while a handler has marked it and is not
\* yet, or was cut off before, granting the video.
AckMeansAccess ==
    \A i \in acked :
        \/ BuyerCanWatch(i)
        \/ failures[i] > 1
        \/ row[i] = "absent" /\ (i \in cut \/ BeingGranted(i))

\* No payment is lost, wherever in the webhook handler the server stops: of an
\* invoice the provider reported paid the buyer can watch, or a report of it is
\* still unanswered, so the provider repeats it.  Only a statement of that
\* invoice that failed, or the deletion of its row, loses one.
PaidIsNotLost ==
    \A i \in Invoices :
        ReportedPaid(i) =>
            \/ BuyerCanWatch(i)
            \/ \E e \in unanswered : e.inv = i /\ ConfirmPayment(e.kind) = "paid"
            \/ row[i] = "absent"
            \/ failures[i] > 0

\* The webhook handler's comment: ignoring the replays of a paid invoice "prevents
\* duplicate entitlement grants and disbursement logic".  So an invoice leads to
\* one purchase row, one commission and one payout at most.
GrantedOnce ==
    \A i \in Invoices : purchases[i] <= 1 /\ commissions[i] <= 1 /\ payouts[i] <= 1

\* The data model's rule: "A failed, expired, cancelled, or underpaid invoice must
\* not unlock content."
FailedUnlocksNothing ==
    \A i \in Invoices :
        charge[i] = "failed" =>
            \/ ~BuyerCanWatch(i)
            \/ \E j \in Invoices :
                  /\ charge[j] = "captured"
                  /\ order[j].buyer = order[i].buyer /\ order[j].video = order[i].video
=============================================================================
