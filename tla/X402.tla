-------------------------------- MODULE X402 --------------------------------
(***************************************************************************)
(* Payments in crypto-currency.  x402_start stores an invoice and hands    *)
(* the buyer a signed payload; the buyer pays the splitter contract, which *)
(* emits a Paid event; the event reaches the server twice: by the buyer's  *)
(* call of x402_confirm, which looks the transaction's receipt up, and by  *)
(* the watcher's subscription.  Both mark the invoice paid and grant the   *)
(* video, one autocommitted statement after the other, without knowing of  *)
(* each other.                                                             *)
(*                                                                         *)
(* The contract's deadline only disables payments, which need not happen   *)
(* anyway, and is left out; so are the switches and look-ups of x402_start *)
(* that end it with an error before it stores anything.                    *)
(*                                                                         *)
(* The contract is the one X402_CONTRACT_ADDRESS names.  The server signs  *)
(* eight fields; X402Splitter as it is in the repository hashes ten, its   *)
(* own address and the chain too, and so accepts no payment at all.  What  *)
(* follows is about a contract that agrees with the server.                *)
(***************************************************************************)
EXTENDS Naturals, Sequences

CONSTANTS
    Invoices,      \* x402_invoices.invoice_uid, and its hash
    Confirmers,    \* tasks that serve x402_confirm
    Users,
    Buyers,        \* users who buy
    Videos,
    Owner,         \* videos.owner_id
    PriceCents,    \* videos.price_cents
    Decimals,      \* pay_tokens.decimals of the token paid in
    Amounts,       \* token amounts a buyer may send
    HashedFields,  \* what the deployed contract checks the signature over
    MayBlock,      \* <<creator, user>> pairs for which a creator uses the block list
    None,
    MaxFaults      \* bound: statements that fail, handlers dropped half-way, restarts

ASSUME X402Assumption ==
    /\ Owner \in [Videos -> Users]
    /\ PriceCents \in [Videos -> Nat]
    /\ Decimals \in Nat
    /\ Amounts \subseteq Nat
    /\ MayBlock \subseteq Users \X Users
    /\ Buyers \subseteq Users
    /\ MaxFaults \in Nat

VARIABLES
    order,        \* what each invoice is for: fixed when x402_start runs
    row,          \* x402_invoices.status, "absent" when there is no row
    hasRef,       \* invoices whose affiliate_ref is stored
    starting,     \* where the request that creates each invoice is
    signed,       \* invoices whose signed payload the buyer has
    settled,      \* the contract: amount of each invoice's Paid event, 0 if none
    connected,    \* the watcher has a subscription
    feed,         \* events the subscription has delivered and nobody has handled
    watcher,      \* where the watcher is, and its invoice
    confirm,      \* where each x402_confirm is, its invoice and its transaction
    purchases,    \* purchases: rows inserted for each invoice
    allowlist,    \* allowlist: <<video, user>>
    commissions,  \* affiliate_commissions: rows for each invoice
    acked,        \* history: invoices x402_confirm answered with status "paid"
    cut,          \* history: invoices whose granting handler ended early
    blocked,      \* creator_blocked_users: <<creator, user>>
    failures,
    stops

startVars == <<order, hasRef, starting, signed>>
grantVars == <<purchases, allowlist, commissions>>
watchVars == <<connected, feed, watcher>>
historyVars == <<acked, cut>>
boundVars == <<failures, stops>>
vars == <<order, row, hasRef, starting, signed, settled, connected, feed, watcher,
          confirm, purchases, allowlist, commissions, acked, cut, blocked, failures,
          stops>>

\* ref: the request names an affiliate; viaPlugin: it comes through the generic
\* payment API and its x402 plug-in.
Orders == [buyer : Buyers, video : Videos, ref : BOOLEAN, viaPlugin : BOOLEAN]

ASSUME NoneAssumption == None \notin Orders

IdleWatcher == [at |-> "idle", inv |-> None]
IdleConfirm == [at |-> "idle", inv |-> None, tx |-> None]

Failed == failures + stops < MaxFaults /\ failures' = failures + 1
Stopped == failures + stops < MaxFaults /\ stops' = stops + 1
-----------------------------------------------------------------------------
(* x402_start and the plug-in's create_invoice *)

\* Faulty variant: the division rounds down.
RequiredRoundedDown(v) == (PriceCents[v] * 10 ^ Decimals) \div 100

\* The price in the token's base units, rounded up.
Required(v) == (PriceCents[v] * 10 ^ Decimals + 99) \div 100

\* x402_start: INSERT INTO x402_invoices, whose error is ignored.  Nobody asks
\* whether the buyer owns the video.
StartPay(i, o) ==
    /\ starting[i] = "new" /\ ~o.viaPlugin
    /\ Required(o.video) # 0
    /\ order' = [order EXCEPT ![i] = o]
    /\ \/ row' = [row EXCEPT ![i] = "pending"] /\ UNCHANGED failures
       \/ Failed /\ UNCHANGED row
    /\ starting' = [starting EXCEPT ![i] = IF o.ref THEN "ref" ELSE "sign"]
    /\ UNCHANGED <<hasRef, signed, settled, watchVars, confirm, grantVars, historyVars,
                   blocked, stops>>

\* The plug-in's create_invoice: no affiliate, and a failed INSERT is the answer.
\* The generic API asks who owns the video first.
CreateInvoice(i, o) ==
    /\ starting[i] = "new" /\ o.viaPlugin /\ ~o.ref
    /\ Owner[o.video] # o.buyer
    /\ Decimals <= 38 /\ Required(o.video) # 0
    /\ order' = [order EXCEPT ![i] = o]
    /\ \/ /\ row' = [row EXCEPT ![i] = "pending"]
          /\ starting' = [starting EXCEPT ![i] = "sign"]
          /\ UNCHANGED failures
       \/ Failed /\ starting' = [starting EXCEPT ![i] = "done"] /\ UNCHANGED row
    /\ UNCHANGED <<hasRef, signed, settled, watchVars, confirm, grantVars, historyVars,
                   blocked, stops>>

\* UPDATE ... SET affiliate_ref, whose error is ignored.
StoreRef(i) ==
    /\ starting[i] = "ref"
    /\ \/ /\ hasRef' = IF row[i] = "absent" THEN hasRef ELSE hasRef \cup {i}
          /\ UNCHANGED failures
       \/ Failed /\ UNCHANGED hasRef
    /\ starting' = [starting EXCEPT ![i] = "sign"]
    /\ UNCHANGED <<order, row, signed, settled, watchVars, confirm, grantVars,
                   historyVars, blocked, stops>>

\* The payload is signed and handed out, with or without a row behind it.
SignPayload(i) ==
    /\ starting[i] = "sign"
    /\ starting' = [starting EXCEPT ![i] = "done"]
    /\ signed' = signed \cup {i}
    /\ UNCHANGED <<order, row, hasRef, settled, watchVars, confirm, grantVars,
                   historyVars, blocked, boundVars>>
-----------------------------------------------------------------------------
(* X402Splitter *)

\* What SignPayload signs.
SignedFields == {"invoice", "token", "minAmount", "creator", "creatorBp", "video",
                 "payer", "deadline"}

\* Faulty variant: the contract takes any amount.
AcceptsAny(i, amount) == i \in signed /\ settled[i] = 0 /\ amount > 0

\* payNativeSigned and payERC20Signed: the administrator's signature, an invoice
\* that was not used, and at least the signed minimum.
Accepts(i, amount) ==
    /\ i \in signed /\ HashedFields = SignedFields
    /\ settled[i] = 0
    /\ amount > 0
    /\ amount >= Required(order[i].video)

\* The payment and its Paid event, which only a live subscription delivers.
PayContract(i, amount) ==
    /\ Accepts(i, amount)
    /\ settled' = [settled EXCEPT ![i] = amount]
    /\ feed' = IF connected THEN Append(feed, i) ELSE feed
    /\ UNCHANGED <<startVars, row, connected, watcher, confirm, grantVars, historyVars,
                   blocked, boundVars>>
-----------------------------------------------------------------------------
(* x402_confirm *)

ConfirmAt(t, at) == confirm' = [confirm EXCEPT ![t].at = at]

IsReplay(i) == row[i] = "paid"

\* SELECT of the invoice: a replay is answered "paid" and grants nothing.
ConfirmRead(t, i, tx) ==
    /\ confirm[t].at = "idle"
    /\ row[i] # "absent"
    /\ settled[tx] > 0
    /\ IF IsReplay(i)
       THEN acked' = acked \cup {i} /\ UNCHANGED confirm
       ELSE /\ confirm' = [confirm EXCEPT ![t] = [at |-> "read", inv |-> i, tx |-> tx]]
            /\ UNCHANGED acked
    /\ UNCHANGED <<startVars, row, settled, watchVars, grantVars, cut, blocked,
                   boundVars>>

\* Faulty variant: the hashes are compared in different notations.
NoPaidEvent(i, tx) == i # i /\ settled[tx] > 0

\* Faulty variant: any Paid event of the contract will do.
AnyPaidEvent(i, tx) == i \in Invoices /\ settled[tx] > 0

\* The receipt has a Paid event of the contract for this invoice and its video.
HasPaidEvent(i, tx) == tx = i /\ settled[tx] > 0

\* The receipt is fetched and scanned; no event: an error.  UPDATE by id alone,
\* its error ignored.  Underpaid: an error.
ConfirmMark(t) ==
    LET i == confirm[t].inv
        full == settled[confirm[t].tx] >= Required(order[i].video)
    IN  /\ confirm[t].at = "read"
        /\ \/ /\ HasPaidEvent(i, confirm[t].tx)
              /\ \/ /\ row' = [row EXCEPT ![i] = IF full THEN "paid" ELSE "underpaid"]
                    /\ UNCHANGED failures
                 \/ Failed /\ UNCHANGED row
              /\ confirm' = [confirm EXCEPT ![t] =
                    IF full THEN [@ EXCEPT !.at = "marked"] ELSE IdleConfirm]
           \/ /\ ~HasPaidEvent(i, confirm[t].tx)
              /\ confirm' = [confirm EXCEPT ![t] = IdleConfirm]
              /\ UNCHANGED <<row, failures>>
           \/ /\ Failed      \* the RPC node does not answer
              /\ confirm' = [confirm EXCEPT ![t] = IdleConfirm]
              /\ UNCHANGED row
        /\ UNCHANGED <<startVars, settled, watchVars, grantVars, historyVars, blocked,
                       stops>>

IsBlocked(i) == <<Owner[order[i].video], order[i].buyer>> \in blocked

\* purchases has no unique index on (user_id, video_id): a second INSERT adds a row.
AddPurchase(i) == purchases' = [purchases EXCEPT ![i] = @ + 1]

AddAllowlist(i) == allowlist' = allowlist \cup {<<order[i].video, order[i].buyer>>}

\* Faulty variant: a failed INSERT ends the confirmation, which still says "paid".
ConfirmPurchaseOrEnd(t) ==
    LET i == confirm[t].inv IN
    /\ confirm[t].at = "marked"
    /\ \/ /\ ~IsBlocked(i) /\ AddPurchase(i) /\ ConfirmAt(t, "purchased")
          /\ UNCHANGED <<acked, failures>>
       \/ /\ Failed /\ confirm' = [confirm EXCEPT ![t] = IdleConfirm]
          /\ acked' = acked \cup {i} /\ UNCHANGED purchases
    /\ UNCHANGED <<startVars, row, settled, watchVars, allowlist, commissions, cut,
                   blocked, stops>>

\* INSERT INTO purchases: refused by the trigger when the creator has blocked the
\* buyer; the error is ignored.
ConfirmPurchase(t) ==
    LET i == confirm[t].inv IN
    /\ confirm[t].at = "marked"
    /\ \/ ~IsBlocked(i) /\ AddPurchase(i) /\ UNCHANGED failures
       \/ IsBlocked(i) /\ UNCHANGED <<purchases, failures>>
       \/ Failed /\ UNCHANGED purchases
    /\ ConfirmAt(t, "purchased")
    /\ UNCHANGED <<startVars, row, settled, watchVars, allowlist, commissions,
                   historyVars, blocked, stops>>

\* The username and INSERT INTO allowlist: an error in either is ignored.
ConfirmAllow(t) ==
    /\ confirm[t].at = "purchased"
    /\ \/ AddAllowlist(confirm[t].inv) /\ UNCHANGED failures
       \/ Failed /\ UNCHANGED allowlist
    /\ ConfirmAt(t, "allowed")
    /\ UNCHANGED <<startVars, row, settled, watchVars, purchases, commissions,
                   historyVars, blocked, stops>>

\* process_affiliate_commission, which may find that nothing is due (see WalletTx);
\* the answer is "paid".
ConfirmCommission(t) ==
    LET i == confirm[t].inv IN
    /\ confirm[t].at = "allowed"
    /\ \/ i \in hasRef /\ commissions' = [commissions EXCEPT ![i] = @ + 1]
       \/ UNCHANGED commissions
    /\ confirm' = [confirm EXCEPT ![t] = IdleConfirm]
    /\ acked' = acked \cup {i}
    /\ UNCHANGED <<startVars, row, settled, watchVars, purchases, allowlist, cut,
                   blocked, boundVars>>
-----------------------------------------------------------------------------
(* The watcher: run_watcher, watch_once, handle_paid_event *)

WatchEnds == watcher' = IdleWatcher

\* The next event of the subscription and the SELECT by its hash.  No row or an
\* error: logged, and on to the next event.
WatchNext ==
    /\ connected /\ watcher.at = "idle" /\ feed # <<>>
    /\ feed' = Tail(feed)
    /\ \/ /\ row[Head(feed)] # "absent"
          /\ watcher' = [at |-> "found", inv |-> Head(feed)]
          /\ UNCHANGED failures
       \/ row[Head(feed)] = "absent" /\ UNCHANGED <<watcher, failures>>
       \/ Failed /\ UNCHANGED watcher
    /\ UNCHANGED <<startVars, row, settled, connected, confirm, grantVars, historyVars,
                   blocked, stops>>

\* Faulty variant: the watcher has a status of its own.
WatchMarkSeen ==
    /\ watcher.at = "found"
    /\ row' = [row EXCEPT ![watcher.inv] = "seen"]
    /\ watcher' = [watcher EXCEPT !.at = "marked"]
    /\ UNCHANGED <<startVars, settled, connected, feed, confirm, grantVars, historyVars,
                   blocked, boundVars>>

\* UPDATE ... SET status = 'paid': no look at the amount or at the status.
WatchMark ==
    /\ watcher.at = "found"
    /\ \/ /\ row' = [row EXCEPT ![watcher.inv] = "paid"]
          /\ watcher' = [watcher EXCEPT !.at = "marked"]
          /\ UNCHANGED failures
       \/ Failed /\ WatchEnds /\ UNCHANGED row
    /\ UNCHANGED <<startVars, settled, connected, feed, confirm, grantVars, historyVars,
                   blocked, stops>>

\* The username and INSERT INTO purchases: every error, the trigger's too, ends the
\* handler, and the invoice stays paid.
WatchPurchase ==
    LET i == watcher.inv IN
    /\ watcher.at = "marked"
    /\ \/ /\ ~IsBlocked(i) /\ AddPurchase(i)
          /\ watcher' = [watcher EXCEPT !.at = "purchased"]
          /\ UNCHANGED <<cut, failures>>
       \/ /\ IsBlocked(i) /\ UNCHANGED failures
          /\ WatchEnds /\ cut' = cut \cup {i} /\ UNCHANGED purchases
       \/ /\ Failed
          /\ WatchEnds /\ cut' = cut \cup {i} /\ UNCHANGED purchases
    /\ UNCHANGED <<startVars, row, settled, connected, feed, confirm, allowlist,
                   commissions, acked, blocked, stops>>

\* INSERT INTO allowlist.  The watcher pays no commission.
WatchAllow ==
    /\ watcher.at = "purchased"
    /\ \/ AddAllowlist(watcher.inv) /\ UNCHANGED failures
       \/ Failed /\ UNCHANGED allowlist
    /\ WatchEnds
    /\ UNCHANGED <<startVars, row, settled, connected, feed, confirm, purchases,
                   commissions, historyVars, blocked, stops>>

\* The socket breaks, which ends the stream between two events; what it had
\* buffered is gone.
Disconnect ==
    /\ connected /\ watcher.at = "idle"
    /\ connected' = FALSE
    /\ feed' = <<>>
    /\ UNCHANGED <<startVars, row, settled, watcher, confirm, grantVars, historyVars,
                   blocked, boundVars>>

\* run_watcher tries again after ten seconds; past events are not asked for.
Reconnect ==
    /\ ~connected
    /\ connected' = TRUE
    /\ UNCHANGED <<startVars, row, settled, feed, watcher, confirm, grantVars,
                   historyVars, blocked, boundVars>>
-----------------------------------------------------------------------------
\* A client goes away and its handler is dropped at an await.
DropConfirm(t) ==
    /\ confirm[t].at # "idle"
    /\ Stopped
    /\ confirm' = [confirm EXCEPT ![t] = IdleConfirm]
    /\ cut' = IF confirm[t].at \in {"marked", "purchased"}
              THEN cut \cup {confirm[t].inv} ELSE cut
    /\ UNCHANGED <<startVars, row, settled, watchVars, grantVars, acked, blocked,
                   failures>>

DropStart(i) ==
    /\ starting[i] \in {"ref", "sign"}
    /\ Stopped
    /\ starting' = [starting EXCEPT ![i] = "done"]
    /\ UNCHANGED <<order, row, hasRef, signed, settled, watchVars, confirm, grantVars,
                   historyVars, blocked, failures>>

\* The invoices some handler has marked paid and not yet granted.
Granting ==
    {confirm[t].inv : t \in {u \in Confirmers : confirm[u].at \in {"marked", "purchased"}}}
        \cup {watcher.inv : w \in {x \in {watcher} : x.at = "marked"}}

\* The server stops and starts again.
Restart ==
    /\ Stopped
    /\ confirm' = [t \in Confirmers |-> IdleConfirm]
    /\ watcher' = IdleWatcher
    /\ connected' = FALSE
    /\ feed' = <<>>
    /\ starting' = [i \in Invoices |-> IF starting[i] = "new" THEN "new" ELSE "done"]
    /\ cut' = cut \cup Granting
    /\ UNCHANGED <<order, hasRef, signed, row, settled, grantVars, acked, blocked,
                   failures>>

\* block_user; Fiat has unblock_user too.
Block(creator, u) ==
    /\ blocked' = blocked \cup {<<creator, u>>}
    /\ UNCHANGED <<startVars, row, settled, watchVars, confirm, grantVars, historyVars,
                   boundVars>>

\* user_has_view_access for a priced video: an x402 invoice alone opens nothing.
BuyerCanWatch(i) ==
    LET o == order[i] IN
    /\ o # None
    /\ \/ Owner[o.video] = o.buyer
       \/ <<o.video, o.buyer>> \in allowlist
       \/ \E j \in Invoices : /\ order[j] # None /\ purchases[j] > 0
                              /\ order[j].buyer = o.buyer /\ order[j].video = o.video
-----------------------------------------------------------------------------
Init ==
    /\ order = [i \in Invoices |-> None]
    /\ row = [i \in Invoices |-> "absent"]
    /\ hasRef = {}
    /\ starting = [i \in Invoices |-> "new"]
    /\ signed = {}
    /\ settled = [i \in Invoices |-> 0]
    /\ connected = FALSE
    /\ feed = <<>>
    /\ watcher = IdleWatcher
    /\ confirm = [t \in Confirmers |-> IdleConfirm]
    /\ purchases = [i \in Invoices |-> 0]
    /\ allowlist = {}
    /\ commissions = [i \in Invoices |-> 0]
    /\ acked = {}
    /\ cut = {}
    /\ blocked = {}
    /\ failures = 0
    /\ stops = 0

Start(i) ==
    \/ \E o \in Orders : StartPay(i, o) \/ CreateInvoice(i, o)
    \/ StoreRef(i) \/ SignPayload(i)

\* The next statement of a confirmation that is being served.
ConfirmStep(t) ==
    ConfirmMark(t) \/ ConfirmPurchase(t) \/ ConfirmAllow(t) \/ ConfirmCommission(t)

WatchStep == WatchNext \/ WatchMark \/ WatchPurchase \/ WatchAllow

Next ==
    \/ \E i \in Invoices : Start(i) \/ \E amount \in Amounts : PayContract(i, amount)
    \/ \E t \in Confirmers : \E i, tx \in Invoices : ConfirmRead(t, i, tx)
    \/ \E t \in Confirmers : ConfirmStep(t) \/ DropConfirm(t)
    \/ WatchStep \/ Disconnect \/ Reconnect
    \/ \E i \in Invoices : DropStart(i)
    \/ Restart
    \/ \E p \in MayBlock : Block(p[1], p[2])

Spec == Init /\ [][Next]_vars

\* The payment page calls x402_confirm with its own transaction until it is told
\* "paid", and there is always a task to serve it.
PageConfirms(i) == i \notin acked /\ \E t \in Confirmers : ConfirmRead(t, i, i)

FairSpec ==
    /\ Spec
    /\ \A i \in Invoices : SF_vars(PageConfirms(i))
    /\ \A t \in Confirmers : WF_vars(ConfirmStep(t))
    /\ WF_vars(WatchStep)
-----------------------------------------------------------------------------
(* Properties. *)

Tasks == {"idle", "read", "marked", "purchased", "allowed"}

\* Every variable keeps its type.
TypeOK ==
    /\ order \in [Invoices -> Orders \cup {None}]
    /\ row \in [Invoices -> {"absent", "pending", "underpaid", "paid"}]
    /\ hasRef \subseteq Invoices
    /\ starting \in [Invoices -> {"new", "ref", "sign", "done"}]
    /\ signed \subseteq Invoices
    /\ settled \in [Invoices -> Nat]
    /\ connected \in BOOLEAN
    /\ feed \in Seq(Invoices)
    /\ watcher \in [at : {"idle", "found", "marked", "purchased"},
                    inv : Invoices \cup {None}]
    /\ confirm \in [Confirmers -> [at : Tasks, inv : Invoices \cup {None},
                                   tx : Invoices \cup {None}]]
    /\ purchases \in [Invoices -> Nat]
    /\ allowlist \subseteq Videos \X Users
    /\ commissions \in [Invoices -> Nat]
    /\ acked \subseteq Invoices
    /\ cut \subseteq Invoices
    /\ blocked \subseteq Users \X Users
    /\ failures \in 0 .. MaxFaults
    /\ stops \in 0 .. MaxFaults

\* The two handlers together keep the promise of Entitlement: each invoice is paid
\* once on the chain, it is marked paid, sold or commissioned only after that, and
\* neither handler takes back what the other has recorded.
E == INSTANCE Entitlement WITH
        paid <- {i \in Invoices : settled[i] > 0},
        granted <- {i \in Invoices :
                       row[i] = "paid" \/ purchases[i] > 0 \/ commissions[i] > 0}
ImplementsEntitlement == E!Spec

\* Every buyer on the allowlist has paid the price of that video in full: the
\* watcher, which looks at no amount, relies on the contract's minimum, and the
\* minimum on the conversion rounding up.
AllowlistIsPaid ==
    \A p \in allowlist : \E i \in Invoices :
        /\ order[i] # None /\ order[i].video = p[1] /\ order[i].buyer = p[2]
        /\ settled[i] > 0
        /\ settled[i] * 100 >= PriceCents[p[1]] * 10 ^ Decimals

\* A paid invoice is never set back: the confirmation's unconditional UPDATE writes
\* "underpaid" over the watcher's "paid" only for an amount the contract refuses.
PaidIsFinal ==
    [][\A i \in Invoices : row[i] = "paid" => row'[i] = "paid"]_vars

\* The comment above x402_confirm's INSERT: the purchase is recorded "idempotently so
\* repeated confirmations do not create duplicate purchase rows", as the watcher says
\* of its own.  So an invoice leads to one purchase row and one commission at most.
GrantedOnce == \A i \in Invoices : purchases[i] <= 1 /\ commissions[i] <= 1

\* A buyer who was told "paid" and cannot watch: a handler is between marking the
\* invoice and granting the video, one was cut short there, or neither grant was
\* stored: a statement failed while the block list refused the other, or two failed.
LockedOutOnlyByCut ==
    \A i \in acked :
        \/ BuyerCanWatch(i)
        \/ i \in Granting \cup cut
        \/ failures > 0 /\ (IsBlocked(i) \/ failures > 1)

\* A buyer whose payment is on the chain gets to watch, however often the watcher
\* loses its subscription, unless a granting handler was cut short or a statement
\* failed.
SettledLeadsToAccess ==
    \A i \in Invoices :
        (row[i] # "absent" /\ settled[i] > 0) ~>
            (BuyerCanWatch(i) \/ i \in cut \/ failures > 0)
=============================================================================
