----------------------------- MODULE FiatProofs -----------------------------
(***************************************************************************)
(* Proofs about Fiat, for any number of invoices, webhook tasks and        *)
(* administrators.                                                         *)
(***************************************************************************)
EXTENDS Fiat, TLAPS

-----------------------------------------------------------------------------
(* The inductive invariant, part by part. *)

\* Before the request has stored an invoice there is nothing about it anywhere; there
\* is no charge before the request has called the provider.
Created ==
    \A i \in Invoices :
        /\ creating[i] # "new" => order[i] \in Orders
        /\ creating[i] = "new" => order[i] = None /\ row[i] = "absent" /\ i \notin disbursed
        /\ creating[i] \in {"ref", "call"} => row[i] # "absent"
        /\ creating[i] \in {"new", "ref", "call"} => charge[i] = "none"

\* What the provider has reported happened: a capture is final, and only some
\* providers authorise first.
ReportsAreTrue ==
    \A e \in sent :
        /\ charge[e.inv] # "none"
        /\ e.kind = "captured" => charge[e.inv] = "captured"
        /\ e.kind = "authorised" => order[e.inv].provider \in Authorising

\* A webhook task goes past the first answer only for a payment, and comes to the
\* payout only for the provider that pays out.
HooksArePaid ==
    \A h \in Hooks : hook[h].at # "idle" =>
        /\ hook[h].event \in sent
        /\ hook[h].event.kind \in {"authorised", "captured"}
        /\ hook[h].due => order[hook[h].event.inv].provider = "xendit"
        /\ hook[h].at \in {"payout", "paidout"} => hook[h].due
        /\ hook[h].at = "paidout" => payouts[hook[h].event.inv] > 0

\* An administrator's payout is for an invoice the provider reported paid.
AdminsArePaid ==
    \A a \in Admins : admin[a].at # "idle" =>
        /\ admin[a].inv \in Invoices
        /\ ReportedPaid(admin[a].inv)
        /\ admin[a].at = "payout" => order[admin[a].inv].provider = "xendit"
        /\ admin[a].at = "record" /\ order[admin[a].inv].provider = "xendit" =>
               payouts[admin[a].inv] > 0

FiatInv ==
    /\ TypeOK
    /\ Created
    /\ ReportsAreTrue
    /\ HooksArePaid
    /\ AdminsArePaid
    /\ GrantsNeedPayment
    /\ PayoutsAreCovered
    /\ RecordedPayoutsHappened


HookSlots == [at : HookPCs, event : sent \cup {None}, due : BOOLEAN]
AdminSlots == [at : {"idle", "payout", "record"}, inv : Invoices \cup {None}]

\* The event of a running task names an invoice that the request has created.
LEMMA HookInvoice ==
  ASSUME FiatInv, NEW h \in Hooks, hook[h].at # "idle"
  PROVE  /\ hook[h] \in HookSlots
         /\ hook[h].event \in sent /\ hook[h].event \in Events
         /\ hook[h].event.inv \in Invoices
         /\ creating[hook[h].event.inv] # "new"
         /\ order[hook[h].event.inv] \in Orders
         /\ ReportedPaid(hook[h].event.inv)
<1>1. hook[h] \in HookSlots
  BY DEF FiatInv, TypeOK, HookSlots
<1>2. hook[h].event \in sent /\ hook[h].event.kind \in {"authorised", "captured"}
  BY DEF FiatInv, HooksArePaid
<1>3. hook[h].event \in Events /\ hook[h].event.inv \in Invoices
  BY <1>2 DEF FiatInv, TypeOK, Events
<1>4. creating[hook[h].event.inv] # "new" /\ order[hook[h].event.inv] \in Orders
  BY <1>2, <1>3 DEF FiatInv, ReportsAreTrue, Created
<1>5. ReportedPaid(hook[h].event.inv)
  BY <1>2 DEF ReportedPaid
<1> QED BY <1>1, <1>2, <1>3, <1>4, <1>5

\* Of a task that goes on to its next statement only the position changes.
LEMMA MoveHook ==
  ASSUME FiatInv, NEW h \in Hooks, NEW at \in HookPCs, HookAt(h, at), UNCHANGED sent
  PROVE  /\ hook' \in [Hooks -> HookSlots]
         /\ hook'[h].at = at
         /\ hook'[h].event = hook[h].event
         /\ hook'[h].due = hook[h].due
         /\ \A g \in Hooks : g # h => hook'[g] = hook[g]
<1>1. hook \in [Hooks -> HookSlots] /\ hook[h] \in HookSlots
  BY DEF FiatInv, TypeOK, HookSlots
<1>2. [hook[h] EXCEPT !.at = at] \in HookSlots
  BY <1>1 DEF HookSlots
<1>3. hook' = [hook EXCEPT ![h] = [hook[h] EXCEPT !.at = at]]
  BY <1>1 DEF HookAt
<1> QED BY <1>1, <1>2, <1>3 DEF HookSlots

LEMMA IdleHookSlot == IdleHook \in HookSlots
BY DEF IdleHook, HookSlots, HookPCs

\* A task that begins or ends changes nobody else's.
LEMMA SetHook ==
  ASSUME FiatInv, NEW h \in Hooks, NEW s \in HookSlots, hook' = [hook EXCEPT ![h] = s]
  PROVE  /\ hook' \in [Hooks -> HookSlots]
         /\ hook'[h] = s
         /\ \A g \in Hooks : g # h => hook'[g] = hook[g]
BY DEF FiatInv, TypeOK, HookSlots

LEMMA SetAdmin ==
  ASSUME FiatInv, NEW a \in Admins, NEW s \in AdminSlots, admin' = [admin EXCEPT ![a] = s]
  PROVE  /\ admin' \in [Admins -> AdminSlots]
         /\ admin'[a] = s
         /\ \A b \in Admins : b # a => admin'[b] = admin[b]
BY DEF FiatInv, TypeOK, AdminSlots

LEMMA IdleAdminSlot == IdleAdmin \in AdminSlots
BY DEF IdleAdmin, AdminSlots

\* A failure is counted for its invoice.
LEMMA FailureTypes ==
  ASSUME FiatInv, NEW i \in Invoices, Failed(i)
  PROVE  /\ failures' \in [Invoices -> 0 .. MaxFailures]
         /\ \A j \in Invoices : failures[j] \in Nat /\ failures'[j] \in Nat
                                 /\ failures'[j] >= failures[j]
         /\ failures'[i] = failures[i] + 1
BY FiatAssumption DEF Failed, FiatInv, TypeOK

\* Without a failure the counts stay.
LEMMA CountsStay ==
  ASSUME FiatInv, UNCHANGED failures
  PROVE  /\ failures' \in [Invoices -> 0 .. MaxFailures]
         /\ \A j \in Invoices : failures[j] \in Nat /\ failures'[j] \in Nat
                                 /\ failures'[j] >= failures[j]
BY FiatAssumption DEF FiatInv, TypeOK

LEMMA CreateInvoiceTypes ==
  ASSUME FiatInv, NEW i \in Invoices, NEW o \in Orders, CreateInvoice(i, o)
  PROVE  TypeOK'
<1> USE FiatAssumption
<1>1. order' \in [Invoices -> Orders \cup {None}]
  BY DEF CreateInvoice, FiatInv, TypeOK
<1>2. row' \in [Invoices -> {"absent", "pending", "paid"}]
  BY DEF CreateInvoice, FiatInv, TypeOK
<1>3. creating' \in [Invoices -> {"new", "ref", "call", "undo", "done"}]
  BY DEF CreateInvoice, FiatInv, TypeOK
<1> QED BY <1>1, <1>2, <1>3
     DEF CreateInvoice, providerVars, grantVars, boundVars, FiatInv, TypeOK, HookSlots,
        AdminSlots

LEMMA StoreRefTypes ==
  ASSUME FiatInv, NEW i \in Invoices, StoreRef(i)
  PROVE  TypeOK'
<1> USE FiatAssumption
<1>1. hasRef' \subseteq Invoices
  BY DEF StoreRef, Failed, FiatInv, TypeOK
<1>2. creating' \in [Invoices -> {"new", "ref", "call", "undo", "done"}]
  BY DEF StoreRef, Failed, FiatInv, TypeOK
<1>3. failures' \in [Invoices -> 0 .. MaxFailures]
  BY FailureTypes, CountsStay DEF StoreRef
<1> QED BY <1>1, <1>2, <1>3
     DEF StoreRef, providerVars, grantVars, FiatInv, TypeOK, HookSlots, AdminSlots

LEMMA CallProviderTypes ==
  ASSUME FiatInv, NEW i \in Invoices, CallProvider(i)
  PROVE  TypeOK'
<1> USE FiatAssumption
<1>1. charge' \in [Invoices -> {"none", "open"} \cup Kinds]
  BY DEF CallProvider, Failed, FiatInv, TypeOK, Events, Kinds
<1>2. creating' \in [Invoices -> {"new", "ref", "call", "undo", "done"}]
  BY DEF CallProvider, Failed, FiatInv, TypeOK
<1>3. failures' \in [Invoices -> 0 .. MaxFailures]
  BY FailureTypes, CountsStay DEF CallProvider
<1> QED BY <1>1, <1>2, <1>3
     DEF CallProvider, invoiceVars, grantVars, FiatInv, TypeOK, HookSlots, AdminSlots

LEMMA DeleteInvoiceTypes ==
  ASSUME FiatInv, NEW i \in Invoices, DeleteInvoice(i)
  PROVE  TypeOK'
<1> USE FiatAssumption
<1>1. row' \in [Invoices -> {"absent", "pending", "paid"}]
  BY DEF DeleteInvoice, Failed, FiatInv, TypeOK
<1>2. hasRef' \subseteq Invoices
  BY DEF DeleteInvoice, Failed, FiatInv, TypeOK
<1>3. disbursed' \subseteq Invoices
  BY DEF DeleteInvoice, Failed, FiatInv, TypeOK, AdminsArePaid
<1>4. creating' \in [Invoices -> {"new", "ref", "call", "undo", "done"}]
  BY DEF DeleteInvoice, Failed, FiatInv, TypeOK
<1>5. failures' \in [Invoices -> 0 .. MaxFailures]
  BY FailureTypes, CountsStay DEF DeleteInvoice
<1> QED BY <1>1, <1>2, <1>3, <1>4, <1>5
     DEF DeleteInvoice, providerVars, grantVars, FiatInv, TypeOK, HookSlots, AdminSlots

LEMMA CreateCrashTypes ==
  ASSUME FiatInv, NEW i \in Invoices, CreateCrash(i)
  PROVE  TypeOK'
<1> USE FiatAssumption
<1>1. crashes' \in 0 .. MaxCrashes
  BY DEF CreateCrash, FiatInv, TypeOK
<1>2. creating' \in [Invoices -> {"new", "ref", "call", "undo", "done"}]
  BY DEF CreateCrash, FiatInv, TypeOK
<1> QED BY <1>1, <1>2
     DEF CreateCrash, invoiceVars, providerVars, grantVars, FiatInv, TypeOK, HookSlots,
        AdminSlots

LEMMA BuyerActsTypes ==
  ASSUME FiatInv, NEW i \in Invoices, BuyerActs(i)
  PROVE  TypeOK'
<1> USE FiatAssumption
<1>1. charge' \in [Invoices -> {"none", "open"} \cup Kinds]
  BY DEF BuyerActs, ChargeMove, FiatInv, TypeOK, Events, Kinds
<1>2. sent' \subseteq Events
  BY DEF BuyerActs, ChargeMove, FiatInv, TypeOK, Events, Kinds
<1>3. unanswered' \subseteq sent'
  BY DEF BuyerActs, ChargeMove, FiatInv, TypeOK, Events, Kinds
<1>4. hook' \in [Hooks -> HookSlots']
  BY DEF BuyerActs, ChargeMove, HookSlots, FiatInv, TypeOK
<1> QED BY <1>1, <1>2, <1>3, <1>4
     DEF BuyerActs, ChargeMove, invoiceVars, grantVars, boundVars, FiatInv, TypeOK,
        HookSlots, AdminSlots

LEMMA ReceiveTypes ==
  ASSUME FiatInv, NEW h \in Hooks, NEW e \in sent, Receive(h, e)
  PROVE  TypeOK'
<1> USE FiatAssumption
<1>1. hook' \in [Hooks -> HookSlots]
  <2>1. [at |-> "verified", event |-> e, due |-> FALSE] \in HookSlots
    BY DEF HookSlots, HookPCs
  <2> QED BY <2>1, SetHook DEF Receive, FiatInv, TypeOK, HookSlots
<1>2. unanswered' \subseteq sent'
  BY DEF Receive, ConfirmPayment, FiatInv, TypeOK, Events, Kinds
<1> QED BY <1>1, <1>2
     DEF Receive, invoiceVars, grantVars, boundVars, FiatInv, TypeOK, HookSlots,
        AdminSlots

LEMMA ReadInvoiceTypes ==
  ASSUME FiatInv, NEW h \in Hooks, ReadInvoice(h)
  PROVE  TypeOK'
<1> USE FiatAssumption
<1>1. hook' \in [Hooks -> HookSlots]
  <2>1. hook[h] \in HookSlots
    BY DEF FiatInv, TypeOK, HookSlots
  <2>2. PayoutDue(hook[h].event.inv) \in BOOLEAN
    BY DEF PayoutDue
  <2>3. [hook[h] EXCEPT !.at = "unpaid", !.due = PayoutDue(hook[h].event.inv)] \in HookSlots
    BY <2>1, <2>2 DEF HookSlots, HookPCs
  <2>4. CASE hook' = [hook EXCEPT ![h].at = "unpaid", ![h].due = PayoutDue(hook[h].event.inv)]
    <3>1. hook' = [hook EXCEPT ![h] = [hook[h] EXCEPT !.at = "unpaid", !.due = PayoutDue(hook[h].event.inv)]]
      BY <2>4 DEF FiatInv, TypeOK
    <3> QED BY <2>3, <3>1, SetHook
  <2> QED BY <2>4, SetHook, IdleHookSlot DEF ReadInvoice, AnswerPaid, Answer
<1>2. unanswered' \subseteq sent'
  BY DEF ReadInvoice, AnswerPaid, Answer, FiatInv, TypeOK, Events, Kinds
<1>3. failures' \in [Invoices -> 0 .. MaxFailures]
  BY HookInvoice, FailureTypes, CountsStay DEF ReadInvoice, Answer
<1>4. acked' \subseteq Invoices
  BY HookInvoice DEF ReadInvoice, AnswerPaid, FiatInv, TypeOK
<1> QED BY <1>1, <1>2, <1>3, <1>4
     DEF ReadInvoice, invoiceVars, grantVars, FiatInv, TypeOK, HookSlots, AdminSlots

LEMMA MarkPaidTypes ==
  ASSUME FiatInv, NEW h \in Hooks, MarkPaid(h)
  PROVE  TypeOK'
<1> USE FiatAssumption
<1>1. row' \in [Invoices -> {"absent", "pending", "paid"}]
  BY DEF MarkPaid, Failed, FiatInv, TypeOK
<1>2. hook' \in [Hooks -> HookSlots]
  BY MoveHook DEF MarkPaid, providerVars, HookPCs
<1>3. failures' \in [Invoices -> 0 .. MaxFailures]
  BY HookInvoice, FailureTypes, CountsStay DEF MarkPaid
<1> QED BY <1>1, <1>2, <1>3
     DEF MarkPaid, providerVars, grantVars, FiatInv, TypeOK, HookSlots, AdminSlots

LEMMA InsertPurchaseTypes ==
  ASSUME FiatInv, NEW h \in Hooks, InsertPurchase(h)
  PROVE  TypeOK'
<1> USE FiatAssumption
<1>1. purchases' \in [Invoices -> Nat]
  <2>1. \A j \in Invoices : purchases[j] + 1 \in Nat
    BY DEF FiatInv, TypeOK
  <2> QED BY <2>1 DEF InsertPurchase, Failed, FiatInv, TypeOK
<1>2. hook' \in [Hooks -> HookSlots]
  BY MoveHook DEF InsertPurchase, providerVars, HookPCs
<1>3. failures' \in [Invoices -> 0 .. MaxFailures]
  BY HookInvoice, FailureTypes, CountsStay DEF InsertPurchase
<1> QED BY <1>1, <1>2, <1>3
     DEF InsertPurchase, invoiceVars, providerVars, FiatInv, TypeOK, HookSlots,
        AdminSlots

LEMMA InsertAllowlistTypes ==
  ASSUME FiatInv, NEW h \in Hooks, InsertAllowlist(h)
  PROVE  TypeOK'
<1> USE FiatAssumption
<1>1. allowlist' \subseteq Videos \X Users
  BY HookInvoice DEF InsertAllowlist, Failed, FiatInv, TypeOK, Orders
<1>2. hook' \in [Hooks -> HookSlots]
  BY MoveHook DEF InsertAllowlist, providerVars, HookPCs
<1>3. failures' \in [Invoices -> 0 .. MaxFailures]
  BY HookInvoice, FailureTypes, CountsStay DEF InsertAllowlist
<1> QED BY <1>1, <1>2, <1>3
     DEF InsertAllowlist, invoiceVars, providerVars, FiatInv, TypeOK, HookSlots,
        AdminSlots

LEMMA PayCommissionTypes ==
  ASSUME FiatInv, NEW h \in Hooks, PayCommission(h)
  PROVE  TypeOK'
<1> USE FiatAssumption
<1>1. commissions' \in [Invoices -> Nat]
  <2>1. \A j \in Invoices : commissions[j] + 1 \in Nat
    BY DEF FiatInv, TypeOK
  <2> QED BY <2>1 DEF PayCommission, AnswerPaid, Answer, FiatInv, TypeOK
<1>2. hook' \in [Hooks -> HookSlots]
  BY MoveHook, SetHook, IdleHookSlot DEF PayCommission, AnswerPaid, Answer, HookPCs
<1>3. unanswered' \subseteq sent'
  BY DEF PayCommission, AnswerPaid, Answer, FiatInv, TypeOK, Events, Kinds
<1>4. acked' \subseteq Invoices
  BY HookInvoice DEF PayCommission, AnswerPaid, Answer, FiatInv, TypeOK
<1> QED BY <1>1, <1>2, <1>3, <1>4
     DEF PayCommission, invoiceVars, boundVars, FiatInv, TypeOK, HookSlots, AdminSlots

LEMMA HookPayoutTypes ==
  ASSUME FiatInv, NEW h \in Hooks, HookPayout(h)
  PROVE  TypeOK'
<1> USE FiatAssumption
<1>1. payouts' \in [Invoices -> Nat]
  <2>1. \A j \in Invoices : payouts[j] + 1 \in Nat
    BY DEF FiatInv, TypeOK
  <2> QED BY <2>1 DEF HookPayout, Disburse, AnswerPaid, Answer, Failed, FiatInv, TypeOK
<1>2. hook' \in [Hooks -> HookSlots]
  BY MoveHook, SetHook, IdleHookSlot DEF HookPayout, Disburse, AnswerPaid, Answer,
     HookPCs
<1>3. unanswered' \subseteq sent'
  BY DEF HookPayout, Disburse, AnswerPaid, Answer, Failed, FiatInv, TypeOK, Events,
     Kinds
<1>4. acked' \subseteq Invoices
  BY HookInvoice DEF HookPayout, Disburse, AnswerPaid, Answer, Failed, FiatInv, TypeOK
<1>5. failures' \in [Invoices -> 0 .. MaxFailures]
  BY HookInvoice, FailureTypes, CountsStay DEF HookPayout, Disburse, AnswerPaid, Answer
<1> QED BY <1>1, <1>2, <1>3, <1>4, <1>5
     DEF HookPayout, invoiceVars, FiatInv, TypeOK, HookSlots, AdminSlots

LEMMA HookRecordTypes ==
  ASSUME FiatInv, NEW h \in Hooks, HookRecord(h)
  PROVE  TypeOK'
<1> USE FiatAssumption
<1>1. disbursed' \subseteq Invoices
  BY HookInvoice DEF HookRecord, RecordDisbursed, AnswerPaid, Answer, Failed, FiatInv,
     TypeOK
<1>2. hook' \in [Hooks -> HookSlots]
  BY SetHook, IdleHookSlot DEF HookRecord, AnswerPaid, Answer
<1>3. unanswered' \subseteq sent'
  BY DEF HookRecord, RecordDisbursed, AnswerPaid, Answer, Failed, FiatInv, TypeOK,
     Events, Kinds
<1>4. acked' \subseteq Invoices
  BY HookInvoice DEF HookRecord, RecordDisbursed, AnswerPaid, Answer, Failed, FiatInv,
     TypeOK
<1>5. failures' \in [Invoices -> 0 .. MaxFailures]
  BY HookInvoice, FailureTypes, CountsStay DEF HookRecord, RecordDisbursed, AnswerPaid, Answer
<1> QED BY <1>1, <1>2, <1>3, <1>4, <1>5
     DEF HookRecord, FiatInv, TypeOK, HookSlots, AdminSlots

LEMMA HookCrashTypes ==
  ASSUME FiatInv, NEW h \in Hooks, HookCrash(h)
  PROVE  TypeOK'
<1> USE FiatAssumption
<1>1. crashes' \in 0 .. MaxCrashes
  BY DEF HookCrash, FiatInv, TypeOK
<1>2. hook' \in [Hooks -> HookSlots]
  BY SetHook, IdleHookSlot DEF HookCrash
<1>3. cut' \subseteq Invoices
  BY HookInvoice DEF HookCrash, Granting, FiatInv, TypeOK
<1> QED BY <1>1, <1>2, <1>3
     DEF HookCrash, invoiceVars, providerVars, grantVars, FiatInv, TypeOK, HookSlots,
        AdminSlots

LEMMA AdminReadTypes ==
  ASSUME FiatInv, NEW a \in Admins, NEW i \in Invoices, AdminRead(a, i)
  PROVE  TypeOK'
<1> USE FiatAssumption
<1>1. admin' \in [Admins -> AdminSlots]
  <2>1. [at |-> IF order[i].provider = "xendit" THEN "payout" ELSE "record",
           inv |-> i] \in AdminSlots
    BY DEF AdminSlots
  <2> QED BY <2>1, SetAdmin DEF AdminRead
<1> QED BY <1>1
     DEF AdminRead, invoiceVars, providerVars, grantVars, boundVars, FiatInv, TypeOK,
        HookSlots, AdminSlots

LEMMA AdminPayoutTypes ==
  ASSUME FiatInv, NEW a \in Admins, AdminPayout(a)
  PROVE  TypeOK'
<1> USE FiatAssumption
<1>1. payouts' \in [Invoices -> Nat]
  <2>1. \A j \in Invoices : payouts[j] + 1 \in Nat
    BY DEF FiatInv, TypeOK
  <2> QED BY <2>1 DEF AdminPayout, Disburse, Failed, FiatInv, TypeOK
<1>2. admin' \in [Admins -> AdminSlots]
  <2>1. admin[a] \in AdminSlots /\ admin \in [Admins -> AdminSlots]
    BY DEF FiatInv, TypeOK, AdminSlots
  <2>2. [admin[a] EXCEPT !.at = "record"] \in AdminSlots
    BY <2>1 DEF AdminSlots
  <2> QED BY <2>1, <2>2, IdleAdminSlot DEF AdminPayout, Disburse
<1>3. failures' \in [Invoices -> 0 .. MaxFailures]
  BY FailureTypes, CountsStay DEF AdminPayout, Disburse, FiatInv, AdminsArePaid
<1> QED BY <1>1, <1>2, <1>3
     DEF AdminPayout, invoiceVars, providerVars, FiatInv, TypeOK, HookSlots, AdminSlots

LEMMA AdminRecordTypes ==
  ASSUME FiatInv, NEW a \in Admins, AdminRecord(a)
  PROVE  TypeOK'
<1> USE FiatAssumption
<1>1. disbursed' \subseteq Invoices
  BY DEF AdminRecord, RecordDisbursed, Failed, FiatInv, TypeOK, AdminsArePaid
<1>2. admin' \in [Admins -> AdminSlots]
  BY SetAdmin, IdleAdminSlot DEF AdminRecord
<1>3. failures' \in [Invoices -> 0 .. MaxFailures]
  BY FailureTypes, CountsStay DEF AdminRecord, RecordDisbursed, FiatInv, AdminsArePaid
<1> QED BY <1>1, <1>2, <1>3
     DEF AdminRecord, providerVars, grantVars, FiatInv, TypeOK, HookSlots, AdminSlots

LEMMA AdminCrashTypes ==
  ASSUME FiatInv, NEW a \in Admins, AdminCrash(a)
  PROVE  TypeOK'
<1> USE FiatAssumption
<1>1. crashes' \in 0 .. MaxCrashes
  BY DEF AdminCrash, FiatInv, TypeOK
<1>2. admin' \in [Admins -> AdminSlots]
  BY SetAdmin, IdleAdminSlot DEF AdminCrash
<1> QED BY <1>1, <1>2
     DEF AdminCrash, invoiceVars, providerVars, grantVars, FiatInv, TypeOK, HookSlots,
        AdminSlots

LEMMA ChangeBlockTypes ==
  ASSUME FiatInv, NEW p \in MayBlock, ChangeBlock(p[1], p[2])
  PROVE  TypeOK'
<1> USE FiatAssumption
<1>1. blocked' \subseteq Users \X Users
  BY DEF ChangeBlock, FiatInv, TypeOK
<1> QED BY <1>1
     DEF ChangeBlock, invoiceVars, providerVars, grantVars, boundVars, FiatInv, TypeOK,
        HookSlots, AdminSlots

-----------------------------------------------------------------------------
(* What no step takes back. *)

\* An order is fixed once it is stored; what the provider has reported, a capture,
\* a grant, a payout and a "paid" answer stay.
FGrows ==
    /\ \A i \in Invoices : creating[i] # "new" =>
                              creating'[i] # "new" /\ order'[i] = order[i]
    /\ \A i \in Invoices : charge[i] # "none" => charge'[i] # "none"
    /\ \A i \in Invoices : charge[i] = "captured" => charge'[i] = "captured"
    /\ \A i \in Invoices : /\ purchases'[i] >= purchases[i]
                           /\ commissions'[i] >= commissions[i]
                           /\ payouts'[i] >= payouts[i]
    /\ sent \subseteq sent' /\ allowlist \subseteq allowlist' /\ acked \subseteq acked'
    /\ cut \subseteq cut'
    /\ \A i \in Invoices : failures'[i] >= failures[i]


LEMMA CreateInvoiceGrows ==
  ASSUME FiatInv, NEW i \in Invoices, NEW o \in Orders, CreateInvoice(i, o)
  PROVE  FGrows
BY FiatAssumption DEF CreateInvoice, providerVars, grantVars, boundVars, FGrows,
   FiatInv, TypeOK, Created

LEMMA StoreRefGrows ==
  ASSUME FiatInv, NEW i \in Invoices, StoreRef(i)
  PROVE  FGrows
BY FiatAssumption DEF StoreRef, Failed, providerVars, grantVars, FGrows, FiatInv, TypeOK

LEMMA CallProviderGrows ==
  ASSUME FiatInv, NEW i \in Invoices, CallProvider(i)
  PROVE  FGrows
BY FiatAssumption DEF CallProvider, Failed, invoiceVars, grantVars, FGrows, FiatInv,
   TypeOK, Created

LEMMA DeleteInvoiceGrows ==
  ASSUME FiatInv, NEW i \in Invoices, DeleteInvoice(i)
  PROVE  FGrows
BY FiatAssumption DEF DeleteInvoice, Failed, providerVars, grantVars, FGrows, FiatInv,
   TypeOK

LEMMA CreateCrashGrows ==
  ASSUME FiatInv, NEW i \in Invoices, CreateCrash(i)
  PROVE  FGrows
BY FiatAssumption DEF CreateCrash, invoiceVars, providerVars, grantVars, FGrows,
   FiatInv, TypeOK

LEMMA BuyerActsGrows ==
  ASSUME FiatInv, NEW i \in Invoices, BuyerActs(i)
  PROVE  FGrows
BY FiatAssumption DEF BuyerActs, ChargeMove, invoiceVars, grantVars, boundVars, FGrows,
   FiatInv, TypeOK

LEMMA ReceiveGrows ==
  ASSUME FiatInv, NEW h \in Hooks, NEW e \in sent, Receive(h, e)
  PROVE  FGrows
BY FiatAssumption DEF Receive, ConfirmPayment, invoiceVars, grantVars, boundVars,
   FGrows, FiatInv, TypeOK

LEMMA ReadInvoiceGrows ==
  ASSUME FiatInv, NEW h \in Hooks, ReadInvoice(h)
  PROVE  FGrows
<1>1. \A i \in Invoices : failures'[i] >= failures[i]
  BY HookInvoice, FailureTypes, CountsStay DEF ReadInvoice
<1> QED BY <1>1 DEF ReadInvoice, AnswerPaid, Answer, invoiceVars, grantVars, FGrows, FiatInv, TypeOK

LEMMA MarkPaidGrows ==
  ASSUME FiatInv, NEW h \in Hooks, MarkPaid(h)
  PROVE  FGrows
<1>1. \A i \in Invoices : failures'[i] >= failures[i]
  BY HookInvoice, FailureTypes, CountsStay DEF MarkPaid
<1> QED BY <1>1 DEF MarkPaid, providerVars, grantVars, FGrows, FiatInv, TypeOK

LEMMA InsertPurchaseGrows ==
  ASSUME FiatInv, NEW h \in Hooks, InsertPurchase(h)
  PROVE  FGrows
<1>1. \A i \in Invoices : failures'[i] >= failures[i]
  BY HookInvoice, FailureTypes, CountsStay DEF InsertPurchase
<1> QED BY <1>1 DEF InsertPurchase, invoiceVars, providerVars, FGrows, FiatInv, TypeOK

LEMMA InsertAllowlistGrows ==
  ASSUME FiatInv, NEW h \in Hooks, InsertAllowlist(h)
  PROVE  FGrows
<1>1. \A i \in Invoices : failures'[i] >= failures[i]
  BY HookInvoice, FailureTypes, CountsStay DEF InsertAllowlist
<1> QED BY <1>1 DEF InsertAllowlist, invoiceVars, providerVars, FGrows, FiatInv, TypeOK

LEMMA PayCommissionGrows ==
  ASSUME FiatInv, NEW h \in Hooks, PayCommission(h)
  PROVE  FGrows
BY FiatAssumption DEF PayCommission, AnswerPaid, Answer, invoiceVars, boundVars,
   FGrows, FiatInv, TypeOK

LEMMA HookPayoutGrows ==
  ASSUME FiatInv, NEW h \in Hooks, HookPayout(h)
  PROVE  FGrows
<1>1. \A i \in Invoices : failures'[i] >= failures[i]
  BY HookInvoice, FailureTypes, CountsStay DEF HookPayout, Disburse
<1> QED BY <1>1 DEF HookPayout, Disburse, AnswerPaid, Answer, invoiceVars,
   FGrows, FiatInv, TypeOK

LEMMA HookRecordGrows ==
  ASSUME FiatInv, NEW h \in Hooks, HookRecord(h)
  PROVE  FGrows
<1>1. \A i \in Invoices : failures'[i] >= failures[i]
  BY HookInvoice, FailureTypes, CountsStay DEF HookRecord, RecordDisbursed
<1> QED BY <1>1 DEF HookRecord, RecordDisbursed, AnswerPaid, Answer, FGrows, FiatInv, TypeOK

LEMMA HookCrashGrows ==
  ASSUME FiatInv, NEW h \in Hooks, HookCrash(h)
  PROVE  FGrows
BY FiatAssumption DEF HookCrash, invoiceVars, providerVars, grantVars, FGrows, FiatInv,
   TypeOK

LEMMA AdminReadGrows ==
  ASSUME FiatInv, NEW a \in Admins, NEW i \in Invoices, AdminRead(a, i)
  PROVE  FGrows
BY FiatAssumption DEF AdminRead, invoiceVars, providerVars, grantVars, boundVars,
   FGrows, FiatInv, TypeOK

LEMMA AdminPayoutGrows ==
  ASSUME FiatInv, NEW a \in Admins, AdminPayout(a)
  PROVE  FGrows
<1>1. \A i \in Invoices : failures'[i] >= failures[i]
  BY FailureTypes, CountsStay DEF AdminPayout, Disburse, FiatInv, AdminsArePaid
<1> QED BY <1>1 DEF AdminPayout, Disburse, invoiceVars, providerVars, FGrows, FiatInv, TypeOK

LEMMA AdminRecordGrows ==
  ASSUME FiatInv, NEW a \in Admins, AdminRecord(a)
  PROVE  FGrows
<1>1. \A i \in Invoices : failures'[i] >= failures[i]
  BY FailureTypes, CountsStay DEF AdminRecord, RecordDisbursed, FiatInv, AdminsArePaid
<1> QED BY <1>1 DEF AdminRecord, RecordDisbursed, providerVars, grantVars,
   FGrows, FiatInv, TypeOK

LEMMA AdminCrashGrows ==
  ASSUME FiatInv, NEW a \in Admins, AdminCrash(a)
  PROVE  FGrows
BY FiatAssumption DEF AdminCrash, invoiceVars, providerVars, grantVars, FGrows,
   FiatInv, TypeOK

LEMMA ChangeBlockGrows ==
  ASSUME FiatInv, NEW p \in MayBlock, ChangeBlock(p[1], p[2])
  PROVE  FGrows
BY FiatAssumption DEF ChangeBlock, invoiceVars, providerVars, grantVars, boundVars,
   FGrows, FiatInv, TypeOK

LEMMA ReportStays ==
  ASSUME FGrows, NEW i, ReportedPaid(i)
  PROVE  ReportedPaid(i)'
BY DEF FGrows, ReportedPaid

\* Reports name invoices that the request has created.
LEMMA ReportIsOrdered ==
  ASSUME FiatInv
  PROVE  /\ \A e \in sent : e \in Events /\ e.inv \in Invoices /\ creating[e.inv] # "new"
         /\ \A i \in Invoices : ReportedPaid(i) => creating[i] # "new" /\ order[i] \in Orders
BY DEF FiatInv, TypeOK, Events, ReportsAreTrue, Created, ReportedPaid

\* A charge of the provider that pays out is reported paid only when it is captured.
LEMMA ReportIsCapture ==
  ASSUME FiatInv, NEW i \in Invoices, ReportedPaid(i), order[i].provider = "xendit"
  PROVE  charge[i] = "captured"
BY DEF FiatInv, ReportsAreTrue, ReportedPaid, Authorising

\* A step after which nothing is recorded that was not, but for reported invoices.
LEMMA GrantsStay ==
  ASSUME FiatInv, FGrows, UNCHANGED allowlist,
         \A i \in Invoices : row'[i] = "paid" \/ purchases'[i] > 0 \/ commissions'[i] > 0 =>
             row[i] = "paid" \/ purchases[i] > 0 \/ commissions[i] > 0 \/ ReportedPaid(i)
  PROVE  GrantsNeedPayment'
<1>1. \A i \in Invoices : ReportedPaid(i) => ReportedPaid(i)'
  BY ReportStays
<1>2. \A i \in Invoices : row[i] = "paid" \/ purchases[i] > 0 \/ commissions[i] > 0 =>
                          ReportedPaid(i)
  BY DEF FiatInv, GrantsNeedPayment
<1>3. ASSUME NEW p \in allowlist'
      PROVE  \E i \in Invoices :
                 /\ order'[i] # None /\ order'[i].video = p[1] /\ order'[i].buyer = p[2]
                 /\ ReportedPaid(i)'
  <2>1. PICK i \in Invoices :
            /\ order[i] # None /\ order[i].video = p[1] /\ order[i].buyer = p[2]
            /\ ReportedPaid(i)
    BY <1>3 DEF FiatInv, GrantsNeedPayment
  <2>2. order'[i] = order[i]
    BY <2>1, ReportIsOrdered DEF FGrows
  <2> QED BY <1>1, <2>1, <2>2
<1> QED BY <1>1, <1>2, <1>3 DEF GrantsNeedPayment

\* The other tasks are where they were, and this one goes on or has ended.
LEMMA OneHookMoves ==
  ASSUME FiatInv, FGrows, TypeOK', NEW h \in Hooks,
         \A g \in Hooks : g # h => hook'[g] = hook[g],
         \/ hook'[h].at = "idle"
         \/ /\ hook[h].at # "idle"
            /\ hook'[h].event = hook[h].event /\ hook'[h].due = hook[h].due
            /\ hook'[h].at \in {"payout", "paidout"} => hook[h].due
            /\ hook'[h].at = "paidout" => payouts'[hook[h].event.inv] > 0
  PROVE  HooksArePaid'
<1>1. \A i \in Invoices : payouts[i] > 0 => payouts'[i] > 0
  BY DEF FiatInv, TypeOK, FGrows
<1>2. \A g \in Hooks : hook[g].at # "idle" =>
          /\ hook[g].event \in sent' /\ hook[g].event.inv \in Invoices
          /\ order'[hook[g].event.inv] = order[hook[g].event.inv]
  BY HookInvoice DEF FGrows
<1> QED BY <1>1, <1>2 DEF FiatInv, HooksArePaid

\* The tasks stay where they are.
LEMMA HooksStay ==
  ASSUME FiatInv, FGrows, TypeOK', UNCHANGED hook
  PROVE  HooksArePaid'
<1>1. \A i \in Invoices : payouts[i] > 0 => payouts'[i] > 0
  BY DEF FiatInv, TypeOK, FGrows
<1>2. \A g \in Hooks : hook[g].at # "idle" =>
          /\ hook[g].event \in sent' /\ hook[g].event.inv \in Invoices
          /\ order'[hook[g].event.inv] = order[hook[g].event.inv]
  BY HookInvoice DEF FGrows
<1> QED BY <1>1, <1>2 DEF FiatInv, HooksArePaid

\* Whatever is newly recorded as paid out was paid out.
LEMMA RecordsStay ==
  ASSUME FiatInv, FGrows, TypeOK',
         \A i \in disbursed' :
            \/ i \in disbursed
            \/ creating[i] # "new" /\ (order[i].provider = "xendit" => payouts[i] > 0)
  PROVE  RecordedPayoutsHappened'
<1>1. \A i \in Invoices : payouts[i] > 0 => payouts'[i] > 0
  BY DEF FiatInv, TypeOK, FGrows
<1>2. \A i \in disbursed' : i \in Invoices
  BY DEF TypeOK
<1>3. \A i \in disbursed' : creating[i] # "new" /\ (order[i].provider = "xendit" => payouts[i] > 0)
  BY <1>2 DEF FiatInv, Created, RecordedPayoutsHappened
<1>4. \A i \in disbursed' : order'[i] = order[i]
  BY <1>2, <1>3 DEF FGrows
<1> QED BY <1>1, <1>2, <1>3, <1>4 DEF RecordedPayoutsHappened

LEMMA CreateInvoiceKeeps ==
  ASSUME FiatInv, NEW i \in Invoices, NEW o \in Orders, CreateInvoice(i, o)
  PROVE  FiatInv' /\ FGrows
<1>1. TypeOK' /\ FGrows
  BY CreateInvoiceTypes, CreateInvoiceGrows
<1>2. Created'
  BY <1>1, HookInvoice, NoneAssumption
  DEF CreateInvoice, providerVars, grantVars, boundVars, FGrows, FiatInv, TypeOK,
     Created
<1>3. ReportsAreTrue'
  BY <1>1, ReportIsOrdered, NoneAssumption
  DEF CreateInvoice, providerVars, grantVars, boundVars, FGrows, FiatInv, TypeOK,
     Created, ReportsAreTrue, HooksArePaid, AdminsArePaid
<1>4. HooksArePaid'
  BY <1>1, HooksStay DEF CreateInvoice
<1>5. AdminsArePaid'
  BY <1>1, ReportStays, ReportIsOrdered, NoneAssumption
  DEF CreateInvoice, providerVars, grantVars, boundVars, FGrows, FiatInv, TypeOK,
     AdminsArePaid, GrantsNeedPayment, Created
<1>6. GrantsNeedPayment'
  BY <1>1, GrantsStay DEF CreateInvoice, providerVars, grantVars, FiatInv, TypeOK
<1>7. RecordedPayoutsHappened'
  BY <1>1, RecordsStay DEF CreateInvoice
<1>8. PayoutsAreCovered'
  BY DEF CreateInvoice, providerVars, grantVars, boundVars, FiatInv, PayoutsAreCovered
<1> QED BY <1>1, <1>2, <1>3, <1>4, <1>5, <1>6, <1>7, <1>8 DEF FiatInv

LEMMA StoreRefKeeps ==
  ASSUME FiatInv, NEW i \in Invoices, StoreRef(i)
  PROVE  FiatInv' /\ FGrows
<1>1. TypeOK' /\ FGrows
  BY StoreRefTypes, StoreRefGrows
<1>2. Created'
  BY <1>1, HookInvoice, NoneAssumption
  DEF StoreRef, Failed, providerVars, grantVars, FGrows, FiatInv, TypeOK, Created
<1>3. ReportsAreTrue' /\ HooksArePaid' /\ AdminsArePaid' /\ GrantsNeedPayment' /\ PayoutsAreCovered' /\ RecordedPayoutsHappened'
  BY DEF StoreRef, providerVars, grantVars, FiatInv, ReportsAreTrue, HooksArePaid,
     AdminsArePaid, GrantsNeedPayment, PayoutsAreCovered, RecordedPayoutsHappened,
     ReportedPaid
<1> QED BY <1>1, <1>2, <1>3 DEF FiatInv

LEMMA CallProviderKeeps ==
  ASSUME FiatInv, NEW i \in Invoices, CallProvider(i)
  PROVE  FiatInv' /\ FGrows
<1>1. TypeOK' /\ FGrows
  BY CallProviderTypes, CallProviderGrows
<1>2. Created'
  BY <1>1, HookInvoice, NoneAssumption
  DEF CallProvider, Failed, invoiceVars, grantVars, FGrows, FiatInv, TypeOK, Created
<1>3. ReportsAreTrue'
  BY <1>1, ReportIsOrdered, NoneAssumption
  DEF CallProvider, Failed, invoiceVars, grantVars, FGrows, FiatInv, TypeOK,
     ReportsAreTrue, HooksArePaid, AdminsArePaid
<1>4. PayoutsAreCovered'
  BY <1>1, HookInvoice, ReportIsCapture, NoneAssumption
  DEF CallProvider, Failed, invoiceVars, grantVars, FGrows, FiatInv, TypeOK,
     ReportsAreTrue, HooksArePaid, AdminsArePaid, PayoutsAreCovered
<1>5. HooksArePaid' /\ AdminsArePaid' /\ GrantsNeedPayment' /\ RecordedPayoutsHappened'
  BY DEF CallProvider, invoiceVars, grantVars, FiatInv, HooksArePaid, AdminsArePaid,
     GrantsNeedPayment, RecordedPayoutsHappened, ReportedPaid
<1> QED BY <1>1, <1>2, <1>3, <1>4, <1>5 DEF FiatInv

LEMMA DeleteInvoiceKeeps ==
  ASSUME FiatInv, NEW i \in Invoices, DeleteInvoice(i)
  PROVE  FiatInv' /\ FGrows
<1>1. TypeOK' /\ FGrows
  BY DeleteInvoiceTypes, DeleteInvoiceGrows
<1>2. Created'
  BY <1>1, HookInvoice, NoneAssumption
  DEF DeleteInvoice, Failed, providerVars, grantVars, FGrows, FiatInv, TypeOK, Created
<1>3. GrantsNeedPayment'
  BY <1>1, GrantsStay DEF DeleteInvoice, grantVars, FiatInv, TypeOK
<1>4. RecordedPayoutsHappened'
  BY <1>1, RecordsStay DEF DeleteInvoice
<1>5. ReportsAreTrue' /\ HooksArePaid' /\ AdminsArePaid' /\ PayoutsAreCovered'
  BY DEF DeleteInvoice, providerVars, grantVars, FiatInv, ReportsAreTrue, HooksArePaid,
     AdminsArePaid, PayoutsAreCovered, ReportedPaid
<1> QED BY <1>1, <1>2, <1>3, <1>4, <1>5 DEF FiatInv

LEMMA CreateCrashKeeps ==
  ASSUME FiatInv, NEW i \in Invoices, CreateCrash(i)
  PROVE  FiatInv' /\ FGrows
<1>1. TypeOK' /\ FGrows
  BY CreateCrashTypes, CreateCrashGrows
<1>2. Created'
  BY <1>1, HookInvoice, NoneAssumption
  DEF CreateCrash, invoiceVars, providerVars, grantVars, FGrows, FiatInv, TypeOK,
     Created
<1>3. ReportsAreTrue' /\ HooksArePaid' /\ AdminsArePaid' /\ GrantsNeedPayment' /\ PayoutsAreCovered' /\ RecordedPayoutsHappened'
  BY DEF CreateCrash, invoiceVars, providerVars, grantVars, FiatInv, ReportsAreTrue,
     HooksArePaid, AdminsArePaid, GrantsNeedPayment, PayoutsAreCovered,
     RecordedPayoutsHappened, ReportedPaid
<1> QED BY <1>1, <1>2, <1>3 DEF FiatInv

LEMMA BuyerActsKeeps ==
  ASSUME FiatInv, NEW i \in Invoices, BuyerActs(i)
  PROVE  FiatInv' /\ FGrows
<1>1. TypeOK' /\ FGrows
  BY BuyerActsTypes, BuyerActsGrows
<1>2. Created'
  BY <1>1, HookInvoice, NoneAssumption
  DEF BuyerActs, ChargeMove, invoiceVars, grantVars, boundVars, FGrows, FiatInv,
     TypeOK, Created
<1>3. ReportsAreTrue'
  BY <1>1, ReportIsOrdered, NoneAssumption
  DEF BuyerActs, ChargeMove, invoiceVars, grantVars, boundVars, FGrows, FiatInv,
     TypeOK, ReportsAreTrue, HooksArePaid, AdminsArePaid
<1>4. HooksArePaid'
  BY <1>1, HooksStay DEF BuyerActs, ChargeMove
<1>5. AdminsArePaid'
  BY <1>1, ReportStays, ReportIsOrdered, NoneAssumption
  DEF BuyerActs, ChargeMove, invoiceVars, grantVars, boundVars, FGrows, FiatInv,
     TypeOK, AdminsArePaid, GrantsNeedPayment
<1>6. GrantsNeedPayment'
  BY <1>1, GrantsStay DEF BuyerActs, ChargeMove, grantVars, invoiceVars
<1>7. PayoutsAreCovered'
  BY <1>1, HookInvoice, ReportIsCapture, NoneAssumption
  DEF BuyerActs, ChargeMove, invoiceVars, grantVars, boundVars, FGrows, FiatInv,
     TypeOK, ReportsAreTrue, HooksArePaid, AdminsArePaid, PayoutsAreCovered
<1>8. RecordedPayoutsHappened'
  BY DEF BuyerActs, ChargeMove, invoiceVars, grantVars, boundVars, FiatInv,
     RecordedPayoutsHappened
<1> QED BY <1>1, <1>2, <1>3, <1>4, <1>5, <1>6, <1>7, <1>8 DEF FiatInv

LEMMA ReceiveKeeps ==
  ASSUME FiatInv, NEW h \in Hooks, NEW e \in sent, Receive(h, e)
  PROVE  FiatInv' /\ FGrows
<1>1. TypeOK' /\ FGrows
  BY ReceiveTypes, ReceiveGrows
<1>2. HooksArePaid'
  <2>1. CASE UNCHANGED hook
    BY <2>1 DEF Receive, grantVars, invoiceVars, FiatInv, HooksArePaid
  <2>2. CASE /\ ConfirmPayment(e.kind) = "paid"
             /\ hook' = [hook EXCEPT ![h] = [at |-> "verified", event |-> e,
                                             due |-> FALSE]]
    <3>1. e \in Events /\ e.kind \in Kinds
      BY DEF FiatInv, TypeOK, Events
    <3>2. e.kind \in {"authorised", "captured"}
      BY <2>2, <3>1 DEF ConfirmPayment, Kinds
    <3>3. hook'[h] = [at |-> "verified", event |-> e, due |-> FALSE]
          /\ \A g \in Hooks : g # h => hook'[g] = hook[g]
      BY <2>2 DEF FiatInv, TypeOK
    <3>4. ASSUME NEW g \in Hooks, g # h, hook[g].at # "idle"
          PROVE  hook'[g] = hook[g]
      BY <3>3, <3>4
    <3> QED BY <3>2, <3>3 DEF Receive, grantVars, invoiceVars, FiatInv, HooksArePaid
  <2> QED BY <2>1, <2>2 DEF Receive
<1>3. Created' /\ ReportsAreTrue' /\ AdminsArePaid' /\ GrantsNeedPayment' /\ PayoutsAreCovered' /\ RecordedPayoutsHappened'
  BY DEF Receive, invoiceVars, grantVars, boundVars, FiatInv, Created, ReportsAreTrue,
     AdminsArePaid, GrantsNeedPayment, PayoutsAreCovered, RecordedPayoutsHappened,
     ReportedPaid
<1> QED BY <1>1, <1>2, <1>3 DEF FiatInv

LEMMA ReadInvoiceKeeps ==
  ASSUME FiatInv, NEW h \in Hooks, ReadInvoice(h)
  PROVE  FiatInv' /\ FGrows
<1>1. TypeOK' /\ FGrows
  BY ReadInvoiceTypes, ReadInvoiceGrows
<1>2. HooksArePaid'
  <2>1. CASE hook' = [hook EXCEPT ![h] = IdleHook]
    BY <1>1, <2>1, SetHook, IdleHookSlot, OneHookMoves DEF IdleHook
  <2>2. CASE hook' = [hook EXCEPT ![h].at = "unpaid", ![h].due = PayoutDue(hook[h].event.inv)]
    <3>1. hook \in [Hooks -> HookSlots]
      BY DEF FiatInv, TypeOK, HookSlots
    <3>2. /\ hook'[h].at = "unpaid" /\ hook'[h].event = hook[h].event
          /\ hook'[h].due = PayoutDue(hook[h].event.inv)
          /\ \A g \in Hooks : g # h => hook'[g] = hook[g]
      BY <2>2, <3>1 DEF HookSlots
    <3>3. UNCHANGED <<order, sent, payouts>> /\ hook[h].at # "idle"
      BY DEF ReadInvoice, invoiceVars, grantVars
    <3>4. HooksArePaid
      BY DEF FiatInv
    <3>5. hook'[h].due => order'[hook[h].event.inv].provider = "xendit"
      BY <3>2, <3>3 DEF PayoutDue
    <3> QED BY <3>2, <3>3, <3>4, <3>5 DEF HooksArePaid
  <2> QED BY <2>1, <2>2 DEF ReadInvoice, AnswerPaid, Answer
<1>3. Created' /\ ReportsAreTrue' /\ AdminsArePaid' /\ GrantsNeedPayment' /\ PayoutsAreCovered' /\ RecordedPayoutsHappened'
  BY DEF ReadInvoice, invoiceVars, grantVars, FiatInv, Created, ReportsAreTrue,
     AdminsArePaid, GrantsNeedPayment, PayoutsAreCovered, RecordedPayoutsHappened,
     ReportedPaid
<1> QED BY <1>1, <1>2, <1>3 DEF FiatInv

LEMMA MarkPaidKeeps ==
  ASSUME FiatInv, NEW h \in Hooks, MarkPaid(h)
  PROVE  FiatInv' /\ FGrows
<1>1. TypeOK' /\ FGrows
  BY MarkPaidTypes, MarkPaidGrows
<1>2. Created'
  BY <1>1, HookInvoice, NoneAssumption
  DEF MarkPaid, Failed, providerVars, grantVars, FGrows, FiatInv, TypeOK, Created
<1>3. HooksArePaid'
  BY <1>1, MoveHook, OneHookMoves DEF MarkPaid, providerVars, HookPCs
<1>4. GrantsNeedPayment'
  <2>1. ReportedPaid(hook[h].event.inv)
    BY HookInvoice DEF MarkPaid
  <2>2. \A i \in Invoices : i # hook[h].event.inv => row'[i] = row[i]
    BY DEF MarkPaid, FiatInv, TypeOK
  <2> QED BY <1>1, <2>1, <2>2, GrantsStay DEF MarkPaid, grantVars
<1>5. ReportsAreTrue' /\ AdminsArePaid' /\ PayoutsAreCovered' /\ RecordedPayoutsHappened'
  BY DEF MarkPaid, providerVars, grantVars, FiatInv, ReportsAreTrue, AdminsArePaid,
     PayoutsAreCovered, RecordedPayoutsHappened, ReportedPaid
<1> QED BY <1>1, <1>2, <1>3, <1>4, <1>5 DEF FiatInv

LEMMA InsertPurchaseKeeps ==
  ASSUME FiatInv, NEW h \in Hooks, InsertPurchase(h)
  PROVE  FiatInv' /\ FGrows
<1>1. TypeOK' /\ FGrows
  BY InsertPurchaseTypes, InsertPurchaseGrows
<1>2. HooksArePaid'
  BY <1>1, MoveHook, OneHookMoves DEF InsertPurchase, providerVars, HookPCs
<1>3. GrantsNeedPayment'
  <2>1. ReportedPaid(hook[h].event.inv)
    BY HookInvoice DEF InsertPurchase
  <2>2. \A i \in Invoices : i # hook[h].event.inv => purchases'[i] = purchases[i]
    BY DEF InsertPurchase, FiatInv, TypeOK
  <2> QED BY <1>1, <2>1, <2>2, GrantsStay DEF InsertPurchase, invoiceVars
<1>4. Created' /\ ReportsAreTrue' /\ AdminsArePaid' /\ PayoutsAreCovered' /\ RecordedPayoutsHappened'
  BY DEF InsertPurchase, invoiceVars, providerVars, FiatInv, Created, ReportsAreTrue,
     AdminsArePaid, PayoutsAreCovered, RecordedPayoutsHappened, ReportedPaid
<1> QED BY <1>1, <1>2, <1>3, <1>4 DEF FiatInv

LEMMA InsertAllowlistKeeps ==
  ASSUME FiatInv, NEW h \in Hooks, InsertAllowlist(h)
  PROVE  FiatInv' /\ FGrows
<1>1. TypeOK' /\ FGrows
  BY InsertAllowlistTypes, InsertAllowlistGrows
<1>2. HooksArePaid'
  BY <1>1, MoveHook, OneHookMoves DEF InsertAllowlist, providerVars, HookPCs
<1>3. GrantsNeedPayment'
  <2>1. UNCHANGED <<order, row, purchases, commissions, sent>>
    BY DEF InsertAllowlist, invoiceVars, providerVars
  <2>2. \A i \in Invoices : ReportedPaid(i)' <=> ReportedPaid(i)
    BY <2>1 DEF ReportedPaid
  <2>3. hook[h].at # "idle"
    BY DEF InsertAllowlist
  <2>4. order[hook[h].event.inv] # None
    BY <2>3, HookInvoice, NoneAssumption
  <2>5. ASSUME NEW p \in allowlist'
        PROVE  \E i \in Invoices :
                   /\ order[i] # None /\ order[i].video = p[1] /\ order[i].buyer = p[2]
                   /\ ReportedPaid(i)
    <3>1. CASE p \in allowlist
      BY <3>1 DEF FiatInv, GrantsNeedPayment
    <3>2. CASE p = <<order[hook[h].event.inv].video, order[hook[h].event.inv].buyer>>
      BY <2>3, <2>4, <3>2, HookInvoice
    <3> QED BY <2>5, <3>1, <3>2 DEF InsertAllowlist
  <2> QED BY <2>1, <2>2, <2>5 DEF FiatInv, GrantsNeedPayment
<1>4. Created' /\ ReportsAreTrue' /\ AdminsArePaid' /\ PayoutsAreCovered' /\ RecordedPayoutsHappened'
  BY DEF InsertAllowlist, invoiceVars, providerVars, FiatInv, Created, ReportsAreTrue,
     AdminsArePaid, PayoutsAreCovered, RecordedPayoutsHappened, ReportedPaid
<1> QED BY <1>1, <1>2, <1>3, <1>4 DEF FiatInv

LEMMA PayCommissionKeeps ==
  ASSUME FiatInv, NEW h \in Hooks, PayCommission(h)
  PROVE  FiatInv' /\ FGrows
<1>1. TypeOK' /\ FGrows
  BY PayCommissionTypes, PayCommissionGrows
<1>2. HooksArePaid'
  <2>1. hook[h].at = "allowed" /\ UNCHANGED sent
    BY DEF PayCommission
  <2>2. CASE hook[h].due
    BY <1>1, <2>1, <2>2, MoveHook, OneHookMoves DEF PayCommission, HookPCs
  <2>3. CASE hook' = [hook EXCEPT ![h] = IdleHook]
    BY <1>1, <2>3, SetHook, IdleHookSlot, OneHookMoves DEF IdleHook
  <2> QED BY <2>2, <2>3 DEF PayCommission, AnswerPaid, Answer
<1>3. GrantsNeedPayment'
  <2>1. ReportedPaid(hook[h].event.inv)
    BY HookInvoice DEF PayCommission
  <2>2. \A i \in Invoices : i # hook[h].event.inv => commissions'[i] = commissions[i]
    BY DEF PayCommission, FiatInv, TypeOK
  <2> QED BY <1>1, <2>1, <2>2, GrantsStay DEF PayCommission, invoiceVars
<1>4. Created' /\ ReportsAreTrue' /\ AdminsArePaid' /\ PayoutsAreCovered' /\ RecordedPayoutsHappened'
  BY DEF PayCommission, invoiceVars, boundVars, FiatInv, Created, ReportsAreTrue,
     AdminsArePaid, PayoutsAreCovered, RecordedPayoutsHappened, ReportedPaid
<1> QED BY <1>1, <1>2, <1>3, <1>4 DEF FiatInv

LEMMA HookPayoutKeeps ==
  ASSUME FiatInv, NEW h \in Hooks, HookPayout(h)
  PROVE  FiatInv' /\ FGrows
<1>1. TypeOK' /\ FGrows
  BY HookPayoutTypes, HookPayoutGrows
<1>2. HooksArePaid'
  <2>1. hook[h].at = "payout" /\ hook[h].due /\ UNCHANGED sent
    BY DEF HookPayout, FiatInv, HooksArePaid
  <2>2. CASE /\ payouts' = [payouts EXCEPT ![hook[h].event.inv] = @ + 1]
             /\ HookAt(h, "paidout")
    <3>1. payouts[hook[h].event.inv] \in Nat
          /\ payouts'[hook[h].event.inv] = payouts[hook[h].event.inv] + 1
      BY <2>1, <2>2, HookInvoice DEF FiatInv, TypeOK
    <3>2. payouts'[hook[h].event.inv] > 0
      BY <3>1
    <3> QED BY <1>1, <2>1, <2>2, <3>2, MoveHook, OneHookMoves DEF HookPCs
  <2>3. CASE hook' = [hook EXCEPT ![h] = IdleHook]
    BY <1>1, <2>3, SetHook, IdleHookSlot, OneHookMoves DEF IdleHook
  <2> QED BY <2>2, <2>3 DEF HookPayout, Disburse, AnswerPaid, Answer
<1>3. AdminsArePaid'
  BY <1>1, ReportStays, ReportIsOrdered, NoneAssumption
  DEF HookPayout, Disburse, AnswerPaid, Answer, Failed, invoiceVars, FGrows, FiatInv,
     TypeOK, AdminsArePaid, GrantsNeedPayment
<1>4. PayoutsAreCovered'
  <2>1. hook[h].event.inv \in Invoices /\ charge[hook[h].event.inv] = "captured"
    BY HookInvoice, ReportIsCapture DEF HookPayout, FiatInv, HooksArePaid
  <2>2. \A i \in Invoices : i # hook[h].event.inv => payouts'[i] = payouts[i]
    BY DEF HookPayout, Disburse, FiatInv, TypeOK
  <2> QED BY <2>1, <2>2 DEF HookPayout, FiatInv, PayoutsAreCovered
<1>5. RecordedPayoutsHappened'
  BY <1>1, RecordsStay DEF HookPayout, invoiceVars
<1>6. Created' /\ ReportsAreTrue' /\ GrantsNeedPayment'
  BY DEF HookPayout, invoiceVars, FiatInv, Created, ReportsAreTrue, GrantsNeedPayment,
     ReportedPaid
<1> QED BY <1>1, <1>2, <1>3, <1>4, <1>5, <1>6 DEF FiatInv

LEMMA HookRecordKeeps ==
  ASSUME FiatInv, NEW h \in Hooks, HookRecord(h)
  PROVE  FiatInv' /\ FGrows
<1>1. TypeOK' /\ FGrows
  BY HookRecordTypes, HookRecordGrows
<1>2. Created'
  BY <1>1, HookInvoice, NoneAssumption
  DEF HookRecord, RecordDisbursed, AnswerPaid, Answer, Failed, FGrows, FiatInv, TypeOK,
     Created
<1>3. HooksArePaid'
  BY <1>1, SetHook, IdleHookSlot, OneHookMoves DEF HookRecord, AnswerPaid, Answer,
     IdleHook
<1>4. RecordedPayoutsHappened'
  <2> DEFINE i == hook[h].event.inv
  <2>1. creating[i] # "new" /\ payouts[i] > 0
    BY HookInvoice DEF HookRecord, FiatInv, HooksArePaid
  <2>2. disbursed' \subseteq disbursed \cup {i}
    BY DEF HookRecord, RecordDisbursed
  <2> HIDE DEF i
  <2> QED BY <1>1, <2>1, <2>2, RecordsStay
<1>5. ReportsAreTrue' /\ AdminsArePaid' /\ GrantsNeedPayment' /\ PayoutsAreCovered'
  BY DEF HookRecord, FiatInv, ReportsAreTrue, AdminsArePaid, GrantsNeedPayment,
     PayoutsAreCovered, ReportedPaid
<1> QED BY <1>1, <1>2, <1>3, <1>4, <1>5 DEF FiatInv

LEMMA HookCrashKeeps ==
  ASSUME FiatInv, NEW h \in Hooks, HookCrash(h)
  PROVE  FiatInv' /\ FGrows
<1>1. TypeOK' /\ FGrows
  BY HookCrashTypes, HookCrashGrows
<1>2. HooksArePaid'
  BY <1>1, SetHook, IdleHookSlot, OneHookMoves DEF HookCrash, IdleHook
<1>3. Created' /\ ReportsAreTrue' /\ AdminsArePaid' /\ GrantsNeedPayment' /\ PayoutsAreCovered' /\ RecordedPayoutsHappened'
  BY DEF HookCrash, invoiceVars, providerVars, grantVars, FiatInv, Created,
     ReportsAreTrue, AdminsArePaid, GrantsNeedPayment, PayoutsAreCovered,
     RecordedPayoutsHappened, ReportedPaid
<1> QED BY <1>1, <1>2, <1>3 DEF FiatInv

LEMMA AdminReadKeeps ==
  ASSUME FiatInv, NEW a \in Admins, NEW i \in Invoices, AdminRead(a, i)
  PROVE  FiatInv' /\ FGrows
<1>1. TypeOK' /\ FGrows
  BY AdminReadTypes, AdminReadGrows
<1>2. AdminsArePaid'
  BY <1>1, ReportStays, ReportIsOrdered, NoneAssumption
  DEF AdminRead, invoiceVars, providerVars, grantVars, boundVars, FGrows, FiatInv,
     TypeOK, AdminsArePaid, GrantsNeedPayment, IdleAdmin, Payable
<1>3. Created' /\ ReportsAreTrue' /\ HooksArePaid' /\ GrantsNeedPayment' /\ PayoutsAreCovered' /\ RecordedPayoutsHappened'
  BY DEF AdminRead, invoiceVars, providerVars, grantVars, boundVars, FiatInv, Created,
     ReportsAreTrue, HooksArePaid, GrantsNeedPayment, PayoutsAreCovered,
     RecordedPayoutsHappened, ReportedPaid
<1> QED BY <1>1, <1>2, <1>3 DEF FiatInv

LEMMA AdminPayoutKeeps ==
  ASSUME FiatInv, NEW a \in Admins, AdminPayout(a)
  PROVE  FiatInv' /\ FGrows
<1>1. TypeOK' /\ FGrows
  BY AdminPayoutTypes, AdminPayoutGrows
<1>2. HooksArePaid'
  BY <1>1, HooksStay DEF AdminPayout
<1>3. AdminsArePaid'
  BY <1>1, ReportStays, ReportIsOrdered, NoneAssumption
  DEF AdminPayout, Disburse, Failed, invoiceVars, providerVars, FGrows, FiatInv,
     TypeOK, AdminsArePaid, GrantsNeedPayment, IdleAdmin
<1>4. PayoutsAreCovered'
  <2>1. admin[a].inv \in Invoices /\ charge[admin[a].inv] = "captured"
    BY ReportIsCapture DEF AdminPayout, FiatInv, AdminsArePaid
  <2>2. \A i \in Invoices : i # admin[a].inv => payouts'[i] = payouts[i]
    BY DEF AdminPayout, Disburse, FiatInv, TypeOK
  <2> QED BY <2>1, <2>2 DEF AdminPayout, providerVars, FiatInv, PayoutsAreCovered
<1>5. RecordedPayoutsHappened'
  BY <1>1, RecordsStay DEF AdminPayout, invoiceVars
<1>6. Created' /\ ReportsAreTrue' /\ GrantsNeedPayment'
  BY DEF AdminPayout, invoiceVars, providerVars, FiatInv, Created, ReportsAreTrue,
     GrantsNeedPayment, ReportedPaid
<1> QED BY <1>1, <1>2, <1>3, <1>4, <1>5, <1>6 DEF FiatInv

LEMMA AdminRecordKeeps ==
  ASSUME FiatInv, NEW a \in Admins, AdminRecord(a)
  PROVE  FiatInv' /\ FGrows
<1>1. TypeOK' /\ FGrows
  BY AdminRecordTypes, AdminRecordGrows
<1>2. Created'
  BY <1>1, HookInvoice, NoneAssumption
  DEF AdminRecord, RecordDisbursed, Failed, providerVars, grantVars, FGrows, FiatInv,
     TypeOK, Created
<1>3. AdminsArePaid'
  BY <1>1, ReportStays, ReportIsOrdered, NoneAssumption
  DEF AdminRecord, RecordDisbursed, Failed, providerVars, grantVars, FGrows, FiatInv,
     TypeOK, AdminsArePaid, GrantsNeedPayment, IdleAdmin
<1>4. RecordedPayoutsHappened'
  <2> DEFINE i == admin[a].inv
  <2>1. creating[i] # "new" /\ (order[i].provider = "xendit" => payouts[i] > 0)
    BY ReportIsOrdered DEF AdminRecord, FiatInv, AdminsArePaid
  <2>2. disbursed' \subseteq disbursed \cup {i}
    BY DEF AdminRecord, RecordDisbursed
  <2> HIDE DEF i
  <2> QED BY <1>1, <2>1, <2>2, RecordsStay
<1>5. ReportsAreTrue' /\ HooksArePaid' /\ GrantsNeedPayment' /\ PayoutsAreCovered'
  BY DEF AdminRecord, providerVars, grantVars, FiatInv, ReportsAreTrue, HooksArePaid,
     GrantsNeedPayment, PayoutsAreCovered, ReportedPaid
<1> QED BY <1>1, <1>2, <1>3, <1>4, <1>5 DEF FiatInv

LEMMA AdminCrashKeeps ==
  ASSUME FiatInv, NEW a \in Admins, AdminCrash(a)
  PROVE  FiatInv' /\ FGrows
<1>1. TypeOK' /\ FGrows
  BY AdminCrashTypes, AdminCrashGrows
<1>2. AdminsArePaid'
  BY <1>1, ReportStays, ReportIsOrdered, NoneAssumption
  DEF AdminCrash, invoiceVars, providerVars, grantVars, FGrows, FiatInv, TypeOK,
     AdminsArePaid, GrantsNeedPayment, IdleAdmin
<1>3. Created' /\ ReportsAreTrue' /\ HooksArePaid' /\ GrantsNeedPayment' /\ PayoutsAreCovered' /\ RecordedPayoutsHappened'
  BY DEF AdminCrash, invoiceVars, providerVars, grantVars, FiatInv, Created,
     ReportsAreTrue, HooksArePaid, GrantsNeedPayment, PayoutsAreCovered,
     RecordedPayoutsHappened, ReportedPaid
<1> QED BY <1>1, <1>2, <1>3 DEF FiatInv

LEMMA ChangeBlockKeeps ==
  ASSUME FiatInv, NEW p \in MayBlock, ChangeBlock(p[1], p[2])
  PROVE  FiatInv' /\ FGrows
<1>1. TypeOK' /\ FGrows
  BY ChangeBlockTypes, ChangeBlockGrows
<1>2. Created' /\ ReportsAreTrue' /\ HooksArePaid' /\ AdminsArePaid' /\ GrantsNeedPayment' /\ PayoutsAreCovered' /\ RecordedPayoutsHappened'
  BY DEF ChangeBlock, invoiceVars, providerVars, grantVars, boundVars, FiatInv, Created,
     ReportsAreTrue, HooksArePaid, AdminsArePaid, GrantsNeedPayment, PayoutsAreCovered,
     RecordedPayoutsHappened, ReportedPaid
<1> QED BY <1>1, <1>2 DEF FiatInv

LEMMA FiatInit == Init => FiatInv
<1> SUFFICES ASSUME Init PROVE FiatInv
  OBVIOUS
<1> USE FiatAssumption
<1>1. TypeOK
  <2>1. /\ order \in [Invoices -> Orders \cup {None}]
        /\ row \in [Invoices -> {"absent", "pending", "paid"}]
        /\ creating \in [Invoices -> {"new", "ref", "call", "undo", "done"}]
        /\ charge \in [Invoices -> {"none", "open"} \cup Kinds]
    BY DEF Init
  <2>2. /\ purchases \in [Invoices -> Nat] /\ commissions \in [Invoices -> Nat]
        /\ payouts \in [Invoices -> Nat]
    BY DEF Init
  <2>3. hook \in [Hooks -> HookSlots] /\ admin \in [Admins -> AdminSlots]
    BY IdleHookSlot, IdleAdminSlot DEF Init
  <2>4. /\ hasRef \subseteq Invoices /\ disbursed \subseteq Invoices
        /\ sent \subseteq Events /\ unanswered \subseteq sent
        /\ allowlist \subseteq Videos \X Users /\ blocked \subseteq Users \X Users
        /\ acked \subseteq Invoices /\ cut \subseteq Invoices
    BY DEF Init
  <2>5. failures \in [Invoices -> 0 .. MaxFailures] /\ crashes \in 0 .. MaxCrashes
    BY DEF Init
  <2> QED BY <2>1, <2>2, <2>3, <2>4, <2>5 DEF TypeOK, HookSlots, AdminSlots
<1>2. Created /\ ReportsAreTrue
  BY DEF Init, Created, ReportsAreTrue
<1>3. HooksArePaid /\ AdminsArePaid
  BY DEF Init, HooksArePaid, AdminsArePaid, IdleHook, IdleAdmin
<1>4. GrantsNeedPayment /\ PayoutsAreCovered /\ RecordedPayoutsHappened
  BY DEF Init, GrantsNeedPayment, PayoutsAreCovered, RecordedPayoutsHappened
<1> QED BY <1>1, <1>2, <1>3, <1>4 DEF FiatInv

LEMMA FiatStep ==
  ASSUME FiatInv, [Next]_vars
  PROVE  FiatInv' /\ FGrows
<1>1. ASSUME NEW i \in Invoices, Creation(i) PROVE FiatInv' /\ FGrows
  BY <1>1, CreateInvoiceKeeps, StoreRefKeeps, CallProviderKeeps, DeleteInvoiceKeeps,
     CreateCrashKeeps DEF Creation
<1>2. ASSUME NEW i \in Invoices, BuyerActs(i) PROVE FiatInv' /\ FGrows
  BY <1>2, BuyerActsKeeps
<1>3. ASSUME NEW h \in Hooks, NEW e \in sent, Receive(h, e) PROVE FiatInv' /\ FGrows
  BY <1>3, ReceiveKeeps
<1>4. ASSUME NEW h \in Hooks, HookStep(h) \/ HookCrash(h) PROVE FiatInv' /\ FGrows
  BY <1>4, ReadInvoiceKeeps, MarkPaidKeeps, InsertPurchaseKeeps, InsertAllowlistKeeps,
     PayCommissionKeeps, HookPayoutKeeps, HookRecordKeeps, HookCrashKeeps DEF HookStep
<1>5. ASSUME NEW a \in Admins, AdminStep(a) PROVE FiatInv' /\ FGrows
  BY <1>5, AdminReadKeeps, AdminPayoutKeeps, AdminRecordKeeps, AdminCrashKeeps
     DEF AdminStep
<1>6. ASSUME NEW p \in MayBlock, ChangeBlock(p[1], p[2]) PROVE FiatInv' /\ FGrows
  BY <1>6, ChangeBlockKeeps
<1>7. CASE UNCHANGED vars
  <2>1. FiatInv'
    BY <1>7 DEF vars, FiatInv, TypeOK, Created, ReportsAreTrue, HooksArePaid,
       AdminsArePaid, GrantsNeedPayment, ReportedPaid, PayoutsAreCovered,
       RecordedPayoutsHappened
  <2>2. FGrows
    BY <1>7, FiatAssumption DEF vars, FGrows, FiatInv, TypeOK
  <2> QED BY <2>1, <2>2
<1> QED BY <1>1, <1>2, <1>3, <1>4, <1>5, <1>6, <1>7 DEF Next

\* Whatever order the webhooks, the buyer, the administrator and the request come in,
\* and wherever they fail or stop, what the server does follows a report of the
\* provider.
THEOREM FiatInvariant == Spec => []FiatInv
<1>1. FiatInv /\ [Next]_vars => FiatInv'
  BY FiatStep
<1> QED BY <1>1, FiatInit, PTL DEF Spec

\* Every variable keeps its type.
THEOREM FiatType == Spec => []TypeOK
BY FiatInvariant, PTL DEF FiatInv

\* Nothing is marked paid, sold, commissioned or opened without the provider's word.
THEOREM FiatGrantsNeedPayment == Spec => []GrantsNeedPayment
BY FiatInvariant, PTL DEF FiatInv

\* No creator is paid out with money that is not captured, however many webhooks and
\* administrators pay out at the same time.
THEOREM FiatPayoutsAreCovered == Spec => []PayoutsAreCovered
BY FiatInvariant, PTL DEF FiatInv

\* A recorded payout has happened.
THEOREM FiatRecordedPayoutsHappened == Spec => []RecordedPayoutsHappened
BY FiatInvariant, PTL DEF FiatInv

-----------------------------------------------------------------------------
(* The three grants back each other up. *)

\* The buyer of invoice i can watch, or two things went wrong; a paid row counts
\* as long as the request that created it is not about to delete it.
Backed(i) ==
    \/ <<order[i].video, order[i].buyer>> \in allowlist
    \/ row[i] = "paid" /\ creating[i] # "undo"
    \/ failures[i] > 1

\* So it is, or a task is still to put the buyer on the allowlist or was cut off.
Owed(i) == Backed(i) \/ i \in cut \/ BeingGranted(i)

\* The row no longer waits for a payment, unless one or two failures left it so.
NotPending(i, n) ==
    \/ row[i] # "pending"
    \/ <<order[i].video, order[i].buyer>> \in allowlist
    \/ failures[i] > n

\* A task past the UPDATE of the row, and one past the INSERT into the allowlist.
Marked == {"marked", "purchased", "allowed", "payout", "paidout"}
Finished == {"allowed", "payout", "paidout"}

\* A row is deleted under an open charge only because an answer was lost.
LostByFailure ==
    \A i \in Invoices :
        charge[i] # "none" /\ (creating[i] = "undo" \/ row[i] = "absent") =>
            failures[i] > 0

MarkedOrFailed ==
    \A h \in Hooks : hook[h].at \in Marked =>
        row[hook[h].event.inv] = "paid" \/ failures[hook[h].event.inv] > 0

FinishedIsBacked ==
    \A h \in Hooks : hook[h].at \in Finished => Backed(hook[h].event.inv)

PaidIsOwed == \A i \in Invoices : row[i] = "paid" => Owed(i)

AckedIsOwed == \A i \in acked : charge[i] # "none" /\ Owed(i) /\ NotPending(i, 1)

\* What the provider need not repeat has been dealt with.
AnsweredIsMarked ==
    \A e \in sent : ConfirmPayment(e.kind) = "paid" =>
        e \in unanswered \/ NotPending(e.inv, 0)

AckInv ==
    /\ LostByFailure
    /\ MarkedOrFailed
    /\ FinishedIsBacked
    /\ PaidIsOwed
    /\ AckedIsOwed
    /\ AnsweredIsMarked

\* What a step may do to the row of an invoice whose charge is open.
RowSteady ==
    \A i \in Invoices : charge[i] # "none" =>
        /\ creating[i] # "undo" =>
              creating'[i] # "undo" /\ (row[i] = "paid" => row'[i] = "paid")
        /\ row[i] = "paid" => row'[i] = "paid" \/ failures'[i] > 0
        /\ row'[i] = "pending" => row[i] = "pending"

\* What a step may do to the webhook tasks: one becomes marked only when the row is
\* paid or a statement has failed, and finished only with the buyer backed; one that
\* is still granting goes on or is cut off; and a row becomes paid under its task.
HooksSteady ==
    /\ \A h \in Hooks, i \in Invoices :
          hook'[h].at \in Marked /\ hook'[h].event.inv = i =>
              /\ hook[h].at # "idle" /\ hook[h].event.inv = i
              /\ hook[h].at \in Marked \/ row'[i] = "paid" \/ failures'[i] > 0
              /\ hook'[h].at \in Finished => hook[h].at \in Finished \/ Backed(i)'
    /\ \A h \in Hooks : hook[h].at \in Granting =>
          \/ hook'[h].at \in Marked /\ hook'[h].event = hook[h].event
          \/ hook[h].event.inv \in cut'
    /\ \A i \in Invoices : row'[i] = "paid" =>
          \/ row[i] = "paid"
          \/ \E h \in Hooks : hook'[h].at = "marked" /\ hook'[h].event.inv = i

\* What a step may do to the events and the answers.
AnswersSteady ==
    /\ \A i \in acked' :
          \/ i \in acked \/ row[i] = "paid"
          \/ \E h \in Hooks : hook[h].at \in Finished /\ hook[h].event.inv = i
    /\ \A e \in sent' : e \in sent \/ e \in unanswered'
    /\ \A e \in unanswered :
          \/ e \in unanswered' \/ ConfirmPayment(e.kind) # "paid"
          \/ NotPending(e.inv, 0) \/ failures'[e.inv] > 0

LEMMA BackedStays ==
  ASSUME FiatInv, TypeOK', FGrows, RowSteady, NEW i \in Invoices, charge[i] # "none",
         Backed(i)
  PROVE  Backed(i)'
<1>1. order'[i] = order[i]
  BY DEF FiatInv, Created, TypeOK, FGrows
<1>2. CASE <<order[i].video, order[i].buyer>> \in allowlist
  BY <1>1, <1>2 DEF FGrows, Backed
<1>3. CASE row[i] = "paid" /\ creating[i] # "undo"
  BY <1>3 DEF RowSteady, Backed
<1>4. CASE failures[i] > 1
  BY <1>4, FiatAssumption DEF FGrows, Backed, FiatInv, TypeOK
<1> QED BY <1>2, <1>3, <1>4 DEF Backed

LEMMA NotPendingStays ==
  ASSUME FiatInv, TypeOK', FGrows, RowSteady, NEW i \in Invoices, charge[i] # "none",
         NEW n \in Nat, NotPending(i, n)
  PROVE  NotPending(i, n)'
<1>1. order'[i] = order[i]
  BY DEF FiatInv, Created, TypeOK, FGrows
<1>2. CASE row[i] # "pending"
  BY <1>2 DEF RowSteady, NotPending
<1>3. CASE <<order[i].video, order[i].buyer>> \in allowlist
  BY <1>1, <1>3 DEF FGrows, NotPending
<1>4. CASE failures[i] > n
  BY <1>4, FiatAssumption DEF FGrows, NotPending, FiatInv, TypeOK
<1> QED BY <1>2, <1>3, <1>4 DEF NotPending

\* A task that is granting invoice i goes on with it, or is counted as cut off.
LEMMA OwedStays ==
  ASSUME FiatInv, TypeOK', FGrows, RowSteady, HooksSteady, FinishedIsBacked',
         NEW i \in Invoices, charge[i] # "none", Owed(i)
  PROVE  Owed(i)'
<1>1. CASE Backed(i)
  BY <1>1, BackedStays DEF Owed
<1>2. CASE i \in cut
  BY <1>2 DEF Owed, FGrows
<1>3. CASE BeingGranted(i)
  <2>1. PICK h \in Hooks : hook[h].at \in Granting /\ hook[h].event.inv = i
    BY <1>3 DEF BeingGranted
  <2>2. CASE i \in cut'
    BY <2>2 DEF Owed
  <2>3. CASE hook'[h].at \in Marked /\ hook'[h].event = hook[h].event
    <3>1. CASE hook'[h].at \in Granting
      BY <2>1, <2>3, <3>1 DEF Owed, BeingGranted
    <3>2. CASE hook'[h].at \in Finished
      <4>1. Backed(i)'
        BY <2>1, <2>3, <3>2 DEF FinishedIsBacked, Backed
      <4> QED BY <4>1 DEF Owed
    <3> QED BY <2>3, <3>1, <3>2 DEF Marked, Granting, Finished
  <2> QED BY <2>1, <2>2, <2>3 DEF HooksSteady
<1> QED BY <1>1, <1>2, <1>3 DEF Owed

\* What is left to show of a step: that it is steady.
LEMMA AckStep ==
  ASSUME FiatInv, FiatInv', FGrows, AckInv, RowSteady, HooksSteady, AnswersSteady,
         LostByFailure'
  PROVE  AckInv'
<1>1. ASSUME NEW h \in Hooks, hook[h].at # "idle"
      PROVE  hook[h].event.inv \in Invoices /\ charge[hook[h].event.inv] # "none"
  BY <1>1, HookInvoice DEF FiatInv, ReportsAreTrue
<1>2. \A h \in Hooks : hook'[h].at # "idle" => hook'[h].event.inv \in Invoices
  BY DEF FiatInv, HooksArePaid, TypeOK, Events
<1>3. \A i \in Invoices : failures[i] > 0 => failures'[i] > 0
  BY FiatAssumption DEF FGrows, FiatInv, TypeOK
<1>4. TypeOK'
  BY DEF FiatInv
<1>5. MarkedOrFailed'
  <2> SUFFICES ASSUME NEW h \in Hooks, hook'[h].at \in Marked
               PROVE  row'[hook'[h].event.inv] = "paid" \/ failures'[hook'[h].event.inv] > 0
    BY DEF MarkedOrFailed
  <2>1. PICK i \in Invoices : i = hook'[h].event.inv
    BY <1>2 DEF Marked
  <2>2. CASE hook[h].at \in Marked
    <3>1. hook[h].at # "idle" /\ hook[h].event.inv = i
      BY <2>1 DEF HooksSteady
    <3>2. row[i] = "paid" \/ failures[i] > 0
      BY <2>2, <3>1 DEF AckInv, MarkedOrFailed
    <3>3. charge[i] # "none"
      BY <1>1, <3>1
    <3> QED BY <1>3, <2>1, <3>2, <3>3 DEF RowSteady
  <2> QED BY <2>1, <2>2 DEF HooksSteady
<1>6. FinishedIsBacked'
  <2> SUFFICES ASSUME NEW h \in Hooks, hook'[h].at \in Finished, NEW i \in Invoices,
                      i = hook'[h].event.inv
               PROVE  Backed(i)'
    BY <1>2 DEF FinishedIsBacked, Finished, Backed
  <2>1. /\ hook[h].at # "idle" /\ hook[h].event.inv = i
        /\ hook[h].at \in Finished \/ Backed(i)'
    BY DEF Marked, Finished, HooksSteady
  <2>2. CASE hook[h].at \in Finished
    <3>1. Backed(i)
      BY <2>1, <2>2 DEF AckInv, FinishedIsBacked
    <3>2. charge[i] # "none"
      BY <1>1, <2>1
    <3> QED BY <1>4, <3>1, <3>2, BackedStays
  <2> QED BY <2>1, <2>2
<1>7. \A i \in Invoices : ReportedPaid(i) => charge[i] # "none"
  BY DEF FiatInv, ReportsAreTrue, ReportedPaid
<1>8. PaidIsOwed'
  <2> SUFFICES ASSUME NEW i \in Invoices, row'[i] = "paid" PROVE Owed(i)'
    BY DEF PaidIsOwed
  <2>1. CASE row[i] = "paid"
    <3>1. Owed(i) /\ charge[i] # "none"
      BY <1>7, <2>1 DEF AckInv, PaidIsOwed, FiatInv, GrantsNeedPayment
    <3> QED BY <1>4, <1>6, <3>1, OwedStays
  <2>2. CASE \E h \in Hooks : hook'[h].at = "marked" /\ hook'[h].event.inv = i
    BY <2>2 DEF Owed, BeingGranted, Granting
  <2> QED BY <2>1, <2>2 DEF HooksSteady
<1>9. AckedIsOwed'
  <2> SUFFICES ASSUME NEW i \in acked'
               PROVE  charge'[i] # "none" /\ Owed(i)' /\ NotPending(i, 1)'
    BY DEF AckedIsOwed
  <2>1. i \in Invoices
    BY <1>4 DEF TypeOK
  <2>2. charge[i] # "none" /\ Owed(i) /\ NotPending(i, 1)
    <3>1. CASE i \in acked
      BY <3>1 DEF AckInv, AckedIsOwed
    <3>2. CASE row[i] = "paid"
      BY <1>7, <2>1, <3>2 DEF AckInv, PaidIsOwed, FiatInv, GrantsNeedPayment, NotPending
    <3>3. CASE \E h \in Hooks : hook[h].at \in Finished /\ hook[h].event.inv = i
      <4>1. PICK h \in Hooks : hook[h].at \in Finished /\ hook[h].event.inv = i
        BY <3>3
      <4>2. charge[i] # "none" /\ Backed(i)
        BY <1>1, <4>1 DEF AckInv, FinishedIsBacked, Finished
      <4> QED BY <4>2 DEF Backed, Owed, NotPending
    <3> QED BY <3>1, <3>2, <3>3 DEF AnswersSteady
  <2> QED BY <1>4, <1>6, <2>1, <2>2, OwedStays, NotPendingStays DEF FGrows
<1>10. AnsweredIsMarked'
  <2> SUFFICES ASSUME NEW e \in sent', ConfirmPayment(e.kind) = "paid", e \notin unanswered'
               PROVE  NotPending(e.inv, 0)'
    BY DEF AnsweredIsMarked
  <2>1. e \in sent /\ e.inv \in Invoices /\ charge[e.inv] # "none"
    BY ReportIsOrdered DEF AnswersSteady, FiatInv, ReportsAreTrue
  <2>2. NotPending(e.inv, 0) \/ failures'[e.inv] > 0
    BY <2>1 DEF AnswersSteady, AckInv, AnsweredIsMarked
  <2>3. CASE NotPending(e.inv, 0)
    BY <1>4, <2>1, <2>3, NotPendingStays
  <2> QED BY <2>2, <2>3 DEF NotPending
<1> QED BY <1>5, <1>6, <1>8, <1>9, <1>10 DEF AckInv

\* The failures that explain a deleted row stay counted.
LEMMA LostStays ==
  ASSUME FiatInv, FiatInv', FGrows, LostByFailure,
         \A i \in Invoices :
             charge'[i] # "none" /\ (creating'[i] = "undo" \/ row'[i] = "absent") =>
                 \/ charge[i] # "none" /\ (creating[i] = "undo" \/ row[i] = "absent")
                 \/ failures'[i] > 0
  PROVE  LostByFailure'
<1>1. \A i \in Invoices : failures[i] > 0 => failures'[i] > 0
  BY FiatAssumption DEF FGrows, FiatInv, TypeOK
<1> QED BY <1>1 DEF LostByFailure

\* A step that marks no task, ends none that is granting and answers no payment.
LEMMA QuietAck ==
  ASSUME FiatInv, FiatInv', FGrows, AckInv,
         UNCHANGED <<row, creating, charge, sent>>, AnswersSteady,
         \A h \in Hooks : hook'[h].at \in Marked =>
             /\ hook[h].at \in Marked /\ hook'[h].event = hook[h].event
             /\ hook'[h].at \in Finished => hook[h].at \in Finished,
         \A h \in Hooks : hook[h].at \in Granting =>
             \/ hook'[h].at \in Marked /\ hook'[h].event = hook[h].event
             \/ hook[h].event.inv \in cut'
  PROVE  AckInv'
<1>1. RowSteady
  BY DEF RowSteady
<1>2. HooksSteady
  BY DEF HooksSteady, Marked
<1>3. LostByFailure'
  BY LostStays DEF AckInv
<1> QED BY <1>1, <1>2, <1>3, AckStep

\* The requests that create invoices, and the buyer: no task moves.
LEMMA RequestAck ==
  ASSUME FiatInv, FiatInv', FGrows, AckInv, RowSteady, LostByFailure',
         \A i \in Invoices : row'[i] = "paid" => row[i] = "paid",
         \A e \in sent' : e \in sent \/ e \in unanswered',
         unanswered \subseteq unanswered',
         UNCHANGED <<hook, acked>>
  PROVE  AckInv'
<1>1. HooksSteady
  BY DEF HooksSteady, Marked, Granting
<1>2. AnswersSteady
  BY DEF AnswersSteady
<1> QED BY <1>1, <1>2, AckStep

LEMMA CreateInvoiceAck ==
  ASSUME FiatInv, FiatInv', FGrows, AckInv, NEW i \in Invoices, NEW o \in Orders,
         CreateInvoice(i, o)
  PROVE  AckInv'
<1>1. charge[i] = "none" /\ UNCHANGED <<hook, acked, charge, failures, sent, unanswered>>
  BY DEF CreateInvoice, FiatInv, Created, providerVars, grantVars, boundVars
<1>2. \A j \in Invoices : j # i => row'[j] = row[j] /\ creating'[j] = creating[j]
  BY DEF CreateInvoice, FiatInv, TypeOK
<1>3. row'[i] # "paid"
  BY DEF CreateInvoice, FiatInv, TypeOK
<1>4. RowSteady
  BY <1>1, <1>2 DEF RowSteady
<1>5. LostByFailure'
  BY <1>1, <1>2 DEF LostByFailure, AckInv
<1> QED BY <1>1, <1>2, <1>3, <1>4, <1>5, RequestAck

LEMMA StoreRefAck ==
  ASSUME FiatInv, FiatInv', FGrows, AckInv, NEW i \in Invoices, StoreRef(i)
  PROVE  AckInv'
<1>1. charge[i] = "none" /\ UNCHANGED <<hook, acked, charge, row, sent, unanswered>>
  BY DEF StoreRef, FiatInv, Created, providerVars, grantVars
<1>2. \A j \in Invoices : j # i => creating'[j] = creating[j]
  BY DEF StoreRef, FiatInv, TypeOK
<1>3. RowSteady
  BY <1>1, <1>2 DEF RowSteady
<1>4. LostByFailure'
  BY <1>1, <1>2, LostStays DEF AckInv
<1> QED BY <1>1, <1>3, <1>4, RequestAck

LEMMA CallProviderAck ==
  ASSUME FiatInv, FiatInv', FGrows, AckInv, NEW i \in Invoices, CallProvider(i)
  PROVE  AckInv'
<1>1. /\ creating[i] = "call" /\ charge[i] = "none" /\ row[i] # "absent"
      /\ UNCHANGED <<hook, acked, row, sent, unanswered>>
  BY DEF CallProvider, FiatInv, Created, invoiceVars, grantVars
<1>2. \A j \in Invoices : j # i => creating'[j] = creating[j] /\ charge'[j] = charge[j]
  BY DEF CallProvider, FiatInv, TypeOK
<1>3. RowSteady
  BY <1>1, <1>2 DEF RowSteady
<1>4. creating'[i] = "undo" /\ charge'[i] # "none" => failures'[i] > 0
  BY <1>1, FiatAssumption DEF CallProvider, Failed, FiatInv, TypeOK
<1>5. LostByFailure'
  BY <1>1, <1>2, <1>4, LostStays DEF AckInv
<1> QED BY <1>1, <1>3, <1>5, RequestAck

LEMMA DeleteInvoiceAck ==
  ASSUME FiatInv, FiatInv', FGrows, AckInv, NEW i \in Invoices, DeleteInvoice(i)
  PROVE  AckInv'
<1>1. creating[i] = "undo" /\ UNCHANGED <<hook, acked, charge, sent, unanswered>>
  BY DEF DeleteInvoice, providerVars, grantVars
<1>2. /\ \A j \in Invoices : j # i => creating'[j] = creating[j] /\ row'[j] = row[j]
      /\ row'[i] = row[i] \/ row'[i] = "absent"
  BY DEF DeleteInvoice, FiatInv, TypeOK
<1>3. charge[i] # "none" => failures'[i] > 0
  BY <1>1, FiatAssumption DEF AckInv, LostByFailure, FGrows, FiatInv, TypeOK
<1>4. RowSteady
  BY <1>1, <1>2, <1>3 DEF RowSteady
<1>5. LostByFailure'
  BY <1>1, <1>2, <1>3, LostStays DEF AckInv
<1> QED BY <1>1, <1>2, <1>4, <1>5, RequestAck

LEMMA CreateCrashAck ==
  ASSUME FiatInv, FiatInv', FGrows, AckInv, NEW i \in Invoices, CreateCrash(i)
  PROVE  AckInv'
<1>1. UNCHANGED <<hook, acked, charge, row, failures, sent, unanswered>>
  BY DEF CreateCrash, invoiceVars, providerVars, grantVars
<1>2. \A j \in Invoices : creating'[j] = "undo" => creating[j] = "undo"
  BY DEF CreateCrash, FiatInv, TypeOK
<1>3. RowSteady /\ LostByFailure'
  BY <1>1, <1>2 DEF RowSteady, LostByFailure, AckInv
<1> QED BY <1>1, <1>3, RequestAck

LEMMA BuyerActsAck ==
  ASSUME FiatInv, FiatInv', FGrows, AckInv, NEW i \in Invoices, BuyerActs(i)
  PROVE  AckInv'
<1>1. UNCHANGED <<hook, acked, creating, row, failures>>
  BY DEF BuyerActs, ChargeMove, invoiceVars, grantVars, boundVars
<1>2. \A j \in Invoices : charge'[j] # "none" => charge[j] # "none"
  BY DEF BuyerActs, ChargeMove, FiatInv, TypeOK
<1>3. /\ \A e \in sent' : e \in sent \/ e \in unanswered'
      /\ unanswered \subseteq unanswered'
  BY DEF BuyerActs, ChargeMove
<1>4. RowSteady /\ LostByFailure'
  BY <1>1, <1>2 DEF RowSteady, LostByFailure, AckInv
<1> QED BY <1>1, <1>3, <1>4, RequestAck

LEMMA ReceiveAck ==
  ASSUME FiatInv, FiatInv', FGrows, AckInv, NEW h \in Hooks, NEW e \in sent, Receive(h, e)
  PROVE  AckInv'
<1>1. UNCHANGED <<row, creating, charge, acked, sent>>
  BY DEF Receive, invoiceVars, grantVars
<1>2. \A g \in Hooks :
          \/ hook'[g] = hook[g]
          \/ hook[g].at = "idle" /\ hook'[g].at = "verified"
  BY DEF Receive, FiatInv, TypeOK
<1>3. \A f \in unanswered : f \in unanswered' \/ ConfirmPayment(f.kind) # "paid"
  BY DEF Receive
<1>4. AnswersSteady
  BY <1>1, <1>3 DEF AnswersSteady
<1> QED BY <1>1, <1>2, <1>4, QuietAck DEF Marked, Granting

\* An event that ends at the SELECT finds the row gone or paid, or fails.
LEMMA ReadInvoiceAck ==
  ASSUME FiatInv, FiatInv', FGrows, AckInv, NEW h \in Hooks, ReadInvoice(h)
  PROVE  AckInv'
<1> DEFINE i == hook[h].event.inv
<1>1. hook[h].at = "verified" /\ UNCHANGED <<row, creating, charge, sent>>
  BY DEF ReadInvoice, invoiceVars
<1>2. \A g \in Hooks : \/ hook'[g] = hook[g]
                       \/ g = h /\ hook'[g].at \in {"unpaid", "idle"}
  BY DEF ReadInvoice, AnswerPaid, Answer, IdleHook, FiatInv, TypeOK
<1>3. i \in Invoices
  BY <1>1, HookInvoice
<1>4. CASE row[i] # "absent" /\ ~IsReplay(i) /\ UNCHANGED <<unanswered, acked, failures>>
  <2>1. AnswersSteady
    BY <1>1, <1>4 DEF AnswersSteady
  <2> QED BY <1>1, <1>2, <2>1, QuietAck DEF Marked, Granting
<1>5. CASE row[i] = "absent" /\ Answer(h) /\ UNCHANGED <<acked, failures>>
  <2>1. NotPending(i, 0)
    BY <1>5 DEF NotPending
  <2>2. AnswersSteady
    BY <1>1, <1>5, <2>1 DEF AnswersSteady, Answer
  <2> QED BY <1>1, <1>2, <2>2, QuietAck DEF Marked, Granting
<1>6. CASE IsReplay(i) /\ AnswerPaid(h) /\ UNCHANGED failures
  <2>1. NotPending(i, 0) /\ row[i] = "paid"
    BY <1>6 DEF NotPending, IsReplay
  <2>2. AnswersSteady
    BY <1>1, <1>6, <2>1 DEF AnswersSteady, AnswerPaid, Answer
  <2> QED BY <1>1, <1>2, <2>2, QuietAck DEF Marked, Granting
<1>7. CASE Answer(h) /\ Failed(i) /\ UNCHANGED acked
  <2>1. failures'[i] > 0
    BY <1>3, <1>7, FiatAssumption DEF Failed, FiatInv, TypeOK
  <2>2. AnswersSteady
    BY <1>1, <1>7, <2>1 DEF AnswersSteady, Answer
  <2> QED BY <1>1, <1>2, <2>2, QuietAck DEF Marked, Granting
<1> QED BY <1>4, <1>5, <1>6, <1>7 DEF ReadInvoice

\* Either the row becomes paid, or it had been deleted, or the UPDATE fails.
LEMMA MarkPaidAck ==
  ASSUME FiatInv, FiatInv', FGrows, AckInv, NEW h \in Hooks, MarkPaid(h)
  PROVE  AckInv'
<1> DEFINE i == hook[h].event.inv
<1>1. hook[h].at = "unpaid" /\ UNCHANGED <<creating, charge, acked, sent, unanswered>>
  BY DEF MarkPaid, providerVars, grantVars
<1>2. i \in Invoices /\ charge[i] # "none"
  BY <1>1, HookInvoice DEF FiatInv, ReportsAreTrue
<1>3. /\ hook'[h].at = "marked" /\ hook'[h].event = hook[h].event
      /\ \A g \in Hooks : g # h => hook'[g] = hook[g]
  BY <1>1, MoveHook DEF MarkPaid, HookPCs
<1>4. \A j \in Invoices : /\ row[j] = "paid" => row'[j] = "paid"
                          /\ row'[j] = "absent" => row[j] = "absent"
                          /\ row'[j] = "pending" => row[j] = "pending"
                          /\ j # i => row'[j] = row[j]
  BY DEF MarkPaid, FiatInv, TypeOK
<1>5. row'[i] = "paid" \/ failures'[i] > 0
  <2>1. CASE Failed(i)
    BY <1>2, <2>1, FiatAssumption DEF Failed, FiatInv, TypeOK
  <2>2. CASE row[i] = "absent"
    BY <1>2, <2>2, FiatAssumption DEF AckInv, LostByFailure, FGrows, FiatInv, TypeOK
  <2>3. CASE row' = [row EXCEPT ![i] = IF @ = "absent" THEN @ ELSE "paid"]
             /\ row[i] # "absent"
    BY <1>2, <2>3 DEF FiatInv, TypeOK
  <2> QED BY <2>1, <2>2, <2>3 DEF MarkPaid
<1>6. RowSteady
  BY <1>1, <1>4 DEF RowSteady
<1>7. LostByFailure'
  BY <1>1, <1>4, LostStays DEF AckInv
<1>8. HooksSteady
  BY <1>1, <1>3, <1>4, <1>5 DEF HooksSteady, Marked, Granting, Finished
<1>9. AnswersSteady
  BY <1>1 DEF AnswersSteady
<1> QED BY <1>6, <1>7, <1>8, <1>9, AckStep

LEMMA InsertPurchaseAck ==
  ASSUME FiatInv, FiatInv', FGrows, AckInv, NEW h \in Hooks, InsertPurchase(h)
  PROVE  AckInv'
<1>1. hook[h].at = "marked" /\ UNCHANGED <<row, creating, charge, acked, sent, unanswered>>
  BY DEF InsertPurchase, invoiceVars, providerVars
<1>2. /\ hook'[h].at = "purchased" /\ hook'[h].event = hook[h].event
      /\ \A g \in Hooks : g # h => hook'[g] = hook[g]
  BY <1>1, MoveHook DEF InsertPurchase, HookPCs
<1>3. AnswersSteady
  BY <1>1 DEF AnswersSteady
<1> QED BY <1>1, <1>2, <1>3, QuietAck DEF Marked, Finished, Granting

\* When this INSERT fails as well, the row is paid or it is the second failure.
LEMMA InsertAllowlistAck ==
  ASSUME FiatInv, FiatInv', FGrows, AckInv, NEW h \in Hooks, InsertAllowlist(h)
  PROVE  AckInv'
<1> DEFINE i == hook[h].event.inv
<1>1. /\ hook[h].at = "purchased"
      /\ UNCHANGED <<order, row, creating, charge, acked, sent, unanswered>>
  BY DEF InsertAllowlist, invoiceVars, providerVars
<1>2. i \in Invoices /\ charge[i] # "none"
  BY <1>1, HookInvoice DEF FiatInv, ReportsAreTrue
<1>3. /\ hook'[h].at = "allowed" /\ hook'[h].event = hook[h].event
      /\ \A g \in Hooks : g # h => hook'[g] = hook[g]
  BY <1>1, MoveHook DEF InsertAllowlist, HookPCs
<1>4. ASSUME NEW j \in Invoices, j = i PROVE Backed(j)'
  <2>1. CASE allowlist' = allowlist \cup {<<order[i].video, order[i].buyer>>}
    BY <1>1, <1>4, <2>1 DEF Backed
  <2>2. CASE Failed(i)
    <3>1. failures[i] \in Nat /\ failures'[i] = failures[i] + 1
      BY <1>2, <2>2, FiatAssumption DEF Failed, FiatInv, TypeOK
    <3>2. CASE failures[i] > 0
      BY <1>4, <3>1, <3>2 DEF Backed
    <3>3. CASE ~(failures[i] > 0)
      <4>1. row[j] = "paid"
        BY <1>1, <1>4, <3>3 DEF AckInv, MarkedOrFailed, Marked
      <4>2. creating[j] # "undo"
        BY <1>2, <1>4, <3>3 DEF AckInv, LostByFailure
      <4> QED BY <1>1, <4>1, <4>2 DEF Backed
    <3> QED BY <3>2, <3>3
  <2> QED BY <2>1, <2>2 DEF InsertAllowlist
<1>5. RowSteady
  BY <1>1 DEF RowSteady
<1>6. LostByFailure'
  BY <1>1, LostStays DEF AckInv
<1>7. HooksSteady
  BY <1>1, <1>3, <1>4 DEF HooksSteady, Marked, Granting, Finished
<1>8. AnswersSteady
  BY <1>1 DEF AnswersSteady
<1> QED BY <1>5, <1>6, <1>7, <1>8, AckStep

\* The last steps answer "paid" for a task that is past all three grants.
LEMMA LastStepsAck ==
  ASSUME FiatInv, FiatInv', FGrows, AckInv, NEW h \in Hooks, hook[h].at \in Finished,
         UNCHANGED <<row, creating, charge, sent>>,
         \/ UNCHANGED <<acked, unanswered>>
         \/ /\ acked' = acked \cup {hook[h].event.inv}
            /\ unanswered' = unanswered \ {hook[h].event},
         \A g \in Hooks : g # h => hook'[g] = hook[g],
         \/ hook'[h].at = "idle"
         \/ hook'[h].at \in Finished /\ hook'[h].event = hook[h].event
  PROVE  AckInv'
<1>1. hook[h].event.inv \in Invoices
  BY HookInvoice DEF Finished
<1>2. RowSteady
  BY DEF RowSteady
<1>3. LostByFailure'
  BY LostStays DEF AckInv
<1>4. HooksSteady
  BY DEF HooksSteady, Marked, Granting, Finished
<1>5. NotPending(hook[h].event.inv, 0) \/ failures'[hook[h].event.inv] > 0
  <2>1. row[hook[h].event.inv] = "paid" \/ failures[hook[h].event.inv] > 0
    BY DEF AckInv, MarkedOrFailed, Marked, Finished
  <2> QED BY <2>1 DEF NotPending
<1>6. AnswersSteady
  BY <1>1, <1>5 DEF AnswersSteady, Finished
<1> QED BY <1>2, <1>3, <1>4, <1>6, AckStep

LEMMA PayCommissionAck ==
  ASSUME FiatInv, FiatInv', FGrows, AckInv, NEW h \in Hooks, PayCommission(h)
  PROVE  AckInv'
<1>1. hook[h].at = "allowed" /\ UNCHANGED <<row, creating, charge, sent>>
  BY DEF PayCommission, invoiceVars
<1>2. CASE HookAt(h, "payout") /\ UNCHANGED <<unanswered, acked>>
  BY <1>1, <1>2, MoveHook, LastStepsAck DEF HookPCs, Finished
<1>3. CASE AnswerPaid(h)
  BY <1>1, <1>3, SetHook, IdleHookSlot, LastStepsAck
     DEF AnswerPaid, Answer, IdleHook, Finished
<1> QED BY <1>2, <1>3 DEF PayCommission

LEMMA HookPayoutAck ==
  ASSUME FiatInv, FiatInv', FGrows, AckInv, NEW h \in Hooks, HookPayout(h)
  PROVE  AckInv'
<1>1. hook[h].at = "payout" /\ UNCHANGED <<row, creating, charge, sent>>
  BY DEF HookPayout, invoiceVars
<1>2. CASE HookAt(h, "paidout") /\ UNCHANGED <<unanswered, acked>>
  BY <1>1, <1>2, MoveHook, LastStepsAck DEF HookPCs, Finished
<1>3. CASE AnswerPaid(h)
  BY <1>1, <1>3, SetHook, IdleHookSlot, LastStepsAck
     DEF AnswerPaid, Answer, IdleHook, Finished
<1> QED BY <1>2, <1>3 DEF HookPayout, Disburse

LEMMA HookRecordAck ==
  ASSUME FiatInv, FiatInv', FGrows, AckInv, NEW h \in Hooks, HookRecord(h)
  PROVE  AckInv'
BY SetHook, IdleHookSlot, LastStepsAck
   DEF HookRecord, AnswerPaid, Answer, IdleHook, Finished

\* A task that stops while it is granting is counted as cut off.
LEMMA HookCrashAck ==
  ASSUME FiatInv, FiatInv', FGrows, AckInv, NEW h \in Hooks, HookCrash(h)
  PROVE  AckInv'
<1>1. UNCHANGED <<row, creating, charge, acked, sent, unanswered>>
  BY DEF HookCrash, invoiceVars, providerVars, grantVars
<1>2. \A g \in Hooks : \/ hook'[g] = hook[g]
                       \/ g = h /\ hook'[g].at = "idle"
  BY DEF HookCrash, IdleHook, FiatInv, TypeOK
<1>3. hook[h].at \in Granting => hook[h].event.inv \in cut'
  BY DEF HookCrash
<1>4. AnswersSteady
  BY <1>1 DEF AnswersSteady
<1> QED BY <1>1, <1>2, <1>3, <1>4, QuietAck DEF Marked, Granting

LEMMA AdminStepAck ==
  ASSUME FiatInv, FiatInv', FGrows, AckInv, NEW a \in Admins, AdminStep(a)
  PROVE  AckInv'
<1>1. UNCHANGED <<row, creating, charge, acked, hook, sent, unanswered>>
  BY DEF AdminStep, AdminRead, AdminPayout, AdminRecord, AdminCrash, invoiceVars,
     providerVars, grantVars
<1>2. AnswersSteady
  BY <1>1 DEF AnswersSteady
<1> QED BY <1>1, <1>2, QuietAck DEF Marked, Granting

LEMMA AckInvStep ==
  ASSUME FiatInv, FiatInv', AckInv, [Next]_vars
  PROVE  AckInv'
<1> USE FiatStep
<1>1. ASSUME NEW i \in Invoices, Creation(i) PROVE AckInv'
  BY <1>1, CreateInvoiceAck, StoreRefAck, CallProviderAck, DeleteInvoiceAck,
     CreateCrashAck DEF Creation
<1>2. ASSUME NEW i \in Invoices, BuyerActs(i) PROVE AckInv'
  BY <1>2, BuyerActsAck
<1>3. ASSUME NEW h \in Hooks, NEW e \in sent, Receive(h, e) PROVE AckInv'
  BY <1>3, ReceiveAck
<1>4. ASSUME NEW h \in Hooks, HookStep(h) \/ HookCrash(h) PROVE AckInv'
  BY <1>4, ReadInvoiceAck, MarkPaidAck, InsertPurchaseAck, InsertAllowlistAck,
     PayCommissionAck, HookPayoutAck, HookRecordAck, HookCrashAck DEF HookStep
<1>5. ASSUME NEW a \in Admins, AdminStep(a) PROVE AckInv'
  BY <1>5, AdminStepAck
<1>6. CASE UNCHANGED vars \/ \E p \in MayBlock : ChangeBlock(p[1], p[2])
  <2>1. UNCHANGED <<row, creating, charge, acked, hook, sent, unanswered>>
    BY <1>6 DEF vars, ChangeBlock, invoiceVars, providerVars, grantVars
  <2>2. AnswersSteady
    BY <2>1 DEF AnswersSteady
  <2> QED BY <2>1, <2>2, QuietAck DEF Marked, Granting
<1> QED BY <1>1, <1>2, <1>3, <1>4, <1>5, <1>6 DEF Next

\* A buyer on the allowlist, or with a paid row, can watch.
LEMMA GrantOpens ==
  ASSUME FiatInv, NEW i \in Invoices, charge[i] # "none",
         row[i] = "paid" \/ <<order[i].video, order[i].buyer>> \in allowlist
  PROVE  BuyerCanWatch(i)
<1>1. order[i] \in Orders /\ order[i] # None
  BY NoneAssumption DEF FiatInv, Created, TypeOK
<1> QED BY <1>1 DEF BuyerCanWatch, HasAccess

\* What was acknowledged is owed, and the row does not wait for a payment any more.
LEMMA AckInvAccess ==
  ASSUME FiatInv, AckInv
  PROVE  AckMeansAccess
<1> SUFFICES ASSUME NEW i \in acked
             PROVE  \/ BuyerCanWatch(i)
                    \/ failures[i] > 1
                    \/ row[i] = "absent" /\ (i \in cut \/ BeingGranted(i))
  BY DEF AckMeansAccess
<1>1. i \in Invoices /\ charge[i] # "none" /\ Owed(i) /\ NotPending(i, 1)
  BY DEF FiatInv, TypeOK, AckInv, AckedIsOwed
<1>2. row[i] \in {"absent", "pending", "paid"}
  BY <1>1 DEF FiatInv, TypeOK
<1> QED BY <1>1, <1>2, GrantOpens DEF Owed, Backed, NotPending

\* A report that was answered left the row paid, deleted, or with a failure.
LEMMA AckInvNotLost ==
  ASSUME FiatInv, AckInv
  PROVE  PaidIsNotLost
<1> SUFFICES ASSUME NEW i \in Invoices, ReportedPaid(i)
             PROVE  \/ BuyerCanWatch(i)
                    \/ \E e \in unanswered : e.inv = i /\ ConfirmPayment(e.kind) = "paid"
                    \/ row[i] = "absent"
                    \/ failures[i] > 0
  BY DEF PaidIsNotLost
<1>1. PICK e \in sent : e.inv = i /\ e.kind \in {"authorised", "captured"}
  BY DEF ReportedPaid
<1>2. ConfirmPayment(e.kind) = "paid" /\ charge[i] # "none"
  BY <1>1 DEF ConfirmPayment, FiatInv, ReportsAreTrue
<1>3. e \in unanswered \/ NotPending(i, 0)
  BY <1>1, <1>2 DEF AckInv, AnsweredIsMarked
<1>4. row[i] \in {"absent", "pending", "paid"}
  BY DEF FiatInv, TypeOK
<1> QED BY <1>1, <1>2, <1>3, <1>4, GrantOpens DEF NotPending

\* The second invariant: what has been acknowledged, or answered, has been granted.
THEOREM FiatAckInvariant == Spec => []AckInv
<1>1. Init => AckInv
  BY DEF Init, AckInv, LostByFailure, MarkedOrFailed, FinishedIsBacked, PaidIsOwed,
     AckedIsOwed, AnsweredIsMarked, IdleHook, Marked, Finished
<1>2. FiatInv /\ FiatInv' /\ AckInv /\ [Next]_vars => AckInv'
  BY AckInvStep
<1> QED BY <1>1, <1>2, FiatInvariant, PTL DEF Spec

\* When a webhook has answered "paid", as a replay or not, the buyer can watch,
\* whatever single statement failed or answer was lost, and whatever the creator
\* blocks: it takes two failures, or a deleted row and a handler that was cut off
\* or is still granting, to lock out a buyer whose payment was acknowledged.
THEOREM FiatAckMeansAccess == Spec => []AckMeansAccess
<1>1. FiatInv /\ AckInv => AckMeansAccess
  BY AckInvAccess
<1> QED BY <1>1, FiatInvariant, FiatAckInvariant, PTL

\* Wherever the webhook handlers stop, a reported payment opens the video or is
\* still to be repeated by the provider.
THEOREM FiatPaidIsNotLost == Spec => []PaidIsNotLost
<1>1. FiatInv /\ AckInv => PaidIsNotLost
  BY AckInvNotLost
<1> QED BY <1>1, FiatInvariant, FiatAckInvariant, PTL

=============================================================================
