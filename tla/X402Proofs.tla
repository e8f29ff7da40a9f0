----------------------------- MODULE X402Proofs -----------------------------
(***************************************************************************)
(* Proofs about X402, for any number of invoices and confirmations.        *)
(***************************************************************************)
EXTENDS X402, Integers, TLAPS

-----------------------------------------------------------------------------
(* The inductive invariant, part by part. *)

\* An invoice has an order, a row or a signature only once x402_start has run for it.
Started ==
    \A i \in Invoices :
        /\ starting[i] # "new" => order[i] \in Orders
        /\ starting[i] = "new" =>
               order[i] = None /\ row[i] = "absent" /\ i \notin signed

\* The contract has accepted payments for signed invoices only, each at least the
\* price of its video.
SettledInFull ==
    \A i \in Invoices :
        settled[i] > 0 => i \in signed /\ settled[i] >= Required(order[i].video)

\* Nothing is recorded, and no "paid" answered, for an invoice that is not paid on
\* the chain.
RecordedIsPaid ==
    \A i \in Invoices :
        row[i] = "paid" \/ purchases[i] > 0 \/ commissions[i] > 0 \/ i \in acked
            => settled[i] > 0

\* Every event that the watcher has or will read is one the contract emitted.
WatchedIsPaid ==
    /\ \A k \in 1 .. Len(feed) : settled[feed[k]] > 0
    /\ watcher.at # "idle" => watcher.inv \in Invoices /\ settled[watcher.inv] > 0

\* A confirmation is about a stored invoice; past the receipt it is about a paid one.
ConfirmedIsPaid ==
    \A t \in Confirmers :
        confirm[t].at # "idle" =>
            /\ confirm[t].inv \in Invoices
            /\ confirm[t].tx \in Invoices
            /\ starting[confirm[t].inv] # "new"
            /\ confirm[t].at # "read" => settled[confirm[t].inv] > 0

PaidInv ==
    /\ TypeOK
    /\ Started
    /\ SettledInFull
    /\ RecordedIsPaid
    /\ WatchedIsPaid
    /\ ConfirmedIsPaid
    /\ AllowlistIsPaid

\* What confirm holds for one task.
Slots == [at : Tasks, inv : Invoices \cup {None}, tx : Invoices \cup {None}]

\* Of a task that goes on to its next statement only the position changes.
LEMMA MoveAt ==
  ASSUME TypeOK, NEW t \in Confirmers, NEW a \in Tasks, ConfirmAt(t, a)
  PROVE  /\ confirm' \in [Confirmers -> Slots]
         /\ confirm'[t].at = a
         /\ confirm'[t].inv = confirm[t].inv
         /\ confirm'[t].tx = confirm[t].tx
         /\ \A u \in Confirmers : u # t => confirm'[u] = confirm[u]
<1>1. confirm \in [Confirmers -> Slots] /\ confirm[t] \in Slots
  BY DEF TypeOK, Slots
<1>2. [confirm[t] EXCEPT !.at = a] \in Slots
  BY <1>1 DEF Slots
<1>3. confirm' = [confirm EXCEPT ![t] = [confirm[t] EXCEPT !.at = a]]
  BY <1>1 DEF ConfirmAt
<1> QED BY <1>1, <1>2, <1>3 DEF Slots

\* A task that begins or ends changes nobody else's.
LEMMA SetSlot ==
  ASSUME TypeOK, NEW t \in Confirmers, NEW s \in Slots,
         confirm' = [confirm EXCEPT ![t] = s]
  PROVE  /\ confirm' \in [Confirmers -> Slots]
         /\ confirm'[t] = s
         /\ \A u \in Confirmers : u # t => confirm'[u] = confirm[u]
BY DEF TypeOK, Slots

LEMMA IdleSlot == IdleConfirm \in Slots
BY DEF IdleConfirm, Slots, Tasks

\* A payment of at least the rounded-up price covers the price.
LEMMA RequiredCovers ==
  ASSUME NEW v \in Videos, NEW amount \in Nat, amount >= Required(v)
  PROVE  amount * 100 >= PriceCents[v] * 10 ^ Decimals
<1>1. 10 ^ Decimals \in Int /\ PriceCents[v] \in Int
  BY X402Assumption
<1>2. ASSUME NEW x \in Int, amount >= (x + 99) \div 100 PROVE amount * 100 >= x
  BY <1>2
<1> QED BY <1>1, <1>2 DEF Required

\* A sale is counted for its own invoice.
LEMMA CountPurchase ==
  ASSUME purchases \in [Invoices -> Nat], NEW i, AddPurchase(i)
  PROVE  /\ purchases' \in [Invoices -> Nat]
         /\ \A j \in Invoices : purchases'[j] >= purchases[j]
         /\ \A j \in Invoices : j # i => purchases'[j] = purchases[j]
<1>1. \A j \in Invoices : purchases[j] \in Nat /\ purchases[j] + 1 \in Nat
  OBVIOUS
<1>2. purchases' = [j \in Invoices |-> IF j = i THEN purchases[j] + 1 ELSE purchases[j]]
  BY DEF AddPurchase
<1> QED BY <1>1, <1>2

LEMMA CountCommission ==
  ASSUME commissions \in [Invoices -> Nat], NEW i,
         \/ commissions' = [commissions EXCEPT ![i] = @ + 1]
         \/ UNCHANGED commissions
  PROVE  /\ commissions' \in [Invoices -> Nat]
         /\ \A j \in Invoices : commissions'[j] >= commissions[j]
         /\ \A j \in Invoices : j # i => commissions'[j] = commissions[j]
<1>1. CASE commissions' = [commissions EXCEPT ![i] = @ + 1]
  <2>1. \A j \in Invoices : commissions[j] \in Nat /\ commissions[j] + 1 \in Nat
    OBVIOUS
  <2>2. commissions' = [j \in Invoices |-> IF j = i THEN commissions[j] + 1
                                                   ELSE commissions[j]]
    BY <1>1
  <2> QED BY <2>1, <2>2
<1>2. CASE UNCHANGED commissions
  BY <1>2
<1> QED BY <1>1, <1>2

\* The buyer of a paid invoice may be put on the allowlist.
LEMMA AllowPaid ==
  ASSUME PaidInv, NEW i \in Invoices, settled[i] > 0, AddAllowlist(i),
         UNCHANGED <<order, settled>>
  PROVE  AllowlistIsPaid' /\ allowlist' \subseteq Videos \X Users
<1>1. order[i] \in Orders /\ settled[i] \in Nat /\ settled[i] >= Required(order[i].video)
  BY DEF PaidInv, TypeOK, Started, SettledInFull
<1>2. order[i] # None /\ order[i].video \in Videos /\ order[i].buyer \in Users
  BY <1>1, NoneAssumption, X402Assumption DEF Orders
<1>3. settled[i] * 100 >= PriceCents[order[i].video] * 10 ^ Decimals
  BY <1>1, <1>2, RequiredCovers
<1>4. ASSUME NEW p \in allowlist'
      PROVE  \E j \in Invoices :
                 /\ order[j] # None /\ order[j].video = p[1] /\ order[j].buyer = p[2]
                 /\ settled[j] > 0
                 /\ settled[j] * 100 >= PriceCents[p[1]] * 10 ^ Decimals
  <2>1. CASE p \in allowlist
    BY <2>1 DEF PaidInv, AllowlistIsPaid
  <2>2. CASE p = <<order[i].video, order[i].buyer>>
    BY <2>2, <1>2, <1>3
  <2> QED BY <2>1, <2>2, <1>4 DEF AddAllowlist
<1>5. AllowlistIsPaid'
  BY <1>4 DEF AllowlistIsPaid
<1> QED BY <1>2, <1>5 DEF AddAllowlist, PaidInv, TypeOK

LEMMA StartPayKeeps ==
  ASSUME PaidInv, NEW i \in Invoices, NEW o \in Orders, StartPay(i, o)
  PROVE  PaidInv'
<1> USE X402Assumption, NoneAssumption DEF PaidInv
<1>1. TypeOK'
  <2>1. order' \in [Invoices -> Orders \cup {None}]
    BY DEF StartPay, Failed, TypeOK, Tasks
  <2>2. row' \in [Invoices -> {"absent", "pending", "underpaid", "paid"}]
    BY DEF StartPay, Failed, TypeOK, Tasks
  <2>3. starting' \in [Invoices -> {"new", "ref", "sign", "done"}]
    BY DEF StartPay, Failed, TypeOK, Tasks
  <2>4. failures' \in 0 .. MaxFaults
    BY DEF StartPay, Failed, TypeOK, Tasks
  <2> QED BY <2>1, <2>2, <2>3, <2>4
       DEF StartPay, watchVars, grantVars, historyVars, TypeOK
<1>2. Started'
  BY DEF StartPay, Failed, watchVars, grantVars, historyVars,
     TypeOK, Started
<1>3. SettledInFull'
  BY DEF StartPay, Failed, watchVars, grantVars, historyVars,
     TypeOK, Started, SettledInFull
<1>4. RecordedIsPaid'
  BY DEF StartPay, Failed, watchVars, grantVars, historyVars,
     TypeOK, Started, SettledInFull, RecordedIsPaid, WatchedIsPaid, ConfirmedIsPaid
<1>5. WatchedIsPaid'
  BY DEF StartPay, Failed, watchVars, grantVars, historyVars,
     TypeOK, Started, SettledInFull, RecordedIsPaid, WatchedIsPaid
<1>6. ConfirmedIsPaid'
  BY DEF StartPay, Failed, watchVars, grantVars, historyVars,
     TypeOK, Tasks, Started, SettledInFull, ConfirmedIsPaid
<1>7. AllowlistIsPaid'
  BY DEF StartPay, Failed, watchVars, grantVars, historyVars,
     TypeOK, Started, SettledInFull, AllowlistIsPaid, WatchedIsPaid, ConfirmedIsPaid
<1> QED BY <1>1, <1>2, <1>3, <1>4, <1>5, <1>6, <1>7

LEMMA CreateInvoiceKeeps ==
  ASSUME PaidInv, NEW i \in Invoices, NEW o \in Orders, CreateInvoice(i, o)
  PROVE  PaidInv'
<1> USE X402Assumption, NoneAssumption DEF PaidInv
<1>1. TypeOK'
  <2>1. order' \in [Invoices -> Orders \cup {None}]
    BY DEF CreateInvoice, Failed, TypeOK, Tasks
  <2>2. row' \in [Invoices -> {"absent", "pending", "underpaid", "paid"}]
    BY DEF CreateInvoice, Failed, TypeOK, Tasks
  <2>3. starting' \in [Invoices -> {"new", "ref", "sign", "done"}]
    <3>1. \/ starting' = [starting EXCEPT ![i] = "sign"]
          \/ starting' = [starting EXCEPT ![i] = "done"]
      BY DEF CreateInvoice
    <3> QED BY <3>1 DEF TypeOK
  <2>4. failures' \in 0 .. MaxFaults
    BY DEF CreateInvoice, Failed, TypeOK, Tasks
  <2> QED BY <2>1, <2>2, <2>3, <2>4
       DEF CreateInvoice, watchVars, grantVars, historyVars, TypeOK
<1>2. Started'
  BY DEF CreateInvoice, Failed, watchVars, grantVars, historyVars,
     TypeOK, Started
<1>3. SettledInFull'
  BY DEF CreateInvoice, Failed, watchVars, grantVars, historyVars,
     TypeOK, Started, SettledInFull
<1>4. RecordedIsPaid'
  BY DEF CreateInvoice, Failed, watchVars, grantVars, historyVars,
     TypeOK, Started, SettledInFull, RecordedIsPaid, WatchedIsPaid, ConfirmedIsPaid
<1>5. WatchedIsPaid'
  BY DEF CreateInvoice, Failed, watchVars, grantVars, historyVars,
     TypeOK, Started, SettledInFull, RecordedIsPaid, WatchedIsPaid
<1>6. ConfirmedIsPaid'
  BY DEF CreateInvoice, Failed, watchVars, grantVars, historyVars,
     TypeOK, Tasks, Started, SettledInFull, ConfirmedIsPaid
<1>7. AllowlistIsPaid'
  BY DEF CreateInvoice, Failed, watchVars, grantVars, historyVars,
     TypeOK, Started, SettledInFull, AllowlistIsPaid, WatchedIsPaid, ConfirmedIsPaid
<1> QED BY <1>1, <1>2, <1>3, <1>4, <1>5, <1>6, <1>7

LEMMA StoreRefKeeps ==
  ASSUME PaidInv, NEW i \in Invoices, StoreRef(i)
  PROVE  PaidInv'
<1> USE X402Assumption, NoneAssumption DEF PaidInv
<1>1. TypeOK'
  <2>1. hasRef' \subseteq Invoices
    BY DEF StoreRef, Failed, TypeOK, Tasks
  <2>2. starting' \in [Invoices -> {"new", "ref", "sign", "done"}]
    BY DEF StoreRef, Failed, TypeOK, Tasks
  <2>3. failures' \in 0 .. MaxFaults
    BY DEF StoreRef, Failed, TypeOK, Tasks
  <2> QED BY <2>1, <2>2, <2>3
       DEF StoreRef, watchVars, grantVars, historyVars, TypeOK
<1>2. Started'
  BY DEF StoreRef, Failed, watchVars, grantVars, historyVars,
     TypeOK, Started
<1>3. SettledInFull'
  BY DEF StoreRef, Failed, watchVars, grantVars, historyVars,
     TypeOK, Started, SettledInFull
<1>4. RecordedIsPaid'
  BY DEF StoreRef, Failed, watchVars, grantVars, historyVars,
     TypeOK, Started, SettledInFull, RecordedIsPaid, WatchedIsPaid, ConfirmedIsPaid
<1>5. WatchedIsPaid'
  BY DEF StoreRef, Failed, watchVars, grantVars, historyVars,
     TypeOK, Started, SettledInFull, RecordedIsPaid, WatchedIsPaid
<1>6. ConfirmedIsPaid'
  BY DEF StoreRef, Failed, watchVars, grantVars, historyVars,
     TypeOK, Tasks, Started, SettledInFull, ConfirmedIsPaid
<1>7. AllowlistIsPaid'
  BY DEF StoreRef, watchVars, grantVars, historyVars, AllowlistIsPaid
<1> QED BY <1>1, <1>2, <1>3, <1>4, <1>5, <1>6, <1>7

LEMMA SignPayloadKeeps ==
  ASSUME PaidInv, NEW i \in Invoices, SignPayload(i)
  PROVE  PaidInv'
<1> USE X402Assumption, NoneAssumption DEF PaidInv
<1>1. TypeOK'
  <2>1. starting' \in [Invoices -> {"new", "ref", "sign", "done"}]
    BY DEF SignPayload, TypeOK, Tasks
  <2>2. signed' \subseteq Invoices
    BY DEF SignPayload, TypeOK, Tasks
  <2> QED BY <2>1, <2>2
       DEF SignPayload, watchVars, grantVars, historyVars, boundVars, TypeOK
<1>2. Started'
  BY DEF SignPayload, watchVars, grantVars, historyVars, boundVars,
     TypeOK, Started
<1>3. SettledInFull'
  BY DEF SignPayload, watchVars, grantVars, historyVars, boundVars,
     TypeOK, Started, SettledInFull
<1>4. RecordedIsPaid'
  BY DEF SignPayload, watchVars, grantVars, historyVars, boundVars,
     TypeOK, Started, SettledInFull, RecordedIsPaid, WatchedIsPaid, ConfirmedIsPaid
<1>5. WatchedIsPaid'
  BY DEF SignPayload, watchVars, grantVars, historyVars, boundVars,
     TypeOK, Started, SettledInFull, RecordedIsPaid, WatchedIsPaid
<1>6. ConfirmedIsPaid'
  BY DEF SignPayload, watchVars, grantVars, historyVars, boundVars,
     TypeOK, Tasks, Started, SettledInFull, ConfirmedIsPaid
<1>7. AllowlistIsPaid'
  BY DEF SignPayload, watchVars, grantVars, historyVars, boundVars, AllowlistIsPaid
<1> QED BY <1>1, <1>2, <1>3, <1>4, <1>5, <1>6, <1>7

LEMMA PayContractKeeps ==
  ASSUME PaidInv, NEW i \in Invoices, NEW amount \in Amounts, PayContract(i, amount)
  PROVE  PaidInv'
<1> USE X402Assumption, NoneAssumption DEF PaidInv
<1>1. TypeOK'
  <2>1. settled' \in [Invoices -> Nat]
    BY DEF PayContract, Accepts, TypeOK, Tasks
  <2>2. feed' \in Seq(Invoices)
    BY DEF PayContract, Accepts, TypeOK, Tasks
  <2> QED BY <2>1, <2>2
       DEF PayContract, startVars, grantVars, historyVars, boundVars, TypeOK
<1>2. Started'
  BY DEF PayContract, Accepts, startVars, grantVars, historyVars, boundVars,
     TypeOK, Started
<1>3. SettledInFull'
  BY DEF PayContract, Accepts, startVars, grantVars, historyVars, boundVars,
     TypeOK, Started, SettledInFull
<1>4. RecordedIsPaid'
  BY DEF PayContract, Accepts, startVars, grantVars, historyVars, boundVars,
     TypeOK, Started, SettledInFull, RecordedIsPaid, WatchedIsPaid, ConfirmedIsPaid
<1>5. WatchedIsPaid'
  BY SMTT(30) DEF PayContract, Accepts, startVars, grantVars, historyVars, boundVars,
     TypeOK, Started, SettledInFull, RecordedIsPaid, WatchedIsPaid
<1>6. ConfirmedIsPaid'
  BY DEF PayContract, Accepts, startVars, grantVars, historyVars, boundVars,
     TypeOK, Tasks, Started, SettledInFull, ConfirmedIsPaid
<1>7. AllowlistIsPaid'
  <2>1. \A j \in Invoices : settled[j] > 0 => settled'[j] = settled[j]
    BY DEF PayContract, Accepts, TypeOK
  <2>2. UNCHANGED <<allowlist, order>>
    BY DEF PayContract, startVars, grantVars
  <2> QED BY <2>1, <2>2 DEF AllowlistIsPaid
<1> QED BY <1>1, <1>2, <1>3, <1>4, <1>5, <1>6, <1>7

LEMMA ConfirmReadKeeps ==
  ASSUME PaidInv, NEW t \in Confirmers, NEW i \in Invoices, NEW tx \in Invoices, ConfirmRead(t, i, tx)
  PROVE  PaidInv'
<1> USE X402Assumption, NoneAssumption DEF PaidInv
<1>1. TypeOK'
  <2>1. acked' \subseteq Invoices
    BY DEF ConfirmRead, IsReplay, TypeOK, Tasks, ConfirmedIsPaid
  <2>2. confirm' \in [Confirmers -> [at : Tasks, inv : Invoices \cup {None},
                                       tx : Invoices \cup {None}]]
    <3>1. [at |-> "read", inv |-> i, tx |-> tx] \in Slots
      BY DEF Slots, Tasks
    <3> QED BY <3>1, SetSlot DEF ConfirmRead, PaidInv, TypeOK, Slots
  <2> QED BY <2>1, <2>2
       DEF ConfirmRead, startVars, watchVars, grantVars, boundVars, TypeOK
<1>2. Started'
  BY DEF ConfirmRead, IsReplay, startVars, watchVars, grantVars, boundVars,
     TypeOK, Started
<1>3. SettledInFull'
  BY DEF ConfirmRead, IsReplay, startVars, watchVars, grantVars, boundVars,
     TypeOK, Started, SettledInFull
<1>4. RecordedIsPaid'
  BY DEF ConfirmRead, IsReplay, startVars, watchVars, grantVars, boundVars,
     TypeOK, Started, SettledInFull, RecordedIsPaid, WatchedIsPaid, ConfirmedIsPaid
<1>5. WatchedIsPaid'
  BY DEF ConfirmRead, IsReplay, startVars, watchVars, grantVars, boundVars,
     TypeOK, Started, SettledInFull, RecordedIsPaid, WatchedIsPaid
<1>6. ConfirmedIsPaid'
  <2>1. CASE UNCHANGED confirm
    BY <2>1 DEF ConfirmRead, startVars, watchVars, grantVars, boundVars, ConfirmedIsPaid
  <2>2. CASE confirm' = [confirm EXCEPT ![t] = [at |-> "read", inv |-> i, tx |-> tx]]
    <3>1. [at |-> "read", inv |-> i, tx |-> tx] \in Slots
      BY DEF Slots, Tasks
    <3>2. starting[i] # "new"
      BY DEF ConfirmRead, Started
    <3> QED BY <2>2, <3>1, <3>2, SetSlot DEF ConfirmRead, startVars, watchVars, grantVars, boundVars, ConfirmedIsPaid
  <2> QED BY <2>1, <2>2 DEF ConfirmRead
<1>7. AllowlistIsPaid'
  BY DEF ConfirmRead, startVars, watchVars, grantVars, boundVars, AllowlistIsPaid
<1> QED BY <1>1, <1>2, <1>3, <1>4, <1>5, <1>6, <1>7

LEMMA ConfirmMarkKeeps ==
  ASSUME PaidInv, NEW t \in Confirmers, ConfirmMark(t)
  PROVE  PaidInv'
<1> USE X402Assumption, NoneAssumption DEF PaidInv
<1>1. TypeOK'
  <2>1. row' \in [Invoices -> {"absent", "pending", "underpaid", "paid"}]
    BY DEF ConfirmMark, HasPaidEvent, Failed, IdleConfirm, TypeOK, Tasks
  <2>2. confirm' \in [Confirmers -> [at : Tasks, inv : Invoices \cup {None},
                                       tx : Invoices \cup {None}]]
    <3>1. confirm[t] \in Slots
      BY DEF PaidInv, TypeOK, Slots
    <3>2. [confirm[t] EXCEPT !.at = "marked"] \in Slots
      BY <3>1 DEF Slots, Tasks
    <3> QED BY <3>2, IdleSlot DEF ConfirmMark, PaidInv, TypeOK, Slots
  <2>3. failures' \in 0 .. MaxFaults
    BY DEF ConfirmMark, HasPaidEvent, Failed, IdleConfirm, TypeOK, Tasks
  <2> QED BY <2>1, <2>2, <2>3
       DEF ConfirmMark, startVars, watchVars, grantVars, historyVars, TypeOK
<1>2. Started'
  <2>1. confirm[t].inv \in Invoices /\ starting[confirm[t].inv] # "new"
    BY DEF ConfirmMark, ConfirmedIsPaid
  <2>2. \A j \in Invoices : j # confirm[t].inv => row'[j] = row[j]
    BY DEF ConfirmMark, TypeOK
  <2> QED BY <2>1, <2>2 DEF ConfirmMark, startVars, watchVars, grantVars, historyVars, Started
<1>3. SettledInFull'
  BY DEF ConfirmMark, HasPaidEvent, Failed, IdleConfirm, startVars, watchVars, grantVars, historyVars,
     TypeOK, Started, SettledInFull
<1>4. RecordedIsPaid'
  BY DEF ConfirmMark, HasPaidEvent, Failed, IdleConfirm, startVars, watchVars, grantVars, historyVars,
     TypeOK, Started, SettledInFull, RecordedIsPaid, WatchedIsPaid, ConfirmedIsPaid
<1>5. WatchedIsPaid'
  BY DEF ConfirmMark, HasPaidEvent, Failed, IdleConfirm, startVars, watchVars, grantVars, historyVars,
     TypeOK, Started, SettledInFull, RecordedIsPaid, WatchedIsPaid
<1>6. ConfirmedIsPaid'
  <2>1. \A u \in Confirmers : u # t => confirm'[u] = confirm[u]
    BY DEF ConfirmMark, TypeOK
  <2>2. CASE confirm' = [confirm EXCEPT ![t] = IdleConfirm]
    BY <2>1, <2>2, SetSlot, IdleSlot DEF ConfirmMark, startVars, watchVars, grantVars, historyVars, ConfirmedIsPaid, IdleConfirm
  <2>3. CASE confirm' = [confirm EXCEPT ![t] = [@ EXCEPT !.at = "marked"]] /\ HasPaidEvent(confirm[t].inv, confirm[t].tx)
    <3>1. confirm'[t].inv = confirm[t].inv /\ confirm'[t].tx = confirm[t].tx /\ confirm'[t].at = "marked"
      BY <2>3 DEF TypeOK
    <3> QED BY <2>1, <2>3, <3>1 DEF ConfirmMark, startVars, watchVars, grantVars, historyVars, ConfirmedIsPaid, HasPaidEvent
  <2> QED BY <2>2, <2>3 DEF ConfirmMark
<1>7. AllowlistIsPaid'
  BY DEF ConfirmMark, startVars, watchVars, grantVars, historyVars, AllowlistIsPaid
<1> QED BY <1>1, <1>2, <1>3, <1>4, <1>5, <1>6, <1>7

LEMMA ConfirmPurchaseKeeps ==
  ASSUME PaidInv, NEW t \in Confirmers, ConfirmPurchase(t)
  PROVE  PaidInv'
<1> USE X402Assumption, NoneAssumption DEF PaidInv
<1>1. TypeOK'
  <2>1. purchases' \in [Invoices -> Nat]
    BY CountPurchase DEF ConfirmPurchase, TypeOK
  <2>2. confirm' \in [Confirmers -> [at : Tasks, inv : Invoices \cup {None},
                                       tx : Invoices \cup {None}]]
    BY MoveAt DEF ConfirmPurchase, PaidInv, Tasks, Slots
  <2>3. failures' \in 0 .. MaxFaults
    BY DEF ConfirmPurchase, ConfirmAt, AddPurchase, Failed, TypeOK, Tasks
  <2> QED BY <2>1, <2>2, <2>3
       DEF ConfirmPurchase, startVars, watchVars, historyVars, TypeOK
<1>2. Started'
  BY DEF ConfirmPurchase, ConfirmAt, AddPurchase, Failed, startVars, watchVars, historyVars,
     TypeOK, Started
<1>3. SettledInFull'
  BY DEF ConfirmPurchase, ConfirmAt, AddPurchase, Failed, startVars, watchVars, historyVars,
     TypeOK, Started, SettledInFull
<1>4. RecordedIsPaid'
  BY ZenonT(30) DEF ConfirmPurchase, ConfirmAt, AddPurchase, Failed, startVars, watchVars, historyVars,
     TypeOK, Started, SettledInFull, RecordedIsPaid, WatchedIsPaid, ConfirmedIsPaid
<1>5. WatchedIsPaid'
  BY DEF ConfirmPurchase, ConfirmAt, AddPurchase, Failed, startVars, watchVars, historyVars,
     TypeOK, Started, SettledInFull, RecordedIsPaid, WatchedIsPaid
<1>6. ConfirmedIsPaid'
  BY MoveAt DEF ConfirmPurchase, startVars, watchVars, historyVars, Tasks, ConfirmedIsPaid
<1>7. AllowlistIsPaid'
  BY DEF ConfirmPurchase, startVars, watchVars, historyVars, AllowlistIsPaid
<1> QED BY <1>1, <1>2, <1>3, <1>4, <1>5, <1>6, <1>7

LEMMA ConfirmAllowKeeps ==
  ASSUME PaidInv, NEW t \in Confirmers, ConfirmAllow(t)
  PROVE  PaidInv'
<1> USE X402Assumption, NoneAssumption DEF PaidInv
<1>1. TypeOK'
  <2>1. allowlist' \subseteq Videos \X Users
    BY AllowPaid DEF ConfirmAllow, startVars, watchVars, historyVars, ConfirmedIsPaid, TypeOK
  <2>2. confirm' \in [Confirmers -> [at : Tasks, inv : Invoices \cup {None},
                                       tx : Invoices \cup {None}]]
    BY MoveAt DEF ConfirmAllow, PaidInv, Tasks, Slots
  <2>3. failures' \in 0 .. MaxFaults
    BY DEF ConfirmAllow, ConfirmAt, AddAllowlist, Failed, TypeOK, Tasks
  <2> QED BY <2>1, <2>2, <2>3
       DEF ConfirmAllow, startVars, watchVars, historyVars, TypeOK
<1>2. Started'
  BY DEF ConfirmAllow, ConfirmAt, AddAllowlist, Failed, startVars, watchVars, historyVars,
     TypeOK, Started
<1>3. SettledInFull'
  BY DEF ConfirmAllow, ConfirmAt, AddAllowlist, Failed, startVars, watchVars, historyVars,
     TypeOK, Started, SettledInFull
<1>4. RecordedIsPaid'
  BY DEF ConfirmAllow, ConfirmAt, AddAllowlist, Failed, startVars, watchVars, historyVars,
     TypeOK, Started, SettledInFull, RecordedIsPaid, WatchedIsPaid, ConfirmedIsPaid
<1>5. WatchedIsPaid'
  BY DEF ConfirmAllow, ConfirmAt, AddAllowlist, Failed, startVars, watchVars, historyVars,
     TypeOK, Started, SettledInFull, RecordedIsPaid, WatchedIsPaid
<1>6. ConfirmedIsPaid'
  BY MoveAt DEF ConfirmAllow, startVars, watchVars, historyVars, Tasks, ConfirmedIsPaid
<1>7. AllowlistIsPaid'
  BY AllowPaid DEF ConfirmAllow, startVars, watchVars, historyVars, ConfirmedIsPaid, AllowlistIsPaid
<1> QED BY <1>1, <1>2, <1>3, <1>4, <1>5, <1>6, <1>7

LEMMA ConfirmCommissionKeeps ==
  ASSUME PaidInv, NEW t \in Confirmers, ConfirmCommission(t)
  PROVE  PaidInv'
<1> USE X402Assumption, NoneAssumption DEF PaidInv
<1>1. TypeOK'
  <2>1. commissions' \in [Invoices -> Nat]
    BY CountCommission DEF ConfirmCommission, TypeOK
  <2>2. confirm' \in [Confirmers -> [at : Tasks, inv : Invoices \cup {None},
                                       tx : Invoices \cup {None}]]
    BY SetSlot, IdleSlot DEF ConfirmCommission, PaidInv, Slots
  <2>3. acked' \subseteq Invoices
    BY DEF ConfirmCommission, IdleConfirm, TypeOK, Tasks, ConfirmedIsPaid
  <2> QED BY <2>1, <2>2, <2>3
       DEF ConfirmCommission, startVars, watchVars, boundVars, TypeOK
<1>2. Started'
  BY DEF ConfirmCommission, IdleConfirm, startVars, watchVars, boundVars,
     TypeOK, Started
<1>3. SettledInFull'
  BY DEF ConfirmCommission, IdleConfirm, startVars, watchVars, boundVars,
     TypeOK, Started, SettledInFull
<1>4. RecordedIsPaid'
  BY ZenonT(30) DEF ConfirmCommission, IdleConfirm, startVars, watchVars, boundVars,
     TypeOK, Started, SettledInFull, RecordedIsPaid, WatchedIsPaid, ConfirmedIsPaid
<1>5. WatchedIsPaid'
  BY DEF ConfirmCommission, IdleConfirm, startVars, watchVars, boundVars,
     TypeOK, Started, SettledInFull, RecordedIsPaid, WatchedIsPaid
<1>6. ConfirmedIsPaid'
  BY DEF ConfirmCommission, IdleConfirm, startVars, watchVars, boundVars,
     TypeOK, Tasks, Started, SettledInFull, ConfirmedIsPaid
<1>7. AllowlistIsPaid'
  BY DEF ConfirmCommission, startVars, watchVars, boundVars, AllowlistIsPaid
<1> QED BY <1>1, <1>2, <1>3, <1>4, <1>5, <1>6, <1>7

LEMMA WatchNextKeeps ==
  ASSUME PaidInv, WatchNext
  PROVE  PaidInv'
<1> USE X402Assumption, NoneAssumption DEF PaidInv
<1>1. TypeOK'
  <2>1. feed' \in Seq(Invoices)
    BY DEF WatchNext, Failed, TypeOK, Tasks
  <2>2. watcher' \in [at : {"idle", "found", "marked", "purchased"},
                        inv : Invoices \cup {None}]
    BY DEF WatchNext, Failed, TypeOK, Tasks
  <2>3. failures' \in 0 .. MaxFaults
    BY SMTT(30) DEF WatchNext, Failed, TypeOK, Tasks
  <2> QED BY <2>1, <2>2, <2>3
       DEF WatchNext, startVars, grantVars, historyVars, TypeOK
<1>2. Started'
  BY DEF WatchNext, Failed, startVars, grantVars, historyVars,
     TypeOK, Started
<1>3. SettledInFull'
  BY DEF WatchNext, Failed, startVars, grantVars, historyVars,
     TypeOK, Started, SettledInFull
<1>4. RecordedIsPaid'
  BY DEF WatchNext, Failed, startVars, grantVars, historyVars,
     TypeOK, Started, SettledInFull, RecordedIsPaid, WatchedIsPaid, ConfirmedIsPaid
<1>5. WatchedIsPaid'
  BY DEF WatchNext, Failed, startVars, grantVars, historyVars,
     TypeOK, Started, SettledInFull, RecordedIsPaid, WatchedIsPaid
<1>6. ConfirmedIsPaid'
  BY DEF WatchNext, Failed, startVars, grantVars, historyVars,
     TypeOK, Tasks, Started, SettledInFull, ConfirmedIsPaid
<1>7. AllowlistIsPaid'
  BY DEF WatchNext, startVars, grantVars, historyVars, AllowlistIsPaid
<1> QED BY <1>1, <1>2, <1>3, <1>4, <1>5, <1>6, <1>7

LEMMA WatchMarkKeeps ==
  ASSUME PaidInv, WatchMark
  PROVE  PaidInv'
<1> USE X402Assumption, NoneAssumption DEF PaidInv
<1>1. TypeOK'
  <2>1. row' \in [Invoices -> {"absent", "pending", "underpaid", "paid"}]
    BY DEF WatchMark, WatchEnds, IdleWatcher, Failed, TypeOK, Tasks
  <2>2. watcher' \in [at : {"idle", "found", "marked", "purchased"},
                        inv : Invoices \cup {None}]
    <3>1. [watcher EXCEPT !.at = "marked"] \in [at : {"idle", "found", "marked", "purchased"},
                                              inv : Invoices \cup {None}]
      BY DEF TypeOK
    <3> QED BY <3>1 DEF WatchMark, WatchEnds, IdleWatcher
  <2>3. failures' \in 0 .. MaxFaults
    BY DEF WatchMark, WatchEnds, IdleWatcher, Failed, TypeOK, Tasks
  <2> QED BY <2>1, <2>2, <2>3
       DEF WatchMark, startVars, grantVars, historyVars, TypeOK
<1>2. Started'
  <2>1. watcher.inv \in Invoices /\ starting[watcher.inv] # "new"
    BY DEF WatchMark, WatchedIsPaid, SettledInFull, Started
  <2>2. \A j \in Invoices : j # watcher.inv => row'[j] = row[j]
    BY DEF WatchMark, TypeOK
  <2> QED BY <2>1, <2>2 DEF WatchMark, startVars, grantVars, historyVars, Started
<1>3. SettledInFull'
  BY DEF WatchMark, WatchEnds, IdleWatcher, Failed, startVars, grantVars, historyVars,
     TypeOK, Started, SettledInFull
<1>4. RecordedIsPaid'
  BY DEF WatchMark, WatchEnds, IdleWatcher, Failed, startVars, grantVars, historyVars,
     TypeOK, Started, SettledInFull, RecordedIsPaid, WatchedIsPaid, ConfirmedIsPaid
<1>5. WatchedIsPaid'
  <2>1. watcher'.at = "idle" \/ watcher'.inv = watcher.inv
    BY DEF WatchMark, WatchEnds, IdleWatcher, TypeOK
  <2> QED BY <2>1 DEF WatchMark, startVars, grantVars, historyVars, WatchedIsPaid
<1>6. ConfirmedIsPaid'
  BY DEF WatchMark, WatchEnds, IdleWatcher, Failed, startVars, grantVars, historyVars,
     TypeOK, Tasks, Started, SettledInFull, ConfirmedIsPaid
<1>7. AllowlistIsPaid'
  BY DEF WatchMark, startVars, grantVars, historyVars, AllowlistIsPaid
<1> QED BY <1>1, <1>2, <1>3, <1>4, <1>5, <1>6, <1>7

LEMMA WatchPurchaseKeeps ==
  ASSUME PaidInv, WatchPurchase
  PROVE  PaidInv'
<1> USE X402Assumption, NoneAssumption DEF PaidInv
<1>1. TypeOK'
  <2>1. purchases' \in [Invoices -> Nat]
    BY CountPurchase DEF WatchPurchase, TypeOK
  <2>2. watcher' \in [at : {"idle", "found", "marked", "purchased"},
                        inv : Invoices \cup {None}]
    BY DEF WatchPurchase, WatchEnds, IdleWatcher, AddPurchase, Failed, TypeOK, Tasks
  <2>3. cut' \subseteq Invoices
    BY DEF WatchPurchase, WatchEnds, IdleWatcher, AddPurchase, Failed, TypeOK, Tasks, ConfirmedIsPaid, WatchedIsPaid
  <2>4. failures' \in 0 .. MaxFaults
    BY DEF WatchPurchase, WatchEnds, IdleWatcher, AddPurchase, Failed, TypeOK, Tasks
  <2> QED BY <2>1, <2>2, <2>3, <2>4
       DEF WatchPurchase, startVars, TypeOK
<1>2. Started'
  BY DEF WatchPurchase, WatchEnds, IdleWatcher, AddPurchase, Failed, startVars,
     TypeOK, Started
<1>3. SettledInFull'
  BY DEF WatchPurchase, WatchEnds, IdleWatcher, AddPurchase, Failed, startVars,
     TypeOK, Started, SettledInFull
<1>4. RecordedIsPaid'
  BY ZenonT(30) DEF WatchPurchase, WatchEnds, IdleWatcher, AddPurchase, Failed, startVars,
     TypeOK, Started, SettledInFull, RecordedIsPaid, WatchedIsPaid, ConfirmedIsPaid
<1>5. WatchedIsPaid'
  <2>1. watcher'.at = "idle" \/ watcher'.inv = watcher.inv
    BY DEF WatchPurchase, WatchEnds, IdleWatcher, TypeOK
  <2> QED BY <2>1 DEF WatchPurchase, startVars, WatchedIsPaid
<1>6. ConfirmedIsPaid'
  BY DEF WatchPurchase, WatchEnds, IdleWatcher, AddPurchase, Failed, startVars,
     TypeOK, Tasks, Started, SettledInFull, ConfirmedIsPaid
<1>7. AllowlistIsPaid'
  BY DEF WatchPurchase, startVars, AllowlistIsPaid
<1> QED BY <1>1, <1>2, <1>3, <1>4, <1>5, <1>6, <1>7

LEMMA WatchAllowKeeps ==
  ASSUME PaidInv, WatchAllow
  PROVE  PaidInv'
<1> USE X402Assumption, NoneAssumption DEF PaidInv
<1>1. TypeOK'
  <2>1. allowlist' \subseteq Videos \X Users
    BY AllowPaid DEF WatchAllow, startVars, historyVars, WatchedIsPaid, TypeOK
  <2>2. watcher' \in [at : {"idle", "found", "marked", "purchased"},
                        inv : Invoices \cup {None}]
    BY DEF WatchAllow, WatchEnds, IdleWatcher, AddAllowlist, Failed, TypeOK, Tasks
  <2>3. failures' \in 0 .. MaxFaults
    BY DEF WatchAllow, WatchEnds, IdleWatcher, AddAllowlist, Failed, TypeOK, Tasks
  <2> QED BY <2>1, <2>2, <2>3
       DEF WatchAllow, startVars, historyVars, TypeOK
<1>2. Started'
  BY DEF WatchAllow, WatchEnds, IdleWatcher, AddAllowlist, Failed, startVars, historyVars,
     TypeOK, Started
<1>3. SettledInFull'
  BY DEF WatchAllow, WatchEnds, IdleWatcher, AddAllowlist, Failed, startVars, historyVars,
     TypeOK, Started, SettledInFull
<1>4. RecordedIsPaid'
  BY DEF WatchAllow, WatchEnds, IdleWatcher, AddAllowlist, Failed, startVars, historyVars,
     TypeOK, Started, SettledInFull, RecordedIsPaid, WatchedIsPaid, ConfirmedIsPaid
<1>5. WatchedIsPaid'
  BY DEF WatchAllow, WatchEnds, IdleWatcher, AddAllowlist, Failed, startVars, historyVars,
     TypeOK, Started, SettledInFull, RecordedIsPaid, WatchedIsPaid
<1>6. ConfirmedIsPaid'
  BY DEF WatchAllow, WatchEnds, IdleWatcher, AddAllowlist, Failed, startVars, historyVars,
     TypeOK, Tasks, Started, SettledInFull, ConfirmedIsPaid
<1>7. AllowlistIsPaid'
  BY AllowPaid DEF WatchAllow, startVars, historyVars, WatchedIsPaid, AllowlistIsPaid
<1> QED BY <1>1, <1>2, <1>3, <1>4, <1>5, <1>6, <1>7

LEMMA DisconnectKeeps ==
  ASSUME PaidInv, Disconnect
  PROVE  PaidInv'
<1> USE X402Assumption, NoneAssumption DEF PaidInv
<1>1. TypeOK'
  <2>1. connected' \in BOOLEAN
    BY DEF Disconnect, TypeOK, Tasks
  <2>2. feed' \in Seq(Invoices)
    BY DEF Disconnect, TypeOK, Tasks
  <2> QED BY <2>1, <2>2
       DEF Disconnect, startVars, grantVars, historyVars, boundVars, TypeOK
<1>2. Started'
  BY DEF Disconnect, startVars, grantVars, historyVars, boundVars,
     TypeOK, Started
<1>3. SettledInFull'
  BY DEF Disconnect, startVars, grantVars, historyVars, boundVars,
     TypeOK, Started, SettledInFull
<1>4. RecordedIsPaid'
  BY DEF Disconnect, startVars, grantVars, historyVars, boundVars,
     TypeOK, Started, SettledInFull, RecordedIsPaid, WatchedIsPaid, ConfirmedIsPaid
<1>5. WatchedIsPaid'
  BY DEF Disconnect, startVars, grantVars, historyVars, boundVars,
     TypeOK, Started, SettledInFull, RecordedIsPaid, WatchedIsPaid
<1>6. ConfirmedIsPaid'
  BY DEF Disconnect, startVars, grantVars, historyVars, boundVars,
     TypeOK, Tasks, Started, SettledInFull, ConfirmedIsPaid
<1>7. AllowlistIsPaid'
  BY DEF Disconnect, startVars, grantVars, historyVars, boundVars, AllowlistIsPaid
<1> QED BY <1>1, <1>2, <1>3, <1>4, <1>5, <1>6, <1>7

LEMMA ReconnectKeeps ==
  ASSUME PaidInv, Reconnect
  PROVE  PaidInv'
<1> USE X402Assumption, NoneAssumption DEF PaidInv
<1>1. TypeOK'
  <2>1. connected' \in BOOLEAN
    BY DEF Reconnect, TypeOK, Tasks
  <2> QED BY <2>1
       DEF Reconnect, startVars, watchVars, grantVars, historyVars, boundVars, TypeOK
<1>2. Started'
  BY DEF Reconnect, startVars, watchVars, grantVars, historyVars, boundVars,
     TypeOK, Started
<1>3. SettledInFull'
  BY DEF Reconnect, startVars, watchVars, grantVars, historyVars, boundVars,
     TypeOK, Started, SettledInFull
<1>4. RecordedIsPaid'
  BY DEF Reconnect, startVars, watchVars, grantVars, historyVars, boundVars,
     TypeOK, Started, SettledInFull, RecordedIsPaid, WatchedIsPaid, ConfirmedIsPaid
<1>5. WatchedIsPaid'
  BY DEF Reconnect, startVars, watchVars, grantVars, historyVars, boundVars,
     TypeOK, Started, SettledInFull, RecordedIsPaid, WatchedIsPaid
<1>6. ConfirmedIsPaid'
  BY DEF Reconnect, startVars, watchVars, grantVars, historyVars, boundVars,
     TypeOK, Tasks, Started, SettledInFull, ConfirmedIsPaid
<1>7. AllowlistIsPaid'
  BY DEF Reconnect, startVars, watchVars, grantVars, historyVars, boundVars, AllowlistIsPaid
<1> QED BY <1>1, <1>2, <1>3, <1>4, <1>5, <1>6, <1>7

LEMMA DropConfirmKeeps ==
  ASSUME PaidInv, NEW t \in Confirmers, DropConfirm(t)
  PROVE  PaidInv'
<1> USE X402Assumption, NoneAssumption DEF PaidInv
<1>1. TypeOK'
  <2>1. confirm' \in [Confirmers -> [at : Tasks, inv : Invoices \cup {None},
                                       tx : Invoices \cup {None}]]
    BY SetSlot, IdleSlot DEF DropConfirm, PaidInv, Slots
  <2>2. cut' \subseteq Invoices
    BY DEF DropConfirm, Stopped, IdleConfirm, TypeOK, Tasks, ConfirmedIsPaid, WatchedIsPaid
  <2>3. stops' \in 0 .. MaxFaults
    BY DEF DropConfirm, Stopped, IdleConfirm, TypeOK, Tasks
  <2> QED BY <2>1, <2>2, <2>3
       DEF DropConfirm, startVars, watchVars, grantVars, TypeOK
<1>2. Started'
  BY DEF DropConfirm, Stopped, IdleConfirm, startVars, watchVars, grantVars,
     TypeOK, Started
<1>3. SettledInFull'
  BY DEF DropConfirm, Stopped, IdleConfirm, startVars, watchVars, grantVars,
     TypeOK, Started, SettledInFull
<1>4. RecordedIsPaid'
  BY DEF DropConfirm, Stopped, IdleConfirm, startVars, watchVars, grantVars,
     TypeOK, Started, SettledInFull, RecordedIsPaid, WatchedIsPaid, ConfirmedIsPaid
<1>5. WatchedIsPaid'
  BY DEF DropConfirm, Stopped, IdleConfirm, startVars, watchVars, grantVars,
     TypeOK, Started, SettledInFull, RecordedIsPaid, WatchedIsPaid
<1>6. ConfirmedIsPaid'
  BY DEF DropConfirm, Stopped, IdleConfirm, startVars, watchVars, grantVars,
     TypeOK, Tasks, Started, SettledInFull, ConfirmedIsPaid
<1>7. AllowlistIsPaid'
  BY DEF DropConfirm, startVars, watchVars, grantVars, AllowlistIsPaid
<1> QED BY <1>1, <1>2, <1>3, <1>4, <1>5, <1>6, <1>7

LEMMA DropStartKeeps ==
  ASSUME PaidInv, NEW i \in Invoices, DropStart(i)
  PROVE  PaidInv'
<1> USE X402Assumption, NoneAssumption DEF PaidInv
<1>1. TypeOK'
  <2>1. starting' \in [Invoices -> {"new", "ref", "sign", "done"}]
    BY DEF DropStart, Stopped, TypeOK, Tasks
  <2>2. stops' \in 0 .. MaxFaults
    BY DEF DropStart, Stopped, TypeOK, Tasks
  <2> QED BY <2>1, <2>2
       DEF DropStart, watchVars, grantVars, historyVars, TypeOK
<1>2. Started'
  BY DEF DropStart, Stopped, watchVars, grantVars, historyVars,
     TypeOK, Started
<1>3. SettledInFull'
  BY DEF DropStart, Stopped, watchVars, grantVars, historyVars,
     TypeOK, Started, SettledInFull
<1>4. RecordedIsPaid'
  BY DEF DropStart, Stopped, watchVars, grantVars, historyVars,
     TypeOK, Started, SettledInFull, RecordedIsPaid, WatchedIsPaid, ConfirmedIsPaid
<1>5. WatchedIsPaid'
  BY DEF DropStart, Stopped, watchVars, grantVars, historyVars,
     TypeOK, Started, SettledInFull, RecordedIsPaid, WatchedIsPaid
<1>6. ConfirmedIsPaid'
  BY DEF DropStart, Stopped, watchVars, grantVars, historyVars,
     TypeOK, Tasks, Started, SettledInFull, ConfirmedIsPaid
<1>7. AllowlistIsPaid'
  BY DEF DropStart, watchVars, grantVars, historyVars, AllowlistIsPaid
<1> QED BY <1>1, <1>2, <1>3, <1>4, <1>5, <1>6, <1>7

LEMMA RestartKeeps ==
  ASSUME PaidInv, Restart
  PROVE  PaidInv'
<1> USE X402Assumption, NoneAssumption DEF PaidInv
<1>1. TypeOK'
  <2>1. confirm' \in [Confirmers -> [at : Tasks, inv : Invoices \cup {None},
                                       tx : Invoices \cup {None}]]
    BY DEF Restart, Stopped, Granting, IdleWatcher, IdleConfirm, TypeOK, Tasks
  <2>2. watcher' \in [at : {"idle", "found", "marked", "purchased"},
                        inv : Invoices \cup {None}]
    BY DEF Restart, Stopped, Granting, IdleWatcher, IdleConfirm, TypeOK, Tasks
  <2>3. connected' \in BOOLEAN
    BY DEF Restart, Stopped, Granting, IdleWatcher, IdleConfirm, TypeOK, Tasks
  <2>4. feed' \in Seq(Invoices)
    BY DEF Restart, Stopped, Granting, IdleWatcher, IdleConfirm, TypeOK, Tasks
  <2>5. starting' \in [Invoices -> {"new", "ref", "sign", "done"}]
    BY DEF Restart, Stopped, Granting, IdleWatcher, IdleConfirm, TypeOK, Tasks
  <2>6. cut' \subseteq Invoices
    BY DEF Restart, Stopped, Granting, IdleWatcher, IdleConfirm, TypeOK, Tasks, ConfirmedIsPaid, WatchedIsPaid
  <2>7. stops' \in 0 .. MaxFaults
    BY DEF Restart, Stopped, Granting, IdleWatcher, IdleConfirm, TypeOK, Tasks
  <2> QED BY <2>1, <2>2, <2>3, <2>4, <2>5, <2>6, <2>7
       DEF Restart, grantVars, TypeOK
<1>2. Started'
  BY DEF Restart, Stopped, Granting, IdleWatcher, IdleConfirm, grantVars,
     TypeOK, Started
<1>3. SettledInFull'
  BY DEF Restart, Stopped, Granting, IdleWatcher, IdleConfirm, grantVars,
     TypeOK, Started, SettledInFull
<1>4. RecordedIsPaid'
  BY DEF Restart, Stopped, Granting, IdleWatcher, IdleConfirm, grantVars,
     TypeOK, Started, SettledInFull, RecordedIsPaid, WatchedIsPaid, ConfirmedIsPaid
<1>5. WatchedIsPaid'
  BY DEF Restart, Stopped, Granting, IdleWatcher, IdleConfirm, grantVars,
     TypeOK, Started, SettledInFull, RecordedIsPaid, WatchedIsPaid
<1>6. ConfirmedIsPaid'
  BY DEF Restart, Stopped, Granting, IdleWatcher, IdleConfirm, grantVars,
     TypeOK, Tasks, Started, SettledInFull, ConfirmedIsPaid
<1>7. AllowlistIsPaid'
  BY DEF Restart, grantVars, AllowlistIsPaid
<1> QED BY <1>1, <1>2, <1>3, <1>4, <1>5, <1>6, <1>7

LEMMA BlockKeeps ==
  ASSUME PaidInv, NEW p \in MayBlock, Block(p[1], p[2])
  PROVE  PaidInv'
<1> USE X402Assumption, NoneAssumption DEF PaidInv
<1>1. TypeOK'
  <2>1. blocked' \subseteq Users \X Users
    BY DEF Block, TypeOK, Tasks
  <2> QED BY <2>1
       DEF Block, startVars, watchVars, grantVars, historyVars, boundVars, TypeOK
<1>2. Started'
  BY DEF Block, startVars, watchVars, grantVars, historyVars, boundVars,
     TypeOK, Started
<1>3. SettledInFull'
  BY DEF Block, startVars, watchVars, grantVars, historyVars, boundVars,
     TypeOK, Started, SettledInFull
<1>4. RecordedIsPaid'
  BY DEF Block, startVars, watchVars, grantVars, historyVars, boundVars,
     TypeOK, Started, SettledInFull, RecordedIsPaid, WatchedIsPaid, ConfirmedIsPaid
<1>5. WatchedIsPaid'
  BY DEF Block, startVars, watchVars, grantVars, historyVars, boundVars,
     TypeOK, Started, SettledInFull, RecordedIsPaid, WatchedIsPaid
<1>6. ConfirmedIsPaid'
  BY DEF Block, startVars, watchVars, grantVars, historyVars, boundVars,
     TypeOK, Tasks, Started, SettledInFull, ConfirmedIsPaid
<1>7. AllowlistIsPaid'
  BY DEF Block, startVars, watchVars, grantVars, historyVars, boundVars, AllowlistIsPaid
<1> QED BY <1>1, <1>2, <1>3, <1>4, <1>5, <1>6, <1>7

LEMMA InitPaidInv == Init => PaidInv
<1> SUFFICES ASSUME Init PROVE PaidInv
  OBVIOUS
<1> USE X402Assumption
<1>1. TypeOK
  <2>1. /\ order \in [Invoices -> Orders \cup {None}]
        /\ row \in [Invoices -> {"absent", "pending", "underpaid", "paid"}]
        /\ starting \in [Invoices -> {"new", "ref", "sign", "done"}]
    BY DEF Init
  <2>2. /\ settled \in [Invoices -> Nat]
        /\ purchases \in [Invoices -> Nat]
        /\ commissions \in [Invoices -> Nat]
    BY DEF Init
  <2>3. confirm \in [Confirmers -> Slots]
    BY IdleSlot DEF Init
  <2>4. watcher \in [at : {"idle", "found", "marked", "purchased"},
                    inv : Invoices \cup {None}]
    BY DEF Init, IdleWatcher
  <2>5. feed \in Seq(Invoices)
    BY DEF Init
  <2>6. connected \in BOOLEAN
    BY DEF Init
  <2>7. /\ hasRef \subseteq Invoices /\ signed \subseteq Invoices
        /\ acked \subseteq Invoices /\ cut \subseteq Invoices
        /\ allowlist \subseteq Videos \X Users /\ blocked \subseteq Users \X Users
    BY DEF Init
  <2>8. failures \in 0 .. MaxFaults /\ stops \in 0 .. MaxFaults
    BY DEF Init
  <2> QED BY <2>1, <2>2, <2>3, <2>4, <2>5, <2>6, <2>7, <2>8 DEF TypeOK, Slots
<1>2. Started /\ SettledInFull /\ RecordedIsPaid
  BY DEF Init, Started, SettledInFull, RecordedIsPaid
<1>3. WatchedIsPaid /\ ConfirmedIsPaid /\ AllowlistIsPaid
  BY DEF Init, WatchedIsPaid, ConfirmedIsPaid, AllowlistIsPaid, IdleWatcher, IdleConfirm
<1> QED BY <1>1, <1>2, <1>3 DEF PaidInv

LEMMA PaidInvStep == PaidInv /\ [Next]_vars => PaidInv'
<1> SUFFICES ASSUME PaidInv, [Next]_vars PROVE PaidInv'
  OBVIOUS
<1>1. ASSUME NEW i \in Invoices, Start(i) PROVE PaidInv'
  BY <1>1, StartPayKeeps, CreateInvoiceKeeps, StoreRefKeeps, SignPayloadKeeps DEF Start
<1>2. ASSUME NEW i \in Invoices, NEW amount \in Amounts, PayContract(i, amount)
      PROVE  PaidInv'
  BY <1>2, PayContractKeeps
<1>3. ASSUME NEW t \in Confirmers, NEW i \in Invoices, NEW tx \in Invoices,
             ConfirmRead(t, i, tx)
      PROVE  PaidInv'
  BY <1>3, ConfirmReadKeeps
<1>4. ASSUME NEW t \in Confirmers, ConfirmStep(t) \/ DropConfirm(t) PROVE PaidInv'
  BY <1>4, ConfirmMarkKeeps, ConfirmPurchaseKeeps, ConfirmAllowKeeps,
     ConfirmCommissionKeeps, DropConfirmKeeps DEF ConfirmStep
<1>5. CASE WatchStep
  BY <1>5, WatchNextKeeps, WatchMarkKeeps, WatchPurchaseKeeps, WatchAllowKeeps
     DEF WatchStep
<1>6. CASE Disconnect \/ Reconnect \/ Restart
  BY <1>6, DisconnectKeeps, ReconnectKeeps, RestartKeeps
<1>7. ASSUME NEW i \in Invoices, DropStart(i) PROVE PaidInv'
  BY <1>7, DropStartKeeps
<1>8. ASSUME NEW p \in MayBlock, Block(p[1], p[2]) PROVE PaidInv'
  BY <1>8, BlockKeeps
<1>9. CASE UNCHANGED vars
  BY <1>9 DEF vars, PaidInv, TypeOK, Started, SettledInFull, RecordedIsPaid,
     WatchedIsPaid, ConfirmedIsPaid, AllowlistIsPaid
<1> QED BY <1>1, <1>2, <1>3, <1>4, <1>5, <1>6, <1>7, <1>8, <1>9 DEF Next

\* Whatever x402_start stored, the contract, the confirmations and the watcher do,
\* what the server has recorded rests on a payment in full on the chain.
THEOREM X402Invariant == Spec => []PaidInv
BY InitPaidInv, PaidInvStep, PTL DEF Spec
-----------------------------------------------------------------------------
(* What no step takes back. *)

\* An order is fixed once x402_start has run; a payment, a paid row, a sale, a
\* commission and an allowlist entry stay; so do blocks, cuts and failures.
Grows ==
    /\ \A i \in Invoices : starting[i] # "new" =>
                              starting'[i] # "new" /\ order'[i] = order[i]
    /\ \A i \in Invoices : row[i] = "paid" => row'[i] = "paid"
    /\ \A i \in Invoices : settled[i] > 0 => settled'[i] = settled[i]
    /\ \A i \in Invoices : /\ purchases'[i] >= purchases[i]
                             /\ commissions'[i] >= commissions[i]
    /\ allowlist \subseteq allowlist' /\ cut \subseteq cut' /\ blocked \subseteq blocked'
    /\ failures' >= failures

LEMMA StartPayGrows ==
  ASSUME PaidInv, NEW i \in Invoices, NEW o \in Orders, StartPay(i, o)
  PROVE  Grows
BY SMTT(30) DEF StartPay, Failed, watchVars, grantVars, historyVars, Grows, PaidInv, TypeOK, Started

LEMMA CreateInvoiceGrows ==
  ASSUME PaidInv, NEW i \in Invoices, NEW o \in Orders, CreateInvoice(i, o)
  PROVE  Grows
BY SMTT(30) DEF CreateInvoice, Failed, watchVars, grantVars, historyVars, Grows, PaidInv,
   TypeOK, Started

LEMMA StoreRefGrows ==
  ASSUME PaidInv, NEW i \in Invoices, StoreRef(i)
  PROVE  Grows
BY DEF StoreRef, Failed, watchVars, grantVars, historyVars, Grows, PaidInv, TypeOK

LEMMA SignPayloadGrows ==
  ASSUME PaidInv, NEW i \in Invoices, SignPayload(i)
  PROVE  Grows
BY DEF SignPayload, watchVars, grantVars, historyVars, boundVars, Grows, PaidInv, TypeOK

LEMMA PayContractGrows ==
  ASSUME PaidInv, NEW i \in Invoices, NEW amount \in Amounts, PayContract(i, amount)
  PROVE  Grows
BY DEF PayContract, Accepts, startVars, grantVars, historyVars, boundVars, Grows,
   PaidInv, TypeOK

LEMMA ConfirmReadGrows ==
  ASSUME PaidInv, NEW t \in Confirmers, NEW i \in Invoices, NEW tx \in Invoices, ConfirmRead(t, i, tx)
  PROVE  Grows
BY DEF ConfirmRead, IsReplay, startVars, watchVars, grantVars, boundVars, Grows,
   PaidInv, TypeOK

LEMMA ConfirmMarkGrows ==
  ASSUME PaidInv, NEW t \in Confirmers, ConfirmMark(t)
  PROVE  Grows
<1>1. ASSUME HasPaidEvent(confirm[t].inv, confirm[t].tx)
      PROVE  settled[confirm[t].tx] >= Required(order[confirm[t].inv].video)
  BY <1>1 DEF PaidInv, ConfirmMark, ConfirmedIsPaid, SettledInFull, HasPaidEvent
<1>2. \A j \in Invoices : row[j] = "paid" => row'[j] = "paid"
  BY <1>1 DEF ConfirmMark, PaidInv, TypeOK
<1> QED BY <1>2 DEF ConfirmMark, Failed, startVars, grantVars, historyVars, Grows,
     PaidInv, TypeOK

LEMMA ConfirmPurchaseGrows ==
  ASSUME PaidInv, NEW t \in Confirmers, ConfirmPurchase(t)
  PROVE  Grows
BY CountPurchase DEF ConfirmPurchase, ConfirmAt, Failed, startVars, watchVars,
   historyVars, Grows, PaidInv, TypeOK

LEMMA ConfirmAllowGrows ==
  ASSUME PaidInv, NEW t \in Confirmers, ConfirmAllow(t)
  PROVE  Grows
BY DEF ConfirmAllow, ConfirmAt, AddAllowlist, Failed, startVars, watchVars,
   historyVars, Grows, PaidInv, TypeOK

LEMMA ConfirmCommissionGrows ==
  ASSUME PaidInv, NEW t \in Confirmers, ConfirmCommission(t)
  PROVE  Grows
<1>1. \A j \in Invoices : commissions'[j] >= commissions[j]
  BY CountCommission DEF ConfirmCommission, PaidInv, TypeOK
<1> QED BY <1>1 DEF ConfirmCommission, startVars, boundVars, Grows, PaidInv, TypeOK

LEMMA WatchNextGrows ==
  ASSUME PaidInv, WatchNext
  PROVE  Grows
<1>1. failures' >= failures
  BY DEF WatchNext, Failed, PaidInv, TypeOK
<1> QED BY SMTT(30), <1>1 DEF WatchNext, startVars, grantVars, historyVars, Grows, PaidInv, TypeOK

LEMMA WatchMarkGrows ==
  ASSUME PaidInv, WatchMark
  PROVE  Grows
BY DEF WatchMark, WatchEnds, IdleWatcher, Failed, startVars, grantVars, historyVars,
   Grows, PaidInv, TypeOK

LEMMA WatchPurchaseGrows ==
  ASSUME PaidInv, WatchPurchase
  PROVE  Grows
BY CountPurchase DEF WatchPurchase, WatchEnds, IdleWatcher, Failed, startVars, Grows,
   PaidInv, TypeOK

LEMMA WatchAllowGrows ==
  ASSUME PaidInv, WatchAllow
  PROVE  Grows
BY DEF WatchAllow, WatchEnds, IdleWatcher, AddAllowlist, Failed, startVars,
   historyVars, Grows, PaidInv, TypeOK

LEMMA DisconnectGrows ==
  ASSUME PaidInv, Disconnect
  PROVE  Grows
BY DEF Disconnect, startVars, grantVars, historyVars, boundVars, Grows, PaidInv, TypeOK

LEMMA ReconnectGrows ==
  ASSUME PaidInv, Reconnect
  PROVE  Grows
BY DEF Reconnect, startVars, watchVars, grantVars, historyVars, boundVars, Grows,
   PaidInv, TypeOK

LEMMA DropConfirmGrows ==
  ASSUME PaidInv, NEW t \in Confirmers, DropConfirm(t)
  PROVE  Grows
BY DEF DropConfirm, Stopped, IdleConfirm, startVars, watchVars, grantVars, Grows,
   PaidInv, TypeOK

LEMMA DropStartGrows ==
  ASSUME PaidInv, NEW i \in Invoices, DropStart(i)
  PROVE  Grows
BY DEF DropStart, Stopped, watchVars, grantVars, historyVars, Grows, PaidInv, TypeOK

LEMMA RestartGrows ==
  ASSUME PaidInv, Restart
  PROVE  Grows
BY DEF Restart, Stopped, Granting, IdleWatcher, IdleConfirm, grantVars, Grows,
   PaidInv, TypeOK

LEMMA BlockGrows ==
  ASSUME PaidInv, NEW p \in MayBlock, Block(p[1], p[2])
  PROVE  Grows
BY DEF Block, startVars, watchVars, grantVars, historyVars, boundVars, Grows,
   PaidInv, TypeOK

LEMMA StepGrows ==
  ASSUME PaidInv, [Next]_vars
  PROVE  Grows
<1>1. ASSUME NEW i \in Invoices, Start(i) PROVE Grows
  BY <1>1, StartPayGrows, CreateInvoiceGrows, StoreRefGrows, SignPayloadGrows DEF Start
<1>2. ASSUME NEW i \in Invoices, NEW amount \in Amounts, PayContract(i, amount)
      PROVE  Grows
  BY <1>2, PayContractGrows
<1>3. ASSUME NEW t \in Confirmers, NEW i \in Invoices, NEW tx \in Invoices,
             ConfirmRead(t, i, tx)
      PROVE  Grows
  BY <1>3, ConfirmReadGrows
<1>4. ASSUME NEW t \in Confirmers, ConfirmStep(t) \/ DropConfirm(t) PROVE Grows
  BY <1>4, ConfirmMarkGrows, ConfirmPurchaseGrows, ConfirmAllowGrows,
     ConfirmCommissionGrows, DropConfirmGrows DEF ConfirmStep
<1>5. CASE WatchStep
  BY <1>5, WatchNextGrows, WatchMarkGrows, WatchPurchaseGrows, WatchAllowGrows
     DEF WatchStep
<1>6. CASE Disconnect \/ Reconnect \/ Restart
  BY <1>6, DisconnectGrows, ReconnectGrows, RestartGrows
<1>7. ASSUME NEW i \in Invoices, DropStart(i) PROVE Grows
  BY <1>7, DropStartGrows
<1>8. ASSUME NEW p \in MayBlock, Block(p[1], p[2]) PROVE Grows
  BY <1>8, BlockGrows
<1>9. CASE UNCHANGED vars
  BY <1>9 DEF vars, Grows, PaidInv, TypeOK
<1> QED BY <1>1, <1>2, <1>3, <1>4, <1>5, <1>6, <1>7, <1>8, <1>9 DEF Next

\* No state of an invoice follows "paid": what the confirmation writes without a
\* look at the status is "paid" again, because the contract takes no less than the
\* price.
THEOREM X402PaidIsFinal == Spec => PaidIsFinal
<1>1. PaidInv /\ [Next]_vars
        => [\A i \in Invoices : row[i] = "paid" => row'[i] = "paid"]_vars
  BY StepGrows DEF Grows
<1> QED BY <1>1, X402Invariant, PTL DEF Spec, PaidIsFinal

\* Every variable keeps its type.
THEOREM X402Type == Spec => []TypeOK
BY X402Invariant, PTL DEF PaidInv

\* Whoever is on the allowlist has paid the video's price in full, for every price,
\* every number of decimals and every amount the buyers try.
THEOREM X402AllowlistIsPaid == Spec => []AllowlistIsPaid
BY X402Invariant, PTL DEF PaidInv

-----------------------------------------------------------------------------
(* Both handlers together implement Entitlement. *)

\* Nothing is sold, paid or commissioned in the step.
QuietSale ==
    /\ \A i \in Invoices : row'[i] = "paid" <=> row[i] = "paid"
    /\ UNCHANGED <<settled, purchases, commissions>>

LEMMA QuietSaleStutters ==
  ASSUME QuietSale
  PROVE  [E!Next]_(E!vars)
<1>1. \A i \in Invoices :
          (row[i] = "paid" \/ purchases[i] > 0 \/ commissions[i] > 0)
              <=> (row'[i] = "paid" \/ purchases'[i] > 0 \/ commissions'[i] > 0)
  BY DEF QuietSale
<1>2. UNCHANGED settled
  BY DEF QuietSale
<1>3. UNCHANGED E!vars
  BY <1>1, <1>2 DEF E!vars
<1> QED BY <1>3

\* What is recorded for one paid invoice is a Grant of it.
LEMMA RecordIsGrant ==
  ASSUME PaidInv, TypeOK', Grows, NEW i \in Invoices, settled[i] > 0,
         UNCHANGED settled,
         \A j \in Invoices : j # i => /\ row'[j] = row[j]
                                      /\ purchases'[j] = purchases[j]
                                      /\ commissions'[j] = commissions[j]
  PROVE  [E!Next]_(E!vars)
<1> DEFINE P == {j \in Invoices : settled[j] > 0}
           G == {j \in Invoices :
                    row[j] = "paid" \/ purchases[j] > 0 \/ commissions[j] > 0}
<1>1. P' = P /\ i \in P
  OBVIOUS
<1>2. G \subseteq G'
  <2> SUFFICES ASSUME NEW j \in Invoices,
                      row[j] = "paid" \/ purchases[j] > 0 \/ commissions[j] > 0
               PROVE  row'[j] = "paid" \/ purchases'[j] > 0 \/ commissions'[j] > 0
    OBVIOUS
  <2>1. /\ purchases[j] \in Nat /\ purchases'[j] \in Nat
        /\ commissions[j] \in Nat /\ commissions'[j] \in Nat
    BY DEF PaidInv, TypeOK
  <2>2. purchases'[j] >= purchases[j] /\ commissions'[j] >= commissions[j]
    BY DEF Grows
  <2>3. CASE row[j] = "paid"
    BY <2>3 DEF Grows
  <2>4. CASE purchases[j] > 0
    BY <2>1, <2>2, <2>4
  <2>5. CASE commissions[j] > 0
    BY <2>1, <2>2, <2>5
  <2> QED BY <2>3, <2>4, <2>5
<1>3. G' = G \/ G' = G \cup {i}
  <2>1. \A j \in Invoices : j # i => (j \in G' <=> j \in G)
    OBVIOUS
  <2> QED BY <1>2, <2>1
<1>4. UNCHANGED E!vars \/ E!Grant(i)
  BY <1>1, <1>3 DEF E!vars, E!Grant
<1> QED BY <1>4 DEF E!Next

LEMMA StepImplements ==
  ASSUME PaidInv, PaidInv', [Next]_vars
  PROVE  [E!Next]_(E!vars)
<1>1. Grows /\ TypeOK'
  BY StepGrows DEF PaidInv
<1>2. ASSUME NEW i \in Invoices, Start(i) PROVE QuietSale
  <2>1. UNCHANGED <<settled, purchases, commissions>>
    BY <1>2 DEF Start, StartPay, CreateInvoice, StoreRef, SignPayload, grantVars
  <2>2. \/ UNCHANGED row
        \/ starting[i] = "new" /\ row' = [row EXCEPT ![i] = "pending"]
    BY <1>2 DEF Start, StartPay, CreateInvoice, StoreRef, SignPayload
  <2>3. starting[i] = "new" => row[i] = "absent"
    BY DEF PaidInv, Started
  <2> QED BY <2>1, <2>2, <2>3 DEF QuietSale, PaidInv, TypeOK
<1>3. ASSUME NEW i \in Invoices, NEW amount \in Amounts, PayContract(i, amount)
      PROVE  E!Next
  <2>1. settled[i] = 0 /\ amount > 0 /\ settled' = [settled EXCEPT ![i] = amount]
    BY <1>3 DEF PayContract, Accepts
  <2>2. UNCHANGED <<row, purchases, commissions>>
    BY <1>3 DEF PayContract, grantVars
  <2>3. {j \in Invoices : settled'[j] > 0} = {j \in Invoices : settled[j] > 0} \cup {i}
    BY <2>1 DEF PaidInv, TypeOK
  <2>4. E!Pay(i)
    BY <2>1, <2>2, <2>3 DEF E!Pay
  <2> QED BY <2>4 DEF E!Next
<1>4. ASSUME NEW t \in Confirmers, NEW i \in Invoices, NEW tx \in Invoices,
             ConfirmRead(t, i, tx)
      PROVE  QuietSale
  BY <1>4 DEF ConfirmRead, grantVars, QuietSale
<1>5. ASSUME NEW t \in Confirmers, ConfirmMark(t) PROVE [E!Next]_(E!vars)
  <2>1. CASE UNCHANGED row
    BY <1>5, <2>1, QuietSaleStutters DEF ConfirmMark, grantVars, QuietSale
  <2>2. CASE HasPaidEvent(confirm[t].inv, confirm[t].tx)
    <3>1. confirm[t].inv \in Invoices /\ settled[confirm[t].inv] > 0
      BY <1>5, <2>2 DEF ConfirmMark, HasPaidEvent, PaidInv, ConfirmedIsPaid
    <3>2. \A j \in Invoices : j # confirm[t].inv => row'[j] = row[j]
      BY <1>5 DEF ConfirmMark, PaidInv, TypeOK
    <3> QED BY <1>1, <1>5, <3>1, <3>2, RecordIsGrant DEF ConfirmMark, grantVars
  <2> QED BY <1>5, <2>1, <2>2 DEF ConfirmMark
<1>6. ASSUME NEW t \in Confirmers, ConfirmPurchase(t) PROVE [E!Next]_(E!vars)
  <2>1. confirm[t].inv \in Invoices /\ settled[confirm[t].inv] > 0
    BY <1>6 DEF ConfirmPurchase, PaidInv, ConfirmedIsPaid
  <2>2. \A j \in Invoices : j # confirm[t].inv => purchases'[j] = purchases[j]
    BY SMTT(30), <1>6, CountPurchase DEF ConfirmPurchase, PaidInv, TypeOK
  <2> QED BY <1>1, <1>6, <2>1, <2>2, RecordIsGrant DEF ConfirmPurchase
<1>7. ASSUME NEW t \in Confirmers, ConfirmCommission(t) PROVE [E!Next]_(E!vars)
  <2>1. confirm[t].inv \in Invoices /\ settled[confirm[t].inv] > 0
    BY <1>7 DEF ConfirmCommission, PaidInv, ConfirmedIsPaid
  <2>2. \A j \in Invoices : j # confirm[t].inv => commissions'[j] = commissions[j]
    BY <1>7, CountCommission DEF ConfirmCommission, PaidInv, TypeOK
  <2> QED BY <1>1, <1>7, <2>1, <2>2, RecordIsGrant DEF ConfirmCommission
<1>8. ASSUME NEW t \in Confirmers, ConfirmAllow(t) \/ DropConfirm(t) PROVE QuietSale
  BY <1>8 DEF ConfirmAllow, DropConfirm, grantVars, QuietSale
<1>9. CASE WatchMark
  <2>1. watcher.inv \in Invoices /\ settled[watcher.inv] > 0
    BY <1>9 DEF WatchMark, PaidInv, WatchedIsPaid
  <2>2. \A j \in Invoices : j # watcher.inv => row'[j] = row[j]
    BY <1>9 DEF WatchMark, PaidInv, TypeOK
  <2> QED BY <1>1, <1>9, <2>1, <2>2, RecordIsGrant DEF WatchMark, grantVars
<1>10. CASE WatchPurchase
  <2>1. watcher.inv \in Invoices /\ settled[watcher.inv] > 0
    BY <1>10 DEF WatchPurchase, PaidInv, WatchedIsPaid
  <2>2. \A j \in Invoices : j # watcher.inv => purchases'[j] = purchases[j]
    BY <1>10, CountPurchase DEF WatchPurchase, PaidInv, TypeOK
  <2> QED BY <1>1, <1>10, <2>1, <2>2, RecordIsGrant DEF WatchPurchase
<1>11. CASE WatchNext \/ WatchAllow \/ Disconnect \/ Reconnect \/ Restart
  <2>1. QuietSale
    BY <1>11 DEF WatchNext, WatchAllow, Disconnect, Reconnect, Restart, grantVars,
       QuietSale
  <2> QED BY <2>1, QuietSaleStutters
<1>12. ASSUME NEW i \in Invoices, DropStart(i) PROVE QuietSale
  BY <1>12 DEF DropStart, grantVars, QuietSale
<1>13. ASSUME NEW p \in MayBlock, Block(p[1], p[2]) PROVE QuietSale
  BY <1>13 DEF Block, grantVars, QuietSale
<1>14. CASE UNCHANGED vars
  BY <1>14, QuietSaleStutters DEF vars, QuietSale
<1> QED BY <1>2, <1>3, <1>4, <1>5, <1>6, <1>7, <1>8, <1>9, <1>10, <1>11, <1>12, <1>13,
           <1>14, QuietSaleStutters DEF Next, ConfirmStep, WatchStep

\* The confirmation and the watcher, each unaware of the other, keep the promise of
\* Entitlement.
THEOREM X402ImplementsEntitlement == Spec => ImplementsEntitlement
<1>1. Init => E!Init
  <2> SUFFICES ASSUME Init PROVE E!Init
    OBVIOUS
  <2>1. /\ settled = [i \in Invoices |-> 0]
        /\ row = [i \in Invoices |-> "absent"]
        /\ purchases = [i \in Invoices |-> 0]
        /\ commissions = [i \in Invoices |-> 0]
    BY Zenon DEF Init
  <2>2. ASSUME NEW i \in Invoices
        PROVE  settled[i] = 0 /\ row[i] = "absent" /\ purchases[i] = 0 /\ commissions[i] = 0
    BY <2>1, Zenon
  <2>3. ASSUME NEW n, n = 0
        PROVE  ~(n > 0)
    BY <2>3, SMT
  <2>4. \A i \in Invoices : ~(settled[i] > 0)
    BY <2>2, <2>3, Zenon
  <2>5. \A i \in Invoices : ~(row[i] = "paid" \/ purchases[i] > 0 \/ commissions[i] > 0)
    BY <2>2, <2>3, Zenon
  <2> QED BY <2>4, <2>5 DEF E!Init
<1>2. PaidInv /\ PaidInv' /\ [Next]_vars => [E!Next]_(E!vars)
  BY StepImplements
<1> QED BY <1>1, <1>2, X402Invariant, PTL DEF Spec, ImplementsEntitlement, E!Spec

-----------------------------------------------------------------------------
(* Who was told "paid" and cannot watch. *)

\* The buyer can watch, or there is an excuse that no running handler will remove.
Excused(i) ==
    \/ BuyerCanWatch(i)
    \/ i \in cut
    \/ failures > 0 /\ (IsBlocked(i) \/ failures > 1)

\* A paid row and a "paid" answer have a grant behind them, given or under way; a
\* handler past its INSERT INTO purchases has sold, or knows what refused the sale.
GrantInv ==
    /\ \A i \in Invoices :
           row[i] = "paid" \/ i \in acked => Excused(i) \/ i \in Granting
    /\ \A t \in Confirmers :
           /\ confirm[t].at = "purchased" => \/ purchases[confirm[t].inv] > 0
                                             \/ IsBlocked(confirm[t].inv)
                                             \/ failures > 0
           /\ confirm[t].at = "allowed" => Excused(confirm[t].inv)
    /\ watcher.at = "purchased" => purchases[watcher.inv] > 0

LEMMA InGranting ==
  /\ \A i \in Invoices : i \in Granting <=>
         \/ \E t \in Confirmers : confirm[t].at \in {"marked", "purchased"} /\ confirm[t].inv = i
         \/ watcher.at = "marked" /\ watcher.inv = i
  /\ \A i \in Invoices : i \in Granting' <=>
         \/ \E t \in Confirmers : confirm'[t].at \in {"marked", "purchased"} /\ confirm'[t].inv = i
         \/ watcher'.at = "marked" /\ watcher'.inv = i
BY DEF Granting

\* A sale stays one.
LEMMA SoldStays ==
  ASSUME PaidInv, TypeOK', Grows, NEW i \in Invoices, purchases[i] > 0
  PROVE  purchases'[i] > 0
<1>1. purchases[i] \in Nat /\ purchases'[i] \in Nat /\ purchases'[i] >= purchases[i]
  BY DEF PaidInv, TypeOK, Grows
<1> QED BY <1>1

\* A block of the buyer stays one.
LEMMA BlockStays ==
  ASSUME Grows, NEW i \in Invoices, starting[i] # "new", IsBlocked(i)
  PROVE  IsBlocked(i)'
BY DEF Grows, IsBlocked

LEMMA FailuresStay ==
  ASSUME PaidInv, TypeOK', Grows
  PROVE  /\ failures > 0 => failures' > 0
         /\ failures > 1 => failures' > 1
<1>1. failures \in Nat /\ failures' \in Nat /\ failures' >= failures
  BY X402Assumption DEF PaidInv, TypeOK, Grows
<1> QED BY <1>1

LEMMA AccessStays ==
  ASSUME PaidInv, TypeOK', Grows, NEW i \in Invoices, BuyerCanWatch(i)
  PROVE  BuyerCanWatch(i)'
<1>1. order[i] # None
  BY DEF BuyerCanWatch
<1>2. \A j \in Invoices : order[j] # None => order'[j] = order[j]
  BY DEF PaidInv, Started, Grows
<1>3. CASE Owner[order[i].video] = order[i].buyer
  BY <1>1, <1>2, <1>3 DEF BuyerCanWatch
<1>4. CASE <<order[i].video, order[i].buyer>> \in allowlist
  BY <1>1, <1>2, <1>4 DEF BuyerCanWatch, Grows
<1>5. ASSUME NEW j \in Invoices, order[j] # None, purchases[j] > 0,
             order[j].buyer = order[i].buyer, order[j].video = order[i].video
      PROVE  BuyerCanWatch(i)'
  <2>1. purchases'[j] > 0
    BY <1>5, SoldStays
  <2> QED BY <1>1, <1>2, <1>5, <2>1 DEF BuyerCanWatch
<1> QED BY <1>3, <1>4, <1>5 DEF BuyerCanWatch

LEMMA ExcusedStays ==
  ASSUME PaidInv, TypeOK', Grows, NEW i \in Invoices, starting[i] # "new", Excused(i)
  PROVE  Excused(i)'
<1>1. CASE BuyerCanWatch(i)
  BY <1>1, AccessStays DEF Excused
<1>2. CASE i \in cut
  BY <1>2 DEF Excused, Grows
<1>3. CASE failures > 0 /\ IsBlocked(i)
  BY <1>3, BlockStays, FailuresStay DEF Excused
<1>4. CASE failures > 1
  <2>1. failures \in Nat
    BY X402Assumption DEF PaidInv, TypeOK
  <2>2. failures > 0
    BY <1>4, <2>1
  <2> QED BY <1>4, <2>2, FailuresStay DEF Excused
<1> QED BY <1>1, <1>2, <1>3, <1>4 DEF Excused

\* What is recorded or under way belongs to an invoice that x402_start has made.
LEMMA PaidIsStarted ==
  ASSUME PaidInv
  PROVE  \A i \in Invoices : settled[i] > 0 => starting[i] # "new"
BY DEF PaidInv, SettledInFull, Started

\* A step of one task: whatever it stops granting is excused, and whatever it marks
\* or answers is excused or being granted.
LEMMA OneTaskGrants ==
  ASSUME PaidInv, TypeOK', ConfirmedIsPaid', Grows, GrantInv, NEW t \in Confirmers,
         UNCHANGED watcher,
         \A u \in Confirmers : u # t => confirm'[u] = confirm[u],
         \A i \in Invoices : confirm[t].at \in {"marked", "purchased"} /\ confirm[t].inv = i =>
             \/ Excused(i)'
             \/ confirm'[t].at \in {"marked", "purchased"} /\ confirm'[t].inv = i,
         \A i \in Invoices : confirm'[t].at = "purchased" /\ confirm'[t].inv = i =>
             purchases'[i] > 0 \/ IsBlocked(i)' \/ failures' > 0,
         \A i \in Invoices : confirm'[t].at = "allowed" /\ confirm'[t].inv = i =>
             Excused(i)',
         \A i \in Invoices : row'[i] = "paid" \/ i \in acked' =>
             row[i] = "paid" \/ i \in acked \/ Excused(i)' \/ i \in Granting'
  PROVE  GrantInv'
<1>1. ASSUME NEW i \in Invoices, row'[i] = "paid" \/ i \in acked'
      PROVE  Excused(i)' \/ i \in Granting'
  <2>1. CASE row[i] = "paid" \/ i \in acked
    <3>1. starting[i] # "new"
      BY <2>1, PaidIsStarted DEF PaidInv, RecordedIsPaid
    <3>2. CASE Excused(i)
      BY <3>1, <3>2, ExcusedStays
    <3>3. CASE i \in Granting
      BY <3>3, InGranting
    <3> QED BY <2>1, <3>2, <3>3 DEF GrantInv
  <2> QED BY <1>1, <2>1
<1>2. ASSUME NEW u \in Confirmers, NEW i \in Invoices, confirm'[u].inv = i,
             confirm'[u].at = "purchased"
      PROVE  purchases'[i] > 0 \/ IsBlocked(i)' \/ failures' > 0
  <2>1. CASE u # t
    <3>1. confirm[u].at = "purchased" /\ confirm[u].inv = i
      BY <1>2, <2>1
    <3>2. starting[i] # "new"
      BY <3>1 DEF PaidInv, ConfirmedIsPaid
    <3>3. purchases[i] > 0 \/ IsBlocked(i) \/ failures > 0
      BY <3>1 DEF GrantInv, IsBlocked
    <3> QED BY <3>2, <3>3, SoldStays, BlockStays, FailuresStay
  <2> QED BY <1>2, <2>1
<1>3. ASSUME NEW u \in Confirmers, NEW i \in Invoices, confirm'[u].inv = i,
             confirm'[u].at = "allowed"
      PROVE  Excused(i)'
  <2>1. CASE u # t
    <3>1. confirm[u].at = "allowed" /\ confirm[u].inv = i
      BY <1>3, <2>1
    <3>2. starting[i] # "new"
      BY <3>1 DEF PaidInv, ConfirmedIsPaid
    <3>3. Excused(i)
      BY <3>1 DEF GrantInv
    <3> QED BY <3>2, <3>3, ExcusedStays
  <2> QED BY <1>3, <2>1
<1>4. watcher'.at = "purchased" => purchases'[watcher'.inv] > 0
  BY SoldStays DEF GrantInv, PaidInv, WatchedIsPaid
<1>5. ASSUME NEW u \in Confirmers, confirm'[u].at # "idle"
      PROVE  confirm'[u].inv \in Invoices
  BY <1>5 DEF ConfirmedIsPaid
<1>6. ASSUME NEW u \in Confirmers, confirm'[u].at = "purchased"
      PROVE  (\/ purchases[confirm[u].inv] > 0 \/ IsBlocked(confirm[u].inv)
              \/ failures > 0)'
  BY <1>2, <1>5, <1>6 DEF IsBlocked
<1>7. ASSUME NEW u \in Confirmers, confirm'[u].at = "allowed"
      PROVE  Excused(confirm[u].inv)'
  BY <1>3, <1>5, <1>7 DEF Excused, IsBlocked, BuyerCanWatch
<1> QED BY <1>1, <1>4, <1>6, <1>7 DEF GrantInv

\* The same for a step of the watcher, and for one that moves neither.
LEMMA OneWatchGrants ==
  ASSUME PaidInv, TypeOK', Grows, GrantInv, UNCHANGED confirm,
         \A i \in Invoices : watcher.at = "marked" /\ watcher.inv = i =>
             Excused(i)' \/ (watcher'.at = "marked" /\ watcher'.inv = i),
         watcher'.at = "purchased" => purchases'[watcher'.inv] > 0,
         \A i \in Invoices : row'[i] = "paid" \/ i \in acked' =>
             row[i] = "paid" \/ i \in acked \/ Excused(i)' \/ i \in Granting'
  PROVE  GrantInv'
<1>1. ASSUME NEW i \in Invoices, row'[i] = "paid" \/ i \in acked'
      PROVE  Excused(i)' \/ i \in Granting'
  <2>1. CASE row[i] = "paid" \/ i \in acked
    <3>1. starting[i] # "new"
      BY <2>1, PaidIsStarted DEF PaidInv, RecordedIsPaid
    <3>2. CASE Excused(i)
      BY <3>1, <3>2, ExcusedStays
    <3>3. CASE i \in Granting
      BY <3>3, InGranting
    <3> QED BY <2>1, <3>2, <3>3 DEF GrantInv
  <2> QED BY <1>1, <2>1
<1>2. ASSUME NEW u \in Confirmers, NEW i \in Invoices, confirm[u].inv = i,
             confirm[u].at = "purchased"
      PROVE  purchases'[i] > 0 \/ IsBlocked(i)' \/ failures' > 0
  <2>1. starting[i] # "new"
    BY <1>2 DEF PaidInv, ConfirmedIsPaid
  <2>2. purchases[i] > 0 \/ IsBlocked(i) \/ failures > 0
    BY <1>2 DEF GrantInv, IsBlocked
  <2> QED BY <2>1, <2>2, SoldStays, BlockStays, FailuresStay
<1>3. ASSUME NEW u \in Confirmers, NEW i \in Invoices, confirm[u].inv = i,
             confirm[u].at = "allowed"
      PROVE  Excused(i)'
  <2>1. starting[i] # "new"
    BY <1>3 DEF PaidInv, ConfirmedIsPaid
  <2>2. Excused(i)
    BY <1>3 DEF GrantInv
  <2> QED BY <2>1, <2>2, ExcusedStays
<1>4. ASSUME NEW u \in Confirmers, confirm[u].at # "idle"
      PROVE  confirm[u].inv \in Invoices
  BY <1>4 DEF PaidInv, ConfirmedIsPaid
<1>5. ASSUME NEW u \in Confirmers, confirm'[u].at = "purchased"
      PROVE  (\/ purchases[confirm[u].inv] > 0 \/ IsBlocked(confirm[u].inv)
              \/ failures > 0)'
  BY <1>2, <1>4, <1>5 DEF IsBlocked
<1>6. ASSUME NEW u \in Confirmers, confirm'[u].at = "allowed"
      PROVE  Excused(confirm[u].inv)'
  BY <1>3, <1>4, <1>6 DEF Excused, IsBlocked, BuyerCanWatch
<1> QED BY <1>1, <1>5, <1>6 DEF GrantInv

LEMMA ConfirmReadGrants ==
  ASSUME PaidInv, PaidInv', Grows, GrantInv, NEW t \in Confirmers, NEW i \in Invoices,
         NEW tx \in Invoices, ConfirmRead(t, i, tx)
  PROVE  GrantInv'
<1>1. CASE UNCHANGED confirm
  <2>1. UNCHANGED <<row, watcher, purchases>>
    BY DEF ConfirmRead, watchVars, grantVars
  <2>2. \A j \in acked' : j \in acked \/ row[j] = "paid"
    BY DEF ConfirmRead, IsReplay
  <2>3. watcher'.at = "purchased" => purchases'[watcher'.inv] > 0
    BY <2>1 DEF GrantInv
  <2>4. TypeOK'
    BY DEF PaidInv
  <2> QED BY <1>1, <2>1, <2>2, <2>3, <2>4, OneWatchGrants
<1>2. CASE confirm' = [confirm EXCEPT ![t] = [at |-> "read", inv |-> i, tx |-> tx]]
  <2>1. [at |-> "read", inv |-> i, tx |-> tx] \in Slots
    BY DEF Slots, Tasks
  <2>2. /\ confirm'[t].at = "read" /\ confirm[t].at = "idle"
        /\ \A u \in Confirmers : u # t => confirm'[u] = confirm[u]
    BY <1>2, <2>1, SetSlot DEF PaidInv, ConfirmRead
  <2>3. UNCHANGED <<watcher, row>> /\ \A j \in acked' : j \in acked \/ row[j] = "paid"
    BY DEF ConfirmRead, IsReplay, watchVars
  <2> QED BY <2>2, <2>3, OneTaskGrants DEF PaidInv
<1> QED BY <1>1, <1>2 DEF ConfirmRead

LEMMA ConfirmMarkGrants ==
  ASSUME PaidInv, PaidInv', Grows, GrantInv, NEW t \in Confirmers, ConfirmMark(t)
  PROVE  GrantInv'
<1>1. \A u \in Confirmers : u # t => confirm'[u] = confirm[u]
  BY DEF ConfirmMark, PaidInv, TypeOK
<1>2. confirm[t].at = "read" /\ UNCHANGED <<watcher, acked>>
  BY DEF ConfirmMark, watchVars, historyVars
<1>3. \/ confirm'[t].at = "idle"
      \/ confirm'[t].at = "marked" /\ confirm'[t].inv = confirm[t].inv
  BY DEF ConfirmMark, PaidInv, TypeOK, IdleConfirm
<1>4. ASSUME NEW i \in Invoices, row'[i] = "paid"
      PROVE  row[i] = "paid" \/ (confirm'[t].at = "marked" /\ confirm'[t].inv = i)
  <2>1. CASE UNCHANGED row
    BY <1>4, <2>1
  <2>2. CASE /\ row' = [row EXCEPT ![confirm[t].inv] =
                   IF settled[confirm[t].tx] >= Required(order[confirm[t].inv].video)
                   THEN "paid" ELSE "underpaid"]
             /\ confirm' = [confirm EXCEPT ![t] =
                   IF settled[confirm[t].tx] >= Required(order[confirm[t].inv].video)
                   THEN [@ EXCEPT !.at = "marked"] ELSE IdleConfirm]
    <3>1. CASE i = confirm[t].inv
      <4>1. settled[confirm[t].tx] >= Required(order[confirm[t].inv].video)
        BY <1>4, <2>2, <3>1 DEF PaidInv, TypeOK
      <4>2. confirm' = [confirm EXCEPT ![t] = [@ EXCEPT !.at = "marked"]]
        BY <2>2, <4>1
      <4> QED BY <3>1, <4>2 DEF PaidInv, TypeOK
    <3>2. CASE i # confirm[t].inv
      BY <1>4, <2>2, <3>2 DEF PaidInv, TypeOK
    <3> QED BY <3>1, <3>2
  <2> QED BY <2>1, <2>2 DEF ConfirmMark
<1>5. \A i \in Invoices : row'[i] = "paid" \/ i \in acked' =>
          row[i] = "paid" \/ i \in acked \/ i \in Granting'
  BY <1>2, <1>4, InGranting
<1> QED BY <1>1, <1>2, <1>3, <1>5, OneTaskGrants DEF PaidInv

\* A stored sale opens the video.
LEMMA SaleExcuses ==
  ASSUME PaidInv', NEW i \in Invoices, order'[i] \in Orders, purchases'[i] > 0
  PROVE  Excused(i)'
<1>1. order'[i] # None
  BY NoneAssumption
<1> QED BY <1>1 DEF Excused, BuyerCanWatch

LEMMA ConfirmPurchaseGrants ==
  ASSUME PaidInv, PaidInv', Grows, GrantInv, NEW t \in Confirmers, ConfirmPurchase(t)
  PROVE  GrantInv'
<1>1. /\ confirm[t].at = "marked"
      /\ confirm'[t].at = "purchased" /\ confirm'[t].inv = confirm[t].inv
      /\ \A u \in Confirmers : u # t => confirm'[u] = confirm[u]
  BY MoveAt DEF ConfirmPurchase, PaidInv, Tasks
<1>2. UNCHANGED <<watcher, row, acked, order, blocked>>
  BY DEF ConfirmPurchase, startVars, watchVars, historyVars
<1>3. ASSUME NEW i \in Invoices, confirm[t].inv = i
      PROVE  purchases'[i] > 0 \/ IsBlocked(i)' \/ failures' > 0
  <2>1. CASE AddPurchase(i)
    <3>1. purchases[i] \in Nat /\ purchases'[i] = purchases[i] + 1
      BY <2>1 DEF AddPurchase, PaidInv, TypeOK
    <3> QED BY <3>1
  <2>2. CASE IsBlocked(i)
    BY <1>2, <2>2 DEF IsBlocked
  <2>3. CASE Failed
    BY <2>3, X402Assumption DEF Failed, PaidInv, TypeOK
  <2> QED BY <1>3, <2>1, <2>2, <2>3 DEF ConfirmPurchase
<1> QED BY <1>1, <1>2, <1>3, OneTaskGrants DEF PaidInv

LEMMA ConfirmAllowGrants ==
  ASSUME PaidInv, PaidInv', Grows, GrantInv, NEW t \in Confirmers, ConfirmAllow(t)
  PROVE  GrantInv'
<1>1. /\ confirm[t].at = "purchased"
      /\ confirm'[t].at = "allowed" /\ confirm'[t].inv = confirm[t].inv
      /\ \A u \in Confirmers : u # t => confirm'[u] = confirm[u]
  BY MoveAt DEF ConfirmAllow, PaidInv, Tasks
<1>2. UNCHANGED <<watcher, row, acked, order, blocked, purchases>>
  BY DEF ConfirmAllow, startVars, watchVars, historyVars
<1>3. ASSUME NEW i \in Invoices, confirm[t].inv = i PROVE Excused(i)'
  <2>1. order'[i] \in Orders /\ order'[i] # None
    BY <1>1, <1>2, <1>3, NoneAssumption DEF PaidInv, ConfirmedIsPaid, Started
  <2>2. CASE AddAllowlist(i)
    BY <1>2, <2>1, <2>2 DEF AddAllowlist, Excused, BuyerCanWatch
  <2>3. CASE Failed
    <3>1. purchases[i] > 0 \/ IsBlocked(i) \/ failures > 0
      BY <1>1, <1>3 DEF GrantInv, IsBlocked
    <3>2. failures \in Nat /\ failures' = failures + 1
      BY <2>3, X402Assumption DEF Failed, PaidInv, TypeOK
    <3>3. CASE purchases[i] > 0
      BY <1>2, <2>1, <3>3, SaleExcuses
    <3>4. CASE IsBlocked(i)
      BY <1>2, <3>2, <3>4 DEF IsBlocked, Excused
    <3>5. CASE failures > 0
      BY <3>2, <3>5 DEF Excused
    <3> QED BY <3>1, <3>3, <3>4, <3>5
  <2> QED BY <1>3, <2>2, <2>3 DEF ConfirmAllow
<1> QED BY <1>1, <1>2, <1>3, OneTaskGrants DEF PaidInv

LEMMA ConfirmCommissionGrants ==
  ASSUME PaidInv, PaidInv', Grows, GrantInv, NEW t \in Confirmers, ConfirmCommission(t)
  PROVE  GrantInv'
<1>1. /\ confirm[t].at = "allowed" /\ confirm'[t].at = "idle"
      /\ \A u \in Confirmers : u # t => confirm'[u] = confirm[u]
  BY SetSlot, IdleSlot DEF ConfirmCommission, PaidInv, IdleConfirm
<1>2. UNCHANGED <<watcher, row>> /\ acked' = acked \cup {confirm[t].inv}
  BY DEF ConfirmCommission, watchVars
<1>3. ASSUME NEW i \in Invoices, confirm[t].inv = i PROVE Excused(i)'
  <2>1. Excused(i)
    BY <1>1, <1>3 DEF GrantInv
  <2>2. starting[i] # "new"
    BY <1>1, <1>3 DEF PaidInv, ConfirmedIsPaid
  <2> QED BY <2>1, <2>2, ExcusedStays DEF PaidInv
<1> QED BY <1>1, <1>2, <1>3, OneTaskGrants DEF PaidInv

LEMMA DropConfirmGrants ==
  ASSUME PaidInv, PaidInv', Grows, GrantInv, NEW t \in Confirmers, DropConfirm(t)
  PROVE  GrantInv'
<1>1. /\ confirm'[t].at = "idle"
      /\ \A u \in Confirmers : u # t => confirm'[u] = confirm[u]
  BY SetSlot, IdleSlot DEF DropConfirm, PaidInv, IdleConfirm
<1>2. UNCHANGED <<watcher, row, acked>>
  BY DEF DropConfirm, watchVars
<1>3. ASSUME NEW i \in Invoices, confirm[t].inv = i,
             confirm[t].at \in {"marked", "purchased"}
      PROVE  Excused(i)'
  BY <1>3 DEF DropConfirm, Excused
<1> QED BY <1>1, <1>2, <1>3, OneTaskGrants DEF PaidInv

LEMMA WatchMarkGrants ==
  ASSUME PaidInv, PaidInv', Grows, GrantInv, WatchMark
  PROVE  GrantInv'
<1>1. watcher.at = "found" /\ watcher.inv \in Invoices /\ UNCHANGED <<confirm, acked>>
  BY DEF WatchMark, historyVars, PaidInv, WatchedIsPaid
<1>2. CASE UNCHANGED row /\ WatchEnds
  BY <1>1, <1>2, OneWatchGrants DEF PaidInv, WatchEnds, IdleWatcher
<1>3. CASE /\ row' = [row EXCEPT ![watcher.inv] = "paid"]
           /\ watcher' = [watcher EXCEPT !.at = "marked"]
  <2>1. watcher'.at = "marked" /\ watcher'.inv = watcher.inv
    BY <1>3 DEF PaidInv, TypeOK
  <2>2. \A i \in Invoices : i # watcher.inv => row'[i] = row[i]
    BY <1>3 DEF PaidInv, TypeOK
  <2>3. \A i \in Invoices : row'[i] = "paid" => row[i] = "paid" \/ i \in Granting'
    BY <2>1, <2>2, InGranting
  <2> QED BY <1>1, <2>1, <2>3, OneWatchGrants DEF PaidInv
<1> QED BY <1>2, <1>3 DEF WatchMark

LEMMA WatchPurchaseGrants ==
  ASSUME PaidInv, PaidInv', Grows, GrantInv, WatchPurchase
  PROVE  GrantInv'
<1>1. /\ watcher.at = "marked" /\ watcher.inv \in Invoices
      /\ UNCHANGED <<confirm, acked, row, order>>
  BY DEF WatchPurchase, startVars, PaidInv, WatchedIsPaid
<1>2. CASE WatchEnds /\ cut' = cut \cup {watcher.inv}
  BY <1>1, <1>2, OneWatchGrants DEF PaidInv, WatchEnds, IdleWatcher, Excused
<1>3. CASE AddPurchase(watcher.inv) /\ watcher' = [watcher EXCEPT !.at = "purchased"]
  <2>1. watcher'.at = "purchased" /\ watcher'.inv = watcher.inv
    BY <1>3 DEF PaidInv, TypeOK
  <2>2. purchases'[watcher.inv] > 0
    <3>1. purchases[watcher.inv] \in Nat
          /\ purchases'[watcher.inv] = purchases[watcher.inv] + 1
      BY <1>1, <1>3 DEF AddPurchase, PaidInv, TypeOK
    <3> QED BY <3>1
  <2>3. order'[watcher.inv] \in Orders
    BY <1>1, PaidIsStarted DEF PaidInv, WatchedIsPaid, Started
  <2>4. \A i \in Invoices : watcher.inv = i => Excused(i)'
    BY <2>2, <2>3, SaleExcuses
  <2> QED BY <1>1, <2>1, <2>2, <2>4, OneWatchGrants DEF PaidInv
<1> QED BY <1>2, <1>3 DEF WatchPurchase

LEMMA RestartGrants ==
  ASSUME PaidInv, PaidInv', Grows, GrantInv, Restart
  PROVE  GrantInv'
<1>1. \A t \in Confirmers : confirm'[t].at = "idle"
  BY DEF Restart, IdleConfirm
<1>2. watcher'.at = "idle"
  BY DEF Restart, IdleWatcher
<1>3. ASSUME NEW i \in Invoices, row'[i] = "paid" \/ i \in acked' PROVE Excused(i)'
  <2>1. row[i] = "paid" \/ i \in acked
    BY <1>3 DEF Restart
  <2>2. CASE Excused(i)
    BY <2>1, <2>2, PaidIsStarted, ExcusedStays DEF PaidInv, RecordedIsPaid
  <2>3. CASE i \in Granting
    BY <2>3 DEF Restart, Excused
  <2> QED BY <2>1, <2>2, <2>3 DEF GrantInv
<1> QED BY <1>1, <1>2, <1>3 DEF GrantInv

\* A step that moves neither a confirmation nor the watcher past a statement.
LEMMA QuietGrants ==
  ASSUME PaidInv, PaidInv', Grows, GrantInv, UNCHANGED <<confirm, acked>>,
         \A i \in Invoices : row'[i] = "paid" => row[i] = "paid",
         \/ UNCHANGED watcher
         \/ watcher.at # "marked" /\ watcher'.at # "purchased"
  PROVE  GrantInv'
<1>1. watcher.at = "purchased" => purchases'[watcher.inv] > 0
  BY SoldStays DEF GrantInv, PaidInv, WatchedIsPaid
<1> QED BY <1>1, OneWatchGrants DEF PaidInv

LEMMA GrantInvStep ==
  ASSUME PaidInv, PaidInv', GrantInv, [Next]_vars
  PROVE  GrantInv'
<1> USE StepGrows
<1>1. ASSUME NEW i \in Invoices, Start(i) PROVE GrantInv'
  <2>1. UNCHANGED <<confirm, acked, watcher>>
    BY <1>1 DEF Start, StartPay, CreateInvoice, StoreRef, SignPayload, watchVars,
       historyVars
  <2>2. UNCHANGED row \/ row' = [row EXCEPT ![i] = "pending"]
    BY <1>1 DEF Start, StartPay, CreateInvoice, StoreRef, SignPayload
  <2>3. \A j \in Invoices : row'[j] = "paid" => row[j] = "paid"
    BY <2>2 DEF PaidInv, TypeOK
  <2> QED BY <2>1, <2>3, QuietGrants
<1>2. ASSUME NEW i \in Invoices, NEW amount \in Amounts, PayContract(i, amount)
      PROVE  GrantInv'
  BY <1>2, QuietGrants DEF PayContract, historyVars
<1>3. ASSUME NEW t \in Confirmers, NEW i \in Invoices, NEW tx \in Invoices,
             ConfirmRead(t, i, tx)
      PROVE  GrantInv'
  BY <1>3, ConfirmReadGrants
<1>4. ASSUME NEW t \in Confirmers, ConfirmStep(t) \/ DropConfirm(t) PROVE GrantInv'
  BY <1>4, ConfirmMarkGrants, ConfirmPurchaseGrants, ConfirmAllowGrants,
     ConfirmCommissionGrants, DropConfirmGrants DEF ConfirmStep
<1>5. CASE WatchMark \/ WatchPurchase \/ Restart
  BY <1>5, WatchMarkGrants, WatchPurchaseGrants, RestartGrants
<1>6. CASE WatchNext
  <2>1. UNCHANGED <<confirm, acked, row>> /\ watcher.at = "idle"
    BY <1>6 DEF WatchNext, historyVars
  <2>2. UNCHANGED watcher \/ watcher'.at = "found"
    BY <1>6 DEF WatchNext
  <2> QED BY <2>1, <2>2, QuietGrants
<1>7. CASE WatchAllow
  BY <1>7, QuietGrants DEF WatchAllow, WatchEnds, IdleWatcher, historyVars
<1>8. CASE Disconnect \/ Reconnect
  BY <1>8, QuietGrants DEF Disconnect, Reconnect, historyVars
<1>9. ASSUME NEW i \in Invoices, DropStart(i) PROVE GrantInv'
  BY <1>9, QuietGrants DEF DropStart, watchVars, historyVars
<1>10. ASSUME NEW p \in MayBlock, Block(p[1], p[2]) PROVE GrantInv'
  BY <1>10, QuietGrants DEF Block, watchVars, historyVars
<1>11. CASE UNCHANGED vars
  BY <1>11, QuietGrants DEF vars
<1> QED BY <1>1, <1>2, <1>3, <1>4, <1>5, <1>6, <1>7, <1>8, <1>9, <1>10, <1>11
        DEF Next, WatchStep

\* A buyer who was told "paid" can watch, unless a granting handler was cut short or
\* the grants were refused and failed: for any number of confirmations that race the
\* watcher, and any number of failures.
THEOREM X402LockedOutOnlyByCut == Spec => []LockedOutOnlyByCut
<1>1. Init => GrantInv
  BY DEF Init, GrantInv, IdleConfirm, IdleWatcher
<1>2. PaidInv /\ PaidInv' /\ GrantInv /\ [Next]_vars => GrantInv'
  BY GrantInvStep
<1>3. PaidInv /\ GrantInv => LockedOutOnlyByCut
  BY DEF PaidInv, TypeOK, GrantInv, Excused, LockedOutOnlyByCut
<1> QED BY <1>1, <1>2, <1>3, X402Invariant, PTL DEF Spec

=============================================================================
