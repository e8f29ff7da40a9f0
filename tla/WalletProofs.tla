---------------------------- MODULE WalletProofs ----------------------------
(***************************************************************************)
(* Proofs about the atomic wallet, for every set of users and videos,      *)
(* every amount and every opening ledger.                                  *)
(***************************************************************************)
EXTENDS Wallet, PrefixSumsProofs, FiniteSetTheorems

\* The platform's integer rounding: the creator gets at least 0 and at most the
\* price.
LEMMA CutBounds ==
  ASSUME NEW p \in Nat
  PROVE  CreatorCut(p) \in Nat /\ CreatorCut(p) <= p
<1>1. CreatorSplitBp \in 0 .. 10000
  BY WalletAssumption
<1>2. p * CreatorSplitBp \in Nat /\ p * CreatorSplitBp <= p * 10000
  BY <1>1, SMT
<1>3. \A x \in Nat : x <= p * 10000 => x \div 10000 \in Nat /\ x \div 10000 <= p
  BY SMT
<1> QED BY <1>2, <1>3 DEF CreatorCut

\* The affiliate's share is a number of cents.
LEMMA CommissionInt ==
  ASSUME NEW p \in Amounts, NEW pct \in Percents
  PROVE  CommissionOf(p, pct) \in Int
<1>1. p \in Nat /\ pct \in Nat
  BY WalletAssumption
<1>2. p * pct \in Int
  BY <1>1
<1> QED BY <1>2 DEF CommissionOf

\* What a well-formed row says about a balance is an integer.
LEMMA EffectInt ==
  ASSUME NEW row \in Rows, NEW t, NEW B
  PROVE  Effect(row, t, B) \in Int /\ Internal(row) \in Int
<1>1. row.amount \in Int /\ row.type \in TxnTypes
  BY DEF Rows
<1> QED BY <1>1 DEF Effect, Internal, TxnTypes
-----------------------------------------------------------------------------
(* How the two sums over the ledger move, for any ledger L and any set B of   *)
(* ids given back.                                                           *)

\* Both sums range over functions from the ledger's ids to the integers.
LEMMA LedgerFunctions ==
  ASSUME NEW L \in Seq(Rows), NEW B, NEW u \in Users
  PROVE  /\ InternalMoves(L) \in [1 .. Len(L) -> Int]
         /\ EffectsOn(u, L, B) \in [1 .. Len(L) -> Int]
         /\ InternalTotal(L) \in Int
         /\ LedgerBalance(u, L, B) \in Int
<1>1. Len(L) \in Nat /\ \A t \in 1 .. Len(L) : L[t] \in Rows
  OBVIOUS
<1>2. InternalMoves(L) \in [1 .. Len(L) -> Int]
  BY <1>1, EffectInt DEF InternalMoves
<1>3. EffectsOn(u, L, B) \in [1 .. Len(L) -> Int]
  BY <1>1, EffectInt DEF EffectsOn
<1>4. InternalTotal(L) \in Int
  BY <1>1, <1>2, SumToInt DEF InternalTotal
<1>5. SumTo(EffectsOn(u, L, B), Len(L)) \in Int
  BY <1>1, <1>3, SumToInt
<1>6. OpeningBalance[u] \in Int
  BY WalletAssumption
<1> QED BY <1>2, <1>3, <1>4, <1>5, <1>6 DEF LedgerBalance

\* INSERT of one row.
LEMMA InsertOne ==
  ASSUME NEW L \in Seq(Rows), NEW B, NEW u \in Users, NEW row \in Rows
  PROVE  /\ LedgerBalance(u, Append(L, row), B) =
               LedgerBalance(u, L, B) + (IF row.user = u THEN Effect(row, Len(L) + 1, B) ELSE 0)
         /\ InternalTotal(Append(L, row)) = InternalTotal(L) + Internal(row)
<1> DEFINE n == Len(L)
           M == Append(L, row)
           e == IF row.user = u THEN Effect(row, Len(L) + 1, B) ELSE 0
<1>1. n \in Nat /\ Len(M) = n + 1 /\ M \in Seq(Rows)
  OBVIOUS
<1>2. (\A t \in 1 .. n : M[t] = L[t]) /\ M[n + 1] = row
  OBVIOUS
<1> HIDE DEF M, n
<1>3. SumTo(EffectsOn(u, M, B), n + 1) = SumTo(EffectsOn(u, L, B), n) + e
  <2> DEFINE f == EffectsOn(u, L, B)
             g == EffectsOn(u, M, B)
  <2>1. f \in [1 .. n -> Int] /\ g \in [1 .. (n + 1) -> Int]
    BY <1>1, LedgerFunctions DEF n
  <2>2. \A t \in 1 .. n : g[t] = f[t]
    BY <1>1, <1>2 DEF EffectsOn, n
  <2>3. g[n + 1] = e
    <3>1. n + 1 \in 1 .. Len(M)
      BY <1>1
    <3> QED BY <1>2, <3>1 DEF EffectsOn, n
  <2> HIDE DEF f, g
  <2>4. SumTo(g, n + 1) = SumTo(f, n) + g[n + 1]
    BY <1>1, <2>1, <2>2, SumExtend
  <2> QED BY <2>3, <2>4 DEF f, g
<1>4. SumTo(InternalMoves(M), n + 1) = SumTo(InternalMoves(L), n) + Internal(row)
  <2> DEFINE f == InternalMoves(L)
             g == InternalMoves(M)
  <2>1. f \in [1 .. n -> Int] /\ g \in [1 .. (n + 1) -> Int]
    BY <1>1, LedgerFunctions DEF n
  <2>2. (\A t \in 1 .. n : g[t] = f[t]) /\ g[n + 1] = Internal(row)
    BY <1>1, <1>2 DEF InternalMoves, n
  <2> HIDE DEF f, g
  <2>4. SumTo(g, n + 1) = SumTo(f, n) + g[n + 1]
    BY <1>1, <2>1, <2>2, SumExtend
  <2> QED BY <2>2, <2>4 DEF f, g
<1>5. e \in Int
  BY EffectInt
<1>6. SumTo(EffectsOn(u, L, B), n) \in Int
  BY <1>1, LedgerFunctions, SumToInt DEF n
<1>7. OpeningBalance[u] \in Int
  BY WalletAssumption
<1> HIDE DEF e
<1>8. LedgerBalance(u, M, B) = LedgerBalance(u, L, B) + e
  BY <1>1, <1>3, <1>5, <1>6, <1>7 DEF LedgerBalance, n
<1>9. InternalTotal(M) = InternalTotal(L) + Internal(row)
  BY <1>1, <1>4 DEF InternalTotal, n
<1> QED BY <1>8, <1>9 DEF M, e

\* INSERT of two rows: the two sides of a transfer, a sale or a commission.
LEMMA InsertTwo ==
  ASSUME NEW L \in Seq(Rows), NEW B, NEW u \in Users, NEW a \in Rows, NEW b \in Rows
  PROVE  /\ L \o <<a, b>> \in Seq(Rows)
         /\ Len(L \o <<a, b>>) = Len(L) + 2
         /\ \A t \in 1 .. Len(L) : (L \o <<a, b>>)[t] = L[t]
         /\ LedgerBalance(u, L \o <<a, b>>, B) =
               LedgerBalance(u, L, B)
                  + (IF a.user = u THEN Effect(a, Len(L) + 1, B) ELSE 0)
                  + (IF b.user = u THEN Effect(b, Len(L) + 2, B) ELSE 0)
         /\ InternalTotal(L \o <<a, b>>) = InternalTotal(L) + Internal(a) + Internal(b)
<1> DEFINE M == Append(L, a)
<1>1. M \in Seq(Rows) /\ Len(M) = Len(L) + 1 /\ Len(M) + 1 = Len(L) + 2
  OBVIOUS
<1>2. L \o <<a, b>> = Append(M, b)
  OBVIOUS
<1>3. L \o <<a, b>> \in Seq(Rows) /\ Len(L \o <<a, b>>) = Len(L) + 2
  OBVIOUS
<1>4. \A t \in 1 .. Len(L) : (L \o <<a, b>>)[t] = L[t]
  OBVIOUS
<1>5. /\ LedgerBalance(u, M, B) =
           LedgerBalance(u, L, B) + (IF a.user = u THEN Effect(a, Len(L) + 1, B) ELSE 0)
      /\ InternalTotal(M) = InternalTotal(L) + Internal(a)
  BY InsertOne
<1> HIDE DEF M
<1>6. /\ LedgerBalance(u, Append(M, b), B) =
           LedgerBalance(u, M, B) + (IF b.user = u THEN Effect(b, Len(L) + 2, B) ELSE 0)
      /\ InternalTotal(Append(M, b)) = InternalTotal(M) + Internal(b)
  BY <1>1, InsertOne
<1> QED BY <1>2, <1>3, <1>4, <1>5, <1>6

\* Ledger M, with the ids C given back, is ledger L, with the ids B given back,
\* after the status of row t became s; at most the refund of t differs.
StatusUpdate(L, B, M, C, t, s) ==
    /\ M = [L EXCEPT ![t].status = s]
    /\ \A i \in 1 .. Len(L) : i # t => (i \in B <=> i \in C)

\* UPDATE of one row's status.
LEMMA UpdateStatus ==
  ASSUME NEW L \in Seq(Rows), NEW t \in 1 .. Len(L), NEW s \in Statuses,
         NEW B, NEW M, NEW C, StatusUpdate(L, B, M, C, t, s), NEW u \in Users
  PROVE  /\ M \in Seq(Rows)
         /\ Len(M) = Len(L)
         /\ \A i \in 1 .. Len(L) : i # t => M[i] = L[i]
         /\ M[t] = [L[t] EXCEPT !.status = s]
         /\ LedgerBalance(u, M, C) = LedgerBalance(u, L, B) +
               (IF L[t].user = u THEN Effect(M[t], t, C) - Effect(L[t], t, B) ELSE 0)
         /\ InternalTotal(M) = InternalTotal(L)
<1> DEFINE n == Len(L)
           d == IF L[t].user = u THEN Effect(M[t], t, C) - Effect(L[t], t, B) ELSE 0
<1>0. /\ M = [L EXCEPT ![t].status = s]
      /\ \A i \in 1 .. n : i # t => (i \in B <=> i \in C)
  BY DEF StatusUpdate
<1>1. n \in Nat /\ L \in [1 .. n -> Rows]
  OBVIOUS
<1>2. M[t] = [L[t] EXCEPT !.status = s] /\ \A i \in 1 .. n : i # t => M[i] = L[i]
  BY <1>0
<1>3. M[t] \in Rows /\ M[t].user = L[t].user /\ M[t].type = L[t].type
      /\ M[t].amount = L[t].amount
  BY SMTT(30), <1>1, <1>2 DEF Rows
<1>4. M \in Seq(Rows) /\ Len(M) = n
  <2>1. M \in [1 .. n -> Rows]
    BY <1>0, <1>1, <1>2, <1>3
  <2> QED BY <1>1, <2>1
<1> HIDE DEF n
<1>5. SumTo(EffectsOn(u, M, C), n) = SumTo(EffectsOn(u, L, B), n) + d
  <2> DEFINE f == EffectsOn(u, L, B)
             g == EffectsOn(u, M, C)
  <2>1. f \in [1 .. n -> Int] /\ g \in [1 .. n -> Int]
    BY <1>4, LedgerFunctions DEF n
  <2>2. ASSUME NEW i \in 1 .. n, i # t PROVE g[i] = f[i]
    <3>1. M[i] = L[i] /\ (i \in B <=> i \in C)
      BY <1>0, <1>2, <2>2
    <3>2. Effect(L[i], i, C) = Effect(L[i], i, B)
      BY <3>1 DEF Effect
    <3> QED BY <1>4, <3>1, <3>2 DEF EffectsOn, n
  <2>3. g[t] - f[t] = d
    <3>1. f[t] = IF L[t].user = u THEN Effect(L[t], t, B) ELSE 0
      BY DEF EffectsOn
    <3>2. g[t] = IF L[t].user = u THEN Effect(M[t], t, C) ELSE 0
      BY <1>3, <1>4 DEF EffectsOn, n
    <3> QED BY <3>1, <3>2
  <2>4. t \in 1 .. n
    BY DEF n
  <2> HIDE DEF f, g, d
  <2>5. SumTo(g, n) = SumTo(f, n) + (g[t] - f[t])
    BY <1>1, <2>1, <2>2, <2>4, SumUpdate
  <2> QED BY <2>3, <2>5 DEF f, g
<1>6. InternalTotal(M) = InternalTotal(L)
  <2> DEFINE f == InternalMoves(L)
             g == InternalMoves(M)
  <2>1. f \in [1 .. n -> Int] /\ g \in [1 .. n -> Int]
    BY <1>4, LedgerFunctions DEF n
  <2>2. \A i \in 1 .. n : g[i] = f[i]
    <3>1. Internal(M[t]) = Internal(L[t])
      BY <1>3 DEF Internal
    <3>2. \A i \in 1 .. n : Internal(M[i]) = Internal(L[i])
      BY <1>2, <3>1
    <3> QED BY <1>4, <3>2 DEF InternalMoves, n
  <2> HIDE DEF f, g
  <2>3. SumTo(g, n) = SumTo(f, n)
    BY <1>1, <2>1, <2>2, SumSame
  <2> QED BY <1>4, <2>3 DEF InternalTotal, f, g, n
<1>7. d \in Int
  <2>1. Effect(M[t], t, C) \in Int /\ Effect(L[t], t, B) \in Int
    BY <1>1, <1>3, EffectInt DEF n
  <2> QED BY <2>1
<1>8. SumTo(EffectsOn(u, L, B), n) \in Int /\ OpeningBalance[u] \in Int
  <2>1. SumTo(EffectsOn(u, L, B), n) \in Int
    BY <1>1, LedgerFunctions, SumToInt DEF n
  <2>2. OpeningBalance[u] \in Int
    BY WalletAssumption
  <2> QED BY <2>1, <2>2
<1>9. LedgerBalance(u, M, C) = LedgerBalance(u, L, B) + d
  <2> HIDE DEF d
  <2> QED BY <1>4, <1>5, <1>7, <1>8 DEF LedgerBalance, n
<1> QED BY <1>2, <1>4, <1>6, <1>9 DEF n
-----------------------------------------------------------------------------
(* The inductive invariant. *)

\* A row that is still pending has not been given back.  Without this the refund
\* of a rejected withdrawal could happen twice: it is what makes the ledger
\* invariant inductive.
RefundsSettled == \A t \in refunded : txns[t].status # "pending"

\* What the money tables satisfy.
MoneyInv ==
    /\ balance \in [Users -> Int]
    /\ txns \in Seq(Rows)
    /\ refunded \subseteq 1 .. Len(txns)
    /\ RefundsSettled
    /\ NonNegative
    /\ LedgerExplainsBalance
    /\ TransfersCreateNoMoney

\* What the tables that grant or refuse access satisfy.
AccessInv ==
    /\ purchases \in [Users \X Videos -> Nat]
    /\ allowlist \subseteq Videos \X Users
    /\ commissions \in [Users \X Videos -> Nat]
    /\ blocked \subseteq Users \X Users

WalletInv == MoneyInv /\ AccessInv

\* The invariant holds in the opening state of the tables.
LEMMA InitInv == Init => WalletInv
<1> SUFFICES ASSUME Init PROVE WalletInv
  OBVIOUS
<1>0. txns = OpeningLedger
  BY DEF Init
<1>1. txns \in Seq(AdminRows) /\ txns = OpeningLedger
  BY <1>0, WalletAssumption
<1> USE DEF Init
<1>2. txns \in Seq(Rows)
  BY <1>1 DEF AdminRows
<1>3. refunded \subseteq 1 .. Len(txns) /\ RefundsSettled
  BY <1>1 DEF RefundsSettled
<1>4. \A u \in Users : LedgerBalance(u, txns, refunded) \in Int
  BY <1>2, LedgerFunctions
<1>5. balance \in [Users -> Int] /\ NonNegative /\ LedgerExplainsBalance
  BY <1>4 DEF NonNegative, LedgerExplainsBalance
<1>6. TransfersCreateNoMoney
  <2> DEFINE n == Len(txns)
             f == InternalMoves(txns)
  <2>1. n \in Nat /\ \A t \in 1 .. n : txns[t] \in AdminRows
    BY <1>1
  <2>2. \A t \in 1 .. n : f[t] = 0
    BY <2>1 DEF InternalMoves, Internal, AdminRows
  <2>3. f \in [1 .. n -> Int]
    BY <2>2 DEF InternalMoves
  <2> HIDE DEF f, n
  <2>4. SumTo(f, n) = 0
    BY <2>1, <2>2, <2>3, SumOfZeros
  <2> QED BY <2>4 DEF TransfersCreateNoMoney, InternalTotal, f, n
<1>7. AccessInv
  BY DEF AccessInv
<1> QED BY <1>2, <1>3, <1>5, <1>6, <1>7 DEF WalletInv, MoneyInv

\* A transfer, a sale or a commission keeps the money invariant.
LEMMA MoveKeepsMoney ==
  ASSUME MoneyInv,
         NEW from \in Users, NEW to \in Users, from # to,
         NEW debit \in Nat \ {0}, NEW credit \in Nat \ {0}, credit <= debit,
         balance[from] >= debit,
         NEW outType \in {"transfer_out", "payment"},
         Move(from, to, debit, credit, outType), refunded' = refunded
  PROVE  MoneyInv'
<1> DEFINE a == NewRow(from, outType, debit, "completed")
           b == NewRow(to, "transfer_in", credit, "completed")
<1>1. a \in Rows /\ b \in Rows
  BY DEF NewRow, Rows, TxnTypes, Statuses
<1>2. /\ a.user = from /\ Internal(a) = -debit
      /\ \A t : Effect(a, t, refunded) = -debit
  BY DEF NewRow, Internal, Effect
<1>3. /\ b.user = to /\ Internal(b) = credit
      /\ \A t : Effect(b, t, refunded) = credit
  BY DEF NewRow, Internal, Effect
<1>4. txns' = txns \o <<a, b>>
  BY DEF Move
<1>5. txns \in Seq(Rows) /\ balance \in [Users -> Int]
  BY DEF MoneyInv
<1> HIDE DEF a, b
<1>6. /\ txns' \in Seq(Rows) /\ Len(txns') = Len(txns) + 2
      /\ \A t \in 1 .. Len(txns) : txns'[t] = txns[t]
      /\ InternalTotal(txns') = InternalTotal(txns) + Internal(a) + Internal(b)
  <2>1. /\ txns \o <<a, b>> \in Seq(Rows)
        /\ Len(txns \o <<a, b>>) = Len(txns) + 2
        /\ \A t \in 1 .. Len(txns) : (txns \o <<a, b>>)[t] = txns[t]
        /\ LedgerBalance(from, txns \o <<a, b>>, refunded) =
              LedgerBalance(from, txns, refunded)
                + (IF a.user = from THEN Effect(a, Len(txns) + 1, refunded) ELSE 0)
                + (IF b.user = from THEN Effect(b, Len(txns) + 2, refunded) ELSE 0)
        /\ InternalTotal(txns \o <<a, b>>) =
              InternalTotal(txns) + Internal(a) + Internal(b)
    BY <1>1, <1>5, InsertTwo
  <2> QED BY <2>1, <1>4
<1>7. /\ balance' \in [Users -> Int]
      /\ balance'[from] = balance[from] - debit
      /\ balance'[to] = balance[to] + credit
      /\ \A u \in Users \ {from, to} : balance'[u] = balance[u]
  BY <1>5 DEF Move
<1>8. NonNegative'
  <2>1. \A u \in Users : balance[u] >= 0 /\ balance[u] \in Int
    BY <1>5 DEF MoneyInv, NonNegative
  <2>2. ASSUME NEW u \in Users PROVE balance'[u] >= 0
    <3>1. CASE u = from
      BY <3>1, <2>1, <1>7
    <3>2. CASE u = to
      BY <3>2, <2>1, <1>7
    <3>3. CASE u \notin {from, to}
      BY <3>3, <2>1, <1>7
    <3> QED BY <3>1, <3>2, <3>3
  <2> QED BY <2>2 DEF NonNegative
<1>9. LedgerExplainsBalance'
  <2> SUFFICES ASSUME NEW u \in Users
               PROVE  balance'[u] = LedgerBalance(u, txns', refunded')
    BY DEF LedgerExplainsBalance
  <2>1. LedgerBalance(u, txns', refunded) =
          LedgerBalance(u, txns, refunded)
            + (IF a.user = u THEN Effect(a, Len(txns) + 1, refunded) ELSE 0)
            + (IF b.user = u THEN Effect(b, Len(txns) + 2, refunded) ELSE 0)
    BY <1>1, <1>4, <1>5, InsertTwo
  <2>2. LedgerBalance(u, txns', refunded) =
          LedgerBalance(u, txns, refunded)
            + (IF from = u THEN -debit ELSE 0) + (IF to = u THEN credit ELSE 0)
    BY <2>1, <1>2, <1>3
  <2>3. balance[u] = LedgerBalance(u, txns, refunded) /\ balance[u] \in Int
    BY <1>5 DEF MoneyInv, LedgerExplainsBalance
  <2> QED BY <1>7, <2>2, <2>3
<1>10. TransfersCreateNoMoney'
  <2>1. InternalTotal(txns) \in Int /\ InternalTotal(txns) <= 0
    BY <1>5, LedgerFunctions DEF MoneyInv, TransfersCreateNoMoney
  <2> QED BY <1>2, <1>3, <1>6, <2>1 DEF TransfersCreateNoMoney
<1>11. (refunded \subseteq 1 .. Len(txns))' /\ RefundsSettled'
  BY <1>5, <1>6 DEF MoneyInv, RefundsSettled
<1> QED BY <1>6, <1>7, <1>8, <1>9, <1>10, <1>11 DEF MoneyInv

\* A change of one balance that the ledger accounts for.
LEMMA OneBalance ==
  ASSUME MoneyInv, NEW u \in Users, NEW d \in Int, balance[u] + d >= 0,
         balance' = [balance EXCEPT ![u] = @ + d],
         \A w \in Users : LedgerBalance(w, txns', refunded') =
            LedgerBalance(w, txns, refunded) + (IF w = u THEN d ELSE 0)
  PROVE  balance' \in [Users -> Int] /\ NonNegative' /\ LedgerExplainsBalance'
<1>1. balance \in [Users -> Int] /\ \A w \in Users : balance[w] >= 0
  BY DEF MoneyInv, NonNegative
<1>2. balance' \in [Users -> Int]
  BY <1>1
<1>3. ASSUME NEW w \in Users
      PROVE  balance'[w] >= 0 /\ balance'[w] = LedgerBalance(w, txns', refunded')
  <2>1. balance[w] = LedgerBalance(w, txns, refunded)
    BY DEF MoneyInv, LedgerExplainsBalance
  <2>2. CASE w = u
    BY <1>1, <2>1, <2>2
  <2>3. CASE w # u
    <3>1. balance'[w] = balance[w]
      BY <1>1, <2>3
    <3> QED BY <1>1, <2>1, <2>3, <3>1
  <2> QED BY <2>2, <2>3
<1> QED BY <1>2, <1>3 DEF NonNegative, LedgerExplainsBalance

\* A deposit or a withdrawal request keeps the money invariant.
LEMMA InsertKeepsMoney ==
  ASSUME MoneyInv, NEW u \in Users, NEW d \in Int, balance[u] + d >= 0,
         balance' = [balance EXCEPT ![u] = @ + d],
         NEW row \in Rows, row.user = u, Internal(row) = 0,
         Effect(row, Len(txns) + 1, refunded) = d,
         txns' = Append(txns, row), refunded' = refunded
  PROVE  MoneyInv'
<1>1. txns \in Seq(Rows)
  BY DEF MoneyInv
<1>2. \A w \in Users : LedgerBalance(w, txns', refunded') =
         LedgerBalance(w, txns, refunded) + (IF w = u THEN d ELSE 0)
  BY <1>1, InsertOne
<1>3. balance' \in [Users -> Int] /\ NonNegative' /\ LedgerExplainsBalance'
  BY <1>2, OneBalance
<1>4. /\ txns' \in Seq(Rows) /\ Len(txns') = Len(txns) + 1
      /\ \A t \in 1 .. Len(txns) : txns'[t] = txns[t]
  BY <1>1
<1>5. TransfersCreateNoMoney'
  <2>1. /\ LedgerBalance(u, Append(txns, row), refunded) =
             LedgerBalance(u, txns, refunded)
               + (IF row.user = u THEN Effect(row, Len(txns) + 1, refunded) ELSE 0)
        /\ InternalTotal(Append(txns, row)) = InternalTotal(txns) + Internal(row)
    BY <1>1, InsertOne
  <2>2. InternalTotal(txns) \in Int /\ InternalTotal(txns) <= 0
    BY <1>1, LedgerFunctions DEF MoneyInv, TransfersCreateNoMoney
  <2> QED BY <2>1, <2>2 DEF TransfersCreateNoMoney
<1>6. (refunded \subseteq 1 .. Len(txns))' /\ RefundsSettled'
  BY <1>1, <1>4 DEF MoneyInv, RefundsSettled
<1> QED BY <1>3, <1>4, <1>5, <1>6 DEF MoneyInv

\* An administrator's decision keeps the money invariant.
LEMMA DecisionKeepsMoney ==
  ASSUME MoneyInv, NEW t \in 1 .. Len(txns), NEW s \in Statuses, s # "pending",
         refunded' = refunded \/ refunded' = refunded \cup {t},
         txns' = [txns EXCEPT ![t].status = s],
         NEW d \in Int, balance[txns[t].user] + d >= 0,
         Effect([txns[t] EXCEPT !.status = s], t, refunded')
            - Effect(txns[t], t, refunded) = d,
         balance' = [balance EXCEPT ![txns[t].user] = @ + d]
  PROVE  MoneyInv'
<1> DEFINE u == txns[t].user
<1>1. txns \in Seq(Rows) /\ txns[t] \in Rows
  BY DEF MoneyInv
<1>2. u \in Users
  BY <1>1 DEF Rows
<1>3. ASSUME NEW w \in Users
      PROVE  /\ txns' \in Seq(Rows)
             /\ Len(txns') = Len(txns)
             /\ \A i \in 1 .. Len(txns) : i # t => txns'[i] = txns[i]
             /\ txns'[t] = [txns[t] EXCEPT !.status = s]
             /\ LedgerBalance(w, txns', refunded') = LedgerBalance(w, txns, refunded)
                  + (IF txns[t].user = w
                     THEN Effect(txns'[t], t, refunded') - Effect(txns[t], t, refunded)
                     ELSE 0)
             /\ InternalTotal(txns') = InternalTotal(txns)
  <2>1. StatusUpdate(txns, refunded, txns', refunded', t, s)
    BY DEF StatusUpdate
  <2> QED BY <1>1, <2>1, UpdateStatus
<1>4. \A w \in Users : LedgerBalance(w, txns', refunded') =
         LedgerBalance(w, txns, refunded) + (IF w = u THEN d ELSE 0)
  BY <1>3
<1>5. balance' \in [Users -> Int] /\ NonNegative' /\ LedgerExplainsBalance'
  BY <1>2, <1>4, OneBalance
<1>6. TransfersCreateNoMoney'
  BY <1>2, <1>3 DEF MoneyInv, TransfersCreateNoMoney
<1>7. (refunded \subseteq 1 .. Len(txns))' /\ RefundsSettled'
  <2>1. refunded \subseteq 1 .. Len(txns) /\ \A i \in refunded : txns[i].status # "pending"
    BY DEF MoneyInv, RefundsSettled
  <2>2. txns'[t].status = s
    BY <1>1, <1>2, <1>3 DEF Rows
  <2>3. \A i \in 1 .. Len(txns) : i # t => txns'[i] = txns[i]
    BY <1>2, <1>3
  <2> QED BY <2>1, <2>2, <2>3, <1>2, <1>3 DEF RefundsSettled
<1> QED BY <1>2, <1>3, <1>5, <1>6, <1>7 DEF MoneyInv
-----------------------------------------------------------------------------
(* Every operation keeps the invariant. *)

\* A deposit request (wallet_deposit) keeps the invariant: its row is pending.
LEMMA DepositInv ==
  ASSUME WalletInv, NEW u \in Users, NEW amount \in Amounts, Deposit(u, amount)
  PROVE  WalletInv'
<1> DEFINE row == NewRow(u, "deposit", amount, "pending")
<1>1. MoneyInv
  BY DEF WalletInv
<1>2. row \in Rows /\ row.user = u /\ Internal(row) = 0
      /\ Effect(row, Len(txns) + 1, refunded) = 0
  BY WalletAssumption DEF NewRow, Rows, TxnTypes, Statuses, Internal, Effect
<1>3. 0 \in Int /\ balance' = [balance EXCEPT ![u] = @ + 0] /\ balance[u] + 0 >= 0
  BY <1>1 DEF Deposit, MoneyInv, NonNegative
<1>4. txns' = Append(txns, row) /\ refunded' = refunded
  BY DEF Deposit
<1>5. MoneyInv'
  <2> HIDE DEF row
  <2> QED BY <1>1, <1>2, <1>3, <1>4, InsertKeepsMoney
<1> QED BY <1>5 DEF WalletInv, AccessInv, Deposit

\* A withdrawal request (wallet_withdraw) keeps the invariant: what it holds is
\* what its row says.
LEMMA WithdrawInv ==
  ASSUME WalletInv, NEW u \in Users, NEW amount \in Amounts, Withdraw(u, amount)
  PROVE  WalletInv'
<1> DEFINE row == NewRow(u, "withdrawal", amount, "pending")
           d == -amount
<1>1. MoneyInv /\ amount \in Nat \ {0}
  BY WalletAssumption DEF WalletInv
<1>2. Len(txns) + 1 \notin refunded
  BY <1>1 DEF MoneyInv
<1>3. row \in Rows /\ row.user = u /\ Internal(row) = 0
      /\ Effect(row, Len(txns) + 1, refunded) = d
  BY <1>1, <1>2 DEF NewRow, Rows, TxnTypes, Statuses, Internal, Effect
<1>4. d \in Int /\ balance' = [balance EXCEPT ![u] = @ + d] /\ balance[u] + d >= 0
  <2>1. balance[u] \in Int
    BY <1>1 DEF MoneyInv
  <2>2. d \in Int /\ balance[u] - amount = balance[u] + d
    BY <1>1, <2>1
  <2>3. balance[u] >= amount /\ balance' = [balance EXCEPT ![u] = balance[u] - amount]
    BY DEF Withdraw
  <2>4. balance[u] + d >= 0
    BY <1>1, <2>1, <2>3
  <2> HIDE DEF d
  <2> QED BY <2>2, <2>3, <2>4
<1>5. txns' = Append(txns, row) /\ refunded' = refunded
  BY DEF Withdraw
<1>6. MoneyInv'
  <2> HIDE DEF row, d
  <2> QED BY <1>1, <1>3, <1>4, <1>5, InsertKeepsMoney
<1> QED BY <1>6 DEF WalletInv, AccessInv, Withdraw

\* A transfer (wallet_transfer) keeps the invariant.
LEMMA TransferInv ==
  ASSUME WalletInv, NEW from \in Users, NEW to \in Users, NEW amount \in Amounts,
         Transfer(from, to, amount)
  PROVE  WalletInv'
<1>1. MoneyInv /\ amount \in Nat \ {0} /\ amount <= amount
  BY WalletAssumption DEF WalletInv
<1>2. /\ from # to /\ balance[from] >= amount /\ refunded' = refunded
      /\ Move(from, to, amount, amount, "transfer_out")
  BY DEF Transfer
<1>3. MoneyInv'
  BY <1>1, <1>2, MoveKeepsMoney
<1> QED BY <1>3 DEF WalletInv, AccessInv, Transfer

\* A sale (wallet_pay_video) keeps the invariant: the creator's cut is at most
\* the price.
LEMMA PayInv ==
  ASSUME WalletInv, NEW buyer \in Users, NEW v \in Videos, NEW price \in Amounts,
         Pay(buyer, v, price)
  PROVE  WalletInv'
<1> DEFINE cut == CreatorCut(price)
<1>1. MoneyInv /\ price \in Nat \ {0} /\ Owner[v] \in Users
  BY WalletAssumption DEF WalletInv
<1>2. cut \in Nat /\ cut <= price
  BY <1>1, CutBounds
<1>3. /\ cut > 0 /\ Owner[v] # buyer /\ balance[buyer] >= price
      /\ refunded' = refunded
      /\ Move(buyer, Owner[v], price, cut, "payment")
  BY DEF Pay
<1>4. MoneyInv'
  <2> HIDE DEF cut
  <2>1. cut \in Nat \ {0}
    BY <1>2, <1>3
  <2> QED BY <1>1, <1>2, <1>3, <2>1, MoveKeepsMoney
<1>5. AccessInv'
  BY DEF WalletInv, AccessInv, Pay
<1> QED BY <1>4, <1>5 DEF WalletInv

\* A commission (process_affiliate_commission) keeps the invariant.
LEMMA CommissionInv ==
  ASSUME WalletInv, NEW v \in Videos, NEW buyer \in Users, NEW affiliate \in Users,
         NEW amount \in Int, Commission(v, buyer, affiliate, amount)
  PROVE  WalletInv'
<1>1. MoneyInv /\ Owner[v] \in Users
  BY WalletAssumption DEF WalletInv
<1>2. /\ amount \in Nat \ {0} /\ amount <= amount /\ Owner[v] # affiliate
      /\ balance[Owner[v]] >= amount /\ refunded' = refunded
      /\ Move(Owner[v], affiliate, amount, amount, "transfer_out")
  BY DEF Commission
<1>3. MoneyInv'
  BY <1>1, <1>2, MoveKeepsMoney
<1>4. AccessInv'
  BY DEF WalletInv, AccessInv, Commission
<1> QED BY <1>3, <1>4 DEF WalletInv

\* An approved deposit (admin_wallet_approve) keeps the invariant.
LEMMA ApproveInv ==
  ASSUME WalletInv, NEW t \in 1 .. Len(txns), Approve(t)
  PROVE  WalletInv'
<1> DEFINE d == txns[t].amount
<1>1. MoneyInv /\ txns[t] \in Rows
  BY DEF WalletInv, MoneyInv
<1>2. d \in Nat /\ txns[t].user \in Users
  BY <1>1 DEF Rows
<1>3. Effect([txns[t] EXCEPT !.status = "approved"], t, refunded')
         - Effect(txns[t], t, refunded) = d
  BY <1>1 DEF Rows, Effect, Approve
<1>4. balance[txns[t].user] + d >= 0
  BY <1>1, <1>2 DEF MoneyInv, NonNegative
<1>5. /\ txns' = [txns EXCEPT ![t].status = "approved"] /\ refunded' = refunded
      /\ balance' = [balance EXCEPT ![txns[t].user] = @ + d]
  BY DEF Approve
<1>6. "approved" \in Statuses /\ "approved" # "pending" /\ d \in Int
  BY <1>2 DEF Statuses
<1>7. MoneyInv'
  <2> HIDE DEF d
  <2> QED BY <1>1, <1>3, <1>4, <1>5, <1>6, DecisionKeepsMoney
<1> QED BY <1>7 DEF WalletInv, AccessInv, Approve

\* A completed withdrawal (admin_wallet_complete) keeps the invariant, also when
\* it overwrites a rejection.
LEMMA CompleteInv ==
  ASSUME WalletInv, NEW t \in 1 .. Len(txns), Complete(t)
  PROVE  WalletInv'
<1>1. MoneyInv /\ txns[t] \in Rows
  BY DEF WalletInv, MoneyInv
<1>2. txns[t].user \in Users
  BY <1>1 DEF Rows
<1>3. Effect([txns[t] EXCEPT !.status = "completed"], t, refunded')
         - Effect(txns[t], t, refunded) = 0
  BY <1>1 DEF Rows, Effect, Complete
<1>4. balance[txns[t].user] + 0 >= 0
  BY <1>1, <1>2 DEF MoneyInv, NonNegative
<1>5. /\ txns' = [txns EXCEPT ![t].status = "completed"] /\ refunded' = refunded
      /\ balance' = [balance EXCEPT ![txns[t].user] = @ + 0]
  BY <1>1, <1>2 DEF Complete, MoneyInv
<1>6. "completed" \in Statuses /\ "completed" # "pending" /\ 0 \in Int
  BY DEF Statuses
<1>7. MoneyInv'
  BY <1>1, <1>3, <1>4, <1>5, <1>6, DecisionKeepsMoney
<1> QED BY <1>7 DEF WalletInv, AccessInv, Complete

\* A rejection (admin_wallet_reject) keeps the invariant: the refund is what the
\* row had held.
LEMMA RejectInv ==
  ASSUME WalletInv, NEW t \in 1 .. Len(txns), Reject(t)
  PROVE  WalletInv'
<1> DEFINE d == IF txns[t].type = "withdrawal" THEN txns[t].amount ELSE 0
<1>1. MoneyInv /\ txns[t] \in Rows
  BY DEF WalletInv, MoneyInv
<1>2. d \in Nat /\ txns[t].user \in Users
  BY <1>1 DEF Rows
<1>3. t \notin refunded
  BY <1>1 DEF MoneyInv, RefundsSettled, Reject
<1>4. Effect([txns[t] EXCEPT !.status = "rejected"], t, refunded')
         - Effect(txns[t], t, refunded) = d
  BY <1>1, <1>3 DEF Rows, TxnTypes, Effect, Reject
<1>5. balance[txns[t].user] + d >= 0
  BY <1>1, <1>2 DEF MoneyInv, NonNegative
<1>6. /\ txns' = [txns EXCEPT ![t].status = "rejected"]
      /\ refunded' = refunded \/ refunded' = refunded \cup {t}
      /\ balance' = [balance EXCEPT ![txns[t].user] = @ + d]
  BY <1>1, <1>2 DEF Reject, MoneyInv
<1>7. "rejected" \in Statuses /\ "rejected" # "pending" /\ d \in Int
  BY <1>2 DEF Statuses
<1>8. MoneyInv'
  <2> HIDE DEF d
  <2> QED BY <1>1, <1>4, <1>5, <1>6, <1>7, DecisionKeepsMoney
<1> QED BY <1>8 DEF WalletInv, AccessInv, Reject

\* Blocking and unblocking a buyer touches no money (block_user, unblock_user).
LEMMA BlockInv ==
  ASSUME WalletInv, NEW p \in MayBlock, BlockUser(p[1], p[2]) \/ UnblockUser(p[1], p[2])
  PROVE  WalletInv'
<1>1. MoneyInv'
  BY DEF WalletInv, MoneyInv, BlockUser, UnblockUser, NonNegative, RefundsSettled,
         LedgerExplainsBalance, TransfersCreateNoMoney
<1>2. <<p[1], p[2]>> \in Users \X Users
  BY WalletAssumption
<1>3. AccessInv'
  BY <1>2 DEF WalletInv, AccessInv, BlockUser, UnblockUser
<1> QED BY <1>1, <1>3 DEF WalletInv

\* Every step of the atomic wallet keeps the invariant.
LEMMA NextInv == WalletInv /\ [Next]_walletVars => WalletInv'
<1> SUFFICES ASSUME WalletInv, [Next]_walletVars PROVE WalletInv'
  OBVIOUS
<1>0. DOMAIN txns = 1 .. Len(txns)
  BY DEF WalletInv, MoneyInv
<1>1. ASSUME NEW u \in Users, NEW amount \in Amounts,
             Deposit(u, amount) \/ Withdraw(u, amount)
      PROVE  WalletInv'
  BY <1>1, DepositInv, WithdrawInv
<1>2. ASSUME NEW from \in Users, NEW to \in Users, NEW amount \in Amounts,
             Transfer(from, to, amount)
      PROVE  WalletInv'
  BY <1>2, TransferInv
<1>3. ASSUME NEW buyer \in Users, NEW v \in Videos, NEW price \in Amounts,
             Pay(buyer, v, price)
      PROVE  WalletInv'
  BY <1>3, PayInv
<1>4. ASSUME NEW v \in Videos, NEW buyer \in Users, NEW affiliate \in Users,
             NEW price \in Amounts, NEW pct \in Percents,
             Commission(v, buyer, affiliate, CommissionOf(price, pct))
      PROVE  WalletInv'
  <2>1. CommissionOf(price, pct) \in Int
    BY CommissionInt
  <2> QED BY <1>4, <2>1, CommissionInv
<1>5. ASSUME NEW t \in DOMAIN txns, Approve(t) \/ Complete(t) \/ Reject(t)
      PROVE  WalletInv'
  BY <1>0, <1>5, ApproveInv, CompleteInv, RejectInv
<1>6. ASSUME NEW p \in MayBlock, BlockUser(p[1], p[2]) \/ UnblockUser(p[1], p[2])
      PROVE  WalletInv'
  BY <1>6, BlockInv
<1>7. CASE UNCHANGED walletVars
  BY <1>7 DEF WalletInv, MoneyInv, AccessInv, walletVars, NonNegative, RefundsSettled,
              LedgerExplainsBalance, TransfersCreateNoMoney
<1> QED BY <1>1, <1>2, <1>3, <1>4, <1>5, <1>6, <1>7 DEF Next

\* The inductive invariant is an invariant of the atomic wallet.
THEOREM WalletInvariant == Spec => []WalletInv
BY InitInv, NextInv, PTL DEF Spec

\* The parts a reader asks for.
LEMMA WalletInvImplies ==
  WalletInv => TypeOK /\ NonNegative /\ LedgerExplainsBalance /\ TransfersCreateNoMoney
<1> SUFFICES ASSUME WalletInv
             PROVE  TypeOK /\ NonNegative /\ LedgerExplainsBalance /\ TransfersCreateNoMoney
  OBVIOUS
<1>1. DOMAIN txns = 1 .. Len(txns)
  BY DEF WalletInv, MoneyInv
<1> QED BY <1>1 DEF WalletInv, MoneyInv, AccessInv, TypeOK

\* Every table keeps its type.
THEOREM WalletType == Spec => []TypeOK
BY WalletInvariant, WalletInvImplies, PTL

\* No balance is ever negative.
THEOREM WalletNonNegative == Spec => []NonNegative
BY WalletInvariant, WalletInvImplies, PTL

\* The ledger explains every balance.
THEOREM WalletLedger == Spec => []LedgerExplainsBalance
BY WalletInvariant, WalletInvImplies, PTL

\* Transfers, sales and commissions create no money.
THEOREM WalletNoMoney == Spec => []TransfersCreateNoMoney
BY WalletInvariant, WalletInvImplies, PTL
-----------------------------------------------------------------------------
(* Every charge has its purchase. *)

\* Each buyer's two sets of rows are finite and of the same size.
Matched ==
    \A b \in Users :
        /\ IsFiniteSet(PaymentRows(b)) /\ IsFiniteSet(PurchaseRows(b))
        /\ Cardinality(PaymentRows(b)) = Cardinality(PurchaseRows(b))

\* What a row of purchases is, whatever its counts p.
RowsIn(p, c) == UNION {{w} \X (1 .. p[<<c, w>>]) : w \in Videos}
IsRow(p, c, x) == \E w \in Videos : \E k \in 1 .. p[<<c, w>>] : x = <<w, k>>

LEMMA PurchaseRowIs ==
  \A p, c, x : x \in RowsIn(p, c) <=> IsRow(p, c, x)
<1> TAKE p, c, x
<1>1. \A w : \A S : x \in {w} \X S <=> \E k \in S : x = <<w, k>>
  <2> TAKE w, S
  <2>1. ASSUME x \in {w} \X S PROVE \E k \in S : x = <<w, k>>
    <3>1. x = <<x[1], x[2]>> /\ x[1] = w /\ x[2] \in S
      BY <2>1
    <3> QED BY <3>1
  <2>2. ASSUME NEW k \in S, x = <<w, k>> PROVE x \in {w} \X S
    BY <2>2
  <2> QED BY <2>1, <2>2
<1>2. x \in RowsIn(p, c) <=> \E w \in Videos : x \in {w} \X (1 .. p[<<c, w>>])
  BY Zenon DEF RowsIn
<1>3. ASSUME x \in RowsIn(p, c)
      PROVE  IsRow(p, c, x)
  <2>1. PICK w \in Videos : x \in {w} \X (1 .. p[<<c, w>>])
    BY <1>2, <1>3
  <2>2. PICK k \in 1 .. p[<<c, w>>] : x = <<w, k>>
    BY <1>1, <2>1
  <2> QED BY <2>1, <2>2 DEF IsRow
<1>4. ASSUME NEW w \in Videos, NEW k \in 1 .. p[<<c, w>>], x = <<w, k>>
      PROVE  x \in RowsIn(p, c)
  <2>1. x \in {w} \X (1 .. p[<<c, w>>])
    BY <1>1, <1>4
  <2> QED BY <1>2, <2>1
<1> QED BY <1>3, <1>4 DEF IsRow

LEMMA PurchaseRowsAre ==
  ASSUME NEW c
  PROVE  \A x : /\ x \in PurchaseRows(c) <=> IsRow(purchases, c, x)
                /\ x \in PurchaseRows(c)' <=> IsRow(purchases', c, x)
<1>1. PurchaseRows(c) = RowsIn(purchases, c) /\ PurchaseRows(c)' = RowsIn(purchases', c)
  BY DEF PurchaseRows, RowsIn
<1> QED BY <1>1, PurchaseRowIs

\* One more row in purchases.
LEMMA PurchaseRowAdded ==
  ASSUME NEW b \in Users, NEW v \in Videos, NEW c \in Users,
         purchases \in [Users \X Videos -> Nat],
         purchases' = [purchases EXCEPT ![<<b, v>>] = @ + 1]
  PROVE  /\ c = b => /\ PurchaseRows(c)' = PurchaseRows(c) \cup {<<v, purchases[<<b, v>>] + 1>>}
                     /\ <<v, purchases[<<b, v>>] + 1>> \notin PurchaseRows(c)
         /\ c # b => PurchaseRows(c)' = PurchaseRows(c)
<1> DEFINE n == purchases[<<b, v>>]
           Below(w) == 1 .. purchases[<<c, w>>]
           BelowNow(w) == 1 .. purchases'[<<c, w>>]
<1>1. n \in Nat /\ n + 1 \notin 1 .. n /\ 1 .. n + 1 = (1 .. n) \cup {n + 1}
  OBVIOUS
<1>2. \A w \in Videos : purchases'[<<c, w>>] =
                          IF c = b /\ w = v THEN n + 1 ELSE purchases[<<c, w>>]
  OBVIOUS
<1>3. \A x : x \in PurchaseRows(c) <=> \E w \in Videos : \E k \in Below(w) : x = <<w, k>>
  <2> TAKE x
  <2>1. x \in PurchaseRows(c) <=> IsRow(purchases, c, x)
    BY PurchaseRowsAre
  <2> QED BY <2>1, Zenon DEF IsRow
<1>4. \A x : x \in PurchaseRows(c)' <=> \E w \in Videos : \E k \in BelowNow(w) : x = <<w, k>>
  <2> TAKE x
  <2>1. x \in PurchaseRows(c)' <=> IsRow(purchases', c, x)
    BY PurchaseRowsAre
  <2> QED BY <2>1, Zenon DEF IsRow
<1>5. \A w \in Videos : BelowNow(w) = IF c = b /\ w = v THEN Below(w) \cup {n + 1} ELSE Below(w)
  BY <1>1, <1>2
<1>6. c = b => Below(v) = 1 .. n
  OBVIOUS
<1> HIDE DEF n, Below, BelowNow
<1>7. CASE c # b
  <2>1. \A w \in Videos : BelowNow(w) = Below(w)
    BY <1>5, <1>7
  <2>2. \A x : x \in PurchaseRows(c)' <=> x \in PurchaseRows(c)
    BY <1>3, <1>4, <2>1
  <2>3. PurchaseRows(c)' = PurchaseRows(c)
    BY <2>2
  <2> QED BY <1>7, <2>3
<1>8. CASE c = b
  <2>1. \A w \in Videos : \A k : k \in BelowNow(w) <=> k \in Below(w) \/ (w = v /\ k = n + 1)
    BY <1>5, <1>8
  <2>2. \A x : x \in PurchaseRows(c)' <=> x \in PurchaseRows(c) \/ x = <<v, n + 1>>
    BY <1>3, <1>4, <2>1, Zenon
  <2>3. <<v, n + 1>> \notin PurchaseRows(c)
    <3> SUFFICES ASSUME NEW w \in Videos, NEW k \in Below(w), <<v, n + 1>> = <<w, k>>
                 PROVE  FALSE
      BY <1>3
    <3>1. w = v /\ k = n + 1
      OBVIOUS
    <3> QED BY <1>1, <1>6, <1>8, <3>1
  <2>4. PurchaseRows(c)' = PurchaseRows(c) \cup {<<v, n + 1>>}
    BY <2>2
  <2> QED BY <1>8, <2>3, <2>4 DEF n
<1> QED BY <1>7, <1>8

\* Two rows in the ledger, of which the first may be a payment.
LEMMA PaymentRowAdded ==
  ASSUME txns \in Seq(Rows), NEW from \in Users, NEW to \in Users, NEW c \in Users,
         NEW debit \in Nat \ {0}, NEW credit \in Nat \ {0},
         NEW outType \in {"transfer_out", "payment"},
         Move(from, to, debit, credit, outType)
  PROVE  /\ Len(txns) + 1 \notin PaymentRows(c)
         /\ PaymentRows(c)' = IF c = from /\ outType = "payment"
                                 THEN PaymentRows(c) \cup {Len(txns) + 1}
                                 ELSE PaymentRows(c)
<1> DEFINE n == Len(txns)
           a == NewRow(from, outType, debit, "completed")
           z == NewRow(to, "transfer_in", credit, "completed")
<1>1. a \in Rows /\ z \in Rows
  BY DEF NewRow, Rows, TxnTypes, Statuses
<1>2. txns' = txns \o <<a, z>>
  BY DEF Move
<1>3. a.user = from /\ a.type = outType /\ z.type = "transfer_in"
  BY DEF NewRow
<1> HIDE DEF a, z
<1>4. /\ n \in Nat /\ DOMAIN txns = 1 .. n /\ DOMAIN txns' = 1 .. n + 2
      /\ \A t \in 1 .. n : txns'[t] = txns[t]
      /\ txns'[n + 1] = a /\ txns'[n + 2] = z
  BY <1>1, <1>2
<1>5. 1 .. n + 2 = (1 .. n) \cup {n + 1, n + 2} /\ n + 1 \notin 1 .. n
  BY <1>4
<1> HIDE DEF n
<1>6. \A t : t \in PaymentRows(c)' <=>
               \/ t \in PaymentRows(c)
               \/ t = n + 1 /\ c = from /\ outType = "payment"
  BY <1>3, <1>4, <1>5 DEF PaymentRows
<1> QED BY <1>4, <1>5, <1>6 DEF PaymentRows, n

\* Purchases and the payment rows are left alone.
LEMMA QuietMatched ==
  ASSUME Matched, UNCHANGED purchases, \A c \in Users : PaymentRows(c)' = PaymentRows(c)
  PROVE  Matched'
<1>1. \A c \in Users : PurchaseRows(c)' = PurchaseRows(c)
  BY DEF PurchaseRows
<1> QED BY <1>1 DEF Matched

\* A row of another type is inserted (wallet_deposit, wallet_withdraw).
LEMMA InsertMatched ==
  ASSUME WalletInv, Matched, NEW row \in Rows, row.type # "payment",
         txns' = Append(txns, row), UNCHANGED purchases
  PROVE  Matched'
<1>1. \A c \in Users : PaymentRows(c)' = PaymentRows(c)
  <2>1. txns \in Seq(Rows)
    BY DEF WalletInv, MoneyInv
  <2>2. /\ Len(txns) \in Nat /\ DOMAIN txns = 1 .. Len(txns) /\ DOMAIN txns' = 1 .. Len(txns) + 1
        /\ \A t \in 1 .. Len(txns) : txns'[t] = txns[t]
        /\ txns'[Len(txns) + 1] = row
    BY <2>1
  <2>3. 1 .. Len(txns) + 1 = (1 .. Len(txns)) \cup {Len(txns) + 1}
    BY <2>2
  <2> TAKE c \in Users
  <2>4. \A t : t \in PaymentRows(c)' <=> t \in PaymentRows(c)
    BY <2>2, <2>3 DEF PaymentRows
  <2> QED BY <2>4
<1> QED BY <1>1, QuietMatched

\* A status is updated (the administrator's decisions).
LEMMA UpdateMatched ==
  ASSUME WalletInv, Matched, NEW t \in DOMAIN txns, NEW status,
         txns' = [txns EXCEPT ![t].status = status], UNCHANGED purchases
  PROVE  Matched'
<1>1. \A c \in Users : PaymentRows(c)' = PaymentRows(c)
  <2>1. txns \in Seq(Rows) /\ DOMAIN txns = 1 .. Len(txns)
    BY DEF WalletInv, MoneyInv
  <2>2. DOMAIN txns' = DOMAIN txns
    BY <2>1
  <2>3. \A k \in DOMAIN txns : txns'[k].user = txns[k].user /\ txns'[k].type = txns[k].type
    BY <2>1, <2>2 DEF Rows
  <2> QED BY <2>2, <2>3 DEF PaymentRows
<1> QED BY <1>1, QuietMatched

\* A sale (wallet_pay_video) adds one row to each, of the same buyer.
LEMMA PayMatched ==
  ASSUME WalletInv, Matched, NEW buyer \in Users, NEW v \in Videos, NEW price \in Amounts,
         Pay(buyer, v, price)
  PROVE  Matched'
<1> DEFINE cut == CreatorCut(price)
<1>1. /\ txns \in Seq(Rows) /\ purchases \in [Users \X Videos -> Nat]
      /\ price \in Nat \ {0} /\ Owner[v] \in Users
  BY WalletAssumption DEF WalletInv, MoneyInv, AccessInv
<1>2. /\ cut > 0 /\ Move(buyer, Owner[v], price, cut, "payment")
      /\ purchases' = [purchases EXCEPT ![<<buyer, v>>] = @ + 1]
  BY DEF Pay
<1>3. cut \in Nat \ {0}
  BY <1>1, <1>2, CutBounds
<1> HIDE DEF cut
<1> SUFFICES ASSUME NEW c \in Users
             PROVE  /\ IsFiniteSet(PaymentRows(c)') /\ IsFiniteSet(PurchaseRows(c)')
                    /\ Cardinality(PaymentRows(c)') = Cardinality(PurchaseRows(c)')
  BY DEF Matched
<1>4. /\ IsFiniteSet(PaymentRows(c)) /\ IsFiniteSet(PurchaseRows(c))
      /\ Cardinality(PaymentRows(c)) = Cardinality(PurchaseRows(c))
  BY DEF Matched
<1>5. CASE c # buyer
  <2>1. PaymentRows(c)' = PaymentRows(c)
    BY <1>1, <1>2, <1>3, <1>5, PaymentRowAdded
  <2>2. PurchaseRows(c)' = PurchaseRows(c)
    BY <1>1, <1>2, <1>5, PurchaseRowAdded
  <2> QED BY <1>4, <2>1, <2>2
<1>6. CASE c = buyer
  <2>1. /\ PaymentRows(c)' = PaymentRows(c) \cup {Len(txns) + 1}
        /\ Len(txns) + 1 \notin PaymentRows(c)
    BY <1>1, <1>2, <1>3, <1>6, PaymentRowAdded
  <2>2. PICK x : PurchaseRows(c)' = PurchaseRows(c) \cup {x} /\ x \notin PurchaseRows(c)
    BY <1>1, <1>2, <1>6, PurchaseRowAdded
  <2>3. /\ IsFiniteSet(PaymentRows(c)')
        /\ Cardinality(PaymentRows(c)') = Cardinality(PaymentRows(c)) + 1
    BY <1>4, <2>1, FS_AddElement
  <2>4. /\ IsFiniteSet(PurchaseRows(c)')
        /\ Cardinality(PurchaseRows(c)') = Cardinality(PurchaseRows(c)) + 1
    BY <1>4, <2>2, FS_AddElement
  <2> QED BY <1>4, <2>3, <2>4
<1> QED BY <1>5, <1>6

\* A transfer or a commission is no payment.
LEMMA TransferMatched ==
  ASSUME WalletInv, Matched, NEW from \in Users, NEW to \in Users, NEW amount \in Nat \ {0},
         Move(from, to, amount, amount, "transfer_out"), UNCHANGED purchases
  PROVE  Matched'
<1>1. txns \in Seq(Rows)
  BY DEF WalletInv, MoneyInv
<1>2. \A c \in Users : PaymentRows(c)' = PaymentRows(c)
  BY <1>1, PaymentRowAdded
<1> QED BY <1>2, QuietMatched

\* The opening ledger has no payments.
LEMMA InitMatched == Init => Matched
<1> SUFFICES ASSUME Init, NEW b \in Users
             PROVE  PaymentRows(b) = {} /\ PurchaseRows(b) = {}
  BY FS_EmptySet DEF Matched
<1>1. PaymentRows(b) = {}
  <2>0. txns = OpeningLedger
    BY DEF Init
  <2>1. txns \in Seq(AdminRows)
    BY <2>0, WalletAssumption
  <2>2. \A t \in DOMAIN txns : txns[t] \in AdminRows
    BY <2>1
  <2> QED BY <2>2 DEF PaymentRows, AdminRows
<1>2. PurchaseRows(b) = {}
  <2>1. \A v \in Videos : purchases[<<b, v>>] = 0
    BY DEF Init
  <2>2. 1 .. 0 = {}
    OBVIOUS
  <2> QED BY <2>1, <2>2 DEF PurchaseRows
<1> QED BY <1>1, <1>2

\* Every step keeps charges and purchases together.
LEMMA NextMatched == WalletInv /\ Matched /\ [Next]_walletVars => Matched'
<1> SUFFICES ASSUME WalletInv, Matched, [Next]_walletVars PROVE Matched'
  OBVIOUS
<1>1. ASSUME NEW u \in Users, NEW amount \in Amounts,
             Deposit(u, amount) \/ Withdraw(u, amount)
      PROVE  Matched'
  <2>1. PICK type \in {"deposit", "withdrawal"} :
            txns' = Append(txns, NewRow(u, type, amount, "pending")) /\ UNCHANGED purchases
    BY <1>1 DEF Deposit, Withdraw
  <2>2. NewRow(u, type, amount, "pending") \in Rows
    BY WalletAssumption DEF NewRow, Rows, TxnTypes, Statuses
  <2>3. NewRow(u, type, amount, "pending").type # "payment"
    BY DEF NewRow
  <2> QED BY <2>1, <2>2, <2>3, InsertMatched
<1>2. ASSUME NEW from \in Users, NEW to \in Users, NEW amount \in Amounts,
             Transfer(from, to, amount)
      PROVE  Matched'
  <2>1. amount \in Nat \ {0}
    BY WalletAssumption
  <2> QED BY <1>2, <2>1, TransferMatched DEF Transfer
<1>3. ASSUME NEW buyer \in Users, NEW v \in Videos, NEW price \in Amounts,
             Pay(buyer, v, price)
      PROVE  Matched'
  BY <1>3, PayMatched
<1>4. ASSUME NEW v \in Videos, NEW buyer \in Users, NEW affiliate \in Users,
             NEW price \in Amounts, NEW pct \in Percents,
             Commission(v, buyer, affiliate, CommissionOf(price, pct))
      PROVE  Matched'
  <2> DEFINE amount == CommissionOf(price, pct)
  <2>1. amount \in Int /\ amount > 0 /\ Move(Owner[v], affiliate, amount, amount, "transfer_out")
        /\ UNCHANGED purchases
    BY <1>4, CommissionInt DEF Commission
  <2>2. Owner[v] \in Users
    BY WalletAssumption
  <2> HIDE DEF amount
  <2>3. amount \in Nat \ {0}
    BY <2>1
  <2> QED BY <2>1, <2>2, <2>3, TransferMatched
<1>5. ASSUME NEW t \in DOMAIN txns, Approve(t) \/ Complete(t) \/ Reject(t)
      PROVE  Matched'
  <2>1. PICK status : txns' = [txns EXCEPT ![t].status = status] /\ UNCHANGED purchases
    BY <1>5 DEF Approve, Complete, Reject
  <2> QED BY <2>1, UpdateMatched
<1>6. ASSUME NEW p \in MayBlock, BlockUser(p[1], p[2]) \/ UnblockUser(p[1], p[2])
      PROVE  Matched'
  <2>1. UNCHANGED <<txns, purchases>>
    BY <1>6 DEF BlockUser, UnblockUser
  <2> QED BY <2>1, QuietMatched DEF PaymentRows
<1>7. CASE UNCHANGED walletVars
  <2>1. UNCHANGED <<txns, purchases>>
    BY <1>7 DEF walletVars
  <2> QED BY <2>1, QuietMatched DEF PaymentRows
<1> QED BY <1>1, <1>2, <1>3, <1>4, <1>5, <1>6, <1>7 DEF Next

\* A buyer has as many payment rows in the ledger as rows in purchases: nobody is
\* charged without a purchase row, and none is written without its charge.
THEOREM WalletPaymentsMatch == Spec => []PaymentsMatchPurchases
<1>1. Matched => PaymentsMatchPurchases
  BY DEF Matched, PaymentsMatchPurchases
<1> QED BY <1>1, InitMatched, NextMatched, WalletInvariant, PTL DEF Spec
=============================================================================
