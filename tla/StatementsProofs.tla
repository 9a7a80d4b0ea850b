-------------------------- MODULE StatementsProofs --------------------------
(***************************************************************************)
(* Proofs about SettlementStatements for any sets of users, orders,        *)
(* payments and transactions: the statements of settlements, however they  *)
(* interleave, implement PaidFulfilment, and lose nobody's money.          *)
(***************************************************************************)
EXTENDS SettlementStatements, Sums, TLAPS

-----------------------------------------------------------------------------
(* The inductive invariant.                                                *)

\* A row is locked by one transaction.
LocksExclude ==
  \A s, t \in Transactions : s # t => txn[s].held \cap txn[t].held = {}

\* An order is granted with its completion, and by nothing else; a late
\* cancellation hides it.
GrantsFollowOrders ==
  \A o \in Orders :
    /\ placed[o] = "PENDING" => granted[o] = 0
    /\ placed[o] = "COMPLETED" => granted[o] = 1

DepositOf(p) == [user |-> Payer[p], kind |-> "DEPOSIT", payment |-> p, amount |-> Amount[p]]

\* A confirmed payment has what it paid for; a deposit's row says so.
ConfirmedIsServed ==
  \A p \in Payments : paid[p] = "CONFIRMED" =>
    IF OrderOf[p] = NoOrder THEN DepositOf(p) \in rows ELSE granted[OrderOf[p]] = 1
DepositsAreConfirmed ==
  \A r \in rows : r.kind = "DEPOSIT" =>
    r.payment \in Payments /\ paid[r.payment] = "CONFIRMED" /\ OrderOf[r.payment] = NoOrder

\* What a transaction m has decided still holds when it commits: what it read
\* is locked, or never changes again.
TxnRests(m) ==
  /\ m.at = "idle" /\ m.payment = NoPayment /\ m.held = {}
  /\ ~m.confirms /\ ~m.completes /\ m.new = {}
Early(m) ==
  /\ m.at \in {"payment", "claim", "debit"}
  /\ m.payment \in Payments
  /\ ~m.confirms /\ ~m.completes /\ m.new = {}
  /\ m.at = "debit" <=> m.payment \in ByWallet
Confirming(m) ==
  IF m.payment \in ByWallet THEN paid[m.payment] = "NONE"
  ELSE paid[m.payment] = "PENDING" /\ <<"payment", m.payment>> \in m.held
Completing(m) ==
  /\ OrderOf[m.payment] # NoOrder /\ m.confirms
  /\ placed[OrderOf[m.payment]] = "PENDING"
  /\ <<"order", OrderOf[m.payment]>> \in m.held
Settling(m) ==
  /\ m.payment \in Payments
  /\ IF m.confirms THEN Confirming(m) ELSE paid[m.payment] = "CONFIRMED"
  /\ m.completes => Completing(m)
SettlingOrder(m) ==
  /\ Settling(m) /\ OrderOf[m.payment] # NoOrder
  /\ m.at \in {"order", "complete", "reward", "increment", "commit"}
  /\ m.at = "order" => ~m.completes
  /\ m.at = "complete" => ~m.completes
  /\ m.at \in {"reward", "increment"} => m.completes
  /\ m.at = "commit" => m.completes \/ granted[OrderOf[m.payment]] = 1
  /\ \A r \in m.new : r.kind # "DEPOSIT"
SettlingDeposit(m) ==
  /\ Settling(m) /\ OrderOf[m.payment] = NoOrder
  /\ m.at \in {"deposit", "commit"} /\ ~m.completes
  /\ m.at = "commit" => m.new = IF m.confirms THEN {DepositOf(m.payment)} ELSE {}

Decided(m) == TxnRests(m) \/ Early(m) \/ SettlingOrder(m) \/ SettlingDeposit(m)
DecisionsHold == \A t \in Transactions : Decided(txn[t])

\* A payment from the wallet is one transaction's, from its creation on.
WalletPaymentsAreOwned ==
  \A s, t \in Transactions :
    s # t /\ txn[t].payment \in ByWallet => txn[s].payment # txn[t].payment
WalletPaymentsAreNew ==
  \A p \in ByWallet : paid[p] \in {"NONE", "CONFIRMED"}
    /\ \A t \in Transactions : txn[t].payment = p => paid[p] = "NONE"

\* The types the argument needs. Those of amounts and balances come with the
\* ledger, below.
IsTransaction(m) ==
  /\ DOMAIN m = {"at", "payment", "held", "confirms", "completes", "read", "new"}
  /\ m.confirms \in BOOLEAN /\ m.completes \in BOOLEAN
StatementsShape ==
  /\ paid \in [Payments -> {"NONE", "PENDING", "CONFIRMED", "REJECTED"}]
  /\ placed \in [Orders -> {"PENDING", "COMPLETED", "CANCELLED"}]
  /\ granted \in [Orders -> Nat]
  /\ txn = [t \in Transactions |-> txn[t]]
  /\ \A t \in Transactions : IsTransaction(txn[t])

StatementsInv ==
  /\ StatementsShape /\ LocksExclude /\ GrantsFollowOrders
  /\ ConfirmedIsServed /\ DepositsAreConfirmed
  /\ DecisionsHold /\ WalletPaymentsAreOwned /\ WalletPaymentsAreNew

-----------------------------------------------------------------------------

LEMMA RestingShape == IsTransaction(NoTransaction) /\ TxnRests(NoTransaction)
BY DEF IsTransaction, NoTransaction, TxnRests

LEMMA StatementsInitially == StatementsInit => StatementsInv
<1> SUFFICES ASSUME StatementsInit PROVE StatementsInv
  OBVIOUS
<1>t. \A t \in Transactions : txn[t] = NoTransaction
  BY DEF StatementsInit
<1>1. StatementsShape
  <2>1. \A t \in Transactions : IsTransaction(txn[t])
    BY <1>t, RestingShape
  <2> QED BY <2>1 DEF StatementsInit, StatementsShape
<1>2. LocksExclude
  BY <1>t DEF LocksExclude, NoTransaction
<1>3. GrantsFollowOrders
  BY DEF StatementsInit, GrantsFollowOrders
<1>4. ConfirmedIsServed
  BY DEF StatementsInit, ConfirmedIsServed
<1>5. DepositsAreConfirmed
  BY DEF StatementsInit, DepositsAreConfirmed
<1>6. DecisionsHold
  BY <1>t, RestingShape DEF DecisionsHold, Decided
<1>7. WalletPaymentsAreOwned
  BY <1>t, StatementsAssumption DEF WalletPaymentsAreOwned, NoTransaction
<1>8. WalletPaymentsAreNew
  BY StatementsAssumption DEF StatementsInit, WalletPaymentsAreNew, NoTransaction
<1> QED BY <1>1, <1>2, <1>3, <1>4, <1>5, <1>6, <1>7, <1>8 DEF StatementsInv

-----------------------------------------------------------------------------
(* A step inside transaction t commits nothing.  It preserves the          *)
(* invariant when it takes only free locks, keeps its payment (or takes    *)
(* one that no wallet payment is), and what t has then decided holds.      *)
Moves(t) ==
  /\ txn' = [s \in Transactions |-> txn'[s]]
  /\ \A s \in Transactions : s # t => txn'[s] = txn[s]
  /\ IsTransaction(txn'[t])
  /\ UNCHANGED Committed
TakesFree(t) ==
  \A s \in Transactions : s # t => txn'[t].held \cap txn[s].held = {}
MayPay(t) ==
  \/ txn'[t].payment = txn[t].payment
  \/ txn'[t].payment \notin ByWallet
  \/ /\ paid[txn'[t].payment] = "NONE"
     /\ \A s \in Transactions : txn[s].payment # txn'[t].payment

LEMMA InsideTransaction ==
  ASSUME StatementsInv, NEW t \in Transactions,
         Moves(t), TakesFree(t), MayPay(t), Decided(txn'[t])
  PROVE  StatementsInv'
<1>1. StatementsShape'
  <2>1. \A s \in Transactions : IsTransaction(txn[s])'
    BY DEF Moves, StatementsInv, StatementsShape, IsTransaction
  <2> QED BY <2>1 DEF Moves, Committed, StatementsInv, StatementsShape
<1>2. LocksExclude'
  BY DEF Moves, TakesFree, StatementsInv, LocksExclude
<1>3. GrantsFollowOrders'
  BY DEF Moves, Committed, StatementsInv, GrantsFollowOrders
<1>4. ConfirmedIsServed' /\ DepositsAreConfirmed'
  BY DEF Moves, Committed, StatementsInv, ConfirmedIsServed, DepositsAreConfirmed
<1>5. DecisionsHold'
  <2>1. ASSUME NEW s \in Transactions PROVE Decided(txn[s])'
    <3>1. Decided(txn'[s])
      BY DEF Moves, StatementsInv, DecisionsHold
    <3> QED
      BY <3>1 DEF Moves, Committed, Decided, TxnRests, Early, SettlingOrder, SettlingDeposit,
                  Settling, Confirming, Completing
  <2> QED BY <2>1 DEF DecisionsHold
<1>6. WalletPaymentsAreOwned'
  BY DEF Moves, MayPay, StatementsInv, WalletPaymentsAreOwned
<1>7. WalletPaymentsAreNew'
  BY DEF Moves, MayPay, Committed, StatementsInv, WalletPaymentsAreNew
<1> QED BY <1>1, <1>2, <1>3, <1>4, <1>5, <1>6, <1>7 DEF StatementsInv

LEMMA Locals ==
  ASSUME StatementsInv
  PROVE  txn = [t \in Transactions |-> txn[t]]
BY DEF StatementsInv, StatementsShape

LEMMA MovesTo ==
  ASSUME StatementsInv, NEW t \in Transactions, NEW m, IsTransaction(m),
         txn' = [txn EXCEPT ![t] = m], UNCHANGED Committed
  PROVE  Moves(t) /\ txn'[t] = m
BY Locals DEF Moves

\* What a transaction starts its step with.
LEMMA OfOne ==
  ASSUME StatementsInv, NEW t \in Transactions
  PROVE  /\ IsTransaction(txn[t]) /\ Decided(txn[t])
         /\ \A s \in Transactions : s # t => txn[t].held \cap txn[s].held = {}
         /\ txn[t].at \in {"payment", "claim", "debit"} => Early(txn[t])
         /\ txn[t].at \in {"order", "complete", "reward", "increment"} => SettlingOrder(txn[t])
         /\ txn[t].at = "deposit" => SettlingDeposit(txn[t])
         /\ txn[t].at = "commit" => SettlingOrder(txn[t]) \/ SettlingDeposit(txn[t])
         /\ txn[t].at = "idle" => TxnRests(txn[t])
<1>1. IsTransaction(txn[t]) /\ Decided(txn[t])
  BY DEF StatementsInv, StatementsShape, DecisionsHold
<1>2. \A s \in Transactions : s # t => txn[t].held \cap txn[s].held = {}
  BY DEF StatementsInv, LocksExclude
<1>3. /\ TxnRests(txn[t]) => txn[t].at = "idle"
      /\ Early(txn[t]) => txn[t].at \in {"payment", "claim", "debit"}
      /\ SettlingOrder(txn[t]) =>
           txn[t].at \in {"order", "complete", "reward", "increment", "commit"}
      /\ SettlingDeposit(txn[t]) => txn[t].at \in {"deposit", "commit"}
  BY DEF TxnRests, Early, SettlingOrder, SettlingDeposit
<1> QED BY <1>1, <1>2, <1>3 DEF Decided

LEMMA GoesOn ==
  ASSUME StatementsInv, NEW t \in Transactions,
         txn'[t].payment = txn[t].payment, txn'[t].held = txn[t].held
  PROVE  TakesFree(t) /\ MayPay(t)
<1>1. TakesFree(t)
  BY OfOne DEF TakesFree
<1> QED BY <1>1 DEF MayPay

LEMMA Locks ==
  ASSUME StatementsInv, NEW t \in Transactions, NEW row, FreeFor(row, t),
         txn'[t].payment = txn[t].payment, txn'[t].held = txn[t].held \cup {row}
  PROVE  TakesFree(t) /\ MayPay(t)
<1>1. TakesFree(t)
  BY OfOne DEF TakesFree, FreeFor
<1> QED BY <1>1 DEF MayPay

LEMMA GiveUpStep ==
  ASSUME StatementsInv, NEW t \in Transactions, GiveUp(t), UNCHANGED Committed
  PROVE  StatementsInv'
<1>1. txn'[t] = NoTransaction /\ Moves(t)
  BY Locals, RestingShape DEF GiveUp, Moves
<1>2. TakesFree(t) /\ MayPay(t)
  BY <1>1, StatementsAssumption DEF TakesFree, MayPay, NoTransaction
<1>3. Decided(txn'[t])
  BY <1>1, RestingShape DEF Decided
<1> QED BY <1>1, <1>2, <1>3, InsideTransaction

LEMMA StartSettlementStep ==
  ASSUME StatementsInv, NEW t \in Transactions, NEW p \in Payments, StartSettlement(t, p)
  PROVE  StatementsInv'
<1>1. /\ Moves(t) /\ txn'[t].at = "payment" /\ txn'[t].payment = p
      /\ txn'[t].held = txn[t].held
      /\ ~txn'[t].confirms /\ ~txn'[t].completes /\ txn'[t].new = {}
  BY OfOne, Locals DEF StartSettlement, Moves, IsTransaction, TxnRests
<1>2. TakesFree(t) /\ MayPay(t)
  BY <1>1, OfOne DEF TakesFree, MayPay, StartSettlement, TxnRests
<1>3. Decided(txn'[t])
  BY <1>1 DEF StartSettlement, Decided, Early
<1> QED BY <1>1, <1>2, <1>3, InsideTransaction

LEMMA ReadPaymentStep ==
  ASSUME StatementsInv, NEW t \in Transactions, ReadPayment(t)
  PROVE  StatementsInv'
<1>o. Early(txn[t]) /\ txn[t].at = "payment"
  BY OfOne DEF ReadPayment
<1>1. /\ Moves(t) /\ txn'[t].payment = txn[t].payment /\ txn'[t].held = txn[t].held
      /\ txn'[t].at = IF paid[PaymentOf(t)] = "CONFIRMED" THEN WhatIsPaid(t) ELSE "claim"
      /\ txn'[t].confirms = txn[t].confirms /\ txn'[t].completes = txn[t].completes
      /\ txn'[t].new = txn[t].new
  BY OfOne, Locals DEF ReadPayment, Moves, IsTransaction
<1>2. TakesFree(t) /\ MayPay(t)
  BY <1>1, GoesOn
<1>3. Decided(txn'[t])
  BY <1>1, <1>o DEF Decided, Early, SettlingOrder, SettlingDeposit, Settling, WhatIsPaid,
                    PaymentOf, OrderFor
<1> QED BY <1>1, <1>2, <1>3, InsideTransaction

LEMMA ClaimPaymentStep ==
  ASSUME StatementsInv, NEW t \in Transactions, ClaimPayment(t)
  PROVE  StatementsInv'
<1>o. Early(txn[t]) /\ txn[t].at = "claim" /\ txn[t].payment \notin ByWallet
  BY OfOne DEF ClaimPayment, Early
<1>1. CASE paid[PaymentOf(t)] = "PENDING"
  <2>1. /\ Moves(t) /\ txn'[t].payment = txn[t].payment
        /\ txn'[t].held = txn[t].held \cup {<<"payment", txn[t].payment>>}
        /\ txn'[t].at = WhatIsPaid(t)
        /\ txn'[t].confirms /\ txn'[t].completes = txn[t].completes
        /\ txn'[t].new = txn[t].new
    <3> DEFINE m == [txn[t] EXCEPT !.at = WhatIsPaid(t), !.confirms = TRUE,
                                !.held = txn[t].held \cup {<<"payment", PaymentOf(t)>>}]
    <3>1. /\ IsTransaction(m) /\ m.at = WhatIsPaid(t) /\ m.payment = txn[t].payment
         /\ m.held = txn[t].held \cup {<<"payment", PaymentOf(t)>>}
         /\ m.confirms = TRUE /\ m.completes = txn[t].completes
         /\ m.new = txn[t].new
      BY OfOne DEF IsTransaction
    <3>2. txn' = [txn EXCEPT ![t] = m] /\ UNCHANGED Committed
      BY <1>1 DEF ClaimPayment
    <3> HIDE DEF m
    <3> QED BY <3>1, <3>2, MovesTo DEF PaymentOf, OrderFor
  <2>2. TakesFree(t) /\ MayPay(t)
    BY <2>1, Locks DEF ClaimPayment, PaymentOf
  <2>3. Decided(txn'[t])
    BY <1>1, <2>1, <1>o DEF Decided, Early, SettlingOrder, SettlingDeposit, Settling,
                            Confirming, WhatIsPaid, PaymentOf, OrderFor
  <2> QED BY <2>1, <2>2, <2>3, InsideTransaction
<1>2. CASE paid[PaymentOf(t)] = "CONFIRMED"
  <2>1. /\ Moves(t) /\ txn'[t].payment = txn[t].payment /\ txn'[t].held = txn[t].held
        /\ txn'[t].at = WhatIsPaid(t)
        /\ txn'[t].confirms = txn[t].confirms /\ txn'[t].completes = txn[t].completes
        /\ txn'[t].new = txn[t].new
    BY <1>2, OfOne, Locals DEF ClaimPayment, Moves, IsTransaction
  <2>2. TakesFree(t) /\ MayPay(t)
    BY <2>1, GoesOn
  <2>3. Decided(txn'[t])
    BY <1>2, <2>1, <1>o DEF Decided, Early, SettlingOrder, SettlingDeposit, Settling,
                            WhatIsPaid, PaymentOf, OrderFor
  <2> QED BY <2>1, <2>2, <2>3, InsideTransaction
<1>3. CASE paid[PaymentOf(t)] \notin {"PENDING", "CONFIRMED"}
  BY <1>3, GiveUpStep DEF ClaimPayment
<1> QED BY <1>1, <1>2, <1>3

LEMMA StartWalletPaymentStep ==
  ASSUME StatementsInv, NEW t \in Transactions, NEW p \in Payments, StartWalletPayment(t, p)
  PROVE  StatementsInv'
<1>i. /\ txn[t].confirms = FALSE /\ txn[t].completes = FALSE /\ txn[t].new = {}
      /\ IsTransaction(txn[t])
  BY OfOne DEF StartWalletPayment, TxnRests, IsTransaction
<1>j. /\ Moves(t) /\ txn'[t].at = "debit" /\ txn'[t].payment = p
      /\ txn'[t].held = {<<"order", OrderOf[p]>>}
      /\ txn'[t].confirms = txn[t].confirms /\ txn'[t].completes = txn[t].completes
      /\ txn'[t].new = txn[t].new
  BY <1>i, Locals DEF StartWalletPayment, Moves, IsTransaction
<1>1. /\ Moves(t) /\ txn'[t].at = "debit" /\ txn'[t].payment = p
      /\ txn'[t].held = {<<"order", OrderOf[p]>>}
      /\ ~txn'[t].confirms /\ ~txn'[t].completes /\ txn'[t].new = {}
  BY <1>i, <1>j
<1>2. TakesFree(t) /\ MayPay(t)
  BY <1>1 DEF TakesFree, MayPay, StartWalletPayment, FreeFor, PaymentOf
<1>3. Decided(txn'[t])
  BY <1>1 DEF StartWalletPayment, Decided, Early
<1> QED BY <1>1, <1>2, <1>3, InsideTransaction

LEMMA DebitWalletStep ==
  ASSUME StatementsInv, NEW t \in Transactions, DebitWallet(t)
  PROVE  StatementsInv'
<1>o. Early(txn[t]) /\ txn[t].at = "debit" /\ txn[t].payment \in ByWallet
  BY OfOne DEF DebitWallet, Early
<1>1. CASE Funded(t)
  <2>1. /\ Moves(t) /\ txn'[t].payment = txn[t].payment
        /\ txn'[t].held = txn[t].held \cup {<<"wallet", Payer[txn[t].payment]>>}
        /\ txn'[t].at = "order"
        /\ txn'[t].confirms /\ txn'[t].completes = txn[t].completes
        /\ txn'[t].new = {Purchase(t)}
    <3> DEFINE m == [txn[t] EXCEPT !.at = "order", !.confirms = TRUE,
                  !.read = purse[Payer[PaymentOf(t)]], !.new = {Purchase(t)},
                  !.held = txn[t].held \cup {<<"wallet", Payer[PaymentOf(t)]>>}]
    <3>1. /\ IsTransaction(m) /\ m.at = "order" /\ m.payment = txn[t].payment
         /\ m.held = txn[t].held \cup {<<"wallet", Payer[PaymentOf(t)]>>}
         /\ m.confirms = TRUE /\ m.completes = txn[t].completes
         /\ m.new = {Purchase(t)}
      BY OfOne DEF IsTransaction
    <3>2. txn' = [txn EXCEPT ![t] = m] /\ UNCHANGED Committed
      BY <1>1 DEF DebitWallet, Debited
    <3> HIDE DEF m
    <3> QED BY <3>1, <3>2, MovesTo DEF PaymentOf, OrderFor
  <2>2. TakesFree(t) /\ MayPay(t)
    BY <2>1, Locks DEF DebitWallet, PaymentOf
  <2>3. paid[txn[t].payment] = "NONE" /\ OrderOf[txn[t].payment] # NoOrder
    BY <1>o, StatementsAssumption DEF StatementsInv, WalletPaymentsAreNew
  <2>4. \A r \in txn'[t].new : r.kind # "DEPOSIT"
    BY <2>1 DEF Purchase
  <2>5. Decided(txn'[t])
    BY <2>1, <2>3, <2>4, <1>o DEF Decided, Early, SettlingOrder, Settling, Confirming
  <2> QED BY <2>1, <2>2, <2>5, InsideTransaction
<1>2. CASE ~Funded(t)
  BY <1>2, GiveUpStep DEF DebitWallet, Debited
<1> QED BY <1>1, <1>2

LEMMA ReadOrderStep ==
  ASSUME StatementsInv, NEW t \in Transactions, ReadOrder(t)
  PROVE  StatementsInv'
<1>o. SettlingOrder(txn[t]) /\ txn[t].at = "order"
  BY OfOne DEF ReadOrder
<1>1. /\ Moves(t) /\ txn'[t].payment = txn[t].payment /\ txn'[t].held = txn[t].held
      /\ txn'[t].at = IF placed[OrderFor(t)] = "COMPLETED" THEN "commit" ELSE "complete"
      /\ txn'[t].confirms = txn[t].confirms /\ txn'[t].completes = txn[t].completes
      /\ txn'[t].new = txn[t].new
  BY OfOne, Locals DEF ReadOrder, Moves, IsTransaction
<1>2. TakesFree(t) /\ MayPay(t)
  BY <1>1, GoesOn
<1>3. placed[OrderFor(t)] = "COMPLETED" => granted[OrderFor(t)] = 1
  BY <1>o, StatementsAssumption
     DEF SettlingOrder, Settling, OrderFor, StatementsInv, GrantsFollowOrders
<1>4. Decided(txn'[t])
  BY <1>1, <1>o, <1>3 DEF Decided, SettlingOrder, Settling, Confirming, OrderFor
<1> QED BY <1>1, <1>2, <1>4, InsideTransaction

LEMMA CompleteOrderStep ==
  ASSUME StatementsInv, NEW t \in Transactions, CompleteOrder(t)
  PROVE  StatementsInv'
<1>o. SettlingOrder(txn[t]) /\ txn[t].at = "complete"
  BY OfOne DEF CompleteOrder
<1>1. CASE placed[OrderFor(t)] = "PENDING"
  \* The order is not granted, so no payment of it is confirmed.
  <2>c. txn[t].confirms
    BY <1>1, <1>o, StatementsAssumption DEF SettlingOrder, Settling, OrderFor, StatementsInv,
       ConfirmedIsServed, GrantsFollowOrders
  <2>1. /\ Moves(t) /\ txn'[t].payment = txn[t].payment
        /\ txn'[t].held = txn[t].held \cup {<<"order", OrderOf[txn[t].payment]>>}
        /\ txn'[t].at = "reward"
        /\ txn'[t].confirms = txn[t].confirms /\ txn'[t].completes
        /\ txn'[t].new = txn[t].new
    <3> DEFINE m == [txn[t] EXCEPT !.at = "reward", !.completes = TRUE,
                                !.held = txn[t].held \cup {<<"order", OrderFor(t)>>}]
    <3>1. /\ IsTransaction(m) /\ m.at = "reward" /\ m.payment = txn[t].payment
         /\ m.held = txn[t].held \cup {<<"order", OrderFor(t)>>}
         /\ m.confirms = txn[t].confirms /\ m.completes = TRUE
         /\ m.new = txn[t].new
      BY OfOne DEF IsTransaction
    <3>2. txn' = [txn EXCEPT ![t] = m] /\ UNCHANGED Committed
      BY <1>1 DEF CompleteOrder, Completed
    <3> HIDE DEF m
    <3> QED BY <3>1, <3>2, MovesTo DEF PaymentOf, OrderFor
  <2>2. TakesFree(t) /\ MayPay(t)
    BY <2>1, Locks DEF CompleteOrder, OrderFor
  <2>3. Decided(txn'[t])
    BY <1>1, <2>c, <2>1, <1>o DEF Decided, SettlingOrder, Settling, Confirming, Completing, OrderFor
  <2> QED BY <2>1, <2>2, <2>3, InsideTransaction
<1>2. CASE placed[OrderFor(t)] = "COMPLETED"
  <2>g. granted[OrderFor(t)] = 1
    BY <1>2, <1>o, StatementsAssumption
       DEF SettlingOrder, Settling, OrderFor, StatementsInv, GrantsFollowOrders
  <2>1. /\ Moves(t) /\ txn'[t].payment = txn[t].payment /\ txn'[t].held = txn[t].held
        /\ txn'[t].at = "commit"
        /\ txn'[t].confirms = txn[t].confirms /\ txn'[t].completes = txn[t].completes
        /\ txn'[t].new = txn[t].new
    BY <1>2, OfOne, Locals DEF CompleteOrder, Moves, IsTransaction
  <2>2. TakesFree(t) /\ MayPay(t)
    BY <2>1, GoesOn
  <2>3. Decided(txn'[t])
    BY <2>g, <2>1, <1>o DEF Decided, SettlingOrder, Settling, Confirming, OrderFor
  <2> QED BY <2>1, <2>2, <2>3, InsideTransaction
<1>3. CASE placed[OrderFor(t)] \notin {"PENDING", "COMPLETED"}
  BY <1>3, GiveUpStep DEF CompleteOrder
<1> QED BY <1>1, <1>2, <1>3

LEMMA SumRewardsStep ==
  ASSUME StatementsInv, NEW t \in Transactions, SumRewards(t)
  PROVE  StatementsInv'
<1>o. SettlingOrder(txn[t]) /\ txn[t].at = "reward"
  BY OfOne DEF SumRewards
<1> DEFINE reward == [user |-> Referrer[Payer[PaymentOf(t)]], kind |-> "REFERRAL_REWARD",
                      payment |-> PaymentOf(t), amount |-> Commission(t)]
<1>1. CASE txn' = [txn EXCEPT ![t].at = "commit"]
  <2>1. /\ Moves(t) /\ txn'[t].payment = txn[t].payment /\ txn'[t].held = txn[t].held
        /\ txn'[t].at = "commit"
        /\ txn'[t].confirms = txn[t].confirms /\ txn'[t].completes = txn[t].completes
        /\ txn'[t].new = txn[t].new
    BY <1>1, OfOne, Locals DEF SumRewards, Moves, IsTransaction
  <2>2. TakesFree(t) /\ MayPay(t)
    BY <2>1, GoesOn
  <2>3. Decided(txn'[t])
    BY <2>1, <1>o DEF Decided, SettlingOrder, Settling, Confirming, Completing
  <2> QED BY <2>1, <2>2, <2>3, InsideTransaction
<1>2. CASE txn' = [txn EXCEPT ![t] = [@ EXCEPT !.at = "increment",
                                               !.new = txn[t].new \cup {reward}]]
  <2>1. /\ Moves(t) /\ txn'[t].payment = txn[t].payment /\ txn'[t].held = txn[t].held
        /\ txn'[t].at = "increment"
        /\ txn'[t].confirms = txn[t].confirms /\ txn'[t].completes = txn[t].completes
        /\ txn'[t].new = txn[t].new \cup {reward}
    <3> DEFINE m == [txn[t] EXCEPT !.at = "increment", !.new = txn[t].new \cup {reward}]
    <3>1. /\ IsTransaction(m) /\ m.at = "increment" /\ m.payment = txn[t].payment
         /\ m.held = txn[t].held
         /\ m.confirms = txn[t].confirms /\ m.completes = txn[t].completes
         /\ m.new = txn[t].new \cup {reward}
      BY OfOne DEF IsTransaction
    <3>2. txn' = [txn EXCEPT ![t] = m] /\ UNCHANGED Committed
      BY <1>2 DEF SumRewards
    <3> HIDE DEF m
    <3> QED BY <3>1, <3>2, MovesTo
  <2>2. TakesFree(t) /\ MayPay(t)
    BY <2>1, GoesOn
  <2>3. \A r \in txn'[t].new : r.kind # "DEPOSIT"
    BY <2>1, <1>o DEF SettlingOrder
  <2>4. Decided(txn'[t])
    BY <2>1, <2>3, <1>o DEF Decided, SettlingOrder, Settling, Confirming, Completing
  <2> QED BY <2>1, <2>2, <2>4, InsideTransaction
<1> QED BY <1>1, <1>2 DEF SumRewards

LEMMA IncrementWalletStep ==
  ASSUME StatementsInv, NEW t \in Transactions, IncrementWallet(t)
  PROVE  StatementsInv'
<1>o. SettlingOrder(txn[t]) /\ txn[t].at = "increment"
  BY OfOne DEF IncrementWallet
<1> DEFINE row == <<"wallet", Referrer[Payer[PaymentOf(t)]]>>
<1>1. /\ Moves(t) /\ txn'[t].payment = txn[t].payment
      /\ txn'[t].held = txn[t].held \cup {row}
      /\ txn'[t].at = "commit"
      /\ txn'[t].confirms = txn[t].confirms /\ txn'[t].completes = txn[t].completes
      /\ txn'[t].new = txn[t].new
  <2> DEFINE m == [txn[t] EXCEPT !.at = "commit", !.held = txn[t].held \cup {row}]
  <2>1. /\ IsTransaction(m) /\ m.at = "commit" /\ m.payment = txn[t].payment
       /\ m.held = txn[t].held \cup {row}
       /\ m.confirms = txn[t].confirms /\ m.completes = txn[t].completes
       /\ m.new = txn[t].new
    BY OfOne DEF IsTransaction
  <2>2. txn' = [txn EXCEPT ![t] = m] /\ UNCHANGED Committed
    BY DEF IncrementWallet
  <2> HIDE DEF m
  <2> QED BY <2>1, <2>2, MovesTo DEF PaymentOf, OrderFor
<1>2. TakesFree(t) /\ MayPay(t)
  BY <1>1, Locks DEF IncrementWallet
<1>3. Decided(txn'[t])
  BY <1>1, <1>o DEF Decided, SettlingOrder, Settling, Confirming, Completing
<1> QED BY <1>1, <1>2, <1>3, InsideTransaction

\* The deposit has its row exactly when the payment was confirmed before.
LEMMA CreditWalletStep ==
  ASSUME StatementsInv, NEW t \in Transactions, CreditWallet(t)
  PROVE  StatementsInv'
<1>o. SettlingDeposit(txn[t]) /\ txn[t].at = "deposit"
  BY OfOne DEF CreditWallet
<1> DEFINE row == <<"wallet", Payer[PaymentOf(t)]>>
<1>1. /\ Moves(t) /\ txn'[t].payment = txn[t].payment
      /\ txn'[t].held = txn[t].held \cup {row}
      /\ txn'[t].at = "commit"
      /\ txn'[t].confirms = txn[t].confirms /\ txn'[t].completes = txn[t].completes
      /\ txn'[t].new = {Deposit(t)} \ rows
  <2> DEFINE m == [txn[t] EXCEPT !.at = "commit", !.read = purse[Payer[PaymentOf(t)]],
                                !.held = txn[t].held \cup {row}, !.new = {Deposit(t)} \ rows]
  <2>1. /\ IsTransaction(m) /\ m.at = "commit" /\ m.payment = txn[t].payment
       /\ m.held = txn[t].held \cup {row}
       /\ m.confirms = txn[t].confirms /\ m.completes = txn[t].completes
       /\ m.new = {Deposit(t)} \ rows
    BY OfOne DEF IsTransaction
  <2>2. txn' = [txn EXCEPT ![t] = m] /\ UNCHANGED Committed
    BY DEF CreditWallet
  <2> HIDE DEF m
  <2> QED BY <2>1, <2>2, MovesTo DEF PaymentOf, OrderFor
<1>2. TakesFree(t) /\ MayPay(t)
  BY <1>1, Locks DEF CreditWallet
<1>3. Deposit(t) = DepositOf(txn[t].payment)
  BY DEF Deposit, DepositOf, PaymentOf
<1>4. CASE txn[t].confirms
  <2>1. paid[txn[t].payment] # "CONFIRMED"
    BY <1>4, <1>o DEF SettlingDeposit, Settling, Confirming
  <2>2. Deposit(t) \notin rows
    BY <2>1 DEF Deposit, PaymentOf, StatementsInv, DepositsAreConfirmed
  <2> QED
    <3>1. txn'[t].new = {DepositOf(txn[t].payment)}
      BY <2>2, <1>1, <1>3
    <3>2. Decided(txn'[t])
      BY <3>1, <1>1, <1>4, <1>o DEF Decided, SettlingDeposit, Settling, Confirming
    <3> QED BY <1>1, <1>2, <3>2, InsideTransaction
<1>5. CASE ~txn[t].confirms
  <2>1. Deposit(t) \in rows
    BY <1>5, <1>o, <1>3 DEF SettlingDeposit, Settling, StatementsInv, ConfirmedIsServed
  <2>2. txn'[t].new = {}
    BY <2>1, <1>1
  <2>3. Decided(txn'[t])
    BY <2>2, <1>1, <1>5, <1>o DEF Decided, SettlingDeposit, Settling
  <2> QED BY <1>1, <1>2, <2>3, InsideTransaction
<1> QED BY <1>4, <1>5

-----------------------------------------------------------------------------
(* Single statements of other handlers look at a row that nobody locks.    *)

LEMMA RefusePaymentStep ==
  ASSUME StatementsInv, NEW p \in Payments, RefusePayment(p)
  PROVE  StatementsInv'
<1>1. /\ paid[p] = "PENDING" /\ p \notin ByWallet /\ UNCHANGED <<placed, granted, rows, txn>>
      /\ paid' = [paid EXCEPT ![p] = "REJECTED"]
      /\ \A t \in Transactions : <<"payment", p>> \notin txn[t].held
  BY DEF RefusePayment, StatementsInv, WalletPaymentsAreNew
<1>p. paid'[p] = "REJECTED" /\ \A q \in Payments : q # p => paid'[q] = paid[q]
  BY <1>1 DEF StatementsInv, StatementsShape
<1>2. StatementsShape'
  <2>1. \A t \in Transactions : IsTransaction(txn[t])'
    BY <1>1 DEF StatementsInv, StatementsShape, IsTransaction
  <2> QED BY <1>1, <2>1 DEF StatementsInv, StatementsShape
<1>3. LocksExclude' /\ GrantsFollowOrders' /\ WalletPaymentsAreOwned'
  BY <1>1 DEF StatementsInv, LocksExclude, GrantsFollowOrders, WalletPaymentsAreOwned
<1>4. ConfirmedIsServed' /\ DepositsAreConfirmed'
  BY <1>1, <1>p DEF StatementsInv, ConfirmedIsServed, DepositsAreConfirmed
<1>5. DecisionsHold'
  <2>1. ASSUME NEW t \in Transactions PROVE Decided(txn[t])'
    <3>1. Decided(txn[t])
      BY OfOne
    <3>2. Settling(txn[t]) => Settling(txn[t])'
      BY <1>1, <1>p DEF Settling, Confirming, Completing
    <3> QED BY <3>1, <3>2, <1>1 DEF Decided, TxnRests, Early, SettlingOrder, SettlingDeposit
  <2> QED BY <2>1 DEF DecisionsHold
<1>6. WalletPaymentsAreNew'
  BY <1>1, <1>p, StatementsAssumption DEF StatementsInv, WalletPaymentsAreNew
<1> QED BY <1>2, <1>3, <1>4, <1>5, <1>6 DEF StatementsInv

LEMMA CancelOrderStep ==
  ASSUME StatementsInv, NEW o \in Orders, CancelOrder(o)
  PROVE  StatementsInv'
<1>1. /\ UNCHANGED <<paid, granted, rows, txn>>
      /\ placed' = [placed EXCEPT ![o] = "CANCELLED"]
      /\ \A t \in Transactions : <<"order", o>> \notin txn[t].held
  BY DEF CancelOrder
<1>o. placed'[o] = "CANCELLED" /\ \A q \in Orders : q # o => placed'[q] = placed[q]
  BY <1>1 DEF StatementsInv, StatementsShape
<1>2. StatementsShape'
  <2>1. \A t \in Transactions : IsTransaction(txn[t])'
    BY <1>1 DEF StatementsInv, StatementsShape, IsTransaction
  <2> QED BY <1>1, <2>1 DEF StatementsInv, StatementsShape
<1>3. LocksExclude' /\ WalletPaymentsAreOwned' /\ WalletPaymentsAreNew'
  BY <1>1 DEF StatementsInv, LocksExclude, WalletPaymentsAreOwned, WalletPaymentsAreNew
<1>4. GrantsFollowOrders'
  BY <1>1, <1>o DEF StatementsInv, GrantsFollowOrders
<1>5. ConfirmedIsServed' /\ DepositsAreConfirmed'
  BY <1>1, <1>o, StatementsAssumption DEF StatementsInv, ConfirmedIsServed, DepositsAreConfirmed
<1>6. DecisionsHold'
  <2>1. ASSUME NEW t \in Transactions PROVE Decided(txn[t])'
    <3>1. Decided(txn[t])
      BY OfOne
    <3>2. txn[t].payment \in Payments /\ OrderOf[txn[t].payment] # NoOrder =>
            OrderOf[txn[t].payment] \in Orders
      BY StatementsAssumption
    <3>3. Settling(txn[t]) => Settling(txn[t])'
      BY <1>1, <1>o, <3>2 DEF Settling, Confirming, Completing
    <3>4. SettlingOrder(txn[t]) => SettlingOrder(txn[t])'
      BY <1>1, <1>o, <3>2, <3>3 DEF SettlingOrder, Settling
    <3> QED BY <3>1, <3>3, <3>4, <1>1 DEF Decided, TxnRests, Early, SettlingDeposit
  <2> QED BY <2>1 DEF DecisionsHold
<1> QED BY <1>2, <1>3, <1>4, <1>5, <1>6 DEF StatementsInv

-----------------------------------------------------------------------------
(* A commit.                                                               *)

\* What it changes: its payment is then confirmed, the order of one that
\* completes too, and the rows of a deposit are those of its payment.
CommitsRows(t) ==
  LET p == txn[t].payment  o == OrderOf[txn[t].payment]
  IN  /\ p \in Payments /\ paid'[p] = "CONFIRMED"
      /\ \A q \in Payments : q # p => paid'[q] = paid[q]
      /\ ~txn[t].confirms => paid[p] = "CONFIRMED"
      /\ IF txn[t].completes
         THEN /\ o \in Orders /\ txn[t].confirms
              /\ placed[o] = "PENDING" /\ <<"order", o>> \in txn[t].held
              /\ placed'[o] = "COMPLETED" /\ granted'[o] = 1
              /\ \A q \in Orders : q # o => placed'[q] = placed[q] /\ granted'[q] = granted[q]
         ELSE UNCHANGED <<placed, granted>>
      /\ o # NoOrder => o \in Orders /\ granted'[o] = 1
      /\ rows' = rows \cup txn[t].new
      /\ \A r \in txn[t].new : r.kind = "DEPOSIT" =>
           o = NoOrder /\ txn[t].confirms /\ r = DepositOf(p)
      /\ o = NoOrder => DepositOf(p) \in rows'

LEMMA CommitEffect ==
  ASSUME StatementsInv, NEW t \in Transactions, Commit(t)
  PROVE  /\ txn'[t] = NoTransaction /\ txn' = [s \in Transactions |-> txn'[s]]
         /\ \A s \in Transactions : s # t => txn'[s] = txn[s]
         /\ paid' \in [Payments -> {"NONE", "PENDING", "CONFIRMED", "REJECTED"}]
         /\ placed' \in [Orders -> {"PENDING", "COMPLETED", "CANCELLED"}]
         /\ granted' \in [Orders -> Nat]
         /\ CommitsRows(t)
<1> DEFINE p == txn[t].payment
           o == OrderOf[txn[t].payment]
<1>c. txn[t].at = "commit" /\ (SettlingOrder(txn[t]) \/ SettlingDeposit(txn[t]))
  BY OfOne DEF Commit
<1>s. Settling(txn[t]) /\ p \in Payments
  BY <1>c DEF SettlingOrder, SettlingDeposit, Settling
<1>o. o # NoOrder => o \in Orders
  BY <1>s, StatementsAssumption
<1>1. /\ txn'[t] = NoTransaction /\ txn' = [s \in Transactions |-> txn'[s]]
      /\ \A s \in Transactions : s # t => txn'[s] = txn[s]
  BY Locals DEF Commit
<1>2. /\ paid' \in [Payments -> {"NONE", "PENDING", "CONFIRMED", "REJECTED"}]
      /\ paid'[p] = "CONFIRMED" /\ \A q \in Payments : q # p => paid'[q] = paid[q]
      /\ ~txn[t].confirms => paid[p] = "CONFIRMED"
  <2>1. paid \in [Payments -> {"NONE", "PENDING", "CONFIRMED", "REJECTED"}]
    BY DEF StatementsInv, StatementsShape
  <2>2. CASE txn[t].confirms
    BY <2>1, <2>2, <1>s DEF Commit, PaymentOf
  <2>3. CASE ~txn[t].confirms
    BY <2>1, <2>3, <1>s DEF Commit, Settling
  <2> QED BY <2>2, <2>3
<1>3. CASE txn[t].completes
  <2>1. /\ o \in Orders /\ txn[t].confirms /\ placed[o] = "PENDING"
        /\ <<"order", o>> \in txn[t].held
    BY <1>3, <1>s, <1>o DEF Settling, Completing
  <2>2. /\ placed \in [Orders -> {"PENDING", "COMPLETED", "CANCELLED"}]
        /\ granted \in [Orders -> Nat] /\ granted[o] = 0
    BY <2>1 DEF StatementsInv, StatementsShape, GrantsFollowOrders
  <2>3. /\ placed' = [placed EXCEPT ![o] = "COMPLETED"]
        /\ granted' = [granted EXCEPT ![o] = @ + 1]
    BY <1>3 DEF Commit, OrderFor
  <2>4. /\ placed' \in [Orders -> {"PENDING", "COMPLETED", "CANCELLED"}]
        /\ granted' \in [Orders -> Nat]
        /\ placed'[o] = "COMPLETED" /\ granted'[o] = 1
        /\ \A q \in Orders : q # o => placed'[q] = placed[q] /\ granted'[q] = granted[q]
    BY <2>1, <2>2, <2>3
  <2>5. rows' = rows \cup txn[t].new /\ o # NoOrder
    BY <1>3, <1>s DEF Commit, Settling, Completing
  <2>6. \A r \in txn[t].new : r.kind # "DEPOSIT"
    BY <1>c, <2>5 DEF SettlingOrder, SettlingDeposit
  <2> QED BY <1>1, <1>2, <1>3, <1>s, <2>1, <2>4, <2>5, <2>6 DEF CommitsRows
<1>4. CASE ~txn[t].completes
  <2>1. UNCHANGED <<placed, granted>> /\ rows' = rows \cup txn[t].new
    BY <1>4 DEF Commit
  <2>2. /\ placed' \in [Orders -> {"PENDING", "COMPLETED", "CANCELLED"}]
        /\ granted' \in [Orders -> Nat]
    BY <2>1 DEF StatementsInv, StatementsShape
  <2>3. CASE SettlingOrder(txn[t])
    <3>1. /\ o # NoOrder /\ granted[o] = 1
          /\ \A r \in txn[t].new : r.kind # "DEPOSIT"
      BY <2>3, <1>4, <1>c DEF SettlingOrder
    <3> QED BY <1>1, <1>2, <1>4, <1>s, <1>o, <2>1, <2>2, <3>1 DEF CommitsRows
  <2>4. CASE SettlingDeposit(txn[t])
    <3>1. o = NoOrder /\ txn[t].new = IF txn[t].confirms THEN {DepositOf(p)} ELSE {}
      BY <2>4, <1>c DEF SettlingDeposit
    <3>2. DepositOf(p) \in rows'
      <4>1. CASE txn[t].confirms
        BY <4>1, <3>1, <2>1
      <4>2. CASE ~txn[t].confirms
        BY <4>2, <3>1, <2>1, <1>2, <1>s DEF StatementsInv, ConfirmedIsServed
      <4> QED BY <4>1, <4>2
    <3>3. \A r \in txn[t].new : txn[t].confirms /\ r = DepositOf(p)
      BY <3>1
    <3> QED BY <1>1, <1>2, <1>4, <1>s, <2>1, <2>2, <3>1, <3>2, <3>3 DEF CommitsRows
  <2> QED BY <1>c, <2>3, <2>4
<1> QED BY <1>3, <1>4

LEMMA CommitStep ==
  ASSUME StatementsInv, NEW t \in Transactions, Commit(t)
  PROVE  StatementsInv'
<1> DEFINE p == txn[t].payment
           o == OrderOf[txn[t].payment]
<1>e. /\ txn'[t] = NoTransaction
      /\ \A s \in Transactions : s # t => txn'[s] = txn[s]
      /\ CommitsRows(t)
  BY CommitEffect
<1>1. StatementsShape'
  <2>1. \A s \in Transactions : IsTransaction(txn[s])'
    BY <1>e, RestingShape DEF StatementsInv, StatementsShape, IsTransaction
  <2> QED BY <2>1, CommitEffect DEF StatementsShape
<1>2. LocksExclude'
  BY <1>e DEF StatementsInv, LocksExclude, NoTransaction
<1>3. GrantsFollowOrders'
  BY <1>e DEF CommitsRows, StatementsInv, GrantsFollowOrders
<1>4. ConfirmedIsServed'
  <2>1. \A q \in Orders : granted[q] = 1 => granted'[q] = 1
    BY <1>e DEF CommitsRows
  <2>2. ASSUME NEW q \in Payments, paid'[q] = "CONFIRMED"
        PROVE  IF OrderOf[q] = NoOrder THEN DepositOf(q) \in rows'
               ELSE granted'[OrderOf[q]] = 1
    <3>1. CASE q = p
      BY <3>1, <1>e DEF CommitsRows
    <3>2. CASE q # p
      <4>1. paid[q] = "CONFIRMED"
        BY <3>2, <2>2, <1>e DEF CommitsRows
      <4>2. OrderOf[q] # NoOrder => OrderOf[q] \in Orders
        BY StatementsAssumption
      <4> QED BY <4>1, <4>2, <2>1, <1>e DEF CommitsRows, StatementsInv, ConfirmedIsServed
    <3> QED BY <3>1, <3>2
  <2> QED BY <2>2 DEF ConfirmedIsServed, DepositOf
<1>5. DepositsAreConfirmed'
  BY <1>e DEF CommitsRows, StatementsInv, DepositsAreConfirmed, DepositOf
<1>6. DecisionsHold'
  <2>1. ASSUME NEW s \in Transactions, s # t PROVE Decided(txn[s])'
    <3>1. Decided(txn[s]) /\ txn'[s] = txn[s] /\ txn[s].held \cap txn[t].held = {}
      BY <1>e, <2>1, OfOne
    <3>2. txn[s].payment \in Payments /\ OrderOf[txn[s].payment] # NoOrder =>
            OrderOf[txn[s].payment] \in Orders
      BY StatementsAssumption
    \* Had t confirmed the payment of s, s would not hold it.
    <3>3. Settling(txn[s]) /\ txn[s].confirms => paid'[txn[s].payment] = paid[txn[s].payment]
      <4>1. SUFFICES ASSUME Settling(txn[s]), txn[s].confirms, txn[s].payment = p, txn[t].confirms
                     PROVE  FALSE
        BY <1>e, CommitEffect DEF CommitsRows, Settling, Confirming, StatementsInv, StatementsShape
      <4>2. p \notin ByWallet
        BY <2>1, <4>1 DEF StatementsInv, WalletPaymentsAreOwned
      <4>3. <<"payment", p>> \in txn[s].held
        BY <4>1, <4>2 DEF Settling, Confirming
      <4>4. Settling(txn[t])
        BY OfOne DEF Commit, SettlingOrder, SettlingDeposit
      <4>5. <<"payment", p>> \in txn[t].held
        BY <4>1, <4>2, <4>4 DEF Settling, Confirming
      <4> QED BY <4>3, <4>5, <3>1
    <3>4. Settling(txn[s]) => Settling(txn[s])'
      BY <3>1, <3>2, <3>3, <1>e DEF Settling, Confirming, Completing, CommitsRows
    <3>5. SettlingOrder(txn[s]) => SettlingOrder(txn[s])'
      BY <3>1, <3>2, <3>4, <1>e DEF SettlingOrder, Settling, CommitsRows
    <3> QED BY <3>1, <3>4, <3>5 DEF Decided, TxnRests, Early, SettlingDeposit
  <2>2. Decided(txn'[t])
    BY <1>e, RestingShape DEF Decided
  <2>3. Decided(txn[t])'
    BY <1>e, <2>2 DEF Decided, TxnRests, NoTransaction
  <2> QED BY <2>1, <2>3 DEF DecisionsHold
<1>7. WalletPaymentsAreOwned'
  BY <1>e, StatementsAssumption DEF StatementsInv, WalletPaymentsAreOwned, NoTransaction
<1>8. WalletPaymentsAreNew'
  BY <1>e, StatementsAssumption
     DEF CommitsRows, StatementsInv, WalletPaymentsAreNew, WalletPaymentsAreOwned, NoTransaction
<1> QED BY <1>1, <1>2, <1>3, <1>4, <1>5, <1>6, <1>7, <1>8 DEF StatementsInv
-----------------------------------------------------------------------------
(* Every step.                                                             *)

LEMMA StatementsStep == StatementsInv /\ [StatementsNext]_statementVars => StatementsInv'
<1> SUFFICES ASSUME StatementsInv, [StatementsNext]_statementVars PROVE StatementsInv'
  OBVIOUS
<1>1. ASSUME NEW t \in Transactions, NEW p \in Payments,
             StartSettlement(t, p) \/ StartWalletPayment(t, p)
      PROVE  StatementsInv'
  BY <1>1, StartSettlementStep, StartWalletPaymentStep
<1>2. ASSUME NEW t \in Transactions, ReadPayment(t) \/ ClaimPayment(t) \/ DebitWallet(t)
      PROVE  StatementsInv'
  BY <1>2, ReadPaymentStep, ClaimPaymentStep, DebitWalletStep
<1>3. ASSUME NEW t \in Transactions, ReadOrder(t) \/ CompleteOrder(t) \/ SumRewards(t)
      PROVE  StatementsInv'
  BY <1>3, ReadOrderStep, CompleteOrderStep, SumRewardsStep
<1>4. ASSUME NEW t \in Transactions, IncrementWallet(t) \/ CreditWallet(t)
      PROVE  StatementsInv'
  BY <1>4, IncrementWalletStep, CreditWalletStep
<1>5. ASSUME NEW t \in Transactions, Commit(t)
      PROVE  StatementsInv'
  BY <1>5, CommitStep
<1>6. ASSUME NEW t \in Transactions, RollBack(t)
      PROVE  StatementsInv'
  BY <1>6, GiveUpStep DEF RollBack
<1>7. ASSUME NEW p \in Payments, RefusePayment(p)
      PROVE  StatementsInv'
  BY <1>7, RefusePaymentStep
<1>8. ASSUME NEW o \in Orders, CancelOrder(o)
      PROVE  StatementsInv'
  BY <1>8, CancelOrderStep
<1>9. CASE UNCHANGED statementVars
  <2>1. UNCHANGED <<paid, placed, granted, rows, txn>>
    BY <1>9 DEF statementVars
  <2>2. /\ StatementsShape' /\ LocksExclude' /\ GrantsFollowOrders'
        /\ ConfirmedIsServed' /\ DepositsAreConfirmed'
    BY <2>1 DEF StatementsInv, StatementsShape, LocksExclude, GrantsFollowOrders,
                ConfirmedIsServed, DepositsAreConfirmed, IsTransaction
  <2>3. DecisionsHold' /\ WalletPaymentsAreOwned' /\ WalletPaymentsAreNew'
    BY <2>1 DEF StatementsInv, DecisionsHold, Decided, TxnRests, Early, SettlingOrder,
                SettlingDeposit, Settling, Confirming, Completing,
                WalletPaymentsAreOwned, WalletPaymentsAreNew
  <2> QED BY <2>2, <2>3 DEF StatementsInv
<1> QED BY <1>1, <1>2, <1>3, <1>4, <1>5, <1>6, <1>7, <1>8, <1>9 DEF StatementsNext

\* Whatever overlaps and is rolled back, what a transaction decided still
\* holds when it commits, and what is confirmed was served.
THEOREM StatementsHold == StatementsSpec => []StatementsInv
<1> QED BY StatementsInitially, StatementsStep, PTL DEF StatementsSpec

-----------------------------------------------------------------------------
(* The refinement.                                                         *)

\* What PaidFulfilment sees of a state.
PurposeOf(p) == IF paid[p] # "CONFIRMED" THEN Unsettled
                ELSE IF OrderOf[p] = NoOrder THEN TopUp ELSE OrderOf[p]
Purpose == [p \in Payments |-> PurposeOf(p)]
Credited == {p \in Payments : \E r \in rows : r.kind = "DEPOSIT" /\ r.payment = p}

LEMMA StatementsNextCases ==
  ASSUME StatementsInv, [StatementsNext]_statementVars
  PROVE  \/ \E t \in Transactions : Commit(t)
         \/ /\ UNCHANGED <<granted, rows>>
            /\ \A p \in Payments : paid'[p] = "CONFIRMED" <=> paid[p] = "CONFIRMED"
<1>1. ASSUME NEW t \in Transactions, NEW p \in Payments,
             StartSettlement(t, p) \/ StartWalletPayment(t, p)
      PROVE  UNCHANGED <<granted, rows, paid>>
  BY <1>1 DEF StartSettlement, StartWalletPayment, Committed
<1>2. ASSUME NEW t \in Transactions,
             \/ ReadPayment(t) \/ ClaimPayment(t) \/ DebitWallet(t) \/ ReadOrder(t)
             \/ CompleteOrder(t) \/ SumRewards(t) \/ IncrementWallet(t) \/ CreditWallet(t)
             \/ RollBack(t)
      PROVE  UNCHANGED <<granted, rows, paid>>
  BY <1>2 DEF ReadPayment, ClaimPayment, DebitWallet, ReadOrder, CompleteOrder, SumRewards,
              IncrementWallet, CreditWallet, RollBack, Committed
<1>3. ASSUME NEW p \in Payments, RefusePayment(p)
      PROVE  /\ UNCHANGED <<granted, rows>>
             /\ \A q \in Payments : paid'[q] = "CONFIRMED" <=> paid[q] = "CONFIRMED"
  BY <1>3 DEF RefusePayment, StatementsInv, StatementsShape
<1>4. ASSUME NEW o \in Orders, CancelOrder(o)
      PROVE  UNCHANGED <<granted, rows, paid>>
  BY <1>4 DEF CancelOrder
<1>5. ASSUME UNCHANGED statementVars
      PROVE  UNCHANGED <<granted, rows, paid>>
  BY <1>5 DEF statementVars
<1> QED BY <1>1, <1>2, <1>3, <1>4, <1>5 DEF StatementsNext

\* A commit settles its payment, or finds it settled.
LEMMA CommitSettles ==
  ASSUME StatementsInv, NEW t \in Transactions, Commit(t)
  PROVE  \/ UNCHANGED <<Purpose, granted, Credited>>
         \/ \E p \in Payments, o \in Orders :
              /\ Purpose[p] = Unsettled /\ Purpose' = [Purpose EXCEPT ![p] = o]
              /\ granted' = [granted EXCEPT ![o] = 1] /\ UNCHANGED Credited
         \/ \E p \in Payments :
              /\ Purpose[p] = Unsettled /\ Purpose' = [Purpose EXCEPT ![p] = TopUp]
              /\ Credited' = Credited \cup {p} /\ UNCHANGED granted
<1>p. PICK p \in Payments : p = txn[t].payment
  BY CommitEffect DEF CommitsRows
<1> DEFINE o == OrderOf[p]
<1>e. CommitsRows(t)
  BY CommitEffect
<1>g. granted \in [Orders -> Nat] /\ granted' \in [Orders -> Nat]
  BY CommitEffect DEF StatementsInv, StatementsShape
<1>1. CASE paid[p] = "CONFIRMED"
  <2>1. \A q \in Payments : PurposeOf(q)' = PurposeOf(q)
    BY <1>1, <1>e, <1>p DEF CommitsRows, PurposeOf
  <2>2. UNCHANGED Purpose
    BY <2>1 DEF Purpose
  <2>3. ~txn[t].confirms
    <3>1. Settling(txn[t])
      BY OfOne DEF Commit, SettlingOrder, SettlingDeposit
    <3> QED BY <3>1, <1>1, <1>p DEF Settling, Confirming
  <2>4. UNCHANGED granted
    BY <2>3, <1>e, <1>p DEF CommitsRows
  <2>5. \A r \in txn[t].new : r.kind # "DEPOSIT"
    BY <2>3, <1>e, <1>p DEF CommitsRows
  <2>6. UNCHANGED Credited
    BY <2>5, <1>e, <1>p DEF CommitsRows, Credited
  <2> QED BY <2>2, <2>4, <2>6
<1>2. CASE paid[p] # "CONFIRMED"
  <2>1. /\ PurposeOf(p) = Unsettled
        /\ PurposeOf(p)' = IF o = NoOrder THEN TopUp ELSE o
        /\ \A q \in Payments : q # p => PurposeOf(q)' = PurposeOf(q)
    BY <1>2, <1>e, <1>p DEF CommitsRows, PurposeOf
  <2>2. Purpose[p] = Unsettled
    BY <2>1, <1>e, <1>p DEF Purpose
  <2>3. CASE o # NoOrder
    <3>1. o \in Orders /\ granted'[o] = 1
      BY <2>3, <1>e, <1>p DEF CommitsRows
    <3>2. Purpose' = [Purpose EXCEPT ![p] = o]
      <4>1. \A q \in Payments : PurposeOf(q)' = IF q = p THEN o ELSE PurposeOf(q)
        BY <2>1, <2>3
      <4> QED BY <4>1 DEF Purpose
    <3>3. granted'[o] = 1 /\ \A q \in Orders : q # o => granted'[q] = granted[q]
      <4>1. CASE txn[t].completes
        BY <4>1, <1>e, <1>p DEF CommitsRows
      <4>2. CASE ~txn[t].completes
        BY <4>2, <3>1, <1>e, <1>p DEF CommitsRows, StatementsInv, GrantsFollowOrders
      <4> QED BY <4>1, <4>2
    <3>4. granted' = [granted EXCEPT ![o] = 1]
      BY <3>3, <3>1, <1>g
    <3>5. \A r \in txn[t].new : r.kind # "DEPOSIT"
      BY <2>3, <1>e, <1>p DEF CommitsRows
    <3>6. UNCHANGED Credited
      BY <3>5, <1>e, <1>p DEF CommitsRows, Credited
    <3> QED BY <3>1, <3>2, <3>4, <3>6, <2>2, <1>e, <1>p
  <2>4. CASE o = NoOrder
    <3>1. Purpose' = [Purpose EXCEPT ![p] = TopUp]
      <4>1. \A q \in Payments : PurposeOf(q)' = IF q = p THEN TopUp ELSE PurposeOf(q)
        BY <2>1, <2>4
      <4> QED BY <4>1 DEF Purpose
    <3>2. UNCHANGED granted
      BY <2>4, <1>e, <1>p, StatementsAssumption DEF CommitsRows
    <3>3. DepositOf(p) \in rows' /\ rows' = rows \cup txn[t].new
          /\ \A r \in txn[t].new : r.kind = "DEPOSIT" => r = DepositOf(p)
      BY <2>4, <1>e, <1>p DEF CommitsRows
    <3>4. DepositOf(p).kind = "DEPOSIT" /\ DepositOf(p).payment = p
      BY DEF DepositOf
    <3>5. Credited' = Credited \cup {p}
      BY <3>3, <3>4, <1>e, <1>p DEF Credited
    <3> QED BY <3>1, <3>2, <3>5, <2>2, <1>e, <1>p
  <2> QED BY <2>3, <2>4
<1> QED BY <1>1, <1>2

\* The statements, in whatever order they are carried out and whichever
\* transactions are rolled back, settle a payment once and grant an order at
\* most once, as PaidFulfilment promises.
THEOREM StatementsImplementPaidFulfilment == StatementsSpec => StatementsRefinePaidFulfilment
<1>1. StatementsInit => Promised!Init
  <2> SUFFICES ASSUME StatementsInit PROVE Promised!Init
    OBVIOUS
  <2>1. \A p \in Payments : paid[p] # "CONFIRMED"
    BY DEF StatementsInit
  <2>2. Credited = {}
    BY DEF StatementsInit, Credited
  <2> QED BY <2>1, <2>2 DEF StatementsInit, Promised!Init, Credited
<1>2. ASSUME StatementsInv, [StatementsNext]_statementVars
      PROVE  [Promised!Next]_(Promised!vars)
  <2>1. CASE \E t \in Transactions : Commit(t)
    <3>1. CASE UNCHANGED <<Purpose, granted, Credited>>
      BY <3>1 DEF Promised!vars, Purpose, PurposeOf, Credited
    <3>2. ASSUME NEW p \in Payments, NEW o \in Orders,
                 Purpose[p] = Unsettled, Purpose' = [Purpose EXCEPT ![p] = o],
                 granted' = [granted EXCEPT ![o] = 1], UNCHANGED Credited
          PROVE  Promised!Next
      BY <3>2 DEF Promised!Next, Promised!SettleOrder, Purpose, PurposeOf, Credited
    <3>3. ASSUME NEW p \in Payments,
                 Purpose[p] = Unsettled, Purpose' = [Purpose EXCEPT ![p] = TopUp],
                 Credited' = Credited \cup {p}, UNCHANGED granted
          PROVE  Promised!Next
      BY <3>3 DEF Promised!Next, Promised!SettleTopUp, Purpose, PurposeOf, Credited
    <3> QED BY <1>2, <2>1, <3>1, <3>2, <3>3, CommitSettles
  <2>2. CASE /\ UNCHANGED <<granted, rows>>
             /\ \A p \in Payments : paid'[p] = "CONFIRMED" <=> paid[p] = "CONFIRMED"
    BY <2>2 DEF Promised!vars
  <2> QED BY <1>2, <2>1, <2>2, StatementsNextCases
<1> QED
  BY <1>1, <1>2, StatementsHold, PTL
     DEF StatementsSpec, StatementsRefinePaidFulfilment, Promised!Spec

-----------------------------------------------------------------------------
(* Sums over ledger rows.                                                  *)

\* The amounts of a set of ledger rows, and what StatementsKeepLedger adds up.
AmountsOf(S) == [r \in S |-> r.amount]
Balance(S) == SumOver(AmountsOf(S), S)

LEMMA RowSum ==
  ASSUME NEW S, IsFiniteSet(S)
  PROVE  MapThenSumSet(LAMBDA r : r.amount, S) = Balance(S)
<1> DEFINE Plain(g) ==
      g = [s \in SUBSET S |-> IF s = {} THEN 0 ELSE Pick(s).amount + g[s \ {Pick(s)}]]
<1>1. ASSUME NEW g PROVE Plain(g) <=> Adds(g, AmountsOf(S), S)
  <2>1. \A s \in SUBSET S : s # {} => AmountsOf(S)[Pick(s)] = Pick(s).amount
    BY PickIn DEF AmountsOf
  <2>2. \A s \in SUBSET S :
          (IF s = {} THEN 0 ELSE Pick(s).amount + g[s \ {Pick(s)}]) =
          (IF s = {} THEN 0 ELSE AmountsOf(S)[Pick(s)] + g[s \ {Pick(s)}])
    BY <2>1
  <2> QED BY <2>2 DEF Adds
<1>2. PICK h : Adds(h, AmountsOf(S), S) /\ Balance(S) = h[S]
  BY SumAdds DEF Balance
<1>3. \E g : Plain(g)
  BY <1>1, <1>2
<1>4. MapThenSumSet(LAMBDA r : r.amount, S) = (CHOOSE g : Plain(g))[S]
  BY DEF MapThenSumSet, MapThenFoldSet, Pick
<1> DEFINE k == CHOOSE g : Plain(g)
<1>5. Plain(k)
  BY <1>3
<1> HIDE DEF k
<1>6. Adds(k, AmountsOf(S), S)
  BY <1>1, <1>5
<1>7. k[S] = h[S]
  BY <1>2, <1>6, SumsAgree
<1> QED BY <1>2, <1>4, <1>7 DEF k

LEMMA BalanceType ==
  ASSUME NEW S, IsFiniteSet(S), \A r \in S : r.amount \in Int
  PROVE  Balance(S) \in Int
<1>1. \A r \in S : AmountsOf(S)[r] \in Int
  BY DEF AmountsOf
<1> QED BY <1>1, SumType DEF Balance

LEMMA BalanceOfNone == Balance({}) = 0
BY SumOfNone DEF Balance

LEMMA BalanceOfOneMore ==
  ASSUME NEW S, IsFiniteSet(S), NEW x, x \notin S, \A r \in S \cup {x} : r.amount \in Int
  PROVE  Balance(S \cup {x}) = Balance(S) + x.amount
<1> DEFINE f == AmountsOf(S \cup {x})
<1>1. \A r \in S : f[r] = AmountsOf(S)[r]
  BY DEF AmountsOf
<1>2. (\A r \in S \cup {x} : f[r] \in Int) /\ f[x] = x.amount
  BY DEF AmountsOf
<1> HIDE DEF f
<1>3. SumOver(f, S \cup {x}) = SumOver(f, S) + f[x]
  BY <1>2, SumOfOneMore
<1>4. SumOver(f, S) = SumOver(AmountsOf(S), S)
  BY <1>1, SumSame
<1> QED BY <1>2, <1>3, <1>4 DEF Balance, f

LEMMA BalanceOfOne ==
  ASSUME NEW r, r.amount \in Int
  PROVE  Balance({r}) = r.amount
<1>1. Balance({} \cup {r}) = Balance({}) + r.amount
  BY BalanceOfOneMore, FS_EmptySet
<1>2. {} \cup {r} = {r}
  OBVIOUS
<1> QED BY <1>1, <1>2, BalanceOfNone

-----------------------------------------------------------------------------
(* The ledger: its inductive invariant.                                    *)

Of(S, u) == {r \in S : r.user = u}

\* The committed rows: each is of something that was paid, and they add up.
RowsAddUp ==
  /\ IsFiniteSet(rows)
  /\ \A r \in rows :
       /\ r.amount \in Int
       /\ r.kind = "PURCHASE" => r.payment \in Payments /\ paid[r.payment] = "CONFIRMED"
       /\ r.kind = "REFERRAL_REWARD" =>
            OrderOf[r.payment] \in Orders /\ granted[OrderOf[r.payment]] = 1
  /\ \A u \in Users : purse[u] \in Int /\ purse[u] = Opening + Balance(Of(rows, u))

\* A row transaction m will write. Of the payer's wallet it holds the lock and
\* the balance; of the referrer's it takes the lock before it commits.
PayerRow(m, r) ==
  /\ r.kind \in {"PURCHASE", "DEPOSIT"} /\ r.user = Payer[m.payment] /\ m.confirms
  /\ <<"wallet", r.user>> \in m.held /\ m.read = purse[r.user]
RewardRow(m, r) ==
  /\ r.kind = "REFERRAL_REWARD" /\ r.user = Referrer[Payer[m.payment]] /\ m.completes
  /\ m.at \in {"increment", "commit"}
  /\ m.at = "commit" => <<"wallet", r.user>> \in m.held
NewRow(m, r) ==
  /\ r.amount \in Int /\ r.user \in Users /\ r.payment = m.payment
  /\ PayerRow(m, r) \/ RewardRow(m, r)
NewRows(m) ==
  /\ IsFiniteSet(m.new)
  /\ \A r \in m.new : NewRow(m, r)
  /\ \A q, r \in m.new : q.user = r.user => q = r

LedgerInv == RowsAddUp /\ \A t \in Transactions : NewRows(txn[t])

LEMMA NoNewRows == ASSUME NEW m, m.new = {} PROVE NewRows(m)
BY FS_EmptySet DEF NewRows

LEMMA LedgerStart == StatementsInit => LedgerInv
<1> SUFFICES ASSUME StatementsInit PROVE LedgerInv
  OBVIOUS
<1>1. rows = {} /\ \A u \in Users : purse[u] = Opening /\ Of(rows, u) = {}
  BY DEF StatementsInit, Of
<1>2. RowsAddUp
  BY <1>1, FS_EmptySet, BalanceOfNone, StatementsAssumption DEF RowsAddUp
<1>3. \A t \in Transactions : txn[t].new = {}
  BY DEF StatementsInit, NoTransaction
<1> QED BY <1>2, <1>3, NoNewRows DEF LedgerInv

\* A step inside transaction t.
LEMMA LedgerInside ==
  ASSUME LedgerInv, NEW t \in Transactions, Moves(t), NewRows(txn'[t])
  PROVE  LedgerInv'
<1>1. RowsAddUp'
  BY DEF Moves, Committed, LedgerInv, RowsAddUp
<1>2. ASSUME NEW s \in Transactions PROVE NewRows(txn[s])'
  <2>1. NewRows(txn'[s])
    BY DEF Moves, LedgerInv
  <2> QED BY <2>1 DEF NewRows, NewRow, PayerRow, RewardRow, Moves, Committed
<1> QED BY <1>1, <1>2 DEF LedgerInv

\* t adds no row, and lets go of none of its locks.
LEMMA SameRows ==
  ASSUME StatementsInv, LedgerInv, NEW t \in Transactions, Moves(t),
         txn[t].at \notin {"increment", "commit"},
         txn'[t].new = txn[t].new, txn'[t].payment = txn[t].payment,
         txn[t].held \subseteq txn'[t].held, txn'[t].read = txn[t].read,
         txn'[t].confirms = txn[t].confirms
  PROVE  LedgerInv'
<1>1. NewRows(txn[t])
  BY DEF LedgerInv
<1>2. \A r \in txn[t].new : NewRow(txn'[t], r)
  BY <1>1 DEF NewRows, NewRow, PayerRow, RewardRow
<1>3. NewRows(txn'[t])
  BY <1>1, <1>2 DEF NewRows
<1> QED BY <1>3, LedgerInside

LEMMA LedgerGiveUp ==
  ASSUME StatementsInv, LedgerInv, NEW t \in Transactions, GiveUp(t), UNCHANGED Committed
  PROVE  LedgerInv'
<1>1. txn'[t] = NoTransaction /\ Moves(t)
  BY Locals, RestingShape DEF GiveUp, Moves
<1>2. txn'[t].new = {}
  BY <1>1 DEF NoTransaction
<1> QED BY <1>1, <1>2, NoNewRows, LedgerInside

LEMMA LedgerBegins ==
  ASSUME StatementsInv, LedgerInv, NEW t \in Transactions, NEW p \in Payments,
         StartSettlement(t, p) \/ StartWalletPayment(t, p)
  PROVE  LedgerInv'
<1>1. TxnRests(txn[t]) /\ IsTransaction(txn[t])
  BY OfOne DEF StartSettlement, StartWalletPayment
<1>2. Moves(t) /\ txn'[t].new = txn[t].new
  <2>1. CASE StartSettlement(t, p)
    BY <1>1, <2>1, Locals DEF StartSettlement, Moves, IsTransaction
  <2>2. CASE StartWalletPayment(t, p)
    BY <1>1, <2>2, Locals DEF StartWalletPayment, Moves, IsTransaction
  <2> QED BY <2>1, <2>2
<1> QED BY <1>1, <1>2, NoNewRows, LedgerInside DEF TxnRests

LEMMA LedgerReadsPayment ==
  ASSUME StatementsInv, LedgerInv, NEW t \in Transactions, ReadPayment(t) \/ ClaimPayment(t)
  PROVE  LedgerInv'
<1>1. Early(txn[t]) /\ IsTransaction(txn[t])
  BY OfOne DEF ReadPayment, ClaimPayment
<1>2. CASE GiveUp(t) /\ UNCHANGED Committed
  BY <1>2, LedgerGiveUp
<1>3. CASE ~GiveUp(t)
  <2>1. Moves(t) /\ txn'[t].new = txn[t].new
    <3>1. CASE ReadPayment(t)
      BY <1>1, <3>1, Locals DEF ReadPayment, Moves, IsTransaction
    <3>2. CASE ClaimPayment(t) /\ paid[PaymentOf(t)] = "PENDING"
      <4> DEFINE m == [txn[t] EXCEPT !.at = WhatIsPaid(t), !.confirms = TRUE,
                         !.held = txn[t].held \cup {<<"payment", PaymentOf(t)>>}]
      <4>1. IsTransaction(m) /\ m.new = txn[t].new
        BY <1>1 DEF IsTransaction
      <4>2. txn' = [txn EXCEPT ![t] = m] /\ UNCHANGED Committed
        BY <3>2 DEF ClaimPayment
      <4> HIDE DEF m
      <4> QED BY <4>1, <4>2, MovesTo
    <3>3. CASE ClaimPayment(t) /\ paid[PaymentOf(t)] = "CONFIRMED"
      BY <1>1, <3>3, Locals DEF ClaimPayment, Moves, IsTransaction
    <3> QED BY <1>3, <3>1, <3>2, <3>3 DEF ClaimPayment
  <2> QED BY <1>1, <2>1, NoNewRows, LedgerInside DEF Early
<1> QED BY <1>2, <1>3 DEF ReadPayment, ClaimPayment

\* The payer's wallet is locked before its balance is read.
LEMMA LedgerDebits ==
  ASSUME StatementsInv, LedgerInv, NEW t \in Transactions, DebitWallet(t)
  PROVE  LedgerInv'
<1>o. Early(txn[t]) /\ IsTransaction(txn[t])
  BY OfOne DEF DebitWallet
<1>1. CASE Funded(t)
  <2>1. /\ Moves(t) /\ txn'[t].payment = txn[t].payment
        /\ <<"wallet", Payer[txn[t].payment]>> \in txn'[t].held
        /\ txn'[t].confirms /\ txn'[t].read = purse[Payer[txn[t].payment]]
        /\ txn'[t].new = {Purchase(t)}
    <3> DEFINE m == [txn[t] EXCEPT !.at = "order", !.confirms = TRUE,
                  !.read = purse[Payer[PaymentOf(t)]], !.new = {Purchase(t)},
                  !.held = txn[t].held \cup {<<"wallet", Payer[PaymentOf(t)]>>}]
    <3>1. /\ IsTransaction(m) /\ m.payment = txn[t].payment
          /\ m.held = txn[t].held \cup {<<"wallet", Payer[PaymentOf(t)]>>}
          /\ m.confirms = TRUE /\ m.read = purse[Payer[PaymentOf(t)]]
          /\ m.new = {Purchase(t)}
      BY <1>o DEF IsTransaction
    <3>2. txn' = [txn EXCEPT ![t] = m] /\ UNCHANGED Committed
      BY <1>1 DEF DebitWallet, Debited
    <3> HIDE DEF m
    <3> QED BY <3>1, <3>2, MovesTo DEF PaymentOf
  <2> DEFINE r == Purchase(t)
  <2>2. /\ r.user = Payer[txn[t].payment] /\ r.kind = "PURCHASE"
        /\ r.payment = txn[t].payment /\ r.amount = -Amount[txn[t].payment]
    BY DEF Purchase, PaymentOf
  <2> HIDE DEF r
  <2>3. r.amount \in Int /\ r.user \in Users
    BY <2>2, <1>o, StatementsAssumption DEF Early
  <2>4. NewRow(txn'[t], r)
    BY <2>1, <2>2, <2>3 DEF NewRow, PayerRow
  <2>5. NewRows(txn'[t])
    BY <2>1, <2>4, FS_Singleton DEF NewRows, r
  <2> QED BY <2>1, <2>5, LedgerInside
<1>2. CASE ~Funded(t)
  BY <1>2, LedgerGiveUp DEF DebitWallet, Debited
<1> QED BY <1>1, <1>2

LEMMA LedgerOrder ==
  ASSUME StatementsInv, LedgerInv, NEW t \in Transactions, ReadOrder(t) \/ CompleteOrder(t)
  PROVE  LedgerInv'
<1>o. IsTransaction(txn[t]) /\ txn[t].at \in {"order", "complete"}
  BY OfOne DEF ReadOrder, CompleteOrder
<1>1. CASE GiveUp(t) /\ UNCHANGED Committed
  BY <1>1, LedgerGiveUp
<1>2. CASE ~GiveUp(t)
  <2>1. /\ Moves(t) /\ txn'[t].new = txn[t].new /\ txn'[t].payment = txn[t].payment
        /\ txn[t].held \subseteq txn'[t].held /\ txn'[t].read = txn[t].read
        /\ txn'[t].confirms = txn[t].confirms
    <3>1. CASE ReadOrder(t)
      BY <1>o, <3>1, Locals DEF ReadOrder, Moves, IsTransaction
    <3>2. CASE CompleteOrder(t) /\ placed[OrderFor(t)] = "PENDING"
      <4> DEFINE m == [txn[t] EXCEPT !.at = "reward", !.completes = TRUE,
                                !.held = txn[t].held \cup {<<"order", OrderFor(t)>>}]
      <4>1. /\ IsTransaction(m) /\ m.payment = txn[t].payment
            /\ m.held = txn[t].held \cup {<<"order", OrderFor(t)>>}
            /\ m.confirms = txn[t].confirms /\ m.read = txn[t].read
            /\ m.new = txn[t].new
        BY <1>o DEF IsTransaction
      <4>2. txn' = [txn EXCEPT ![t] = m] /\ UNCHANGED Committed
        BY <3>2 DEF CompleteOrder, Completed
      <4> HIDE DEF m
      <4> QED BY <4>1, <4>2, MovesTo
    <3>3. CASE CompleteOrder(t) /\ placed[OrderFor(t)] = "COMPLETED"
      BY <1>o, <3>3, Locals DEF CompleteOrder, Moves, IsTransaction
    <3> QED BY <1>2, <3>1, <3>2, <3>3 DEF CompleteOrder
  <2> QED BY <1>o, <2>1, SameRows
<1> QED BY <1>1, <1>2 DEF ReadOrder, CompleteOrder

\* What is left of the bonus is a number, whatever the sum of the rewards.
LEMMA CommissionType ==
  ASSUME LedgerInv, NEW t \in Transactions, txn[t].payment \in Payments,
         Referrer[Payer[txn[t].payment]] # NoUser
  PROVE  Commission(t) \in Int /\ Referrer[Payer[txn[t].payment]] \in Users
<1> DEFINE u == Referrer[Payer[txn[t].payment]]
           S == {r \in rows : r.user = u /\ r.kind = "REFERRAL_REWARD"}
           due == (Amount[txn[t].payment] * CommissionPercent) \div 100
<1>1. IsFiniteSet(S) /\ \A r \in S : r.amount \in Int
  BY FS_Subset DEF LedgerInv, RowsAddUp
<1>2. Earned(u) \in Int
  <2>1. Earned(u) = Balance(S)
    BY <1>1, RowSum DEF Earned
  <2> HIDE DEF S
  <2> QED BY <1>1, <2>1, BalanceType
<1>3. due \in Int
  <2>1. Amount[txn[t].payment] * CommissionPercent \in Nat
    BY StatementsAssumption
  <2> QED BY <2>1
<1>4. u \in Users /\ MaxBonus \in Nat
  BY StatementsAssumption
<1> HIDE DEF u, due
<1>5. Commission(t) = IF MaxBonus > 0 THEN Smaller(due, MaxBonus - Earned(u)) ELSE due
  BY DEF Commission, PaymentOf, u, due
<1> QED BY <1>2, <1>3, <1>4, <1>5 DEF Smaller, u

LEMMA LedgerRewards ==
  ASSUME StatementsInv, LedgerInv, NEW t \in Transactions, SumRewards(t)
  PROVE  LedgerInv'
<1>o. SettlingOrder(txn[t]) /\ txn[t].at = "reward" /\ IsTransaction(txn[t])
  BY OfOne DEF SumRewards
<1> DEFINE reward == [user |-> Referrer[Payer[PaymentOf(t)]], kind |-> "REFERRAL_REWARD",
                      payment |-> PaymentOf(t), amount |-> Commission(t)]
<1>1. CASE txn' = [txn EXCEPT ![t].at = "commit"]
  <2>1. /\ Moves(t) /\ txn'[t].new = txn[t].new /\ txn'[t].payment = txn[t].payment
        /\ txn[t].held \subseteq txn'[t].held /\ txn'[t].read = txn[t].read
        /\ txn'[t].confirms = txn[t].confirms
    BY <1>1, <1>o, Locals DEF SumRewards, Moves, IsTransaction
  <2> QED BY <1>o, <2>1, SameRows
<1>2. CASE /\ Referrer[Payer[PaymentOf(t)]] # NoUser
           /\ txn' = [txn EXCEPT ![t] = [@ EXCEPT !.at = "increment",
                                                  !.new = txn[t].new \cup {reward}]]
  <2>1. /\ Moves(t) /\ txn'[t].payment = txn[t].payment /\ txn'[t].held = txn[t].held
        /\ txn'[t].at = "increment" /\ txn'[t].read = txn[t].read
        /\ txn'[t].confirms = txn[t].confirms /\ txn'[t].completes = txn[t].completes
        /\ txn'[t].new = txn[t].new \cup {reward}
    <3> DEFINE m == [txn[t] EXCEPT !.at = "increment", !.new = txn[t].new \cup {reward}]
    <3>1. /\ IsTransaction(m) /\ m.at = "increment" /\ m.payment = txn[t].payment
         /\ m.held = txn[t].held /\ m.read = txn[t].read
         /\ m.confirms = txn[t].confirms /\ m.completes = txn[t].completes
         /\ m.new = txn[t].new \cup {reward}
      BY <1>o DEF IsTransaction
    <3>2. txn' = [txn EXCEPT ![t] = m] /\ UNCHANGED Committed
      BY <1>2 DEF SumRewards
    <3> HIDE DEF m
    <3> QED BY <3>1, <3>2, MovesTo
  <2>2. /\ reward.user = Referrer[Payer[txn[t].payment]] /\ reward.kind = "REFERRAL_REWARD"
        /\ reward.payment = txn[t].payment /\ reward.amount = Commission(t)
    BY DEF PaymentOf
  <2> HIDE DEF reward
  <2>p. txn[t].payment \in Payments /\ txn[t].completes
    BY <1>o DEF SettlingOrder, Settling
  <2>3. reward.amount \in Int /\ reward.user \in Users
    BY <1>2, <2>2, <2>p, CommissionType DEF PaymentOf
  <2>4. NewRow(txn'[t], reward)
    BY <2>1, <2>2, <2>3, <2>p DEF NewRow, RewardRow
  <2>5. NewRows(txn[t])
    BY DEF LedgerInv
  <2>6. \A r \in txn[t].new : NewRow(txn'[t], r) /\ r.user = Payer[txn[t].payment]
    BY <1>o, <2>1, <2>5 DEF NewRows, NewRow, PayerRow, RewardRow
  <2>7. reward.user # Payer[txn[t].payment]
    BY <2>2, <2>p, StatementsAssumption
  <2>8. IsFiniteSet(txn'[t].new)
    BY <2>1, <2>5, FS_AddElement DEF NewRows
  <2>9. \A q, r \in txn'[t].new : q.user = r.user => q = r
    BY <2>1, <2>5, <2>6, <2>7 DEF NewRows
  <2>10. NewRows(txn'[t])
    BY <2>1, <2>4, <2>6, <2>8, <2>9 DEF NewRows
  <2> QED BY <2>1, <2>10, LedgerInside
<1> QED BY <1>1, <1>2 DEF SumRewards

LEMMA LedgerIncrements ==
  ASSUME StatementsInv, LedgerInv, NEW t \in Transactions, IncrementWallet(t)
  PROVE  LedgerInv'
<1>o. txn[t].at = "increment" /\ IsTransaction(txn[t])
  BY OfOne DEF IncrementWallet
<1> DEFINE row == <<"wallet", Referrer[Payer[PaymentOf(t)]]>>
<1>1. /\ Moves(t) /\ txn'[t].payment = txn[t].payment
      /\ txn'[t].held = txn[t].held \cup {row}
      /\ txn'[t].at = "commit" /\ txn'[t].read = txn[t].read
      /\ txn'[t].confirms = txn[t].confirms /\ txn'[t].completes = txn[t].completes
      /\ txn'[t].new = txn[t].new
  <2> DEFINE m == [txn[t] EXCEPT !.at = "commit", !.held = txn[t].held \cup {row}]
  <2>1. /\ IsTransaction(m) /\ m.at = "commit" /\ m.payment = txn[t].payment
       /\ m.held = txn[t].held \cup {row} /\ m.read = txn[t].read
       /\ m.confirms = txn[t].confirms /\ m.completes = txn[t].completes
       /\ m.new = txn[t].new
    BY <1>o DEF IsTransaction
  <2>2. txn' = [txn EXCEPT ![t] = m] /\ UNCHANGED Committed
    BY DEF IncrementWallet
  <2> HIDE DEF m
  <2> QED BY <2>1, <2>2, MovesTo
<1>2. NewRows(txn[t])
  BY DEF LedgerInv
<1>3. \A r \in txn[t].new : NewRow(txn'[t], r)
  BY <1>o, <1>1, <1>2 DEF NewRows, NewRow, PayerRow, RewardRow, PaymentOf
<1>4. NewRows(txn'[t])
  BY <1>1, <1>2, <1>3 DEF NewRows
<1> QED BY <1>1, <1>4, LedgerInside

LEMMA LedgerDeposits ==
  ASSUME StatementsInv, StatementsInv', LedgerInv, NEW t \in Transactions, CreditWallet(t)
  PROVE  LedgerInv'
<1>o. SettlingDeposit(txn[t]) /\ IsTransaction(txn[t])
  BY OfOne DEF CreditWallet
<1> DEFINE row == <<"wallet", Payer[PaymentOf(t)]>>
<1>1. /\ Moves(t) /\ txn'[t].payment = txn[t].payment
      /\ txn'[t].held = txn[t].held \cup {row}
      /\ txn'[t].at = "commit" /\ txn'[t].read = purse[Payer[PaymentOf(t)]]
      /\ txn'[t].confirms = txn[t].confirms
      /\ txn'[t].new = {Deposit(t)} \ rows
  <2> DEFINE m == [txn[t] EXCEPT !.at = "commit", !.read = purse[Payer[PaymentOf(t)]],
                                !.held = txn[t].held \cup {row}, !.new = {Deposit(t)} \ rows]
  <2>1. /\ IsTransaction(m) /\ m.at = "commit" /\ m.payment = txn[t].payment
       /\ m.held = txn[t].held \cup {row} /\ m.read = purse[Payer[PaymentOf(t)]]
       /\ m.confirms = txn[t].confirms
       /\ m.new = {Deposit(t)} \ rows
    BY <1>o DEF IsTransaction
  <2>2. txn' = [txn EXCEPT ![t] = m] /\ UNCHANGED Committed
    BY DEF CreditWallet
  <2> HIDE DEF m
  <2> QED BY <2>1, <2>2, MovesTo
<1>p. txn[t].payment \in Payments /\ OrderOf[txn[t].payment] = NoOrder
  BY <1>o DEF SettlingDeposit, Settling
<1> DEFINE r == Deposit(t)
<1>2. /\ r.user = Payer[txn[t].payment] /\ r.kind = "DEPOSIT"
      /\ r.payment = txn[t].payment /\ r.amount = Amount[txn[t].payment]
  BY DEF Deposit, PaymentOf
<1>d. r = DepositOf(txn[t].payment)
  BY DEF Deposit, DepositOf, PaymentOf
<1> HIDE DEF r
<1>3. r.amount \in Int /\ r.user \in Users
  BY <1>2, <1>p, StatementsAssumption
<1>4. CASE r \in rows
  BY <1>1, <1>4, NoNewRows, LedgerInside DEF r
<1>5. CASE r \notin rows
  <2>1. txn[t].confirms
    BY <1>5, <1>d, <1>o, <1>p DEF SettlingDeposit, Settling, StatementsInv, ConfirmedIsServed
  <2>2. NewRow(txn'[t], r)
    BY <1>1, <1>2, <1>3, <2>1 DEF NewRow, PayerRow, PaymentOf
  <2>3. txn'[t].new = {r}
    BY <1>1, <1>5 DEF r
  <2>4. NewRows(txn'[t])
    BY <2>2, <2>3, FS_Singleton DEF NewRows
  <2> QED BY <1>1, <2>4, LedgerInside
<1> QED BY <1>4, <1>5

LEMMA LedgerOthers ==
  ASSUME StatementsInv, LedgerInv,
         \/ \E p \in Payments : RefusePayment(p)
         \/ \E o \in Orders : CancelOrder(o)
         \/ UNCHANGED statementVars
  PROVE  LedgerInv'
<1>1. UNCHANGED <<rows, purse, txn, granted>>
  BY DEF RefusePayment, CancelOrder, statementVars
<1>2. \A q \in Payments : paid[q] = "CONFIRMED" => paid'[q] = "CONFIRMED"
  BY DEF RefusePayment, CancelOrder, statementVars, StatementsInv, StatementsShape
<1>3. RowsAddUp'
  BY <1>1, <1>2 DEF LedgerInv, RowsAddUp
<1> QED BY <1>1, <1>3 DEF LedgerInv, NewRows, NewRow, PayerRow, RewardRow

-----------------------------------------------------------------------------
(* The ledger and the commit.                                              *)

\* No row is written twice: what it pays was not paid, or granted, before.
LEMMA RowsAreFresh ==
  ASSUME StatementsInv, LedgerInv, NEW t \in Transactions, Commit(t), NEW r \in txn[t].new
  PROVE  r \notin rows
<1>1. Settling(txn[t]) /\ txn[t].payment \in Payments
  BY OfOne DEF Commit, SettlingOrder, SettlingDeposit, Settling
<1>2. NewRow(txn[t], r)
  BY DEF LedgerInv, NewRows
<1>3. CASE PayerRow(txn[t], r)
  <2>1. paid[r.payment] # "CONFIRMED"
    BY <1>1, <1>2, <1>3 DEF NewRow, PayerRow, Settling, Confirming
  <2> QED BY <1>3, <2>1 DEF PayerRow, LedgerInv, RowsAddUp, StatementsInv, DepositsAreConfirmed
<1>4. CASE RewardRow(txn[t], r)
  <2>1. placed[OrderOf[r.payment]] = "PENDING" /\ OrderOf[r.payment] \in Orders
    BY <1>1, <1>2, <1>4, StatementsAssumption DEF NewRow, RewardRow, Settling, Completing
  <2>2. granted[OrderOf[r.payment]] = 0
    BY <2>1 DEF StatementsInv, GrantsFollowOrders
  <2> QED BY <1>4, <2>2 DEF RewardRow, LedgerInv, RowsAddUp
<1> QED BY <1>2, <1>3, <1>4 DEF NewRow

\* A wallet gets what the rows of t say, although the payer's is written from
\* an earlier read.
LEMMA CommitBalance ==
  ASSUME StatementsInv, LedgerInv, NEW t \in Transactions, Commit(t), NEW u \in Users
  PROVE  /\ purse'[u] \in Int /\ purse'[u] = Opening + Balance(Of(rows', u))
         /\ <<"wallet", u>> \notin txn[t].held => purse'[u] = purse[u]
<1> DEFINE own == {r \in txn[t].new : r.user = u}
<1>1. purse'[u] = NewBalance(t, u) /\ rows' = rows \cup txn[t].new /\ txn[t].at = "commit"
  BY DEF Commit
<1>2. Of(rows', u) = Of(rows, u) \cup own
  BY <1>1 DEF Of
<1>3. /\ purse[u] \in Int /\ purse[u] = Opening + Balance(Of(rows, u))
      /\ IsFiniteSet(Of(rows, u)) /\ \A r \in Of(rows, u) : r.amount \in Int
  <2>1. Of(rows, u) \subseteq rows
    BY DEF Of
  <2> QED BY <2>1, FS_Subset DEF LedgerInv, RowsAddUp
<1>4. CASE own = {}
  <2>1. purse'[u] = purse[u]
    BY <1>1, <1>4 DEF NewBalance
  <2>2. Of(rows', u) = Of(rows, u)
    BY <1>2, <1>4
  <2> QED BY <2>1, <2>2, <1>3
<1>5. CASE own # {}
  <2>1. PICK r \in txn[t].new : r.user = u /\ own = {r}
    BY <1>5 DEF LedgerInv, NewRows
  <2>2. NewRow(txn[t], r) /\ r \notin Of(rows, u)
    BY RowsAreFresh DEF LedgerInv, NewRows, Of
  <2>3. r.amount \in Int /\ <<"wallet", u>> \in txn[t].held
    BY <1>1, <2>1, <2>2 DEF NewRow, PayerRow, RewardRow
  <2>4. Balance(Of(rows, u) \cup {r}) = Balance(Of(rows, u)) + r.amount
    BY <1>3, <2>2, <2>3, BalanceOfOneMore
  <2>5. MapThenSumSet(LAMBDA q : q.amount, own) = r.amount
    <3>1. IsFiniteSet({r}) /\ Balance({r}) = r.amount
      BY <2>3, BalanceOfOne, FS_Singleton
    <3> QED BY <2>1, <3>1, RowSum
  <2>6. NewBalance(t, u) = purse[u] + r.amount
    <3>1. CASE r.kind = "REFERRAL_REWARD"
      BY <2>1, <2>5, <3>1 DEF NewBalance
    <3>2. CASE r.kind # "REFERRAL_REWARD"
      <4>1. txn[t].read = purse[u]
        BY <2>1, <2>2, <3>2 DEF NewRow, PayerRow, RewardRow
      <4> QED BY <2>1, <2>5, <3>2, <4>1 DEF NewBalance
    <3> QED BY <3>1, <3>2
  <2>7. Balance(Of(rows, u)) \in Int /\ Opening \in Int
    BY <1>3, BalanceType, StatementsAssumption
  <2> HIDE DEF own
  <2>8. Of(rows', u) = Of(rows, u) \cup {r}
    BY <1>2, <2>1
  <2>9. /\ purse'[u] = (Opening + Balance(Of(rows, u))) + r.amount
        /\ Balance(Of(rows', u)) = Balance(Of(rows, u)) + r.amount
    BY <1>1, <1>3, <2>4, <2>6, <2>8
  <2> DEFINE b == Balance(Of(rows, u))
             a == r.amount
  <2> HIDE DEF b, a
  <2>10. (Opening + b) + a = Opening + (b + a) /\ (Opening + b) + a \in Int
    BY <2>3, <2>7 DEF a, b
  <2> QED BY <2>3, <2>9, <2>10 DEF a, b
<1> QED BY <1>4, <1>5

LEMMA LedgerCommits ==
  ASSUME StatementsInv, LedgerInv, NEW t \in Transactions, Commit(t)
  PROVE  LedgerInv'
<1>e. /\ txn'[t] = NoTransaction /\ CommitsRows(t)
      /\ \A s \in Transactions : s # t => txn'[s] = txn[s]
  BY CommitEffect
<1>1. IsFiniteSet(rows') /\ rows' = rows \cup txn[t].new
  <2>1. IsFiniteSet(rows) /\ IsFiniteSet(txn[t].new)
    BY DEF LedgerInv, RowsAddUp, NewRows
  <2>2. rows' = rows \cup txn[t].new
    BY DEF Commit
  <2> QED BY <2>1, <2>2, FS_Union
<1>2. /\ \A q \in Payments : paid[q] = "CONFIRMED" => paid'[q] = "CONFIRMED"
      /\ \A q \in Orders : granted[q] = 1 => granted'[q] = 1
      /\ txn[t].payment \in Payments /\ paid'[txn[t].payment] = "CONFIRMED"
      /\ txn[t].completes => /\ OrderOf[txn[t].payment] \in Orders
                             /\ granted'[OrderOf[txn[t].payment]] = 1
  BY <1>e DEF CommitsRows
<1>3. ASSUME NEW r \in rows'
      PROVE  /\ r.amount \in Int
             /\ r.kind = "PURCHASE" => r.payment \in Payments /\ paid'[r.payment] = "CONFIRMED"
             /\ r.kind = "REFERRAL_REWARD" =>
                  OrderOf[r.payment] \in Orders /\ granted'[OrderOf[r.payment]] = 1
  <2>1. CASE r \in rows
    BY <2>1, <1>2 DEF LedgerInv, RowsAddUp
  <2>2. CASE r \in txn[t].new
    <3>1. NewRow(txn[t], r)
      BY <2>2 DEF LedgerInv, NewRows
    <3> QED BY <1>2, <3>1 DEF NewRow, PayerRow, RewardRow
  <2> QED BY <1>1, <2>1, <2>2
<1>4. RowsAddUp'
  BY <1>1, <1>3, CommitBalance DEF RowsAddUp, Of
<1>5. ASSUME NEW s \in Transactions PROVE NewRows(txn[s])'
  <2>1. CASE s = t
    <3>1. (txn[s].new = {})'
      BY <1>e, <2>1 DEF NoTransaction
    <3> QED BY <3>1, FS_EmptySet DEF NewRows
  <2>2. CASE s # t
    <3>1. NewRows(txn[s]) /\ txn'[s] = txn[s]
      BY <1>e, <2>2 DEF LedgerInv
    <3>2. ASSUME NEW r \in txn[s].new, <<"wallet", r.user>> \in txn[s].held
          PROVE  purse'[r.user] = purse[r.user]
      <4>1. <<"wallet", r.user>> \notin txn[t].held
        BY <2>2, <3>2, OfOne
      <4>2. r.user \in Users
        BY <3>1 DEF NewRows, NewRow
      <4> QED BY <4>1, <4>2, CommitBalance
    <3>3. \A r \in txn[s].new : NewRow(txn[s], r)'
      BY <3>1, <3>2 DEF NewRows, NewRow, PayerRow, RewardRow
    <3> QED BY <3>1, <3>3 DEF NewRows
  <2> QED BY <2>1, <2>2
<1> QED BY <1>4, <1>5 DEF LedgerInv

LEMMA LedgerStep ==
  StatementsInv /\ LedgerInv /\ [StatementsNext]_statementVars => LedgerInv'
<1> SUFFICES ASSUME StatementsInv, LedgerInv, [StatementsNext]_statementVars PROVE LedgerInv'
  OBVIOUS
<1>i. StatementsInv'
  BY StatementsStep
<1>1. ASSUME NEW t \in Transactions, NEW p \in Payments,
             StartSettlement(t, p) \/ StartWalletPayment(t, p)
      PROVE  LedgerInv'
  BY <1>1, LedgerBegins
<1>2. ASSUME NEW t \in Transactions,
             ReadPayment(t) \/ ClaimPayment(t) \/ DebitWallet(t) \/ ReadOrder(t) \/ CompleteOrder(t)
      PROVE  LedgerInv'
  BY <1>2, LedgerReadsPayment, LedgerDebits, LedgerOrder
<1>3. ASSUME NEW t \in Transactions,
             SumRewards(t) \/ IncrementWallet(t) \/ CreditWallet(t) \/ Commit(t)
      PROVE  LedgerInv'
  BY <1>3, <1>i, LedgerRewards, LedgerIncrements, LedgerDeposits, LedgerCommits
<1>4. ASSUME NEW t \in Transactions, RollBack(t)
      PROVE  LedgerInv'
  BY <1>4, LedgerGiveUp DEF RollBack
<1>5. CASE \/ \E p \in Payments : RefusePayment(p)
           \/ \E o \in Orders : CancelOrder(o)
           \/ UNCHANGED statementVars
  BY <1>5, LedgerOthers
<1> QED BY <1>1, <1>2, <1>3, <1>4, <1>5 DEF StatementsNext

\* Every wallet holds what its ledger rows say, however the locked
\* read-and-write of the payer's wallet and the unlocked sum and increment of
\* the referrer's interleave, and whichever transactions are rolled back.
THEOREM StatementsLedgerHolds == StatementsSpec => []StatementsKeepLedger
<1>1. StatementsInit => StatementsInv /\ LedgerInv
  BY StatementsInitially, LedgerStart
<1>2. StatementsInv /\ LedgerInv /\ [StatementsNext]_statementVars => (StatementsInv /\ LedgerInv)'
  BY StatementsStep, LedgerStep
<1>3. LedgerInv => StatementsKeepLedger
  <2> SUFFICES ASSUME LedgerInv, NEW u \in Users
               PROVE  purse[u] =
                        Opening + MapThenSumSet(LAMBDA r : r.amount, {r \in rows : r.user = u})
    BY DEF StatementsKeepLedger
  <2>1. IsFiniteSet(Of(rows, u))
    BY FS_Subset DEF LedgerInv, RowsAddUp, Of
  <2>2. MapThenSumSet(LAMBDA r : r.amount, Of(rows, u)) = Balance(Of(rows, u))
    BY <2>1, RowSum
  <2> QED BY <2>2 DEF LedgerInv, RowsAddUp, Of
<1> QED BY <1>1, <1>2, <1>3, PTL DEF StatementsSpec

-----------------------------------------------------------------------------
(* The commit as one step, AtomicSettlement.  Its invariant: what a         *)
(* transaction will write is what a settlement of its payment would write  *)
(* on the state it commits to.                                             *)

\* The rewards of u among the rows S.
RewardsOf(S, u) == {r \in S : r.user = u /\ r.kind = "REFERRAL_REWARD"}

\* The reward that fulfilling the order of m brings, once it is worked out.
Earns(m) ==
  IF m.completes /\ m.at \in {"increment", "commit"} THEN Atomic!Rewards(m.payment) ELSE {0}

\* A payment from the wallet holds its order, and the balance it read covers it.
WalletFits(m) ==
  m.payment \in ByWallet =>
    /\ placed[OrderOf[m.payment]] = "PENDING" /\ <<"order", OrderOf[m.payment]>> \in m.held
    /\ m.at # "debit" => m.read >= Amount[m.payment]
    /\ m.at = "commit" => m.completes
\* The rows m will write are those of its purchase and of the reward.
OrderFits(m) ==
  m.at \in {"order", "complete", "reward", "increment", "commit"} /\ OrderOf[m.payment] # NoOrder =>
    \E a \in Earns(m) : m.new = Atomic!Purchases(m.payment) \cup Atomic!Bonuses(m.payment, a)
\* Only a referrer's wallet is incremented.
IncrementFits(m) == m.at = "increment" => Referrer[Payer[m.payment]] # NoUser

TxnFits(m) == WalletFits(m) /\ OrderFits(m) /\ IncrementFits(m)
AtomicInv ==
  /\ \A u \in Users : Balance(RewardsOf(rows, u)) \in Nat
  /\ \A t \in Transactions : TxnFits(txn[t])

LEMMA TxnRestFits == ASSUME NEW m, TxnRests(m) PROVE TxnFits(m)
BY StatementsAssumption DEF TxnRests, TxnFits, WalletFits, OrderFits, IncrementFits

\* AtomicSettlement's sums are those of the ledger, above.
LEMMA AtomicTotal ==
  ASSUME NEW S, IsFiniteSet(S) PROVE Atomic!Total(S) = Balance(S)
<1>1. Atomic!Total(S) = MapThenSumSet(LAMBDA r : r.amount, S)
  BY DEF Atomic!Total, Atomic!MapThenSumSet, Atomic!MapThenFoldSet, MapThenSumSet, MapThenFoldSet
<1> QED BY <1>1, RowSum

LEMMA EarnedSum ==
  ASSUME LedgerInv, NEW u
  PROVE  /\ IsFiniteSet(RewardsOf(rows, u)) /\ Earned(u) = Balance(RewardsOf(rows, u))
         /\ Atomic!CapLeft(u) = MaxBonus - Earned(u)
<1>1. IsFiniteSet(RewardsOf(rows, u))
  BY FS_Subset DEF LedgerInv, RowsAddUp, RewardsOf
<1>2. Earned(u) = Balance(RewardsOf(rows, u))
  BY <1>1, RowSum DEF Earned, RewardsOf
<1>3. Atomic!Total(RewardsOf(rows, u)) = Balance(RewardsOf(rows, u))
  BY <1>1, AtomicTotal
<1> QED BY <1>1, <1>2, <1>3 DEF Atomic!CapLeft, RewardsOf

LEMMA AtomicStart == StatementsInit => AtomicInv
<1> SUFFICES ASSUME StatementsInit PROVE AtomicInv
  OBVIOUS
<1>1. ASSUME NEW u \in Users PROVE Balance(RewardsOf(rows, u)) = 0
  <2>1. RewardsOf(rows, u) = {}
    BY DEF StatementsInit, RewardsOf
  <2> QED BY <2>1, BalanceOfNone
<1>2. ASSUME NEW t \in Transactions PROVE TxnFits(txn[t])
  <2>1. txn[t] = NoTransaction
    BY DEF StatementsInit
  <2> QED BY <2>1, RestingShape, TxnRestFits
<1> QED BY <1>1, <1>2 DEF AtomicInv

\* A step inside transaction t.
LEMMA AtomicInside ==
  ASSUME AtomicInv, NEW t \in Transactions, Moves(t), TxnFits(txn'[t])
  PROVE  AtomicInv'
<1>1. (\A u \in Users : Balance(RewardsOf(rows, u)) \in Nat)'
  BY DEF Moves, Committed, AtomicInv
<1>2. ASSUME NEW s \in Transactions PROVE TxnFits(txn[s])'
  <2>1. TxnFits(txn'[s])
    BY DEF Moves, AtomicInv
  <2>2. \A p : Atomic!Rewards(p)' = Atomic!Rewards(p)
    BY DEF Moves, Committed, Atomic!Rewards, Atomic!CapLeft
  <2> QED BY <2>1, <2>2 DEF TxnFits, WalletFits, OrderFits, IncrementFits, Earns, Moves, Committed,
             Atomic!Purchases, Atomic!Bonuses
<1> QED BY <1>1, <1>2 DEF AtomicInv

LEMMA AtomicGiveUp ==
  ASSUME StatementsInv, AtomicInv, NEW t \in Transactions, GiveUp(t), UNCHANGED Committed
  PROVE  AtomicInv'
<1>1. txn'[t] = NoTransaction /\ Moves(t)
  BY Locals, RestingShape DEF GiveUp, Moves
<1> QED BY <1>1, RestingShape, TxnRestFits, AtomicInside

LEMMA AtomicBegins ==
  ASSUME StatementsInv, AtomicInv, NEW t \in Transactions, NEW p \in Payments,
         StartSettlement(t, p) \/ StartWalletPayment(t, p)
  PROVE  AtomicInv'
<1>1. TxnRests(txn[t]) /\ IsTransaction(txn[t])
  BY OfOne DEF StartSettlement, StartWalletPayment
<1>2. CASE StartSettlement(t, p)
  <2>1. Moves(t) /\ txn'[t].at = "payment" /\ txn'[t].payment = p
    BY <1>1, <1>2, Locals DEF StartSettlement, Moves, IsTransaction
  <2>2. TxnFits(txn'[t])
    BY <1>2, <2>1 DEF StartSettlement, TxnFits, WalletFits, OrderFits, IncrementFits
  <2> QED BY <2>1, <2>2, AtomicInside
<1>3. CASE StartWalletPayment(t, p)
  <2>1. Moves(t) /\ txn'[t].at = "debit" /\ txn'[t].payment = p
        /\ txn'[t].held = {<<"order", OrderOf[p]>>}
    BY <1>1, <1>3, Locals DEF StartWalletPayment, Moves, IsTransaction
  <2>2. TxnFits(txn'[t])
    BY <1>3, <2>1 DEF StartWalletPayment, TxnFits, WalletFits, OrderFits, IncrementFits
  <2> QED BY <2>1, <2>2, AtomicInside
<1> QED BY <1>2, <1>3

\* No row yet, and none from the wallet.
LEMMA NothingWritten ==
  ASSUME NEW p \in Payments
  PROVE  /\ Atomic!Bonuses(p, 0) = {}
         /\ p \notin ByWallet => Atomic!Purchases(p) = {}
BY DEF Atomic!Bonuses, Atomic!Purchases

LEMMA AtomicReadsPayment ==
  ASSUME StatementsInv, AtomicInv, NEW t \in Transactions, ReadPayment(t) \/ ClaimPayment(t)
  PROVE  AtomicInv'
<1>1. Early(txn[t]) /\ IsTransaction(txn[t]) /\ txn[t].payment \notin ByWallet
  BY OfOne DEF ReadPayment, ClaimPayment, Early
<1>2. CASE GiveUp(t) /\ UNCHANGED Committed
  BY <1>2, AtomicGiveUp
<1>3. CASE ~GiveUp(t)
  <2>1. /\ Moves(t) /\ txn'[t].new = txn[t].new /\ txn'[t].payment = txn[t].payment
        /\ txn'[t].at \in {"claim", "order", "deposit"} /\ txn'[t].completes = txn[t].completes
    <3>1. CASE ReadPayment(t)
      BY <1>1, <3>1, Locals DEF ReadPayment, Moves, IsTransaction, WhatIsPaid
    <3>2. CASE ClaimPayment(t) /\ paid[PaymentOf(t)] = "PENDING"
      <4> DEFINE m == [txn[t] EXCEPT !.at = WhatIsPaid(t), !.confirms = TRUE,
                         !.held = txn[t].held \cup {<<"payment", PaymentOf(t)>>}]
      <4>1. /\ IsTransaction(m) /\ m.new = txn[t].new /\ m.payment = txn[t].payment
            /\ m.at = WhatIsPaid(t) /\ m.completes = txn[t].completes
        BY <1>1 DEF IsTransaction
      <4>2. txn' = [txn EXCEPT ![t] = m] /\ UNCHANGED Committed
        BY <3>2 DEF ClaimPayment
      <4> HIDE DEF m
      <4> QED BY <4>1, <4>2, MovesTo DEF WhatIsPaid
    <3>3. CASE ClaimPayment(t) /\ paid[PaymentOf(t)] = "CONFIRMED"
      BY <1>1, <3>3, Locals DEF ClaimPayment, Moves, IsTransaction, WhatIsPaid
    <3> QED BY <1>3, <3>1, <3>2, <3>3 DEF ClaimPayment
  <2>2. txn'[t].new = {} /\ txn[t].payment \in Payments
    BY <1>1, <2>1 DEF Early
  <2>3. TxnFits(txn'[t])
    BY <1>1, <2>1, <2>2, NothingWritten
       DEF Early, TxnFits, WalletFits, OrderFits, IncrementFits, Earns
  <2> QED BY <2>1, <2>3, AtomicInside
<1> QED BY <1>2, <1>3 DEF ReadPayment, ClaimPayment

LEMMA AtomicDebits ==
  ASSUME StatementsInv, LedgerInv, AtomicInv, NEW t \in Transactions, DebitWallet(t)
  PROVE  AtomicInv'
<1>o. Early(txn[t]) /\ IsTransaction(txn[t]) /\ txn[t].payment \in ByWallet /\ TxnFits(txn[t])
  BY OfOne DEF DebitWallet, Early, AtomicInv
<1>1. CASE Funded(t)
  <2>1. /\ Moves(t) /\ txn'[t].payment = txn[t].payment /\ txn'[t].at = "order"
        /\ txn[t].held \subseteq txn'[t].held
        /\ txn'[t].completes = txn[t].completes /\ txn'[t].read = purse[Payer[txn[t].payment]]
        /\ txn'[t].new = {Purchase(t)}
    <3> DEFINE m == [txn[t] EXCEPT !.at = "order", !.confirms = TRUE,
                  !.read = purse[Payer[PaymentOf(t)]], !.new = {Purchase(t)},
                  !.held = txn[t].held \cup {<<"wallet", Payer[PaymentOf(t)]>>}]
    <3>1. /\ IsTransaction(m) /\ m.payment = txn[t].payment /\ m.at = "order"
          /\ m.held = txn[t].held \cup {<<"wallet", Payer[PaymentOf(t)]>>}
          /\ m.completes = txn[t].completes /\ m.read = purse[Payer[PaymentOf(t)]]
          /\ m.new = {Purchase(t)}
      BY <1>o DEF IsTransaction
    <3>2. txn' = [txn EXCEPT ![t] = m] /\ UNCHANGED Committed
      BY <1>1 DEF DebitWallet, Debited
    <3> HIDE DEF m
    <3> QED BY <3>1, <3>2, MovesTo DEF PaymentOf
  <2>2. {Purchase(t)} = Atomic!Purchases(txn[t].payment)
    BY <1>o DEF Purchase, PaymentOf, Atomic!Purchases, Atomic!Row
  <2>3. txn'[t].read >= Amount[txn[t].payment] /\ txn[t].payment \in Payments /\ ~txn[t].completes
    BY <1>1, <1>o, <2>1 DEF Funded, PaymentOf, Early
  <2>4. OrderFits(txn'[t])
    <3>1. Earns(txn'[t]) = {0}
      BY <2>1, <2>3 DEF Earns
    <3> QED BY <2>1, <2>2, <2>3, <3>1, NothingWritten DEF OrderFits
  <2>5. WalletFits(txn'[t])
    BY <1>o, <2>1, <2>3 DEF TxnFits, WalletFits
  <2>6. IncrementFits(txn'[t])
    BY <2>1 DEF IncrementFits
  <2> QED BY <2>1, <2>4, <2>5, <2>6, AtomicInside DEF TxnFits
<1>2. CASE ~Funded(t)
  BY <1>2, AtomicGiveUp DEF DebitWallet, Debited
<1> QED BY <1>1, <1>2

\* t adds no row, and lets go of none of its locks.
LEMMA SameFits ==
  ASSUME AtomicInv, NEW t \in Transactions, Moves(t),
         txn[t].at \in {"order", "complete", "reward"},
         txn'[t].at \in {"complete", "reward", "commit"},
         txn[t].payment \in ByWallet /\ txn'[t].at = "commit" => txn'[t].completes,
         0 \in Earns(txn'[t]),
         txn'[t].new = txn[t].new, txn'[t].payment = txn[t].payment,
         txn[t].held \subseteq txn'[t].held, txn'[t].read = txn[t].read
  PROVE  AtomicInv'
<1>1. TxnFits(txn[t])
  BY DEF AtomicInv
<1>2. Earns(txn[t]) = {0}
  BY DEF Earns
<1>3. OrderFits(txn'[t])
  BY <1>1, <1>2 DEF TxnFits, OrderFits
<1>4. WalletFits(txn'[t]) /\ IncrementFits(txn'[t])
  BY <1>1 DEF TxnFits, WalletFits, IncrementFits
<1> QED BY <1>3, <1>4, AtomicInside DEF TxnFits

LEMMA AtomicOrder ==
  ASSUME StatementsInv, AtomicInv, NEW t \in Transactions, ReadOrder(t) \/ CompleteOrder(t)
  PROVE  AtomicInv'
<1>o. /\ IsTransaction(txn[t]) /\ txn[t].at \in {"order", "complete"} /\ ~txn[t].completes
      /\ TxnFits(txn[t])
  BY OfOne DEF ReadOrder, CompleteOrder, SettlingOrder, AtomicInv
<1>1. CASE GiveUp(t) /\ UNCHANGED Committed
  BY <1>1, AtomicGiveUp
<1>2. CASE ~GiveUp(t)
  <2>1. /\ Moves(t) /\ txn'[t].new = txn[t].new /\ txn'[t].payment = txn[t].payment
        /\ txn[t].held \subseteq txn'[t].held /\ txn'[t].read = txn[t].read
        /\ \/ txn'[t].at = "complete" /\ ~txn'[t].completes
           \/ txn'[t].at = "reward"
           \/ txn'[t].at = "commit" /\ ~txn'[t].completes /\ placed[OrderFor(t)] = "COMPLETED"
    <3>1. CASE ReadOrder(t)
      BY <1>o, <3>1, Locals DEF ReadOrder, Moves, IsTransaction
    <3>2. CASE CompleteOrder(t) /\ placed[OrderFor(t)] = "PENDING"
      <4> DEFINE m == [txn[t] EXCEPT !.at = "reward", !.completes = TRUE,
                                !.held = txn[t].held \cup {<<"order", OrderFor(t)>>}]
      <4>1. /\ IsTransaction(m) /\ m.payment = txn[t].payment /\ m.at = "reward"
            /\ m.held = txn[t].held \cup {<<"order", OrderFor(t)>>}
            /\ m.read = txn[t].read /\ m.new = txn[t].new
        BY <1>o DEF IsTransaction
      <4>2. txn' = [txn EXCEPT ![t] = m] /\ UNCHANGED Committed
        BY <3>2 DEF CompleteOrder, Completed
      <4> HIDE DEF m
      <4> QED BY <4>1, <4>2, MovesTo
    <3>3. CASE CompleteOrder(t) /\ placed[OrderFor(t)] = "COMPLETED"
      BY <1>o, <3>3, Locals DEF CompleteOrder, Moves, IsTransaction
    <3> QED BY <1>2, <3>1, <3>2, <3>3 DEF CompleteOrder
  <2>2. 0 \in Earns(txn'[t])
    BY <2>1 DEF Earns
  <2>3. txn[t].payment \in ByWallet => txn'[t].at # "commit"
    BY <1>o, <2>1 DEF TxnFits, WalletFits, OrderFor
  <2> QED BY <1>o, <2>1, <2>2, <2>3, SameFits
<1> QED BY <1>1, <1>2 DEF ReadOrder, CompleteOrder

\* What SumRewards works out is what the cap leaves, at that moment.
LEMMA CommissionFits ==
  ASSUME LedgerInv, AtomicInv, NEW t \in Transactions, txn[t].payment \in Payments
  PROVE  LET u == Referrer[Payer[txn[t].payment]]
         IN  IF u = NoUser \/ Commission(t) <= 0 THEN 0 \in Atomic!Rewards(txn[t].payment)
             ELSE Commission(t) \in Atomic!Rewards(txn[t].payment) \ {0}
<1> DEFINE p == txn[t].payment
           u == Referrer[Payer[p]]
           due == Atomic!Due(p)
           e == Earned(u)
<1>1. due \in Nat
  <2>1. Amount[p] * CommissionPercent \in Nat
    BY StatementsAssumption
  <2> QED BY <2>1 DEF Atomic!Due
<1>2. CASE u = NoUser
  BY <1>2 DEF Atomic!Rewards
<1>3. CASE u # NoUser
  <2>1. u \in Users /\ MaxBonus \in Nat
    BY <1>3, StatementsAssumption
  <2>2. e \in Nat /\ Atomic!CapLeft(u) = MaxBonus - e
    BY <2>1, EarnedSum DEF AtomicInv
  <2>3. Commission(t) = IF MaxBonus > 0 THEN Smaller(due, MaxBonus - e) ELSE due
    BY DEF Commission, PaymentOf, Atomic!Due
  <2>4. Atomic!Rewards(p) =
          IF MaxBonus = 0 THEN {due}
          ELSE {a \in 0..due : a <= MaxBonus /\ (a = due \/ a >= Atomic!CapLeft(u))}
    BY <1>3, <2>1 DEF Atomic!Rewards
  <2> HIDE DEF p, u, due, e
  <2> QED BY <1>1, <1>3, <2>1, <2>2, <2>3, <2>4 DEF Smaller, p, u
<1> QED BY <1>2, <1>3

LEMMA AtomicRewards ==
  ASSUME StatementsInv, LedgerInv, AtomicInv, NEW t \in Transactions, SumRewards(t)
  PROVE  AtomicInv'
<1>o. /\ SettlingOrder(txn[t]) /\ txn[t].at = "reward" /\ IsTransaction(txn[t])
      /\ txn[t].completes /\ txn[t].payment \in Payments /\ TxnFits(txn[t])
      /\ OrderOf[txn[t].payment] # NoOrder
  BY OfOne DEF SumRewards, SettlingOrder, Settling, AtomicInv
<1> DEFINE u == Referrer[Payer[txn[t].payment]]
           reward == [user |-> u, kind |-> "REFERRAL_REWARD",
                      payment |-> txn[t].payment, amount |-> Commission(t)]
<1>1. CASE u = NoUser \/ Commission(t) <= 0
  <2>1. /\ Moves(t) /\ txn'[t].new = txn[t].new /\ txn'[t].payment = txn[t].payment
        /\ txn[t].held \subseteq txn'[t].held /\ txn'[t].read = txn[t].read
        /\ txn'[t].at = "commit" /\ txn'[t].completes = txn[t].completes
    <3>1. txn' = [txn EXCEPT ![t].at = "commit"] /\ UNCHANGED Committed
      BY <1>1 DEF SumRewards, PaymentOf
    <3> QED BY <1>o, <3>1, Locals DEF Moves, IsTransaction
  <2>2. 0 \in Earns(txn'[t])
    BY <1>1, <1>o, <2>1, CommissionFits DEF Earns
  <2> QED BY <1>o, <2>1, <2>2, SameFits
<1>2. CASE ~(u = NoUser \/ Commission(t) <= 0)
  <2>1. /\ Moves(t) /\ txn'[t].payment = txn[t].payment /\ txn'[t].held = txn[t].held
        /\ txn'[t].at = "increment" /\ txn'[t].read = txn[t].read
        /\ txn'[t].completes = txn[t].completes /\ txn'[t].new = txn[t].new \cup {reward}
    <3> DEFINE m == [txn[t] EXCEPT !.at = "increment", !.new = txn[t].new \cup {reward}]
    <3>1. /\ IsTransaction(m) /\ m.at = "increment" /\ m.payment = txn[t].payment
         /\ m.held = txn[t].held /\ m.read = txn[t].read
         /\ m.completes = txn[t].completes /\ m.new = txn[t].new \cup {reward}
      BY <1>o DEF IsTransaction
    <3>2. txn' = [txn EXCEPT ![t] = m] /\ UNCHANGED Committed
      BY <1>2 DEF SumRewards, PaymentOf
    <3> HIDE DEF m
    <3> QED BY <3>1, <3>2, MovesTo
  <2>2. Commission(t) \in Earns(txn'[t]) /\ Commission(t) # 0
    BY <1>2, <1>o, <2>1, CommissionFits DEF Earns
  <2>3. {reward} = Atomic!Bonuses(txn[t].payment, Commission(t))
    BY <2>2 DEF Atomic!Bonuses, Atomic!Row
  <2>4. txn[t].new = Atomic!Purchases(txn[t].payment)
    <3>1. Earns(txn[t]) = {0}
      BY <1>o DEF Earns
    <3> QED BY <1>o, <3>1, NothingWritten DEF TxnFits, OrderFits
  <2>5. OrderFits(txn'[t])
    BY <2>1, <2>2, <2>3, <2>4 DEF OrderFits
  <2>6. WalletFits(txn'[t]) /\ IncrementFits(txn'[t])
    BY <1>o, <1>2, <2>1 DEF TxnFits, WalletFits, IncrementFits
  <2> QED BY <2>1, <2>5, <2>6, AtomicInside DEF TxnFits
<1> QED BY <1>1, <1>2

LEMMA AtomicLast ==
  ASSUME StatementsInv, AtomicInv, NEW t \in Transactions, IncrementWallet(t) \/ CreditWallet(t)
  PROVE  AtomicInv'
<1>1. CASE IncrementWallet(t)
  <2>o. /\ IsTransaction(txn[t]) /\ TxnFits(txn[t]) /\ txn[t].at = "increment"
        /\ txn[t].completes
    BY <1>1, OfOne DEF IncrementWallet, AtomicInv, SettlingOrder
  <2> DEFINE row == <<"wallet", Referrer[Payer[PaymentOf(t)]]>>
             m == [txn[t] EXCEPT !.at = "commit", !.held = txn[t].held \cup {row}]
  <2>1. /\ IsTransaction(m) /\ m.at = "commit" /\ m.payment = txn[t].payment
       /\ m.held = txn[t].held \cup {row} /\ m.read = txn[t].read
       /\ m.completes = txn[t].completes /\ m.new = txn[t].new
    BY <2>o DEF IsTransaction
  <2>2. txn' = [txn EXCEPT ![t] = m] /\ UNCHANGED Committed
    BY <1>1 DEF IncrementWallet
  <2> HIDE DEF m
  <2>3. Moves(t) /\ txn'[t] = m
    BY <2>1, <2>2, MovesTo
  <2>4. Earns(m) = Earns(txn[t])
    BY <2>o, <2>1 DEF Earns
  <2>5. TxnFits(m)
    BY <2>o, <2>1, <2>4 DEF TxnFits, WalletFits, OrderFits, IncrementFits
  <2> QED BY <2>3, <2>5, AtomicInside
<1>2. CASE CreditWallet(t)
  <2>o. /\ IsTransaction(txn[t]) /\ SettlingDeposit(txn[t])
    BY <1>2, OfOne DEF CreditWallet
  <2> DEFINE row == <<"wallet", Payer[PaymentOf(t)]>>
             m == [txn[t] EXCEPT !.at = "commit", !.read = purse[Payer[PaymentOf(t)]],
                                !.held = txn[t].held \cup {row}, !.new = {Deposit(t)} \ rows]
  <2>1. IsTransaction(m) /\ m.at = "commit" /\ m.payment = txn[t].payment
    BY <2>o DEF IsTransaction
  <2>2. txn' = [txn EXCEPT ![t] = m] /\ UNCHANGED Committed
    BY <1>2 DEF CreditWallet
  <2> HIDE DEF m
  <2>3. Moves(t) /\ txn'[t] = m
    BY <2>1, <2>2, MovesTo
  <2>4. OrderOf[m.payment] = NoOrder /\ m.payment \notin ByWallet
    BY <2>o, <2>1, StatementsAssumption DEF SettlingDeposit
  <2>5. TxnFits(m)
    BY <2>1, <2>4 DEF TxnFits, WalletFits, OrderFits, IncrementFits
  <2> QED BY <2>3, <2>5, AtomicInside
<1> QED BY <1>1, <1>2

\* Refusals leave the rows alone, cancellations the orders of wallet payments.
LEMMA AtomicOthers ==
  ASSUME StatementsInv, AtomicInv,
         \/ \E p \in Payments : RefusePayment(p)
         \/ \E o \in Orders : CancelOrder(o)
         \/ UNCHANGED statementVars
  PROVE  AtomicInv'
<1>1. UNCHANGED <<rows, purse, txn>>
  BY DEF RefusePayment, CancelOrder, statementVars
<1>2. \A p : Atomic!Rewards(p)' = Atomic!Rewards(p)
  BY <1>1 DEF Atomic!Rewards, Atomic!CapLeft
<1>3. ASSUME NEW t \in Transactions, txn[t].payment \in ByWallet
      PROVE  placed'[OrderOf[txn[t].payment]] = "PENDING"
  <2>1. /\ placed[OrderOf[txn[t].payment]] = "PENDING"
        /\ <<"order", OrderOf[txn[t].payment]>> \in txn[t].held
    BY <1>3 DEF AtomicInv, TxnFits, WalletFits
  <2>2. ASSUME NEW o \in Orders, CancelOrder(o)
        PROVE  placed'[OrderOf[txn[t].payment]] = "PENDING"
    <3>1. o # OrderOf[txn[t].payment]
      BY <2>1, <2>2 DEF CancelOrder
    <3> QED BY <2>1, <2>2, <3>1 DEF CancelOrder, StatementsInv, StatementsShape
  <2>3. CASE UNCHANGED placed
    BY <2>1, <2>3
  <2> QED BY <2>2, <2>3 DEF RefusePayment, statementVars
<1>4. ASSUME NEW t \in Transactions PROVE TxnFits(txn[t])'
  <2>1. TxnFits(txn[t])
    BY DEF AtomicInv
  <2>2. WalletFits(txn[t])' /\ IncrementFits(txn[t])'
    BY <1>1, <1>3, <2>1 DEF TxnFits, WalletFits, IncrementFits
  <2>3. OrderFits(txn[t])'
    BY <1>1, <1>2, <2>1 DEF TxnFits, OrderFits, Earns, Atomic!Purchases, Atomic!Bonuses
  <2> QED BY <2>2, <2>3 DEF TxnFits
<1> QED BY <1>1, <1>4 DEF AtomicInv

-----------------------------------------------------------------------------
(* The commit.                                                             *)

\* What a commit writes: the rows of a purchase and a reward, of a deposit, or
\* none when it finds the payment confirmed.
Written(t) ==
  LET p == txn[t].payment
  IN  IF OrderOf[p] = NoOrder
      THEN txn[t].new = IF txn[t].confirms THEN {DepositOf(p)} ELSE {}
      ELSE \E a \in IF txn[t].completes THEN Atomic!Rewards(p) ELSE {0} :
             txn[t].new = Atomic!Purchases(p) \cup Atomic!Bonuses(p, a)

LEMMA CommitWrites ==
  ASSUME StatementsInv, AtomicInv, NEW t \in Transactions, Commit(t)
  PROVE  Written(t) /\ txn[t].payment \in Payments
<1>1. /\ TxnFits(txn[t]) /\ txn[t].at = "commit" /\ txn[t].payment \in Payments
      /\ SettlingOrder(txn[t]) \/ SettlingDeposit(txn[t])
  BY OfOne DEF Commit, AtomicInv, SettlingOrder, SettlingDeposit, Settling
<1>2. CASE SettlingOrder(txn[t])
  BY <1>1, <1>2 DEF SettlingOrder, TxnFits, OrderFits, Earns, Written
<1>3. CASE SettlingDeposit(txn[t])
  BY <1>1, <1>3 DEF SettlingDeposit, Written
<1> QED BY <1>1, <1>2, <1>3

LEMMA RewardsAreNat ==
  ASSUME NEW p \in Payments, NEW a \in Atomic!Rewards(p)
  PROVE  a \in Nat
<1>1. Atomic!Due(p) \in Nat
  <2>1. Amount[p] * CommissionPercent \in Nat
    BY StatementsAssumption
  <2> QED BY <2>1 DEF Atomic!Due
<1>2. MaxBonus \in Nat
  BY StatementsAssumption
<1> QED BY <1>1, <1>2 DEF Atomic!Rewards

\* The rewards of u grow with a commit, or stay.
LEMMA EarnedGrows ==
  ASSUME StatementsInv, LedgerInv, AtomicInv, NEW t \in Transactions, Commit(t), NEW u \in Users
  PROVE  /\ Balance(RewardsOf(rows', u)) \in Nat
         /\ Balance(RewardsOf(rows', u)) >= Balance(RewardsOf(rows, u))
<1> DEFINE p == txn[t].payment
<1>1. rows' = rows \cup txn[t].new /\ Written(t) /\ p \in Payments
  BY CommitWrites DEF Commit
<1>2. RewardsOf(rows', u) = RewardsOf(rows, u) \cup RewardsOf(txn[t].new, u)
  BY <1>1 DEF RewardsOf
<1>3. /\ IsFiniteSet(RewardsOf(rows, u)) /\ Balance(RewardsOf(rows, u)) \in Nat
      /\ \A r \in RewardsOf(rows, u) : r.amount \in Int
  BY EarnedSum DEF AtomicInv, LedgerInv, RowsAddUp, RewardsOf
<1>4. CASE RewardsOf(txn[t].new, u) = {}
  <2>1. RewardsOf(rows', u) = RewardsOf(rows, u)
    BY <1>2, <1>4
  <2> QED BY <1>3, <2>1
<1>5. CASE RewardsOf(txn[t].new, u) # {}
  <2>1. PICK r \in txn[t].new : r.user = u /\ r.kind = "REFERRAL_REWARD"
    BY <1>5 DEF RewardsOf
  <2>2. RewardsOf(txn[t].new, u) = {r}
    BY <2>1 DEF RewardsOf, LedgerInv, NewRows
  <2>3. r.amount \in Nat
    <3>1. DepositOf(p).kind = "DEPOSIT" /\ \A q \in Atomic!Purchases(p) : q.kind = "PURCHASE"
      BY DEF DepositOf, Atomic!Purchases, Atomic!Row
    <3>2. PICK a \in Atomic!Rewards(p) \cup {0} : r \in Atomic!Bonuses(p, a)
      BY <1>1, <2>1, <3>1 DEF Written
    <3>3. r.amount = a
      BY <3>2 DEF Atomic!Bonuses, Atomic!Row
    <3> QED BY <1>1, <3>2, <3>3, RewardsAreNat
  <2>4. r \notin RewardsOf(rows, u)
    BY RowsAreFresh DEF RewardsOf
  <2>5. \A q \in RewardsOf(rows, u) \cup {r} : q.amount \in Int
    BY <1>3, <2>3
  <2>6. Balance(RewardsOf(rows, u) \cup {r}) = Balance(RewardsOf(rows, u)) + r.amount
    BY <1>3, <2>4, <2>5, BalanceOfOneMore
  <2> DEFINE b == Balance(RewardsOf(rows, u))
  <2>7. Balance(RewardsOf(rows', u)) = b + r.amount
    BY <1>2, <2>2, <2>6
  <2> HIDE DEF b
  <2>8. b + r.amount \in Nat /\ b + r.amount >= b
    BY <1>3, <2>3 DEF b
  <2> QED BY <2>7, <2>8 DEF b
<1> QED BY <1>4, <1>5

\* What was a reward when it was worked out is one still.
LEMMA RewardsLast ==
  ASSUME StatementsInv, LedgerInv, AtomicInv, NEW t \in Transactions, Commit(t),
         NEW p \in Payments, NEW a \in Atomic!Rewards(p)
  PROVE  a \in Atomic!Rewards(p)'
<1> DEFINE u == Referrer[Payer[p]]
<1>1. CASE u = NoUser
  BY <1>1 DEF Atomic!Rewards
<1>2. CASE u # NoUser
  <2>1. u \in Users /\ MaxBonus \in Nat
    BY <1>2, StatementsAssumption
  <2>2. LedgerInv'
    BY LedgerCommits
  <2>3. /\ Atomic!CapLeft(u) = MaxBonus - Balance(RewardsOf(rows, u))
        /\ Atomic!CapLeft(u)' = MaxBonus - Balance(RewardsOf(rows', u))
    <3>1. Atomic!CapLeft(u) = MaxBonus - Balance(RewardsOf(rows, u))
      BY EarnedSum
    <3>2. IsFiniteSet(rows')
      BY <2>2 DEF LedgerInv, RowsAddUp
    <3>3. IsFiniteSet(RewardsOf(rows', u))
      BY <3>2, FS_Subset DEF RewardsOf
    <3>4. Atomic!Total(RewardsOf(rows', u)) = Balance(RewardsOf(rows', u))
      BY <3>3, AtomicTotal
    <3> QED BY <3>1, <3>4 DEF Atomic!CapLeft, RewardsOf
  <2>4. /\ Balance(RewardsOf(rows, u)) \in Nat /\ Balance(RewardsOf(rows', u)) \in Nat
        /\ Balance(RewardsOf(rows', u)) >= Balance(RewardsOf(rows, u))
    BY <2>1, EarnedGrows DEF AtomicInv
  <2>5. Atomic!CapLeft(u) \in Int /\ Atomic!CapLeft(u)' \in Int
        /\ Atomic!CapLeft(u)' <= Atomic!CapLeft(u)
    BY <2>1, <2>3, <2>4
  <2>6. a \in Nat
    BY RewardsAreNat
  <2> QED BY <1>2, <2>1, <2>5, <2>6 DEF Atomic!Rewards, Atomic!Due
<1> QED BY <1>1, <1>2

LEMMA AtomicCommits ==
  ASSUME StatementsInv, LedgerInv, AtomicInv, NEW t \in Transactions, Commit(t)
  PROVE  AtomicInv'
<1>e. /\ txn'[t] = NoTransaction /\ CommitsRows(t)
      /\ \A s \in Transactions : s # t => txn'[s] = txn[s]
  BY CommitEffect
<1>1. ASSUME NEW s \in Transactions PROVE TxnFits(txn[s])'
  <2>1. CASE s = t
    <3>1. txn'[s].at = "idle" /\ txn'[s].payment = NoPayment
      BY <1>e, <2>1 DEF NoTransaction
    <3> QED BY <3>1, StatementsAssumption DEF TxnFits, WalletFits, OrderFits, IncrementFits
  <2>2. CASE s # t
    <3>1. TxnFits(txn[s]) /\ txn'[s] = txn[s] /\ txn[s].held \cap txn[t].held = {}
      BY <1>e, <2>2, OfOne DEF AtomicInv
    <3>2. IncrementFits(txn[s])'
      BY <3>1 DEF TxnFits, IncrementFits
    <3>3. WalletFits(txn[s])'
      <4>1. txn[s].payment \in ByWallet => OrderOf[txn[s].payment] \in Orders
        BY StatementsAssumption
      <4> QED BY <1>e, <3>1, <4>1 DEF TxnFits, WalletFits, CommitsRows
    <3>4. OrderFits(txn[s])'
      <4>1. SUFFICES ASSUME txn[s].at \in {"order", "complete", "reward", "increment", "commit"},
                            OrderOf[txn[s].payment] # NoOrder
                     PROVE  \E a \in Earns(txn[s])' : txn[s].new =
                              Atomic!Purchases(txn[s].payment)
                                \cup Atomic!Bonuses(txn[s].payment, a)
        BY <3>1 DEF OrderFits, Atomic!Purchases, Atomic!Bonuses
      <4>2. PICK a \in Earns(txn[s]) : txn[s].new =
              Atomic!Purchases(txn[s].payment) \cup Atomic!Bonuses(txn[s].payment, a)
        BY <3>1, <4>1 DEF TxnFits, OrderFits
      <4>3. txn[s].payment \in Payments
        BY <4>1, OfOne DEF SettlingOrder, SettlingDeposit, Settling
      <4>4. a \in Earns(txn[s])'
        BY <3>1, <4>2, <4>3, RewardsLast DEF Earns
      <4> QED BY <4>2, <4>4
    <3> QED BY <3>2, <3>3, <3>4 DEF TxnFits
  <2> QED BY <2>1, <2>2
<1> QED BY <1>1, EarnedGrows DEF AtomicInv

LEMMA AtomicStep ==
  StatementsInv /\ LedgerInv /\ AtomicInv /\ [StatementsNext]_statementVars => AtomicInv'
<1> SUFFICES ASSUME StatementsInv, LedgerInv, AtomicInv, [StatementsNext]_statementVars
             PROVE  AtomicInv'
  OBVIOUS
<1>1. ASSUME NEW t \in Transactions, NEW p \in Payments,
             StartSettlement(t, p) \/ StartWalletPayment(t, p)
      PROVE  AtomicInv'
  BY <1>1, AtomicBegins
<1>2. ASSUME NEW t \in Transactions,
             ReadPayment(t) \/ ClaimPayment(t) \/ DebitWallet(t) \/ ReadOrder(t) \/ CompleteOrder(t)
      PROVE  AtomicInv'
  BY <1>2, AtomicReadsPayment, AtomicDebits, AtomicOrder
<1>3. ASSUME NEW t \in Transactions,
             SumRewards(t) \/ IncrementWallet(t) \/ CreditWallet(t) \/ Commit(t)
      PROVE  AtomicInv'
  BY <1>3, AtomicRewards, AtomicLast, AtomicCommits
<1>4. ASSUME NEW t \in Transactions, RollBack(t)
      PROVE  AtomicInv'
  BY <1>4, AtomicGiveUp DEF RollBack
<1>5. CASE \/ \E p \in Payments : RefusePayment(p)
           \/ \E o \in Orders : CancelOrder(o)
           \/ UNCHANGED statementVars
  BY <1>5, AtomicOthers
<1> QED BY <1>1, <1>2, <1>3, <1>4, <1>5 DEF StatementsNext

-----------------------------------------------------------------------------
(* Types.                                                                  *)

LEMMA TypesInitially == StatementsInit => StatementsTypeOK
<1> SUFFICES ASSUME StatementsInit PROVE StatementsTypeOK
  OBVIOUS
<1>1. NoTransaction \in Begun
  BY DEF NoTransaction, Begun
<1>2. txn \in [Transactions -> Begun]
  BY <1>1 DEF StatementsInit
<1> QED BY <1>2, StatementsAssumption DEF StatementsInit, StatementsTypeOK

\* A transaction that keeps to the types, and commits nothing.
LEMMA TypedInside ==
  ASSUME StatementsTypeOK, NEW t \in Transactions, UNCHANGED Committed,
         NEW m \in Begun, txn' = [txn EXCEPT ![t] = m]
  PROVE  StatementsTypeOK'
BY DEF StatementsTypeOK, Committed

LEMMA TypedBegun ==
  ASSUME StatementsTypeOK, NEW t \in Transactions, StatementsInv, LedgerInv
  PROVE  /\ txn[t] \in Begun /\ NoTransaction \in Begun
         /\ txn[t].at # "idle" => txn[t].payment \in Payments /\ Payer[txn[t].payment] \in Users
              /\ <<"payment", txn[t].payment>> \in Lockable
              /\ <<"wallet", Payer[txn[t].payment]>> \in Lockable
              /\ purse[Payer[txn[t].payment]] \in Int
<1>1. txn[t] \in Begun /\ NoTransaction \in Begun
  BY DEF StatementsTypeOK, NoTransaction, Begun
<1>2. txn[t].at # "idle" => txn[t].payment \in Payments
  BY OfOne DEF Decided, Early, TxnRests, SettlingOrder, SettlingDeposit, Settling
<1>3. txn[t].payment \in Payments => Payer[txn[t].payment] \in Users
  BY StatementsAssumption
<1>4. \A p \in Payments : <<"payment", p>> \in Lockable
  BY DEF Lockable
<1>5. \A u \in Users : <<"wallet", u>> \in Lockable
  BY DEF Lockable
<1> QED BY <1>1, <1>2, <1>3, <1>4, <1>5 DEF StatementsTypeOK

LEMMA TypedGiveUp ==
  ASSUME StatementsTypeOK, NEW t \in Transactions, UNCHANGED Committed, GiveUp(t)
  PROVE  StatementsTypeOK'
<1>1. NoTransaction \in Begun
  BY DEF NoTransaction, Begun
<1> QED BY <1>1, TypedInside DEF GiveUp

LEMMA StartTyped ==
  ASSUME StatementsTypeOK, StatementsInv, LedgerInv, NEW t \in Transactions, NEW p \in Payments,
         StartSettlement(t, p) \/ StartWalletPayment(t, p)
  PROVE  StatementsTypeOK'
<1>1. CASE StartSettlement(t, p)
  <2>1. [txn[t] EXCEPT !.at = "payment", !.payment = p] \in Begun
    BY TypedBegun DEF Begun
  <2> QED BY <1>1, <2>1, TypedInside DEF StartSettlement
<1>2. CASE StartWalletPayment(t, p)
  <2>1. OrderOf[p] \in Orders
    BY <1>2, StatementsAssumption DEF StartWalletPayment
  <2>l. {<<"order", OrderOf[p]>>} \in SUBSET Lockable
    BY <2>1 DEF Lockable
  <2>2. [txn[t] EXCEPT !.at = "debit", !.payment = p, !.held = {<<"order", OrderOf[p]>>}] \in Begun
    BY <2>l, TypedBegun DEF Begun
  <2> QED BY <1>2, <2>2, TypedInside DEF StartWalletPayment
<1> QED BY <1>1, <1>2

LEMMA StatementTyped ==
  ASSUME StatementsTypeOK, StatementsInv, LedgerInv, NEW t \in Transactions,
         ReadPayment(t) \/ ClaimPayment(t) \/ DebitWallet(t) \/ ReadOrder(t)
  PROVE  StatementsTypeOK'
<1>o. txn[t].at # "idle"
  BY DEF ReadPayment, ClaimPayment, DebitWallet, ReadOrder
<1>g. GiveUp(t) /\ UNCHANGED Committed => StatementsTypeOK'
  BY TypedGiveUp
<1>1. CASE ReadPayment(t)
  <2> DEFINE m == [txn[t] EXCEPT !.at = IF paid[PaymentOf(t)] = "CONFIRMED"
                                        THEN WhatIsPaid(t) ELSE "claim"]
  <2>1. m \in Begun
    BY TypedBegun DEF Begun, WhatIsPaid
  <2> QED BY <1>1, <2>1, TypedInside DEF ReadPayment
<1>2. CASE ClaimPayment(t)
  <2> DEFINE m == [txn[t] EXCEPT !.at = WhatIsPaid(t), !.confirms = TRUE,
                     !.held = txn[t].held \cup {<<"payment", PaymentOf(t)>>}]
             k == [txn[t] EXCEPT !.at = WhatIsPaid(t)]
  <2>1. WhatIsPaid(t) \in {"deposit", "order"}
    BY DEF WhatIsPaid
  <2>2. txn[t].held \cup {<<"payment", PaymentOf(t)>>} \in SUBSET Lockable
    BY <1>o, TypedBegun DEF Begun, PaymentOf
  <2>3. m \in Begun /\ k \in Begun
    BY <2>1, <2>2, TypedBegun DEF Begun
  <2>4. txn' = [txn EXCEPT ![t] = m] \/ txn' = [txn EXCEPT ![t] = k] \/ GiveUp(t)
    BY <1>2 DEF ClaimPayment
  <2>5. UNCHANGED Committed
    BY <1>2 DEF ClaimPayment
  <2> HIDE DEF m, k
  <2> QED BY <2>3, <2>4, <2>5, <1>g, TypedInside
<1>3. CASE DebitWallet(t)
  <2> DEFINE m == [txn[t] EXCEPT !.at = "order", !.confirms = TRUE,
                     !.read = purse[Payer[PaymentOf(t)]], !.new = {Purchase(t)},
                     !.held = txn[t].held \cup {<<"wallet", Payer[PaymentOf(t)]>>}]
  <2>1. txn[t].held \cup {<<"wallet", Payer[PaymentOf(t)]>>} \in SUBSET Lockable
    BY <1>o, TypedBegun DEF Begun, PaymentOf
  <2>p. txn[t].payment \in Payments /\ Payer[txn[t].payment] \in Users
    BY <1>o, TypedBegun
  <2>2. -Amount[txn[t].payment] \in Int
    BY <2>p, StatementsAssumption
  <2>3. Purchase(t) \in LedgerRow
    BY <2>p, <2>2 DEF Purchase, LedgerRow, PaymentOf
  <2>4. purse[Payer[PaymentOf(t)]] \in Int
    BY <1>o, TypedBegun DEF PaymentOf
  <2>5. m \in Begun
    <3>1. {Purchase(t)} \in SUBSET LedgerRow
      BY <2>3
    <3> QED BY <2>1, <3>1, <2>4, TypedBegun DEF Begun
  <2>6. (txn' = [txn EXCEPT ![t] = m] \/ GiveUp(t)) /\ UNCHANGED Committed
    BY <1>3 DEF DebitWallet, Debited
  <2> HIDE DEF m
  <2> QED BY <2>5, <2>6, <1>g, TypedInside
<1>4. CASE ReadOrder(t)
  <2> DEFINE m == [txn[t] EXCEPT !.at = IF placed[OrderFor(t)] = "COMPLETED"
                                        THEN "commit" ELSE "complete"]
  <2>1. m \in Begun
    BY TypedBegun DEF Begun
  <2> QED BY <1>4, <2>1, TypedInside DEF ReadOrder
<1> QED BY <1>1, <1>2, <1>3, <1>4

LEMMA LaterTyped ==
  ASSUME StatementsTypeOK, StatementsInv, LedgerInv, AtomicInv, NEW t \in Transactions,
         CompleteOrder(t) \/ SumRewards(t) \/ IncrementWallet(t) \/ CreditWallet(t)
  PROVE  StatementsTypeOK'
<1>o. txn[t].at # "idle"
  BY DEF CompleteOrder, SumRewards, IncrementWallet, CreditWallet
<1>p. PaymentOf(t) = txn[t].payment /\ txn[t].payment \in Payments
  BY <1>o, TypedBegun DEF PaymentOf
<1>g. GiveUp(t) /\ UNCHANGED Committed => StatementsTypeOK'
  BY TypedGiveUp
<1>1. CASE CompleteOrder(t)
  <2> DEFINE m == [txn[t] EXCEPT !.at = "reward", !.completes = TRUE,
                     !.held = txn[t].held \cup {<<"order", OrderFor(t)>>}]
             k == [txn[t] EXCEPT !.at = "commit"]
  <2>1. OrderFor(t) \in Orders
    BY <1>1, OfOne, StatementsAssumption DEF CompleteOrder, SettlingOrder, Settling, OrderFor
  <2>2. <<"order", OrderFor(t)>> \in Lockable
    BY <2>1 DEF Lockable
  <2>3. txn[t].held \cup {<<"order", OrderFor(t)>>} \in SUBSET Lockable
    BY <2>2, TypedBegun DEF Begun
  <2>4. m \in Begun /\ k \in Begun
    BY <2>3, TypedBegun DEF Begun
  <2>5. /\ txn' = [txn EXCEPT ![t] = m] \/ txn' = [txn EXCEPT ![t] = k] \/ GiveUp(t)
        /\ UNCHANGED Committed
    BY <1>1 DEF CompleteOrder, Completed
  <2> HIDE DEF m, k
  <2> QED BY <2>4, <2>5, <1>g, TypedInside
<1>2. CASE SumRewards(t)
  <2> DEFINE reward == [user |-> Referrer[Payer[PaymentOf(t)]], kind |-> "REFERRAL_REWARD",
                        payment |-> PaymentOf(t), amount |-> Commission(t)]
             m == [txn[t] EXCEPT !.at = "increment", !.new = txn[t].new \cup {reward}]
             k == [txn[t] EXCEPT !.at = "commit"]
  <2>1. k \in Begun
    BY TypedBegun DEF Begun
  <2>2. Referrer[Payer[PaymentOf(t)]] # NoUser => m \in Begun
    <3>1. SUFFICES ASSUME Referrer[Payer[PaymentOf(t)]] # NoUser PROVE m \in Begun
      OBVIOUS
    <3>2. reward \in LedgerRow
      BY <1>p, <3>1, CommissionType DEF LedgerRow
    <3> HIDE DEF reward
    <3>3. txn[t].new \cup {reward} \in SUBSET LedgerRow
      BY <3>2, TypedBegun DEF Begun
    <3> QED BY <3>3, TypedBegun DEF Begun
  <2>3. /\ \/ txn' = [txn EXCEPT ![t] = k]
           \/ Referrer[Payer[PaymentOf(t)]] # NoUser /\ txn' = [txn EXCEPT ![t] = m]
        /\ UNCHANGED Committed
    BY <1>2 DEF SumRewards
  <2> HIDE DEF m, k
  <2> QED BY <2>1, <2>2, <2>3, TypedInside
<1>3. CASE IncrementWallet(t)
  <2> DEFINE u == Referrer[Payer[PaymentOf(t)]]
             m == [txn[t] EXCEPT !.at = "commit", !.held = txn[t].held \cup {<<"wallet", u>>}]
  <2>1. u \in Users
    <3>1. Referrer[Payer[PaymentOf(t)]] # NoUser
      BY <1>3, <1>p DEF IncrementWallet, AtomicInv, TxnFits, IncrementFits
    <3> QED BY <3>1, <1>p, StatementsAssumption
  <2>2. <<"wallet", u>> \in Lockable
    BY <2>1 DEF Lockable
  <2>3. txn[t].held \cup {<<"wallet", u>>} \in SUBSET Lockable
    BY <2>2, TypedBegun DEF Begun
  <2>4. m \in Begun
    BY <2>3, TypedBegun DEF Begun
  <2> QED BY <1>3, <2>4, TypedInside DEF IncrementWallet
<1>4. CASE CreditWallet(t)
  <2> DEFINE m == [txn[t] EXCEPT !.at = "commit", !.read = purse[Payer[PaymentOf(t)]],
                     !.held = txn[t].held \cup {<<"wallet", Payer[PaymentOf(t)]>>},
                     !.new = {Deposit(t)} \ rows]
  <2>1. txn[t].held \cup {<<"wallet", Payer[PaymentOf(t)]>>} \in SUBSET Lockable
    BY <1>o, <1>p, TypedBegun DEF Begun
  <2>2. Amount[PaymentOf(t)] \in Int
    BY <1>p, StatementsAssumption
  <2>3. {Deposit(t)} \ rows \in SUBSET LedgerRow
    <3>1. Payer[PaymentOf(t)] \in Users
      BY <1>p, StatementsAssumption
    <3>2. Deposit(t) \in LedgerRow
      BY <1>p, <2>2, <3>1 DEF Deposit, LedgerRow
    <3> QED BY <3>2
  <2>4. purse[Payer[PaymentOf(t)]] \in Int
    BY <1>o, <1>p, TypedBegun
  <2>5. m \in Begun
    BY <2>1, <2>3, <2>4, TypedBegun DEF Begun
  <2> QED BY <1>4, <2>5, TypedInside DEF CreditWallet
<1> QED BY <1>1, <1>2, <1>3, <1>4

LEMMA CommitTyped ==
  ASSUME StatementsTypeOK, StatementsInv, LedgerInv, NEW t \in Transactions, Commit(t)
  PROVE  StatementsTypeOK'
<1>1. purse' \in [Users -> Int]
  <2>1. purse' = [u \in Users |-> NewBalance(t, u)]
    BY DEF Commit
  <2>2. \A u \in Users : purse'[u] \in Int
    BY CommitBalance
  <2> QED BY <2>1, <2>2
<1>2. rows' \subseteq LedgerRow
  BY DEF Commit, StatementsTypeOK, Begun
<1>3. txn' \in [Transactions -> Begun]
  BY TypedBegun DEF Commit, StatementsTypeOK
<1> QED BY <1>1, <1>2, <1>3, CommitEffect DEF StatementsTypeOK

LEMMA TypesStep ==
  StatementsTypeOK /\ StatementsInv /\ LedgerInv /\ AtomicInv /\ [StatementsNext]_statementVars
    => StatementsTypeOK'
<1> SUFFICES ASSUME StatementsTypeOK, StatementsInv, LedgerInv, AtomicInv,
                    [StatementsNext]_statementVars
             PROVE  StatementsTypeOK'
  OBVIOUS
<1>1. ASSUME NEW t \in Transactions, NEW p \in Payments,
             StartSettlement(t, p) \/ StartWalletPayment(t, p)
      PROVE  StatementsTypeOK'
  BY <1>1, StartTyped
<1>2. ASSUME NEW t \in Transactions,
             \/ ReadPayment(t) \/ ClaimPayment(t) \/ DebitWallet(t) \/ ReadOrder(t)
             \/ CompleteOrder(t) \/ SumRewards(t) \/ IncrementWallet(t) \/ CreditWallet(t)
      PROVE  StatementsTypeOK'
  BY <1>2, StatementTyped, LaterTyped
<1>3. ASSUME NEW t \in Transactions, Commit(t)
      PROVE  StatementsTypeOK'
  BY <1>3, CommitTyped
<1>4. ASSUME NEW t \in Transactions, RollBack(t)
      PROVE  StatementsTypeOK'
  BY <1>4, TypedGiveUp DEF RollBack
<1>5. ASSUME NEW p \in Payments, RefusePayment(p)
      PROVE  StatementsTypeOK'
  BY <1>5 DEF RefusePayment, StatementsTypeOK
<1>6. ASSUME NEW o \in Orders, CancelOrder(o)
      PROVE  StatementsTypeOK'
  BY <1>6 DEF CancelOrder, StatementsTypeOK
<1>7. CASE UNCHANGED statementVars
  BY <1>7 DEF statementVars, StatementsTypeOK
<1> QED BY <1>1, <1>2, <1>3, <1>4, <1>5, <1>6, <1>7 DEF StatementsNext

\* The four invariants together.
LEMMA AllInductive ==
  /\ StatementsInit => StatementsInv /\ LedgerInv /\ AtomicInv /\ StatementsTypeOK
  /\ StatementsInv /\ LedgerInv /\ AtomicInv /\ StatementsTypeOK /\ [StatementsNext]_statementVars
       => (StatementsInv /\ LedgerInv /\ AtomicInv /\ StatementsTypeOK)'
BY StatementsInitially, LedgerStart, AtomicStart, TypesInitially,
   StatementsStep, LedgerStep, AtomicStep, TypesStep

\* Balances, rows, locks and what a transaction remembers keep their types,
\* whatever is rolled back.
THEOREM StatementTypesKept == StatementsSpec => []StatementsTypeOK
<1> QED BY AllInductive, PTL DEF StatementsSpec

-----------------------------------------------------------------------------
(* The refinement of AtomicSettlement.                                     *)

\* A wallet changes by the rows that are new.
LEMMA CommitBooks ==
  ASSUME StatementsInv, LedgerInv, NEW t \in Transactions, Commit(t)
  PROVE  Atomic!Book(txn[t].new)
<1>1. purse' = [u \in Users |-> NewBalance(t, u)] /\ rows' = rows \cup txn[t].new
  BY DEF Commit
<1>2. ASSUME NEW u \in Users
      PROVE  NewBalance(t, u) = purse[u] + Atomic!Total({r \in txn[t].new : r.user = u})
  <2> DEFINE own == {r \in txn[t].new : r.user = u}
  <2>1. purse[u] \in Int
    BY DEF LedgerInv, RowsAddUp
  <2>2. CASE own = {}
    <3>1. Atomic!Total(own) = 0
      BY <2>2, FS_EmptySet, AtomicTotal, BalanceOfNone
    <3>2. NewBalance(t, u) = purse[u]
      BY <2>2 DEF NewBalance
    <3> QED BY <3>1, <3>2, <2>1
  <2>3. CASE own # {}
    <3>1. PICK r \in txn[t].new : r.user = u /\ own = {r}
      BY <2>3 DEF LedgerInv, NewRows
    <3>2. NewRow(txn[t], r) /\ r.amount \in Int
      BY DEF LedgerInv, NewRows, NewRow
    <3>3. MapThenSumSet(LAMBDA q : q.amount, own) = r.amount /\ Atomic!Total(own) = r.amount
      <4>1. IsFiniteSet({r}) /\ Balance({r}) = r.amount
        BY <3>2, BalanceOfOne, FS_Singleton
      <4> QED BY <3>1, <4>1, RowSum, AtomicTotal
    <3>4. CASE r.kind = "REFERRAL_REWARD"
      BY <3>1, <3>3, <3>4 DEF NewBalance
    <3>5. CASE r.kind # "REFERRAL_REWARD"
      <4>1. txn[t].read = purse[u]
        BY <3>1, <3>2, <3>5 DEF NewRow, PayerRow, RewardRow
      <4> QED BY <3>1, <3>3, <3>5, <4>1 DEF NewBalance
    <3> QED BY <3>4, <3>5
  <2> QED BY <2>2, <2>3
<1> QED BY <1>1, <1>2 DEF Atomic!Book

LEMMA BookNothing ==
  ASSUME StatementsTypeOK, Atomic!Book({})
  PROVE  UNCHANGED <<purse, rows>>
<1>1. Atomic!Total({}) = 0
  BY AtomicTotal, FS_EmptySet, BalanceOfNone
<1>2. \A u \in Users : {r \in {} : r.user = u} = {}
  OBVIOUS
<1>3. purse' = [u \in Users |-> purse[u] + 0]
  BY <1>1, <1>2 DEF Atomic!Book
<1>4. purse \in [Users -> Int]
  BY DEF StatementsTypeOK
<1>5. purse' = purse
  BY <1>3, <1>4
<1> QED BY <1>5 DEF Atomic!Book

\* A commit settles its payment on the state it finds.
LEMMA CommitIsAtomic ==
  ASSUME StatementsInv, LedgerInv, AtomicInv, StatementsTypeOK,
         NEW t \in Transactions, Commit(t)
  PROVE  Atomic!Next \/ UNCHANGED Atomic!vars
<1> DEFINE p == txn[t].payment
           o == OrderOf[txn[t].payment]
<1>1. /\ CommitsRows(t) /\ Written(t) /\ Atomic!Book(txn[t].new) /\ p \in Payments
      /\ SettlingOrder(txn[t]) \/ SettlingDeposit(txn[t])
      /\ txn[t].at = "commit" /\ TxnFits(txn[t])
  BY CommitEffect, CommitWrites, CommitBooks, OfOne DEF Commit, AtomicInv
<1>s. Settling(txn[t])
  BY <1>1 DEF SettlingOrder, SettlingDeposit
<1>2. CASE ~txn[t].confirms
  <2>1. paid[p] = "CONFIRMED" /\ ~txn[t].completes /\ paid' = paid
    BY <1>2, <1>s DEF Settling, Completing, Commit
  <2>2. p \notin ByWallet
    BY <1>1, <2>1 DEF TxnFits, WalletFits
  <2>3. txn[t].new = {}
    BY <1>1, <1>2, <2>1, <2>2, NothingWritten DEF Written
  <2>4. UNCHANGED <<purse, rows>>
    BY <1>1, <2>3, BookNothing
  <2> QED BY <2>1, <2>4 DEF Commit, Atomic!vars
<1>3. CASE txn[t].confirms
  <2>1. Atomic!Confirm(p)
    BY <1>3, <1>s DEF Settling, Confirming, Commit, PaymentOf, Atomic!Confirm
  <2>2. CASE txn[t].completes
    <3>1. /\ o \in Orders /\ o # NoOrder /\ placed[o] = "PENDING"
          /\ placed' = [placed EXCEPT ![o] = "COMPLETED"]
          /\ granted' = [granted EXCEPT ![o] = @ + 1]
      BY <1>1, <1>s, <2>2 DEF CommitsRows, Settling, Completing, Commit, OrderFor
    <3>2. \E a \in Atomic!Rewards(p) : Atomic!Book(Atomic!Purchases(p) \cup Atomic!Bonuses(p, a))
      BY <1>1, <2>2, <3>1 DEF Written
    <3>3. p \in ByWallet => purse[Payer[p]] >= Amount[p]
      <4>1. SUFFICES ASSUME p \in ByWallet PROVE purse[Payer[p]] >= Amount[p]
        OBVIOUS
      <4>2. txn[t].read >= Amount[p]
        BY <1>1, <4>1 DEF TxnFits, WalletFits
      <4>3. PICK r \in txn[t].new : r.kind = "PURCHASE" /\ r.user = Payer[p]
        <5> DEFINE row == Atomic!Row(Payer[p], "PURCHASE", p, -Amount[p])
        <5>1. row \in Atomic!Purchases(p)
          BY <4>1 DEF Atomic!Purchases
        <5>2. Atomic!Purchases(p) \subseteq txn[t].new
          BY <1>1, <3>1 DEF Written
        <5>3. row.kind = "PURCHASE" /\ row.user = Payer[p]
          BY DEF Atomic!Row
        <5> QED BY <5>1, <5>2, <5>3
      <4>4. txn[t].read = purse[Payer[p]]
        <5>1. NewRow(txn[t], r)
          BY DEF LedgerInv, NewRows
        <5> QED BY <4>3, <5>1 DEF NewRow, PayerRow, RewardRow
      <4> QED BY <4>2, <4>4
    <3>4. Atomic!FulfilOrder(p)
      BY <2>1, <3>1, <3>2, <3>3 DEF Atomic!FulfilOrder
    <3> QED BY <1>1, <3>4 DEF Atomic!Next
  <2>3. CASE ~txn[t].completes
    <3>1. UNCHANGED <<placed, granted>>
      BY <2>3 DEF Commit
    <3>2. CASE o = NoOrder
      <4>1. txn[t].new = {Atomic!Row(Payer[p], "DEPOSIT", p, Amount[p])}
        BY <1>1, <1>3, <3>2 DEF Written, DepositOf, Atomic!Row
      <4>2. Atomic!CreditDeposit(p)
        BY <1>1, <2>1, <3>1, <3>2, <4>1 DEF Atomic!CreditDeposit
      <4> QED BY <1>1, <4>2 DEF Atomic!Next
    <3>3. CASE o # NoOrder
      <4>1. p \notin ByWallet
        BY <1>1, <2>3 DEF TxnFits, WalletFits
      <4>2. txn[t].new = {}
        BY <1>1, <2>3, <3>3, <4>1, NothingWritten DEF Written
      <4>3. UNCHANGED <<purse, rows>>
        BY <1>1, <4>2, BookNothing
      <4>4. granted[o] = 1
        BY <1>1, <2>3, <3>3 DEF SettlingOrder, SettlingDeposit
      <4>5. Atomic!PayGrantedOrder(p)
        BY <2>1, <3>1, <3>3, <4>1, <4>3, <4>4 DEF Atomic!PayGrantedOrder
      <4> QED BY <1>1, <4>5 DEF Atomic!Next
    <3> QED BY <3>2, <3>3
  <2> QED BY <2>2, <2>3
<1> QED BY <1>2, <1>3

\* The other statements commit nothing.
LEMMA OnlyCommitsChange ==
  ASSUME [StatementsNext]_statementVars
  PROVE  \/ \E t \in Transactions : Commit(t)
         \/ \E p \in Payments : RefusePayment(p)
         \/ \E o \in Orders : CancelOrder(o)
         \/ UNCHANGED Committed
<1>1. ASSUME NEW t \in Transactions, NEW p \in Payments,
             StartSettlement(t, p) \/ StartWalletPayment(t, p)
      PROVE  UNCHANGED Committed
  BY <1>1 DEF StartSettlement, StartWalletPayment
<1>2. ASSUME NEW t \in Transactions,
             \/ ReadPayment(t) \/ ClaimPayment(t) \/ DebitWallet(t) \/ ReadOrder(t)
             \/ CompleteOrder(t) \/ SumRewards(t) \/ IncrementWallet(t) \/ CreditWallet(t)
             \/ RollBack(t)
      PROVE  UNCHANGED Committed
  BY <1>2 DEF ReadPayment, ClaimPayment, DebitWallet, ReadOrder, CompleteOrder, SumRewards,
              IncrementWallet, CreditWallet, RollBack
<1>3. CASE UNCHANGED statementVars
  BY <1>3 DEF statementVars, Committed
<1> QED BY <1>1, <1>2, <1>3 DEF StatementsNext

\* Every commit is one settlement on the state it commits to: no refusal,
\* cancellation, debit or grant slips in between what a transaction read and
\* what it writes. Only the referrer's reward may be that of an earlier state,
\* and then it is more than the cap leaves, never less.
THEOREM SettlementsAreAtomic == StatementsSpec => StatementsRefineAtomicSettlement
<1>1. StatementsInit => Atomic!Init
  BY DEF StatementsInit, Atomic!Init
<1>2. ASSUME StatementsInv, LedgerInv, AtomicInv, StatementsTypeOK, [StatementsNext]_statementVars
      PROVE  [Atomic!Next]_(Atomic!vars)
  <2>1. ASSUME NEW t \in Transactions, Commit(t)
        PROVE  [Atomic!Next]_(Atomic!vars)
    BY <1>2, <2>1, CommitIsAtomic
  <2>2. ASSUME NEW p \in Payments, RefusePayment(p)
        PROVE  Atomic!Next
    BY <2>2 DEF RefusePayment, Atomic!RefusePayment, Atomic!Next
  <2>3. ASSUME NEW o \in Orders, CancelOrder(o)
        PROVE  Atomic!Next
    BY <2>3 DEF CancelOrder, Atomic!CancelOrder, Atomic!Next
  <2>4. CASE UNCHANGED Committed
    BY <2>4 DEF Committed, Atomic!vars
  <2> QED BY <1>2, <2>1, <2>2, <2>3, <2>4, OnlyCommitsChange
<1> QED BY <1>1, <1>2, AllInductive, PTL
        DEF StatementsSpec, StatementsRefineAtomicSettlement, Atomic!Spec

\* A wallet is never overdrawn.
NoOverdraft == \A u \in Users : purse[u] >= 0

\* What a row of a commit does to a wallet leaves it in credit.
LEMMA RowAffords ==
  ASSUME StatementsInv, LedgerInv, AtomicInv, StatementsTypeOK, NoOverdraft,
         NEW t \in Transactions, Commit(t), NEW r \in txn[t].new
  PROVE  r.user \in Users /\ r.amount \in Int /\ purse[r.user] + r.amount >= 0
<1> DEFINE p == txn[t].payment
<1>1. /\ Written(t) /\ p \in Payments /\ NewRow(txn[t], r) /\ TxnFits(txn[t])
      /\ r.user \in Users /\ r.amount \in Int
  BY CommitWrites DEF LedgerInv, NewRows, NewRow, AtomicInv
<1>2. purse[r.user] \in Int /\ purse[r.user] >= 0 /\ Amount[p] \in Nat
  BY <1>1, StatementsAssumption DEF StatementsTypeOK, NoOverdraft
<1>3. CASE r \in Atomic!Purchases(p)
  <2>1. p \in ByWallet /\ r.amount = -Amount[p] /\ r.kind = "PURCHASE"
    BY <1>3 DEF Atomic!Purchases, Atomic!Row
  <2>2. txn[t].read >= Amount[p] /\ txn[t].read = purse[r.user]
    BY <1>1, <2>1 DEF Commit, TxnFits, WalletFits, NewRow, PayerRow, RewardRow
  <2> QED BY <1>1, <1>2, <2>1, <2>2
<1>4. CASE r.amount \in Nat
  BY <1>1, <1>2, <1>4
<1>5. ASSUME NEW a \in Atomic!Rewards(p) \cup {0}, r \in Atomic!Bonuses(p, a)
      PROVE  r.amount \in Nat
  BY <1>1, <1>5, RewardsAreNat DEF Atomic!Bonuses, Atomic!Row
<1>6. r = DepositOf(p) => r.amount \in Nat
  BY <1>2 DEF DepositOf
<1> QED BY <1>1, <1>3, <1>4, <1>5, <1>6 DEF Written

\* No interleaving overdraws a wallet: the check of a debit, made under the lock of the
\* row, still holds when the debit is committed.
THEOREM WalletsAreNotOverdrawn == StatementsSpec => []NoOverdraft
<1>1. StatementsInit => NoOverdraft
  BY StatementsAssumption DEF StatementsInit, NoOverdraft
<1>2. ASSUME StatementsInv, LedgerInv, AtomicInv, StatementsTypeOK, NoOverdraft,
             [StatementsNext]_statementVars
      PROVE  NoOverdraft'
  <2>1. CASE UNCHANGED purse
    BY <1>2, <2>1 DEF NoOverdraft
  <2>2. ASSUME NEW t \in Transactions, Commit(t), NEW u \in Users
        PROVE  purse'[u] >= 0
    <3> DEFINE own == {r \in txn[t].new : r.user = u}
    <3>1. purse'[u] = purse[u] + Atomic!Total(own) /\ purse[u] \in Int /\ purse[u] >= 0
      BY <1>2, <2>2, CommitBooks DEF Atomic!Book, StatementsTypeOK, NoOverdraft
    <3>2. CASE own = {}
      <4>1. Atomic!Total(own) = 0
        BY <3>2, FS_EmptySet, AtomicTotal, BalanceOfNone
      <4> QED BY <3>1, <4>1
    <3>3. CASE own # {}
      <4>1. PICK r \in txn[t].new : r.user = u /\ own = {r}
        BY <1>2, <3>3 DEF LedgerInv, NewRows
      <4>2. r.amount \in Int /\ purse[u] + r.amount >= 0
        BY <1>2, <2>2, <4>1, RowAffords
      <4>3. IsFiniteSet({r}) /\ Balance({r}) = r.amount
        BY <4>2, BalanceOfOne, FS_Singleton
      <4>4. Atomic!Total(own) = r.amount
        BY <4>1, <4>3, AtomicTotal
      <4> QED BY <3>1, <4>2, <4>4
    <3> QED BY <3>2, <3>3
  <2> QED BY <1>2, <2>1, <2>2, OnlyCommitsChange DEF NoOverdraft, Committed, RefusePayment,
      CancelOrder
<1> QED BY <1>1, <1>2, AllInductive, PTL DEF StatementsSpec
=============================================================================
