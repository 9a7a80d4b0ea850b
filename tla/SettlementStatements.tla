------------------------ MODULE SettlementStatements ------------------------
(***************************************************************************)
(* A settlement as the SQL statements of its transaction: what Settlement  *)
(* takes for one step.  PostgreSQL runs a $transaction READ COMMITTED: a   *)
(* read sees the last commit, an UPDATE or SELECT FOR UPDATE waits for the *)
(* row and then looks at its newest version, an aggregate locks nothing.   *)
(* The writes of a transaction appear at its commit; at any moment before, *)
(* a refusal, a crash or a lost connection takes all of them back.         *)
(*                                                                         *)
(* Left out, because no property here is about them: the gateway columns a *)
(* repeated callback writes, and the rows of subscriptions. The receipts,  *)
(* and submitReceipt's second write, are Settlement's.                     *)
(***************************************************************************)
EXTENDS Integers, FiniteSets, FiniteSetsExt

CONSTANTS
  Users, Orders, Payments, Transactions,
  NoUser, NoOrder, NoPayment, TopUp, Unsettled,
  OrderOf,            \* payment -> its order, NoOrder for a wallet deposit
  Payer,              \* payment -> the user who makes it
  ByWallet,           \* payments made from the wallet
  Amount,             \* payment -> its amount, of an order its totalAmount
  Referrer,           \* user -> who referred it, or NoUser
  Opening,            \* balance of every wallet at first
  CommissionPercent, MaxBonus   \* referral.commissionPercent, referral.maxBonus

ASSUME StatementsAssumption ==
  /\ NoUser \notin Users /\ NoOrder \notin Orders /\ NoPayment \notin Payments
  /\ TopUp \notin Orders /\ Unsettled \notin Orders \cup {TopUp}
  /\ OrderOf \in [Payments -> Orders \cup {NoOrder}]
  /\ Payer \in [Payments -> Users]
  /\ ByWallet \subseteq {p \in Payments : OrderOf[p] # NoOrder}
  /\ Amount \in [Payments -> Nat] /\ Opening \in Nat
  /\ Referrer \in [Users -> Users \cup {NoUser}] /\ \A u \in Users : Referrer[u] # u
  /\ CommissionPercent \in 0..100 /\ MaxBonus \in Nat

VARIABLES
  paid,     \* payments.status, of the last commit, as all but txn
  placed,   \* orders.status
  granted,  \* order -> plans granted for it
  purse,    \* wallets.balance
  rows,     \* wallet_transactions
  txn       \* transaction -> where it is, what it read and locked, what it will write

statementVars == <<paid, placed, granted, purse, rows, txn>>

Lockable == {"payment"} \X Payments \cup {"order"} \X Orders \cup {"wallet"} \X Users
LedgerRow == [user : Users, kind : {"PURCHASE", "DEPOSIT", "REFERRAL_REWARD"},
              payment : Payments, amount : Int]
Begun == [at : {"idle", "payment", "claim", "order", "complete", "reward",
                "increment", "debit", "deposit", "commit"},
          payment : Payments \cup {NoPayment},
          held : SUBSET Lockable,
          confirms : BOOLEAN, completes : BOOLEAN,
          read : Int,              \* the balance a wallet mutation read
          new : SUBSET LedgerRow]  \* wallet_transactions it inserts
NoTransaction == [at |-> "idle", payment |-> NoPayment, held |-> {}, confirms |-> FALSE,
         completes |-> FALSE, read |-> 0, new |-> {}]

StatementsTypeOK ==
  /\ paid \in [Payments -> {"NONE", "PENDING", "CONFIRMED", "REJECTED"}]
  /\ placed \in [Orders -> {"PENDING", "COMPLETED", "CANCELLED"}]
  /\ granted \in [Orders -> Nat]
  /\ purse \in [Users -> Int]
  /\ rows \subseteq LedgerRow
  /\ txn \in [Transactions -> Begun]

StatementsInit ==
  /\ paid = [p \in Payments |-> IF p \in ByWallet THEN "NONE" ELSE "PENDING"]
  /\ placed = [o \in Orders |-> "PENDING"]
  /\ granted = [o \in Orders |-> 0]
  /\ purse = [u \in Users |-> Opening]
  /\ rows = {}
  /\ txn = [t \in Transactions |-> NoTransaction]

Committed == <<paid, placed, granted, purse, rows>>
PaymentOf(t) == txn[t].payment
OrderFor(t) == OrderOf[txn[t].payment]
FreeFor(row, t) == \A s \in Transactions \ {t} : row \notin txn[s].held
GiveUp(t) == txn' = [txn EXCEPT ![t] = NoTransaction]

-----------------------------------------------------------------------------
(* settlePaymentInTransaction of a payment made elsewhere: read it, claim  *)
(* it unless it is CONFIRMED; a claim that finds nothing to update reads   *)
(* again.                                                                  *)
StartSettlement(t, p) ==
  /\ txn[t].at = "idle" /\ p \notin ByWallet
  /\ txn' = [txn EXCEPT ![t] = [@ EXCEPT !.at = "payment", !.payment = p]]
  /\ UNCHANGED Committed

WhatIsPaid(t) == IF OrderFor(t) = NoOrder THEN "deposit" ELSE "order"

ReadPayment(t) ==
  /\ txn[t].at = "payment"
  /\ txn' = [txn EXCEPT ![t].at =
               IF paid[PaymentOf(t)] = "CONFIRMED" THEN WhatIsPaid(t) ELSE "claim"]
  /\ UNCHANGED Committed

\* mutant: the claim is keyed by id alone, as if nothing could be refused meanwhile
ClaimByRead(t) ==
  /\ txn[t].at = "claim"
  /\ FreeFor(<<"payment", PaymentOf(t)>>, t)
  /\ txn' = [txn EXCEPT ![t] = [@ EXCEPT !.at = WhatIsPaid(t), !.confirms = TRUE,
                   !.held = txn[t].held \cup {<<"payment", PaymentOf(t)>>}]]
  /\ UNCHANGED Committed

ClaimPayment(t) ==
  /\ txn[t].at = "claim"
  /\ FreeFor(<<"payment", PaymentOf(t)>>, t)
  /\ CASE paid[PaymentOf(t)] = "PENDING" ->
            txn' = [txn EXCEPT ![t] = [@ EXCEPT !.at = WhatIsPaid(t), !.confirms = TRUE,
                        !.held = txn[t].held \cup {<<"payment", PaymentOf(t)>>}]]
       [] paid[PaymentOf(t)] = "CONFIRMED" ->
            txn' = [txn EXCEPT ![t].at = WhatIsPaid(t)]
       [] OTHER -> GiveUp(t)
  /\ UNCHANGED Committed

(* payOrderWithWallet locks the order, refuses it unless PENDING, creates  *)
(* the payment and debits the wallet under its lock.                       *)
StartWalletPayment(t, p) ==
  /\ txn[t].at = "idle"
  /\ p \in ByWallet /\ paid[p] = "NONE"
  /\ \A s \in Transactions : PaymentOf(s) # p
  /\ FreeFor(<<"order", OrderOf[p]>>, t)
  /\ placed[OrderOf[p]] = "PENDING"
  /\ txn' = [txn EXCEPT ![t] = [@ EXCEPT !.at = "debit", !.payment = p,
                                         !.held = {<<"order", OrderOf[p]>>}]]
  /\ UNCHANGED Committed

Purchase(t) == [user |-> Payer[PaymentOf(t)], kind |-> "PURCHASE",
                payment |-> PaymentOf(t), amount |-> -Amount[PaymentOf(t)]]
Funded(t) == purse[Payer[PaymentOf(t)]] >= Amount[PaymentOf(t)]
Debited(t) ==
  IF Funded(t)
  THEN txn' = [txn EXCEPT ![t] = [@ EXCEPT !.at = "order", !.confirms = TRUE,
         !.read = purse[Payer[PaymentOf(t)]], !.new = {Purchase(t)},
         !.held = txn[t].held \cup {<<"wallet", Payer[PaymentOf(t)]>>}]]
  ELSE GiveUp(t)

\* mutant: the balance is read without SELECT FOR UPDATE
DebitUnlocked(t) == txn[t].at = "debit" /\ Debited(t) /\ UNCHANGED Committed

DebitWallet(t) ==
  /\ txn[t].at = "debit"
  /\ FreeFor(<<"wallet", Payer[PaymentOf(t)]>>, t)
  /\ Debited(t)
  /\ UNCHANGED Committed

(* completeOrderInTransaction: read the order, claim it unless COMPLETED;  *)
(* a claim that finds nothing to update reads again.                       *)
ReadOrder(t) ==
  /\ txn[t].at = "order"
  /\ txn' = [txn EXCEPT ![t].at =
               IF placed[OrderFor(t)] = "COMPLETED" THEN "commit" ELSE "complete"]
  /\ UNCHANGED Committed

Completed(t) ==
  txn' = [txn EXCEPT ![t] = [@ EXCEPT !.at = "reward", !.completes = TRUE,
                                      !.held = txn[t].held \cup {<<"order", OrderFor(t)>>}]]

\* mutant: the update is keyed by id alone
CompleteByRead(t) ==
  /\ txn[t].at = "complete" /\ FreeFor(<<"order", OrderFor(t)>>, t)
  /\ Completed(t)
  /\ UNCHANGED Committed

CompleteOrder(t) ==
  /\ txn[t].at = "complete"
  /\ FreeFor(<<"order", OrderFor(t)>>, t)
  /\ CASE placed[OrderFor(t)] = "PENDING" -> Completed(t)
       [] placed[OrderFor(t)] = "COMPLETED" -> txn' = [txn EXCEPT ![t].at = "commit"]
       [] OTHER -> GiveUp(t)
  /\ UNCHANGED Committed

(* creditReferralCommission: the rewards so far are summed without a lock, *)
(* the reward is what is left of the bonus, and the wallet is incremented. *)
Earned(u) == MapThenSumSet(LAMBDA r : r.amount,
                           {r \in rows : r.user = u /\ r.kind = "REFERRAL_REWARD"})
Smaller(a, b) == IF a <= b THEN a ELSE b
Commission(t) ==
  LET due == (Amount[PaymentOf(t)] * CommissionPercent) \div 100
  IN  IF MaxBonus > 0 THEN Smaller(due, MaxBonus - Earned(Referrer[Payer[PaymentOf(t)]])) ELSE due

SumRewards(t) ==
  /\ txn[t].at = "reward"
  /\ IF Referrer[Payer[PaymentOf(t)]] = NoUser \/ Commission(t) <= 0
     THEN txn' = [txn EXCEPT ![t].at = "commit"]
     ELSE txn' = [txn EXCEPT ![t] = [@ EXCEPT !.at = "increment",
            !.new = txn[t].new \cup {[user |-> Referrer[Payer[PaymentOf(t)]], kind |-> "REFERRAL_REWARD",
                             payment |-> PaymentOf(t), amount |-> Commission(t)]}]]
  /\ UNCHANGED Committed

IncrementWallet(t) ==
  /\ txn[t].at = "increment"
  /\ FreeFor(<<"wallet", Referrer[Payer[PaymentOf(t)]]>>, t)
  /\ txn' = [txn EXCEPT ![t] = [@ EXCEPT !.at = "commit",
                        !.held = txn[t].held \cup {<<"wallet", Referrer[Payer[PaymentOf(t)]]>>}]]
  /\ UNCHANGED Committed

(* A top-up: mutateBalanceInTransaction locks the wallet, then returns if  *)
(* the payment has its row.                                                *)
Deposit(t) == [user |-> Payer[PaymentOf(t)], kind |-> "DEPOSIT",
               payment |-> PaymentOf(t), amount |-> Amount[PaymentOf(t)]]
CreditWallet(t) ==
  /\ txn[t].at = "deposit"
  /\ FreeFor(<<"wallet", Payer[PaymentOf(t)]>>, t)
  /\ txn' = [txn EXCEPT ![t] = [@ EXCEPT !.at = "commit", !.read = purse[Payer[PaymentOf(t)]],
                        !.held = txn[t].held \cup {<<"wallet", Payer[PaymentOf(t)]>>},
                        !.new = {Deposit(t)} \ rows]]
  /\ UNCHANGED Committed

(* The payer's balance is written as the value read plus the amount; the   *)
(* referrer's is an increment.                                             *)
NewBalance(t, u) ==
  LET own == {r \in txn[t].new : r.user = u}
      rewarded == \E r \in own : r.kind = "REFERRAL_REWARD"
      sum == MapThenSumSet(LAMBDA r : r.amount, own)
  IN  CASE own = {} -> purse[u]
        [] rewarded -> purse[u] + sum
        [] OTHER -> txn[t].read + sum

Commit(t) ==
  /\ txn[t].at = "commit"
  /\ paid' = IF txn[t].confirms THEN [paid EXCEPT ![PaymentOf(t)] = "CONFIRMED"] ELSE paid
  /\ IF txn[t].completes
     THEN /\ placed' = [placed EXCEPT ![OrderFor(t)] = "COMPLETED"]
          /\ granted' = [granted EXCEPT ![OrderFor(t)] = @ + 1]
     ELSE UNCHANGED <<placed, granted>>
  /\ purse' = [u \in Users |-> NewBalance(t, u)]
  /\ rows' = rows \cup txn[t].new
  /\ txn' = [txn EXCEPT ![t] = NoTransaction]

RollBack(t) == txn[t].at # "idle" /\ GiveUp(t) /\ UNCHANGED Committed

(* Single statements of other handlers.                                    *)
RefusePayment(p) ==
  /\ paid[p] = "PENDING" /\ \A t \in Transactions : <<"payment", p>> \notin txn[t].held
  /\ paid' = [paid EXCEPT ![p] = "REJECTED"]
  /\ UNCHANGED <<placed, granted, purse, rows, txn>>
\* cancel updates by id alone an order it may have read, as PENDING, at first.
CancelOrder(o) ==
  /\ \A t \in Transactions : <<"order", o>> \notin txn[t].held
  /\ placed' = [placed EXCEPT ![o] = "CANCELLED"]
  /\ UNCHANGED <<paid, granted, purse, rows, txn>>

StatementsNext ==
  \/ \E t \in Transactions :
       \/ \E p \in Payments : StartSettlement(t, p) \/ StartWalletPayment(t, p)
       \/ ReadPayment(t) \/ ClaimPayment(t) \/ DebitWallet(t)
       \/ ReadOrder(t) \/ CompleteOrder(t) \/ SumRewards(t) \/ IncrementWallet(t)
       \/ CreditWallet(t) \/ Commit(t) \/ RollBack(t)
  \/ \E p \in Payments : RefusePayment(p)
  \/ \E o \in Orders : CancelOrder(o)

StatementsSpec == StatementsInit /\ [][StatementsNext]_statementVars

-----------------------------------------------------------------------------
(* However the statements of settlements interleave, and whichever are     *)
(* rolled back, every wallet holds what its ledger rows say: the locked    *)
(* read-and-write of the payer's wallet and the unlocked increment of the  *)
(* referrer's never lose one another's money.                              *)
StatementsKeepLedger ==
  \A u \in Users :
    purse[u] = Opening + MapThenSumSet(LAMBDA r : r.amount, {r \in rows : r.user = u})

(* The statements implement what settlement promises: each payment settles *)
(* once, and grants its order at most once, although two transactions may  *)
(* both have read the order as PENDING.                                    *)
Promised == INSTANCE PaidFulfilment WITH
  purpose <- [p \in Payments |->
                IF paid[p] # "CONFIRMED" THEN Unsettled
                ELSE IF OrderOf[p] = NoOrder THEN TopUp ELSE OrderOf[p]],
  fulfilled <- granted,
  credited <- {p \in Payments : \E r \in rows : r.kind = "DEPOSIT" /\ r.payment = p}
StatementsRefinePaidFulfilment == Promised!Spec

(* Every commit is one settlement on the state it commits to, although its *)
(* statements read earlier ones: no refusal, cancellation, debit or grant  *)
(* of another transaction slips in between what it read and what it        *)
(* writes.  Only the referrer's bonus may be of an earlier state.          *)
Atomic == INSTANCE AtomicSettlement
StatementsRefineAtomicSettlement == Atomic!Spec

(* "Maximum total referral bonus per user" (prisma/seed.ts:112): the       *)
(* rewards of one referrer, whose friends' orders complete at once, stay   *)
(* within referral.maxBonus.                                               *)
RewardsWithinMaxBonus == MaxBonus > 0 => \A u \in Users : Earned(u) <= MaxBonus
=============================================================================
