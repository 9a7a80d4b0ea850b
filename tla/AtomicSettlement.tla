-------------------------- MODULE AtomicSettlement --------------------------
(***************************************************************************)
(* What the statements of a settlement amount to: a settlement is one      *)
(* step, on the state it is committed to.  It confirms its payment and     *)
(* either fulfils the order, with the payer's debit and the referrer's     *)
(* reward, or finds it granted by another payment, or credits a deposit.   *)
(* One thing is not as if it had run alone, the cap on what a referrer     *)
(* earns: rewards that are committed meanwhile may be overlooked, so that  *)
(* a reward is never less than what the cap leaves, and may be more.       *)
(***************************************************************************)
EXTENDS Integers, FiniteSetsExt

CONSTANTS
  Users, Orders, Payments, NoUser, NoOrder,
  OrderOf, Payer, ByWallet, Amount, Referrer,  \* as in SettlementStatements
  Opening, CommissionPercent, MaxBonus

VARIABLES paid, placed, granted, purse, rows

vars == <<paid, placed, granted, purse, rows>>

Init ==
  /\ paid = [p \in Payments |-> IF p \in ByWallet THEN "NONE" ELSE "PENDING"]
  /\ placed = [o \in Orders |-> "PENDING"]
  /\ granted = [o \in Orders |-> 0]
  /\ purse = [u \in Users |-> Opening]
  /\ rows = {}

Total(S) == MapThenSumSet(LAMBDA r : r.amount, S)

\* Rows are written together with what they say of the wallets.
Book(written) ==
  /\ rows' = rows \cup written
  /\ purse' = [u \in Users |-> purse[u] + Total({r \in written : r.user = u})]

Row(u, kind, p, a) == [user |-> u, kind |-> kind, payment |-> p, amount |-> a]
Purchases(p) == {Row(Payer[p], "PURCHASE", p, -Amount[p]) : q \in {p} \cap ByWallet}

Due(p) == (Amount[p] * CommissionPercent) \div 100
CapLeft(u) == MaxBonus - Total({r \in rows : r.user = u /\ r.kind = "REFERRAL_REWARD"})

\* What fulfilling the order of p may earn its payer's referrer.
Rewards(p) ==
  LET referrer == Referrer[Payer[p]]
  IN  CASE referrer = NoUser -> {0}
        [] referrer # NoUser /\ MaxBonus = 0 -> {Due(p)}
        [] referrer # NoUser /\ MaxBonus > 0 ->
             {a \in 0..Due(p) : a <= MaxBonus /\ (a = Due(p) \/ a >= CapLeft(referrer))}
Bonuses(p, a) == IF a = 0 THEN {} ELSE {Row(Referrer[Payer[p]], "REFERRAL_REWARD", p, a)}

-----------------------------------------------------------------------------
Confirm(p) ==
  /\ paid[p] = IF p \in ByWallet THEN "NONE" ELSE "PENDING"
  /\ paid' = [paid EXCEPT ![p] = "CONFIRMED"]

FulfilOrder(p) ==
  /\ Confirm(p)
  /\ OrderOf[p] # NoOrder /\ placed[OrderOf[p]] = "PENDING"
  /\ placed' = [placed EXCEPT ![OrderOf[p]] = "COMPLETED"]
  /\ granted' = [granted EXCEPT ![OrderOf[p]] = @ + 1]
  /\ p \in ByWallet => purse[Payer[p]] >= Amount[p]
  /\ \E a \in Rewards(p) : Book(Purchases(p) \cup Bonuses(p, a))

\* A second payment of an order; it may have been cancelled since it was granted.
PayGrantedOrder(p) ==
  /\ Confirm(p) /\ p \notin ByWallet
  /\ OrderOf[p] # NoOrder /\ granted[OrderOf[p]] = 1
  /\ UNCHANGED <<placed, granted, purse, rows>>

CreditDeposit(p) ==
  /\ Confirm(p)
  /\ OrderOf[p] = NoOrder
  /\ Book({Row(Payer[p], "DEPOSIT", p, Amount[p])})
  /\ UNCHANGED <<placed, granted>>

RefusePayment(p) ==
  /\ paid[p] = "PENDING"
  /\ paid' = [paid EXCEPT ![p] = "REJECTED"]
  /\ UNCHANGED <<placed, granted, purse, rows>>

CancelOrder(o) ==
  /\ placed' = [placed EXCEPT ![o] = "CANCELLED"]
  /\ UNCHANGED <<paid, granted, purse, rows>>

Next ==
  \/ \E p \in Payments :
       FulfilOrder(p) \/ PayGrantedOrder(p) \/ CreditDeposit(p) \/ RefusePayment(p)
  \/ \E o \in Orders : CancelOrder(o)

Spec == Init /\ [][Next]_vars
=============================================================================
