-------------------------- MODULE SettlementProofs --------------------------
(***************************************************************************)
(* Proofs about Settlement for any sets of users, orders and payments, any *)
(* prices and any referral rates: grants, decisions and charges agree, the *)
(* wallets add up, and the settlement implements PaidFulfilment.           *)
(***************************************************************************)
EXTENDS Settlement, Sums, TLAPS

-----------------------------------------------------------------------------
(* The inductive invariant.                                                *)

\* What an order's status says about its grants. CANCELLED says nothing: a
\* cancellation may overwrite COMPLETED.
OrderInv ==
  \A o \in Orders :
    /\ orderStatus[o] \in {"NONE", "PENDING"} => grants[o] = 0
    /\ orderStatus[o] = "COMPLETED" => grants[o] = 1

\* What the columns of a payment say about each other.
PaymentInv ==
  \A p \in Payments :
    /\ payStatus[p] = "NONE" <=> payMethod[p] = "NONE"
    /\ payMethod[p] # "NONE" => payUser[p] \in Users
    /\ payStatus[p] = "CONFIRMED" => p \in confirmed
    /\ p \in confirmed /\ payMethod[p] # "CARD_TO_CARD" => payStatus[p] = "CONFIRMED"

\* Only online payments reach the gateway, only card payments have receipts,
\* and only order payments are provisioned.
HandlerInv ==
  \A p \in Payments :
    /\ p \in requested => payMethod[p] = "ONLINE"
    /\ p \in verified => p \in requested
    /\ \A status \in {"OK", "NOK"} : <<p, status>> \in redirects => p \in requested
    /\ receipt[p] # "NONE" => payMethod[p] = "CARD_TO_CARD"
    /\ p \in submitting => receipt[p] # "NONE"
    /\ p \in finishing => p \in confirmed /\ payOrder[p] # NoOrder

\* The ledger row of a payment says how it was settled.
LedgerInv ==
  \A p \in Payments :
    /\ walletRow[p] = "DEPOSIT" <=> p \in confirmed /\ payOrder[p] = NoOrder
    /\ walletRow[p] # "NONE" => p \in confirmed

\* A wallet's balance is what its totals leave.
BalanceInv == \A u \in Users : balance[u] = deposited[u] + earned[u] - spent[u]

IInv ==
  /\ TypeOK /\ OrderInv /\ PaymentInv /\ HandlerInv /\ LedgerInv /\ BalanceInv
  /\ FulfilledIffPaid /\ SettledNeverRefused /\ ReceiptDecisionSettles

-----------------------------------------------------------------------------
(* Rewards.                                                                *)

\* A commission is a percentage of a price, capped or not: an integer, and
\* what creditReferralCommission pays out of it is never negative.
LEMMA RewardIsNat ==
  ASSUME IInv, NEW o \in Orders, NEW u \in Users
  PROVE  Reward(o, u) \in Nat
<1>1. \A n \in Nat : n \div 100 \in Nat
  OBVIOUS
<1>2. Price[o] * CommissionPercent \in Nat
  BY OrdersAssumption, AmountsAssumption
<1>3. (Price[o] * CommissionPercent) \div 100 \in Nat
  BY <1>1, <1>2
<1>4. earned[u] \in Int /\ MaxBonus \in Nat
  BY AmountsAssumption DEF IInv, TypeOK
<1>5. CappedCommission(o, u) \in Int
  BY <1>3, <1>4 DEF CappedCommission
<1>6. QED
  BY <1>5 DEF Reward

-----------------------------------------------------------------------------
(* Orders: creation, cancellation, transfer of the subscription.           *)

\* create writes the row of an order that had none.
LEMMA CreateOrderStep ==
  ASSUME IInv, NEW o \in Orders, CreateOrder(o)
  PROVE  IInv'
<1>1. TypeOK'
  BY DEF CreateOrder, payVars, walletVars, volatileVars, IInv, TypeOK, OrderStatuses
<1>2. OrderInv'
  BY DEF CreateOrder, IInv, TypeOK, OrderInv
<1>3. QED
  BY <1>1, <1>2 DEF CreateOrder, payVars, walletVars, volatileVars, IInv,
       PaymentInv, HandlerInv, LedgerInv, BalanceInv,
       FulfilledIffPaid, SettledNeverRefused, ReceiptDecisionSettles

\* cancel's read, and initiate's, change no row.
LEMMA OrderReadStep ==
  ASSUME IInv, NEW o \in Orders, BeginCancel(o) \/ BeginInitiate(o)
  PROVE  IInv'
<1>1. TypeOK'
  BY DEF BeginCancel, BeginInitiate, orderVars, payVars, walletVars, IInv, TypeOK
<1>2. QED
  BY <1>1 DEF BeginCancel, BeginInitiate, orderVars, payVars, walletVars, IInv,
       OrderInv, PaymentInv, HandlerInv, LedgerInv, BalanceInv,
       FulfilledIffPaid, SettledNeverRefused, ReceiptDecisionSettles

\* cancel's write, whatever the order has become since its read.
LEMMA CommitCancelStep ==
  ASSUME IInv, NEW o \in Orders, CommitCancel(o)
  PROVE  IInv'
<1>1. TypeOK'
  BY DEF CommitCancel, payVars, walletVars, IInv, TypeOK, OrderStatuses
<1>2. OrderInv'
  BY DEF CommitCancel, IInv, TypeOK, OrderInv
<1>3. QED
  BY <1>1, <1>2 DEF CommitCancel, payVars, walletVars, IInv,
       PaymentInv, HandlerInv, LedgerInv, BalanceInv,
       FulfilledIffPaid, SettledNeverRefused, ReceiptDecisionSettles

\* transfer changes the owner of a subscription and nothing else.
LEMMA TransferStep ==
  ASSUME IInv, NEW o \in Orders, NEW u \in Users, Transfer(o, u)
  PROVE  IInv'
<1>1. TypeOK'
  BY DEF Transfer, payVars, walletVars, volatileVars, IInv, TypeOK
<1>2. QED
  BY <1>1 DEF Transfer, payVars, walletVars, volatileVars, IInv,
       OrderInv, PaymentInv, HandlerInv, LedgerInv, BalanceInv,
       FulfilledIffPaid, SettledNeverRefused, ReceiptDecisionSettles

-----------------------------------------------------------------------------
(* Payments before their settlement.                                       *)

\* initiateWalletDeposit and initiate insert a PENDING payment: one that no
\* settlement, callback or receipt has touched yet.
LEMMA NewPendingPaymentStep ==
  ASSUME IInv, NEW p \in Payments, NEW o \in Orders \cup {NoOrder}, NEW u \in Users,
         NEW m \in Methods \ {"WALLET"}, NEW amount \in Nat,
         NewPayment(p, o, u, m, amount, "PENDING"),
         UNCHANGED <<orderVars, link, confirmed, requested, receipt, walletVars,
                     panelReady, redirects, volatileVars>>
  PROVE  IInv'
<1> USE DEF NewPayment, orderVars, walletVars, volatileVars
<1>1. TypeOK'
  BY DEF IInv, TypeOK, PaymentStatuses, Claimable
<1>2. m # "NONE" /\ payMethod[p] = "NONE" /\ p \notin confirmed
  BY DEF Methods, IInv, PaymentInv, SettledNeverRefused
<1>3. PaymentInv'
  BY <1>2 DEF IInv, TypeOK, PaymentInv
<1>4. HandlerInv'
  <2>1. p \notin requested /\ receipt[p] = "NONE" /\ p \notin finishing
    BY <1>2 DEF IInv, HandlerInv
  <2>2. \A q \in Payments \ {p} : payMethod'[q] = payMethod[q] /\ payOrder'[q] = payOrder[q]
    BY DEF IInv, TypeOK
  <2>3. HandlerInv
    BY DEF IInv
  <2>4. UNCHANGED <<requested, receipt, verified, redirects, submitting, finishing, confirmed>>
    OBVIOUS
  <2> QED BY <2>1, <2>2, <2>3, <2>4 DEF HandlerInv
<1>5. LedgerInv'
  BY <1>2 DEF IInv, TypeOK, LedgerInv
<1>6. FulfilledIffPaid'
  BY <1>2 DEF IInv, TypeOK, FulfilledIffPaid
<1>7. SettledNeverRefused'
  BY <1>2 DEF IInv, TypeOK, SettledNeverRefused
<1>8. ReceiptDecisionSettles'
  BY <1>2 DEF IInv, TypeOK, ReceiptDecisionSettles, HandlerInv
<1>9. QED
  BY <1>1, <1>3, <1>4, <1>5, <1>6, <1>7, <1>8 DEF IInv, OrderInv, BalanceInv

\* initiateWalletDeposit.
LEMMA InitiateWalletDepositStep ==
  ASSUME IInv, NEW p \in Payments, NEW u \in Users,
         NEW m \in {"CARD_TO_CARD", "CRYPTO"}, NEW amount \in TopUps,
         InitiateWalletDeposit(p, u, m, amount)
  PROVE  IInv'
<1>1. m \in Methods \ {"WALLET"} /\ amount \in Nat
  BY AmountsAssumption DEF Methods
<1>2. QED
  BY <1>1, NewPendingPaymentStep DEF InitiateWalletDeposit

\* initiate's insert.
LEMMA CreatePaymentStep ==
  ASSUME IInv, NEW p \in Payments, NEW o \in Orders, NEW m \in Methods \ {"WALLET"},
         CreatePayment(p, o, m)
  PROVE  IInv'
<1>1. Buyer[o] \in Users /\ Price[o] \in Nat
  BY OrdersAssumption
<1>2. QED
  BY <1>1, NewPendingPaymentStep DEF CreatePayment

\* The gateway's authority, its redirects and a verification in flight: only
\* payments that were created as ONLINE get any.
LEMMA GatewayStep ==
  ASSUME IInv, NEW p \in Payments, NEW status \in {"OK", "NOK"},
         \/ RequestGateway(p)
         \/ GatewayRedirect(p, status)
         \/ CallbackOkVerified(p)
         \/ SettleVerifiedFails(p)
  PROVE  IInv'
<1> USE DEF RequestGateway, GatewayRedirect, CallbackOkVerified, SettleVerifiedFails,
            orderVars, payVars, walletVars, volatileVars
<1>1. TypeOK'
  BY DEF IInv, TypeOK
<1>2. HandlerInv'
  <2>1. CASE RequestGateway(p)
    BY <2>1 DEF IInv, HandlerInv
  <2>2. CASE GatewayRedirect(p, status)
    BY <2>2 DEF IInv, HandlerInv
  <2>3. CASE CallbackOkVerified(p)
    BY <2>3 DEF IInv, HandlerInv
  <2>4. CASE SettleVerifiedFails(p)
    BY <2>4 DEF IInv, HandlerInv
  <2>5. QED
    BY <2>1, <2>2, <2>3, <2>4
<1>3. QED
  BY <1>1, <1>2 DEF IInv, OrderInv, PaymentInv, LedgerInv, BalanceInv,
       FulfilledIffPaid, SettledNeverRefused, ReceiptDecisionSettles

\* A payment that its compare-and-set can still refuse is not confirmed, or is
\* a card-to-card payment that submitReceipt's second write put back.
LEMMA RefuseEffect ==
  ASSUME IInv, NEW p \in Payments, payMethod[p] = "CARD_TO_CARD" => receipt[p] # "APPROVED",
         NEW status \in {"CANCELLED", "REJECTED"}, Refuse(p, status)
  PROVE  /\ p \notin confirmed
         /\ PaymentInv' /\ SettledNeverRefused'
<1>1. p \notin confirmed
  BY DEF Refuse, Refusable, Claimable, IInv, PaymentInv, ReceiptDecisionSettles
<1>2. payMethod[p] # "NONE"
  BY DEF Refuse, Refusable, Claimable, IInv, PaymentInv
<1>3. PaymentInv'
  BY <1>1, <1>2 DEF Refuse, IInv, TypeOK, PaymentInv
<1>4. SettledNeverRefused'
  BY <1>1 DEF Refuse, IInv, TypeOK, SettledNeverRefused
<1>5. QED
  BY <1>1, <1>3, <1>4

\* A NOK redirect and a declined verification refuse an online payment.
LEMMA CallbackRefusesStep ==
  ASSUME IInv, NEW p \in Payments, CallbackNok(p) \/ CallbackOkDeclined(p)
  PROVE  IInv'
<1>1. payMethod[p] = "ONLINE"
  BY DEF CallbackNok, CallbackOkDeclined, IInv, HandlerInv
<1>2. PaymentInv' /\ SettledNeverRefused'
  BY <1>1, RefuseEffect DEF CallbackNok, CallbackOkDeclined
<1>3. TypeOK'
  BY DEF CallbackNok, CallbackOkDeclined, Refuse, orderVars, walletVars, volatileVars,
         IInv, TypeOK, PaymentStatuses
<1>4. QED
  BY <1>2, <1>3 DEF CallbackNok, CallbackOkDeclined, Refuse, orderVars, walletVars,
       volatileVars, IInv, OrderInv, HandlerInv, LedgerInv, BalanceInv,
       FulfilledIffPaid, ReceiptDecisionSettles

\* submitReceipt's first write.
LEMMA SubmitReceiptStep ==
  ASSUME IInv, NEW p \in Payments, SubmitReceipt(p)
  PROVE  IInv'
<1> USE DEF SubmitReceipt, orderVars, payVars, walletVars
<1>1. TypeOK'
  BY DEF IInv, TypeOK
<1>2. HandlerInv'
  BY DEF IInv, TypeOK, HandlerInv
<1>3. ReceiptDecisionSettles'
  BY DEF IInv, TypeOK, ReceiptDecisionSettles
<1>4. QED
  BY <1>1, <1>2, <1>3 DEF IInv, OrderInv, PaymentInv, LedgerInv, BalanceInv,
       FulfilledIffPaid, SettledNeverRefused

\* submitReceipt's second write, whatever the payment has become: it may take
\* CONFIRMED back to AWAITING_VERIFY, and only a card-to-card payment.
LEMMA MarkAwaitingStep ==
  ASSUME IInv, NEW p \in Payments, MarkAwaiting(p)
  PROVE  IInv'
<1>1. payMethod[p] = "CARD_TO_CARD"
  BY DEF MarkAwaiting, IInv, HandlerInv
<1>2. TypeOK'
  BY DEF MarkAwaiting, orderVars, walletVars, IInv, TypeOK, PaymentStatuses, Claimable
<1>3. /\ payStatus' = [payStatus EXCEPT ![p] = "AWAITING_VERIFY"]
      /\ payStatus \in [Payments -> PaymentStatuses]
      /\ UNCHANGED <<payMethod, payUser, confirmed>>
  BY DEF MarkAwaiting, IInv, TypeOK
<1>4. PaymentInv'
  BY <1>1, <1>3 DEF IInv, PaymentInv
<1>5. SettledNeverRefused'
  BY <1>3 DEF IInv, SettledNeverRefused
<1>6. HandlerInv'
  BY DEF MarkAwaiting, IInv, HandlerInv
<1>7. QED
  BY <1>2, <1>4, <1>5, <1>6 DEF MarkAwaiting, orderVars, walletVars, IInv,
       OrderInv, LedgerInv, BalanceInv, FulfilledIffPaid, ReceiptDecisionSettles

\* verifyReceipt with the decision REJECTED.
LEMMA RejectReceiptStep ==
  ASSUME IInv, NEW p \in Payments, RejectReceipt(p)
  PROVE  IInv'
<1>1. /\ receipt[p] = "PENDING"
      /\ receipt' = [receipt EXCEPT ![p] = "REJECTED"]
      /\ receipt \in [Payments -> {"NONE", "PENDING", "APPROVED", "REJECTED"}]
      /\ UNCHANGED <<payMethod, payOrder, requested, verified, redirects,
                     submitting, finishing, confirmed>>
  BY DEF RejectReceipt, Undecided, Refuse, volatileVars, IInv, TypeOK
<1>2. p \notin confirmed /\ PaymentInv' /\ SettledNeverRefused'
  BY <1>1, RefuseEffect DEF RejectReceipt
<1>3. TypeOK'
  BY DEF RejectReceipt, Refuse, orderVars, walletVars, volatileVars, IInv, TypeOK,
         PaymentStatuses
<1>4. HandlerInv'
  BY <1>1 DEF IInv, HandlerInv
<1>5. ReceiptDecisionSettles'
  BY <1>1, <1>2 DEF IInv, ReceiptDecisionSettles
<1>6. QED
  BY <1>2, <1>3, <1>4, <1>5 DEF RejectReceipt, Refuse, orderVars, walletVars,
       volatileVars, IInv, OrderInv, LedgerInv, BalanceInv, FulfilledIffPaid

-----------------------------------------------------------------------------
(* Settlement.                                                             *)

\* completeOrderInTransaction leaves the order COMPLETED and granted once,
\* whether it granted it or found it granted.
LEMMA CompletionGrantsOnce ==
  ASSUME IInv, NEW o \in Orders, CompleteOrder(o)
  PROVE  /\ orderStatus' = [orderStatus EXCEPT ![o] = "COMPLETED"]
         /\ grants' = [grants EXCEPT ![o] = 1]
         /\ subOwner' \in [Orders -> Users \cup {NoUser}]
<1>1. GrantOnce(o) = 1
  <2>1. CASE orderStatus[o] = "COMPLETED"
    BY <2>1 DEF GrantOnce, FirstCompletion, IInv, OrderInv
  <2>2. CASE FirstCompletion(o)
    BY <2>2 DEF GrantOnce, FirstCompletion, IInv, OrderInv
  <2>3. QED
    BY <2>1, <2>2 DEF CompleteOrder, Completable
<1>2. subOwner' \in [Orders -> Users \cup {NoUser}]
  BY OrdersAssumption DEF CompleteOrder, IInv, TypeOK
<1>3. QED
  BY <1>1, <1>2 DEF CompleteOrder

\* What a settlement of an order payment does to the rows it reaches.
LEMMA SettleOrderPaymentEffect ==
  ASSUME IInv, NEW p \in Payments, SettleOrderPayment(p)
  PROVE  /\ payOrder[p] \in Orders
         /\ payStatus[p] # "NONE"
         /\ payStatus' = [payStatus EXCEPT ![p] = "CONFIRMED"]
         /\ confirmed' = confirmed \cup {p}
         /\ orderStatus' = [orderStatus EXCEPT ![payOrder[p]] = "COMPLETED"]
         /\ grants' = [grants EXCEPT ![payOrder[p]] = 1]
         /\ subOwner' \in [Orders -> Users \cup {NoUser}]
         /\ balance' \in [Users -> Nat] /\ earned' \in [Users -> Nat]
         /\ BalanceInv'
         /\ finishing' = finishing \cup {p}
         /\ UNCHANGED <<walletRow, deposited, spent>>
<1>1. payOrder[p] \in Orders
  BY DEF SettleOrderPayment, IInv, TypeOK
<1>2. /\ orderStatus' = [orderStatus EXCEPT ![payOrder[p]] = "COMPLETED"]
      /\ grants' = [grants EXCEPT ![payOrder[p]] = 1]
      /\ subOwner' \in [Orders -> Users \cup {NoUser}]
  BY <1>1, CompletionGrantsOnce DEF SettleOrderPayment
<1>3. \A u \in Users : Reward(payOrder[p], u) \in Nat
  BY <1>1, RewardIsNat
<1>4. balance' \in [Users -> Nat] /\ earned' \in [Users -> Nat]
  BY <1>3 DEF SettleOrderPayment, IInv, TypeOK
<1>5. BalanceInv'
  BY <1>3 DEF SettleOrderPayment, IInv, TypeOK, BalanceInv
<1>6. payStatus[p] # "NONE"
  BY DEF SettleOrderPayment, ConfirmPayment, Confirmable, Claimable
<1>7. QED
  BY <1>1, <1>2, <1>4, <1>5, <1>6 DEF SettleOrderPayment, ConfirmPayment

\* What a settlement of a wallet deposit does, the first time and afterwards.
LEMMA SettleTopUpEffect ==
  ASSUME IInv, NEW p \in Payments, SettleTopUp(p)
  PROVE  /\ payOrder[p] = NoOrder
         /\ payStatus[p] # "NONE"
         /\ payStatus' = [payStatus EXCEPT ![p] = "CONFIRMED"]
         /\ confirmed' = confirmed \cup {p}
         /\ walletRow' = [walletRow EXCEPT ![p] = "DEPOSIT"]
         /\ balance' \in [Users -> Nat] /\ deposited' \in [Users -> Nat]
         /\ BalanceInv'
         /\ UNCHANGED <<orderVars, finishing, spent, earned>>
<1>1. payStatus[p] # "NONE"
  BY DEF SettleTopUp, ConfirmPayment, Confirmable, Claimable
<1>2. payUser[p] \in Users /\ payAmount[p] \in Nat
  BY <1>1 DEF IInv, TypeOK, PaymentInv
<1>3. /\ walletRow' = [walletRow EXCEPT ![p] = "DEPOSIT"]
      /\ balance' \in [Users -> Nat] /\ deposited' \in [Users -> Nat]
      /\ BalanceInv'
      /\ UNCHANGED <<spent, earned>>
  <2>1. CASE NotYetCredited(p)
    <3>1. /\ walletRow' = [walletRow EXCEPT ![p] = "DEPOSIT"]
          /\ balance' = [balance EXCEPT ![payUser[p]] = @ + payAmount[p]]
          /\ deposited' = [deposited EXCEPT ![payUser[p]] = @ + payAmount[p]]
          /\ UNCHANGED <<spent, earned>>
      BY <2>1 DEF SettleTopUp, CreditDeposit
    <3>2. balance' \in [Users -> Nat] /\ deposited' \in [Users -> Nat]
      BY <1>2, <3>1 DEF IInv, TypeOK
    <3>3. BalanceInv'
      BY <1>2, <3>1 DEF IInv, TypeOK, BalanceInv
    <3>4. QED
      BY <3>1, <3>2, <3>3
  <2>2. CASE ~NotYetCredited(p)
    <3>1. UNCHANGED walletVars
      BY <2>2 DEF SettleTopUp, CreditDeposit
    <3>2. walletRow[p] = "DEPOSIT"
      BY <2>2 DEF NotYetCredited, SettleTopUp, IInv, TypeOK, LedgerInv
    <3>3. QED
      BY <3>1, <3>2 DEF walletVars, IInv, TypeOK, BalanceInv
  <2>3. QED
    BY <2>1, <2>2
<1>4. QED
  BY <1>1, <1>3 DEF SettleTopUp, ConfirmPayment

\* A settlement preserves the invariant whatever calls it: a verified callback
\* of an online payment, or the approval of a card-to-card receipt.
LEMMA SettleStep ==
  ASSUME IInv, NEW p \in Payments, Settle(p),
         verified' \subseteq verified,
         UNCHANGED <<link, requested, panelReady, redirects,
                     checked, submitting, cancelling>>,
         \/ payMethod[p] = "ONLINE" /\ receipt' = receipt
         \/ payMethod[p] = "CARD_TO_CARD" /\ receipt' = [receipt EXCEPT ![p] = "APPROVED"]
  PROVE  IInv'
<1>1. /\ payStatus[p] # "NONE"
      /\ payStatus' = [payStatus EXCEPT ![p] = "CONFIRMED"]
      /\ confirmed' = confirmed \cup {p}
      /\ UNCHANGED <<payMethod, payOrder, payUser, payAmount>>
      /\ BalanceInv'
  BY SettleOrderPaymentEffect, SettleTopUpEffect DEF Settle
<1>2. TypeOK'
  <2>1. CASE SettleOrderPayment(p)
    <3>1. /\ payOrder[p] \in Orders
          /\ orderStatus' = [orderStatus EXCEPT ![payOrder[p]] = "COMPLETED"]
          /\ grants' = [grants EXCEPT ![payOrder[p]] = 1]
          /\ subOwner' \in [Orders -> Users \cup {NoUser}]
          /\ balance' \in [Users -> Nat] /\ earned' \in [Users -> Nat]
          /\ finishing' = finishing \cup {p}
          /\ UNCHANGED <<walletRow, deposited, spent>>
      BY <2>1, SettleOrderPaymentEffect
    <3>2. orderStatus' \in [Orders -> OrderStatuses] /\ grants' \in [Orders -> Nat]
      BY <3>1 DEF IInv, TypeOK, OrderStatuses
    <3>3. QED
      BY <1>1, <3>1, <3>2 DEF IInv, TypeOK, PaymentStatuses
  <2>2. CASE SettleTopUp(p)
    BY <1>1, <2>2, SettleTopUpEffect DEF orderVars, IInv, TypeOK, PaymentStatuses
  <2>3. QED
    BY <2>1, <2>2 DEF Settle
<1>3. OrderInv'
  <2>1. CASE SettleOrderPayment(p)
    BY <2>1, SettleOrderPaymentEffect DEF IInv, TypeOK, OrderInv
  <2>2. CASE SettleTopUp(p)
    BY <2>2, SettleTopUpEffect DEF orderVars, IInv, OrderInv
  <2>3. QED
    BY <2>1, <2>2 DEF Settle
<1>4. PaymentInv'
  BY <1>1 DEF IInv, TypeOK, PaymentInv
<1>5. HandlerInv'
  <2>1. finishing' = finishing \/ (finishing' = finishing \cup {p} /\ payOrder[p] # NoOrder)
    BY SettleOrderPaymentEffect, SettleTopUpEffect DEF Settle, SettleOrderPayment
  <2>2. receipt \in [Payments -> {"NONE", "PENDING", "APPROVED", "REJECTED"}]
    BY DEF IInv, TypeOK
  <2>3. QED
    BY <1>1, <2>1, <2>2 DEF IInv, HandlerInv
<1>6. LedgerInv'
  <2>1. CASE SettleOrderPayment(p)
    BY <1>1, <2>1, SettleOrderPaymentEffect DEF SettleOrderPayment, IInv, LedgerInv
  <2>2. CASE SettleTopUp(p)
    BY <1>1, <2>2, SettleTopUpEffect DEF IInv, TypeOK, LedgerInv
  <2>3. QED
    BY <2>1, <2>2 DEF Settle
<1>7. FulfilledIffPaid'
  <2>1. CASE SettleOrderPayment(p)
    BY <1>1, <2>1, SettleOrderPaymentEffect DEF IInv, TypeOK, FulfilledIffPaid
  <2>2. CASE SettleTopUp(p)
    <3>1. payOrder[p] \notin Orders /\ grants' = grants
      BY <2>2, OrdersAssumption, SettleTopUpEffect DEF orderVars
    <3>2. QED
      BY <1>1, <3>1 DEF IInv, FulfilledIffPaid
  <2>3. QED
    BY <2>1, <2>2 DEF Settle
<1>8. SettledNeverRefused'
  BY <1>1 DEF IInv, TypeOK, SettledNeverRefused
<1>9. ReceiptDecisionSettles'
  BY <1>1 DEF IInv, TypeOK, ReceiptDecisionSettles
<1>10. QED
  BY <1>1, <1>2, <1>3, <1>4, <1>5, <1>6, <1>7, <1>8, <1>9 DEF IInv

\* verifyOnlinePayment's settlement.
LEMMA SettleVerifiedStep ==
  ASSUME IInv, NEW p \in Payments, SettleVerified(p)
  PROVE  IInv'
<1>1. payMethod[p] = "ONLINE"
  BY DEF SettleVerified, IInv, HandlerInv
<1>2. QED
  BY <1>1, SettleStep DEF SettleVerified

\* verifyReceipt's settlement, the first and every repeated one.
LEMMA ApproveReceiptStep ==
  ASSUME IInv, NEW p \in Payments, ApproveReceipt(p)
  PROVE  IInv'
<1>1. payMethod[p] = "CARD_TO_CARD"
  BY DEF ApproveReceipt, DecisionAllowed, IInv, HandlerInv
<1>2. QED
  BY <1>1, SettleStep DEF ApproveReceipt

\* payOrderWithWallet: the payment is created, settled and charged at once.
LEMMA PayOrderWithWalletStep ==
  ASSUME IInv, NEW p \in Payments, NEW o \in Orders, PayOrderWithWallet(p, o)
  PROVE  IInv'
<1>1. Buyer[o] \in Users /\ Price[o] \in Nat
  BY OrdersAssumption
<1>2. /\ orderStatus' = [orderStatus EXCEPT ![o] = "COMPLETED"]
      /\ grants' = [grants EXCEPT ![o] = 1]
      /\ subOwner' \in [Orders -> Users \cup {NoUser}]
  BY CompletionGrantsOnce DEF PayOrderWithWallet
<1>3. /\ payStatus[p] = "NONE"
      /\ payStatus' = [payStatus EXCEPT ![p] = "CONFIRMED"]
      /\ payMethod' = [payMethod EXCEPT ![p] = "WALLET"]
      /\ payOrder' = [payOrder EXCEPT ![p] = o]
      /\ payUser' = [payUser EXCEPT ![p] = Buyer[o]]
      /\ payAmount' = [payAmount EXCEPT ![p] = Price[o]]
      /\ confirmed' = confirmed \cup {p}
      /\ walletRow' = [walletRow EXCEPT ![p] = "PURCHASE"]
      /\ finishing' = finishing \cup {p}
      /\ UNCHANGED <<deposited, link, requested, receipt, panelReady, redirects,
                     checked, submitting, cancelling, verified>>
  BY DEF PayOrderWithWallet, NewPayment
<1>4. payMethod[p] = "NONE" /\ p \notin confirmed
  BY <1>3 DEF IInv, PaymentInv, SettledNeverRefused
<1>5. /\ balance' \in [Users -> Nat] /\ spent' \in [Users -> Nat]
      /\ earned' \in [Users -> Nat] /\ BalanceInv'
  <2>1. \A u \in Users : Reward(o, u) \in Nat
    BY RewardIsNat
  <2>2. /\ balance' = [u \in Users |->
                 balance[u] - (IF u = Buyer[o] THEN Price[o] ELSE 0) + Reward(o, u)]
        /\ spent' = [spent EXCEPT ![Buyer[o]] = @ + Price[o]]
        /\ earned' = [u \in Users |-> earned[u] + Reward(o, u)]
        /\ deposited' = deposited
        /\ balance[Buyer[o]] >= Price[o]
    BY DEF PayOrderWithWallet, SufficientFunds
  <2>3. /\ balance' \in [Users -> Nat] /\ spent' \in [Users -> Nat]
        /\ earned' \in [Users -> Nat]
    BY <1>1, <2>1, <2>2 DEF IInv, TypeOK
  <2>4. BalanceInv'
    <3> SUFFICES ASSUME NEW u \in Users
                 PROVE  balance'[u] = deposited'[u] + earned'[u] - spent'[u]
      BY DEF BalanceInv
    <3>1. /\ balance[u] \in Nat /\ deposited[u] \in Nat
          /\ spent[u] \in Nat /\ earned[u] \in Nat /\ Reward(o, u) \in Nat
          /\ balance[u] = deposited[u] + earned[u] - spent[u]
      BY <2>1 DEF IInv, TypeOK, BalanceInv
    <3>2. spent'[u] = spent[u] + (IF u = Buyer[o] THEN Price[o] ELSE 0)
      BY <1>1, <2>2, <3>1 DEF IInv, TypeOK
    <3>3. QED
      BY <1>1, <2>2, <3>1, <3>2
  <2>5. QED
    BY <2>3, <2>4
<1>6. TypeOK'
  BY <1>1, <1>2, <1>3, <1>5 DEF IInv, TypeOK, OrderStatuses, PaymentStatuses, Methods
<1>7. OrderInv'
  BY <1>2 DEF IInv, TypeOK, OrderInv
<1>8. PaymentInv'
  BY <1>1, <1>3, <1>4 DEF IInv, TypeOK, PaymentInv
<1>9. HandlerInv'
  BY <1>3, <1>4, OrdersAssumption DEF IInv, TypeOK, HandlerInv
<1>10. LedgerInv'
  BY <1>3, <1>4, OrdersAssumption DEF IInv, TypeOK, LedgerInv
<1>11. FulfilledIffPaid'
  BY <1>2, <1>3, <1>4 DEF IInv, TypeOK, FulfilledIffPaid
<1>12. SettledNeverRefused'
  BY <1>3 DEF IInv, TypeOK, SettledNeverRefused
<1>13. ReceiptDecisionSettles'
  BY <1>3, <1>4 DEF IInv, TypeOK, ReceiptDecisionSettles
<1>14. QED
  BY <1>5, <1>6, <1>7, <1>8, <1>9, <1>10, <1>11, <1>12, <1>13 DEF IInv

-----------------------------------------------------------------------------
(* After the commit, and the environment.                                  *)

\* finishSettlement, whether provisioning answers or not.
LEMMA FinishStep ==
  ASSUME IInv, NEW p \in Payments, FinishOk(p) \/ FinishFails(p)
  PROVE  IInv'
<1> USE DEF FinishOk, FinishFails, orderVars, payVars, walletVars
<1>1. payOrder[p] \in Orders
  BY DEF IInv, TypeOK, HandlerInv
<1>2. SubOf(payOrder[p]) \in Orders
  BY <1>1, OrdersAssumption DEF SubOf
<1>3. TypeOK'
  BY <1>2 DEF IInv, TypeOK
<1>4. HandlerInv'
  BY DEF IInv, HandlerInv
<1>5. QED
  BY <1>3, <1>4 DEF IInv, OrderInv, PaymentInv, LedgerInv, BalanceInv,
       FulfilledIffPaid, SettledNeverRefused, ReceiptDecisionSettles

\* A change of the panels, and a crash, which only forgets what is volatile.
LEMMA EnvironmentStep ==
  ASSUME IInv, PanelChange \/ Crash
  PROVE  IInv'
<1> USE DEF PanelChange, Crash, orderVars, payVars, walletVars, volatileVars
<1>1. TypeOK'
  BY DEF IInv, TypeOK
<1>2. HandlerInv'
  BY DEF IInv, HandlerInv
<1>3. QED
  BY <1>1, <1>2 DEF IInv, OrderInv, PaymentInv, LedgerInv, BalanceInv,
       FulfilledIffPaid, SettledNeverRefused, ReceiptDecisionSettles

\* A stuttering step.
LEMMA StutterStep ==
  ASSUME IInv, UNCHANGED vars
  PROVE  IInv'
BY DEF vars, orderVars, payVars, walletVars, volatileVars, IInv, TypeOK,
       OrderInv, PaymentInv, HandlerInv, LedgerInv, BalanceInv,
       FulfilledIffPaid, SettledNeverRefused, ReceiptDecisionSettles

-----------------------------------------------------------------------------
(* The theorems.                                                           *)

\* The database the migrations leave, with no order and no payment.
LEMMA InitEstablishes == Init => IInv
BY DEF Init, IInv, TypeOK, OrderStatuses, PaymentStatuses, Claimable, Methods,
       OrderInv, PaymentInv, HandlerInv, LedgerInv, BalanceInv,
       FulfilledIffPaid, SettledNeverRefused, ReceiptDecisionSettles

\* No step of any handler, of the gateway, or of a crash breaks the invariant.
LEMMA StepPreserves == IInv /\ [Next]_vars => IInv'
<1> SUFFICES ASSUME IInv, [Next]_vars
             PROVE  IInv'
  OBVIOUS
<1>1. CASE \E o \in Orders : OrderStep(o)
  BY <1>1, CreateOrderStep, OrderReadStep, CommitCancelStep, TransferStep DEF OrderStep
<1>2. CASE \E p \in Payments : PaymentStep(p)
  <2> PICK p \in Payments : PaymentStep(p)
    BY <1>2
  <2>1. CASE \E u \in Users, m \in {"CARD_TO_CARD", "CRYPTO"}, amount \in TopUps :
               InitiateWalletDeposit(p, u, m, amount)
    BY <2>1, InitiateWalletDepositStep
  <2>2. CASE \E o \in Orders, m \in Methods \ {"WALLET"} : CreatePayment(p, o, m)
    BY <2>2, CreatePaymentStep
  <2>3. CASE \E o \in Orders : PayOrderWithWallet(p, o)
    BY <2>3, PayOrderWithWalletStep
  <2>4. CASE \/ RequestGateway(p) \/ CallbackOkVerified(p) \/ SettleVerifiedFails(p)
             \/ \E status \in {"OK", "NOK"} : GatewayRedirect(p, status)
    BY <2>4, GatewayStep
  <2>5. CASE CallbackNok(p) \/ CallbackOkDeclined(p)
    BY <2>5, CallbackRefusesStep
  <2>6. CASE SettleVerified(p) \/ ApproveReceipt(p)
    BY <2>6, SettleVerifiedStep, ApproveReceiptStep
  <2>7. CASE SubmitReceipt(p) \/ MarkAwaiting(p) \/ RejectReceipt(p)
    BY <2>7, SubmitReceiptStep, MarkAwaitingStep, RejectReceiptStep
  <2>8. CASE FinishOk(p) \/ FinishFails(p)
    BY <2>8, FinishStep
  <2>9. QED
    BY <2>1, <2>2, <2>3, <2>4, <2>5, <2>6, <2>7, <2>8 DEF PaymentStep
<1>3. CASE PanelChange \/ Crash
  BY <1>3, EnvironmentStep
<1>4. CASE UNCHANGED vars
  BY <1>4, StutterStep
<1>5. QED
  BY <1>1, <1>2, <1>3, <1>4 DEF Next

\* The invariant holds in every reachable state.
THEOREM Invariance == Spec => []IInv
BY InitEstablishes, StepPreserves, PTL DEF Spec

\* Every column keeps its type, and no balance is ever negative, although
\* commissions are added past mutateBalance and purchases race each other.
THEOREM TypeCorrect == Spec => []TypeOK
<1>1. IInv => TypeOK
  BY DEF IInv
<1>2. QED
  BY <1>1, Invariance, PTL

\* However callbacks, approvals, wallet payments, cancellations, panel changes
\* and crashes interleave, settlePaymentInTransaction grants an order's plan at
\* most once, and exactly if a payment of that order was confirmed.
THEOREM GrantedOnceIffPaid == Spec => []FulfilledIffPaid
<1>1. IInv => FulfilledIffPaid
  BY DEF IInv
<1>2. QED
  BY <1>1, Invariance, PTL

\* A payment whose money was applied is never REJECTED or CANCELLED afterwards.
THEOREM NoRefusalAfterSettlement == Spec => []SettledNeverRefused
<1>1. IInv => SettledNeverRefused
  BY DEF IInv
<1>2. QED
  BY <1>1, Invariance, PTL

\* A receipt is APPROVED exactly if its payment was settled (verifyReceipt).
THEOREM ApprovalMeansSettled == Spec => []ReceiptDecisionSettles
<1>1. IInv => ReceiptDecisionSettles
  BY DEF IInv
<1>2. QED
  BY <1>1, Invariance, PTL

-----------------------------------------------------------------------------
(* Steps that settle something, for the action property and the refinement. *)

\* A step either leaves alone what PaidFulfilment sees, or settles an order
\* payment, settles a deposit, or is a wallet payment.
LEMMA SettlementSteps ==
  ASSUME IInv, [Next]_vars
  PROVE  \/ /\ UNCHANGED <<confirmed, grants, walletRow>>
            /\ \A q \in confirmed : payOrder'[q] = payOrder[q]
         \/ \E p \in Payments : SettleOrderPayment(p) /\ UNCHANGED payOrder
         \/ \E p \in Payments : SettleTopUp(p) /\ UNCHANGED payOrder
         \/ \E p \in Payments, o \in Orders : PayOrderWithWallet(p, o)
<1>1. CASE \E o \in Orders : OrderStep(o)
  BY <1>1 DEF OrderStep, CreateOrder, BeginCancel, CommitCancel, BeginInitiate, Transfer,
       orderVars, payVars, walletVars
<1>2. CASE \E p \in Payments : PaymentStep(p)
  <2> PICK p \in Payments : PaymentStep(p)
    BY <1>2
  <2>1. CASE \/ \E u \in Users, m \in {"CARD_TO_CARD", "CRYPTO"}, amount \in TopUps :
                  InitiateWalletDeposit(p, u, m, amount)
             \/ \E o \in Orders, m \in Methods \ {"WALLET"} : CreatePayment(p, o, m)
    <3>1. /\ UNCHANGED <<confirmed, grants, walletRow>>
          /\ payStatus[p] = "NONE"
          /\ \E o : payOrder' = [payOrder EXCEPT ![p] = o]
      BY <2>1 DEF InitiateWalletDeposit, CreatePayment, NewPayment, orderVars, walletVars
    <3>2. p \notin confirmed /\ confirmed \subseteq Payments
      BY <3>1 DEF IInv, TypeOK, SettledNeverRefused
    <3>3. QED
      BY <3>1, <3>2 DEF IInv, TypeOK
  <2>2. CASE \/ RequestGateway(p) \/ CallbackOkVerified(p) \/ SettleVerifiedFails(p)
             \/ \E status \in {"OK", "NOK"} : GatewayRedirect(p, status)
             \/ SubmitReceipt(p) \/ FinishOk(p) \/ FinishFails(p)
    BY <2>2 DEF RequestGateway, CallbackOkVerified, SettleVerifiedFails, GatewayRedirect,
         SubmitReceipt, FinishOk, FinishFails, orderVars, payVars, walletVars
  <2>3. CASE \/ CallbackNok(p) \/ CallbackOkDeclined(p)
             \/ MarkAwaiting(p) \/ RejectReceipt(p)
    BY <2>3 DEF CallbackNok, CallbackOkDeclined, RejectReceipt, Refuse, MarkAwaiting,
         orderVars, walletVars
  <2>4. CASE SettleVerified(p) \/ ApproveReceipt(p)
    BY <2>4 DEF SettleVerified, ApproveReceipt, Settle
  <2>5. CASE \E o \in Orders : PayOrderWithWallet(p, o)
    BY <2>5
  <2>6. QED
    BY <2>1, <2>2, <2>3, <2>4, <2>5 DEF PaymentStep
<1>3. CASE PanelChange \/ Crash \/ UNCHANGED vars
  BY <1>3 DEF PanelChange, Crash, vars, orderVars, payVars, walletVars
<1>4. QED
  BY <1>1, <1>2, <1>3 DEF Next

\* A wallet is charged for an order only in the step that grants its plan:
\* never twice, and never after another payment had it granted, although
\* payOrderWithWallet races receipts, callbacks and itself.
THEOREM ChargeBuysTheGrant == Spec => WalletChargeBuysTheGrant
<1>1. ASSUME IInv, [Next]_vars, NEW q \in Payments,
             walletRow[q] = "NONE", walletRow'[q] = "PURCHASE"
      PROVE  grants[payOrder'[q]] = 0 /\ grants'[payOrder'[q]] = 1
  <2>1. CASE UNCHANGED walletRow
    BY <1>1, <2>1
  <2>2. ASSUME NEW p \in Payments, SettleOrderPayment(p)
        PROVE  UNCHANGED walletRow
    BY <2>2 DEF SettleOrderPayment
  <2>3. ASSUME NEW p \in Payments, SettleTopUp(p)
        PROVE  FALSE
    BY <1>1, <2>3, SettleTopUpEffect DEF IInv, TypeOK
  <2>4. ASSUME NEW p \in Payments, NEW o \in Orders, PayOrderWithWallet(p, o)
        PROVE  grants[payOrder'[q]] = 0 /\ grants'[payOrder'[q]] = 1
    <3>1. /\ walletRow' = [walletRow EXCEPT ![p] = "PURCHASE"]
          /\ payOrder' = [payOrder EXCEPT ![p] = o]
          /\ orderStatus[o] = "PENDING"
      BY <2>4 DEF PayOrderWithWallet, WalletPayable, NewPayment
    <3>2. q = p /\ payOrder'[q] = o
      BY <1>1, <3>1 DEF IInv, TypeOK
    <3>3. grants[o] = 0
      BY <1>1, <3>1 DEF IInv, OrderInv
    <3>4. grants' = [grants EXCEPT ![o] = 1]
      BY <1>1, <2>4, CompletionGrantsOnce DEF PayOrderWithWallet
    <3>5. QED
      BY <1>1, <3>2, <3>3, <3>4 DEF IInv, TypeOK
  <2>5. QED
    BY <1>1, <2>1, <2>2, <2>3, <2>4, SettlementSteps
<1>2. IInv /\ [Next]_vars =>
        [\A p \in Payments :
           walletRow[p] = "NONE" /\ walletRow'[p] = "PURCHASE" =>
             grants[payOrder'[p]] = 0 /\ grants'[payOrder'[p]] = 1]_vars
  BY <1>1
<1>3. QED
  BY <1>2, Invariance, PTL DEF Spec, WalletChargeBuysTheGrant

\* Settlement implements PaidFulfilment: with all its statuses, receipts,
\* callbacks and crashes, a payment settles once, for the purpose it was
\* created for, and nothing else grants a plan or credits a deposit.
THEOREM ImplementsPaidFulfilment == Spec => SettlementRefinesPaidFulfilment
<1> DEFINE Purpose == [p \in Payments |-> IF p \in confirmed THEN payOrder[p] ELSE "UNSETTLED"]
           Credited == {p \in Payments : walletRow[p] = "DEPOSIT"}
<1>1. Init => Fulfilment!Init
  BY DEF Init, Fulfilment!Init
<1>2. ASSUME IInv, [Next]_vars
      PROVE  [Fulfilment!Next]_(Fulfilment!vars)
  <2>1. CASE /\ UNCHANGED <<confirmed, grants, walletRow>>
             /\ \A q \in confirmed : payOrder'[q] = payOrder[q]
    BY <2>1 DEF Fulfilment!vars
  <2>2. ASSUME NEW p \in Payments, NEW o \in Orders,
               IInv,
               confirmed' = confirmed \cup {p},
               payOrder'[p] = o,
               \A q \in confirmed : payOrder'[q] = payOrder[q],
               grants' = [grants EXCEPT ![o] = 1],
               Credited' = Credited
        PROVE  [Fulfilment!Next]_(Fulfilment!vars)
    <3>1. CASE p \in confirmed
      <4>1. grants[o] = 1 /\ Purpose' = Purpose
        BY <2>2, <3>1 DEF IInv, FulfilledIffPaid
      <4>2. grants' = grants
        BY <2>2, <4>1 DEF IInv, TypeOK
      <4>3. QED
        BY <2>2, <4>1, <4>2 DEF Fulfilment!vars
    <3>2. CASE p \notin confirmed
      <4>1. Purpose[p] = "UNSETTLED" /\ Purpose' = [Purpose EXCEPT ![p] = o]
        BY <2>2, <3>2
      <4>2. Fulfilment!SettleOrder(p, o)
        BY <2>2, <4>1 DEF Fulfilment!SettleOrder
      <4>3. QED
        BY <4>2 DEF Fulfilment!Next
    <3>3. QED
      BY <3>1, <3>2
  <2>3. ASSUME NEW p \in Payments, SettleOrderPayment(p), UNCHANGED payOrder
        PROVE  [Fulfilment!Next]_(Fulfilment!vars)
    <3>1. /\ payOrder[p] \in Orders
          /\ confirmed' = confirmed \cup {p}
          /\ grants' = [grants EXCEPT ![payOrder[p]] = 1]
          /\ walletRow' = walletRow
      BY <1>2, <2>3, SettleOrderPaymentEffect
    <3>2. QED
      BY <1>2, <2>2, <2>3, <3>1
  <2>4. ASSUME NEW p \in Payments, SettleTopUp(p), UNCHANGED payOrder
        PROVE  [Fulfilment!Next]_(Fulfilment!vars)
    <3>1. /\ payOrder[p] = NoOrder
          /\ confirmed' = confirmed \cup {p}
          /\ walletRow' = [walletRow EXCEPT ![p] = "DEPOSIT"]
          /\ grants' = grants
      BY <1>2, <2>4, SettleTopUpEffect DEF orderVars
    <3>2. Credited' = Credited \cup {p}
      BY <1>2, <3>1 DEF IInv, TypeOK
    <3>3. CASE p \in confirmed
      <4>1. p \in Credited /\ Purpose' = Purpose
        BY <1>2, <2>4, <3>1, <3>3 DEF IInv, LedgerInv
      <4>2. QED
        BY <3>1, <3>2, <4>1 DEF Fulfilment!vars
    <3>4. CASE p \notin confirmed
      <4>1. Purpose[p] = "UNSETTLED" /\ Purpose' = [Purpose EXCEPT ![p] = NoOrder]
        BY <2>4, <3>1, <3>4
      <4>2. Fulfilment!SettleTopUp(p)
        BY <3>1, <3>2, <4>1 DEF Fulfilment!SettleTopUp
      <4>3. QED
        BY <4>2 DEF Fulfilment!Next
    <3>5. QED
      BY <3>3, <3>4
  <2>5. ASSUME NEW p \in Payments, NEW o \in Orders, PayOrderWithWallet(p, o)
        PROVE  [Fulfilment!Next]_(Fulfilment!vars)
    <3>1. /\ payStatus[p] = "NONE"
          /\ payOrder' = [payOrder EXCEPT ![p] = o]
          /\ confirmed' = confirmed \cup {p}
          /\ walletRow' = [walletRow EXCEPT ![p] = "PURCHASE"]
      BY <2>5 DEF PayOrderWithWallet, NewPayment
    <3>2. p \notin confirmed
      BY <1>2, <3>1 DEF IInv, SettledNeverRefused
    <3>3. payOrder'[p] = o /\ \A q \in confirmed : payOrder'[q] = payOrder[q]
      BY <1>2, <3>1, <3>2 DEF IInv, TypeOK
    <3>4. Credited' = Credited
      BY <1>2, <3>1, <3>2 DEF IInv, TypeOK, LedgerInv
    <3>5. grants' = [grants EXCEPT ![o] = 1]
      BY <1>2, <2>5, CompletionGrantsOnce DEF PayOrderWithWallet
    <3>6. QED
      BY <1>2, <2>2, <3>1, <3>3, <3>4, <3>5
  <2>6. QED
    BY <1>2, <2>1, <2>3, <2>4, <2>5, SettlementSteps
<1>3. QED
  BY <1>1, <1>2, Invariance, PTL DEF Spec, SettlementRefinesPaidFulfilment, Fulfilment!Spec

-----------------------------------------------------------------------------
(* The ledger.                                                             *)

\* What RowsTotal adds up, for any amounts and any set of payments.
LEMMA MapSum ==
  ASSUME NEW f, NEW S
  PROVE  MapThenSumSet(LAMBDA p : f[p], S) = SumOver(f, S)
BY DEF MapThenSumSet, MapThenFoldSet, SumOver, Adds, Pick

Rows(type, u) == {p \in Payments : walletRow[p] = type /\ payUser[p] = u}

\* The rows written so far are finitely many, and the totals add them up.
TotalsInv ==
  /\ IsFiniteSet({p \in Payments : walletRow[p] # "NONE"})
  /\ \A u \in Users :
       /\ deposited[u] = SumOver(payAmount, Rows("DEPOSIT", u))
       /\ spent[u] = SumOver(payAmount, Rows("PURCHASE", u))

LEMMA RowsFinite ==
  ASSUME TotalsInv, NEW type \in {"DEPOSIT", "PURCHASE"}, NEW u
  PROVE  IsFiniteSet(Rows(type, u))
<1>1. Rows(type, u) \subseteq {p \in Payments : walletRow[p] # "NONE"}
  BY DEF Rows
<1> QED BY <1>1, FS_Subset DEF TotalsInv

\* A step that writes no row, and leaves those written alone, keeps the totals.
LEMMA NoRowWritten ==
  ASSUME TotalsInv, IInv, UNCHANGED <<walletRow, deposited, spent>>,
         \A p \in Payments : walletRow[p] # "NONE" =>
            payUser'[p] = payUser[p] /\ payAmount'[p] = payAmount[p]
  PROVE  TotalsInv'
<1>1. ASSUME NEW type \in {"DEPOSIT", "PURCHASE"}, NEW u \in Users
      PROVE  SumOver(payAmount', Rows(type, u)') = SumOver(payAmount, Rows(type, u))
  <2>1. Rows(type, u)' = Rows(type, u)
    BY DEF Rows
  <2>2. \A p \in Rows(type, u) : payAmount'[p] = payAmount[p]
    BY DEF Rows
  <2>3. IsFiniteSet(Rows(type, u))
    BY RowsFinite
  <2> QED BY <2>1, <2>2, <2>3, SumSame
<1> QED BY <1>1 DEF TotalsInv

\* A step that writes the row of q adds its amount to the total of its type.
LEMMA RowWritten ==
  ASSUME TotalsInv, IInv, TypeOK', NEW q \in Payments, walletRow[q] = "NONE",
         NEW t \in {"DEPOSIT", "PURCHASE"}, NEW owner \in Users,
         walletRow' = [walletRow EXCEPT ![q] = t],
         payUser'[q] = owner,
         \A p \in Payments : walletRow[p] # "NONE" =>
            payUser'[p] = payUser[p] /\ payAmount'[p] = payAmount[p]
  PROVE  /\ IsFiniteSet({p \in Payments : walletRow[p] # "NONE"})'
         /\ \A type \in {"DEPOSIT", "PURCHASE"}, u \in Users :
              SumOver(payAmount, Rows(type, u))' =
                IF type = t /\ u = owner THEN SumOver(payAmount, Rows(type, u)) + payAmount'[q]
                ELSE SumOver(payAmount, Rows(type, u))
<1>1. {p \in Payments : walletRow'[p] # "NONE"} = {p \in Payments : walletRow[p] # "NONE"} \cup {q}
  BY DEF IInv, TypeOK
<1>2. IsFiniteSet({p \in Payments : walletRow[p] # "NONE"} \cup {q})
  BY FS_AddElement DEF TotalsInv
<1>3. ASSUME NEW type \in {"DEPOSIT", "PURCHASE"}, NEW u \in Users
      PROVE  SumOver(payAmount', Rows(type, u)') =
                IF type = t /\ u = owner THEN SumOver(payAmount, Rows(type, u)) + payAmount'[q]
                ELSE SumOver(payAmount, Rows(type, u))
  <2> DEFINE R == Rows(type, u)
  <2>1. \A p \in R : payAmount'[p] = payAmount[p]
    BY DEF Rows
  <2>2. IsFiniteSet(R) /\ q \notin R
    BY RowsFinite DEF Rows
  <2>3. SumOver(payAmount', R) = SumOver(payAmount, R)
    BY <2>1, <2>2, SumSame
  <2>4. CASE type = t /\ u = owner
    <3>1. Rows(type, u)' = R \cup {q}
      BY <2>4 DEF Rows, IInv, TypeOK
    <3>2. \A p \in R \cup {q} : payAmount'[p] \in Int
      BY DEF Rows, TypeOK
    <3> HIDE DEF R
    <3>3. SumOver(payAmount', R \cup {q}) = SumOver(payAmount', R) + payAmount'[q]
      BY <2>2, <3>2, SumOfOneMore
    <3> QED BY <2>3, <2>4, <3>1, <3>3 DEF R
  <2>5. CASE ~(type = t /\ u = owner)
    <3>1. Rows(type, u)' = R
      BY <2>5 DEF Rows, IInv, TypeOK
    <3> QED BY <2>3, <2>5, <3>1
  <2> QED BY <2>4, <2>5
<1> QED BY <1>1, <1>2, <1>3

LEMMA TotalsStart == Init => TotalsInv
<1> SUFFICES ASSUME Init PROVE TotalsInv
  OBVIOUS
<1>1. {p \in Payments : walletRow[p] # "NONE"} = {}
  BY DEF Init
<1>2. \A type \in {"DEPOSIT", "PURCHASE"}, u \in Users : Rows(type, u) = {}
  BY DEF Init, Rows
<1> QED BY <1>1, <1>2, SumOfNone, FS_EmptySet DEF TotalsInv, Init

\* Steps that write no row: all but a first settlement of a deposit and a
\* wallet payment.
LEMMA TotalsSteps ==
  ASSUME IInv, [Next]_vars
  PROVE  \/ /\ UNCHANGED <<walletRow, deposited, spent>>
            /\ \A p \in Payments : walletRow[p] # "NONE" =>
                 payUser'[p] = payUser[p] /\ payAmount'[p] = payAmount[p]
         \/ \E p \in Payments : SettleTopUp(p) /\ UNCHANGED <<payUser, payAmount>>
         \/ \E p \in Payments, o \in Orders : PayOrderWithWallet(p, o)
<1>1. CASE \E o \in Orders : OrderStep(o)
  BY <1>1 DEF OrderStep, CreateOrder, BeginCancel, CommitCancel, BeginInitiate, Transfer,
       orderVars, payVars, walletVars
<1>2. CASE \E p \in Payments : PaymentStep(p)
  <2> PICK p \in Payments : PaymentStep(p)
    BY <1>2
  <2>1. CASE \/ \E u \in Users, m \in {"CARD_TO_CARD", "CRYPTO"}, amount \in TopUps :
                  InitiateWalletDeposit(p, u, m, amount)
             \/ \E o \in Orders, m \in Methods \ {"WALLET"} : CreatePayment(p, o, m)
    <3>1. /\ UNCHANGED <<walletRow, deposited, spent>>
          /\ payStatus[p] = "NONE"
          /\ \E u : payUser' = [payUser EXCEPT ![p] = u]
          /\ \E a : payAmount' = [payAmount EXCEPT ![p] = a]
      BY <2>1 DEF InitiateWalletDeposit, CreatePayment, NewPayment, walletVars
    <3>2. walletRow[p] = "NONE"
      BY <3>1 DEF IInv, TypeOK, SettledNeverRefused, LedgerInv
    <3>3. QED
      BY <3>1, <3>2 DEF IInv, TypeOK
  <2>2. CASE \/ RequestGateway(p) \/ CallbackOkVerified(p) \/ SettleVerifiedFails(p)
             \/ \E status \in {"OK", "NOK"} : GatewayRedirect(p, status)
             \/ SubmitReceipt(p) \/ FinishOk(p) \/ FinishFails(p)
    BY <2>2 DEF RequestGateway, CallbackOkVerified, SettleVerifiedFails, GatewayRedirect,
         SubmitReceipt, FinishOk, FinishFails, payVars, walletVars
  <2>3. CASE \/ CallbackNok(p) \/ CallbackOkDeclined(p)
             \/ MarkAwaiting(p) \/ RejectReceipt(p)
    BY <2>3 DEF CallbackNok, CallbackOkDeclined, RejectReceipt, Refuse, MarkAwaiting,
         walletVars
  <2>4. CASE SettleVerified(p) \/ ApproveReceipt(p)
    BY <2>4 DEF SettleVerified, ApproveReceipt, Settle, SettleOrderPayment
  <2>5. CASE \E o \in Orders : PayOrderWithWallet(p, o)
    BY <2>5
  <2>6. QED
    BY <2>1, <2>2, <2>3, <2>4, <2>5 DEF PaymentStep
<1>3. CASE PanelChange \/ Crash \/ UNCHANGED vars
  BY <1>3 DEF PanelChange, Crash, vars, payVars, walletVars
<1>4. QED
  BY <1>1, <1>2, <1>3 DEF Next

LEMMA TotalsPreserved ==
  ASSUME IInv, IInv', TotalsInv, [Next]_vars
  PROVE  TotalsInv'
<1>1. CASE /\ UNCHANGED <<walletRow, deposited, spent>>
           /\ \A p \in Payments : walletRow[p] # "NONE" =>
                 payUser'[p] = payUser[p] /\ payAmount'[p] = payAmount[p]
  BY <1>1, NoRowWritten
<1>2. CASE \E p \in Payments : SettleTopUp(p) /\ UNCHANGED <<payUser, payAmount>>
  <2> PICK q \in Payments : SettleTopUp(q) /\ UNCHANGED <<payUser, payAmount>>
    BY <1>2
  <2>1. CASE walletRow[q] # "NONE"
    <3>1. UNCHANGED <<walletRow, deposited, spent>>
      BY <2>1 DEF SettleTopUp, CreditDeposit, NotYetCredited, walletVars
    <3> QED BY <3>1, NoRowWritten
  <2>2. CASE walletRow[q] = "NONE"
    <3>1. /\ walletRow' = [walletRow EXCEPT ![q] = "DEPOSIT"]
          /\ deposited' = [deposited EXCEPT ![payUser[q]] = @ + payAmount[q]]
          /\ spent' = spent
      BY <2>2 DEF SettleTopUp, CreditDeposit, NotYetCredited
    <3>2. payUser'[q] = payUser[q] /\ payAmount'[q] = payAmount[q]
      OBVIOUS
    <3>3. payUser[q] \in Users
      BY DEF SettleTopUp, ConfirmPayment, Confirmable, Claimable, IInv, PaymentInv
    <3>4. /\ IsFiniteSet({p \in Payments : walletRow[p] # "NONE"})'
          /\ \A type \in {"DEPOSIT", "PURCHASE"}, u \in Users :
              SumOver(payAmount, Rows(type, u))' =
                IF type = "DEPOSIT" /\ u = payUser[q]
                THEN SumOver(payAmount, Rows(type, u)) + payAmount'[q]
                ELSE SumOver(payAmount, Rows(type, u))
      BY <2>2, <3>1, <3>2, <3>3, RowWritten DEF IInv
    <3> QED BY <3>1, <3>2, <3>3, <3>4 DEF TotalsInv, IInv, TypeOK
  <2> QED BY <2>1, <2>2
<1>3. CASE \E p \in Payments, o \in Orders : PayOrderWithWallet(p, o)
  <2> PICK q \in Payments, o \in Orders : PayOrderWithWallet(q, o)
    BY <1>3
  <2>1. /\ payStatus[q] = "NONE"
        /\ walletRow' = [walletRow EXCEPT ![q] = "PURCHASE"]
        /\ payUser' = [payUser EXCEPT ![q] = Buyer[o]]
        /\ payAmount' = [payAmount EXCEPT ![q] = Price[o]]
        /\ spent' = [spent EXCEPT ![Buyer[o]] = @ + Price[o]]
        /\ deposited' = deposited
    BY DEF PayOrderWithWallet, NewPayment
  <2>2. walletRow[q] = "NONE"
    BY <2>1 DEF IInv, TypeOK, SettledNeverRefused, LedgerInv
  <2>3. Buyer[o] \in Users
    BY OrdersAssumption
  <2>4. payUser'[q] = Buyer[o] /\ payAmount'[q] = Price[o]
    BY <2>1 DEF IInv, TypeOK
  <2>5. \A p \in Payments : walletRow[p] # "NONE" =>
            payUser'[p] = payUser[p] /\ payAmount'[p] = payAmount[p]
    BY <2>1, <2>2 DEF IInv, TypeOK
  <2>6. /\ IsFiniteSet({p \in Payments : walletRow[p] # "NONE"})'
        /\ \A type \in {"DEPOSIT", "PURCHASE"}, u \in Users :
              SumOver(payAmount, Rows(type, u))' =
                IF type = "PURCHASE" /\ u = Buyer[o]
                THEN SumOver(payAmount, Rows(type, u)) + payAmount'[q]
                ELSE SumOver(payAmount, Rows(type, u))
    BY <2>1, <2>2, <2>3, <2>4, <2>5, RowWritten DEF IInv
  <2>7. Price[o] \in Nat /\ payAmount'[q] = Price[o] /\ spent \in [Users -> Nat]
    BY <2>4, OrdersAssumption DEF IInv, TypeOK
  <2>8. \A u \in Users : spent'[u] = IF u = Buyer[o] THEN spent[u] + Price[o] ELSE spent[u]
    BY <2>1, <2>3, <2>7
  <2>9. ASSUME NEW u \in Users
        PROVE  /\ deposited'[u] = SumOver(payAmount, Rows("DEPOSIT", u))'
               /\ spent'[u] = SumOver(payAmount, Rows("PURCHASE", u))'
    BY <2>1, <2>6, <2>7, <2>8 DEF TotalsInv
  <2> QED BY <2>6, <2>9 DEF TotalsInv
<1> QED BY <1>1, <1>2, <1>3, TotalsSteps

\* The totals of a wallet are the sums of its ledger rows, and its balance is
\* what they and the referral rewards leave, for any number of users, orders
\* and payments (mutateBalanceInTransaction, creditReferralCommission).
THEOREM WalletsAddUp == Spec => []WalletMatchesLedger
<1>1. Init => IInv /\ TotalsInv
  BY InitEstablishes, TotalsStart
<1>2. IInv /\ TotalsInv /\ [Next]_vars => (IInv /\ TotalsInv)'
  BY StepPreserves, TotalsPreserved
<1>3. IInv /\ TotalsInv => WalletMatchesLedger
  <2> SUFFICES ASSUME IInv, TotalsInv PROVE WalletMatchesLedger
    OBVIOUS
  <2>1. \A type, u : RowsTotal(type, u) = SumOver(payAmount, Rows(type, u))
    BY MapSum DEF RowsTotal, Rows
  <2> QED BY <2>1 DEF WalletMatchesLedger, TotalsInv, IInv, BalanceInv
<1>4. QED
  BY <1>1, <1>2, <1>3, PTL DEF Spec
=============================================================================
