----------------------------- MODULE Settlement -----------------------------
(***************************************************************************)
(* Orders, payments, card-to-card receipts, wallet balances and the        *)
(* hand-over to VPN provisioning: PaymentsService, the parts of            *)
(* OrdersService, SubscriptionsService and WalletService it calls inside   *)
(* one database transaction, and the external payment gateway.             *)
(*                                                                         *)
(* A $transaction of the code is one step: every write in it is a          *)
(* compare-and-set on a row, or follows a row lock or a unique index, and  *)
(* a compare-and-set that finds no row re-reads before it gives up. (The   *)
(* aggregate read of creditReferralCommission and the expiry read of a     *)
(* renewal have neither: no property here is about them.)                  *)
(* Handlers that use several statements outside a transaction are several  *)
(* steps; what such a handler remembers between two of them is a volatile  *)
(* variable, which Crash empties.                                          *)
(*                                                                         *)
(* A definition marked "mutant" is a plausible defect of the one below it: *)
(* no specification uses it.                                               *)
(***************************************************************************)
EXTENDS Integers, FiniteSets, FiniteSetsExt

CONSTANTS
  Users, Orders, Payments,
  NoUser, NoOrder,
  Buyer,              \* order -> the user who placed it
  Target,             \* renewal order -> the order whose subscription it renews
  Price,              \* order -> totalAmount
  TopUps,             \* amounts a wallet deposit may have
  Referrer,           \* user -> the user who referred it
  CommissionPercent,  \* referral.commissionPercent
  MaxBonus            \* referral.maxBonus, 0: no cap

ASSUME UsersAssumption == NoUser \notin Users
ASSUME OrdersAssumption ==
  /\ NoOrder \notin Orders
  /\ Buyer \in [Orders -> Users]
  /\ Price \in [Orders -> Nat]
  /\ Target \in [Orders -> Orders \cup {NoOrder}]
ASSUME AmountsAssumption ==
  /\ TopUps \subseteq Nat
  /\ Referrer \in [Users -> Users \cup {NoUser}]
  /\ CommissionPercent \in 0..100
  /\ MaxBonus \in Nat

VARIABLES
  orderStatus,   \* orders.status; "NONE" before the row exists
  grants,        \* subscription_events rows written for the order
  subOwner,      \* subscriptions.userId, by the order that created the row
  link,          \* orders whose subscription row has a subscriptionLink
  payStatus,     \* payments.status; "NONE" before the row exists
  payMethod,     \* payments.method
  payOrder,      \* payments.orderId
  payUser,       \* payments.userId
  payAmount,     \* payments.amount
  confirmed,     \* payments with confirmedAt set
  requested,     \* payments with gatewayRef set
  receipt,       \* receipts.status of the one receipt of a payment
  walletRow,     \* type of the wallet_transactions row of a payment
  balance, deposited, spent,   \* wallets.balance, totalDeposited, totalSpent
  earned,        \* sum of a user's REFERRAL_REWARD rows
  panelReady,    \* an ACTIVE XUI panel with an eligible inbound exists
  redirects,     \* external: redirects the gateway handed to payers' browsers
  checked,       \* volatile: orders an initiate handler has read as PENDING
  submitting,    \* volatile: submitReceipt between its two writes
  cancelling,    \* volatile: cancel between its read and its write
  verified,      \* volatile: callbacks between gateway.verify and settlement
  finishing      \* volatile: settlements committed, provisioning to be called

orderVars == <<orderStatus, grants, subOwner>>
payVars == <<payStatus, payMethod, payOrder, payUser, payAmount, confirmed>>
walletVars == <<walletRow, balance, deposited, spent, earned>>
volatileVars == <<checked, submitting, cancelling, verified, finishing>>
vars == <<orderVars, link, payVars, requested, receipt, walletVars,
          panelReady, redirects, volatileVars>>

OrderStatuses == {"NONE", "PENDING", "COMPLETED", "CANCELLED"}
Methods == {"ONLINE", "CARD_TO_CARD", "CRYPTO", "WALLET"}
Claimable == {"INITIATED", "PENDING", "AWAITING_VERIFY"}
PaymentStatuses == Claimable \cup {"NONE", "CONFIRMED", "REJECTED", "CANCELLED"}

Init ==
  /\ orderStatus = [o \in Orders |-> "NONE"]
  /\ grants = [o \in Orders |-> 0]
  /\ subOwner = [o \in Orders |-> NoUser]
  /\ link = {}
  /\ payStatus = [p \in Payments |-> "NONE"]
  /\ payMethod = [p \in Payments |-> "NONE"]
  /\ payOrder = [p \in Payments |-> NoOrder]
  /\ payUser = [p \in Payments |-> NoUser]
  /\ payAmount = [p \in Payments |-> 0]
  /\ confirmed = {}
  /\ requested = {}
  /\ receipt = [p \in Payments |-> "NONE"]
  /\ walletRow = [p \in Payments |-> "NONE"]
  /\ balance = [u \in Users |-> 0]
  /\ deposited = [u \in Users |-> 0]
  /\ spent = [u \in Users |-> 0]
  /\ earned = [u \in Users |-> 0]
  /\ panelReady \in BOOLEAN
  /\ redirects = {}
  /\ checked = {} /\ submitting = {} /\ cancelling = {}
  /\ verified = {} /\ finishing = {}

-----------------------------------------------------------------------------
(* Orders and subscriptions.                                               *)

\* The subscription an order is about, named by the order that created it.
SubOf(o) == IF Target[o] = NoOrder THEN o ELSE Target[o]

\* A renewal needs its subscription to belong to the buyer still.
RenewalAllowed(o) == Target[o] # NoOrder => subOwner[Target[o]] = Buyer[o]

CreateOrder(o) ==
  /\ orderStatus[o] = "NONE"
  /\ RenewalAllowed(o)
  /\ orderStatus' = [orderStatus EXCEPT ![o] = "PENDING"]
  /\ UNCHANGED <<grants, subOwner, link, payVars, requested, receipt,
                 walletVars, panelReady, redirects, volatileVars>>

\* The two ways out of completeOrderInTransaction that do not throw.
FirstCompletion(o) ==
  orderStatus[o] = "PENDING" /\ panelReady /\ RenewalAllowed(o)
CompletableWithoutReread(o) == orderStatus[o] # "NONE"   \* mutant
CompletableOnlyOnce(o) == FirstCompletion(o)              \* mutant
Completable(o) == orderStatus[o] = "COMPLETED" \/ FirstCompletion(o)

\* Order, subscription and event rows after completeOrderInTransaction(o).
GrantOnEveryCompletion(o) == grants[o] + 1   \* mutant
GrantOnce(o) == IF FirstCompletion(o) THEN grants[o] + 1 ELSE grants[o]
CompleteOrder(o) ==
  /\ Completable(o)
  /\ orderStatus' = [orderStatus EXCEPT ![o] = "COMPLETED"]
  /\ grants' = [grants EXCEPT ![o] = GrantOnce(o)]
  /\ subOwner' = IF FirstCompletion(o) /\ Target[o] = NoOrder
                 THEN [subOwner EXCEPT ![o] = Buyer[o]] ELSE subOwner

\* Referral commission paid when o completes for the first time.
CappedCommission(o, r) ==
  LET commission == (Price[o] * CommissionPercent) \div 100
      room == MaxBonus - earned[r]
  IN  IF MaxBonus > 0 /\ room < commission THEN room ELSE commission
Reward(o, u) ==
  IF /\ FirstCompletion(o)
     /\ u = Referrer[Buyer[o]]
     /\ CappedCommission(o, u) > 0
  THEN CappedCommission(o, u) ELSE 0

\* cancel reads the order, then updates it by id alone.
MayCancel(o) == orderStatus[o] = "PENDING"
BeginCancel(o) ==
  /\ MayCancel(o)
  /\ cancelling' = cancelling \cup {o}
  /\ UNCHANGED <<orderVars, link, payVars, requested, receipt, walletVars,
                 panelReady, redirects, checked, submitting, verified, finishing>>

CommitCancel(o) ==
  /\ o \in cancelling
  /\ orderStatus' = [orderStatus EXCEPT ![o] = "CANCELLED"]
  /\ cancelling' = cancelling \ {o}
  /\ UNCHANGED <<grants, subOwner, link, payVars, requested, receipt, walletVars,
                 panelReady, redirects, checked, submitting, verified, finishing>>

Transfer(o, u) ==
  /\ subOwner[o] # NoUser
  /\ subOwner' = [subOwner EXCEPT ![o] = u]
  /\ UNCHANGED <<orderStatus, grants, link, payVars, requested, receipt,
                 walletVars, panelReady, redirects, volatileVars>>

-----------------------------------------------------------------------------
(* Creating payments.                                                      *)

NewPayment(p, o, u, m, amount, status) ==
  /\ payStatus[p] = "NONE"
  /\ payStatus' = [payStatus EXCEPT ![p] = status]
  /\ payMethod' = [payMethod EXCEPT ![p] = m]
  /\ payOrder' = [payOrder EXCEPT ![p] = o]
  /\ payUser' = [payUser EXCEPT ![p] = u]
  /\ payAmount' = [payAmount EXCEPT ![p] = amount]

InitiateWalletDeposit(p, u, m, amount) ==
  /\ NewPayment(p, NoOrder, u, m, amount, "PENDING")
  /\ UNCHANGED <<orderVars, link, confirmed, requested, receipt, walletVars,
                 panelReady, redirects, volatileVars>>

\* initiate reads the order; the payment row is a later statement. An order
\* stays in checked, as any number of such handlers may be in flight.
BeginInitiate(o) ==
  /\ orderStatus[o] = "PENDING"
  /\ checked' = checked \cup {o}
  /\ UNCHANGED <<orderVars, link, payVars, requested, receipt, walletVars,
                 panelReady, redirects, submitting, cancelling, verified, finishing>>

CreatePayment(p, o, m) ==
  /\ o \in checked
  /\ NewPayment(p, o, Buyer[o], m, Price[o], "PENDING")
  /\ UNCHANGED <<orderVars, link, confirmed, requested, receipt, walletVars,
                 panelReady, redirects, volatileVars>>

\* gateway.initiate answered and its authority is stored as gatewayRef.
RequestGateway(p) ==
  /\ payMethod[p] = "ONLINE" /\ p \notin requested
  /\ requested' = requested \cup {p}
  /\ UNCHANGED <<orderVars, link, payVars, receipt, walletVars,
                 panelReady, redirects, volatileVars>>

-----------------------------------------------------------------------------
(* Settlement: settlePaymentInTransaction.                                 *)

ConfirmableWhenAwaiting(p) == payStatus[p] \in {"AWAITING_VERIFY", "CONFIRMED"}   \* mutant
\* The compare-and-set to CONFIRMED succeeds, or the row is CONFIRMED already.
Confirmable(p) == payStatus[p] \in Claimable \cup {"CONFIRMED"}

ConfirmPayment(p) ==
  /\ Confirmable(p)
  /\ payStatus' = [payStatus EXCEPT ![p] = "CONFIRMED"]
  /\ confirmed' = confirmed \cup {p}

\* mutateBalanceInTransaction returns early when the payment has its row.
CreditedOnEveryCall(p) == TRUE   \* mutant
NotYetCredited(p) == walletRow[p] = "NONE"

CreditDeposit(p) ==
  IF NotYetCredited(p)
  THEN /\ walletRow' = [walletRow EXCEPT ![p] = "DEPOSIT"]
       /\ balance' = [balance EXCEPT ![payUser[p]] = @ + payAmount[p]]
       /\ deposited' = [deposited EXCEPT ![payUser[p]] = @ + payAmount[p]]
       /\ UNCHANGED <<spent, earned>>
  ELSE UNCHANGED walletVars

SettleOrderPayment(p) ==
  LET o == payOrder[p] IN
  /\ o # NoOrder
  /\ ConfirmPayment(p)
  /\ CompleteOrder(o)
  /\ balance' = [u \in Users |-> balance[u] + Reward(o, u)]
  /\ earned' = [u \in Users |-> earned[u] + Reward(o, u)]
  /\ finishing' = finishing \cup {p}
  /\ UNCHANGED <<walletRow, deposited, spent>>

SettleTopUp(p) ==
  /\ payOrder[p] = NoOrder
  /\ ConfirmPayment(p)
  /\ CreditDeposit(p)
  /\ UNCHANGED <<orderVars, finishing>>

Settle(p) ==
  /\ SettleOrderPayment(p) \/ SettleTopUp(p)
  /\ UNCHANGED <<payMethod, payOrder, payUser, payAmount>>

CanSettle(p) ==
  Confirmable(p) /\ (payOrder[p] # NoOrder => Completable(payOrder[p]))

-----------------------------------------------------------------------------
(* Online payments: the gateway, its redirects and their handler.          *)

\* External: the payer pays, or gives up, on the hosted page; the browser
\* can deliver the redirect it got late, often, or never.
GatewayRedirect(p, status) ==
  /\ p \in requested
  /\ redirects' = redirects \cup {<<p, status>>}
  /\ UNCHANGED <<orderVars, link, payVars, requested, receipt, walletVars,
                 panelReady, volatileVars>>

\* The compare-and-set of an unsettled payment to a final refusal.
RefusableInAnyStatus(p) == payStatus[p] # "NONE"   \* mutant
Refusable(p) == payStatus[p] \in Claimable
Refuse(p, status) ==
  /\ Refusable(p)
  /\ payStatus' = [payStatus EXCEPT ![p] = status]
  /\ UNCHANGED <<payMethod, payOrder, payUser, payAmount, confirmed>>

CallbackNok(p) ==
  /\ <<p, "NOK">> \in redirects
  /\ Refuse(p, "CANCELLED")
  /\ UNCHANGED <<orderVars, link, requested, receipt, walletVars,
                 panelReady, redirects, volatileVars>>

\* gateway.verify answered CONFIRMED (100 or 101) for an OK redirect.
CallbackOkVerified(p) ==
  /\ <<p, "OK">> \in redirects
  /\ verified' = verified \cup {p}
  /\ UNCHANGED <<orderVars, link, payVars, requested, receipt, walletVars,
                 panelReady, redirects, checked, submitting, cancelling, finishing>>

\* gateway.verify answered FAILED.
CallbackOkDeclined(p) ==
  /\ <<p, "OK">> \in redirects
  /\ Refuse(p, "REJECTED")
  /\ UNCHANGED <<orderVars, link, requested, receipt, walletVars,
                 panelReady, redirects, volatileVars>>

SettleVerified(p) ==
  /\ p \in verified
  /\ Settle(p)
  /\ verified' = verified \ {p}
  /\ UNCHANGED <<link, requested, receipt, panelReady, redirects,
                 checked, submitting, cancelling>>

\* The settlement transaction throws and rolls back; the callback fails.
SettleVerifiedFails(p) ==
  /\ p \in verified
  /\ ~CanSettle(p)
  /\ verified' = verified \ {p}
  /\ UNCHANGED <<orderVars, link, payVars, requested, receipt, walletVars,
                 panelReady, redirects, checked, submitting, cancelling, finishing>>

-----------------------------------------------------------------------------
(* Card-to-card receipts.                                                  *)

\* submitReceipt checks the method, not the status, and writes the payment
\* in a second statement, by id alone.
SubmitReceipt(p) ==
  /\ payMethod[p] = "CARD_TO_CARD"
  /\ receipt[p] = "NONE"
  /\ receipt' = [receipt EXCEPT ![p] = "PENDING"]
  /\ submitting' = submitting \cup {p}
  /\ UNCHANGED <<orderVars, link, payVars, requested, walletVars,
                 panelReady, redirects, checked, cancelling, verified, finishing>>

MarkAwaiting(p) ==
  /\ p \in submitting
  /\ payStatus' = [payStatus EXCEPT ![p] = "AWAITING_VERIFY"]
  /\ submitting' = submitting \ {p}
  /\ UNCHANGED <<orderVars, link, payMethod, payOrder, payUser, payAmount, confirmed,
                 requested, receipt, walletVars, panelReady, redirects,
                 checked, cancelling, verified, finishing>>

\* A decided receipt accepts only the decision it already carries.
DecisionAllowed(p, decision) == receipt[p] \in {"PENDING", decision}

ApproveReceipt(p) ==
  /\ DecisionAllowed(p, "APPROVED")
  /\ Settle(p)
  /\ receipt' = [receipt EXCEPT ![p] = "APPROVED"]
  /\ UNCHANGED <<link, requested, panelReady, redirects,
                 checked, submitting, cancelling, verified>>

\* The read check and the conditional claim of one decision: a rejection may
\* only be the first decision a receipt gets.
UndecidedUnclaimed(p) == receipt[p] \in {"PENDING", "APPROVED"}   \* mutant
Undecided(p) == receipt[p] = "PENDING"

RejectReceipt(p) ==
  /\ Undecided(p)
  /\ Refuse(p, "REJECTED")
  /\ receipt' = [receipt EXCEPT ![p] = "REJECTED"]
  /\ UNCHANGED <<orderVars, link, requested, walletVars, panelReady,
                 redirects, volatileVars>>

-----------------------------------------------------------------------------
(* Wallet payment: payOrderWithWallet, with the order row locked.          *)

WalletPayable(o) == orderStatus[o] = "PENDING"
FundsUnchecked(o) == TRUE   \* mutant
SufficientFunds(o) == balance[Buyer[o]] >= Price[o]

PayOrderWithWallet(p, o) ==
  /\ WalletPayable(o) /\ SufficientFunds(o) /\ Completable(o)
  /\ NewPayment(p, o, Buyer[o], "WALLET", Price[o], "CONFIRMED")
  /\ confirmed' = confirmed \cup {p}
  /\ CompleteOrder(o)
  /\ walletRow' = [walletRow EXCEPT ![p] = "PURCHASE"]
  /\ balance' = [u \in Users |->
                   balance[u] - (IF u = Buyer[o] THEN Price[o] ELSE 0) + Reward(o, u)]
  /\ spent' = [spent EXCEPT ![Buyer[o]] = @ + Price[o]]
  /\ earned' = [u \in Users |-> earned[u] + Reward(o, u)]
  /\ finishing' = finishing \cup {p}
  /\ UNCHANGED <<deposited, link, requested, receipt, panelReady, redirects,
                 checked, submitting, cancelling, verified>>

-----------------------------------------------------------------------------
(* After the commit: provisioning, and the environment.                    *)

FinishOk(p) ==
  /\ p \in finishing
  /\ link' = link \cup {SubOf(payOrder[p])}
  /\ finishing' = finishing \ {p}
  /\ UNCHANGED <<orderVars, payVars, requested, receipt, walletVars,
                 panelReady, redirects, checked, submitting, cancelling, verified>>

FinishFails(p) ==
  /\ p \in finishing
  /\ finishing' = finishing \ {p}
  /\ UNCHANGED <<orderVars, link, payVars, requested, receipt, walletVars,
                 panelReady, redirects, checked, submitting, cancelling, verified>>

PanelChange ==
  /\ panelReady' = ~panelReady
  /\ UNCHANGED <<orderVars, link, payVars, requested, receipt, walletVars,
                 redirects, volatileVars>>

Crash ==
  /\ checked' = {} /\ submitting' = {} /\ cancelling' = {}
  /\ verified' = {} /\ finishing' = {}
  /\ UNCHANGED <<orderVars, link, payVars, requested, receipt, walletVars,
                 panelReady, redirects>>

-----------------------------------------------------------------------------
OrderStep(o) ==
  \/ CreateOrder(o) \/ BeginCancel(o) \/ CommitCancel(o) \/ BeginInitiate(o)
  \/ \E u \in Users : Transfer(o, u)

PaymentStep(p) ==
  \/ \E u \in Users, m \in {"CARD_TO_CARD", "CRYPTO"}, amount \in TopUps :
       InitiateWalletDeposit(p, u, m, amount)
  \/ \E o \in Orders, m \in Methods \ {"WALLET"} : CreatePayment(p, o, m)
  \/ \E o \in Orders : PayOrderWithWallet(p, o)
  \/ RequestGateway(p)
  \/ \E status \in {"OK", "NOK"} : GatewayRedirect(p, status)
  \/ CallbackNok(p) \/ CallbackOkVerified(p) \/ CallbackOkDeclined(p)
  \/ SettleVerified(p) \/ SettleVerifiedFails(p)
  \/ SubmitReceipt(p) \/ MarkAwaiting(p) \/ ApproveReceipt(p) \/ RejectReceipt(p)
  \/ FinishOk(p) \/ FinishFails(p)

Next ==
  \/ \E o \in Orders : OrderStep(o)
  \/ \E p \in Payments : PaymentStep(p)
  \/ PanelChange
  \/ Crash

Spec == Init /\ [][Next]_vars

-----------------------------------------------------------------------------
(* Safety.                                                                 *)

\* Every column and volatile set has its type; in particular no wallet
\* balance is ever negative, the guard of mutateBalanceInTransaction.
TypeOK ==
  /\ orderStatus \in [Orders -> OrderStatuses]
  /\ grants \in [Orders -> Nat]
  /\ subOwner \in [Orders -> Users \cup {NoUser}]
  /\ link \subseteq Orders
  /\ payStatus \in [Payments -> PaymentStatuses]
  /\ payMethod \in [Payments -> Methods \cup {"NONE"}]
  /\ payOrder \in [Payments -> Orders \cup {NoOrder}]
  /\ payUser \in [Payments -> Users \cup {NoUser}]
  /\ payAmount \in [Payments -> Nat]
  /\ receipt \in [Payments -> {"NONE", "PENDING", "APPROVED", "REJECTED"}]
  /\ walletRow \in [Payments -> {"NONE", "DEPOSIT", "PURCHASE"}]
  /\ balance \in [Users -> Nat] /\ deposited \in [Users -> Nat]
  /\ spent \in [Users -> Nat] /\ earned \in [Users -> Nat]
  /\ panelReady \in BOOLEAN
  /\ redirects \subseteq Payments \X {"OK", "NOK"}
  /\ checked \subseteq Orders /\ cancelling \subseteq Orders
  /\ submitting \subseteq Payments /\ verified \subseteq Payments
  /\ confirmed \subseteq Payments /\ requested \subseteq Payments
  /\ finishing \subseteq Payments

\* A plan is granted for an order at most once, and exactly when some payment
\* of that order was confirmed: whatever callbacks, approvals, wallet payments,
\* cancellations and crashes interleave (settlePaymentInTransaction).
FulfilledIffPaid ==
  \A o \in Orders :
    /\ grants[o] \in {0, 1}
    /\ grants[o] = 1 <=> \E p \in confirmed : payOrder[p] = o

\* A payment whose money was applied is never refused afterwards: a late NOK,
\* a failed verification, a rejection or the second write of submitReceipt may
\* leave it CONFIRMED or AWAITING_VERIFY, not REJECTED or CANCELLED.
SettledNeverRefused ==
  \A p \in confirmed : payStatus[p] \in {"CONFIRMED", "AWAITING_VERIFY"}

\* The admin's decision on a receipt and the money agree for ever: approved
\* receipts are exactly the confirmed card-to-card payments (verifyReceipt).
ReceiptDecisionSettles ==
  \A p \in Payments :
    payMethod[p] = "CARD_TO_CARD" => (receipt[p] = "APPROVED" <=> p \in confirmed)

\* A wallet is charged for an order only in the step that grants the order's
\* plan: not again, and not after another payment had it granted
\* (payOrderWithWallet, racing receipts, callbacks and itself).
WalletChargeBuysTheGrant ==
  [][\A p \in Payments :
       walletRow[p] = "NONE" /\ walletRow'[p] = "PURCHASE" =>
         grants[payOrder'[p]] = 0 /\ grants'[payOrder'[p]] = 1]_vars

RowsTotal(type, u) ==
  MapThenSumSet(LAMBDA p : payAmount[p],
                {p \in Payments : walletRow[p] = type /\ payUser[p] = u})

\* The totals of a wallet are the sums of its ledger rows, and the balance is
\* what they and the referral rewards leave (mutateBalanceInTransaction and
\* creditReferralCommission, which bypasses it).
WalletMatchesLedger ==
  \A u \in Users :
    /\ deposited[u] = RowsTotal("DEPOSIT", u)
    /\ spent[u] = RowsTotal("PURCHASE", u)
    /\ balance[u] = deposited[u] + earned[u] - spent[u]

Fulfilment == INSTANCE PaidFulfilment WITH
  TopUp <- NoOrder,
  Unsettled <- "UNSETTLED",
  purpose <- [p \in Payments |-> IF p \in confirmed THEN payOrder[p] ELSE "UNSETTLED"],
  fulfilled <- grants,
  credited <- {p \in Payments : walletRow[p] = "DEPOSIT"}

\* Settlement keeps the promise of PaidFulfilment: an order payment never
\* credits the wallet, a top-up credits it once and grants nothing.
SettlementRefinesPaidFulfilment == Fulfilment!Spec

-----------------------------------------------------------------------------
(* What the repository's texts say and the code does not guarantee.        *)

\* orders.service.ts refuses with "Cannot cancel completed order".
CompletedOrderStaysCompleted ==
  [][\A o \in Orders : orderStatus[o] = "COMPLETED" => orderStatus'[o] = "COMPLETED"]_vars

\* verifyReceipt's comment: "REJECTED -> mark payment REJECTED".
RejectedReceiptRejectsPayment ==
  \A p \in Payments : receipt[p] = "REJECTED" => payStatus[p] = "REJECTED"

-----------------------------------------------------------------------------
(* Liveness. Nothing in the code retries: a retry is a redirect the payer  *)
(* reloads or a receipt the admin approves again. Both are assumed to      *)
(* happen as long as the payer or the admin can do them, and the panel not *)
(* to refuse provisioning for ever.                                        *)

Retries ==
  \A p \in Payments :
    /\ SF_vars(CallbackOkVerified(p))
    /\ SF_vars(SettleVerified(p))
    /\ SF_vars(receipt[p] = "APPROVED" /\ ApproveReceipt(p))
    /\ SF_vars(FinishOk(p))

RetrySpec == Spec /\ Retries

\* The reasons for which a settlement is refused although panels are ready:
\* the last is a renewal whose subscription was transferred away.
Refused(p) ==
  \/ payStatus[p] \in {"CANCELLED", "REJECTED"}
  \/ /\ payOrder[p] # NoOrder
     /\ orderStatus[payOrder[p]] = "CANCELLED" \/ ~RenewalAllowed(payOrder[p])

\* Money the gateway captured is settled, unless the payment or its order was
\* refused first: no interleaving loses it silently (handleOnlineCallback).
CapturedMoneyIsSettled ==
  <>[]panelReady =>
    \A p \in Payments : <<p, "OK">> \in redirects ~> p \in confirmed \/ Refused(p)

\* A failed provisioning after the commit is made good by a retry of the same
\* payment, without a second one (finishSettlement).
SettledOrderIsDelivered ==
  \A p \in Payments, o \in Orders :
    p \in confirmed /\ payOrder[p] = o /\ payMethod[p] # "WALLET"
      ~> SubOf(o) \in link \/ orderStatus[o] = "CANCELLED"

\* i18n.ts tells the payer of a wallet order whose provisioning failed that it
\* "will be retried safely; do not pay again".
WalletOrderIsDelivered ==
  \A p \in Payments, o \in Orders :
    p \in confirmed /\ payOrder[p] = o /\ payMethod[p] = "WALLET"
      ~> SubOf(o) \in link \/ orderStatus[o] = "CANCELLED"
=============================================================================
