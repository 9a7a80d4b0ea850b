-------------------------- MODULE CustomerDialogues --------------------------
(***************************************************************************)
(* The flows of the Telegram bot in which a customer buys, tops up the     *)
(* wallet, sends receipts, redeems a voucher and writes to support: one    *)
(* chat with one session, and several messages and taps handled at once.   *)
(*                                                                         *)
(* A handler reads the session and acts on what it read; its setState or   *)
(* clearState reads the session again and writes the whole value back, so  *)
(* it may undo what another handler had changed meanwhile.                 *)
(* withLock turns a handler away while another one of the chat holds the   *)
(* lock, which lives in the process. A receipt is uploaded between the     *)
(* read of the session and submitReceipt, which takes seconds.             *)
(*                                                                         *)
(* Left out: what is shown, and what the services do with an order, a      *)
(* payment, a code or a ticket. The customer has an account. The states    *)
(* that only name the screen shown (plans, wallet, lists) are "idle", and  *)
(* the writes of the menu stack around each handler are one action.        *)
(***************************************************************************)
EXTENDS BotRuntime, Naturals, Sequences

CONSTANTS
  Handlers,     \* updates of the chat handled at the same time
  Tickets,      \* the customer's open tickets
  Deposits,     \* the preset amounts of a wallet deposit
  MaxOrders, MaxPayments,   \* bounds
  Visits,       \* bound: sets of flows used in one chat
  None

VARIABLES
  dialogue,  \* the session
  orders,    \* how many orders the chat has created
  payments,  \* the payments initiated from the chat: what for, and how much
  receipts,  \* the receipts submitted
  lock,      \* the handler inside withLock
  handler,   \* volatile: what each handler has yet to do
  visit      \* bound: the flows used in this behaviour

customerVars == <<dialogue, orders, payments, receipts, lock, handler, visit>>

ASSUME CustomerAssumption ==
  None \notin Handlers /\ None \notin Tickets /\ MaxOrders \in Nat /\ MaxPayments \in Nat

DialogueStates ==
  {"idle", "confirmation", "payment", "receipt", "crypto", "code", "subject", "message",
   "reply"}
Purposes == {"ORDER", "WALLET"}
\* The amount of an order is named by the order, a deposit's by the button.
Amounts == (1..MaxOrders) \cup Deposits
Payment == [purpose : Purposes, amount : Amounts]
PaymentIds == 1..MaxPayments
Receipt == [payment : PaymentIds, amount : Amounts \cup {None}]

Dialogue == [state : DialogueStates, plan : BOOLEAN, order : 0..MaxOrders,
             payment : PaymentIds \cup {None}, amount : Amounts \cup {None},
             purpose : Purposes \cup {None}, subject : BOOLEAN,
             ticket : Tickets \cup {None}]
FreshDialogue == [state |-> "idle", plan |-> FALSE, order |-> 0, payment |-> None,
                  amount |-> None, purpose |-> None, subject |-> FALSE, ticket |-> None]

HandlerSteps == {"free", "writes", "stores", "uploads"}
NoReceipt == [payment |-> None, amount |-> None]
Resting == [step |-> "free", change |-> NoData, next |-> FreshDialogue, receipt |-> NoReceipt]

CustomerTypeOK ==
  /\ dialogue \in Dialogue
  /\ orders \in 0..MaxOrders
  /\ payments \in Seq(Payment) /\ Len(payments) <= MaxPayments
  /\ receipts \subseteq Receipt
  /\ lock \in Handlers \cup {None}
  /\ \A h \in Handlers : handler[h].step \in HandlerSteps /\ handler[h].next \in Dialogue
  /\ visit \in Visits

CustomerInit ==
  /\ dialogue = FreshDialogue
  /\ orders = 0 /\ payments = <<>> /\ receipts = {}
  /\ lock = None
  /\ handler = [h \in Handlers |-> Resting]
  /\ visit \in Visits

-----------------------------------------------------------------------------
(* How a handler writes the session.                                       *)

HandlerAt(h, step) == handler[h].step = step
To(state) == [state |-> state]
Forget == FreshDialogue        \* clearState

\* The write is yet to read the session.
Writes(h, change) ==
  /\ handler' = [handler EXCEPT ![h] = [Resting EXCEPT !.step = "writes", !.change = change]]
  /\ UNCHANGED <<dialogue, visit>>

\* The handler has read nothing before, so its first read is the write's.
WritesOnly(h, change) ==
  /\ handler' = [handler EXCEPT ![h] = [Resting EXCEPT !.step = "stores",
                                                      !.next = Changed(dialogue, change)]]
  /\ UNCHANGED <<dialogue, visit>>

FetchDialogue(h) ==
  /\ HandlerAt(h, "writes")
  /\ handler' = [handler EXCEPT ![h] = [Resting EXCEPT !.step = "stores",
                             !.next = Changed(dialogue, handler[h].change)]]
  /\ UNCHANGED <<dialogue, orders, payments, receipts, lock, visit>>

StoreDialogue(h) ==
  /\ HandlerAt(h, "stores")
  /\ dialogue' = handler[h].next
  /\ handler' = [handler EXCEPT ![h] = Resting]
  /\ lock' = IF lock = h THEN None ELSE lock
  /\ UNCHANGED <<orders, payments, receipts, visit>>

Uses(flow) == flow \in visit
Taps(h, flow) ==
  Uses(flow) /\ HandlerAt(h, "free") /\ UNCHANGED <<orders, payments, receipts, lock>>
Locked(h, flow) == Uses(flow) /\ HandlerAt(h, "free") /\ lock = None /\ lock' = h

\* pushMenu, popMenu and resetMenu: the whole session is written back as read.
MenuWrite(h) ==
  HandlerAt(h, "free") /\ WritesOnly(h, NoData) /\ UNCHANGED <<orders, payments, receipts, lock>>

-----------------------------------------------------------------------------
(* BuyFlow and SubscriptionsFlow.                                          *)

\* showPlans, the wallet, the lists, Home and Back: another screen.
ShowScreen(h) == HandlerAt(h, "free") /\ WritesOnly(h, To("idle"))
                 /\ UNCHANGED <<orders, payments, receipts, lock>>

OnSelectPlan(h) ==
  /\ Locked(h, "buy") /\ UNCHANGED <<orders, payments, receipts>>
  /\ WritesOnly(h, [state |-> "confirmation", plan |-> TRUE])

OrderCreated == [state |-> "payment", order |-> orders + 1]

\* orders.create in the read plan's name; without one the plans are shown.
OnProceed(h) ==
  /\ Locked(h, "buy") /\ UNCHANGED <<payments, receipts>>
  /\ \/ /\ dialogue.plan /\ orders < MaxOrders
        /\ orders' = orders + 1
        /\ Writes(h, OrderCreated)
     \/ ~dialogue.plan /\ UNCHANGED orders /\ Writes(h, To("idle"))

\* doRenew and promptExtend.
CreateRenewalOrder(h) ==
  /\ Locked(h, "renew") /\ orders < MaxOrders /\ UNCHANGED <<payments, receipts>>
  /\ orders' = orders + 1
  /\ Writes(h, OrderCreated)

PayWithWallet(h) ==
  /\ Locked(h, "buy") /\ dialogue.order # 0 /\ UNCHANGED <<orders, payments, receipts>>
  /\ Writes(h, Forget)

\* payments.initiate, then the payment goes in the session.
Initiates(h, purpose, amount, change) ==
  /\ Len(payments) < MaxPayments
  /\ payments' = Append(payments, [purpose |-> purpose, amount |-> amount])
  /\ Writes(h, change)
  /\ UNCHANGED <<orders, receipts>>

PaymentChange(state, purpose, amount) ==
  [state |-> state, payment |-> Len(payments) + 1, amount |-> amount, purpose |-> purpose]

\* Mutant: the amount is left to the session.
InitiateWithoutAmount(h) ==
  /\ Locked(h, "buy") /\ dialogue.order # 0
  /\ Initiates(h, "ORDER", dialogue.order,
       [state |-> "receipt", payment |-> Len(payments) + 1, purpose |-> "ORDER"])

InitiateCardToCard(h) ==
  /\ Locked(h, "buy") /\ dialogue.order # 0
  /\ Initiates(h, "ORDER", dialogue.order, PaymentChange("receipt", "ORDER", dialogue.order))

\* Mutant: the order in the session is not asked for.
InitiateCryptoWithoutOrder(h) ==
  /\ Locked(h, "buy")
  /\ Initiates(h, "ORDER", dialogue.order, PaymentChange("crypto", "ORDER", dialogue.order))

InitiateCrypto(h) ==
  /\ Locked(h, "buy") /\ dialogue.order # 0
  /\ Initiates(h, "ORDER", dialogue.order, PaymentChange("crypto", "ORDER", dialogue.order))

\* The button stays; a tap in any state ends the dialogue.
OnCryptoConfirm(h) == Taps(h, "buy") /\ WritesOnly(h, Forget)

-----------------------------------------------------------------------------
(* WalletFlow and the receipts of both flows.                              *)

OnSelectPresetDepositAmount(h, amount) ==
  /\ Uses("wallet") /\ HandlerAt(h, "free") /\ UNCHANGED lock
  /\ Initiates(h, "WALLET", amount, PaymentChange("receipt", "WALLET", amount))

\* onPhoto, then onReceiptUpload of the flow the purpose names: the receipt
\* is for the payment in the session read before the upload.
OnReceiptUpload(h) ==
  /\ HandlerAt(h, "free") /\ dialogue.state = "receipt" /\ dialogue.payment # None
  /\ handler' = [handler EXCEPT ![h] = [Resting EXCEPT !.step = "uploads",
       !.receipt = [payment |-> dialogue.payment, amount |-> dialogue.amount]]]
  /\ UNCHANGED <<dialogue, orders, payments, receipts, lock, visit>>

SubmitReceipt(h) ==
  /\ HandlerAt(h, "uploads")
  /\ receipts' = receipts \cup {handler[h].receipt}
  /\ Writes(h, Forget)
  /\ UNCHANGED <<orders, payments, lock>>

\* The download, the upload or submitReceipt fails; the session stays.
ReceiptFails(h) ==
  /\ HandlerAt(h, "uploads")
  /\ handler' = [handler EXCEPT ![h] = Resting]
  /\ UNCHANGED <<dialogue, orders, payments, receipts, lock, visit>>

-----------------------------------------------------------------------------
(* VoucherFlow and SupportFlow. A handler of text asks for its state again.*)

StartVoucher(h) == Taps(h, "voucher") /\ WritesOnly(h, To("code"))

\* Of a code that is refused nothing is written.
OnSubmitCode(h) ==
  /\ Locked(h, "voucher") /\ dialogue.state = "code" /\ UNCHANGED <<orders, payments, receipts>>
  /\ Writes(h, Forget)

\* onSelectCategory and reportProblem.
OnSelectCategory(h) == Taps(h, "support") /\ WritesOnly(h, To("subject"))

OnSubject(h) ==
  /\ Taps(h, "support") /\ dialogue.state = "subject"
  /\ Writes(h, [state |-> "message", subject |-> TRUE])

OnMessage(h) == Taps(h, "support") /\ dialogue.state = "message" /\ Writes(h, Forget)

\* Mutant: the ticket is left to showDetail, which the user came from.
StartReplyWithoutTicket(h, t) == Taps(h, "support") /\ WritesOnly(h, To("reply"))

StartReply(h, t) ==
  Taps(h, "support") /\ WritesOnly(h, [state |-> "reply", ticket |-> t])

ShowTicket(h, t) ==
  Taps(h, "support") /\ WritesOnly(h, [state |-> "idle", ticket |-> t])

OnReply(h) == Taps(h, "support") /\ dialogue.state = "reply" /\ Writes(h, Forget)

CancelDialogue(h) == HandlerAt(h, "free") /\ WritesOnly(h, Forget)
                     /\ UNCHANGED <<orders, payments, receipts, lock>>

\* The TTL of the session has passed since its last write: no handler, which
\* is much shorter, still runs.
DialogueExpires ==
  /\ \A h \in Handlers : HandlerAt(h, "free")
  /\ dialogue # FreshDialogue /\ dialogue' = FreshDialogue
  /\ UNCHANGED <<orders, payments, receipts, lock, handler, visit>>

BuyStep(h) ==
  \/ OnSelectPlan(h) \/ OnProceed(h) \/ CreateRenewalOrder(h)
  \/ PayWithWallet(h) \/ InitiateCardToCard(h) \/ InitiateCrypto(h) \/ OnCryptoConfirm(h)

WalletStep(h) ==
  \/ \E amount \in Deposits : OnSelectPresetDepositAmount(h, amount)
  \/ OnReceiptUpload(h) \/ SubmitReceipt(h) \/ ReceiptFails(h)

TalkStep(h) ==
  \/ StartVoucher(h) \/ OnSubmitCode(h)
  \/ OnSelectCategory(h) \/ OnSubject(h) \/ OnMessage(h) \/ OnReply(h)
  \/ \E t \in Tickets : ShowTicket(h, t) \/ StartReply(h, t)

CustomerNext ==
  \/ \E h \in Handlers :
       \/ BuyStep(h) \/ WalletStep(h) \/ TalkStep(h)
       \/ ShowScreen(h) \/ MenuWrite(h) \/ CancelDialogue(h)
       \/ FetchDialogue(h) \/ StoreDialogue(h)
  \/ DialogueExpires

CustomerSpec == CustomerInit /\ [][CustomerNext]_customerVars

-----------------------------------------------------------------------------
(* A receipt names the amount of the payment it is for, although payment   *)
(* and amount go through a session that other handlers overwrite, and the  *)
(* customer may have begun another purchase while the photo was uploaded.  *)
ReceiptsNameTheirPayment ==
  \A r \in receipts : r.amount = payments[r.payment].amount

(* No overlap of handlers leaves a session in the state of one dialogue    *)
(* with the data of another: whoever is asked for a receipt, a message or  *)
(* a reply has a payment of that purpose, a subject or a ticket.           *)
DialoguesDoNotMix ==
  /\ dialogue.state = "confirmation" => dialogue.plan
  /\ dialogue.state = "payment" => dialogue.order \in 1..orders
  /\ dialogue.state \in {"receipt", "crypto"} =>
       /\ dialogue.payment \in DOMAIN payments
       /\ dialogue.purpose = payments[dialogue.payment].purpose
  /\ dialogue.state = "message" => dialogue.subject
  /\ dialogue.state = "reply" => dialogue.ticket # None
=============================================================================
