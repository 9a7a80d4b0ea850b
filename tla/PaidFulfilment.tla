--------------------------- MODULE PaidFulfilment ---------------------------
(***************************************************************************)
(* What settlement promises, without payments' statuses, receipts,         *)
(* callbacks or wallets: a payment settles once, for the purpose it was    *)
(* created for; settling it either fulfils its order, at most once however *)
(* many payments name that order, or credits the payer's wallet, never     *)
(* both; nothing is fulfilled or credited in any other way.                *)
(***************************************************************************)
EXTENDS Naturals

CONSTANTS Payments, Orders, TopUp, Unsettled

VARIABLES
  purpose,    \* payment -> Unsettled, TopUp, or the order it settled
  fulfilled,  \* order -> how often its plan was granted
  credited    \* payments that credited a wallet

vars == <<purpose, fulfilled, credited>>

Init ==
  /\ purpose = [p \in Payments |-> Unsettled]
  /\ fulfilled = [o \in Orders |-> 0]
  /\ credited = {}

SettleOrder(p, o) ==
  /\ purpose[p] = Unsettled
  /\ fulfilled' = [fulfilled EXCEPT ![o] = 1]
  /\ purpose' = [purpose EXCEPT ![p] = o]
  /\ UNCHANGED credited

SettleTopUp(p) ==
  /\ purpose[p] = Unsettled
  /\ credited' = credited \cup {p}
  /\ purpose' = [purpose EXCEPT ![p] = TopUp]
  /\ UNCHANGED fulfilled

Next == \E p \in Payments : SettleTopUp(p) \/ \E o \in Orders : SettleOrder(p, o)

Spec == Init /\ [][Next]_vars
=============================================================================
