----------------------------- MODULE MCDelivery -----------------------------
(***************************************************************************)
(* Instances, for TLC, of the components that must catch up with their     *)
(* database: storefront listings, accounts and messages.                   *)
(*                                                                         *)
(* The components share no state that the models keep, so a behaviour is   *)
(* one of a single component, the scenario; the others keep one initial    *)
(* state.                                                                  *)
(***************************************************************************)
EXTENDS Storefront, Accounts, Messaging, TLC

CONSTANTS k1, k2

VARIABLE scenario

\* Rows of two currencies; a card or a plan has none and ignores it.
MCCurrencyOf == [k \in Items |-> IF k = k1 THEN "c" ELSE "d"]

-----------------------------------------------------------------------------
\* One initial state of each component whose Init allows several.
ParkStore == ware = "cards"
ParkAccounts == sessions = [s \in Sessions |-> IF s = CHOOSE t \in Sessions : TRUE
                                               THEN "live" ELSE "none"]
ParkBot == direct
ParkPayer == \A f \in Finishers : Announces(f)

DeliveryInit ==
  /\ scenario \in {"store", "accounts", "payer", "broadcast"}
  /\ StoreInit /\ (scenario = "store" \/ ParkStore)
  /\ AccountInit /\ (scenario = "accounts" \/ ParkAccounts)
  /\ MessagingInit /\ (scenario \in {"payer", "broadcast"} \/ ParkBot)
                   /\ (scenario = "payer" \/ ParkPayer)

ChooseStore == scenario = "store" /\ StoreNext /\ UNCHANGED <<accountVars, messagingVars>>
ChooseAccounts == scenario = "accounts" /\ AccountNext /\ UNCHANGED <<storeVars, messagingVars>>
ChooseMessages ==
  /\ \/ scenario \in {"payer", "broadcast"} /\ BotStep
     \/ scenario = "payer" /\ \E f \in Finishers : FinishStep(f)
     \/ scenario = "broadcast" /\ BroadcastStep
  /\ UNCHANGED <<storeVars, accountVars>>
DeliveryNext == (ChooseStore \/ ChooseAccounts \/ ChooseMessages) /\ UNCHANGED scenario

\* No fair step of a parked component is enabled, but for InitBot and then
\* StartOrderFinish, which are asked for only where they may be taken.
DeliveryFairness ==
  /\ StoreFairness /\ AccountFairness
  /\ WF_messagingVars(scenario \in {"payer", "broadcast"} /\ InitBot)
  /\ WF_messagingVars(scenario \in {"payer", "broadcast"} /\ EnsureBotConnectivity)
  /\ \A f \in Finishers :
       /\ WF_messagingVars(scenario = "payer" /\ StartOrderFinish(f))
       /\ SF_messagingVars(Provisioned(f))
       /\ WF_messagingVars(NotifySettlement(f)) /\ SF_messagingVars(SendOk(f))
       /\ WF_messagingVars(RecordNotification(f))
  /\ BroadcastFairness

deliveryVars == <<storeVars, accountVars, messagingVars, scenario>>
DeliverySpec == DeliveryInit /\ [][DeliveryNext]_deliveryVars /\ DeliveryFairness

(* Every component keeps the types of its rows and of what its callers     *)
(* know.                                                                   *)
DeliveryTypeOK == StoreTypeOK /\ AccountTypeOK /\ MessagingTypeOK
=============================================================================
