---------------------------- MODULE MCOperations ----------------------------
(***************************************************************************)
(* Instances, for TLC, of the components whose steps interleave: vouchers, *)
(* signup referrals, the statements of a settlement, the bot's wizards and *)
(* dialogues, a visitor's first visit, panel sessions and the panel        *)
(* inventory.                                                              *)
(*                                                                         *)
(* The components share no state that the models keep, so a behaviour is   *)
(* one of a single component, the scenario; the others keep one initial    *)
(* state.                                                                  *)
(***************************************************************************)
EXTENDS Vouchers, SignupReferrals, SettlementStatements, AdminWizards, CustomerDialogues,
        Onboarding, PanelSessions, PanelInventory, TLC

CONSTANTS m1, u1, u2, u3, o1, o2, o3, p1, p2, p3, p4, p5

VARIABLE scenario

\* Two invitees of one member, who is the only other user.
MCInvitedBy == [i \in Invitees |-> m1]

\* u3 buys o3 by wallet (p3) or by card (p5) and deposits p4; u1 buys o1 by card.
MCOrderOf ==
  [p \in Payments |-> (p1 :> o1 @@ p2 :> o2 @@ p3 :> o3 @@ p4 :> NoOrder @@ p5 :> o3)[p]]
MCPayer ==
  [p \in Payments |-> (p1 :> u1 @@ p2 :> u2 @@ p3 :> u3 @@ p4 :> u3 @@ p5 :> u3)[p]]
MCAmount == [p \in Payments |-> 10]
\* u1, and u2 where there is one, were referred by u3.
MCReferrer == [u \in Users |-> IF u = u3 THEN NoUser ELSE u3]

MCVisits == {{"buy", "wallet"}, {"buy", "voucher"}, {"renew", "support"}}

\* Every address is a host of its own; both syncers are requests to the application.
MCHostOf == [a \in Addresses |-> a]
MCProcessOf == [s \in Syncers |-> "app"]

\* The callers of every component go by the same two names, one component alone
\* moves, and each starts with callers that are alike.
MCCallers == Permutations(Mints)

-----------------------------------------------------------------------------
Scenarios == {"vouchers", "referrals", "statements", "wizards", "dialogues",
              "onboarding", "sessions", "inventory"}

\* One initial state of each component whose Init allows several.
ParkVouchers == \A a, b \in Attempts : attempt[a] = attempt[b] /\ attempt[a].user = u1
ParkDialogues == visit = {"buy", "wallet"}
ParkOnboarding == required /\ joined

OperationsInit ==
  /\ scenario \in Scenarios
  /\ VoucherInit /\ (scenario = "vouchers" \/ ParkVouchers)
  /\ ReferralInit /\ (scenario = "referrals" \/ trialPlan)
  /\ StatementsInit
  /\ AdminInit
  /\ CustomerInit /\ (scenario = "dialogues" \/ ParkDialogues)
  /\ OnboardingInit /\ (scenario = "onboarding" \/ ParkOnboarding)
  /\ SessionInit
  /\ InventoryInit

moneyVars == <<voucherVars, referralVars, statementVars>>
botVars == <<adminVars, customerVars, onboardingVars>>
panelVars == <<sessionVars, inventoryVars>>

MoneyStep ==
  /\ \/ scenario = "vouchers" /\ VoucherNext /\ UNCHANGED <<referralVars, statementVars>>
     \/ scenario = "referrals" /\ ReferralNext /\ UNCHANGED <<voucherVars, statementVars>>
     \/ scenario = "statements" /\ StatementsNext /\ UNCHANGED <<voucherVars, referralVars>>
  /\ UNCHANGED <<botVars, panelVars>>
ChatStep ==
  /\ \/ scenario = "wizards" /\ AdminNext /\ UNCHANGED <<customerVars, onboardingVars>>
     \/ scenario = "dialogues" /\ CustomerNext /\ UNCHANGED <<adminVars, onboardingVars>>
     \/ scenario = "onboarding" /\ OnboardingNext /\ UNCHANGED <<adminVars, customerVars>>
  /\ UNCHANGED <<moneyVars, panelVars>>
PanelStep ==
  /\ \/ scenario = "sessions" /\ SessionNext /\ UNCHANGED inventoryVars
     \/ scenario = "inventory" /\ InventoryNext /\ UNCHANGED sessionVars
  /\ UNCHANGED <<moneyVars, botVars>>

OperationsNext == (MoneyStep \/ ChatStep \/ PanelStep) /\ UNCHANGED scenario
operationsVars == <<moneyVars, botVars, panelVars, scenario>>
OperationsSpec == OperationsInit /\ [][OperationsNext]_operationsVars

(* The component that moves keeps the types of its rows and of what its    *)
(* callers know; the others keep the initial state they are parked in.     *)
OperationsTypeOK ==
  CASE scenario = "vouchers"   -> VoucherTypeOK
    [] scenario = "referrals"  -> ReferralTypeOK
    [] scenario = "statements" -> StatementsTypeOK
    [] scenario = "wizards"    -> AdminTypeOK
    [] scenario = "dialogues"  -> CustomerTypeOK
    [] scenario = "onboarding" -> OnboardingTypeOK
    [] scenario = "sessions"   -> SessionTypeOK
    [] scenario = "inventory"  -> InventoryTypeOK
=============================================================================
