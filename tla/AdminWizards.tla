---------------------------- MODULE AdminWizards ----------------------------
(***************************************************************************)
(* AdminFlow: the dialogues in which an administrator creates or edits     *)
(* plans, cards, crypto destinations, settings and the rest by typing into *)
(* one chat. A tap on a button starts a wizard and leaves in the session   *)
(* which one, the field it asks for, the entity it is about and the draft  *)
(* so far; each text is read under the state the session is in. Keyboards  *)
(* of earlier messages stay, so any button can be tapped at any time.      *)
(*                                                                         *)
(* An update is handled in steps where the code awaits Redis: it is routed *)
(* by the state read, handled with the data read after that, and setState  *)
(* and clearState read the session again before they write it.             *)
(*                                                                         *)
(* Left out: what the views show, and the entities themselves: call is     *)
(* what a service was asked for, which Storefront and Vouchers model.      *)
(***************************************************************************)
EXTENDS BotRuntime, Naturals, Sequences, FiniteSets

CONSTANTS
  Updates,     \* messages and taps being handled at the same time
  Offered      \* bound: the fields of an entity an administrator edits

VARIABLES
  chat,   \* the session of the administrator's chat
  call,   \* history: the change the last step asked a service for
  update  \* volatile: the handlers that run

adminVars == <<chat, call, update>>

PlanFields   == <<"name", "price", "durationDays", "trafficLimitGb">>
CardFields   == <<"number", "holder", "bank", "sheba", "label">>
CryptoFields == <<"address", "network", "label", "instructions">>
Elements(fields) == {fields[n] : n \in DOMAIN fields}
After(fields, f) == fields[(CHOOSE n \in DOMAIN fields : fields[n] = f) + 1]
Before(fields, f) ==
  LET at == CHOOSE n \in DOMAIN fields : fields[n] = f
  IN  {fields[n] : n \in 1..(at - 1)}

PlanEdits == Elements(PlanFields) \cup {"deviceLimit", "priority", "description"}
NumericEdits == {"price", "durationDays", "deviceLimit", "priority"}
GatewayFields == {"merchant", "callback"}
ReferralFields == {"rewardTrafficGb", "rulesText"}

WizardStates == {"plan", "voucher", "setting", "card", "crypto", "gateway",
                 "referral", "join"}
AdminStates == WizardStates \cup {"idle", "broadcast", "confirm"}
Kinds == {"none", "plan_create", "plan_edit", "voucher_create", "setting_edit", "card_create",
          "card_edit", "crypto_create", "crypto_edit", "gateway_edit", "referral_edit",
          "join_channel_add"}
Fields == {"none", "", "maxRedemptions", "key", "value"} \cup PlanEdits
            \cup Elements(CardFields) \cup Elements(CryptoFields)
            \cup GatewayFields \cup ReferralFields
\* The entity an edit is about: some plan, card, destination or setting.
Targets == {"none", "plan", "card", "crypto", "gateway", "setting", "newKey"}
DraftItems == Elements(PlanFields) \cup Elements(CardFields) \cup Elements(CryptoFields)
                \cup {"currency", "planId", "key", "category"}
Texts == {"good", "bad", "/skip", "/default"}

ChatSession == [state : AdminStates, wizard : Kinds, field : Fields, target : Targets,
                draft : SUBSET DraftItems, message : BOOLEAN]
FreshChat == [state |-> "idle", wizard |-> "none", field |-> "none", target |-> "none",
              draft |-> {}, message |-> FALSE]
Service == [name : {"none", "plans.create", "plans.update", "bankCards.create",
                    "bankCards.update", "cryptoWallets.create", "cryptoWallets.update",
                    "settings.upsert", "gateway.merchant", "gateway.callback", "referral",
                    "channels", "broadcast"},
            target : Targets, field : Fields, draft : SUBSET DraftItems, text : Texts \cup {"none"}]
NoCall == [name |-> "none", target |-> "none", field |-> "none", draft |-> {}, text |-> "none"]

Free == [step |-> "free", route |-> "idle", text |-> "good", next |-> FreshChat,
         data |-> NoData, clear |-> FALSE]
UpdateSteps == {"free", "routed", "handle", "fetch", "store"}

AdminTypeOK ==
  /\ chat \in ChatSession
  /\ call \in Service
  /\ DOMAIN update = Updates
  /\ \A u \in Updates :
       /\ update[u].step \in UpdateSteps /\ update[u].route \in AdminStates
       /\ update[u].next \in ChatSession

AdminInit == chat = FreshChat /\ call = NoCall /\ update = [u \in Updates |-> Free]

-----------------------------------------------------------------------------
(* How a handler ends.                                                     *)

UpdateAt(u, step) == update[u].step = step
Done(u) == update' = [update EXCEPT ![u] = Free] /\ UNCHANGED chat
\* await setState(state, data), whose getSession comes first.
Sets(u, state, data) ==
  /\ update' = [update EXCEPT ![u] = [Free EXCEPT !.step = "fetch", !.route = state,
                                                  !.data = data]]
  /\ UNCHANGED chat
Clears(u) ==
  /\ update' = [update EXCEPT ![u] = [Free EXCEPT !.step = "fetch", !.clear = TRUE]]
  /\ UNCHANGED chat
NothingAsked == call' = NoCall
Calls(service, target, field, draft, text) ==
  call' = [name |-> service, target |-> target, field |-> field, draft |-> draft, text |-> text]

FetchSession(u) ==
  /\ UpdateAt(u, "fetch")
  /\ update' = [update EXCEPT ![u] = [@ EXCEPT !.step = "store",
       !.next = IF update[u].clear THEN ClearState(chat, FreshChat, {})
                ELSE SetState(chat, update[u].route, update[u].data)]]
  /\ NothingAsked /\ UNCHANGED chat

StoreSession(u) ==
  /\ UpdateAt(u, "store")
  /\ chat' = update[u].next
  /\ update' = [update EXCEPT ![u] = Free]
  /\ NothingAsked

-----------------------------------------------------------------------------
(* Taps. A start sets the wizard, the field and the draft together.        *)

Asks(wizard, field, draft) == [wizard |-> wizard, field |-> field, draft |-> draft]
Edits(wizard, field, target) ==
  [wizard |-> wizard, field |-> field, draft |-> {}, target |-> target]
Tapped(u) == UpdateAt(u, "free") /\ NothingAsked

OnPlanAction(u) ==
  /\ Tapped(u)
  /\ \/ Sets(u, "plan", Asks("plan_create", "name", {}))
     \/ \E f \in (PlanEdits \cup {""}) \cap Offered : Sets(u, "plan", Edits("plan_edit", f, "plan"))

OnVoucherAction(u) ==
  Tapped(u) /\ Sets(u, "voucher", Asks("voucher_create", "maxRedemptions", {"planId"}))

\* Mutant: editing a setting keeps whatever draft the session holds.
StartSettingOnOldDraft(u) ==
  /\ Tapped(u)
  /\ \/ Sets(u, "setting", Asks("setting_edit", "key", {}))
     \/ Sets(u, "setting", [wizard |-> "setting_edit", field |-> "value", target |-> "setting"])

OnSettingAction(u) ==
  /\ Tapped(u)
  /\ \/ Sets(u, "setting", Asks("setting_edit", "key", {}))
     \/ Sets(u, "setting", [wizard |-> "setting_edit", field |-> "value",
                            target |-> "setting", draft |-> {"category"}])

OnCardAction(u) ==
  /\ Tapped(u)
  /\ \/ Sets(u, "card", Asks("card_create", "number", {}))
     \/ \E f \in Elements(CardFields) \cap Offered : Sets(u, "card", Edits("card_edit", f, "card"))

OnCryptoAction(u) ==
  /\ Tapped(u)
  /\ \/ Sets(u, "crypto", Asks("crypto_create", "address", {"currency"}))
     \/ \E f \in Elements(CryptoFields) \cap Offered : Sets(u, "crypto", Edits("crypto_edit", f, "crypto"))

OnGatewayAction(u) ==
  /\ Tapped(u)
  /\ \E f \in GatewayFields \cap Offered : Sets(u, "gateway", Edits("gateway_edit", f, "gateway"))

OnReferralAction(u) ==
  /\ Tapped(u)
  /\ \E f \in ReferralFields \cap Offered :
       Sets(u, "referral", [wizard |-> "referral_edit", field |-> f])

OnMandatoryJoinAction(u) ==
  Tapped(u) /\ Sets(u, "join", [wizard |-> "join_channel_add"])

ViewBroadcast(u) == Tapped(u) /\ Sets(u, "broadcast", NoData)

\* showMenu, Home and the dashboard: the state is idle, the data stays.
ShowMenu(u) == Tapped(u) /\ Sets(u, "idle", NoData)

\* /cancel, "apm:cancel" and "bcast:cancel".
OnCancel(u) == Tapped(u) /\ Clears(u)

OnBroadcastConfirm(u) ==
  /\ UpdateAt(u, "free") /\ chat.state = "confirm"
  /\ IF chat.message THEN Calls("broadcast", "none", "none", {}, "none") ELSE NothingAsked
  /\ Clears(u)

\* The session has a TTL: an hour after its last write it is gone. No handler
\* takes that long, so none is running.
ChatExpires ==
  /\ \A u \in Updates : UpdateAt(u, "free")
  /\ chat # FreshChat /\ chat' = FreshChat
  /\ NothingAsked /\ UNCHANGED update

-----------------------------------------------------------------------------
(* Texts. onText routes by the state it reads, onWizardText by the state   *)
(* it reads next, and the handler works with a third read.                 *)

RoutedStates == WizardStates \ {"voucher"}

OnText(u, text) ==
  /\ UpdateAt(u, "free") /\ NothingAsked /\ UNCHANGED chat
  /\ chat.state \in RoutedStates \cup {"broadcast"}
  /\ update' = [update EXCEPT ![u] = [Free EXCEPT !.text = text,
       !.step = IF chat.state = "broadcast" THEN "handle" ELSE "routed", !.route = chat.state]]

OnWizardText(u) ==
  /\ UpdateAt(u, "routed") /\ NothingAsked /\ UNCHANGED chat
  /\ update' = [update EXCEPT ![u] = IF chat.state \in RoutedStates
                                     THEN [@ EXCEPT !.step = "handle", !.route = chat.state]
                                     ELSE Free]

Handles(u, state) == UpdateAt(u, "handle") /\ update[u].route = state
Text(u) == update[u].text
Drafted(item) == chat.draft \cup {item}

OnBroadcastText(u) ==
  /\ Handles(u, "broadcast") /\ NothingAsked
  /\ IF chat.state = "broadcast" THEN Sets(u, "confirm", [message |-> TRUE]) ELSE Done(u)

PlanCreateStep(u) ==
  LET f == chat.field
      refused == f \in {"price", "durationDays"} /\ Text(u) # "good"
  IN CASE f \notin Elements(PlanFields) \/ refused -> Done(u) /\ NothingAsked
       [] f = "trafficLimitGb" ->
            /\ Clears(u)
            /\ IF Text(u) = "good"
               THEN Calls("plans.create", "none", f, Drafted(f), Text(u))
               ELSE NothingAsked
       [] OTHER -> /\ Sets(u, "plan", Asks("plan_create", After(PlanFields, f), Drafted(f)))
                   /\ NothingAsked

PlanEditStep(u) ==
  IF chat.field \in NumericEdits /\ Text(u) # "good"
  THEN Done(u) /\ NothingAsked
  ELSE /\ Clears(u)
       /\ \/ Calls("plans.update", chat.target, chat.field, {}, Text(u))
          \/ NothingAsked

\* Whatever the service throws ends the wizard, too.
HandlePlanWizardText(u) ==
  /\ Handles(u, "plan")
  /\ IF chat.wizard = "plan_create" THEN PlanCreateStep(u) ELSE PlanEditStep(u)

\* A service that refuses leaves the session as it is, at the same field.
Accepted(u, service, draft) ==
  \/ Calls(service, chat.target, chat.field, draft, Text(u)) /\ Clears(u)
  \/ NothingAsked /\ Done(u)

HandleSettingWizardText(u) ==
  /\ Handles(u, "setting")
  /\ IF chat.field = "key"
     THEN /\ Sets(u, "setting", [wizard |-> "setting_edit", field |-> "value",
                                 target |-> "newKey", draft |-> Drafted("key")])
          /\ NothingAsked
     ELSE Accepted(u, "settings.upsert", chat.draft)

Optional(fields, skippable, u) ==
  IF chat.field \in skippable /\ Text(u) = "/skip" THEN chat.draft ELSE Drafted(chat.field)

\* One field of a card or of a destination: the last one creates it.
CreateStep(u, state, kind, fields, skippable, service) ==
  LET f == chat.field
      draft == Optional(fields, skippable, u)
  IN CASE f \notin Elements(fields) -> Done(u) /\ NothingAsked
       [] f = fields[Len(fields)] -> Accepted(u, service, draft)
       [] OTHER -> Sets(u, state, Asks(kind, After(fields, f), draft)) /\ NothingAsked

HandleCardWizardText(u) ==
  /\ Handles(u, "card")
  /\ CASE chat.wizard # "card_edit" ->
            CreateStep(u, "card", "card_create", CardFields, {"sheba", "label"},
                       "bankCards.create")
       [] chat.wizard = "card_edit" /\ chat.field \notin Elements(CardFields) ->
            Done(u) /\ NothingAsked
       [] OTHER -> Accepted(u, "bankCards.update", {})

HandleCryptoWizardText(u) ==
  /\ Handles(u, "crypto")
  /\ IF chat.wizard # "crypto_edit"
     THEN CreateStep(u, "crypto", "crypto_create", CryptoFields,
                     {"network", "label", "instructions"}, "cryptoWallets.create")
     ELSE Accepted(u, "cryptoWallets.update", {})

\* Any field but merchant is stored as the callback; only "callback" is checked.
HandleGatewayWizardText(u) ==
  /\ Handles(u, "gateway")
  /\ IF chat.field = "callback" /\ Text(u) \notin {"good", "/default"}
     THEN Done(u) /\ NothingAsked
     ELSE Accepted(u, IF chat.field = "merchant" THEN "gateway.merchant"
                      ELSE "gateway.callback", {})

HandleReferralWizardText(u) ==
  /\ Handles(u, "referral")
  /\ IF chat.field \notin ReferralFields \/ Text(u) = "bad"
     THEN Done(u) /\ NothingAsked
     ELSE Accepted(u, "referral", {})

HandleMandatoryJoinChannelText(u) ==
  /\ Handles(u, "join")
  /\ IF Text(u) # "good" THEN Done(u) /\ NothingAsked
     ELSE Accepted(u, "channels", {})

AdminTap(u) ==
  \/ OnPlanAction(u) \/ OnVoucherAction(u) \/ OnSettingAction(u) \/ OnCardAction(u)
  \/ OnCryptoAction(u) \/ OnGatewayAction(u) \/ OnReferralAction(u)
  \/ OnMandatoryJoinAction(u) \/ ViewBroadcast(u) \/ ShowMenu(u) \/ OnCancel(u)
  \/ OnBroadcastConfirm(u)

AdminText(u) ==
  \/ OnWizardText(u) \/ OnBroadcastText(u) \/ HandlePlanWizardText(u)
  \/ HandleSettingWizardText(u) \/ HandleCardWizardText(u) \/ HandleCryptoWizardText(u)
  \/ HandleGatewayWizardText(u) \/ HandleReferralWizardText(u)
  \/ HandleMandatoryJoinChannelText(u)

AdminNext ==
  \/ \E u \in Updates : AdminTap(u) \/ AdminText(u) \/ FetchSession(u) \/ StoreSession(u)
  \/ \E u \in Updates, text \in Texts : OnText(u, text)
  \/ ChatExpires

AdminSpec == AdminInit /\ [][AdminNext]_adminVars

-----------------------------------------------------------------------------
\* An administrator who waits for the answer before the next message or tap:
\* Telegraf takes up the updates of one poll, and webhook calls, as they come.
OneAtATime ==
  \A u, v \in Updates : update[u].step # "free" /\ update[v].step # "free" => u = v

(* A plan is created with every field of a plan and no other, however many *)
(* updates of the chat are handled at once: its draft never mixes with     *)
(* another wizard's.                                                       *)
PlansAreWhole == call.name = "plans.create" => call.draft = Elements(PlanFields)

(* What a service is asked for is what the administrator was asked: an     *)
(* entity is created with fields of its own kind, the required ones given  *)
(* in one run of its wizard, an edit names an entity of its kind, and a    *)
(* setting is stored under a key chosen in the settings wizard, whatever   *)
(* was started and left before, and whenever the session expired. It needs *)
(* OneAtATime: a tap that lands between the reads of a text's handler      *)
(* changes what the text is taken for.                                     *)
WizardsStoreWhatWasAsked ==
  CASE call.name = "plans.create" -> PlansAreWhole
    [] call.name = "plans.update" -> call.target = "plan" /\ call.field \in PlanEdits \cup {""}
    [] call.name = "bankCards.create" ->
         {"number", "holder", "bank"} \subseteq call.draft /\ call.draft \subseteq Elements(CardFields)
    [] call.name = "bankCards.update" -> call.target = "card"
    [] call.name = "cryptoWallets.create" ->
         /\ {"currency", "address"} \subseteq call.draft
         /\ call.draft \subseteq Elements(CryptoFields) \cup {"currency"}
    [] call.name = "cryptoWallets.update" -> call.target = "crypto"
    [] call.name = "settings.upsert" ->
         \/ call.target = "newKey" /\ call.draft = {"key"}
         \/ call.target = "setting" /\ call.draft = {"category"}
    [] call.name = "gateway.callback" -> call.text \in {"good", "/default"}
    [] OTHER -> TRUE

(* "invoked by telegram-bot.service.ts onText when the session state is    *)
(* one of admin_*_awaiting_*": a chat that was asked for a text is in a    *)
(* state onText hands to a wizard.                                         *)
PromptsAreAnswered == chat.state \in WizardStates => chat.state \in RoutedStates
=============================================================================
