----------------------------- MODULE Messaging -----------------------------
(***************************************************************************)
(* What the application sends through Telegram: the message about a        *)
(* settled order (finishSettlement and notifySettlement of                 *)
(* PaymentsService, NotificationsService.send), broadcasts                 *)
(* (BroadcastService), and the bot instance both send with, which          *)
(* TelegramBotService replaces while it starts.                            *)
(*                                                                         *)
(* A bot token is configured and long polling is used.  The bot is shared  *)
(* before the HTTP server listens, so BroadcastService never has to launch *)
(* one of its own.                                                         *)
(***************************************************************************)
EXTENDS Naturals, FiniteSets

CONSTANTS
  Finishers,      \* finishSettlement calls that may overlap, one after another in each
  Recipients,     \* users a broadcast goes to
  ProgressEvery,  \* sent messages between two progress writes: 10 in the code
  MaxCrashes      \* bound

ASSUME MessagingAssumption ==
  IsFiniteSet(Recipients) /\ ProgressEvery \in Nat \ {0} /\ MaxCrashes \in Nat

VARIABLES
  direct,     \* api.telegram.org is reachable without the proxy; else by it only
  bot,        \* TelegramBotService._bot, by its transport
  sender,     \* BroadcastService.bot
  finish,     \* what each finishSettlement call does
  rowsOf,     \* event -> statuses of its notification rows that have one
  heard,      \* messages about the order that the payer got
  broadcast,  \* one broadcast: its row, and the loop that sends it
  crashes

messagingVars == <<direct, bot, sender, finish, rowsOf, heard, broadcast, crashes>>

Transports == {"none", "proxied", "direct"}
Events == {"PURCHASE_COMPLETED", "PROVISIONING_PENDING"}
Unbegun == [status |-> "NONE", loop |-> "none", attempted |-> {}, sent |-> 0, failed |-> 0]

(* What was settled: the order, by a gateway or a receipt, the same order  *)
(* by the wallet, or a deposit, which is no order's.                       *)
Kinds == {"order", "wallet", "deposit"}
FinishIdle(kind) ==
  [kind |-> kind, at |-> "idle", event |-> "PROVISIONING_PENDING", outcome |-> "FAILED"]

MessagingTypeOK ==
  /\ direct \in BOOLEAN /\ bot \in Transports /\ sender \in Transports
  /\ finish \in [Finishers -> [kind : Kinds,
                               at : {"idle", "provision", "notify", "send", "record", "over"},
                               event : Events, outcome : {"SENT", "FAILED"}]]
  /\ rowsOf \in [Events -> SUBSET {"SENT", "FAILED"}]
  /\ heard \subseteq Events
  /\ broadcast \in [status : {"NONE", "SCHEDULED", "RUNNING", "COMPLETED"},
                    loop : {"none", "begin", "send", "progress", "lost"},
                    attempted : SUBSET Recipients,
                    sent : 0..Cardinality(Recipients), failed : 0..Cardinality(Recipients)]
  /\ crashes \in 0..MaxCrashes

MessagingInit ==
  /\ direct \in BOOLEAN
  /\ bot = "none" /\ sender = "none"
  /\ finish \in [Finishers -> {FinishIdle(k) : k \in Kinds}]
  /\ rowsOf = [e \in Events |-> {}] /\ heard = {}
  /\ broadcast = Unbegun
  /\ crashes = 0

-----------------------------------------------------------------------------
(* onModuleInit builds a bot with the proxy's agent and shares it;         *)
(* ensureBotConnectivity prefers a direct one, if its probe succeeds, and  *)
(* shares that instead.                                                    *)
InitBot ==
  /\ bot = "none"
  /\ bot' = "proxied" /\ sender' = "proxied"
  /\ UNCHANGED <<direct, finish, rowsOf, heard, broadcast, crashes>>

\* mutant: the new instance polls, and the old one keeps sending
SwitchWithoutSharing ==
  /\ bot = "proxied" /\ direct
  /\ bot' = "direct"
  /\ UNCHANGED <<direct, sender, finish, rowsOf, heard, broadcast, crashes>>

EnsureBotConnectivity ==
  /\ bot = "proxied" /\ direct
  /\ bot' = "direct" /\ sender' = "direct"
  /\ UNCHANGED <<direct, finish, rowsOf, heard, broadcast, crashes>>

(* sendMessage reaches Telegram if the instance's transport does.          *)
Reaches == sender = IF direct THEN "direct" ELSE "proxied"

-----------------------------------------------------------------------------
(* finishSettlement: provision what an order was granted, then one         *)
(* notification, unless the wallet paid.  A gateway's callback may come    *)
(* again and a receipt may be approved again, a deposit's too; an order    *)
(* the wallet paid is refused the second time.                             *)
Rested(f) ==
  [FinishIdle(finish[f].kind) EXCEPT
     !.at = IF finish[f].kind = "wallet" /\ finish[f].at # "idle" THEN "over" ELSE "idle"]
Rests(f) == finish' = [finish EXCEPT ![f] = Rested(f)]

StartFinish(f) ==
  /\ finish[f].at = "idle" /\ bot # "none"
  /\ finish' = [finish EXCEPT ![f].at = "provision"]
  /\ UNCHANGED <<direct, bot, sender, rowsOf, heard, broadcast, crashes>>

Announces(f) == finish[f].kind = "order"   \* orderId && method !== WALLET
Chooses(f, event) ==
  IF Announces(f)
  THEN finish' = [finish EXCEPT ![f] = [@ EXCEPT !.at = "notify", !.event = event]]
  ELSE Rests(f)
Provisioned(f) ==
  /\ finish[f].at = "provision"
  /\ Chooses(f, "PURCHASE_COMPLETED")
  /\ UNCHANGED <<direct, bot, sender, rowsOf, heard, broadcast, crashes>>
ProvisionFails(f) ==   \* it throws, or leaves no link; a deposit has nothing to provision
  /\ finish[f].at = "provision" /\ finish[f].kind # "deposit"
  /\ Chooses(f, "PROVISIONING_PENDING")
  /\ UNCHANGED <<direct, bot, sender, rowsOf, heard, broadcast, crashes>>

\* mutant: any row of the event, not only a SENT one, ends notifySettlement
AnyRow(f) == rowsOf[finish[f].event] # {}
AlreadySent(f) == "SENT" \in rowsOf[finish[f].event]

NotifySettlement(f) ==
  /\ finish[f].at = "notify"
  /\ finish' = [finish EXCEPT ![f].at = IF AlreadySent(f) THEN "idle" ELSE "send"]
  /\ UNCHANGED <<direct, bot, sender, rowsOf, heard, broadcast, crashes>>

Outcome(f, outcome) ==
  finish' = [finish EXCEPT ![f] = [@ EXCEPT !.at = "record", !.outcome = outcome]]
SendOk(f) ==
  /\ finish[f].at = "send" /\ Reaches
  /\ Outcome(f, "SENT")
  /\ heard' = heard \cup {finish[f].event}
  /\ UNCHANGED <<direct, bot, sender, rowsOf, broadcast, crashes>>
SendFails(f) ==   \* refused, or accepted with the answer lost
  /\ finish[f].at = "send"
  /\ Outcome(f, "FAILED")
  /\ \/ UNCHANGED heard
     \/ Reaches /\ heard' = heard \cup {finish[f].event}
  /\ UNCHANGED <<direct, bot, sender, rowsOf, broadcast, crashes>>

RecordNotification(f) ==
  /\ finish[f].at = "record"
  /\ rowsOf' = [rowsOf EXCEPT ![finish[f].event] = @ \cup {finish[f].outcome}]
  /\ Rests(f)
  /\ UNCHANGED <<direct, bot, sender, heard, broadcast, crashes>>

-----------------------------------------------------------------------------
(* A broadcast: its row is created SCHEDULED and set RUNNING; users are    *)
(* sent to one by one; progress is written now and then, in the loop's try *)
(* block; the totals are written at the end.  A statement that fails       *)
(* outside the try block, the query for the users after RUNNING is written *)
(* among them, ends the loop with the row as it is.                        *)
CreateAndEnqueue ==
  /\ broadcast.status = "NONE" /\ bot # "none"
  /\ broadcast' = [Unbegun EXCEPT !.status = "SCHEDULED", !.loop = "begin"]
  /\ UNCHANGED <<direct, bot, sender, finish, rowsOf, heard, crashes>>

ProcessBroadcast ==
  /\ broadcast.loop = "begin"
  /\ broadcast' = [broadcast EXCEPT !.status = "RUNNING", !.loop = "send"]
  /\ UNCHANGED <<direct, bot, sender, finish, rowsOf, heard, crashes>>

BroadcastSent(u) ==
  /\ broadcast.loop = "send" /\ u \notin broadcast.attempted /\ Reaches
  /\ broadcast' = [broadcast EXCEPT !.attempted = @ \cup {u}, !.sent = @ + 1,
       !.loop = IF (broadcast.sent + 1) % ProgressEvery = 0 THEN "progress" ELSE "send"]
  /\ UNCHANGED <<direct, bot, sender, finish, rowsOf, heard, crashes>>

\* mutant: one recipient's failure ends the loop
FailureEndsLoop(u) ==
  /\ broadcast.loop = "send" /\ u \notin broadcast.attempted
  /\ broadcast' = [broadcast EXCEPT !.attempted = @ \cup {u}, !.failed = @ + 1, !.loop = "none"]
  /\ UNCHANGED <<direct, bot, sender, finish, rowsOf, heard, crashes>>

BroadcastFails(u) ==
  /\ broadcast.loop = "send" /\ u \notin broadcast.attempted
  /\ broadcast' = [broadcast EXCEPT !.attempted = @ \cup {u}, !.failed = @ + 1]
  /\ UNCHANGED <<direct, bot, sender, finish, rowsOf, heard, crashes>>

WriteProgress ==   \* a failed write counts the recipient a second time, as failed
  /\ broadcast.loop = "progress"
  /\ \E failed \in {0, 1} :
       broadcast' = [broadcast EXCEPT !.loop = "send", !.failed = @ + failed]
  /\ UNCHANGED <<direct, bot, sender, finish, rowsOf, heard, crashes>>

CompleteBroadcast ==
  /\ broadcast.loop = "send" /\ broadcast.attempted = Recipients
  /\ broadcast' = [broadcast EXCEPT !.status = "COMPLETED", !.loop = "none"]
  /\ UNCHANGED <<direct, bot, sender, finish, rowsOf, heard, crashes>>

BroadcastWriteFails ==
  /\ broadcast.loop \in {"begin", "send"}
  /\ broadcast.loop = "send" => broadcast.attempted \in {{}, Recipients}
  /\ broadcast' = [broadcast EXCEPT !.loop = "lost"]
  /\ UNCHANGED <<direct, bot, sender, finish, rowsOf, heard, crashes>>

CrashMessaging ==
  /\ crashes < MaxCrashes /\ bot # "none"
  /\ crashes' = crashes + 1
  /\ bot' = "none" /\ sender' = "none"
  /\ finish' = [f \in Finishers |-> Rested(f)]
  /\ broadcast' = IF broadcast.loop = "none" THEN broadcast
                  ELSE [broadcast EXCEPT !.loop = "lost"]
  /\ UNCHANGED <<direct, rowsOf, heard>>

BroadcastStep ==
  \/ CreateAndEnqueue \/ ProcessBroadcast \/ WriteProgress \/ CompleteBroadcast
  \/ BroadcastWriteFails
  \/ \E u \in Recipients : BroadcastSent(u) \/ BroadcastFails(u)

BotStep == InitBot \/ EnsureBotConnectivity \/ CrashMessaging
FinishStep(f) ==
  \/ StartFinish(f) \/ Provisioned(f) \/ ProvisionFails(f) \/ NotifySettlement(f)
  \/ SendOk(f) \/ SendFails(f) \/ RecordNotification(f)

MessagingNext == BotStep \/ BroadcastStep \/ \E f \in Finishers : FinishStep(f)

(* Handlers go on while the process lives; the payer, by the gateway's     *)
(* page, or an admin, by the receipt, tries again while the order is not   *)
(* announced; and neither provisioning nor Telegram refuses for ever.      *)
(* Nobody is assumed to start a wallet's or a deposit's call.              *)
StartOrderFinish(f) == Announces(f) /\ StartFinish(f)
BotFairness == WF_messagingVars(InitBot) /\ WF_messagingVars(EnsureBotConnectivity)
FinishFairness ==
  \A f \in Finishers :
    /\ WF_messagingVars(StartOrderFinish(f)) /\ SF_messagingVars(Provisioned(f))
    /\ WF_messagingVars(NotifySettlement(f)) /\ SF_messagingVars(SendOk(f))
    /\ WF_messagingVars(RecordNotification(f))
BroadcastFairness ==
  /\ WF_messagingVars(ProcessBroadcast) /\ WF_messagingVars(WriteProgress)
  /\ WF_messagingVars(\E u \in Recipients : BroadcastSent(u) \/ BroadcastFails(u))
  /\ WF_messagingVars(CompleteBroadcast)
MessagingFairness == BotFairness /\ FinishFairness /\ BroadcastFairness

MessagingSpec == MessagingInit /\ [][MessagingNext]_messagingVars /\ MessagingFairness

-----------------------------------------------------------------------------
(* Once an order that a gateway or a receipt paid is being finished, its   *)
(* payer gets a message that the order is ready, and the row that says so, *)
(* although sends fail, a failed one has left its row, the bot starts with *)
(* a proxy that may not work, and the process crashes.                     *)
PayerIsTold ==
  (\E f \in Finishers : Announces(f) /\ finish[f].at = "provision") ~>
    /\ "SENT" \in rowsOf["PURCHASE_COMPLETED"]
    /\ "PURCHASE_COMPLETED" \in heard

(* A broadcast that runs comes to every recipient, whoever refuses it, and *)
(* is recorded as COMPLETED, unless the process dies or a row cannot be    *)
(* written.                                                                *)
BroadcastReachesEveryone ==
  broadcast.status = "RUNNING" ~>
    \/ broadcast.status = "COMPLETED" /\ broadcast.attempted = Recipients
    \/ broadcast.loop = "lost"
=============================================================================
