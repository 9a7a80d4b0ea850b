# A formal model of the VPN shop

The repository sells VPN subscriptions: a NestJS back end on PostgreSQL (Prisma,
`READ COMMITTED`) and Redis, a Telegram bot, an online payment gateway
(ZarinPal), card-to-card transfers confirmed by an admin, wallets, and 3x-ui
panels on which a paid subscription becomes a VPN client. This directory holds
TLA+ models of that system, the TLC runs that check them, and TLAPS proofs.
Paths below are relative to the repository (`modules/` is `src/modules/`).

## 1. Inventory

| component | state | operations | modelled in |
|---|---|---|---|
| payments (`modules/payments/payments.service.ts`) | `payments`, `receipts` rows | initiate, initiateWalletDeposit, submitReceipt, verifyReceipt, handleOnlineCallback, payOrderWithWallet, settlement, finishSettlement | Settlement, SettlementStatements, Messaging |
| orders | `orders` rows | create, completeOrderInTransaction, creditReferralCommission, cancel | Settlement, SettlementStatements |
| subscriptions | `subscriptions`, `subscription_events` | provisionInTransaction, transfer, suspend, resume | Settlement, Provisioning |
| wallet | `wallets`, `wallet_transactions` | mutateBalanceInTransaction | Settlement, SettlementStatements |
| vpn | `vpn_users`, `subscriptions.subscriptionLink` | createVpnUserForSubscription, suspend, resume | Provisioning |
| panels, panel inbounds, servers | `vpn_panels`, `servers`, `inbound_configs`, sessions and running synchronisations in memory | create, update, remove, checkHealth, reconcile, syncPanelInbounds; login, request | PanelInventory, PanelSessions |
| vouchers | `vouchers`, `voucher_redemptions` | generate, redeem, disable, update | Vouchers |
| bank cards, crypto wallets, plans, settings | rows and a Redis cache | create, update, remove, setDefault, the cached lists | Storefront |
| affiliate | `referral_logs` | fulfillTelegramSignupReferral | SignupReferrals |
| notifications, broadcast | `notifications`, `broadcasts`, the bot instance | send, create, processBroadcast, the bot's start | Messaging |
| telegram bot | a session in Redis, a per-chat lock in memory | the dialogues, the join guard, ensureUser | AdminWizards, CustomerDialogues, Onboarding |
| auth, users | `users`, `user_sessions`, counters and permissions in Redis | login, refresh, logout, guard, ban, roles | Accounts |
| tickets | `tickets` rows | create, reply | CustomerDialogues (the dialogue) |
| database access | process environment, `.env`, `installer-state.json` | resolveRuntime, DatabaseManager, the operator's scripts | DatabaseSelection |
| cli and installer | host, PostgreSQL's files, `.env`, containers | install.3xui, start.sh, the guided flow | Installer, GuidedInstall |
| reports, analytics, admin, api keys, mini app, education | - | aggregating reads, thin controllers | not modelled |

The back end is one Node process, so what is concurrent in it is what
interleaves at an `await`: HTTP requests, bot updates, admin decisions and the
gateway's redirects, each a sequence of database statements. What PostgreSQL
makes atomic is one statement or one `prisma.withTransaction`, a plain
READ COMMITTED transaction. There is no job queue and no scheduler: nothing
retries by itself (`markExpired` has no caller). The installer's scripts are
processes of their own that share files with it.

Hard behaviour, and what makes each component correct:

* **payments** - redirects that are late, repeated or contradictory; several
  payments for one order; a receipt whose two writes an admin's decision can
  come between; a crash between the gateway's answer and the settlement, and
  between the settlement and provisioning. Correct: money is applied once, for
  the purpose it was paid for; a decision and the money agree; captured money
  is not lost; a settled order is delivered and its payer is told.
* **orders, wallet** - two settlements, or a settlement and a cancellation, of
  one order; an aggregate nobody locks; locked and unlocked updates of one
  balance. Correct: one grant per order; the balance is the sum of the rows and
  never negative; the commission cap holds (it does not, section 7).
* **subscriptions, vpn** - concurrent provisioners, ambiguous time-outs, panel
  and database out of step. Correct: one panel client per subscription, with
  the quota of the database, eventually.
* **vouchers, affiliate** - limits, exactly-once rewards, failure after the
  commit, provisioners that post what they read before. Correct: uses are
  redemptions; a reward is given once per invitation, and marked only when the
  panel took it for both sides.
* **bank cards and the other listings, permissions** - a slow reader fills the
  cache after the invalidation. Correct: the cache catches up.
* **auth** - refresh and login against a ban. Correct: neither ends with a session
  for an account that was barred throughout (the bot's mint does, section 7).
* **panels** - one session object shared by all requests; a listing older than
  the last one. Correct: a read that one restart has refused gets its second
  attempt, and it succeeds; listings do not go back.
* **telegram bot** - a whole-value read-modify-write of the session by handlers
  that overlap; keyboards that stay; a code that must survive a multi-step
  welcome. Correct: what a service is asked for is what the person was asked.
* **installer, database access** - kills between any two steps and re-runs; one
  state file with several writers and forms. Correct: a re-run does not lock the
  application out, a reported success holds for the panel that was bound, the
  application opens the database on record.

`PROJECT.json` lists each hazard at its line with the properties that cover it.
One has none: two renewals that complete at once compute the new expiry from the
same old one, and the models keep no dates.

## 2. Plan

Built: settlement, its statements and its promise; provisioning and its promise;
vouchers, referrals, listings, accounts, messages; the bot's dialogues; panels;
the installers. Proved: every safety invariant, action property and refinement of
the passing runs but one, `WizardsStoreWhatWasAsked` (section 6); their liveness
properties are model-checked only.

Left, in order of worth:

1. Renewal dates in SettlementStatements, for the hazard without a property.
2. That `Settlement`, which has receipts, transfers and crashes besides, is also an
   implementation of `AtomicSettlement`: it shares `PaidFulfilment` with
   SettlementStatements, and its wallets and rewards are so far its own.

Constants carry named assumptions, handlers are one action per atomic step, and
no module that is proved about reaches a RECURSIVE operator of the project.

## 3. Modules

### Settlement

Payments, orders, the rows a completed order gets, receipts and wallets. One
action per atomic step of the code:

* `initiate`: `BeginInitiate` reads the order, `CreatePayment` inserts the
  payment of an order read earlier (it may be settled or cancelled by then),
  `RequestGateway` stores the gateway's authority.
* callback: `GatewayRedirect` is the payer at the hosted page; `CallbackNok`;
  `CallbackOkVerified` / `CallbackOkDeclined` is the gateway's answer;
  `SettleVerified` is the settlement transaction and `SettleVerifiedFails` its
  rollback.
* receipts: `SubmitReceipt` and `MarkAwaiting` are the two writes of
  submitReceipt; `ApproveReceipt` and `RejectReceipt` are verifyReceipt's
  transaction, for a first or a repeated decision. A refused decision is not a
  step: it changes nothing.
* `PayOrderWithWallet` is the transaction of that name: the locked order, the
  new payment, the debit and the settlement.
* cancellation: `BeginCancel` reads, `CommitCancel` writes.
* after a commit: `FinishOk` / `FinishFails`, provisioning's outcome.
* environment: `PanelChange` (a provisioning target exists or not), `Crash`.

A handler's local state between two steps is a volatile variable (`checked`,
`submitting`, `cancelling`, `verified`, `finishing`); `Crash` empties them and
leaves the database.

Helpers keep the code's structure: `ConfirmPayment` is the compare-and-set to
CONFIRMED with its re-read, `Completable` and `FirstCompletion` are the exits of
completeOrderInTransaction, `CreditDeposit` is mutateBalanceInTransaction with
its lookup by payment, `Reward` the capped commission.

Why a transaction is one step. Under `READ COMMITTED` two settlements of a
payment meet at `UPDATE payments ... WHERE status IN (...)`, two completions of
an order at `UPDATE orders ... WHERE status = 'PENDING'`, two wallet payments at
`SELECT ... FOR UPDATE` of the order, two wallet mutations at that of the
wallet. The second waits for the first's commit, finds no row, and re-reads.
`SettlementStatements` opens that step and checks the argument. Two reads have no
such protection: the sum in creditReferralCommission (`max_bonus`, section 4) and
the expiry in a renewal, about which no module has a property: none keeps dates.

Abstracted: amounts other than totals, currencies, gateway response fields,
receipt contents, notifications, audit rows, and the checks on configuration in
initiate (a deposit card exists, the gateway is enabled), which may refuse at
any time by simply not taking the step. `link` stands for both subscriptionLink
and the panel client behind it; suspending and deleting it is the vpn module's.

### PaidFulfilment

The promise: a payment settles once, for its purpose; an order is fulfilled at
most once, however many payments name it; a deposit is credited once; nothing
else fulfils or credits. `SettlementRefinesPaidFulfilment` maps a confirmed
payment to its purpose, `grants` to the fulfilments and DEPOSIT rows to credits.

### Provisioning

VpnService: `createVpnUserForSubscription`, `suspendVpnUser` and
`resumeVpnUser`, run by any number of workers at once. A worker's job is what
the handler remembers between two `await`s; every database statement and every
panel call is a step.

* claim: `BeginProvision` loads the subscription once, `ReadCollision` proposes
  a name, `ClaimNew`, `ClaimExisting` and `ClaimCollides` are the outcomes of
  the upsert, `RecordPending` marks the row.
* panel: `LookupFound` / `LookupAbsent`; `ReadClient` and `Replace` are
  updateUser's read and write-back; `CreateFirst`, `CreateRejected`,
  `ConfirmFound`, `ConfirmAbsent`, `CreateAgain` are createUser with the
  recovery from an ambiguous error; `CallFails`, `CallLost`, `CallDelayed` are
  errors and time-outs.
* end: `Deliver` sets the link, `Finish` the row; `FailProvision`,
  `FailSetStatus` record an error; `CommitStatus` is setRemoteStatus's
  transaction.
* environment: `Extend` is a renewal or reward, `ApplyLate` a call the panel
  carries out after its caller gave up, `Crash` loses every job.

`terms` is a version number for quota and expiry, which change
only with a renewal or a reward. A UUID is a token no row has. Names are a
base name per subscription (shared by the subscriptions of one user) and a
suffixed one; that a suffixed name contains the subscription's id and so equals
no other name is `NamesAssumption`. The panel is modelled by what the client
relies on: one client per name, update replaces the whole state, an add of an
existing client is rejected; and by what the client must expect: a lookup that
reports absence without success, and any call lost or late. Nothing deletes a
row or a client, because `deleteVpnUser` has no caller. `Settlement`'s
`FinishOk` and `FinishFails` are the two ends of a job here.

### OneClient

The promise: a subscription takes one identity (name and token), unshared and
for good; only claimed identities become clients; a link is delivered only for
an existing client. `ProvisioningRefinesOneClient` reads the identity off the
row and the clients off the panel.

### SettlementStatements

What `Settlement` takes for one step, opened: the SQL statements of a settlement
and of a wallet payment in transactions that overlap. `txn` holds what a
transaction has read, the rows it has locked and the writes its commit will make;
a statement that needs a locked row is not enabled. `ReadPayment`, `ClaimPayment`,
`DebitWallet`, `ReadOrder`, `CompleteOrder`, `SumRewards`, `IncrementWallet`,
`CreditWallet` follow completeOrderInTransaction and mutateBalanceInTransaction;
`RollBack` is any error, crash or lost connection before `Commit`; `CancelOrder` and
`RefusePayment` are the writers outside. A cancellation waits for the order's row,
but its update names the order by id alone, so it also hides a completion that
committed after cancel's read. Receipts are `Settlement`'s. It refines `PaidFulfilment`
(`StatementsRefinePaidFulfilment`), as `Settlement` does, and `AtomicSettlement`: that
is what justifies the larger steps there.

### AtomicSettlement

The other promise of a settlement: the statements of a transaction amount to one
step on the state it commits to, as if nothing had been read before. `FulfilOrder`
confirms the payment, completes and grants the order, charges a wallet that can pay
and rewards the referrer, all of it or nothing; `PayGrantedOrder` is a second payment
of an order, `CreditDeposit` a deposit; `RefusePayment` and `CancelOrder` are the
writers outside. One thing does not happen as if at once, and the specification says
how far it may go: the reward is what the referral settings give, or the part of it
that the maximum left at some earlier time, so it may be more than the maximum leaves
at the commit and is never less (`Rewards`). `StatementsRefineAtomicSettlement` needs
no mapping: the rows are variables of both, and what a transaction remembers is
hidden. `ClaimByRead`, a claim that trusts the read before the lock, breaks it.

### Vouchers, SignupReferrals

`Vouchers`: `Preflight`, `Recheck` (the row lock taken), `Activate` (the commit),
`ProvisionRedeemed`, with `Rollback` and the loss of the process between any two; the
administrator generates, edits and disables codes, and hides the plan, meanwhile.

`SignupReferrals`: mintForTelegramUser by several requests of one user.
`ClaimLog` and `CommitReward` are the reward's transaction, with the trial's
unique index (`RewardConflict`). The delivery after it is, for one side after the
other, `LoadTrial`, createVpnUserForSubscription's read of the subscription, and
`PostQuota`, the update of the panel with what was read; `ShipFails` ends it at
either, also with the quota taken and the answer lost; `MarkRewarded` is the end of
a delivery that did not throw. `OtherLoads` and `OtherEnds` are any other provisioner
of a trial (TrialFlow, a repair), which may post an older quota later. A commission
that writes the same row runs beside it. `shipped` is what the panel carries, `taken`
what it ever took.

### Storefront, Accounts, Messaging

`Storefront`: one of four services whose rows are edited statement by statement
while a reader holds a listing it has not stored yet; the key has a time to live.

`Accounts`: login, refresh, logout, a guarded call and the bot's mint for an account
that exists (`StartMint`, `UpdateProfile`, `MintSession`), one step per `await`,
against bans, soft deletion and role changes. The mint issues a session without
looking at the status. `unearned` is history: the sessions issued by a login or a
refresh that saw the account barred all along.

`Messaging`: finishSettlement after a settlement of each kind, a broadcast with its
progress rows, and the bot's start, which shares a proxied bot and may replace it by
a direct one. `kind` says what was settled: an order by a gateway or a receipt is
provisioned and announced; the same order by the wallet is provisioned and not
announced, and its payment is refused a second time, so the call ends for good
(`Rested`); a deposit has neither, and may only be confirmed again. Sends fail, the process
crashes, and a broadcast's statement outside its loop's try block may throw.

### AdminWizards, CustomerDialogues, Onboarding, BotRuntime

`BotRuntime` is the session: `SetState` and `ClearState` over a record.
`AdminWizards` and `CustomerDialogues` take a handler in the steps its awaits
make (routed by one read, handled with another, written after a third), so that
handlers overlap and the session expires in between; every button can be tapped in any
state, because keyboards stay. `call`, `payments` and `receipts` are what the
services were asked for. In `CustomerDialogues` a receipt is uploaded between
the read of the session and submitReceipt, and `lock` is withLock.

`Onboarding`: an invitation code from the /start message through the join guard, the
choice of a language and failing mints to the account. A text is modelled by its
second word (`Words`), because the guard puts aside and ensureUser takes for a code the
second word of any text, before the one put aside; a button has none. `reworded` is
history: another word took the code's place. /menu, /cancel and onText's answer to
an error are there, as they write the session.

### PanelSessions, PanelInventory

`PanelSessions`: requests that share one cached session object with a 3x-ui
panel, its one-shot re-login, and a panel that restarts and forgets its cookies. To a
cookie it does not know it answers with a 401 or 403 (`denied`), or with a 404 or
its page for visitors (`hidden`), which may bring an anonymous cookie. request
retries the former only.

`PanelInventory`: the rows of panels, servers and inbounds under synchronisations
that share their work within one process and not between two. `edition` numbers
what a panel lists; `latest` is history.

### Installer, GuidedInstall, DatabaseSelection

`Installer`: the steps of install.3xui.ts in their order, each with what it
leaves on the disk, in PostgreSQL and in the containers; `Abort` may come after
any of them and the next run starts from the top. start.sh (`ContainerBoots`) and the
application's administrators run beside it, who register panels (with any address,
the local one again too), change and delete them. A row's `bound` is the run that gave
it the server of the panel's host: `Reconcile` takes the oldest row with the
local address and throws when another row has that server.

`GuidedInstall`: the step list of installation-flow.js with its detectors (which
may throw), credential checks and clean install, over a snapshot that ages.

`DatabaseSelection`: start.sh, PrismaService's two looks at the data source, and the
operator's scripts that rewrite `installer-state.json` in three forms; the
infrastructure command, which detects databases, asks for one and writes .env. The
application may be booted again and finds what its earlier boot wrote, or could not:
an append to .env that fails is logged and the boot goes on (`unwritten`).

### Instances

MCSettlement: u1 buys, was referred by u2, and o2 renews the subscription of o1;
payments are symmetric (in the safety runs only). MCProvisioning: two
subscriptions propose one name; workers and tokens are symmetric (not in the
liveness run). MCStatements: two friends of one referrer.

MCDelivery, MCOperations and MCInstallation put several components in one run. These components
share no state that the models keep (what a dialogue asks of a service is where
its model ends), so interleaving them would multiply states and show nothing:
the variable `scenario` names the component that moves, and the others stay in one
initial state. Whatever holds in the run holds in each component alone. In MCOperations
the callers of each component go by the same two names, so that one symmetry exchanges
them whichever component moves.

### The proofs

| proof module | about |
|---|---|
| SettlementProofs | Settlement |
| StatementsProofs | SettlementStatements, and that it implements PaidFulfilment and AtomicSettlement |
| ProvisioningProofs | Provisioning |
| DeliveryProofs | MCDelivery: Accounts, Storefront, Messaging |
| ChatProofs | Onboarding, CustomerDialogues, AdminWizards |
| OperationsProofs | MCOperations: Vouchers, SignupReferrals, PanelSessions, PanelInventory, with the theorems of StatementsProofs and ChatProofs about the others |
| InstallationProofs | MCInstallation: Installer, GuidedInstall, DatabaseSelection |
| Sums | sums over finite sets, for the two ledgers |

Updates of several fields of a record in a function are written
`[f EXCEPT ![t] = [@ EXCEPT !.a = x, !.b = y]]` throughout: the form that TLC and
the provers read alike.

## 4. Runs

| run | instance | checks |
|---|---|---|
| settlement_safety | 2 users, o1 and its renewal o2, 2 payments (347,100 states) | the type invariant, `FulfilledIffPaid`, `SettledNeverRefused`, `ReceiptDecisionSettles`, `WalletMatchesLedger`, `WalletChargeBuysTheGrant`, the refinement |
| settlement_liveness | 1 user, 1 order, 2 payments, no deposits (26,510 states) | `CapturedMoneyIsSettled`, `SettledOrderIsDelivered` |
| cancel_race, receipt_race, wallet_retry | 1 order, 1 or 2 payments | one statement of the repository each, violated |
| provisioning_identity | 2 subscriptions, 2 workers, 1 late call, 1 renewal, under `CompetingOrAlone` (954,802 states) | the type invariant, `ClientsHaveOneOwner`, `ActiveRowHasClient`, `DeliveredHasClient`, the refinement |
| provisioning_liveness | 1 subscription, 1 worker, 1 late call, 1 renewal | `TermsReachPanel` |
| provisioning_suspended | 1 subscription, 1 worker | one statement of the repository, violated |
| delivery | listings, one account, a payer and a broadcast, each by itself (about 151,000 states) | the type invariants, `NoSessionForTheBarred`, `ShelfCatchesUp`, `PermissionsCatchUp`, `PayerIsTold`, `BroadcastReachesEveryone` |
| operations | eight components, each by itself (642,850 states) | the type invariants, the invariants, action properties and the refinements below |
| installation | three programs, each by itself (1.95 million states) | the type invariants, `RerunKeepsPassword`, `FinishedInstallWorks`, `OpenedIsOnRecord`, `ReportedOkIsTrue` |
| max_bonus | 3 users, 3 orders, 5 payments, 2 transactions | one statement of the repository, violated |

`operations` and `installation`, by component:

| component | instance | properties |
|---|---|---|
| Vouchers | 1 code of up to 2 uses, 2 users, 3 calls of redeem | `RedemptionsAreCounted`, `DisabledForGood` |
| SignupReferrals | 2 invitees of one member, 2 mints at once, another provisioner of the member's trial | `RewardedOnce`, `RewardedIsDelivered` |
| SettlementStatements | 2 users, 2 orders (one paid by wallet or card), a deposit, 2 transactions | `StatementsKeepLedger`, `StatementsRefinePaidFulfilment`, `StatementsRefineAtomicSettlement` |
| AdminWizards | 1 handler at a time, all wizards, 5 kinds of edit | `WizardsStoreWhatWasAsked` |
| CustomerDialogues | 2 handlers, 1 order, 2 payments, two flows at a time | `ReceiptsNameTheirPayment`, `DialoguesDoNotMix` |
| Onboarding | one person, texts by 4 kinds of second word | `GuardedInvitationIsKept` |
| PanelSessions | 2 requests, 3 logins, 1 restart | `ReadsSurviveARestart` |
| PanelInventory | 1 panel, 2 calls in one process, 2 changes of its list | `ListingsDoNotGoBack` |
| Installer | 3 runs, 2 passwords, 3 panels, 2 addresses | `RerunKeepsPassword`, `FinishedInstallWorks` |
| DatabaseSelection | 2 URLs, 2 boots, the scripts | `OpenedIsOnRecord` |
| GuidedInstall | 4 hosts, 2 tokens, 2 passwords, 1 run, 1 change outside | `ReportedOkIsTrue` |

Bounds of Settlement. Nothing is bounded but the sets: every variable is finite
because each payment settles once. Two payments are needed for a race between two
ways of paying, or for a wallet that one funds and the other charges. A race for
an order whose wallet payment a third one funded is left to the proofs, which have
no bounds. The second order exists for the renewal, whose owner may have changed,
and the second user to transfer to and to earn a commission. Prices of 10,
deposits of 10, 20 % and a cap of 3 make the wallet just sufficient, and the
second commission cut by the cap. `settlement_liveness` has one order: with the
renewal the behaviour graph is too large for a liveness check. What a renewal adds
there, a transfer that makes its settlement impossible, is one of the reasons in
`Refused`.

Bounds of Provisioning. Jobs are finite, so only renewals (`MaxTerms`) and late
calls (`MaxLate`) are bounded. Two workers make every race of two steps, on one
subscription or on two that want one name; one late call meets a row in any
state. The constraint of the identity run keeps to two cases: two subscriptions
that compete for a name, a worker each, without renewals and late calls; or one
subscription with both and two workers. The proofs have none of these bounds.
The liveness run has one worker, because two are too many for the liveness
check: a late call is its source of stale writes.

Bounds of the others. Two of whatever may overlap, and one more step than the
property needs: a third call of redeem after two have used a code up, a third
login object after the one a restart made stale and the one that replaced it, a third
run of the installer after one that was killed and one that finished, a third panel
beside one that was bound and one with the same address, a second boot that
finds what the first has written, a third edit after a cached listing. One trial that
others provision (`Repaired`) is enough to post an old quota last, and it is the member's, which
counts two rewards. In delivery there are settlements of all three kinds, in every
combination of two calls. `MaxSuggested` bounds the candidates that detection may list.

`AdminWizards` has one update at a time in the run, the assumption `OneAtATime`:
an update is three awaited steps, and only the expiry of the session comes between
them. It is an assumption about the administrator and not about the code: Telegraf
takes up the updates of one poll, and webhook calls, as they come. With two at once
`WizardsStoreWhatWasAsked` is violated (section 7). What is proved of the wizards,
`PlansAreWhole` and the types, is proved without that assumption.

Deadlock is checked in the Settlement and Provisioning runs and does not occur
(`PanelChange` or `Crash` is always enabled), so a stop of the shop shows only in
the liveness runs. In delivery, operations, installation and max_bonus a component may be done.

## 5. Fairness

In Settlement: `Spec` has none. `RetrySpec` adds strong fairness of the steps a person or a
request in flight repeats: the verification of an OK redirect (the payer reloads
the page), the settlement that follows, the approval of a receipt that is
approved already (the admin presses again, which verifyReceipt allows), and
provisioning's success. Strong, not weak: the first three are disabled whenever
panels are not ready, and a crash disables the second and the last. The code
itself justifies no more, having no scheduler, and that is the point of
`wallet_retry`: for a wallet payment there is nothing to be fair to.
`CapturedMoneyIsSettled` also assumes the panels to be ready from some time on.

Provisioning's `RetrySpec` lets a job go on until it returns (every call has a
time-out), repeats provisioning for ever (the same payers and admins, through
finishSettlement, and the referral flow's retry), and takes each step towards
success infinitely often if it is possible infinitely often, so that no failure
or crash spoils the same step for ever. It asks nothing of `ApplyLate`: a late
call may never arrive.

In delivery: a reader and a request go on to their end (in Storefront the
process may also die instead), Redis drops what is past its time to live,
the bot's start goes on, and handlers of settlements and broadcasts go on while
the process lives. `PayerIsTold` also asks that a payer or an administrator starts
finishSettlement again for an order a gateway or a receipt paid, while it is not
announced (`StartOrderFinish`: the redirect may be reloaded, a receipt approved
again; nobody is assumed to start the call of a wallet payment or a deposit), and
that provisioning and Telegram, if tried again and again, do not refuse for ever:
strong fairness of `Provisioned` and `SendOk`. `BroadcastReachesEveryone` asks for
nothing of the recipients: a refused message counts as attempted. Crashes are
bounded. operations and installation have no fairness: they check safety.

## 6. Proofs

Every theorem is for any sets and any bounds that satisfy the ASSUMEs of its
module. Each safety property rests on an invariant that holds initially, that
every action preserves, and that implies the property. TLC finds those invariants
true on the runs' instances, except for what it cannot evaluate: the sums of `Sums`.

`SettlementProofs`, for any users, orders and payments, any prices, deposits,
referrers and referral rates:

* `TypeCorrect`, `GrantedOnceIffPaid`, `NoRefusalAfterSettlement`,
  `ApprovalMeansSettled`, `WalletsAddUp`: the invariants of settlement_safety;
* `ChargeBuysTheGrant`: its action property;
* `ImplementsPaidFulfilment`: the refinement.

The argument is the invariant `IInv`. None of the invariants is inductive alone:
that a refusal cannot hit a settled payment needs to know that a payment with
`confirmedAt` is CONFIRMED unless it is a card payment (`PaymentInv`), and that
a card payment whose receipt is still PENDING is not settled
(`ReceiptDecisionSettles`); that a callback concerns no card payment needs the
gateway's redirects to belong to ONLINE payments (`HandlerInv`). `OrderInv` says
what COMPLETED and PENDING say about grants, and that CANCELLED says nothing;
`LedgerInv` ties the wallet row to the way the payment settled, which is what
makes a repeated settlement a stutter; `BalanceInv` is the part of
`WalletMatchesLedger` that needs no sums. One lemma per action proves that the
step preserves `IInv`; settlement is proved once (`SettleStep`) for the two
handlers that call it. `SettlementSteps` sorts the steps by what PaidFulfilment
sees and carries the action property and the refinement. `TotalsInv` adds the
sums: a row is written once, into a finite set, with the amount its total grows by.

`Sums` is what both ledgers need of MapThenSumSet: that the sum over a finite set
exists, is an integer, depends on the values alone, and grows by the value of an
element that is added, whichever the recursion takes first (`SumOfOneMore`). The
provers cannot instantiate the library's induction schemes, so induction is
spelled out: of the sets that violate a claim one has the least size, and it
is smaller by one element that gives the contradiction.

`StatementsProofs`, for any number of overlapping transactions, justifies the large
steps of `Settlement`: `StatementsHold`, `StatementsImplementPaidFulfilment`,
`StatementsLedgerHolds`, `SettlementsAreAtomic`, `WalletsAreNotOverdrawn`,
`StatementTypesKept`. The invariant `StatementsInv`: a row's lock has one
holder; what a transaction has decided is still so when it commits, because it
holds the lock of the row it read (a payment it will confirm is PENDING, an
order it will complete is PENDING and not granted) or because the row never
changes again (a CONFIRMED payment was served, a COMPLETED order was granted); a
wallet payment is one transaction's. A commit is then one step of PaidFulfilment
and every other statement a stutter. `LedgerInv` adds that the rows a transaction
will write are fresh, that it holds the wallet whose balance it read, and that it
writes one row to a wallet: this is where a payer must not be the own referrer
(`StatementsAssumption`: referredById is set when a user is created, to an older one).
`AtomicInv` is for `AtomicSettlement`: the rows a transaction is about to write are,
at every statement, those of the one step it will amount to (`OrderFits`), a payment
from the wallet holds its PENDING order and read a balance that covers it
(`WalletFits`), and a reward is incremented for a referrer only (`IncrementFits`).
Which rewards a settlement may bring only grows, as rewards are never taken back: what
was worked out from an older sum is still one of them at the commit. A commit is then
the abstract step with that reward,
and balances follow from `LedgerInv`: a wallet is the sum of its rows, which the
step extends by those of the transaction. That no wallet is overdrawn follows from
the abstract step's guard, through the refinement.

`ProvisioningProofs`, for any subscriptions, names, tokens and workers, any bounds,
and any names that satisfy `NamesAssumption`: `TypeCorrect`, `OneOwner`,
`LinksLeadToClients`, `ActiveRowsHaveClients` (the invariants of the runs) and
`ImplementsOneClient`. The invariant `IInv` adds to
them that two rows share neither a name nor a token (`RowInv`), that a job past
its claim still holds the name and token of its row (`JobInv`: what a worker
remembers cannot become stale, which is why a worker that writes the whole row
back does no harm), and that a late call carries an identity some row has
(`LateInv`: which is why it cannot make an orphan). The steps fall into those
that change a job only, those that rewrite a row and those that give the panel a
client, with one lemma for each kind of effect.

`DeliveryProofs`:

* `BarredGetNoSession`, of logins and refreshes. The invariant says what a request's
  history of the account implies: `barred` only while the account is, and never once
  the check of the status is passed. That the code checks after it has revoked and
  before it issues is what makes it inductive. The bot's mint runs beside them and
  gives a barred account sessions; a refresh that is asked for one of those is refused.
* `SentMeansHeard`: a row says SENT only of what the payer got, and both senders use
  the instance the bot's start last shared, whichever finishing calls overlap and
  wherever the process dies. A handler that is past its send has been heard
  (`SentIsHeard`), which is what its row will say.
* `CompletedBroadcastsAreComplete`: a broadcast that is COMPLETED came to every one of
  finitely many recipients, and its counts leave none out. `OverIsOver`: a loop that
  has ended is not taken up again. `BroadcastCounts`: each count is at most the
  recipients attempted and both together are at least them, not equal to them, as a
  failed write of the progress counts one twice.
* `StoreTypesKept`, and `DeliveryTypesKept` of the three components together.

`ChatProofs`:

* `GuardedCodeIsKept`: a code the guard put aside is in the stored session until the
  account exists, and in what the mint that runs has read (`PutAside`), unless the
  session expired, the person cancelled, or a text's second word took its place
  (`reworded`). Everything else a person can send, and every failed mint, keeps that.
* `ReceiptsAreForTheirPayment` and `SessionsAreOfOneDialogue`, for any number of
  overlapping handlers. What makes `DialogueInv` inductive without any lock is the
  form of the writes: a change names no state, or a state together with all the
  data this state asks for (`ChangeFits`), and payments are only added, so that
  what a handler remembers of one stays true (`Extends`).
* `PlansAreCreatedWhole`, for any number of overlapping updates: plans are created only
  from a draft that holds every field the wizard asks for. Wizard, field and draft
  of a plan are written together or not at all, so whatever is read again before it is
  written, they belong together (`PlanInv`).
* `CustomerTypesKept` and `AdminTypesKept`, without `OneAtATime`: overlapping updates take
  a text for the answer to another question, but session and drafts keep their types.

`OperationsProofs`:

* `UsesAreRedemptions` and `DisabledVouchersStayDisabled`: a call past
  `Recheck` holds the row's lock, and what it read under it (the code is active, not
  used up, not used by this user) is still so, because every other writer waits;
  a redemption's call is past its commit, which makes the redemption new and the
  count exact (FiniteSetTheorems).
* `SignupRewardedOnce` and `RewardedLogsAreDelivered`, for any invitees, members and
  mints. `JobAgrees`: only the request that locked a PENDING log is about to commit,
  and a log never goes back. `JobDelivers`: what a request has read for a rewarded log
  counts that reward, because it reads after the commit, and the panel took such a
  quota for each side the request is done with. What the panel ever took only grows,
  whichever older quotas are posted in between; that it carries the reward to the end
  is neither proved nor so (`RewardedIsCarried`, section 7).
* `OneRestartIsSurvived` and `SessionTypesKept`, for any
  number of requests, session objects and restarts: a read whose first answer was 401
  or 403 fails only if the panel restarted again after it. A cookie is of a life of
  the panel no later than this one, or anonymous; an object that a login made after the
  first refusal holds a cookie of that time, and only an answer to a visitor could put
  an anonymous one in, which needs another restart. Of a read whose first answer is a 404
  or a page nothing is claimed.
* `CommitsGoForward`, an action property: one call of a process synchronises a panel
  (`OneSynchronises`, which the map of running synchronisations gives), so what it
  listed is not older than what the process committed before (`ReadsAreNew`).
* `InventoryTypesKept`, and `OperationsTypesKept` of the eight components together. A
  step of the run is a step of one component and stutters in the others
  (`OneComponentMoves`), so the conjunction of the components' invariants is inductive.

`InstallationProofs`:

* `PasswordSurvivesReruns`: the role's password is that of `.env` as soon as there is
  one, a container's is that of `.env`, and a run that found one works with it.
* `FinishedInstallationsWork`: the later a run is, the more it has established
  (`Recreated`, `Migrated`, `Bound`). Administrators may add a second row with the local
  address, move or delete rows while the run goes on; the row it bound stays, as a row
  with a server cannot be deleted, and opens, as credentials that are
  given anew are encrypted with the container's key.
* `ServedIsOnRecord`: what a boot has worked out so far agrees with .env and the
  state file as long as no script has written them (`BootFits`); a boot that could
  not append its choice to .env serves the database it resolved all the same, which is
  one of the exceptions in `OpenedIsOnRecord`.
* `ReportsWhatWasProved`: a run past the panel has had a login accepted, and one past
  the bot the token that is in .env, whatever its snapshot says (`FlowFits`).
* `InstallationTypesKept` of the three programs together. What is to be shown of them:
  a state file that was loaded, redacted, sealed or extended is one again
  (`StateFits`), and every detector reports one of the six states whatever the host
  looks like (`DetectsStates`).

What the type invariants need of the constants is in their ASSUMEs: a broadcast has
finitely many recipients (`MessagingAssumption`: they are rows of one query), a panel
has an address (`InventoryAssumption`), and a host is one of those the detectors
tell apart (`MachinesAssumption`).

Checked by TLC only:

* Liveness under fairness, which the provers do not do: `CapturedMoneyIsSettled`,
  `SettledOrderIsDelivered`, `TermsReachPanel`, `ShelfCatchesUp`, `PermissionsCatchUp`,
  `PayerIsTold`, `BroadcastReachesEveryone`.
* `WizardsStoreWhatWasAsked`, which holds under `OneAtATime` only.
* The five violated statements: each has a behaviour that violates it.

## 7. What the code does not guarantee

By a run:

* `cancel_race`: cancel checks and writes in two statements, so a settled order
  can become CANCELLED. Its plan stays granted (`FulfilledIffPaid` holds), but a
  retry of its provisioning is then refused.
* `receipt_race`: a rejection between submitReceipt's two writes is undone on
  the payment row. The money side stays right (`ReceiptDecisionSettles`).
* `wallet_retry`: a wallet order whose provisioning fails is not provisioned by
  any retry, although the bot says so.
* `provisioning_suspended`: provisioning repeated after a suspension enables the
  client and marks its row ACTIVE.
* `max_bonus`: two friends' orders that complete at once both read the referrer's
  rewards before either commits, and together pass `referral.maxBonus`.

Stated in a module, and violated when TLC is asked; no run of the project
repeats it:

* `InvitationIsKept` (Onboarding): a new user's code is lost unless the join guard
  stopped them, because ensureUser runs on a later update that has no payload.
* `PromptsAreAnswered` (AdminWizards): the voucher wizard waits in a state onText routes nowhere.
* `CompletedIsGranted` (SignupReferrals): a commission sets COMPLETED on a log
  whose reward was never claimed.
* `OnlyOneDefault` (Storefront): two administrators who set a default at once leave
  two default cards.
* `WizardsStoreWhatWasAsked` (AdminWizards) with two updates of the administrator at
  once: a text is routed by one read of the session and handled by the next, so a tap
  in between makes it the answer to another question.
* `NoSessionIsMintedForTheBarred` (Accounts): mintForTelegramUser issues a session
  (`auth.service.ts:324`) without a look at the status, so a banned or deleted account
  that writes to the bot gets one. The guard still refuses it every call, as it reads the
  status each time.
* `RewardedIsCarried` (SignupReferrals): a provisioner that read a trial before the reward
  may post its old quota after the reward was posted (`vpn.service.ts:46`, `:129`). The log
  says REWARDED by then, and `affiliate.service.ts:77` leaves such a log alone.
* `WordsDoNotReplaceIt` (Onboarding): "preserves a pending referral payload across
  onboarding state changes", bot-runtime.spec.ts says, but a command of two words is
  taken before the payload (`telegram-bot.service.ts:738`) and a stopped text replaces it.
* `RefusalsAreRetried` (PanelSessions): "invalidate session and retry once" covers 401 and
  403 (`xui-panel.client.ts:686`). A 404 or a page, which the same file expects of
  unauthenticated routes (`:788`), fails the read and leaves the session cached, for
  an hour at most, for the next ones to fail with.
* `EveryPanelOpens` (Installer): every run writes a new ENCRYPTION_KEY and re-encrypts one row;
  the credentials of all others, a second row with the same address among them, cannot be
  decrypted any more.
* `ServedIsWritten` (DatabaseSelection): a failed append to .env is returned as
  `written: false` (`database-manager.js:121-125`), logged, and the database is served.
* `RerunAppliesFiles` (Installer): a run killed between writing PostgreSQL's
  configuration and restarting it leaves files that the next run finds as they
  should be, and it restarts nothing.

Seen while modelling, and not stated as a property:

* `.env.example:32` ships an empty `DATABASE_URL=` line "to allow auto-detection";
  writeEnvDatabaseUrl takes it for an existing setting, so resolveRuntime never
  pins one (the exception in `OpenedIsOnRecord`). PrismaService's third source,
  "shared env via ConfigService", never applies, as ConfigService loads it later.
* database-manager.js cannot read the sealed form of state-manager.js: it reads {}
  and overwrites it in plain. preflight.js replaces the whole file; register-to-saas
  and validate write back a state read before an await.
* In the guided flow the preflight passes when the system's detector throws, and a
  failed backup does not stop the cleanup. Only tests call createInstallationFlow.
* A broadcast whose process dies, or one of whose rows cannot be written, stays RUNNING for
  ever: nothing takes it up again (the exception in `BroadcastReachesEveryone`).
* The reconciliation of the local panel writes the credentials before it looks for the host's
  server, and throws when another panel has it: the installer stops there in every run
  as long as that server is there.
* Two finishing settlements may both send the message, a second tap on confirm starts a
  broadcast twice, and a failed progress row counts a recipient twice.
* Two refreshes with one token leave two live sessions. A crash between incr and
  expire leaves a counter of failed logins that never expires.
* The daily cap of trials is passed by as many trials as overlap; a reply may
  reopen a closed ticket; removing an administrator does not demote the account;
  ajoin:remove acts by a position that may be stale.
* A redeemed voucher whose provisioning failed is provisioned by nothing; raising
  maxRedemptions does not reactivate a used-up code; its overrides are not applied.

## 8. Not modelled

* Reports, analytics, admin, api keys, mini app and education: aggregating reads
  and thin controllers over the services above, with no state of their own that a
  behaviour could relate.
* Code nothing calls: wallet.credit, debit and reverse, affiliate.payout and processReferral,
  deleteVpnUser, reconcileSubscriptionInbounds, syncUsage, the queue, markExpired.
  isExcluded and isProvisionable of an inbound are never set.
* Dates and counters that are only stored: expiry dates, traffic, price formulas.
  What is done once a date has passed is a step that may happen at any time
  (`VoucherExpires`, `DialogueExpires`, `ShelfExpires`).
* register and the password reset of auth (the mint of a new account is in
  SignupReferrals and Onboarding, not in Accounts); the message about a deposit whose
  receipt was decided; ServersService.createInbound; the
  ticket's status (one column, written by id); the panel's own API beyond the calls
  made while provisioning and synchronising.
* The CLI's status, maintenance, payment, cloudflare and panel menus, each around one
  command;
  the static dashboard, proxy configuration, storage and audit adapters;
  translations and everything a screen only shows.

Known idealisations: the rows of two processes that commit inbounds at once may
mix two lists (`PanelInventory` keeps one step), writeEnvDatabaseUrl's check and
append are atomic across processes, notifications.send's row appears with
its final status, and the installer's .env is written at once: `fs.writeFile`
(`install.interface.ts:362`) truncates it first, and a kill in between, which leaves it cut
short, is not modelled.
