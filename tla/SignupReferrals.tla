-------------------------- MODULE SignupReferrals --------------------------
(***************************************************************************)
(* A Telegram user who signs up with an invitation earns traffic for both  *)
(* sides: AuthService.mintForTelegramUser creates the user with a          *)
(* referral_logs row, and AffiliateService.fulfillTelegramSignupReferral   *)
(* moves it PENDING -> COMPLETED, with the quota of two trial              *)
(* subscriptions, and -> REWARDED once both are in the panel. Every later  *)
(* mint of that user calls it again.                                       *)
(*                                                                         *)
(* Also here, because they write the same rows: TrialFlow, and the end of  *)
(* OrdersService.creditReferralCommission.                                 *)
(*                                                                         *)
(* A claim is two steps, what it reads and its commit; claimer is the row  *)
(* lock of the log between them. The partial unique index on trials makes  *)
(* the commit fail when a trial it means to create has appeared.           *)
(*                                                                         *)
(* Provisioning a trial is two steps as well: it reads the row, and posts  *)
(* the quota it read when the row may hold another.  Others provision the  *)
(* same trials, TrialFlow and the bot's repairs, one for a user at a time. *)
(* What is read and posted is said by the rewards the quota counts.        *)
(***************************************************************************)
EXTENDS Naturals, FiniteSets

CONSTANTS
  Invitees, Members,   \* users who signed up by invitation, and the others
  InvitedBy,           \* users.referredById of an invitee
  Mints,               \* requests that run mintForTelegramUser
  Repaired,            \* bound: users whose trials others provision meanwhile
  NoTrial, NoMint

ReferralUsers == Invitees \cup Members

ASSUME ReferralAssumption ==
  /\ InvitedBy \in [Invitees -> ReferralUsers]
  /\ \A i \in Invitees : InvitedBy[i] # i
  /\ Invitees # {} /\ IsFiniteSet(Invitees) /\ Repaired \subseteq ReferralUsers
  /\ NoTrial \notin Nat /\ NoMint \notin Mints

VARIABLES
  log,       \* referral_logs.status; "NONE" before the user signs up
  quota,     \* rewards in a user's trial subscription, NoTrial without one
  shipped,   \* external: rewards in the quota of the panel's client
  taken,     \* history: rewards the panel ever took with a quota
  readings,  \* volatile: what another provisioner has read and not yet posted
  trialPlan, \* an enabled trial plan exists
  claimer,   \* the transaction that locked a log
  rewardedLogs,   \* history: logs whose claim added to the quotas
  mint       \* volatile: what each request is doing

shipVars == <<shipped, taken, readings>>
referralVars == <<log, quota, shipVars, trialPlan, claimer, rewardedLogs, mint>>

LogStatuses == {"NONE", "PENDING", "COMPLETED", "REWARDED"}
MintSteps == {"idle", "claim", "commit", "collect", "provision", "post", "mark"}
MintJob == [step : MintSteps, invitee : Invitees, mayRetry : BOOLEAN,
            users : SUBSET ReferralUsers, read : SUBSET Invitees]

ReferralTypeOK ==
  /\ log \in [Invitees -> LogStatuses]
  /\ quota \in [ReferralUsers -> Nat \cup {NoTrial}]
  /\ shipped \in [ReferralUsers -> SUBSET Invitees]
  /\ taken \in [ReferralUsers -> SUBSET Invitees]
  /\ readings \in [ReferralUsers -> SUBSET SUBSET Invitees]
  /\ trialPlan \in BOOLEAN
  /\ claimer \in [Invitees -> Mints \cup {NoMint}]
  /\ rewardedLogs \subseteq Invitees
  /\ mint \in [Mints -> MintJob]

IdleMint == [step |-> "idle", invitee |-> CHOOSE i \in Invitees : TRUE,
             mayRetry |-> TRUE, users |-> {}, read |-> {}]

ReferralInit ==
  /\ log = [i \in Invitees |-> "NONE"]
  /\ quota = [u \in ReferralUsers |-> NoTrial]
  /\ shipped = [u \in ReferralUsers |-> {}] /\ taken = shipped
  /\ readings = [u \in ReferralUsers |-> {}]
  /\ trialPlan \in BOOLEAN
  /\ claimer = [i \in Invitees |-> NoMint]
  /\ rewardedLogs = {}
  /\ mint = [m \in Mints |-> IdleMint]

Parties(i) == {i, InvitedBy[i]}
MintAt(m, step) == mint[m].step = step
InviteeOf(m) == mint[m].invitee
Work(m, step, users) ==
  mint' = [mint EXCEPT ![m] = [@ EXCEPT !.step = step, !.users = users]]
EndMint(m) == mint' = [mint EXCEPT ![m] = IdleMint]
InvitationsOf(u, logs) == {i \in logs : u \in Parties(i)}
WithTrial == {u \in ReferralUsers : quota[u] # NoTrial}

-----------------------------------------------------------------------------
(* mintForTelegramUser, which reads the log it may just have written.      *)

\* The next step for a log: nothing to do or no trial plan ends the request.
StepFor(status) ==
  CASE status = "PENDING" /\ trialPlan -> "claim"
    [] status = "COMPLETED" -> "collect"
    [] OTHER -> "idle"

MintReads(m, i, status) ==
  mint' = [mint EXCEPT ![m] = IF StepFor(status) = "idle" THEN IdleMint
                              ELSE [@ EXCEPT !.step = StepFor(status), !.invitee = i]]

SignUp(m, i) ==
  /\ MintAt(m, "idle") /\ log[i] = "NONE"
  /\ log' = [log EXCEPT ![i] = "PENDING"]
  /\ MintReads(m, i, "PENDING")
  /\ UNCHANGED <<quota, shipVars, trialPlan, claimer, rewardedLogs>>

StartAgain(m, i) ==
  /\ MintAt(m, "idle") /\ StepFor(log[i]) # "idle"
  /\ MintReads(m, i, log[i])
  /\ UNCHANGED <<log, quota, shipVars, trialPlan, claimer, rewardedLogs>>

-----------------------------------------------------------------------------
(* fulfillTelegramSignupReferral: the transaction.                         *)

\* Mutant: the claim does not ask for status PENDING.
ClaimAnyStatus(m) ==
  LET i == InviteeOf(m)
  IN /\ MintAt(m, "claim") /\ claimer[i] = NoMint
     /\ claimer' = [claimer EXCEPT ![i] = m]
     /\ Work(m, "commit", Parties(i) \cap WithTrial)
     /\ UNCHANGED <<log, quota, shipVars, trialPlan, rewardedLogs>>

ClaimLog(m) ==
  LET i == InviteeOf(m)
  IN /\ MintAt(m, "claim") /\ claimer[i] = NoMint
     /\ \/ /\ log[i] = "PENDING"
           /\ claimer' = [claimer EXCEPT ![i] = m]
           /\ Work(m, "commit", Parties(i) \cap WithTrial)
        \/ /\ log[i] # "PENDING"
           /\ Work(m, "collect", {})
           /\ UNCHANGED claimer
     /\ UNCHANGED <<log, quota, shipVars, trialPlan, rewardedLogs>>

\* A trial it did not see would be created a second time: P2002.
Conflicts(m) == Parties(InviteeOf(m)) \cap WithTrial # mint[m].users

Rewarded(u) == IF quota[u] = NoTrial THEN 1 ELSE quota[u] + 1

CommitReward(m) ==
  LET i == InviteeOf(m)
  IN /\ MintAt(m, "commit") /\ ~Conflicts(m)
     /\ log' = [log EXCEPT ![i] = "COMPLETED"]
     /\ quota' = [u \in ReferralUsers |-> IF u \in Parties(i) THEN Rewarded(u) ELSE quota[u]]
     /\ rewardedLogs' = rewardedLogs \cup {i}
     /\ claimer' = [claimer EXCEPT ![i] = NoMint]
     /\ Work(m, "provision", Parties(i))
     /\ UNCHANGED <<shipVars, trialPlan>>

\* The method calls itself once more after a conflict, reading all again.
RewardConflict(m) ==
  LET i == InviteeOf(m)
  IN /\ MintAt(m, "commit") /\ Conflicts(m)
     /\ claimer' = [claimer EXCEPT ![i] = NoMint]
     /\ IF mint[m].mayRetry /\ StepFor(log[i]) # "idle"
        THEN mint' = [mint EXCEPT ![m] =
               [@ EXCEPT !.step = StepFor(log[i]), !.mayRetry = FALSE, !.users = {}]]
        ELSE EndMint(m)
     /\ UNCHANGED <<log, quota, shipVars, trialPlan, rewardedLogs>>

-----------------------------------------------------------------------------
(* After the commit, or when an earlier call stopped there.                *)

CollectTrials(m) ==
  /\ MintAt(m, "collect")
  /\ IF Parties(InviteeOf(m)) \subseteq WithTrial
     THEN Work(m, "provision", Parties(InviteeOf(m)))
     ELSE EndMint(m)
  /\ UNCHANGED <<log, quota, shipVars, trialPlan, claimer, rewardedLogs>>

\* createVpnUserForSubscription, the referrer first: the subscription is read,
\* and what was read is posted; it throws on a failure, also when the panel took
\* the quota and its answer was lost.
TakesQuota(u, rewards) ==
  /\ shipped' = [shipped EXCEPT ![u] = rewards]
  /\ taken' = [taken EXCEPT ![u] = @ \cup rewards]

NextOf(m) ==
  IF InvitedBy[InviteeOf(m)] \in mint[m].users THEN InvitedBy[InviteeOf(m)] ELSE InviteeOf(m)

LoadTrial(m) ==
  /\ MintAt(m, "provision")
  /\ mint' = [mint EXCEPT ![m] =
       [@ EXCEPT !.step = "post", !.read = InvitationsOf(NextOf(m), rewardedLogs)]]
  /\ UNCHANGED <<log, quota, shipVars, trialPlan, claimer, rewardedLogs>>

PostQuota(m) ==
  LET left == mint[m].users \ {NextOf(m)}
  IN /\ MintAt(m, "post")
     /\ TakesQuota(NextOf(m), mint[m].read)
     /\ mint' = [mint EXCEPT ![m] = [@ EXCEPT !.step = IF left = {} THEN "mark" ELSE "provision",
                                            !.users = left, !.read = {}]]
     /\ UNCHANGED <<log, quota, readings, trialPlan, claimer, rewardedLogs>>

\* Mutant: a failed panel update is logged and passed over.
ShipFailureIgnored(m) ==
  /\ MintAt(m, "provision") \/ MintAt(m, "post")
  /\ Work(m, "mark", {})
  /\ UNCHANGED <<log, quota, shipVars, trialPlan, claimer, rewardedLogs>>

ShipFails(m) ==
  /\ \/ MintAt(m, "provision") /\ UNCHANGED <<shipped, taken>>
     \/ /\ MintAt(m, "post")
        /\ TakesQuota(NextOf(m), mint[m].read) \/ UNCHANGED <<shipped, taken>>
  /\ EndMint(m)
  /\ UNCHANGED <<log, quota, readings, trialPlan, claimer, rewardedLogs>>

MarkRewarded(m) ==
  LET i == InviteeOf(m)
  IN /\ MintAt(m, "mark")
     /\ log' = [log EXCEPT ![i] = IF @ = "COMPLETED" THEN "REWARDED" ELSE @]
     /\ EndMint(m)
     /\ UNCHANGED <<quota, shipVars, trialPlan, claimer, rewardedLogs>>

-----------------------------------------------------------------------------
(* The others that write these rows.                                       *)

\* TrialFlow creates a trial; the unique index decides a race with a reward.
ActivateTrial(u) ==
  /\ trialPlan /\ quota[u] = NoTrial
  /\ quota' = [quota EXCEPT ![u] = 0]
  /\ UNCHANGED <<log, shipVars, trialPlan, claimer, rewardedLogs, mint>>

\* Any other provisioner of a trial, which may read it before a reward and post
\* it after the reward was posted, or come to nothing.
OtherLoads(u) ==
  /\ quota[u] # NoTrial /\ readings[u] = {}
  /\ readings' = [readings EXCEPT ![u] = {InvitationsOf(u, rewardedLogs)}]
  /\ UNCHANGED <<log, quota, shipped, taken, trialPlan, claimer, rewardedLogs, mint>>
OtherEnds(u) ==
  /\ \E rewards \in readings[u] : TakesQuota(u, rewards) \/ UNCHANGED <<shipped, taken>>
  /\ readings' = [readings EXCEPT ![u] = {}]
  /\ UNCHANGED <<log, quota, trialPlan, claimer, rewardedLogs, mint>>

\* A first completed order of an invitee pays the referrer a commission and
\* completes the pair's PENDING log, whatever its rewardType.
CommissionCompletesLog(i) ==
  /\ log[i] = "PENDING" /\ claimer[i] = NoMint
  /\ log' = [log EXCEPT ![i] = "COMPLETED"]
  /\ UNCHANGED <<quota, shipVars, trialPlan, claimer, rewardedLogs, mint>>

ToggleTrialPlan ==
  /\ trialPlan' = ~trialPlan
  /\ UNCHANGED <<log, quota, shipVars, claimer, rewardedLogs, mint>>

\* The process stops; PostgreSQL rolls open transactions back.
MintsLost ==
  /\ mint' = [m \in Mints |-> IdleMint]
  /\ claimer' = [i \in Invitees |-> NoMint]
  /\ readings' = [u \in ReferralUsers |-> {}]
  /\ UNCHANGED <<log, quota, shipped, taken, trialPlan, rewardedLogs>>

ReferralNext ==
  \/ \E m \in Mints, i \in Invitees : SignUp(m, i) \/ StartAgain(m, i)
  \/ \E m \in Mints :
       \/ ClaimLog(m) \/ CommitReward(m) \/ RewardConflict(m)
       \/ CollectTrials(m) \/ LoadTrial(m) \/ PostQuota(m) \/ ShipFails(m) \/ MarkRewarded(m)
  \/ \E u \in ReferralUsers : ActivateTrial(u)
  \/ \E u \in Repaired : OtherLoads(u) \/ OtherEnds(u)
  \/ \E i \in Invitees : CommissionCompletesLog(i)
  \/ ToggleTrialPlan
  \/ MintsLost

ReferralSpec == ReferralInit /\ [][ReferralNext]_referralVars

-----------------------------------------------------------------------------
(* "Apply a Telegram signup reward exactly once": a user's quota holds one  *)
(* reward for each invitation that was rewarded, whatever was interrupted,  *)
(* retried or run twice at the same time, and a rewarded log never goes     *)
(* back to PENDING, from where it would be rewarded again.                  *)
RewardedOnce ==
  /\ \A i \in rewardedLogs : log[i] \in {"COMPLETED", "REWARDED"}
  /\ \A u \in ReferralUsers :
       IF quota[u] = NoTrial THEN InvitationsOf(u, rewardedLogs) = {}
       ELSE quota[u] = Cardinality(InvitationsOf(u, rewardedLogs))

(* A log that says REWARDED was delivered: the panel has taken, for both    *)
(* sides, a quota that counts that reward, whoever read the trials before   *)
(* it and posts them later.                                                 *)
RewardedIsDelivered ==
  \A i \in rewardedLogs : log[i] = "REWARDED" => \A u \in Parties(i) : i \in taken[u]

(* That the panel still carries it does not hold: a provisioner that read   *)
(* the trial before the reward may post the old quota last, and nothing     *)
(* retries a REWARDED log. No configuration checks it; the README records   *)
(* it.                                                                      *)
RewardedIsCarried ==
  \A i \in rewardedLogs : log[i] = "REWARDED" => \A u \in Parties(i) : i \in shipped[u]

(* "COMPLETED means the database quota is safely committed", the comment   *)
(* of fulfillTelegramSignupReferral says. A commission paid for an order   *)
(* sets COMPLETED too.                                                     *)
CompletedIsGranted ==
  \A i \in Invitees : log[i] \in {"COMPLETED", "REWARDED"} => i \in rewardedLogs
=============================================================================
