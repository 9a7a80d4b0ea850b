---------------------------- MODULE Provisioning ----------------------------
(***************************************************************************)
(* VpnService: provisioning a paid subscription as a client of a 3x-ui     *)
(* panel, and suspending or resuming it. Workers are the requests, bot     *)
(* updates and callbacks that run these operations at the same time; a     *)
(* worker's job holds what it remembers between two database statements or *)
(* panel calls, each of which is one step.                                 *)
(*                                                                         *)
(* The panel is external. It keeps one client per name, rejects a second   *)
(* one, replaces the whole state of a client on update, and may answer     *)
(* late, never, or after the caller has given up. Which inbounds a client  *)
(* is attached to, traffic counters and the audit of errors are left out.  *)
(* Rows of vpn_users are never deleted: deleteVpnUser has no caller.       *)
(*                                                                         *)
(* A definition marked "mutant" is a plausible defect of the one below it: *)
(* no specification uses it.                                               *)
(***************************************************************************)
EXTENDS Naturals, FiniteSets

CONSTANTS
  Subs, Names, Tokens, Workers,
  BaseName,       \* subscription -> the name its user gives (generateClientEmail)
  SuffixedName,   \* subscription -> that name with the subscription's id appended
  MaxTerms,       \* bound: renewals and rewards of one subscription
  MaxLate,        \* bound: panel calls under way after their callers gave up
  NoRow, NoClient, NoToken, NoJob

ASSUME NamesAssumption ==
  /\ BaseName \in [Subs -> Names]
  /\ SuffixedName \in [Subs -> Names]
  /\ \A s, t \in Subs : SuffixedName[s] # BaseName[t]
  /\ \A s, t \in Subs : SuffixedName[s] = SuffixedName[t] => s = t
ASSUME BoundsAssumption == MaxTerms \in Nat /\ MaxLate \in Nat

VARIABLES
  status,   \* subscriptions.status; ACTIVE stands for TRIAL too
  terms,    \* version of its quota and expiry, advanced by a renewal or reward
  link,     \* subscriptions whose subscriptionLink is set
  row,      \* the vpn_users row of a subscription
  panel,    \* external: the panel's clients by name
  late,     \* external: calls the panel will still carry out
  job       \* volatile: what each worker is doing

vars == <<status, terms, link, row, panel, late, job>>

Client == [enabled : BOOLEAN, terms : 0..MaxTerms, token : Tokens]
Row == [name : Names, token : Tokens, state : {"ACTIVE", "DISABLED"}, error : BOOLEAN]
Call == [adds : BOOLEAN, name : Names, client : Client]
Kinds == {"provision", "suspend", "resume"}
Steps == {"collision", "claim", "record", "lookup", "read", "replace", "create",
          "confirm", "confirmRejected", "recreate", "deliver", "finish", "commit", "fail"}
Job == [kind : Kinds, step : Steps, sub : Subs, terms : 0..MaxTerms, name : Names,
        token : Tokens \cup {NoToken}, copy : Client \cup {NoClient}]

ASSUME NullsAssumption ==
  /\ NoRow \notin Row \cup (Names \X Tokens)
  /\ NoClient \notin Client /\ NoToken \notin Tokens /\ NoJob \notin Job

Init ==
  /\ status = [s \in Subs |-> "ACTIVE"]
  /\ terms = [s \in Subs |-> 0]
  /\ link = {}
  /\ row = [s \in Subs |-> NoRow]
  /\ panel = [n \in Names |-> NoClient]
  /\ late = {}
  /\ job = [w \in Workers |-> NoJob]

At(w, step) == job[w] # NoJob /\ job[w].step = step
Goto(w, step) == job' = [job EXCEPT ![w] = [@ EXCEPT !.step = step, !.copy = NoClient]]
Return(w) == job' = [job EXCEPT ![w] = NoJob]
Sub(w) == job[w].sub
PanelClient(w) == panel[job[w].name]

database == <<status, terms, link, row>>
external == <<panel, late>>

-----------------------------------------------------------------------------
(* Renewals, rewards, and the start of an operation.                       *)

Extend(s) ==
  /\ terms[s] < MaxTerms
  /\ terms' = [terms EXCEPT ![s] = @ + 1]
  /\ status' = [status EXCEPT ![s] = "ACTIVE"]
  /\ UNCHANGED <<link, row, external, job>>

\* The subscription is read here and not again.
BeginProvision(w, s) ==
  /\ job[w] = NoJob
  /\ job' = [job EXCEPT ![w] =
       [kind |-> "provision", step |-> "collision", sub |-> s, terms |-> terms[s],
        name |-> BaseName[s], token |-> NoToken, copy |-> NoClient]]
  /\ UNCHANGED <<database, external>>

BeginSetStatus(w, s, kind) ==
  /\ job[w] = NoJob
  /\ row[s] # NoRow
  /\ job' = [job EXCEPT ![w] =
       [kind |-> kind, step |-> "read", sub |-> s, terms |-> terms[s],
        name |-> row[s].name, token |-> row[s].token, copy |-> NoClient]]
  /\ UNCHANGED <<database, external>>

-----------------------------------------------------------------------------
(* claimVpnUserMapping: the row that fixes the identity.                   *)

NameFree(s, n) == \A t \in Subs \ {s} : row[t] # NoRow => row[t].name # n

ReadCollision(w) ==
  /\ At(w, "collision")
  /\ job' = [job EXCEPT ![w] = [@ EXCEPT !.step = "claim",
       !.name = IF NameFree(Sub(w), BaseName[Sub(w)])
                THEN BaseName[Sub(w)] ELSE SuffixedName[Sub(w)]]]
  /\ UNCHANGED <<database, external>>

UsedTokens == {row[s].token : s \in {t \in Subs : row[t] # NoRow}}
Indexed(s, n) == TRUE   \* mutant
ClaimAccepted(s, n) == NameFree(s, n)

ClaimNew(w) ==
  /\ At(w, "claim")
  /\ row[Sub(w)] = NoRow
  /\ ClaimAccepted(Sub(w), job[w].name)
  /\ \E t \in Tokens \ UsedTokens :
       /\ row' = [row EXCEPT ![Sub(w)] = [name |-> job[w].name, token |-> t,
                                          state |-> "DISABLED", error |-> TRUE]]
       /\ job' = [job EXCEPT ![w] = [@ EXCEPT !.step = "record", !.token = t]]
  /\ UNCHANGED <<status, terms, link, external>>

\* The upsert finds the row: its identity wins over the worker's proposal.
OwnProposal(w) == CHOOSE t \in Tokens : t \notin UsedTokens   \* mutant
ClaimedToken(w) == row[Sub(w)].token

ClaimExisting(w) ==
  /\ At(w, "claim")
  /\ row[Sub(w)] # NoRow
  /\ job' = [job EXCEPT ![w] = [@ EXCEPT !.step = "record", !.name = row[Sub(w)].name,
                                         !.token = ClaimedToken(w)]]
  /\ UNCHANGED <<database, external>>

\* Another subscription took the name after ReadCollision (P2002).
ClaimCollides(w) ==
  /\ At(w, "claim")
  /\ row[Sub(w)] = NoRow
  /\ ~NameFree(Sub(w), job[w].name)
  /\ job[w].name # SuffixedName[Sub(w)]
  /\ job' = [job EXCEPT ![w].name = SuffixedName[Sub(w)]]
  /\ UNCHANGED <<database, external>>

\* recordVpnUserMapping, before and after the calls to the panel.
RecordedActive(w, failed) == "ACTIVE"   \* mutant
RecordedState(w, failed) == IF failed THEN "DISABLED" ELSE "ACTIVE"
RecordMapping(w, failed) ==
  row' = [row EXCEPT ![Sub(w)] = [name |-> job[w].name, token |-> job[w].token,
                                  state |-> RecordedState(w, failed), error |-> failed]]

RecordPending(w) ==
  /\ At(w, "record")
  /\ RecordMapping(w, TRUE)
  /\ Goto(w, "lookup")
  /\ UNCHANGED <<status, terms, link, external>>

-----------------------------------------------------------------------------
(* Calls to the panel.                                                     *)

FoundIsEnough == "deliver"   \* mutant
FoundIsUpdated == "read"

LookupFound(w) ==
  /\ At(w, "lookup")
  /\ PanelClient(w) # NoClient
  /\ Goto(w, FoundIsUpdated)
  /\ UNCHANGED <<database, external>>

\* getUser reports a client as absent also when the panel answers without success.
LookupAbsent(w) ==
  /\ At(w, "lookup")
  /\ Goto(w, "create")
  /\ UNCHANGED <<database, external>>

\* updateUser reads the client and posts its whole state back.
ReadUnchecked(w) == TRUE   \* mutant
ClientExists(w) == PanelClient(w) # NoClient

ReadClient(w) ==
  /\ At(w, "read")
  /\ ClientExists(w)
  /\ job' = [job EXCEPT ![w] = [@ EXCEPT !.step = "replace", !.copy = PanelClient(w)]]
  /\ UNCHANGED <<database, external>>

NewClient(w) == [enabled |-> TRUE, terms |-> job[w].terms, token |-> job[w].token]
Replacement(w) ==
  IF job[w].kind = "provision" THEN NewClient(w)
  ELSE [job[w].copy EXCEPT !.enabled = (job[w].kind = "resume")]
AfterReplace(w) == IF job[w].kind = "provision" THEN "deliver" ELSE "commit"

\* The panel acts; the reply arrives or is lost.
Replace(w) ==
  /\ At(w, "replace")
  /\ panel' = [panel EXCEPT ![job[w].name] = Replacement(w)]
  /\ \E step \in {AfterReplace(w), "fail"} : Goto(w, step)
  /\ UNCHANGED <<database, late>>

Create(w, onError) ==
  /\ PanelClient(w) = NoClient
  /\ panel' = [panel EXCEPT ![job[w].name] = NewClient(w)]
  /\ \E step \in {"deliver"} \cup onError : Goto(w, step)
  /\ UNCHANGED <<database, late>>

CreateFirst(w) == At(w, "create") /\ Create(w, {"confirm", "confirmRejected"})
CreateAgain(w) == At(w, "recreate") /\ Create(w, {"fail"})

\* The panel refuses the client, which may exist already.
CreateRejected(w) ==
  /\ \/ At(w, "create") /\ Goto(w, "confirmRejected")
     \/ At(w, "recreate") /\ Goto(w, "fail")
  /\ UNCHANGED <<database, external>>

\* isAmbiguousCreateError: no reply, and the client asks whether it was carried out.
AfterTimeout(w) == IF At(w, "create") THEN "confirm" ELSE "fail"

CallDelayed(w) ==
  /\ At(w, "replace") \/ At(w, "create") \/ At(w, "recreate")
  /\ Cardinality(late) < MaxLate
  /\ late' = late \cup
       {[adds |-> ~At(w, "replace"), name |-> job[w].name,
         client |-> IF At(w, "replace") THEN Replacement(w) ELSE NewClient(w)]}
  /\ Goto(w, AfterTimeout(w))
  /\ UNCHANGED <<database, panel>>

CallLost(w) ==
  /\ At(w, "replace") \/ At(w, "create") \/ At(w, "recreate")
  /\ Goto(w, AfterTimeout(w))
  /\ UNCHANGED <<database, external>>

ApplyLate(call) ==
  /\ call \in late
  /\ late' = late \ {call}
  /\ panel' = IF call.adds => panel[call.name] = NoClient
              THEN [panel EXCEPT ![call.name] = call.client] ELSE panel
  /\ UNCHANGED <<database, job>>

\* A client that a failed createUser left behind is adopted as it is.
AdoptUnseen(w) == TRUE   \* mutant
Adoptable(w) == PanelClient(w) # NoClient

ConfirmFound(w) ==
  /\ At(w, "confirm") \/ At(w, "confirmRejected")
  /\ Adoptable(w)
  /\ Goto(w, "deliver")
  /\ UNCHANGED <<database, external>>

ConfirmAbsent(w) ==
  /\ At(w, "confirm")
  /\ Goto(w, "recreate")
  /\ UNCHANGED <<database, external>>

\* A panel call, or fetching the links, throws.
CallFails(w) ==
  /\ \E step \in {"lookup", "read", "confirm", "confirmRejected", "deliver"} : At(w, step)
  /\ Goto(w, "fail")
  /\ UNCHANGED <<database, external>>

-----------------------------------------------------------------------------
(* After the calls.                                                        *)

Deliver(w) ==
  /\ At(w, "deliver")
  /\ link' = link \cup {Sub(w)}
  /\ Goto(w, "finish")
  /\ UNCHANGED <<status, terms, row, external>>

Finish(w) ==
  /\ At(w, "finish")
  /\ RecordMapping(w, FALSE)
  /\ Return(w)
  /\ UNCHANGED <<status, terms, link, external>>

CommitStatus(w) ==
  /\ At(w, "commit")
  /\ row' = [row EXCEPT ![Sub(w)] = [@ EXCEPT !.error = FALSE,
                       !.state = IF job[w].kind = "resume" THEN "ACTIVE" ELSE "DISABLED"]]
  /\ status' = [status EXCEPT ![Sub(w)] = IF job[w].kind = "resume"
                                          THEN "ACTIVE" ELSE "SUSPENDED"]
  /\ Return(w)
  /\ UNCHANGED <<terms, link, external>>

FailProvision(w) ==
  /\ At(w, "fail") /\ job[w].kind = "provision"
  /\ RecordMapping(w, TRUE)
  /\ Return(w)
  /\ UNCHANGED <<status, terms, link, external>>

\* failRuntimeOperation: only the error is written.
FailSetStatus(w) ==
  /\ At(w, "fail") /\ job[w].kind # "provision"
  /\ row' = [row EXCEPT ![Sub(w)].error = TRUE]
  /\ Return(w)
  /\ UNCHANGED <<status, terms, link, external>>

Crash ==
  /\ job' = [w \in Workers |-> NoJob]
  /\ UNCHANGED <<database, external>>

WorkerStep(w) ==
  \/ \E s \in Subs : BeginProvision(w, s)
  \/ \E s \in Subs, kind \in {"suspend", "resume"} : BeginSetStatus(w, s, kind)
  \/ ReadCollision(w) \/ ClaimNew(w) \/ ClaimExisting(w) \/ ClaimCollides(w)
  \/ RecordPending(w)
  \/ LookupFound(w) \/ LookupAbsent(w) \/ ReadClient(w) \/ Replace(w)
  \/ CreateFirst(w) \/ CreateAgain(w) \/ CreateRejected(w)
  \/ CallDelayed(w) \/ CallLost(w) \/ CallFails(w)
  \/ ConfirmFound(w) \/ ConfirmAbsent(w)
  \/ Deliver(w) \/ Finish(w) \/ CommitStatus(w) \/ FailProvision(w) \/ FailSetStatus(w)

Next ==
  \/ \E w \in Workers : WorkerStep(w)
  \/ \E s \in Subs : Extend(s)
  \/ \E call \in late : ApplyLate(call)
  \/ Crash

Spec == Init /\ [][Next]_vars

-----------------------------------------------------------------------------
(* Safety.                                                                 *)

\* Every variable has its type; in particular a status is only ever posted back
\* for a client that updateUser has read.
TypeOK ==
  /\ status \in [Subs -> {"ACTIVE", "SUSPENDED"}]
  /\ terms \in [Subs -> 0..MaxTerms]
  /\ link \subseteq Subs
  /\ row \in [Subs -> Row \cup {NoRow}]
  /\ panel \in [Names -> Client \cup {NoClient}]
  /\ late \subseteq Call
  /\ job \in [Workers -> Job \cup {NoJob}]
  /\ \A w \in Workers : At(w, "replace") => job[w].copy \in Client

\* Every client of the panel, however late or repeated the call that made it,
\* is the client of the one subscription whose row names it, and has its token:
\* simultaneous and repeated createVpnUserForSubscription leave no orphan, no
\* second client of a subscription, and no client shared by two.
ClientsHaveOneOwner ==
  \A n \in Names : panel[n] # NoClient =>
    \E s \in Subs :
      /\ row[s] # NoRow /\ row[s].name = n /\ row[s].token = panel[n].token
      /\ \A t \in Subs \ {s} : row[t] # NoRow => row[t].name # n

\* A subscriptionLink in the database leads to a client: an ambiguous or failed
\* createUser never ends in a delivered link without one.
DeliveredHasClient ==
  \A s \in link : row[s] # NoRow /\ panel[row[s].name] # NoClient

\* A vpn_users row is ACTIVE only if its client exists: a row that a failed or
\* unfinished provisioning wrote, or that a resume touched, does not claim more.
ActiveRowHasClient ==
  \A s \in Subs : row[s] # NoRow /\ row[s].state = "ACTIVE" =>
    panel[row[s].name] # NoClient

\* Provisioning implements the promise of OneClient: identities never change.
Identity(s) == IF row[s] = NoRow THEN NoRow ELSE <<row[s].name, row[s].token>>
Promise == INSTANCE OneClient WITH
  None <- NoRow,
  identity <- [s \in Subs |-> Identity(s)],
  clients <- {<<n, panel[n].token>> : n \in {m \in Names : panel[m] # NoClient}},
  delivered <- link
ProvisioningRefinesOneClient == Promise!Spec

\* Stated by vpn.service.spec.ts:343, "disables XUI before persisting a suspended
\* subscription": a SUSPENDED subscription's VPN user is DISABLED. It is not so once
\* a provisioning is repeated: that enables the client and leaves the status.
SuspendedIsDisabled ==
  \A s \in Subs : status[s] = "SUSPENDED" => row[s].state = "DISABLED"

-----------------------------------------------------------------------------
(* Liveness.                                                               *)

\* A handler goes on until it returns, its calls having time-outs. Provisioning is
\* repeated (a payer reloads the callback, an admin approves again, a referral is
\* fulfilled again), and no call or crash spoils the same step for ever.
RetrySpec ==
  /\ Spec
  /\ \A s \in Subs, w \in Workers : SF_vars(BeginProvision(w, s))
  /\ \A w \in Workers :
       /\ WF_vars(job[w] # NoJob /\ WorkerStep(w))
       /\ SF_vars(ReadCollision(w))
       /\ SF_vars(ClaimNew(w) \/ ClaimExisting(w) \/ ClaimCollides(w))
       /\ SF_vars(RecordPending(w))
       /\ SF_vars(LookupFound(w) \/ (LookupAbsent(w) /\ PanelClient(w) = NoClient))
       /\ SF_vars(ReadClient(w) /\ job[w].kind = "provision")
       /\ SF_vars(Replace(w) /\ job[w].kind = "provision")
       /\ SF_vars(CreateFirst(w))

\* With provisioning repeated, the panel's client gets the quota and expiry the
\* subscription has reached by renewals and rewards, and gets them again after a
\* job that read them before, or a late call, has put older ones back.
TermsReachPanel ==
  \A s \in Subs : []<>(/\ row[s] # NoRow
                       /\ panel[row[s].name] # NoClient
                       /\ panel[row[s].name].terms = terms[s])
=============================================================================
