------------------------- MODULE ProvisioningProofs -------------------------
(***************************************************************************)
(* For any sets of subscriptions, names, tokens and workers, and any       *)
(* bounds: the safety invariants of Provisioning and its refinement of     *)
(* OneClient.                                                              *)
(***************************************************************************)
EXTENDS Provisioning, TLAPS

\* Two rows share neither a name nor a token.
RowInv ==
  \A s, t \in Subs : row[s] # NoRow /\ row[t] # NoRow /\ s # t =>
    row[s].name # row[t].name /\ row[s].token # row[t].token

Owned(n, token) == \E s \in Subs : row[s] # NoRow /\ row[s].name = n /\ row[s].token = token

\* What a job remembers is still so, whatever the other workers did meanwhile.
JobOK(j) ==
  /\ j.step \notin {"collision", "claim"} =>
       row[j.sub] # NoRow /\ j.name = row[j.sub].name /\ j.token = row[j.sub].token
  /\ j.step = "replace" => j.copy \in Client /\ j.copy.token = j.token
  /\ j.step \in {"replace", "deliver", "finish", "commit"} => panel[j.name] # NoClient

JobInv == \A w \in Workers : job[w] # NoJob => JobOK(job[w])
PanelInv == \A n \in Names : panel[n] # NoClient => Owned(n, panel[n].token)
LateInv == \A call \in late : Owned(call.name, call.client.token)

IInv ==
  /\ TypeOK /\ RowInv /\ JobInv /\ PanelInv /\ LateInv
  /\ DeliveredHasClient /\ ActiveRowHasClient

-----------------------------------------------------------------------------
(* Effects that several actions share.                                     *)

\* Identities and clients are never lost.
Keeps ==
  /\ \A s \in Subs : row[s] # NoRow =>
       row'[s] # NoRow /\ row'[s].name = row[s].name /\ row'[s].token = row[s].token
  /\ \A n \in Names : panel[n] # NoClient => panel'[n] # NoClient

LEMMA JobsKept ==
  ASSUME TypeOK, Keeps, NEW j \in Job, JobOK(j)
  PROVE  JobOK(j)'
BY DEF Keeps, JobOK, Job, TypeOK

LEMMA OwnersKept ==
  ASSUME Keeps, NEW n, NEW token, Owned(n, token)
  PROVE  Owned(n, token)'
BY DEF Keeps, Owned

\* One worker's job changes, to one that is right in the new state.
LEMMA JobChange ==
  ASSUME IInv, Keeps, NEW w \in Workers, NEW j \in Job \cup {NoJob},
         j # NoJob => JobOK(j)', job' = [job EXCEPT ![w] = j]
  PROVE  /\ JobInv'
         /\ job' \in [Workers -> Job \cup {NoJob}]
         /\ \A v \in Workers : At(v, "replace")' => job'[v].copy \in Client
<1>1. job' \in [Workers -> Job \cup {NoJob}]
  BY DEF IInv, TypeOK
<1>2. ASSUME NEW v \in Workers
      PROVE  (job[v] # NoJob => JobOK(job[v]))'
  <2>1. CASE v = w
    <3>1. job'[v] = j
      BY <2>1 DEF IInv, TypeOK
    <3> QED BY <3>1 DEF JobOK
  <2>2. CASE v # w
    <3>1. job'[v] = job[v]
      BY <2>2 DEF IInv, TypeOK
    <3>2. job[v] # NoJob => job[v] \in Job /\ JobOK(job[v])
      BY DEF IInv, TypeOK, JobInv
    <3>3. ASSUME NEW i \in Job, JobOK(i)
          PROVE  JobOK(i)'
      BY <3>3, JobsKept DEF IInv
    <3> QED BY <3>1, <3>2, <3>3 DEF JobOK
  <2> QED BY <2>1, <2>2
<1>3. JobInv'
  BY <1>2 DEF JobInv
<1>4. ASSUME NEW v \in Workers, At(v, "replace")'
      PROVE  job'[v].copy \in Client
  BY <1>4, <1>2 DEF At, JobOK
<1> QED BY <1>1, <1>3, <1>4

\* A step that changes one job and nothing else.
LEMMA JobOnly ==
  ASSUME IInv, NEW w \in Workers, NEW j \in Job \cup {NoJob}, j # NoJob => JobOK(j),
         job' = [job EXCEPT ![w] = j], UNCHANGED <<database, external>>
  PROVE  IInv'
<1>1. Keeps
  BY DEF Keeps, database, external
<1>2. j # NoJob => JobOK(j)'
  BY DEF JobOK, database, external
<1>3. /\ JobInv'
      /\ job' \in [Workers -> Job \cup {NoJob}]
      /\ \A v \in Workers : At(v, "replace")' => job'[v].copy \in Client
  BY <1>1, <1>2, JobChange
<1>4. TypeOK'
  BY <1>3 DEF IInv, TypeOK, database, external
<1> QED
  BY <1>3, <1>4 DEF IInv, RowInv, PanelInv, LateInv, Owned, DeliveredHasClient,
     ActiveRowHasClient, database, external

\* The panel gets a client that its identity owns.
LEMMA PanelWritten ==
  ASSUME IInv, NEW n \in Names, NEW c \in Client, Owned(n, c.token),
         panel' = [panel EXCEPT ![n] = c], UNCHANGED database
  PROVE  /\ Keeps /\ RowInv' /\ PanelInv' /\ DeliveredHasClient' /\ ActiveRowHasClient'
         /\ panel' \in [Names -> Client \cup {NoClient}]
<1>1. panel' \in [Names -> Client \cup {NoClient}]
  BY DEF IInv, TypeOK
<1>2. c # NoClient
  BY NullsAssumption
<1>3. \A m \in Names : panel'[m] = IF m = n THEN c ELSE panel[m]
  BY DEF IInv, TypeOK
<1>4. Keeps
  BY <1>2, <1>3 DEF Keeps, database
<1>5. RowInv'
  BY DEF IInv, RowInv, database
<1>6. PanelInv'
  BY <1>3 DEF IInv, PanelInv, Owned, database
<1>7. \A s \in Subs : row[s] # NoRow => row[s].name \in Names
  BY DEF IInv, TypeOK, Row
<1>8. DeliveredHasClient' /\ ActiveRowHasClient'
  BY <1>2, <1>3, <1>7 DEF IInv, TypeOK, DeliveredHasClient, ActiveRowHasClient, database
<1> QED BY <1>1, <1>4, <1>5, <1>6, <1>8

\* A row keeps its identity; it may become ACTIVE if its client exists.
LEMMA RowWritten ==
  ASSUME IInv, NEW s \in Subs, NEW r \in Row, row[s] # NoRow,
         r.name = row[s].name, r.token = row[s].token,
         r.state = "ACTIVE" => panel[r.name] # NoClient,
         row' = [row EXCEPT ![s] = r], UNCHANGED <<link, external>>
  PROVE  /\ Keeps /\ RowInv' /\ PanelInv' /\ LateInv'
         /\ DeliveredHasClient' /\ ActiveRowHasClient'
         /\ row' \in [Subs -> Row \cup {NoRow}]
<1>1. row' \in [Subs -> Row \cup {NoRow}]
  BY DEF IInv, TypeOK
<1>2. r # NoRow
  BY NullsAssumption
<1>3. \A t \in Subs : row'[t] = IF t = s THEN r ELSE row[t]
  BY DEF IInv, TypeOK
<1>4. Keeps
  BY <1>2, <1>3 DEF Keeps, external
<1>5. RowInv'
  BY <1>2, <1>3 DEF IInv, RowInv
<1>6. ASSUME NEW n, NEW token, Owned(n, token)
      PROVE  Owned(n, token)'
  BY <1>4, <1>6, OwnersKept
<1>7. PanelInv' /\ LateInv'
  BY <1>6 DEF IInv, PanelInv, LateInv, external
<1>8. DeliveredHasClient' /\ ActiveRowHasClient'
  BY <1>2, <1>3 DEF IInv, TypeOK, DeliveredHasClient, ActiveRowHasClient, external
<1> QED BY <1>1, <1>4, <1>5, <1>7, <1>8

\* The job that Goto(w, step) leaves.
LEMMA GotoEffect ==
  ASSUME TypeOK, NEW w \in Workers, NEW step \in Steps, job[w] # NoJob, Goto(w, step)
  PROVE  \E j \in Job :
           /\ job' = [job EXCEPT ![w] = j]
           /\ j.step = step /\ j.sub = job[w].sub
           /\ j.name = job[w].name /\ j.token = job[w].token
<1> DEFINE j == [job[w] EXCEPT !.step = step, !.copy = NoClient]
<1>1. job' = [job EXCEPT ![w] = j]
  BY DEF TypeOK, Goto
<1>2. /\ j \in Job /\ j.step = step /\ j.sub = job[w].sub
      /\ j.name = job[w].name /\ j.token = job[w].token
  BY DEF TypeOK, Job
<1> QED BY <1>1, <1>2

\* A job past its claim holds the identity of its subscription's row.
LEMMA JobIdentity ==
  ASSUME IInv, NEW w \in Workers, job[w] # NoJob,
         job[w].step \notin {"collision", "claim"}
  PROVE  /\ job[w] \in Job /\ Sub(w) \in Subs
         /\ row[Sub(w)] # NoRow /\ row[Sub(w)] \in Row
         /\ job[w].name = row[Sub(w)].name /\ job[w].token = row[Sub(w)].token
         /\ job[w].name \in Names /\ job[w].token \in Tokens
         /\ Owned(job[w].name, job[w].token)
BY DEF IInv, TypeOK, JobInv, JobOK, Job, Row, Sub, Owned

-----------------------------------------------------------------------------
(* Steps that change a job only.                                           *)

LEMMA BeginSteps ==
  ASSUME IInv, NEW w \in Workers, NEW s \in Subs,
         BeginProvision(w, s) \/ \E kind \in {"suspend", "resume"} : BeginSetStatus(w, s, kind)
  PROVE  IInv'
<1>1. CASE BeginProvision(w, s)
  <2> DEFINE j == [kind |-> "provision", step |-> "collision", sub |-> s, terms |-> terms[s],
                   name |-> BaseName[s], token |-> NoToken, copy |-> NoClient]
  <2>1. j \in Job /\ JobOK(j)
    BY NamesAssumption DEF IInv, TypeOK, Job, Kinds, Steps, JobOK
  <2>2. job' = [job EXCEPT ![w] = j] /\ UNCHANGED <<database, external>>
    BY <1>1 DEF BeginProvision
  <2> QED BY <2>1, <2>2, JobOnly
<1>2. ASSUME NEW kind \in {"suspend", "resume"}, BeginSetStatus(w, s, kind)
      PROVE  IInv'
  <2> DEFINE j == [kind |-> kind, step |-> "read", sub |-> s, terms |-> terms[s],
                   name |-> row[s].name, token |-> row[s].token, copy |-> NoClient]
  <2>1. row[s] # NoRow /\ job' = [job EXCEPT ![w] = j] /\ UNCHANGED <<database, external>>
    BY <1>2 DEF BeginSetStatus
  <2>2. j \in Job /\ JobOK(j)
    BY <2>1 DEF IInv, TypeOK, Job, Row, Kinds, Steps, JobOK
  <2> QED BY <2>1, <2>2, JobOnly
<1> QED BY <1>1, <1>2

LEMMA ClaimJobSteps ==
  ASSUME IInv, NEW w \in Workers, ReadCollision(w) \/ ClaimExisting(w) \/ ClaimCollides(w)
  PROVE  IInv'
<1>1. CASE ReadCollision(w)
  <2> DEFINE n == IF NameFree(Sub(w), BaseName[Sub(w)])
                  THEN BaseName[Sub(w)] ELSE SuffixedName[Sub(w)]
             j == [job[w] EXCEPT !.step = "claim", !.name = n]
  <2>1. job[w] \in Job /\ Sub(w) \in Subs
    BY <1>1 DEF ReadCollision, At, IInv, TypeOK, Sub, Job
  <2>2. n \in Names
    BY <2>1, NamesAssumption
  <2>3. j \in Job /\ JobOK(j)
    BY <2>1, <2>2 DEF Job, Steps, JobOK
  <2>4. job' = [job EXCEPT ![w] = j] /\ UNCHANGED <<database, external>>
    BY <1>1, <2>1 DEF ReadCollision
  <2> QED BY <2>3, <2>4, JobOnly
<1>2. CASE ClaimExisting(w)
  <2> DEFINE j == [job[w] EXCEPT !.step = "record", !.name = row[Sub(w)].name,
                                 !.token = row[Sub(w)].token]
  <2>1. job[w] \in Job /\ Sub(w) \in Subs /\ row[Sub(w)] # NoRow /\ row[Sub(w)] \in Row
    BY <1>2 DEF ClaimExisting, At, IInv, TypeOK, Sub, Job
  <2>2. j \in Job /\ JobOK(j)
    BY <2>1 DEF Job, Row, Steps, JobOK, Sub
  <2>3. job' = [job EXCEPT ![w] = j] /\ UNCHANGED <<database, external>>
    BY <1>2, <2>1 DEF ClaimExisting, ClaimedToken
  <2> QED BY <2>2, <2>3, JobOnly
<1>3. CASE ClaimCollides(w)
  <2> DEFINE j == [job[w] EXCEPT !.name = SuffixedName[Sub(w)]]
  <2>1. job[w] \in Job /\ job[w].step = "claim" /\ Sub(w) \in Subs
    BY <1>3 DEF ClaimCollides, At, IInv, TypeOK, Sub, Job
  <2>2. j \in Job /\ JobOK(j)
    BY <2>1, NamesAssumption DEF Job, Steps, JobOK
  <2>3. job' = [job EXCEPT ![w] = j] /\ UNCHANGED <<database, external>>
    BY <1>3, <2>1 DEF ClaimCollides
  <2> QED BY <2>2, <2>3, JobOnly
<1> QED BY <1>1, <1>2, <1>3

\* Goto alone, to any step that does not claim more about the panel than is so.
LEMMA GotoOnly ==
  ASSUME IInv, NEW w \in Workers, NEW step \in Steps \ {"collision", "claim", "replace"},
         job[w] # NoJob, job[w].step \notin {"collision", "claim"}, Goto(w, step),
         step \in {"deliver", "finish", "commit"} => PanelClient(w) # NoClient,
         UNCHANGED <<database, external>>
  PROVE  IInv'
<1>1. PICK j \in Job :
        /\ job' = [job EXCEPT ![w] = j]
        /\ j.step = step /\ j.sub = job[w].sub
        /\ j.name = job[w].name /\ j.token = job[w].token
  BY GotoEffect DEF IInv
<1>2. JobOK(j)
  BY <1>1, JobIdentity DEF JobOK, Sub, PanelClient
<1> QED BY <1>1, <1>2, JobOnly

LEMMA CallJobSteps ==
  ASSUME IInv, NEW w \in Workers,
         \/ LookupFound(w) \/ LookupAbsent(w)
         \/ CreateRejected(w) \/ CallLost(w) \/ CallFails(w)
         \/ ConfirmFound(w) \/ ConfirmAbsent(w)
  PROVE  IInv'
<1>1. UNCHANGED <<database, external>>
  BY DEF LookupFound, LookupAbsent, CreateRejected, CallLost, CallFails,
         ConfirmFound, ConfirmAbsent
<1>2. job[w] # NoJob /\ job[w].step \notin {"collision", "claim"}
  BY DEF LookupFound, LookupAbsent, CreateRejected, CallLost, CallFails,
         ConfirmFound, ConfirmAbsent, At
<1>3. PICK step \in Steps \ {"collision", "claim", "replace"} :
        /\ Goto(w, step)
        /\ step \in {"deliver", "finish", "commit"} => PanelClient(w) # NoClient
  BY DEF LookupFound, FoundIsUpdated, LookupAbsent, CreateRejected, CallLost, AfterTimeout,
         CallFails, ConfirmFound, Adoptable, ConfirmAbsent, Steps
<1> QED BY <1>1, <1>2, <1>3, GotoOnly

LEMMA ReadClientStep ==
  ASSUME IInv, NEW w \in Workers, ReadClient(w)
  PROVE  IInv'
<1> DEFINE j == [job[w] EXCEPT !.step = "replace", !.copy = PanelClient(w)]
<1>1. job[w] # NoJob /\ job[w].step = "read" /\ PanelClient(w) # NoClient
  BY DEF ReadClient, At, ClientExists
<1>2. PanelClient(w) \in Client /\ PanelClient(w).token = job[w].token
  BY <1>1, JobIdentity DEF IInv, TypeOK, PanelInv, RowInv, Owned, PanelClient
<1>3. j \in Job /\ JobOK(j)
  BY <1>1, <1>2, JobIdentity DEF Job, Steps, JobOK, Sub, PanelClient
<1>4. job' = [job EXCEPT ![w] = j] /\ UNCHANGED <<database, external>>
  BY <1>1, JobIdentity DEF ReadClient
<1> QED BY <1>3, <1>4, JobOnly

-----------------------------------------------------------------------------
(* Steps that write the database or the panel.                             *)

LEMMA ClaimNewStep ==
  ASSUME IInv, NEW w \in Workers, ClaimNew(w)
  PROVE  IInv'
<1> DEFINE s == Sub(w)
<1>1. PICK t \in Tokens \ UsedTokens :
        /\ row' = [row EXCEPT ![s] = [name |-> job[w].name, token |-> t,
                                      state |-> "DISABLED", error |-> TRUE]]
        /\ job' = [job EXCEPT ![w] = [@ EXCEPT !.step = "record", !.token = t]]
  BY DEF ClaimNew
<1> DEFINE r == [name |-> job[w].name, token |-> t, state |-> "DISABLED", error |-> TRUE]
<1>2. /\ job[w] \in Job /\ job[w] # NoJob /\ s \in Subs /\ row[s] = NoRow
      /\ \A u \in Subs \ {s} : row[u] # NoRow =>
           row[u].name # job[w].name /\ row[u].token # t
      /\ UNCHANGED <<status, terms, link, external>>
  BY <1>1 DEF ClaimNew, ClaimAccepted, NameFree, UsedTokens, At, IInv, TypeOK, Sub, Job
<1>3. r \in Row /\ r # NoRow
  <2>1. job[w].name \in Names /\ t \in Tokens
    BY <1>2 DEF Job
  <2>2. r \in Row
    BY <2>1 DEF Row
  <2> QED BY <2>2, NullsAssumption
<1>4. row' \in [Subs -> Row \cup {NoRow}] /\ \A u \in Subs : row'[u] = IF u = s THEN r ELSE row[u]
  BY <1>1, <1>2, <1>3 DEF IInv, TypeOK
<1>5. Keeps
  BY <1>2, <1>4 DEF Keeps, external
<1>6. RowInv'
  BY <1>2, <1>4 DEF IInv, RowInv
<1>7. PanelInv' /\ LateInv'
  BY <1>2, <1>5, OwnersKept DEF IInv, PanelInv, LateInv, external
<1>8. DeliveredHasClient' /\ ActiveRowHasClient'
  BY <1>2, <1>4 DEF IInv, TypeOK, DeliveredHasClient, ActiveRowHasClient, external
<1>9. PICK j \in Job :
        /\ job' = [job EXCEPT ![w] = j]
        /\ j.step = "record" /\ j.sub = s /\ j.name = job[w].name /\ j.token = t
  <2> DEFINE i == [job[w] EXCEPT !.step = "record", !.token = t]
  <2>1. /\ job' = [job EXCEPT ![w] = i]
        /\ i \in Job /\ i.step = "record" /\ i.sub = s /\ i.name = job[w].name /\ i.token = t
    BY <1>1, <1>2 DEF Job, Steps, Sub
  <2> QED BY <2>1
<1>10. JobOK(j)'
  BY <1>2, <1>3, <1>4, <1>9 DEF JobOK
<1>11. /\ JobInv' /\ job' \in [Workers -> Job \cup {NoJob}]
       /\ \A v \in Workers : At(v, "replace")' => job'[v].copy \in Client
  BY <1>5, <1>9, <1>10, JobChange
<1>12. TypeOK'
  BY <1>2, <1>4, <1>11 DEF IInv, TypeOK, external
<1> QED BY <1>6, <1>7, <1>8, <1>11, <1>12 DEF IInv

\* A worker past its claim writes its subscription's row and returns or goes on.
LEMMA RowStep ==
  ASSUME IInv, NEW w \in Workers, NEW r \in Row, job[w] # NoJob,
         job[w].step \notin {"collision", "claim"},
         r.name = row[Sub(w)].name, r.token = row[Sub(w)].token,
         r.state = "ACTIVE" => panel[r.name] # NoClient,
         row' = [row EXCEPT ![Sub(w)] = r],
         Return(w) \/ (job[w].step = "record" /\ Goto(w, "lookup")),
         status' \in [Subs -> {"ACTIVE", "SUSPENDED"}], UNCHANGED <<terms, link, external>>
  PROVE  IInv'
<1>1. Sub(w) \in Subs /\ row[Sub(w)] # NoRow
  BY JobIdentity
<1>2. /\ Keeps /\ RowInv' /\ PanelInv' /\ LateInv'
      /\ DeliveredHasClient' /\ ActiveRowHasClient'
      /\ row' \in [Subs -> Row \cup {NoRow}]
  BY <1>1, RowWritten
<1>3. /\ JobInv' /\ job' \in [Workers -> Job \cup {NoJob}]
      /\ \A v \in Workers : At(v, "replace")' => job'[v].copy \in Client
  <2>1. CASE Return(w)
    BY <1>2, <2>1, JobChange DEF Return
  <2>2. CASE job[w].step = "record" /\ Goto(w, "lookup")
    <3>1. PICK j \in Job :
            /\ job' = [job EXCEPT ![w] = j]
            /\ j.step = "lookup" /\ j.sub = job[w].sub
            /\ j.name = job[w].name /\ j.token = job[w].token
      BY <2>2, GotoEffect DEF IInv, Steps
    <3>2. JobOK(j)'
      BY <1>1, <1>2, <3>1, JobIdentity DEF Keeps, JobOK, Sub
    <3> QED BY <1>2, <3>1, <3>2, JobChange
  <2> QED BY <2>1, <2>2
<1>4. TypeOK'
  BY <1>2, <1>3 DEF IInv, TypeOK, external
<1> QED BY <1>2, <1>3, <1>4 DEF IInv

LEMMA RowSteps ==
  ASSUME IInv, NEW w \in Workers,
         RecordPending(w) \/ Finish(w) \/ CommitStatus(w) \/ FailProvision(w) \/ FailSetStatus(w)
  PROVE  IInv'
<1>1. job[w] # NoJob /\ job[w].step \notin {"collision", "claim"}
  BY DEF RecordPending, Finish, CommitStatus, FailProvision, FailSetStatus, At
<1>2. status' \in [Subs -> {"ACTIVE", "SUSPENDED"}]
  BY DEF RecordPending, Finish, CommitStatus, FailProvision, FailSetStatus, IInv, TypeOK
<1>3. UNCHANGED <<terms, link, external>>
  BY DEF RecordPending, Finish, CommitStatus, FailProvision, FailSetStatus
<1> DEFINE old == row[Sub(w)]
<1>4. old \in Row /\ job[w].name \in Names /\ job[w].token \in Tokens
      /\ job[w].name = old.name /\ job[w].token = old.token /\ Sub(w) \in Subs
  BY <1>1, JobIdentity
<1>5. CASE RecordPending(w) \/ FailProvision(w)
  <2> DEFINE r == [name |-> job[w].name, token |-> job[w].token,
                   state |-> "DISABLED", error |-> TRUE]
  <2>1. r \in Row
    BY <1>4 DEF Row
  <2>2. row' = [row EXCEPT ![Sub(w)] = r]
    BY <1>5 DEF RecordPending, FailProvision, RecordMapping, RecordedState
  <2>3. Return(w) \/ (job[w].step = "record" /\ Goto(w, "lookup"))
    BY <1>5 DEF RecordPending, FailProvision, At
  <2> QED BY <1>1, <1>2, <1>3, <1>4, <2>1, <2>2, <2>3, RowStep
<1>6. CASE Finish(w)
  <2> DEFINE r == [name |-> job[w].name, token |-> job[w].token,
                   state |-> "ACTIVE", error |-> FALSE]
  <2>1. r \in Row
    BY <1>4 DEF Row
  <2>2. row' = [row EXCEPT ![Sub(w)] = r] /\ Return(w)
    BY <1>6 DEF Finish, RecordMapping, RecordedState
  <2>3. panel[r.name] # NoClient
    BY <1>1, <1>6 DEF Finish, At, IInv, JobInv, JobOK
  <2> QED BY <1>1, <1>2, <1>3, <1>4, <2>1, <2>2, <2>3, RowStep
<1>7. CASE CommitStatus(w)
  <2> DEFINE r == [old EXCEPT !.error = FALSE,
                              !.state = IF job[w].kind = "resume" THEN "ACTIVE" ELSE "DISABLED"]
  <2>1. r \in Row /\ r.name = old.name /\ r.token = old.token
    BY <1>4 DEF Row
  <2>2. row' = [row EXCEPT ![Sub(w)] = r] /\ Return(w)
    BY <1>4, <1>7 DEF CommitStatus, IInv, TypeOK
  <2>3. panel[r.name] # NoClient
    BY <1>1, <1>4, <1>7, <2>1 DEF CommitStatus, At, IInv, JobInv, JobOK
  <2> QED BY <1>1, <1>2, <1>3, <2>1, <2>2, <2>3, RowStep
<1>8. CASE FailSetStatus(w)
  <2> DEFINE r == [old EXCEPT !.error = TRUE]
  <2>1. r \in Row /\ r.name = old.name /\ r.token = old.token /\ r.state = old.state
    BY <1>4 DEF Row
  <2>2. row' = [row EXCEPT ![Sub(w)] = r] /\ Return(w)
    BY <1>4, <1>8 DEF FailSetStatus, IInv, TypeOK
  <2>3. r.state = "ACTIVE" => panel[r.name] # NoClient
    BY <1>1, <2>1, JobIdentity DEF IInv, ActiveRowHasClient
  <2> QED BY <1>1, <1>2, <1>3, <2>1, <2>2, <2>3, RowStep
<1> QED BY <1>5, <1>6, <1>7, <1>8

\* What a worker posts to the panel has the identity of its subscription.
LEMMA PostedClient ==
  ASSUME IInv, NEW w \in Workers, job[w] # NoJob, job[w].step \notin {"collision", "claim"}
  PROVE  /\ NewClient(w) \in Client /\ NewClient(w).token = job[w].token
         /\ job[w].step = "replace" =>
              Replacement(w) \in Client /\ Replacement(w).token = job[w].token
<1>1. job[w] \in Job /\ job[w].token \in Tokens
  BY JobIdentity
<1>2. NewClient(w) \in Client /\ NewClient(w).token = job[w].token
  BY <1>1 DEF NewClient, Client, Job
<1>3. ASSUME job[w].step = "replace"
      PROVE  [job[w].copy EXCEPT !.enabled = (job[w].kind = "resume")] \in Client
             /\ [job[w].copy EXCEPT !.enabled = (job[w].kind = "resume")].token = job[w].token
  <2>1. job[w].copy \in Client /\ job[w].copy.token = job[w].token
    BY <1>3 DEF IInv, JobInv, JobOK
  <2> DEFINE b == (job[w].kind = "resume")
  <2>2. b \in BOOLEAN
    OBVIOUS
  <2> HIDE DEF b
  <2>3. [job[w].copy EXCEPT !.enabled = b] \in Client
        /\ [job[w].copy EXCEPT !.enabled = b].token = job[w].token
    BY <2>1, <2>2 DEF Client
  <2> QED BY <2>3 DEF b
<1> QED BY <1>2, <1>3 DEF Replacement

LEMMA PanelSteps ==
  ASSUME IInv, NEW w \in Workers, Replace(w) \/ CreateFirst(w) \/ CreateAgain(w)
  PROVE  IInv'
<1>1. job[w] # NoJob /\ job[w].step \notin {"collision", "claim"}
  BY DEF Replace, CreateFirst, CreateAgain, At
<1>2. PICK c \in Client : c.token = job[w].token /\ panel' = [panel EXCEPT ![job[w].name] = c]
  BY <1>1, PostedClient DEF Replace, CreateFirst, CreateAgain, Create, At
<1>3. PICK step \in Steps \ {"collision", "claim", "replace"} : Goto(w, step)
  BY DEF Replace, AfterReplace, CreateFirst, CreateAgain, Create, Steps
<1>4. UNCHANGED <<database, late>>
  BY DEF Replace, CreateFirst, CreateAgain, Create
<1>5. /\ Keeps /\ RowInv' /\ PanelInv' /\ DeliveredHasClient' /\ ActiveRowHasClient'
      /\ panel' \in [Names -> Client \cup {NoClient}]
  BY <1>1, <1>2, <1>4, JobIdentity, PanelWritten
<1>6. PICK j \in Job :
        /\ job' = [job EXCEPT ![w] = j]
        /\ j.step = step /\ j.sub = job[w].sub
        /\ j.name = job[w].name /\ j.token = job[w].token
  BY <1>1, <1>3, GotoEffect DEF IInv
<1>7. panel'[job[w].name] # NoClient
  BY <1>1, <1>2, JobIdentity, NullsAssumption DEF IInv, TypeOK
<1>8. JobOK(j)'
  BY <1>1, <1>3, <1>4, <1>6, <1>7, JobIdentity DEF JobOK, Sub, database
<1>9. /\ JobInv' /\ job' \in [Workers -> Job \cup {NoJob}]
      /\ \A v \in Workers : At(v, "replace")' => job'[v].copy \in Client
  BY <1>5, <1>6, <1>8, JobChange
<1>10. LateInv'
  BY <1>4, <1>5, OwnersKept DEF IInv, LateInv
<1>11. TypeOK'
  BY <1>4, <1>5, <1>9 DEF IInv, TypeOK, database
<1> QED BY <1>5, <1>9, <1>10, <1>11 DEF IInv

LEMMA CallDelayedStep ==
  ASSUME IInv, NEW w \in Workers, CallDelayed(w)
  PROVE  IInv'
<1>1. job[w] # NoJob /\ job[w].step \notin {"collision", "claim"}
  BY DEF CallDelayed, At
<1>2. PICK call \in Call : /\ late' = late \cup {call}
                           /\ call.name = job[w].name /\ call.client.token = job[w].token
  <2> DEFINE c == [adds |-> ~At(w, "replace"), name |-> job[w].name,
                   client |-> IF At(w, "replace") THEN Replacement(w) ELSE NewClient(w)]
  <2>1. c \in Call /\ c.name = job[w].name /\ c.client.token = job[w].token
    BY <1>1, PostedClient, JobIdentity DEF Call, At
  <2>2. late' = late \cup {c}
    BY DEF CallDelayed
  <2> QED BY <2>1, <2>2
<1>3. PICK step \in {"confirm", "fail"} : Goto(w, step)
  BY DEF CallDelayed, AfterTimeout
<1>4. UNCHANGED <<database, panel>>
  BY DEF CallDelayed
<1>5. Keeps
  BY <1>4 DEF Keeps, database
<1>6. PICK j \in Job :
        /\ job' = [job EXCEPT ![w] = j]
        /\ j.step = step /\ j.sub = job[w].sub
        /\ j.name = job[w].name /\ j.token = job[w].token
  BY <1>1, <1>3, GotoEffect DEF IInv, Steps
<1>7. JobOK(j)'
  BY <1>1, <1>4, <1>6, JobIdentity DEF JobOK, Sub, database
<1>8. /\ JobInv' /\ job' \in [Workers -> Job \cup {NoJob}]
      /\ \A v \in Workers : At(v, "replace")' => job'[v].copy \in Client
  BY <1>5, <1>6, <1>7, JobChange
<1>9. LateInv'
  BY <1>1, <1>2, <1>4, JobIdentity DEF IInv, LateInv, Owned, database
<1>10. TypeOK'
  BY <1>2, <1>4, <1>8 DEF IInv, TypeOK, database
<1> QED BY <1>4, <1>8, <1>9, <1>10 DEF IInv, RowInv, PanelInv, Owned,
           DeliveredHasClient, ActiveRowHasClient, database

LEMMA ApplyLateStep ==
  ASSUME IInv, NEW call \in late, ApplyLate(call)
  PROVE  IInv'
<1>1. call \in Call /\ Owned(call.name, call.client.token)
  BY DEF IInv, TypeOK, LateInv
<1>2. UNCHANGED <<database, job>> /\ late' \subseteq late
  BY DEF ApplyLate
<1>3. /\ Keeps /\ RowInv' /\ PanelInv' /\ DeliveredHasClient' /\ ActiveRowHasClient'
      /\ panel' \in [Names -> Client \cup {NoClient}]
  <2>1. CASE panel' = [panel EXCEPT ![call.name] = call.client]
    BY <1>1, <1>2, <2>1, PanelWritten DEF Call
  <2>2. CASE panel' = panel
    BY <1>2, <2>2 DEF IInv, TypeOK, Keeps, RowInv, PanelInv, Owned, DeliveredHasClient,
       ActiveRowHasClient, database
  <2> QED BY <2>1, <2>2 DEF ApplyLate
<1>4. JobInv'
  <2>1. ASSUME NEW v \in Workers, job[v] # NoJob
        PROVE  job[v] \in Job /\ JobOK(job[v])
    BY <2>1 DEF IInv, TypeOK, JobInv
  <2>2. ASSUME NEW j \in Job, JobOK(j)
        PROVE  JobOK(j)'
    BY <1>3, <2>2, JobsKept DEF IInv
  <2> QED BY <1>2, <2>1, <2>2 DEF JobInv, JobOK
<1>5. LateInv'
  BY <1>2, <1>3, OwnersKept DEF IInv, LateInv
<1>6. TypeOK'
  BY <1>2, <1>3 DEF IInv, TypeOK, At, database
<1> QED BY <1>3, <1>4, <1>5, <1>6 DEF IInv

LEMMA DeliverStep ==
  ASSUME IInv, NEW w \in Workers, Deliver(w)
  PROVE  IInv'
<1>1. job[w] # NoJob /\ job[w].step = "deliver" /\ panel[job[w].name] # NoClient
  BY DEF Deliver, At, IInv, JobInv, JobOK
<1>2. /\ link' = link \cup {Sub(w)} /\ Goto(w, "finish")
      /\ UNCHANGED <<status, terms, row, external>>
  BY DEF Deliver
<1>3. Keeps
  BY <1>2 DEF Keeps, external
<1>4. PICK j \in Job :
        /\ job' = [job EXCEPT ![w] = j]
        /\ j.step = "finish" /\ j.sub = job[w].sub
        /\ j.name = job[w].name /\ j.token = job[w].token
  BY <1>1, <1>2, GotoEffect DEF IInv, Steps
<1>5. JobOK(j)'
  BY <1>1, <1>2, <1>4, JobIdentity DEF JobOK, Sub, external
<1>6. /\ JobInv' /\ job' \in [Workers -> Job \cup {NoJob}]
      /\ \A v \in Workers : At(v, "replace")' => job'[v].copy \in Client
  BY <1>3, <1>4, <1>5, JobChange
<1>7. DeliveredHasClient'
  BY <1>1, <1>2, JobIdentity DEF IInv, DeliveredHasClient, external
<1>8. TypeOK'
  BY <1>1, <1>2, <1>6, JobIdentity DEF IInv, TypeOK, external
<1> QED BY <1>2, <1>6, <1>7, <1>8 DEF IInv, RowInv, PanelInv, LateInv, Owned,
           ActiveRowHasClient, external

LEMMA ExtendStep ==
  ASSUME IInv, NEW s \in Subs, Extend(s)
  PROVE  IInv'
<1>1. UNCHANGED <<link, row, external, job>>
  BY DEF Extend
<1>2. terms' \in [Subs -> 0..MaxTerms] /\ status' \in [Subs -> {"ACTIVE", "SUSPENDED"}]
  BY BoundsAssumption DEF Extend, IInv, TypeOK
<1>3. TypeOK'
  BY <1>1, <1>2 DEF IInv, TypeOK, At, external
<1> QED BY <1>1, <1>3 DEF IInv, RowInv, JobInv, JobOK, PanelInv, LateInv, Owned,
           DeliveredHasClient, ActiveRowHasClient, external

LEMMA CrashStep ==
  ASSUME IInv, Crash
  PROVE  IInv'
<1>1. UNCHANGED <<database, external>> /\ \A w \in Workers : job'[w] = NoJob
  BY DEF Crash
<1>2. TypeOK' /\ JobInv'
  BY <1>1 DEF Crash, IInv, TypeOK, At, JobInv, database, external
<1> QED BY <1>1, <1>2 DEF IInv, RowInv, PanelInv, LateInv, Owned,
           DeliveredHasClient, ActiveRowHasClient, database, external

-----------------------------------------------------------------------------
(* The invariant.                                                          *)

LEMMA InitInvariant == Init => IInv
BY BoundsAssumption DEF Init, IInv, TypeOK, RowInv, JobInv, PanelInv, LateInv, At,
   DeliveredHasClient, ActiveRowHasClient

LEMMA StepInvariant ==
  ASSUME IInv, [Next]_vars
  PROVE  IInv'
<1>1. ASSUME NEW w \in Workers, WorkerStep(w)
      PROVE  IInv'
  <2>1. CASE \/ \E s \in Subs : BeginProvision(w, s)
             \/ \E s \in Subs, kind \in {"suspend", "resume"} : BeginSetStatus(w, s, kind)
    BY <2>1, BeginSteps
  <2>2. CASE ReadCollision(w) \/ ClaimExisting(w) \/ ClaimCollides(w)
    BY <2>2, ClaimJobSteps
  <2>3. CASE ClaimNew(w)
    BY <2>3, ClaimNewStep
  <2>4. CASE \/ LookupFound(w) \/ LookupAbsent(w)
             \/ CreateRejected(w) \/ CallLost(w) \/ CallFails(w)
             \/ ConfirmFound(w) \/ ConfirmAbsent(w)
    BY <2>4, CallJobSteps
  <2>5. CASE ReadClient(w)
    BY <2>5, ReadClientStep
  <2>6. CASE Replace(w) \/ CreateFirst(w) \/ CreateAgain(w)
    BY <2>6, PanelSteps
  <2>7. CASE CallDelayed(w)
    BY <2>7, CallDelayedStep
  <2>8. CASE Deliver(w)
    BY <2>8, DeliverStep
  <2>9. CASE \/ RecordPending(w) \/ Finish(w) \/ CommitStatus(w)
             \/ FailProvision(w) \/ FailSetStatus(w)
    BY <2>9, RowSteps
  <2> QED
    BY <1>1, <2>1, <2>2, <2>3, <2>4, <2>5, <2>6, <2>7, <2>8, <2>9 DEF WorkerStep
<1>2. ASSUME NEW s \in Subs, Extend(s)
      PROVE  IInv'
  BY <1>2, ExtendStep
<1>3. ASSUME NEW call \in late, ApplyLate(call)
      PROVE  IInv'
  BY <1>3, ApplyLateStep
<1>4. CASE Crash
  BY <1>4, CrashStep
<1>5. CASE UNCHANGED vars
  BY <1>5 DEF vars, IInv, TypeOK, RowInv, JobInv, JobOK, PanelInv, LateInv, Owned, At,
     DeliveredHasClient, ActiveRowHasClient
<1> QED BY <1>1, <1>2, <1>3, <1>4, <1>5 DEF Next

\* In every reachable state identities, jobs, late calls and clients agree.
THEOREM Invariance == Spec => []IInv
<1>1. Init => IInv
  BY InitInvariant
<1>2. IInv /\ [Next]_vars => IInv'
  BY StepInvariant
<1> QED BY <1>1, <1>2, PTL DEF Spec

\* The types of Provisioning, for any sets and bounds: no worker posts back the
\* state of a client it has not read.
THEOREM TypeCorrect == Spec => []TypeOK
<1>1. IInv => TypeOK
  BY DEF IInv
<1> QED BY <1>1, Invariance, PTL

\* However many workers provision, and however late the panel answers, each
\* client belongs to one subscription's row and has its token.
THEOREM OneOwner == Spec => []ClientsHaveOneOwner
<1>1. IInv => ClientsHaveOneOwner
  <2> SUFFICES ASSUME IInv, NEW n \in Names, panel[n] # NoClient
               PROVE  \E s \in Subs :
                        /\ row[s] # NoRow /\ row[s].name = n /\ row[s].token = panel[n].token
                        /\ \A t \in Subs \ {s} : row[t] # NoRow => row[t].name # n
    BY DEF ClientsHaveOneOwner
  <2>1. PICK s \in Subs : row[s] # NoRow /\ row[s].name = n /\ row[s].token = panel[n].token
    BY DEF IInv, PanelInv, Owned
  <2>2. \A t \in Subs \ {s} : row[t] # NoRow => row[t].name # n
    BY <2>1 DEF IInv, RowInv
  <2> QED BY <2>1, <2>2
<1> QED BY <1>1, Invariance, PTL

\* A delivered link leads to a client.
THEOREM LinksLeadToClients == Spec => []DeliveredHasClient
<1>1. IInv => DeliveredHasClient
  BY DEF IInv
<1> QED BY <1>1, Invariance, PTL

\* An ACTIVE row has a client.
THEOREM ActiveRowsHaveClients == Spec => []ActiveRowHasClient
<1>1. IInv => ActiveRowHasClient
  BY DEF IInv
<1> QED BY <1>1, Invariance, PTL

-----------------------------------------------------------------------------
(* Refinement of OneClient.                                                *)

ClientIdentities == {<<n, panel[n].token>> : n \in {m \in Names : panel[m] # NoClient}}

\* What OneClient sees of a step that claims, creates and delivers nothing.
SameIdentity == \A s \in Subs : Identity(s)' = Identity(s)

LEMMA RowsKeepIdentity ==
  ASSUME IInv, NEW w \in Workers,
         \/ RecordPending(w) \/ Finish(w) \/ CommitStatus(w)
         \/ FailProvision(w) \/ FailSetStatus(w)
  PROVE  SameIdentity
<1>1. job[w] # NoJob /\ job[w].step \notin {"collision", "claim"}
  BY DEF RecordPending, Finish, CommitStatus, FailProvision, FailSetStatus, At
<1> DEFINE old == row[Sub(w)]
<1>2. old \in Row /\ job[w].name = old.name /\ job[w].token = old.token /\ Sub(w) \in Subs
      /\ job[w].name \in Names /\ job[w].token \in Tokens /\ old # NoRow
  BY <1>1, JobIdentity
<1>3. PICK r \in Row : row' = [row EXCEPT ![Sub(w)] = r] /\ r.name = old.name /\ r.token = old.token
  <2>1. CASE RecordPending(w) \/ Finish(w) \/ FailProvision(w)
    <3>1. PICK failed \in BOOLEAN : RecordMapping(w, failed)
      BY <2>1 DEF RecordPending, Finish, FailProvision
    <3> DEFINE r == [name |-> job[w].name, token |-> job[w].token,
                     state |-> RecordedState(w, failed), error |-> failed]
    <3>2. r \in Row /\ r.name = old.name /\ r.token = old.token
      BY <1>2 DEF Row, RecordedState
    <3> QED BY <3>1, <3>2 DEF RecordMapping
  <2>2. CASE CommitStatus(w)
    <3> DEFINE r == [old EXCEPT !.error = FALSE,
                                !.state = IF job[w].kind = "resume" THEN "ACTIVE" ELSE "DISABLED"]
    <3>1. r \in Row /\ r.name = old.name /\ r.token = old.token
      BY <1>2 DEF Row
    <3>2. row' = [row EXCEPT ![Sub(w)] = r]
      BY <1>2, <2>2 DEF CommitStatus, IInv, TypeOK
    <3> QED BY <3>1, <3>2
  <2>3. CASE FailSetStatus(w)
    <3> DEFINE r == [old EXCEPT !.error = TRUE]
    <3>1. r \in Row /\ r.name = old.name /\ r.token = old.token
      BY <1>2 DEF Row
    <3>2. row' = [row EXCEPT ![Sub(w)] = r]
      BY <1>2, <2>3 DEF FailSetStatus, IInv, TypeOK
    <3> QED BY <3>1, <3>2
  <2> QED BY <2>1, <2>2, <2>3
<1> QED BY <1>2, <1>3, NullsAssumption DEF SameIdentity, Identity, IInv, TypeOK

\* A posted client adds its own subscription's identity to the panel, or nothing.
LEMMA PanelGetsIdentity ==
  ASSUME IInv, NEW n \in Names, NEW c \in Client, Owned(n, c.token),
         panel' = [panel EXCEPT ![n] = c]
  PROVE  \E s \in Subs : row[s] # NoRow /\ ClientIdentities' = ClientIdentities \cup {Identity(s)}
<1>1. PICK s \in Subs : row[s] # NoRow /\ row[s].name = n /\ row[s].token = c.token
  BY DEF Owned
<1>2. Identity(s) = <<n, c.token>>
  BY <1>1 DEF Identity
<1>3. \A m \in Names : panel'[m] = IF m = n THEN c ELSE panel[m]
  BY DEF IInv, TypeOK
<1>4. c # NoClient
  BY NullsAssumption
<1>5. panel[n] # NoClient => panel[n].token = c.token
  BY <1>1 DEF IInv, PanelInv, Owned, RowInv
<1>6. ClientIdentities' = ClientIdentities \cup {<<n, c.token>>}
  <2>1. ASSUME NEW i
        PROVE  i \in ClientIdentities' <=> i \in ClientIdentities \cup {<<n, c.token>>}
    BY <1>3, <1>4, <1>5 DEF ClientIdentities
  <2> QED BY <2>1
<1> QED BY <1>1, <1>2, <1>6

LEMMA Simulation ==
  ASSUME IInv, [Next]_vars
  PROVE  [Promise!Next]_Promise!vars
<1> DEFINE ids == [s \in Subs |-> Identity(s)]
<1> USE DEF ClientIdentities
<1>1. ASSUME SameIdentity, panel' = panel, link' = link
      PROVE  UNCHANGED Promise!vars
  BY <1>1 DEF Promise!vars, SameIdentity
<1>2. ASSUME SameIdentity, link' = link, NEW n \in Names, NEW c \in Client,
             Owned(n, c.token), panel' = [panel EXCEPT ![n] = c]
      PROVE  Promise!Next
  <2>1. PICK s \in Subs :
          row[s] # NoRow /\ ClientIdentities' = ClientIdentities \cup {Identity(s)}
    BY <1>2, PanelGetsIdentity
  <2>2. Identity(s) # NoRow
    BY <2>1, NullsAssumption DEF Identity, IInv, TypeOK, Row
  <2>3. Promise!CreateClient(s)
    BY <1>2, <2>1, <2>2 DEF Promise!CreateClient, SameIdentity
  <2> QED BY <2>3 DEF Promise!Next
<1>3. ASSUME NEW w \in Workers, WorkerStep(w)
      PROVE  [Promise!Next]_Promise!vars
  <2>1. CASE \/ \E s \in Subs : BeginProvision(w, s)
             \/ \E s \in Subs, kind \in {"suspend", "resume"} : BeginSetStatus(w, s, kind)
             \/ ReadCollision(w) \/ ClaimExisting(w) \/ ClaimCollides(w)
             \/ LookupFound(w) \/ LookupAbsent(w) \/ ReadClient(w)
             \/ CreateRejected(w) \/ CallLost(w) \/ CallFails(w) \/ CallDelayed(w)
             \/ ConfirmFound(w) \/ ConfirmAbsent(w)
    <3>1. UNCHANGED <<row, panel, link>>
      BY <2>1 DEF BeginProvision, BeginSetStatus, ReadCollision, ClaimExisting,
         ClaimCollides, LookupFound, LookupAbsent, ReadClient, CreateRejected, CallLost,
         CallFails, CallDelayed, ConfirmFound, ConfirmAbsent, database, external
    <3> QED BY <1>1, <3>1 DEF SameIdentity, Identity
  <2>2. CASE \/ RecordPending(w) \/ Finish(w) \/ CommitStatus(w)
             \/ FailProvision(w) \/ FailSetStatus(w)
    <3>1. UNCHANGED <<panel, link>>
      BY <2>2 DEF RecordPending, Finish, CommitStatus, FailProvision, FailSetStatus, external
    <3> QED BY <1>1, <2>2, <3>1, RowsKeepIdentity
  <2>3. CASE ClaimNew(w)
    <3>0. PICK s \in Subs, n \in Names : s = Sub(w) /\ n = job[w].name
      BY <2>3 DEF ClaimNew, At, IInv, TypeOK, Sub, Job
    <3>1. PICK t \in Tokens \ UsedTokens :
            row' = [row EXCEPT ![s] = [name |-> n, token |-> t,
                                       state |-> "DISABLED", error |-> TRUE]]
      BY <2>3, <3>0 DEF ClaimNew
    <3> DEFINE r == [name |-> n, token |-> t, state |-> "DISABLED", error |-> TRUE]
    <3>2. /\ row[s] = NoRow
          /\ \A u \in Subs \ {s} : row[u] # NoRow => row[u].name # n /\ row[u].token # t
          /\ UNCHANGED <<panel, link>>
      BY <2>3, <3>0, <3>1 DEF ClaimNew, ClaimAccepted, NameFree, UsedTokens, external
    <3>3. r \in Row /\ r # NoRow
      <4>1. r \in Row
        BY DEF Row
      <4> QED BY <4>1, NullsAssumption
    <3>4. Identity(s) = NoRow /\ Identity(s)' = <<n, t>>
      BY <3>1, <3>2, <3>3 DEF Identity, IInv, TypeOK
    <3>5. \A u \in Subs \ {s} : Identity(u)' = Identity(u)
      BY <3>1, <3>2 DEF Identity, IInv, TypeOK
    <3>6. \A u \in Subs : Identity(u) # NoRow => Identity(u)[1] # n /\ Identity(u)[2] # t
      BY <3>2, <3>4 DEF Identity
    <3>7. ids' = [ids EXCEPT ![s] = <<n, t>>]
      BY <3>2, <3>4, <3>5
    <3>8. Promise!Claim(s, n, t)
      BY <3>2, <3>4, <3>6, <3>7 DEF Promise!Claim
    <3> QED BY <3>0, <3>1, <3>2, <3>8 DEF Promise!Next
  <2>4. CASE Replace(w) \/ CreateFirst(w) \/ CreateAgain(w)
    <3>1. job[w] # NoJob /\ job[w].step \notin {"collision", "claim"}
      BY <2>4 DEF Replace, CreateFirst, CreateAgain, At
    <3>2. PICK c \in Client : c.token = job[w].token
                              /\ panel' = [panel EXCEPT ![job[w].name] = c]
      BY <2>4, <3>1, PostedClient DEF Replace, CreateFirst, CreateAgain, Create, At
    <3>3. SameIdentity /\ link' = link
      BY <2>4 DEF Replace, CreateFirst, CreateAgain, Create, SameIdentity, Identity, database
    <3> QED BY <1>2, <3>1, <3>2, <3>3, JobIdentity
  <2>5. CASE Deliver(w)
    <3>1. job[w] # NoJob /\ job[w].step = "deliver" /\ panel[job[w].name] # NoClient
      BY <2>5 DEF Deliver, At, IInv, JobInv, JobOK
    <3>2. link' = link \cup {Sub(w)} /\ UNCHANGED <<row, panel>>
      BY <2>5 DEF Deliver, external
    <3>3. panel[job[w].name].token = job[w].token
      BY <3>1, JobIdentity DEF IInv, PanelInv, RowInv, Owned
    <3>4. Identity(Sub(w)) \in ClientIdentities
      BY <3>1, <3>3, JobIdentity DEF Identity
    <3>5. Promise!Deliver(Sub(w))
      BY <3>1, <3>2, <3>4, JobIdentity DEF Promise!Deliver, Identity
    <3> QED BY <3>1, <3>5, JobIdentity DEF Promise!Next
  <2> QED BY <1>3, <2>1, <2>2, <2>3, <2>4, <2>5 DEF WorkerStep
<1>4. ASSUME NEW call \in late, ApplyLate(call)
      PROVE  [Promise!Next]_Promise!vars
  <2>1. call \in Call /\ Owned(call.name, call.client.token)
    BY DEF IInv, TypeOK, LateInv
  <2>2. SameIdentity /\ link' = link
    BY <1>4 DEF ApplyLate, SameIdentity, Identity, database
  <2>3. CASE panel' = [panel EXCEPT ![call.name] = call.client]
    BY <1>2, <2>1, <2>2, <2>3 DEF Call
  <2>4. CASE panel' = panel
    BY <1>1, <2>2, <2>4
  <2> QED BY <1>4, <2>3, <2>4 DEF ApplyLate
<1>5. ASSUME \/ \E s \in Subs : Extend(s)
             \/ Crash
             \/ UNCHANGED vars
      PROVE  [Promise!Next]_Promise!vars
  <2>1. UNCHANGED <<row, panel, link>>
    BY <1>5 DEF Extend, Crash, vars, database, external
  <2> QED BY <1>1, <2>1 DEF SameIdentity, Identity
<1> QED BY <1>3, <1>4, <1>5 DEF Next

\* Provisioning implements OneClient for every value of its constants.
THEOREM ImplementsOneClient == Spec => ProvisioningRefinesOneClient
<1>1. Init => Promise!Init
  BY DEF Init, Promise!Init, Identity
<1>2. IInv /\ [Next]_vars => [Promise!Next]_Promise!vars
  BY Simulation
<1> QED
  BY <1>1, <1>2, Invariance, PTL DEF Spec, ProvisioningRefinesOneClient, Promise!Spec
=============================================================================
