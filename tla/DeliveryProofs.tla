--------------------------- MODULE DeliveryProofs ---------------------------
(***************************************************************************)
(* Proofs about the components of MCDelivery: what a request is given when *)
(* its account is barred, what a storefront lists, and what a notification *)
(* or a broadcast records, for any number of requests, sessions, items,    *)
(* editors, readers, finishing settlements and recipients.                 *)
(***************************************************************************)
EXTENDS MCDelivery, FiniteSetTheorems, TLAPS

-----------------------------------------------------------------------------
(* Sessions: a login or a refresh that saw the account barred all along    *)
(* never issues one.                                                       *)

\* What a request has seen all along still holds, and one that has passed the
\* check of the status has seen the account allowed.
RequestOK(q) ==
  /\ q.barred => status \in Barred
  /\ q.at \in {"status", "clear", "issue"} => ~q.barred
  /\ q.at \in {"find", "revoke"} => q.token \in Sessions

RequestsOK == \A r \in Requests : RequestOK(request[r])

AccountInv == AccountTypeOK /\ RequestsOK /\ NoSessionForTheBarred

-----------------------------------------------------------------------------
LEMMA IdleIsOK == IdleRequest \in Request /\ RequestOK(IdleRequest)
BY DEF IdleRequest, Request, RequestOK

LEMMA InitAccount == AccountInit => AccountInv
<1> SUFFICES ASSUME AccountInit PROVE AccountInv
  OBVIOUS
<1>1. AccountTypeOK
  <2>1. sessions \in [Sessions -> {"none", "live", "revoked"}]
    BY DEF AccountInit
  <2> QED BY <2>1, IdleIsOK, AccountsAssumption DEF AccountInit, AccountTypeOK, Status, Role
<1>2. RequestsOK
  BY IdleIsOK DEF AccountInit, RequestsOK
<1> QED BY <1>1, <1>2 DEF AccountInv, AccountInit, NoSessionForTheBarred

SessionRows == [Sessions -> {"none", "live", "revoked"}]
FailureCounts == [count : 0..LoginLimit, expires : BOOLEAN]

\* What a request's step does to everything but the request.
RestOK ==
  /\ UNCHANGED <<status, role, operation, operations, unearned>>
  /\ sessions' \in SessionRows
  /\ failures' \in FailureCounts
  /\ cached' \in Role \cup {NoRole}

LEMMA Types ==
  ASSUME AccountInv
  PROVE  /\ sessions \in SessionRows
         /\ failures \in FailureCounts
         /\ cached \in Role \cup {NoRole}
         /\ RevokeAll \in SessionRows
         /\ \A r \in Requests : request[r] \in Request /\ RequestOK(request[r])
BY DEF AccountInv, AccountTypeOK, RequestsOK, RevokeAll, SessionRows, FailureCounts

LEMMA RestUnchanged ==
  ASSUME AccountInv, UNCHANGED <<userVars, sessions, unearned, failures, cached>>
  PROVE  RestOK
BY Types DEF RestOK, userVars

\* One request changes and the account does not.
LEMMA OneRequest ==
  ASSUME AccountInv, RestOK, NEW r \in Requests, NEW q \in Request, RequestOK(q),
         request' = [request EXCEPT ![r] = q]
  PROVE  AccountInv'
<1>1. AccountTypeOK'
  BY DEF AccountInv, AccountTypeOK, RestOK, SessionRows, FailureCounts
<1>2. RequestsOK'
  BY DEF AccountInv, AccountTypeOK, RequestsOK, RequestOK, RestOK
<1> QED BY <1>1, <1>2 DEF AccountInv, NoSessionForTheBarred, RestOK

\* The request goes on to a step that needs no more than the one before.
LEMMA GoesOn ==
  ASSUME AccountInv, RestOK, NEW r \in Requests, NEW at, RequestGoes(r, at),
         \/ at \in {"expire", "password", "revokeAll", "active", "permissions", "load", "mint"}
         \/ at \in {"status", "clear", "issue"} /\ ~request[r].barred
         \/ at = "revoke" /\ request[r].at = "find"
  PROVE  AccountInv'
<1>1. request[r] \in Request /\ RequestOK(request[r])
  BY DEF AccountInv, AccountTypeOK, RequestsOK
<1> DEFINE q == [request[r] EXCEPT !.at = at]
<1>2. q \in Request /\ q.barred = request[r].barred /\ q.token = request[r].token /\ q.at = at
  BY <1>1 DEF Request
<1>3. RequestOK(q)
  BY <1>1, <1>2 DEF RequestOK
<1>4. request' = [request EXCEPT ![r] = q]
  BY <1>1 DEF RequestGoes, Request
<1> QED BY <1>2, <1>3, <1>4, OneRequest

\* The request is over.
LEMMA Ends ==
  ASSUME AccountInv, RestOK, NEW r \in Requests, Answer(r)
  PROVE  AccountInv'
BY IdleIsOK, OneRequest DEF Answer

LEMMA BeginStep ==
  ASSUME AccountInv, NEW r \in Requests,
         NEW at \in {"count", "find", "revokeAll", "guard", "profile"},
         NEW token \in Sessions \cup {NoSession}, at = "find" => token \in Sessions,
         NEW read \in Role \cup {NoRole}, Begin(r, at, token, read)
  PROVE  AccountInv'
<1>1. PICK b \in BOOLEAN : b = (status \in Barred)
  <2>1. (status \in Barred) \in BOOLEAN
    OBVIOUS
  <2> QED BY <2>1
<1> DEFINE q == [at |-> at, token |-> token, read |-> read, barred |-> b]
<1>2. q \in Request /\ q.at = at /\ q.token = token /\ q.barred = b
  BY DEF Request
<1>3. RequestOK(q)
  BY <1>1, <1>2 DEF RequestOK
<1>4. request' = [request EXCEPT ![r] = q] /\ RestOK
  BY <1>1, RestUnchanged DEF Begin
<1> QED BY <1>2, <1>3, <1>4, OneRequest

LEMMA FailureSteps ==
  ASSUME AccountInv, NEW r \in Requests,
         CountLogin(r) \/ LimitLogin(r) \/ ExpireFailures(r) \/ ClearFailures(r)
  PROVE  AccountInv'
<1>1. CASE CountLogin(r)
  <2>1. failures.count \in 0..LoginLimit /\ failures \in FailureCounts
    BY Types DEF FailureCounts
  <2>2. failures' \in FailureCounts
    BY <1>1, <2>1, AccountsAssumption DEF CountLogin, FailureCounts
  <2>3. RestOK
    BY <1>1, <2>2, Types DEF CountLogin, RestOK, userVars
  <2>4. RequestGoes(r, "expire") \/ RequestGoes(r, "password")
    BY <1>1 DEF CountLogin
  <2> QED BY <2>3, <2>4, GoesOn
<1>2. CASE LimitLogin(r)
  BY <1>2, RestUnchanged, Ends DEF LimitLogin
<1>3. CASE ExpireFailures(r)
  <2>1. PICK e \in BOOLEAN : failures' = [failures EXCEPT !.expires = e]
    <3>1. (failures.count > 0) \in BOOLEAN
      BY Types
    <3> QED BY <1>3, <3>1, Zenon DEF ExpireFailures
  <2>2. failures' \in FailureCounts
    BY <2>1, Types DEF FailureCounts
  <2>3. RestOK /\ RequestGoes(r, "password")
    BY <1>3, <2>2, Types DEF ExpireFailures, RestOK, userVars
  <2> QED BY <2>3, GoesOn
<1>4. CASE ClearFailures(r)
  <2>1. failures' \in FailureCounts
    BY <1>4, AccountsAssumption DEF ClearFailures, FailureCounts
  <2>2. ~request[r].barred
    BY <1>4, Types DEF ClearFailures, RequestOK
  <2>3. RestOK /\ RequestGoes(r, "issue")
    BY <1>4, <2>1, Types DEF ClearFailures, RestOK, userVars
  <2> QED BY <2>2, <2>3, GoesOn
<1> QED BY <1>1, <1>2, <1>3, <1>4

LEMMA StatusSteps ==
  ASSUME AccountInv, NEW r \in Requests,
         ReadUser(r) \/ ComparePassword(r) \/ CheckActive(r)
  PROVE  AccountInv'
<1>1. RestOK
  BY RestUnchanged DEF ReadUser, ComparePassword, CheckActive
<1>2. request[r].barred => status \in Barred
  BY Types DEF RequestOK
<1>3. CASE ReadUser(r)
  <2>1. Answer(r) \/ (RequestGoes(r, "status") /\ ~request[r].barred)
    BY <1>2, <1>3 DEF ReadUser
  <2> QED BY <1>1, <2>1, GoesOn, Ends
<1>4. CASE ComparePassword(r)
  <2>1. ~request[r].barred
    BY <1>4, Types DEF ComparePassword, RequestOK
  <2>2. Answer(r) \/ RequestGoes(r, "clear")
    BY <1>4 DEF ComparePassword
  <2> QED BY <1>1, <2>1, <2>2, GoesOn, Ends
<1>5. CASE CheckActive(r)
  <2>1. Answer(r) \/ (RequestGoes(r, "issue") /\ ~request[r].barred)
    BY <1>2, <1>5 DEF CheckActive, Barred
  <2> QED BY <1>1, <2>1, GoesOn, Ends
<1> QED BY <1>3, <1>4, <1>5

LEMMA SessionSteps ==
  ASSUME AccountInv, NEW r \in Requests,
         FindSession(r) \/ RevokeSession(r) \/ RevokeEverySession(r) \/ IssueSession(r)
  PROVE  AccountInv'
<1>1. CASE FindSession(r)
  <2>1. request[r].at = "find" /\ RestOK
    BY <1>1, RestUnchanged DEF FindSession
  <2>2. Answer(r) \/ RequestGoes(r, "revoke") \/ RequestGoes(r, "revokeAll")
    BY <1>1 DEF FindSession
  <2> QED BY <2>1, <2>2, GoesOn, Ends
<1>2. CASE RevokeSession(r)
  <2>1. sessions' \in SessionRows
    BY <1>2, Types DEF RevokeSession, SessionRows
  <2>2. RestOK /\ RequestGoes(r, "active")
    BY <1>2, <2>1, Types DEF RevokeSession, RestOK, userVars
  <2> QED BY <2>2, GoesOn
<1>3. CASE RevokeEverySession(r)
  <2>1. RestOK /\ Answer(r)
    BY <1>3, Types DEF RevokeEverySession, RestOK, userVars
  <2> QED BY <2>1, Ends
<1>4. CASE IssueSession(r)
  <2>1. PICK s \in Sessions :
          /\ sessions' = [sessions EXCEPT ![s] = "live"]
          /\ unearned' = IF request[r].barred THEN unearned \cup {s} ELSE unearned
    BY <1>4 DEF IssueSession
  <2>2. ~request[r].barred
    BY <1>4, Types DEF IssueSession, RequestOK
  <2>3. sessions' \in SessionRows /\ unearned' = unearned
    BY <2>1, <2>2, Types DEF SessionRows
  <2>4. RestOK /\ Answer(r)
    BY <1>4, <2>3, Types DEF IssueSession, RestOK, userVars
  <2> QED BY <2>4, Ends
<1> QED BY <1>1, <1>2, <1>3, <1>4

LEMMA GuardSteps ==
  ASSUME AccountInv, NEW r \in Requests,
         GuardStatus(r) \/ LookUpPermissions(r) \/ LoadPermissions(r) \/ StorePermissions(r)
  PROVE  AccountInv'
<1>1. CASE GuardStatus(r) \/ LookUpPermissions(r)
  <2>1. Answer(r) \/ RequestGoes(r, "permissions") \/ RequestGoes(r, "load")
    BY <1>1 DEF GuardStatus, LookUpPermissions
  <2>2. RestOK
    BY <1>1, RestUnchanged DEF GuardStatus, LookUpPermissions
  <2> QED BY <2>1, <2>2, GoesOn, Ends
<1>2. CASE LoadPermissions(r)
  <2> DEFINE q == [request[r] EXCEPT !.at = "store", !.read = role]
  <2>1. request[r] \in Request /\ role \in Role
    BY DEF AccountInv, AccountTypeOK
  <2>2. q \in Request /\ q.at = "store" /\ q.barred = request[r].barred
    BY <2>1 DEF Request
  <2>3. RequestOK(q)
    BY <2>2, Types DEF RequestOK
  <2>4. request' = [request EXCEPT ![r] = q]
    BY <1>2, <2>1 DEF LoadPermissions, Request
  <2>5. RestOK
    BY <1>2, RestUnchanged DEF LoadPermissions
  <2> QED BY <2>2, <2>3, <2>4, <2>5, OneRequest
<1>3. CASE StorePermissions(r)
  <2>1. request[r].read \in Role \cup {NoRole}
    BY Types DEF Request
  <2>2. RestOK /\ Answer(r)
    BY <1>3, <2>1, Types DEF StorePermissions, RestOK, userVars
  <2> QED BY <2>2, Ends
<1> QED BY <1>1, <1>2, <1>3

\* The bot's mint may change the role, and no session of its is counted.
LEMMA MintSteps ==
  ASSUME AccountInv, NEW r \in Requests, UpdateProfile(r) \/ MintSession(r)
  PROVE  AccountInv'
<1>1. CASE UpdateProfile(r)
  <2> DEFINE q == [request[r] EXCEPT !.at = "mint", !.read = NoRole]
  <2>1. request[r] \in Request /\ RequestOK(request[r])
    BY Types
  <2>2. q \in Request /\ q.at = "mint" /\ q.barred = request[r].barred
    BY <2>1 DEF Request
  <2>3. RequestOK(q)
    BY <2>1, <2>2 DEF RequestOK
  <2>4. request' = [request EXCEPT ![r] = q]
    BY <1>1 DEF UpdateProfile
  <2> HIDE DEF q
  <2>5. role' \in Role
    BY <1>1 DEF UpdateProfile, AccountInv, AccountTypeOK, Role
  <2>6. request' \in [Requests -> Request]
    BY <2>2, <2>4 DEF AccountInv, AccountTypeOK
  <2>7. AccountTypeOK'
    BY <1>1, <2>5, <2>6 DEF UpdateProfile, AccountInv, AccountTypeOK
  <2>8. RequestsOK'
    BY <1>1, <2>3, <2>4 DEF UpdateProfile, AccountInv, AccountTypeOK, RequestsOK, RequestOK
  <2> QED BY <1>1, <2>7, <2>8 DEF UpdateProfile, AccountInv, NoSessionForTheBarred
<1>2. CASE MintSession(r)
  <2>1. PICK s \in Sessions : sessions' = [sessions EXCEPT ![s] = "live"]
    BY <1>2 DEF MintSession
  <2>2. sessions' \in SessionRows
    BY <2>1, Types DEF SessionRows
  <2>3. RestOK /\ Answer(r)
    BY <1>2, <2>2, Types DEF MintSession, RestOK, userVars
  <2> QED BY <2>3, Ends
<1> QED BY <1>1, <1>2

\* A request that has seen the account barred goes on having seen it so only
\* while it stays barred.
LEMMA SetStatusStep ==
  ASSUME AccountInv, NEW s \in Status, ChangeUser, SetStatus(s),
         operation' \in {"idle", "invalidate", "ban", "revoke"}
  PROVE  AccountInv'
<1>1. ASSUME NEW r \in Requests
      PROVE  request'[r] \in Request /\ RequestOK(request[r])'
  <2>1. request'[r] = [request[r] EXCEPT !.barred = @ /\ s \in Barred] /\ status' = s
    BY DEF SetStatus
  <2>2. request[r] \in Request /\ RequestOK(request[r])
    BY Types
  <2>3. request'[r] \in Request /\ request'[r].at = request[r].at
        /\ request'[r].token = request[r].token
        /\ request'[r].barred = (request[r].barred /\ s \in Barred)
    BY <2>1, <2>2 DEF Request
  <2> QED BY <2>1, <2>2, <2>3 DEF RequestOK
<1>2. request' \in [Requests -> Request]
  BY <1>1 DEF SetStatus
<1>3. AccountTypeOK'
  BY <1>2, AccountsAssumption DEF AccountInv, AccountTypeOK, ChangeUser, SetStatus
<1> QED BY <1>1, <1>3 DEF AccountInv, RequestsOK, ChangeUser, NoSessionForTheBarred

LEMMA OperationSteps ==
  ASSUME AccountInv,
         \/ \E s \in Status : ChangeStatus(s)
         \/ \E to \in Role : ChangeRole(to)
         \/ SoftDelete \/ InvalidateUserCache \/ RevokeBanned
  PROVE  AccountInv'
<1>1. ASSUME NEW s \in Status, ChangeStatus(s)
      PROVE  AccountInv'
  BY <1>1, SetStatusStep DEF ChangeStatus
<1>2. CASE SoftDelete
  BY <1>2, SetStatusStep DEF SoftDelete, Status
<1>3. ASSUME NEW to \in Role, ChangeRole(to)
      PROVE  AccountInv'
  BY <1>3, AccountsAssumption DEF ChangeRole, ChangeUser, AccountInv, AccountTypeOK, RequestsOK,
     RequestOK, NoSessionForTheBarred
<1>4. CASE InvalidateUserCache
  BY <1>4 DEF InvalidateUserCache, AccountInv, AccountTypeOK, RequestsOK,
     RequestOK, NoSessionForTheBarred
<1>5. CASE RevokeBanned
  BY <1>5, Types DEF RevokeBanned, SessionRows, AccountInv, AccountTypeOK, RequestsOK,
     RequestOK, NoSessionForTheBarred
<1> QED BY <1>1, <1>2, <1>3, <1>4, <1>5

LEMMA OtherSteps ==
  ASSUME AccountInv,
         \/ \E s \in Sessions : ForgetSession(s)
         \/ FailuresExpire \/ PermissionsExpire \/ AppRestarts \/ UNCHANGED accountVars
  PROVE  AccountInv'
<1> USE DEF AccountInv, AccountTypeOK, RequestsOK, RequestOK, NoSessionForTheBarred, userVars
<1>1. ASSUME NEW s \in Sessions, ForgetSession(s)
      PROVE  AccountInv'
  BY <1>1 DEF ForgetSession
<1>2. CASE FailuresExpire
  BY <1>2, AccountsAssumption DEF FailuresExpire
<1>3. CASE PermissionsExpire
  BY <1>3 DEF PermissionsExpire
<1>4. CASE AppRestarts
  BY <1>4, IdleIsOK DEF AppRestarts
<1>5. CASE UNCHANGED accountVars
  BY <1>5 DEF accountVars
<1> QED BY <1>1, <1>2, <1>3, <1>4, <1>5

LEMMA NextAccount == AccountInv /\ [AccountNext]_accountVars => AccountInv'
<1> SUFFICES ASSUME AccountInv, [AccountNext]_accountVars PROVE AccountInv'
  OBVIOUS
<1>1. ASSUME NEW r \in Requests,
             \/ StartLogin(r) \/ StartRefresh(r) \/ StartLogout(r) \/ StartCall(r)
             \/ StartMint(r)
      PROVE  AccountInv'
  <2>0. role \in Role
    BY DEF AccountInv, AccountTypeOK
  <2>1. PICK at \in {"count", "find", "revokeAll", "guard", "profile"},
             token \in Sessions \cup {NoSession}, read \in Role \cup {NoRole} :
          (at = "find" => token \in Sessions) /\ Begin(r, at, token, read)
    BY <1>1, <2>0 DEF StartLogin, StartRefresh, StartLogout, StartCall, StartMint, BeginRequest
  <2> QED BY <2>1, BeginStep
<1>2. ASSUME NEW r \in Requests, RequestSteps(r)
      PROVE  AccountInv'
  BY <1>2, FailureSteps, StatusSteps, SessionSteps, GuardSteps, MintSteps DEF RequestSteps
<1> QED BY <1>1, <1>2, OperationSteps, OtherSteps DEF AccountNext

LEMMA AccountInvariance == AccountSpec => []AccountInv
BY InitAccount, NextAccount, PTL DEF AccountSpec

\* A login or refresh that the account was barred for from its beginning to its
\* end leaves no session behind, whatever else the account's clients and the
\* administrator do meanwhile, and although the bot is issued sessions of a
\* barred account that a refresh may be asked for.
THEOREM BarredGetNoSession == AccountSpec => []NoSessionForTheBarred
<1>1. AccountInv => NoSessionForTheBarred
  BY DEF AccountInv
<1> QED BY <1>1, AccountInvariance, PTL

-----------------------------------------------------------------------------
(* Storefront listings.                                                    *)

\* A change that has begun is of one item.
EditsItems == \A e \in Editors : editor[e].step # "idle" => editor[e].item \in Items
StoreInv == StoreTypeOK /\ EditsItems

LEMMA ListingType ==
  ASSUME NEW rows \in [Items -> StoreRow]
  PROVE  Listing(rows) \in Listings
<1>1. \A i \in Items : rows[i].first \in BOOLEAN
  BY DEF StoreRow
<1> QED BY <1>1 DEF Listing, Listings

LEMMA StoreStart == StoreInit => StoreInv
<1>1. NoStoreRow \in StoreRow /\ IdleEditor \in EditJob
  BY DEF NoStoreRow, StoreRow, IdleEditor, EditJob, EditSteps, Changes
<1> QED BY <1>1, StoreAssumption DEF StoreInit, StoreInv, StoreTypeOK, EditsItems, IdleEditor

\* A step of an editor: it goes on with its item, or has none.
LEMMA EditorGoes ==
  ASSUME StoreInv, NEW e \in Editors, NEW step \in EditSteps,
         editor[e].step # "idle" \/ step = "idle", EditGoes(e, step)
  PROVE  editor' \in [Editors -> EditJob] /\ EditsItems'
<1>1. [editor[e] EXCEPT !.step = step] \in EditJob
  BY DEF StoreInv, StoreTypeOK, EditJob
<1>2. editor' \in [Editors -> EditJob]
  BY <1>1 DEF EditGoes, StoreInv, StoreTypeOK
<1>3. /\ \A d \in Editors : d # e => editor'[d] = editor[d]
      /\ editor'[e].item = editor[e].item /\ editor'[e].step = step
  BY DEF EditGoes, StoreInv, StoreTypeOK, EditJob
<1> QED BY <1>2, <1>3 DEF StoreInv, EditsItems

LEMMA EditorBegins ==
  ASSUME StoreInv, NEW e \in Editors, NEW i \in Items, NEW step \in EditSteps,
         NEW change \in Changes, BeginEdit(e, step, i, change)
  PROVE  StoreInv'
<1>1. [step |-> step, item |-> i, change |-> change] \in EditJob
  BY DEF EditJob
<1>2. editor' \in [Editors -> EditJob]
  BY <1>1 DEF BeginEdit, StoreInv, StoreTypeOK
<1>3. \A d \in Editors : d # e => editor'[d] = editor[d]
  BY DEF BeginEdit, StoreInv, StoreTypeOK
<1>4. editor'[e].item = i
  BY DEF BeginEdit, StoreInv, StoreTypeOK
<1>5. EditsItems'
  BY <1>3, <1>4 DEF StoreInv, EditsItems
<1> QED BY <1>2, <1>5 DEF BeginEdit, StoreInv, StoreTypeOK

LEMMA EditorThrows ==
  ASSUME StoreInv, NEW e \in Editors, editor' = [editor EXCEPT ![e] = IdleEditor]
  PROVE  editor' \in [Editors -> EditJob] /\ EditsItems'
<1>1. IdleEditor \in EditJob /\ IdleEditor.step = "idle"
  BY DEF IdleEditor, EditJob, EditSteps, Changes
<1> QED BY <1>1 DEF StoreInv, StoreTypeOK, EditsItems

LEMMA StoreChanges ==
  ASSUME StoreInv, NEW e \in Editors, NEW i \in Items,
         \/ \E change \in Changes : Create(e, i, change) \/ Update(e, i, change)
         \/ Remove(e, i) \/ SetDefault(e, i)
  PROVE  StoreInv'
<1>1. ASSUME NEW change \in Changes, Create(e, i, change) PROVE StoreInv'
  <2>1. AfterFind(change) \in EditSteps
    BY DEF AfterFind, EditSteps
  <2> QED BY <1>1, <2>1, EditorBegins DEF Create
<1>2. ASSUME NEW change \in Changes, Update(e, i, change) PROVE StoreInv'
  <2>1. "find" \in EditSteps
    BY DEF EditSteps
  <2> QED BY <1>2, <2>1, EditorBegins DEF Update
<1>3. CASE Remove(e, i)
  <2>1. "drop" \in EditSteps /\ IdleEditor.change \in Changes
    BY DEF EditSteps, IdleEditor, Changes
  <2> QED BY <1>3, <2>1, EditorBegins DEF Remove
<1>4. CASE SetDefault(e, i)
  <2>1. "preset" \in EditSteps /\ [shown |-> TRUE, first |-> "yes"] \in Changes
    BY DEF EditSteps, Changes
  <2> QED BY <1>4, <2>1, EditorBegins DEF SetDefault
<1> QED BY <1>1, <1>2, <1>3, <1>4

LEMMA ClearedType ==
  ASSUME StoreInv, NEW i PROVE ClearedFor(i) \in [Items -> StoreRow]
BY DEF StoreInv, StoreTypeOK, ClearedFor, StoreRow

\* Writes of a row.
LEMMA RowWritten ==
  ASSUME StoreInv, NEW e \in Editors, editor[e].step # "idle", NEW new \in StoreRow, Write(e, new)
  PROVE  StoreInv'
<1>1. editor' \in [Editors -> EditJob] /\ EditsItems'
  BY EditorGoes DEF Write, EditSteps
<1>2. row' \in [Items -> StoreRow]
  BY DEF Write, StoreInv, StoreTypeOK
<1>3. edits' \in 0..MaxEdits
  <2>1. edits \in 0..MaxEdits /\ edits < MaxEdits /\ edits' = edits + 1
    BY DEF Write, StoreInv, StoreTypeOK
  <2> QED BY <2>1, StoreAssumption
<1> QED BY <1>1, <1>2, <1>3 DEF Write, StoreInv, StoreTypeOK

LEMMA StoreEdits ==
  ASSUME StoreInv, NEW e \in Editors, EditStep(e) \/ WriteRefused(e) \/ EditLost(e)
  PROVE  StoreInv'
<1>t. Throws(e) => StoreInv'
  BY EditorThrows DEF Throws, StoreInv, StoreTypeOK
<1>1. CASE Preset(e) \/ ClearDefault(e)
  <2>1. EditGoes(e, "find") \/ EditGoes(e, "write")
    BY <1>1 DEF Preset, ClearDefault
  <2>2. editor[e].step # "idle" /\ "find" \in EditSteps /\ "write" \in EditSteps
    BY <1>1 DEF Preset, ClearDefault, EditAt, EditSteps
  <2>3. editor' \in [Editors -> EditJob] /\ EditsItems'
    BY <2>1, <2>2, EditorGoes
  <2> QED BY <1>1, <2>3, ClearedType DEF Preset, ClearDefault, StoreInv, StoreTypeOK
<1>2. CASE FindExisting(e)
  <2>1. editor[e].step # "idle" /\ AfterFind(editor[e].change) \in EditSteps
    BY <1>2 DEF FindExisting, EditAt, AfterFind, EditSteps
  <2>2. CASE Throws(e)
    BY <1>t, <2>2
  <2>3. CASE ~Throws(e)
    <3>1. editor' \in [Editors -> EditJob] /\ EditsItems'
      BY <1>2, <2>1, <2>3, EditorGoes DEF FindExisting
    <3> QED BY <1>2, <2>3, <3>1 DEF FindExisting, StoreInv, StoreTypeOK
  <2> QED BY <2>2, <2>3
<1>3. CASE WriteRow(e)
  <2> DEFINE new == [there |-> TRUE, shown |-> editor[e].change.shown,
                     first |-> IF editor[e].change.first = "kept" THEN row[ItemOf(e)].first
                               ELSE editor[e].change.first = "yes"]
  <2>1. editor[e].step # "idle" /\ editor[e].item \in Items
    BY <1>3 DEF WriteRow, EditAt, StoreInv, EditsItems
  <2>2. editor[e].change.shown \in BOOLEAN /\ row[ItemOf(e)].first \in BOOLEAN
    BY <2>1 DEF ItemOf, StoreInv, StoreTypeOK, EditJob, Changes, StoreRow
  <2>3. new \in StoreRow
    BY <2>2 DEF StoreRow
  <2> QED BY <1>3, <2>1, <2>3, RowWritten DEF WriteRow
<1>4. CASE DropRow(e)
  <2>1. editor[e].step # "idle"
    BY <1>4 DEF DropRow, EditAt
  <2>2. NoStoreRow \in StoreRow /\ [there |-> TRUE, shown |-> FALSE, first |-> FALSE] \in StoreRow
    BY DEF NoStoreRow, StoreRow
  <2> QED BY <1>4, <1>t, <2>1, <2>2, RowWritten DEF DropRow
<1>5. CASE Invalidate(e)
  <2>1. editor' \in [Editors -> EditJob] /\ EditsItems'
    BY <1>5, EditorThrows DEF Invalidate
  <2> QED BY <1>5, <2>1 DEF Invalidate, StoreInv, StoreTypeOK
<1> QED BY <1>t, <1>1, <1>2, <1>3, <1>4, <1>5 DEF EditStep, WriteRefused, EditLost

LEMMA StoreReads ==
  ASSUME StoreInv,
         \/ \E r \in Readers : LoadListing(r) \/ StoreListing(r) \/ ReaderLost(r)
         \/ ShelfExpires \/ UNCHANGED storeVars
  PROVE  StoreInv'
<1>1. UNCHANGED <<ware, row, editor, edits>>
  BY DEF LoadListing, StoreListing, ReaderLost, ShelfExpires, storeVars
<1>2. Listing(row) \in Listings
  BY ListingType DEF StoreInv, StoreTypeOK
<1>3. shelf' \in Listings \cup {NoListing}
  BY DEF LoadListing, StoreListing, ReaderLost, ShelfExpires, storeVars, StoreInv, StoreTypeOK
<1>4. reader' \in [Readers -> Listings \cup {NoListing}]
  BY <1>2 DEF LoadListing, StoreListing, ReaderLost, ShelfExpires, storeVars, StoreInv, StoreTypeOK
<1> QED BY <1>1, <1>3, <1>4 DEF StoreInv, StoreTypeOK, EditsItems

LEMMA StoreKeeps == StoreInv /\ [StoreNext]_storeVars => StoreInv'
BY StoreChanges, StoreEdits, StoreReads DEF StoreNext

\* Listings, rows and the editors' jobs keep their types for any items, editors
\* and readers; an editor that writes is always at an item.
THEOREM StoreTypesKept == StoreSpec => []StoreTypeOK
<1>1. StoreInv => StoreTypeOK
  BY DEF StoreInv
<1> QED BY StoreStart, StoreKeeps, <1>1, PTL DEF StoreSpec

-----------------------------------------------------------------------------
(* Messages about orders, and broadcasts.                                  *)

\* A SENT row says what job payer was told, and the notification about to be
\* recorded as SENT has been delivered.
RecordedIsHeard == \A e \in Events : "SENT" \in rowsOf[e] => e \in heard
SentIsHeard ==
  \A f \in Finishers : (finish[f].at = "record" /\ finish[f].outcome = "SENT")
                         => finish[f].event \in heard

\* BroadcastService sends with the bot that polls.
SendsWithTheBot == sender = bot

\* A broadcast counts every recipient it came to, some of them twice, and one
\* that is COMPLETED came to everyone.
BroadcastCounts ==
  LET sends == Cardinality(broadcast.attempted)
      written == IF broadcast.loop = "progress" THEN 0 ELSE 1
  IN /\ broadcast.sent <= sends /\ broadcast.failed <= sends
     /\ broadcast.loop = "progress" => broadcast.failed + 1 <= sends
     /\ sends <= broadcast.sent + broadcast.failed
CompletedCameToAll == broadcast.status = "COMPLETED" => broadcast.attempted = Recipients
OverIsOver == broadcast.status = "COMPLETED" => broadcast.loop = "none"

MsgInv ==
  /\ MessagingTypeOK /\ RecordedIsHeard /\ SentIsHeard /\ SendsWithTheBot
  /\ BroadcastCounts /\ CompletedCameToAll /\ OverIsOver

-----------------------------------------------------------------------------
FinishRows == [kind : Kinds, at : {"idle", "provision", "notify", "send", "record", "over"},
               event : Events, outcome : {"SENT", "FAILED"}]
Loops == [status : {"NONE", "SCHEDULED", "RUNNING", "COMPLETED"},
          loop : {"none", "begin", "send", "progress", "lost"},
          attempted : SUBSET Recipients,
          sent : 0..Cardinality(Recipients), failed : 0..Cardinality(Recipients)]

LEMMA RecipientCount ==
  /\ Cardinality(Recipients) \in Nat
  /\ \A sends \in SUBSET Recipients :
       /\ IsFiniteSet(sends) /\ Cardinality(sends) \in Nat
       /\ Cardinality(sends) <= Cardinality(Recipients)
       /\ \A u \in Recipients \ sends : Cardinality(sends \cup {u}) = Cardinality(sends) + 1
<1>1. IsFiniteSet(Recipients)
  BY MessagingAssumption
<1>2. ASSUME NEW sends \in SUBSET Recipients
      PROVE  IsFiniteSet(sends) /\ Cardinality(sends) \in Nat
             /\ Cardinality(sends) <= Cardinality(Recipients)
  BY <1>1, FS_Subset, FS_CardinalityType
<1>3. ASSUME NEW sends \in SUBSET Recipients, NEW u \in Recipients \ sends
      PROVE  Cardinality(sends \cup {u}) = Cardinality(sends) + 1
  BY <1>2, <1>3, FS_AddElement
<1> QED BY <1>1, <1>2, <1>3, FS_CardinalityType

LEMMA MessagesStart == MessagingInit => MsgInv
<1> SUFFICES ASSUME MessagingInit PROVE MsgInv
  OBVIOUS
<1>1. /\ finish \in [Finishers -> FinishRows]
      /\ \A f \in Finishers : finish[f].at = "idle"
  <2>1. \A k \in Kinds : FinishIdle(k) \in FinishRows /\ FinishIdle(k).at = "idle"
    BY DEF FinishIdle, FinishRows, Events
  <2> QED BY <2>1 DEF MessagingInit
<1>2. Cardinality({}) = 0
  BY FS_EmptySet
<1>3. Unbegun \in Loops
  BY RecipientCount DEF Unbegun, Loops
<1>4. MessagingTypeOK
  BY <1>1, <1>3, MessagingAssumption DEF MessagingInit, MessagingTypeOK, FinishRows, Loops,
    Transports, Events
<1>5. RecordedIsHeard /\ SentIsHeard /\ SendsWithTheBot
  BY <1>1 DEF MessagingInit, RecordedIsHeard, SentIsHeard, SendsWithTheBot
<1>6. BroadcastCounts /\ CompletedCameToAll /\ OverIsOver
  BY <1>2 DEF MessagingInit, Unbegun, BroadcastCounts, CompletedCameToAll, OverIsOver
<1> QED BY <1>4, <1>5, <1>6 DEF MsgInv

-----------------------------------------------------------------------------
\* The broadcast's part of the invariant.
BroadcastOK ==
  broadcast \in Loops /\ BroadcastCounts /\ CompletedCameToAll /\ OverIsOver
\* The part of the message about the order.
FinishOK ==
  /\ finish \in [Finishers -> FinishRows] /\ rowsOf \in [Events -> SUBSET {"SENT", "FAILED"}]
  /\ heard \subseteq Events /\ RecordedIsHeard /\ SentIsHeard
BotOK ==
  /\ direct \in BOOLEAN /\ bot \in Transports /\ sender \in Transports
  /\ crashes \in 0..MaxCrashes /\ SendsWithTheBot

LEMMA MsgParts == MsgInv <=> BroadcastOK /\ FinishOK /\ BotOK
BY DEF MsgInv, MessagingTypeOK, BroadcastOK, FinishOK, BotOK, Loops, FinishRows
LEMMA MsgWhole == BroadcastOK' /\ FinishOK' /\ BotOK' => MsgInv'
BY DEF MsgInv, MessagingTypeOK, BroadcastOK, FinishOK, BotOK, Loops, FinishRows

LEMMA BroadcastRest == BroadcastOK /\ UNCHANGED broadcast => BroadcastOK'
BY DEF BroadcastOK, BroadcastCounts, CompletedCameToAll, OverIsOver, Loops
LEMMA FinishRest == FinishOK /\ UNCHANGED <<finish, rowsOf, heard>> => FinishOK'
BY DEF FinishOK, RecordedIsHeard, SentIsHeard, FinishRows
LEMMA BotRest == BotOK /\ UNCHANGED <<direct, bot, sender, crashes>> => BotOK'
BY DEF BotOK, SendsWithTheBot

-----------------------------------------------------------------------------
\* A step of a finishSettlement call, which has not just been told of a send
\* that nobody heard.
LEMMA FinishGoes ==
  ASSUME FinishOK, NEW f \in Finishers, NEW job \in FinishRows,
         (job.at = "record" /\ job.outcome = "SENT") => job.event \in heard',
         heard' \subseteq Events, heard \subseteq heard',
         finish' = [finish EXCEPT ![f] = job], UNCHANGED rowsOf
  PROVE  FinishOK'
<1>1. finish' \in [Finishers -> FinishRows]
  BY DEF FinishOK
<1>2. finish'[f] = job /\ \A g \in Finishers : g # f => finish'[g] = finish[g]
  BY DEF FinishOK
<1>3. SentIsHeard'
  BY <1>2 DEF FinishOK, SentIsHeard
<1>4. RecordedIsHeard'
  BY DEF FinishOK, RecordedIsHeard
<1> QED BY <1>1, <1>3, <1>4 DEF FinishOK

LEMMA RestIsRow ==
  ASSUME FinishOK, NEW f \in Finishers
  PROVE  Rested(f) \in FinishRows /\ Rested(f).at # "record"
<1>1. finish[f].kind \in Kinds
  BY DEF FinishOK, FinishRows
<1> QED BY <1>1 DEF Rested, FinishIdle, FinishRows, Events

LEMMA FinishRests ==
  ASSUME FinishOK, NEW f \in Finishers, Rests(f), UNCHANGED <<rowsOf, heard>>
  PROVE  FinishOK'
<1> DEFINE job == Rested(f)
<1>1. job \in FinishRows /\ job.at # "record"
  BY RestIsRow
<1>2. finish' = [finish EXCEPT ![f] = job]
  BY DEF Rests
<1>3. heard' \subseteq Events /\ heard \subseteq heard'
  BY DEF FinishOK
<1> HIDE DEF job
<1> QED BY <1>1, <1>2, <1>3, FinishGoes

LEMMA FinishSteps ==
  ASSUME FinishOK, NEW f \in Finishers, FinishStep(f)
  PROVE  FinishOK'
<1>0. /\ finish[f] \in FinishRows /\ finish[f].event \in Events
      /\ heard \subseteq Events /\ f \in DOMAIN finish
  BY DEF FinishOK, FinishRows
<1>1. CASE StartFinish(f)
  <2> DEFINE job == [finish[f] EXCEPT !.at = "provision"]
  <2>0. finish' = [finish EXCEPT ![f] = job]
    BY <1>1 DEF StartFinish
  <2>1. job \in FinishRows /\ job.at = "provision"
    BY <1>0 DEF FinishRows
  <2>2. heard' = heard /\ rowsOf' = rowsOf /\ heard \subseteq Events
    BY <1>1 DEF StartFinish, FinishOK
  <2> HIDE DEF job
  <2> QED BY <1>0, <2>0, <2>1, <2>2, FinishGoes
<1>2. ASSUME NEW event \in Events, Chooses(f, event), UNCHANGED <<rowsOf, heard>>
      PROVE  FinishOK'
  <2> DEFINE job == [finish[f] EXCEPT !.at = "notify", !.event = event]
  <2>0. finish' = [finish EXCEPT ![f] = job] \/ Rests(f)
    BY <1>2 DEF Chooses
  <2>1. job \in FinishRows /\ job.at = "notify"
    BY <1>0 DEF FinishRows
  <2>2. heard' = heard /\ rowsOf' = rowsOf /\ heard \subseteq Events
    BY <1>2 DEF FinishOK
  <2> HIDE DEF job
  <2> QED BY <1>0, <1>2, <2>0, <2>1, <2>2, FinishGoes, FinishRests
<1>3. CASE Provisioned(f) \/ ProvisionFails(f)
  BY <1>2, <1>3 DEF Provisioned, ProvisionFails, Events
<1>4. CASE NotifySettlement(f)
  <2> DEFINE at == IF AlreadySent(f) THEN "idle" ELSE "send"
             job == [finish[f] EXCEPT !.at = at]
  <2>0. finish' = [finish EXCEPT ![f] = job]
    BY <1>4 DEF NotifySettlement
  <2>1. job \in FinishRows /\ job.at # "record"
    BY <1>0 DEF FinishRows
  <2>2. heard' = heard /\ rowsOf' = rowsOf /\ heard \subseteq Events
    BY <1>4 DEF NotifySettlement, FinishOK
  <2> HIDE DEF job
  <2> QED BY <1>0, <2>0, <2>1, <2>2, FinishGoes
<1>5. CASE SendOk(f)
  <2> DEFINE job == [finish[f] EXCEPT !.at = "record", !.outcome = "SENT"]
  <2>0. finish' = [finish EXCEPT ![f] = job]
    BY <1>5 DEF SendOk, Outcome
  <2>1. job \in FinishRows /\ job.event = finish[f].event
    BY <1>0 DEF FinishRows
  <2>2. heard' = heard \cup {finish[f].event} /\ rowsOf' = rowsOf /\ heard \subseteq Events
    BY <1>5 DEF SendOk, FinishOK
  <2> HIDE DEF job
  <2> QED BY <1>0, <2>0, <2>1, <2>2, FinishGoes
<1>6. CASE SendFails(f)
  <2> DEFINE job == [finish[f] EXCEPT !.at = "record", !.outcome = "FAILED"]
  <2>0. finish' = [finish EXCEPT ![f] = job]
    BY <1>6 DEF SendFails, Outcome
  <2>1. job \in FinishRows /\ job.outcome = "FAILED"
    BY <1>0 DEF FinishRows
  <2>2. heard' \in {heard, heard \cup {finish[f].event}}
        /\ rowsOf' = rowsOf /\ heard \subseteq Events
    BY <1>6 DEF SendFails, FinishOK
  <2> HIDE DEF job
  <2> QED BY <1>0, <2>0, <2>1, <2>2, FinishGoes
<1>7. CASE RecordNotification(f)
  <2> DEFINE event == finish[f].event
             outcome == finish[f].outcome
  <2>0. event \in Events /\ outcome \in {"SENT", "FAILED"}
    BY <1>0 DEF FinishRows
  <2>1. outcome = "SENT" => event \in heard
    BY <1>7 DEF RecordNotification, FinishOK, SentIsHeard
  <2>2. Rested(f) \in FinishRows /\ Rested(f).at # "record"
    BY RestIsRow
  <2>3. /\ finish' = [finish EXCEPT ![f] = Rested(f)] /\ heard' = heard
        /\ rowsOf' = [rowsOf EXCEPT ![event] = @ \cup {outcome}]
    BY <1>7 DEF RecordNotification, Rests
  <2> HIDE DEF event, outcome
  <2>4. finish' \in [Finishers -> FinishRows] /\ SentIsHeard'
    BY <2>2, <2>3 DEF FinishOK, SentIsHeard
  <2>5. rowsOf' \in [Events -> SUBSET {"SENT", "FAILED"}]
    BY <2>0, <2>1, <2>3 DEF FinishOK
  <2>6. RecordedIsHeard'
    BY <2>0, <2>1, <2>3 DEF FinishOK, RecordedIsHeard
  <2> QED BY <2>3, <2>4, <2>5, <2>6 DEF FinishOK
<1> QED BY <1>1, <1>3, <1>4, <1>5, <1>6, <1>7 DEF FinishStep

-----------------------------------------------------------------------------
LEMMA BroadcastBegins ==
  ASSUME BroadcastOK, CreateAndEnqueue \/ ProcessBroadcast
  PROVE  BroadcastOK'
<1>1. CASE CreateAndEnqueue
  <2>1. Cardinality({}) = 0
    BY FS_EmptySet
  <2>2. /\ broadcast'.attempted = {} /\ broadcast'.sent = 0
        /\ broadcast'.failed = 0 /\ broadcast'.loop = "begin" /\ broadcast'.status = "SCHEDULED"
    BY <1>1 DEF CreateAndEnqueue, Unbegun
  <2>3. broadcast' = [status |-> "SCHEDULED", loop |-> "begin", attempted |-> {}, sent |-> 0,
                      failed |-> 0]
    BY <1>1 DEF CreateAndEnqueue, Unbegun
  <2>4. 0 \in 0..Cardinality(Recipients)
    BY RecipientCount
  <2>5. broadcast' \in Loops
    BY <2>3, <2>4 DEF Loops
  <2> QED BY <2>1, <2>2, <2>5 DEF BroadcastOK, BroadcastCounts, CompletedCameToAll, OverIsOver
<1>2. CASE ProcessBroadcast
  <2>1. /\ broadcast' \in Loops /\ broadcast'.attempted = broadcast.attempted
        /\ broadcast'.sent = broadcast.sent /\ broadcast'.failed = broadcast.failed
        /\ broadcast'.loop = "send" /\ broadcast'.status = "RUNNING"
    BY <1>2 DEF ProcessBroadcast, BroadcastOK, Loops
  <2>2. broadcast.loop = "begin"
    BY <1>2 DEF ProcessBroadcast
  <2> QED BY <2>1, <2>2 DEF BroadcastOK, BroadcastCounts, CompletedCameToAll, OverIsOver
<1> QED BY <1>1, <1>2

LEMMA BroadcastSends ==
  ASSUME BroadcastOK, NEW u \in Recipients, BroadcastSent(u) \/ BroadcastFails(u)
  PROVE  BroadcastOK'
<1>1. /\ broadcast.loop = "send" /\ broadcast.attempted \subseteq Recipients
      /\ u \in Recipients \ broadcast.attempted /\ broadcast.status # "COMPLETED"
      /\ broadcast.sent \in Nat /\ broadcast.failed \in Nat
  BY DEF BroadcastSent, BroadcastFails, BroadcastOK, Loops, OverIsOver
<1> DEFINE sends == Cardinality(broadcast.attempted)
           all == Cardinality(Recipients)
<1>2. /\ all \in Nat /\ sends \in Nat /\ sends + 1 <= all
      /\ broadcast.attempted \cup {u} \in SUBSET Recipients
      /\ Cardinality(broadcast.attempted \cup {u}) = sends + 1
  BY <1>1, RecipientCount
<1>3. /\ broadcast.sent <= sends /\ broadcast.failed <= sends
      /\ sends <= broadcast.sent + broadcast.failed
  BY <1>1 DEF BroadcastOK, BroadcastCounts
<1> HIDE DEF sends, all
<1>4. /\ broadcast'.attempted = broadcast.attempted \cup {u}
      /\ broadcast'.status = broadcast.status /\ broadcast'.loop \in {"send", "progress"}
      /\ \/ broadcast'.sent = broadcast.sent + 1 /\ broadcast'.failed = broadcast.failed
         \/ /\ broadcast'.sent = broadcast.sent /\ broadcast'.failed = broadcast.failed + 1
            /\ broadcast'.loop = "send"
  BY <1>1 DEF BroadcastSent, BroadcastFails, BroadcastOK, Loops
<1>5. broadcast'.sent \in 0..all /\ broadcast'.failed \in 0..all
  BY <1>1, <1>2, <1>3, <1>4
<1>6. broadcast' \in Loops
  <2>1. \E loop \in {"send", "progress"}, sent, failed \in 0..all :
          broadcast' = [broadcast EXCEPT !.attempted = broadcast.attempted \cup {u},
                          !.sent = sent, !.failed = failed, !.loop = loop]
    <3>1. CASE BroadcastSent(u)
      <4> DEFINE l == IF (broadcast.sent + 1) % ProgressEvery = 0 THEN "progress" ELSE "send"
      <4>1. broadcast' = [broadcast EXCEPT !.attempted = broadcast.attempted \cup {u},
                          !.sent = broadcast.sent + 1, !.failed = broadcast.failed, !.loop = l]
        BY <3>1 DEF BroadcastSent, BroadcastOK, Loops
      <4>2. l \in {"send", "progress"}
        OBVIOUS
      <4>3. broadcast.sent + 1 \in 0..all /\ broadcast.failed \in 0..all
        BY <1>1, <1>2, <1>3
      <4> QED BY <4>1, <4>2, <4>3
    <3>2. CASE BroadcastFails(u)
      <4>0. broadcast \in Loops /\ broadcast.loop = "send"
        BY <1>1 DEF BroadcastOK
      <4>a. broadcast' = [broadcast EXCEPT !.attempted = broadcast.attempted \cup {u},
                          !.failed = broadcast.failed + 1]
        BY <3>2 DEF BroadcastFails
      <4>1. broadcast' = [broadcast EXCEPT !.attempted = broadcast.attempted \cup {u},
                          !.sent = broadcast.sent, !.failed = broadcast.failed + 1, !.loop = "send"]
        BY <4>0, <4>a DEF Loops
      <4>3. broadcast.failed + 1 \in 0..all /\ broadcast.sent \in 0..all
        BY <1>1, <1>2, <1>3
      <4> QED BY <4>1, <4>3
    <3> QED BY <3>1, <3>2
  <2> QED BY <1>2, <2>1 DEF BroadcastOK, Loops, all
<1>7. BroadcastCounts'
  <2>1. Cardinality(broadcast'.attempted) = sends + 1
    BY <1>2, <1>4
  <2>2. /\ broadcast'.sent <= sends + 1 /\ broadcast'.failed <= sends + 1
        /\ broadcast'.loop = "progress" => broadcast'.failed + 1 <= sends + 1
        /\ sends + 1 <= broadcast'.sent + broadcast'.failed
    BY <1>1, <1>2, <1>3, <1>4
  <2> QED BY <2>1, <2>2 DEF BroadcastCounts
<1> QED BY <1>1, <1>4, <1>6, <1>7 DEF BroadcastOK, CompletedCameToAll, OverIsOver

LEMMA BroadcastEnds ==
  ASSUME BroadcastOK, WriteProgress \/ CompleteBroadcast \/ BroadcastWriteFails
  PROVE  BroadcastOK'
<1> DEFINE sends == Cardinality(broadcast.attempted)
<1>0. /\ sends \in Nat /\ sends <= Cardinality(Recipients) /\ Cardinality(Recipients) \in Nat
      /\ broadcast.sent \in Nat /\ broadcast.failed \in Nat
  BY RecipientCount DEF BroadcastOK, Loops
<1> HIDE DEF sends
<1>1. CASE WriteProgress
  <2>1. PICK failed \in {0, 1} :
          broadcast' = [broadcast EXCEPT !.loop = "send", !.failed = broadcast.failed + failed]
    BY <1>1 DEF WriteProgress, BroadcastOK, Loops
  <2>2. /\ broadcast.loop = "progress" /\ broadcast.failed + 1 <= sends
        /\ broadcast.sent <= sends /\ sends <= broadcast.sent + broadcast.failed
    BY <1>1 DEF WriteProgress, BroadcastOK, BroadcastCounts, sends
  <2>3. broadcast.failed + failed \in 0..Cardinality(Recipients)
    BY <1>0, <2>2
  <2>4. broadcast' \in Loops
    BY <2>1, <2>3 DEF BroadcastOK, Loops
  <2>5. /\ broadcast'.attempted = broadcast.attempted /\ broadcast'.sent = broadcast.sent
        /\ broadcast'.failed = broadcast.failed + failed /\ broadcast'.loop = "send"
        /\ broadcast'.status = broadcast.status
    BY <2>1 DEF BroadcastOK, Loops
  <2>6. /\ broadcast'.failed <= sends /\ broadcast'.sent <= sends
        /\ sends <= broadcast'.sent + broadcast'.failed
    BY <1>0, <2>2, <2>5
  <2>7. BroadcastCounts'
    BY <2>5, <2>6 DEF BroadcastCounts, sends
  <2>8. broadcast'.status # "COMPLETED"
    BY <2>2, <2>5 DEF BroadcastOK, OverIsOver
  <2> QED BY <2>4, <2>7, <2>8 DEF BroadcastOK, CompletedCameToAll, OverIsOver
<1>2. CASE CompleteBroadcast
  <2>1. /\ broadcast' \in Loops /\ broadcast'.attempted = broadcast.attempted
        /\ broadcast'.sent = broadcast.sent /\ broadcast'.failed = broadcast.failed
        /\ broadcast'.loop = "none" /\ broadcast.attempted = Recipients /\ broadcast.loop = "send"
    BY <1>2 DEF CompleteBroadcast, BroadcastOK, Loops
  <2> QED BY <2>1 DEF BroadcastOK, BroadcastCounts, CompletedCameToAll, OverIsOver
<1>3. CASE BroadcastWriteFails
  <2>1. /\ broadcast' \in Loops /\ broadcast'.attempted = broadcast.attempted
        /\ broadcast'.sent = broadcast.sent /\ broadcast'.failed = broadcast.failed
        /\ broadcast'.loop = "lost" /\ broadcast'.status = broadcast.status
        /\ broadcast.loop \in {"begin", "send"}
    BY <1>3 DEF BroadcastWriteFails, BroadcastOK, Loops
  <2> QED BY <2>1 DEF BroadcastOK, BroadcastCounts, CompletedCameToAll, OverIsOver
<1> QED BY <1>1, <1>2, <1>3

LEMMA BotSteps ==
  ASSUME MsgInv, BotStep
  PROVE  MsgInv'
<1>p. BroadcastOK /\ FinishOK /\ BotOK
  BY MsgParts
<1>1. CASE InitBot \/ EnsureBotConnectivity
  <2>1. BotOK'
    BY <1>1, <1>p DEF InitBot, EnsureBotConnectivity, BotOK, SendsWithTheBot, Transports
  <2>2. UNCHANGED <<broadcast, finish, rowsOf, heard>>
    BY <1>1 DEF InitBot, EnsureBotConnectivity
  <2> QED BY <1>p, <2>1, <2>2, BroadcastRest, FinishRest, MsgWhole
<1>2. CASE CrashMessaging
  <2>1. BotOK'
    BY <1>2, <1>p, MessagingAssumption DEF CrashMessaging, BotOK, SendsWithTheBot, Transports
  <2>2. \A f \in Finishers : Rested(f) \in FinishRows /\ Rested(f).at # "record"
    BY <1>p, RestIsRow
  <2>3. FinishOK'
    BY <1>2, <1>p, <2>2 DEF CrashMessaging, FinishOK, SentIsHeard, RecordedIsHeard
  <2>4. CASE broadcast.loop = "none"
    BY <1>2, <1>p, <2>1, <2>3, <2>4, BroadcastRest, MsgWhole DEF CrashMessaging
  <2>5. CASE broadcast.loop # "none"
    <3>1. /\ broadcast' \in Loops /\ broadcast'.attempted = broadcast.attempted
          /\ broadcast'.sent = broadcast.sent /\ broadcast'.failed = broadcast.failed
          /\ broadcast'.loop = "lost" /\ broadcast'.status = broadcast.status
      BY <1>2, <1>p, <2>5 DEF CrashMessaging, BroadcastOK, Loops
    <3>2. BroadcastOK'
      BY <1>p, <2>5, <3>1 DEF BroadcastOK, BroadcastCounts, CompletedCameToAll, OverIsOver
    <3> QED BY <2>1, <2>3, <3>2, MsgWhole
  <2> QED BY <2>4, <2>5
<1> QED BY <1>1, <1>2 DEF BotStep

LEMMA MessagesKeep == MsgInv /\ [MessagingNext]_messagingVars => MsgInv'
<1> SUFFICES ASSUME MsgInv, [MessagingNext]_messagingVars PROVE MsgInv'
  OBVIOUS
<1>p. BroadcastOK /\ FinishOK /\ BotOK
  BY MsgParts
<1>1. CASE BroadcastStep
  <2>1. BroadcastOK'
    <3>1. CASE CreateAndEnqueue \/ ProcessBroadcast
      BY <1>p, <3>1, BroadcastBegins
    <3>2. CASE \E u \in Recipients : BroadcastSent(u) \/ BroadcastFails(u)
      BY <1>p, <3>2, BroadcastSends
    <3>3. CASE WriteProgress \/ CompleteBroadcast \/ BroadcastWriteFails
      BY <1>p, <3>3, BroadcastEnds
    <3> QED BY <1>1, <3>1, <3>2, <3>3 DEF BroadcastStep
  <2>2. UNCHANGED <<direct, bot, sender, crashes, finish, rowsOf, heard>>
    BY <1>1 DEF BroadcastStep, CreateAndEnqueue, ProcessBroadcast, WriteProgress,
       CompleteBroadcast, BroadcastWriteFails, BroadcastSent, BroadcastFails
  <2> QED BY <1>p, <2>1, <2>2, BotRest, FinishRest, MsgWhole
<1>2. ASSUME NEW f \in Finishers, FinishStep(f) PROVE MsgInv'
  <2>1. FinishOK'
    BY <1>2, <1>p, FinishSteps
  <2>2. UNCHANGED <<direct, bot, sender, crashes, broadcast>>
    BY <1>2 DEF FinishStep, StartFinish, Provisioned, ProvisionFails, NotifySettlement, SendOk,
       SendFails, RecordNotification
  <2> QED BY <1>p, <2>1, <2>2, BotRest, BroadcastRest, MsgWhole
<1>3. CASE UNCHANGED messagingVars
  BY <1>3, <1>p, BotRest, BroadcastRest, FinishRest, MsgWhole DEF messagingVars
<1> QED BY <1>1, <1>2, <1>3, BotSteps DEF MessagingNext

LEMMA MessagesInvariance == MessagingSpec => []MsgInv
BY MessagesStart, MessagesKeep, PTL DEF MessagingSpec

\* A notification row that says SENT never claims what the payer did not get,
\* whichever finishSettlement calls overlap, sends fail or the process crashes;
\* and both senders use the bot instance that TelegramBotService last shared.
THEOREM SentMeansHeard == MessagingSpec => [](RecordedIsHeard /\ SendsWithTheBot)
<1>1. MsgInv => RecordedIsHeard /\ SendsWithTheBot
  BY DEF MsgInv
<1> QED BY <1>1, MessagesInvariance, PTL

\* A broadcast recorded as COMPLETED was sent to every recipient, and its two
\* counts leave out none of those it was sent to, although a failed progress
\* write counts a recipient twice.
THEOREM CompletedBroadcastsAreComplete ==
  MessagingSpec => [](CompletedCameToAll /\ BroadcastCounts)
<1>1. MsgInv => CompletedCameToAll /\ BroadcastCounts
  BY DEF MsgInv
<1> QED BY <1>1, MessagesInvariance, PTL

-----------------------------------------------------------------------------
(* The three together.                                                     *)

DeliveryInv == StoreInv /\ AccountInv /\ MsgInv

LEMMA DeliveryStart == DeliveryInit => DeliveryInv
BY StoreStart, InitAccount, MessagesStart DEF DeliveryInit, DeliveryInv

LEMMA DeliveryKeeps == DeliveryInv /\ [DeliveryNext]_deliveryVars => DeliveryInv'
<1> SUFFICES ASSUME DeliveryInv, [DeliveryNext]_deliveryVars PROVE DeliveryInv'
  OBVIOUS
<1>1. [StoreNext]_storeVars
  BY DEF DeliveryNext, ChooseStore, ChooseAccounts, ChooseMessages, deliveryVars
<1>2. [AccountNext]_accountVars
  BY DEF DeliveryNext, ChooseStore, ChooseAccounts, ChooseMessages, deliveryVars
<1>3. [MessagingNext]_messagingVars
  BY DEF DeliveryNext, ChooseStore, ChooseAccounts, ChooseMessages, deliveryVars, MessagingNext
<1> QED BY <1>1, <1>2, <1>3, StoreKeeps, NextAccount, MessagesKeep DEF DeliveryInv

\* The three components side by side keep the types of their rows and of what
\* their callers know.
THEOREM DeliveryTypesKept == DeliverySpec => []DeliveryTypeOK
<1>1. DeliveryInv => DeliveryTypeOK
  BY DEF DeliveryInv, DeliveryTypeOK, StoreInv, AccountInv, MsgInv
<1> QED BY DeliveryStart, DeliveryKeeps, <1>1, PTL DEF DeliverySpec
=============================================================================
