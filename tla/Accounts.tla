------------------------------- MODULE Accounts -------------------------------
(***************************************************************************)
(* One account and its sessions: login, refresh, logout, the bot's mint    *)
(* and the permission lookup of auth.service.ts, the guard of              *)
(* jwt-auth.guard.ts and the administrator's operations of                 *)
(* users.service.ts.                                                       *)
(*                                                                         *)
(* Every await is a step of its own.  The rows are read and written by     *)
(* single statements without a transaction; the permission list and the    *)
(* counter of failed logins are in Redis.                                  *)
(***************************************************************************)
EXTENDS Naturals

CONSTANTS
  Requests,      \* requests of the account's clients that may run at once
  Sessions,      \* bound: rows of UserSession
  LoginLimit,    \* logins without success before they are refused (5)
  MaxOperations, \* bound: operations of the administrator
  NoSession,     \* the request carries no refresh token
  NoRole         \* nothing is cached

ASSUME AccountsAssumption ==
  /\ LoginLimit \in Nat \ {0}
  /\ MaxOperations \in Nat
  /\ NoSession \notin Sessions

VARIABLES
  status,     \* User.status
  role,       \* User.role
  sessions,   \* UserSession.revokedAt of each row
  unearned,   \* sessions issued by a login or refresh that only ever saw the account barred
  request,    \* what each request is doing
  failures,   \* auth:brute: how many, and whether the key has a time to live
  cached,     \* auth:perms: the role whose permissions are cached
  operation,  \* the administrator's operation
  operations  \* how many there were

accountVars == <<status, role, sessions, unearned, request, failures, cached, operation, operations>>
userVars == <<status, role, operation, operations>>

Status == {"ACTIVE", "SUSPENDED", "BANNED", "DELETED"}
Barred == {"BANNED", "DELETED"}
Role == {"USER", "ADMIN"}   \* ADMIN: every role above USER's
Request == [at : {"idle", "count", "expire", "password", "status", "clear", "find", "revoke",
                  "active", "revokeAll", "issue", "guard", "permissions", "load", "store",
                  "profile", "mint"},
            token : Sessions \cup {NoSession},
            barred : BOOLEAN,
            read : Role \cup {NoRole}]
IdleRequest == [at |-> "idle", token |-> NoSession, barred |-> FALSE, read |-> NoRole]

AccountTypeOK ==
  /\ status \in Status /\ role \in Role
  /\ sessions \in [Sessions -> {"none", "live", "revoked"}]
  /\ unearned \subseteq Sessions
  /\ request \in [Requests -> Request]
  /\ failures \in [count : 0..LoginLimit, expires : BOOLEAN]
  /\ cached \in Role \cup {NoRole}
  /\ operation \in {"idle", "invalidate", "ban", "revoke"}
  /\ operations \in 0..MaxOperations

(* register: the account is created ACTIVE, with a session.                *)
AccountInit ==
  /\ status = "ACTIVE" /\ role = "USER"
  /\ \E s \in Sessions : sessions = [t \in Sessions |-> IF t = s THEN "live" ELSE "none"]
  /\ unearned = {}
  /\ request = [r \in Requests |-> IdleRequest]
  /\ failures = [count |-> 0, expires |-> FALSE]
  /\ cached = NoRole
  /\ operation = "idle" /\ operations = 0

-----------------------------------------------------------------------------
RequestGoes(r, at) == request' = [request EXCEPT ![r].at = at]
Answer(r) == request' = [request EXCEPT ![r] = IdleRequest]

Begin(r, at, token, read) ==
  /\ request[r] = IdleRequest
  /\ request' = [request EXCEPT ![r] = [at |-> at, token |-> token, read |-> read,
                                      barred |-> status \in Barred]]
  /\ UNCHANGED <<userVars, sessions, unearned, failures, cached>>
BeginRequest(r, at, token) == Begin(r, at, token, NoRole)

StartLogin(r) == BeginRequest(r, "count", NoSession)
StartRefresh(r) == \E s \in Sessions : sessions[s] # "none" /\ BeginRequest(r, "find", s)
StartLogout(r) == BeginRequest(r, "revokeAll", NoSession)
StartCall(r) == BeginRequest(r, "guard", NoSession)
StartMint(r) == Begin(r, "profile", NoSession, role)

(* A login that is counted but never refused.                              *)
CountPastLimit(r) ==
  /\ request[r].at = "count"
  /\ failures' = [failures EXCEPT !.count = @ + 1]
  /\ RequestGoes(r, IF failures'.count = 1 THEN "expire" ELSE "password")
  /\ UNCHANGED <<userVars, sessions, unearned, cached>>

(* redis.incr, and redis.expire by the first one; above the limit the      *)
(* request is refused before the account is read, and the counter, which   *)
(* goes on in the code, stays where it is.                                 *)
CountLogin(r) ==
  /\ request[r].at = "count"
  /\ failures.count < LoginLimit
  /\ failures' = [failures EXCEPT !.count = @ + 1]
  /\ RequestGoes(r, IF failures'.count = 1 THEN "expire" ELSE "password")
  /\ UNCHANGED <<userVars, sessions, unearned, cached>>
LimitLogin(r) ==
  /\ request[r].at = "count"
  /\ failures.count >= LoginLimit
  /\ Answer(r)
  /\ UNCHANGED <<userVars, sessions, unearned, failures, cached>>
ExpireFailures(r) ==
  /\ request[r].at = "expire"
  /\ failures' = [failures EXCEPT !.expires = failures.count > 0]
  /\ RequestGoes(r, "password")
  /\ UNCHANGED <<userVars, sessions, unearned, cached>>
FailuresExpire ==
  /\ failures.expires
  /\ failures' = [count |-> 0, expires |-> FALSE]
  /\ UNCHANGED <<userVars, sessions, unearned, request, cached>>

(* The row is read once: the status that is looked at after the password   *)
(* has been compared is the one read before it.                            *)
ReadUser(r) ==
  /\ request[r].at = "password"
  /\ IF status \in Barred THEN Answer(r) ELSE RequestGoes(r, "status")
  /\ UNCHANGED <<userVars, sessions, unearned, failures, cached>>
ComparePassword(r) ==
  /\ request[r].at = "status"
  /\ RequestGoes(r, "clear") \/ Answer(r)
  /\ UNCHANGED <<userVars, sessions, unearned, failures, cached>>
ClearFailures(r) ==
  /\ request[r].at = "clear"
  /\ failures' = [count |-> 0, expires |-> FALSE]
  /\ RequestGoes(r, "issue")
  /\ UNCHANGED <<userVars, sessions, unearned, cached>>

(* refresh looks for the row that is not revoked; a token without one has  *)
(* been used before, and then every session is revoked.  A row that has    *)
(* expired ends the request.                                               *)
FindSession(r) ==
  /\ request[r].at = "find"
  /\ \/ RequestGoes(r, IF sessions[request[r].token] = "live" THEN "revoke" ELSE "revokeAll")
     \/ sessions[request[r].token] = "live" /\ Answer(r)
  /\ UNCHANGED <<userVars, sessions, unearned, failures, cached>>
RevokeSession(r) ==
  /\ request[r].at = "revoke"
  /\ sessions' = [sessions EXCEPT ![request[r].token] = "revoked"]
  /\ RequestGoes(r, "active")
  /\ UNCHANGED <<userVars, unearned, failures, cached>>

(* A refresh that trusts the session and does not look at the account.     *)
TrustSession(r) ==
  /\ request[r].at = "active"
  /\ RequestGoes(r, "issue")
  /\ UNCHANGED <<userVars, sessions, unearned, failures, cached>>

CheckActive(r) ==
  /\ request[r].at = "active"
  /\ IF status = "ACTIVE" THEN RequestGoes(r, "issue") ELSE Answer(r)
  /\ UNCHANGED <<userVars, sessions, unearned, failures, cached>>

RevokeAll == [s \in Sessions |-> IF sessions[s] = "live" THEN "revoked" ELSE sessions[s]]
RevokeEverySession(r) ==
  /\ request[r].at = "revokeAll"
  /\ sessions' = RevokeAll
  /\ Answer(r)
  /\ UNCHANGED <<userVars, unearned, failures, cached>>

IssueSession(r) ==
  /\ request[r].at = "issue"
  /\ \E s \in Sessions :
       /\ sessions[s] = "none"
       /\ sessions' = [sessions EXCEPT ![s] = "live"]
       /\ unearned' = IF request[r].barred THEN unearned \cup {s} ELSE unearned
  /\ Answer(r)
  /\ UNCHANGED <<userVars, failures, cached>>

(* mintForTelegramUser, for an account that is there: the bot asks for it  *)
(* whenever its chat session holds no user.  It reads the row, writes the  *)
(* profile, with it the role of a USER whom TELEGRAM_ADMIN_IDS names, and  *)
(* issues the session without a look at the status.                        *)
UpdateProfile(r) ==
  /\ request[r].at = "profile"
  /\ role' \in IF request[r].read = "USER" THEN {role, "ADMIN"} ELSE {role}
  /\ request' = [request EXCEPT ![r] = [@ EXCEPT !.at = "mint", !.read = NoRole]]
  /\ UNCHANGED <<status, operation, operations, sessions, unearned, failures, cached>>
MintSession(r) ==
  /\ request[r].at = "mint"
  /\ \E s \in Sessions :
       /\ sessions[s] = "none"
       /\ sessions' = [sessions EXCEPT ![s] = "live"]
  /\ Answer(r)
  /\ UNCHANGED <<userVars, unearned, failures, cached>>

(* A revoked row is of no more use: the bound on the rows is kept by       *)
(* letting the one that no request holds be used again.                    *)
ForgetSession(s) ==
  /\ sessions[s] = "revoked" /\ s \notin unearned
  /\ \A r \in Requests : request[r].token # s
  /\ sessions' = [sessions EXCEPT ![s] = "none"]
  /\ UNCHANGED <<userVars, unearned, request, failures, cached>>

(* The guard reads the status in every call, the permissions at most every *)
(* five minutes: redis.cached reads the key, the table, and writes the key.*)
GuardStatus(r) ==
  /\ request[r].at = "guard"
  /\ IF status = "ACTIVE" THEN RequestGoes(r, "permissions") ELSE Answer(r)
  /\ UNCHANGED <<userVars, sessions, unearned, failures, cached>>
LookUpPermissions(r) ==
  /\ request[r].at = "permissions"
  /\ IF cached = NoRole THEN RequestGoes(r, "load") ELSE Answer(r)
  /\ UNCHANGED <<userVars, sessions, unearned, failures, cached>>
LoadPermissions(r) ==
  /\ request[r].at = "load"
  /\ request' = [request EXCEPT ![r] = [@ EXCEPT !.at = "store", !.read = role]]
  /\ UNCHANGED <<userVars, sessions, unearned, failures, cached>>
StorePermissions(r) ==
  /\ request[r].at = "store"
  /\ cached' = request[r].read
  /\ Answer(r)
  /\ UNCHANGED <<userVars, sessions, unearned, failures>>

(* A list that is kept until somebody invalidates it.                      *)
PermissionsStay ==
  /\ FALSE
  /\ UNCHANGED accountVars

PermissionsExpire ==
  /\ cached # NoRole
  /\ cached' = NoRole
  /\ UNCHANGED <<userVars, sessions, unearned, request, failures>>

(* changeStatus and softDelete: the row, the cached permissions, and after *)
(* a change to BANNED or DELETED (not after softDelete) the sessions.      *)
ChangeUser ==
  /\ operation = "idle" /\ operations < MaxOperations
  /\ operations' = operations + 1
  /\ UNCHANGED <<sessions, unearned, failures, cached>>
SetStatus(s) ==
  /\ status' = s /\ UNCHANGED role
  /\ request' = [r \in Requests |-> [request[r] EXCEPT !.barred = @ /\ s \in Barred]]
ChangeStatus(s) ==
  /\ ChangeUser /\ SetStatus(s)
  /\ operation' = IF s \in Barred THEN "ban" ELSE "invalidate"
SoftDelete ==
  /\ ChangeUser /\ SetStatus("DELETED")
  /\ operation' = "invalidate"
ChangeRole(to) ==
  /\ ChangeUser
  /\ role' = to /\ UNCHANGED <<status, request>>
  /\ operation' = "invalidate"
InvalidateUserCache ==
  /\ operation \in {"invalidate", "ban"}
  /\ cached' = NoRole
  /\ operation' = IF operation = "ban" THEN "revoke" ELSE "idle"
  /\ UNCHANGED <<status, role, sessions, unearned, request, failures, operations>>
RevokeBanned ==
  /\ operation = "revoke"
  /\ sessions' = RevokeAll /\ operation' = "idle"
  /\ UNCHANGED <<status, role, unearned, request, failures, cached, operations>>

(* The process restarts: what it was doing is gone, Redis and rows stay.   *)
AppRestarts ==
  /\ request' = [r \in Requests |-> IdleRequest] /\ operation' = "idle"
  /\ UNCHANGED <<status, role, operations, sessions, unearned, failures, cached>>

RequestSteps(r) ==
  \/ CountLogin(r) \/ LimitLogin(r) \/ ExpireFailures(r) \/ ReadUser(r) \/ ComparePassword(r)
  \/ ClearFailures(r) \/ FindSession(r) \/ RevokeSession(r) \/ CheckActive(r)
  \/ RevokeEverySession(r) \/ IssueSession(r) \/ GuardStatus(r) \/ LookUpPermissions(r)
  \/ LoadPermissions(r) \/ StorePermissions(r)
  \/ UpdateProfile(r) \/ MintSession(r)

AccountNext ==
  \/ \E r \in Requests :
       \/ StartLogin(r) \/ StartRefresh(r) \/ StartLogout(r) \/ StartCall(r) \/ StartMint(r)
       \/ RequestSteps(r)
  \/ \E s \in Sessions : ForgetSession(s)
  \/ \E s \in Status : ChangeStatus(s)
  \/ \E to \in Role : ChangeRole(to)
  \/ SoftDelete \/ InvalidateUserCache \/ RevokeBanned
  \/ FailuresExpire \/ PermissionsExpire \/ AppRestarts

(* A request that runs comes to its end, and Redis drops what is out of    *)
(* its time to live.                                                       *)
AccountFairness ==
  /\ WF_accountVars(PermissionsExpire)
  /\ \A r \in Requests : WF_accountVars(RequestSteps(r))

AccountSpec == AccountInit /\ [][AccountNext]_accountVars /\ AccountFairness

-----------------------------------------------------------------------------
(* A login or a refresh that found the account barred whenever it could    *)
(* have looked never ends with a session: a deleted account keeps its live *)
(* sessions, a ban revokes them only after it is visible, and the bot may  *)
(* have been issued one since, so only the check between revoking and      *)
(* issuing stands in the way.                                              *)
NoSessionForTheBarred == unearned = {}

(* The same of the bot, which does not hold: a banned or deleted account   *)
(* that writes to it is issued a session.  No configuration checks it; the *)
(* README records it.                                                      *)
NoSessionIsMintedForTheBarred ==
  [][\A r \in Requests : MintSession(r) => ~request[r].barred]_accountVars

(* Once the administrator is done, the permissions that are cached are     *)
(* those of the account's role: a request that read the old role may cache *)
(* it after the invalidation, and only the time to live removes it then.   *)
PermissionsCatchUp == <>[](cached \in {NoRole, role})
=============================================================================
