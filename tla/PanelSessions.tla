---------------------------- MODULE PanelSessions ----------------------------
(***************************************************************************)
(* The session the application holds with a 3x-ui panel: request,          *)
(* ensureSession, login and captureCookies of xui-panel.client.ts.         *)
(*                                                                         *)
(* The calls of one process share one cached session object, and hold it   *)
(* over their awaits.  A panel that restarts forgets the cookies it gave   *)
(* out; it may give a new one with any answer.  To a cookie it does not    *)
(* know it answers 401 or 403, or the 404s and HTML pages that login warns *)
(* of, which request does not take for a refusal.                          *)
(***************************************************************************)
EXTENDS Naturals, FiniteSets

CONSTANTS
  Exchanges,    \* requests that may be in flight at once
  Logins,       \* bound: session objects that login creates
  MaxRestarts,  \* bound: restarts of the panel
  NoLogin       \* no session object

ASSUME SessionsAssumption == MaxRestarts \in Nat /\ NoLogin \notin Logins

VARIABLES
  cache,     \* sessions.get(panel.id)
  cookie,    \* cookie of each session object: the panel's life it dates from,
             \* or one the panel gave to a visitor who is not logged in
  aged,      \* objects older than an hour
  exchange,  \* what each request is doing
  restarts   \* the panel's life

sessionVars == <<cache, cookie, aged, exchange, restarts>>

Life == 0..MaxRestarts
NoCookie == MaxRestarts + 1
Anonymous == MaxRestarts + 2
Exchange == [at : {"idle", "send", "reply", "login", "denied"},
             method : {"GET", "POST"},
             attempt : 1..2,
             login : Logins \cup {NoLogin},
             since : Life,                                 \* the panel's life when the retry began
             answer : {"none", "ok", "denied", "hidden"},  \* what the panel decided
             cookie : Life \cup {NoCookie, Anonymous}]     \* the cookie that came with it
Quiet == [at |-> "idle", method |-> "GET", attempt |-> 1, login |-> NoLogin,
          since |-> 0, answer |-> "none", cookie |-> NoCookie]
Unused == {l \in Logins : l # cache /\ \A c \in Exchanges : exchange[c].login # l}

SessionTypeOK ==
  /\ cache \in Logins \cup {NoLogin}
  /\ cookie \in [Logins -> Life \cup {Anonymous}]
  /\ aged \subseteq Logins
  /\ exchange \in [Exchanges -> Exchange]
  /\ restarts \in Life

SessionInit ==
  /\ cache = NoLogin /\ cookie = [l \in Logins |-> 0] /\ aged = {}
  /\ exchange = [c \in Exchanges |-> Quiet]
  /\ restarts = 0

-----------------------------------------------------------------------------
(* ensureSession: the cached session, unless there is none or it is older  *)
(* than an hour; then the request logs in.                                 *)
StartRequest(c, method) ==
  /\ exchange[c].at = "idle"
  /\ exchange' = [exchange EXCEPT ![c] =
       IF cache # NoLogin /\ cache \notin aged
       THEN [Quiet EXCEPT !.at = "send", !.method = method, !.login = cache]
       ELSE [Quiet EXCEPT !.at = "login", !.method = method]]
  /\ UNCHANGED <<cache, cookie, aged, restarts>>

(* login: the CSRF token, then the cookie of /login alone.  Either request *)
(* may fail, and the exchange with it.                                     *)
Login(c) ==
  /\ exchange[c].at = "login"
  /\ \E l \in Unused :
       /\ cookie' = [cookie EXCEPT ![l] = restarts]
       /\ aged' = aged \ {l}
       /\ cache' = l
       /\ exchange' = [exchange EXCEPT ![c] = [@ EXCEPT !.at = "send", !.login = l]]
  /\ UNCHANGED restarts
LoginFails(c) ==
  /\ exchange[c].at = "login"
  /\ exchange' = [exchange EXCEPT ![c] = Quiet]
  /\ UNCHANGED <<cache, cookie, aged, restarts>>

(* The panel decides by the cookie the object holds when it is sent, and   *)
(* answers later; an answer that is ok may carry a new cookie, and the     *)
(* page for a visitor an anonymous one.                                    *)
Replies(c, answer, new) ==
  exchange' = [exchange EXCEPT ![c] =
                [@ EXCEPT !.at = "reply", !.answer = answer, !.cookie = new]]
PanelAnswers(c) ==
  /\ exchange[c].at = "send"
  /\ IF cookie[exchange[c].login] = restarts
     THEN \E new \in {NoCookie, restarts} : Replies(c, "ok", new)
     ELSE \/ Replies(c, "denied", NoCookie)
          \/ \E new \in {NoCookie, Anonymous} : Replies(c, "hidden", new)
  /\ UNCHANGED <<cache, cookie, aged, restarts>>
RequestLost(c) ==
  /\ exchange[c].at \in {"send", "reply"}
  /\ exchange' = [exchange EXCEPT ![c] = Quiet]
  /\ UNCHANGED <<cache, cookie, aged, restarts>>

(* captureCookies: the answer's cookie goes into the object the request    *)
(* holds and the object back into the cache, whichever is there by now. A  *)
(* page is no JSON: the call fails, but its cookie is captured as well.    *)
CaptureCookies(c) ==
  /\ exchange[c].at = "reply" /\ exchange[c].answer \in {"ok", "hidden"}
  /\ IF exchange[c].cookie = NoCookie THEN UNCHANGED <<cache, cookie>>
     ELSE /\ cookie' = [cookie EXCEPT ![exchange[c].login] = exchange[c].cookie]
          /\ cache' = exchange[c].login
  /\ exchange' = [exchange EXCEPT ![c] = IF exchange[c].answer = "ok" THEN Quiet
                                         ELSE [@ EXCEPT !.at = "denied"]]
  /\ UNCHANGED <<aged, restarts>>

Retried(c) == exchange[c].method = "GET" /\ exchange[c].attempt = 1

(* A retry that keeps the cached session.                                  *)
RetryWithCache(c) ==
  /\ exchange[c].at = "reply" /\ exchange[c].answer = "denied" /\ Retried(c)
  /\ cache # NoLogin
  /\ exchange' = [exchange EXCEPT ![c] = [Quiet EXCEPT !.at = "send", !.attempt = 2,
                                                      !.login = cache, !.since = restarts]]
  /\ UNCHANGED <<cache, cookie, aged, restarts>>

(* The first 401 of a GET drops the panel's session, whichever is cached,  *)
(* and the loop comes to ensureSession before anything else runs.          *)
RetryAfterDenial(c) ==
  /\ exchange[c].at = "reply" /\ exchange[c].answer = "denied" /\ Retried(c)
  /\ cache' = NoLogin
  /\ exchange' = [exchange EXCEPT ![c] = [Quiet EXCEPT !.at = "login", !.attempt = 2,
                                                      !.since = restarts]]
  /\ UNCHANGED <<cookie, aged, restarts>>

Denied(c) ==
  /\ exchange[c].at = "reply" /\ exchange[c].answer = "denied" /\ ~Retried(c)
  /\ exchange' = [exchange EXCEPT ![c].at = "denied"]
  /\ UNCHANGED <<cache, cookie, aged, restarts>>
Throw(c) ==
  /\ exchange[c].at = "denied"
  /\ exchange' = [exchange EXCEPT ![c] = Quiet]
  /\ UNCHANGED <<cache, cookie, aged, restarts>>

PanelRestarts ==
  /\ restarts < MaxRestarts
  /\ restarts' = restarts + 1
  /\ UNCHANGED <<cache, cookie, aged, exchange>>
HourPasses ==
  /\ aged # Logins
  /\ aged' = Logins
  /\ UNCHANGED <<cache, cookie, exchange, restarts>>

SessionNext ==
  \/ PanelRestarts \/ HourPasses
  \/ \E c \in Exchanges :
       \/ \E method \in {"GET", "POST"} : StartRequest(c, method)
       \/ Login(c) \/ LoginFails(c) \/ PanelAnswers(c) \/ RequestLost(c)
       \/ CaptureCookies(c) \/ RetryAfterDenial(c) \/ Denied(c) \/ Throw(c)

SessionSpec == SessionInit /\ [][SessionNext]_sessionVars

-----------------------------------------------------------------------------
(* A read that is refused with a 401 or 403 is refused for good only when *)
(* the panel restarted again after that, whatever the other requests did   *)
(* to the session they share meanwhile: one of them may drop the new       *)
(* session, put an old object back into the cache, or an anonymous cookie  *)
(* into the object.                                                        *)
ReadsSurviveARestart ==
  \A c \in Exchanges :
    exchange[c].at = "denied" /\ exchange[c].method = "GET" =>
      IF exchange[c].attempt = 1 THEN exchange[c].answer = "hidden"
                                 ELSE exchange[c].since < restarts

(* Not every refusal gets a second attempt: "invalidate session and retry  *)
(* once" leaves a read that the panel answers with a 404 or a page to fail *)
(* and the session in the cache, for an hour at most, to fail the next     *)
(* ones.  No configuration checks this; the README records it.             *)
RefusalsAreRetried ==
  \A c \in Exchanges :
    exchange[c].at = "denied" /\ exchange[c].method = "GET" => exchange[c].attempt = 2
=============================================================================
