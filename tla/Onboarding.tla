----------------------------- MODULE Onboarding -----------------------------
(***************************************************************************)
(* How a person who writes to the bot gets an account. With an invitation  *)
(* link Telegram sends "/start <code>"; mandatoryJoinGuard may stop the    *)
(* update until the person has joined the channels, and a new user chooses *)
(* a language before TelegramBotService.ensureUser creates the account.    *)
(* The account keeps the inviter it was created with: what happened to the *)
(* code on the way decides whether anyone is rewarded (SignupReferrals).   *)
(* The second word of any other text is taken for a code as well, by the   *)
(* guard and by ensureUser.                                                *)
(*                                                                         *)
(* The updates of this chat are handled one after the other. ensureUser    *)
(* reads the session, awaits mintForTelegramUser and writes what it read   *)
(* back; the mint may throw after it created the account, as when the      *)
(* reward cannot be delivered. Administrators, who are not stopped, are    *)
(* left out, and so is the conversational state, which nothing here reads. *)
(***************************************************************************)
EXTENDS Naturals

VARIABLES
  visitor,   \* the session in Redis
  stored,    \* it is there: written, and not expired
  account,   \* users: "none", or whether it has the inviter of the link
  required,  \* setting: the mandatory join is enabled and has channels
  joined,    \* external: the person is a member of the channels
  minting,   \* volatile: the word ensureUser works with, and its session
  came,      \* history: how the code reached the bot before the account
  reworded   \* history: another word took its place

onboardingVars == <<visitor, stored, account, required, joined, minting, came, reworded>>

\* The second word of a text: none, the empty one between two spaces, the code
\* of the link, or any other. Only words that are not empty are put aside.
Words == {"none", "blank", "code", "other"}
Visitor == [user : BOOLEAN, pending : Words \ {"blank"}]
NewVisitor == [user |-> FALSE, pending |-> "none"]
NotMinting == [step |-> "none", word |-> "none", read |-> NewVisitor, shows |-> FALSE]
Mintings == [step : {"none", "mint", "write"}, word : Words, read : Visitor, shows : BOOLEAN]

OnboardingTypeOK ==
  /\ visitor \in Visitor /\ stored \in BOOLEAN
  /\ account \in {"none", "alone", "invited"}
  /\ required \in BOOLEAN /\ joined \in BOOLEAN
  /\ minting \in Mintings
  /\ came \in {"no", "start", "guard"} /\ reworded \in BOOLEAN

OnboardingInit ==
  /\ visitor = NewVisitor /\ stored = FALSE
  /\ account = "none"
  /\ required \in BOOLEAN /\ joined \in BOOLEAN
  /\ minting = NotMinting
  /\ came = "no" /\ reworded = FALSE

\* getSession: without a stored session the account is looked up.
SessionWith(users) == IF stored THEN visitor ELSE [NewVisitor EXCEPT !.user = (users # "none")]
Session == SessionWith(account)

Stopped == required /\ ~joined
Waiting == minting.step = "none"
Keeps(session) == visitor' = session /\ stored' = TRUE
Outside == UNCHANGED <<account, required, joined>>
Story == <<came, reworded>>

-----------------------------------------------------------------------------
\* ensureUser: the update's own second word, even an empty one, comes before
\* the word put aside; onText catches what it throws and shows the menu.
EnsureUser(own, shows) ==
  minting' = IF Session.user THEN minting
             ELSE [step |-> "mint", word |-> IF own # "none" THEN own ELSE Session.pending,
                   read |-> Session, shows |-> shows]

\* Mutant: clearState before the language is asked.
OnStartAfresh ==
  /\ Keeps(IF Session.user THEN Session ELSE NewVisitor)
  /\ UNCHANGED minting

(* A new user is asked for the language, any other is shown the menu. The   *)
(* code of the update is not kept; setState leaves what a guard put aside. *)
OnStart == Keeps(Session) /\ UNCHANGED minting

(* The guard keeps the second word of whatever it stops.                   *)
MandatoryJoinGuard(word) ==
  /\ UNCHANGED minting
  /\ IF word \in {"none", "blank"} THEN UNCHANGED <<visitor, stored>>
     ELSE Keeps([Session EXCEPT !.pending = word])
  /\ IF account # "none" THEN UNCHANGED Story
     ELSE /\ came' = IF word = "code" THEN "guard" ELSE came
          /\ reworded' = IF word \in {"none", "blank"} THEN reworded ELSE word # "code"

Start(word) ==
  /\ Waiting /\ Outside
  /\ \/ Stopped /\ MandatoryJoinGuard(word)
     \/ /\ ~Stopped /\ OnStart /\ UNCHANGED reworded
        /\ came' = IF word = "code" /\ account = "none" /\ came = "no" THEN "start" ELSE came

(* Any other text. A new user who is not stopped is asked for the language *)
(* again, but a command that onText does not know creates the account.     *)
Says(word) ==
  /\ Waiting /\ Outside
  /\ \/ Stopped /\ MandatoryJoinGuard(word)
     \/ /\ ~Stopped /\ ~Session.user /\ EnsureUser(word, TRUE)
        /\ UNCHANGED <<visitor, stored, came, reworded>>

OnJoinCheck ==
  /\ Waiting /\ Outside /\ UNCHANGED Story
  /\ joined /\ OnStart

\* The flow stores the locale first; a button has no text.
OnLanguageSelect ==
  /\ Waiting /\ ~Stopped /\ Outside /\ UNCHANGED Story
  /\ Keeps(Session) /\ EnsureUser("none", FALSE)

\* A button behind wrap.
Wrapped ==
  /\ Waiting /\ ~Stopped /\ ~Session.user /\ Outside /\ UNCHANGED Story
  /\ EnsureUser("none", FALSE)
  /\ UNCHANGED <<visitor, stored>>

\* /menu, which keeps the data, and /cancel.
OnMenu ==
  /\ Waiting /\ ~Stopped /\ Outside /\ Keeps(Session) /\ UNCHANGED <<minting, came, reworded>>

Cancels ==
  /\ Waiting /\ ~Stopped /\ Outside /\ UNCHANGED <<minting, reworded>>
  /\ Keeps([NewVisitor EXCEPT !.user = Session.user])
  /\ came' = "no"

-----------------------------------------------------------------------------
\* The update ends; after an error only onText goes on, to the menu.
Throws ==
  /\ minting' = NotMinting
  /\ IF minting.shows THEN Keeps(SessionWith(account')) ELSE UNCHANGED <<visitor, stored>>

\* The inviter is looked up for a new account only.
MintUser ==
  /\ minting.step = "mint"
  /\ account' = IF account # "none" THEN account
                ELSE IF minting.word = "code" THEN "invited" ELSE "alone"
  /\ reworded' = (reworded \/ (account = "none" /\ minting.word # minting.read.pending))
  /\ \/ minting' = [minting EXCEPT !.step = "write"] /\ UNCHANGED <<visitor, stored>>
     \/ Throws
  /\ UNCHANGED <<required, joined, came>>

\* Nothing was created: the database or the mint of tokens failed.
MintFails ==
  /\ minting.step = "mint" /\ UNCHANGED <<account, required, joined, came, reworded>>
  /\ Throws

WriteUser ==
  /\ minting.step = "write"
  /\ Keeps([user |-> TRUE, pending |-> "none"])
  /\ minting' = NotMinting
  /\ UNCHANGED <<account, required, joined, came, reworded>>

\* The process stops; the update is not delivered again.
OnboardingLost ==
  /\ minting.step # "none" /\ minting' = NotMinting
  /\ UNCHANGED <<visitor, stored, account, required, joined, came, reworded>>

VisitorExpires ==
  /\ Waiting /\ stored /\ stored' = FALSE /\ visitor' = NewVisitor
  /\ came' = "no"
  /\ UNCHANGED <<account, required, joined, minting, reworded>>

JoinsChannels ==
  /\ ~joined /\ joined' = TRUE
  /\ UNCHANGED <<visitor, stored, account, required, minting, came, reworded>>

ToggleMandatoryJoin ==
  /\ required' = ~required
  /\ UNCHANGED <<visitor, stored, account, joined, minting, came, reworded>>

OnboardingNext ==
  \/ \E word \in Words : Start(word) \/ Says(word)
  \/ OnJoinCheck \/ OnLanguageSelect \/ Wrapped \/ OnMenu \/ Cancels
  \/ MintUser \/ MintFails \/ WriteUser \/ OnboardingLost
  \/ VisitorExpires \/ JoinsChannels \/ ToggleMandatoryJoin

OnboardingSpec == OnboardingInit /\ [][OnboardingNext]_onboardingVars

-----------------------------------------------------------------------------
(* A code the guard put aside outlives the wait for the channels, the      *)
(* choice of a language, menus, failed attempts and whatever else the      *)
(* person taps: the account is created with its inviter, unless the        *)
(* session expired, the person cancelled, or wrote a text whose second     *)
(* word took the code's place.                                             *)
GuardedInvitationIsKept ==
  came = "guard" /\ ~reworded /\ account # "none" => account = "invited"

(* "Preserves a pending referral payload across onboarding state changes", *)
(* bot-runtime.spec.ts says. Any stopped text of two words replaces it,    *)
(* and a command of two words is taken before it. No configuration checks  *)
(* this; the README records it.                                            *)
WordsDoNotReplaceIt ==
  came = "guard" /\ account # "none" => account = "invited"

(* The code of an invitation link reaches the account it leads to:         *)
(* "Extract Telegram /start payload (deep-link)", ensureUser says. But for *)
(* a new user it runs on the tap that chooses the language, which carries  *)
(* no payload, and onStart kept none.                                      *)
InvitationIsKept ==
  came # "no" /\ account # "none" => account = "invited"
=============================================================================
