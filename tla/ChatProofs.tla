----------------------------- MODULE ChatProofs -----------------------------
(***************************************************************************)
(* Proofs about the chats of the bot: a first visit, a customer's          *)
(* dialogues and an administrator's wizards, in any sequence of updates,   *)
(* failures, restarts and expiries of the session.                         *)
(***************************************************************************)
EXTENDS Onboarding, CustomerDialogues, AdminWizards, TLAPS

-----------------------------------------------------------------------------
(* A first visit: a code the join guard put aside reaches the account, in any *)
(* sequence of updates, failed mints, restarts and changes of the setting. *)

\* A session knows the user only when there is an account, as does a mint
\* that is over.
Known ==
  /\ stored /\ visitor.user => account # "none"
  /\ minting.step = "write" => account # "none"

\* Until the account is there, the code is in the session that is stored and
\* in the one that the mint that runs has read.
PutAside ==
  came = "guard" /\ ~reworded /\ account = "none" =>
    /\ stored /\ visitor.pending = "code"
    /\ minting.step = "mint" => minting.read.pending = "code"

OnboardingInv == OnboardingTypeOK /\ Known /\ PutAside /\ GuardedInvitationIsKept

-----------------------------------------------------------------------------
LEMMA SessionType ==
  ASSUME OnboardingTypeOK
  PROVE  Session \in Visitor
BY DEF OnboardingTypeOK, Session, SessionWith, Visitor, NewVisitor, Words

LEMMA NotMintingType == NewVisitor \in Visitor /\ NotMinting \in Mintings
BY DEF NotMinting, Mintings, NewVisitor, Visitor, Words

LEMMA InitOnboarding == OnboardingInit => OnboardingInv
<1> SUFFICES ASSUME OnboardingInit PROVE OnboardingInv
  OBVIOUS
<1>1. OnboardingTypeOK
  BY NotMintingType DEF OnboardingInit, OnboardingTypeOK
<1>2. Known /\ PutAside /\ GuardedInvitationIsKept
  BY DEF OnboardingInit, Known, PutAside, GuardedInvitationIsKept, NotMinting, NewVisitor
<1> QED BY <1>1, <1>2 DEF OnboardingInv

\* Writing back the session as it is read changes nothing that matters, and
\* ensureUser starts a mint that has read the session.
LEMMA SessionStep ==
  ASSUME OnboardingInv, Waiting, NEW own \in Words, NEW shows \in BOOLEAN,
         Keeps(Session) \/ UNCHANGED <<visitor, stored>>,
         UNCHANGED minting \/ EnsureUser(own, shows),
         came' = came \/ came' = "start", UNCHANGED <<account, required, joined, reworded>>
  PROVE  OnboardingInv'
<1>1. Session \in Visitor
  BY SessionType DEF OnboardingInv
<1>2. visitor' \in Visitor /\ stored' \in BOOLEAN /\ (stored' /\ visitor'.user => account # "none")
  <2>1. Session.user => account # "none"
    BY DEF Session, SessionWith, OnboardingInv, Known, NewVisitor
  <2>2. CASE Keeps(Session)
    BY <1>1, <2>1, <2>2 DEF Keeps
  <2>3. CASE UNCHANGED <<visitor, stored>>
    BY <2>3 DEF OnboardingInv, OnboardingTypeOK, Known
  <2> QED BY <2>2, <2>3
<1>3. stored => stored' /\ visitor' = visitor
  BY DEF Keeps, Session, SessionWith
<1>4. minting' \in Mintings /\ minting'.step # "write"
      /\ (stored /\ minting'.step = "mint" => minting'.read = visitor)
  <2>1. CASE UNCHANGED minting
    BY <2>1 DEF Waiting, OnboardingInv, OnboardingTypeOK
  <2>2. CASE EnsureUser(own, shows) /\ ~Session.user
    <3> DEFINE word == IF own # "none" THEN own ELSE Session.pending
    <3>1. word \in Words
      BY <1>1 DEF Visitor
    <3>2. minting' = [step |-> "mint", word |-> word, read |-> Session, shows |-> shows]
      BY <2>2 DEF EnsureUser
    <3> HIDE DEF word
    <3> QED BY <1>1, <3>1, <3>2 DEF Mintings, Session, SessionWith
  <2>3. CASE EnsureUser(own, shows) /\ Session.user
    BY <2>3 DEF EnsureUser, Waiting, OnboardingInv, OnboardingTypeOK
  <2> QED BY <2>1, <2>2, <2>3
<1>5. came' \in {"no", "start", "guard"}
  BY DEF OnboardingInv, OnboardingTypeOK
<1>6. OnboardingTypeOK'
  BY <1>2, <1>4, <1>5 DEF OnboardingInv, OnboardingTypeOK
<1>7. Known'
  BY <1>2, <1>4 DEF Known
<1>8. PutAside' /\ GuardedInvitationIsKept'
  BY <1>3, <1>4 DEF OnboardingInv, PutAside, GuardedInvitationIsKept
<1> QED BY <1>6, <1>7, <1>8 DEF OnboardingInv

\* The code that the guard stores is the one it stands for from now on.
LEMMA GuardStep ==
  ASSUME OnboardingInv, Waiting, NEW word \in Words, MandatoryJoinGuard(word),
         UNCHANGED <<account, required, joined>>
  PROVE  OnboardingInv'
<1>1. Session \in Visitor
  BY SessionType DEF OnboardingInv
<1>2. UNCHANGED minting /\ minting.step = "none"
  BY DEF MandatoryJoinGuard, Waiting
<1>3. CASE word \in {"none", "blank"}
  <2>1. UNCHANGED onboardingVars
    BY <1>2, <1>3 DEF MandatoryJoinGuard, Story, onboardingVars
  <2> QED BY <2>1 DEF onboardingVars, OnboardingInv, OnboardingTypeOK, Known, PutAside,
                      GuardedInvitationIsKept
<1>4. CASE word \notin {"none", "blank"}
  <2>1. /\ visitor' = [Session EXCEPT !.pending = word] /\ stored' = TRUE
        /\ IF account # "none" THEN UNCHANGED Story
           ELSE came' = (IF word = "code" THEN "guard" ELSE came) /\ reworded' = (word # "code")
    BY <1>4 DEF MandatoryJoinGuard, Keeps
  <2>2. visitor' \in Visitor /\ visitor'.pending = word /\ visitor'.user = Session.user
    BY <1>1, <1>4, <2>1 DEF Visitor
  <2>3. visitor'.user => account # "none"
    BY <2>2 DEF Session, SessionWith, NewVisitor, OnboardingInv, Known
  <2>4. OnboardingTypeOK'
    BY <1>2, <2>1, <2>2 DEF OnboardingInv, OnboardingTypeOK, Story
  <2>5. Known'
    BY <1>2, <2>3 DEF Known
  <2>6. PutAside' /\ GuardedInvitationIsKept'
    BY <1>2, <2>1, <2>2 DEF OnboardingInv, PutAside, GuardedInvitationIsKept, Story
  <2> QED BY <2>4, <2>5, <2>6 DEF OnboardingInv
<1> QED BY <1>3, <1>4

LEMMA TextStep ==
  ASSUME OnboardingInv, NEW word \in Words, Start(word) \/ Says(word)
  PROVE  OnboardingInv'
<1>1. Waiting /\ UNCHANGED <<account, required, joined>>
  BY DEF Start, Says, Outside
<1>2. CASE MandatoryJoinGuard(word)
  BY <1>1, <1>2, GuardStep
<1>3. CASE ~MandatoryJoinGuard(word)
  <2>1. \/ /\ OnStart /\ UNCHANGED reworded /\ (came' = came \/ came' = "start")
        \/ EnsureUser(word, TRUE) /\ UNCHANGED <<visitor, stored, came, reworded>>
    BY <1>3 DEF Start, Says
  <2> QED BY <1>1, <2>1, SessionStep DEF OnStart
<1> QED BY <1>2, <1>3

LEMMA ButtonStep ==
  ASSUME OnboardingInv, OnJoinCheck \/ OnLanguageSelect \/ Wrapped \/ OnMenu
  PROVE  OnboardingInv'
<1>1. "none" \in Words
  BY DEF Words
<1>2. Waiting /\ UNCHANGED <<account, required, joined, came, reworded>>
  BY DEF OnJoinCheck, OnLanguageSelect, Wrapped, OnMenu, Outside, Story
<1>3. /\ Keeps(Session) \/ UNCHANGED <<visitor, stored>>
      /\ UNCHANGED minting \/ EnsureUser("none", FALSE)
  BY DEF OnJoinCheck, OnLanguageSelect, Wrapped, OnMenu, OnStart
<1> QED BY <1>1, <1>2, <1>3, SessionStep

\* A handler that ends after an error, with the accounts there are by then.
LEMMA ThrowsEffect ==
  ASSUME OnboardingInv, Throws, account' \in {"none", "alone", "invited"},
         account # "none" => account' # "none"
  PROVE  /\ minting' \in Mintings /\ minting'.step = "none"
         /\ visitor' \in Visitor /\ stored' \in BOOLEAN
         /\ stored' /\ visitor'.user => account' # "none"
         /\ stored => stored' /\ visitor' = visitor
<1>1. minting' = NotMinting /\ minting'.step = "none" /\ minting' \in Mintings
  BY NotMintingType DEF Throws, NotMinting
<1>2. visitor \in Visitor /\ stored \in BOOLEAN
  BY DEF OnboardingInv, OnboardingTypeOK
<1>3. SessionWith(account') \in Visitor
      /\ (SessionWith(account').user => account' # "none")
      /\ (stored => SessionWith(account') = visitor)
  BY <1>2 DEF SessionWith, NewVisitor, Visitor, Words, OnboardingInv, Known
<1>4. \/ UNCHANGED <<visitor, stored>>
      \/ visitor' = SessionWith(account') /\ stored' = TRUE
  BY DEF Throws, Keeps
<1>5. CASE UNCHANGED <<visitor, stored>>
  BY <1>1, <1>2, <1>5 DEF OnboardingInv, Known
<1>6. CASE visitor' = SessionWith(account') /\ stored' = TRUE
  BY <1>1, <1>3, <1>6
<1> QED BY <1>4, <1>5, <1>6

LEMMA MintUserStep ==
  ASSUME OnboardingInv, MintUser
  PROVE  OnboardingInv'
<1>1. /\ minting \in Mintings /\ minting.step = "mint"
      /\ UNCHANGED <<required, joined, came>>
      /\ account' = IF account # "none" THEN account
                    ELSE IF minting.word = "code" THEN "invited" ELSE "alone"
      /\ reworded' = (reworded \/ (account = "none" /\ minting.word # minting.read.pending))
  BY DEF MintUser, OnboardingInv, OnboardingTypeOK
<1>2. account' \in {"alone", "invited"}
  BY <1>1 DEF OnboardingInv, OnboardingTypeOK
<1>3. /\ minting' \in Mintings /\ visitor' \in Visitor /\ stored' \in BOOLEAN
  <2>1. CASE Throws
    BY <1>2, <2>1, ThrowsEffect
  <2>2. CASE minting' = [minting EXCEPT !.step = "write"] /\ UNCHANGED <<visitor, stored>>
    <3>1. minting' \in Mintings
      <4>1. \A r \in Mintings : [r EXCEPT !.step = "write"] \in Mintings
        BY DEF Mintings
      <4> QED BY <1>1, <2>2, <4>1
    <3> QED BY <2>2, <3>1 DEF OnboardingInv, OnboardingTypeOK
  <2> QED BY <2>1, <2>2 DEF MintUser
<1>4. OnboardingTypeOK'
  BY <1>1, <1>2, <1>3 DEF OnboardingInv, OnboardingTypeOK
<1>5. Known' /\ PutAside'
  BY <1>2 DEF Known, PutAside
<1>6. ASSUME came = "guard", ~reworded' PROVE account' = "invited"
  <2>1. CASE account # "none"
    BY <1>1, <1>6, <2>1 DEF OnboardingInv, GuardedInvitationIsKept
  <2>2. CASE account = "none"
    <3>1. minting.read.pending = "code" /\ minting.word = minting.read.pending
      BY <1>1, <1>6, <2>2 DEF OnboardingInv, PutAside
    <3> QED BY <1>1, <2>2, <3>1
  <2> QED BY <2>1, <2>2
<1>7. GuardedInvitationIsKept'
  BY <1>1, <1>6 DEF GuardedInvitationIsKept
<1> QED BY <1>4, <1>5, <1>7 DEF OnboardingInv

LEMMA MintEndStep ==
  ASSUME OnboardingInv, MintFails \/ WriteUser \/ OnboardingLost
  PROVE  OnboardingInv'
<1>1. UNCHANGED <<account, required, joined, came, reworded>>
  BY DEF MintFails, WriteUser, OnboardingLost
<1>2. CASE MintFails
  <2>1. Throws
    BY <1>2 DEF MintFails
  <2>2. account' \in {"none", "alone", "invited"} /\ (account # "none" => account' # "none")
    BY <1>1 DEF OnboardingInv, OnboardingTypeOK
  <2>3. /\ minting' \in Mintings /\ minting'.step = "none"
        /\ visitor' \in Visitor /\ stored' \in BOOLEAN
        /\ stored' /\ visitor'.user => account' # "none"
        /\ stored => stored' /\ visitor' = visitor
    BY <2>1, <2>2, ThrowsEffect
  <2> QED BY <1>1, <2>3 DEF OnboardingInv, OnboardingTypeOK, Known, PutAside,
                            GuardedInvitationIsKept
<1>3. CASE WriteUser
  <2>1. account # "none" /\ minting' = NotMinting
    BY <1>3 DEF WriteUser, OnboardingInv, Known
  <2>2. visitor' \in Visitor /\ stored' = TRUE
    BY <1>3 DEF WriteUser, Keeps, Visitor, Words
  <2> QED BY <1>1, <2>1, <2>2, NotMintingType DEF OnboardingInv, OnboardingTypeOK, Known, PutAside,
                            GuardedInvitationIsKept, NotMinting
<1>4. CASE OnboardingLost
  BY <1>1, <1>4, NotMintingType DEF OnboardingLost, NotMinting, OnboardingInv, OnboardingTypeOK,
                            Known, PutAside, GuardedInvitationIsKept
<1> QED BY <1>2, <1>3, <1>4

LEMMA OtherSteps ==
  ASSUME OnboardingInv, Cancels \/ VisitorExpires \/ JoinsChannels \/ ToggleMandatoryJoin
  PROVE  OnboardingInv'
<1> USE DEF OnboardingInv, OnboardingTypeOK, Known, PutAside, GuardedInvitationIsKept
<1>1. CASE Cancels
  <2>1. visitor' = [NewVisitor EXCEPT !.user = Session.user] /\ stored' = TRUE /\ came' = "no"
        /\ UNCHANGED <<account, required, joined, minting, reworded>>
    BY <1>1 DEF Cancels, Keeps, Outside
  <2>2. Session \in Visitor /\ (Session.user => account # "none")
    BY SessionType DEF Session, SessionWith, NewVisitor
  <2>3. visitor' \in Visitor /\ visitor'.user = Session.user
    BY <2>1, <2>2 DEF NewVisitor, Visitor, Words
  <2> QED BY <2>1, <2>2, <2>3
<1>2. CASE VisitorExpires
  BY <1>2, NotMintingType DEF VisitorExpires
<1>3. CASE JoinsChannels
  BY <1>3 DEF JoinsChannels
<1>4. CASE ToggleMandatoryJoin
  BY <1>4 DEF ToggleMandatoryJoin
<1> QED BY <1>1, <1>2, <1>3, <1>4

LEMMA NextOnboarding == OnboardingInv /\ [OnboardingNext]_onboardingVars => OnboardingInv'
<1> SUFFICES ASSUME OnboardingInv, [OnboardingNext]_onboardingVars
             PROVE  OnboardingInv'
  OBVIOUS
<1>1. CASE \E word \in Words : Start(word) \/ Says(word)
  BY <1>1, TextStep
<1>2. CASE OnJoinCheck \/ OnLanguageSelect \/ Wrapped \/ OnMenu
  BY <1>2, ButtonStep
<1>3. CASE MintUser
  BY <1>3, MintUserStep
<1>4. CASE MintFails \/ WriteUser \/ OnboardingLost
  BY <1>4, MintEndStep
<1>5. CASE Cancels \/ VisitorExpires \/ JoinsChannels \/ ToggleMandatoryJoin
  BY <1>5, OtherSteps
<1>6. CASE UNCHANGED onboardingVars
  BY <1>6 DEF onboardingVars, OnboardingInv, OnboardingTypeOK, Known, PutAside,
              GuardedInvitationIsKept
<1> QED BY <1>1, <1>2, <1>3, <1>4, <1>5, <1>6 DEF OnboardingNext

\* Whatever a person taps, and however often an attempt fails, an invitation
\* that reached the guard is the account's inviter, unless it was cancelled,
\* expired, or the person wrote another word in its place.
THEOREM GuardedCodeIsKept == OnboardingSpec => []GuardedInvitationIsKept
<1>1. OnboardingInv => GuardedInvitationIsKept
  BY DEF OnboardingInv
<1> QED BY <1>1, InitOnboarding, NextOnboarding, PTL DEF OnboardingSpec

-----------------------------------------------------------------------------
(* A customer's dialogues: the inductive invariant.                        *)

\* The payment that d names, its amount and its purpose are one of paid.
Named(d, paid) ==
  /\ d.payment \in DOMAIN paid
  /\ d.amount = paid[d.payment].amount /\ d.purpose = paid[d.payment].purpose

\* Session d has what its state asks for, when the chat has initiated the
\* payments in paid and created count orders.
Fits(d, paid, count) ==
  /\ d.state = "confirmation" => d.plan
  /\ d.state = "payment" => d.order \in 1..count
  /\ d.state \in {"receipt", "crypto"} => Named(d, paid)
  /\ d.state = "message" => d.subject
  /\ d.state = "reply" => d.ticket # None

\* A change names no state and no data, or a state with the data that asks for.
Gives(c, field) == field \in DOMAIN c
ChangeType(c) ==
  /\ Gives(c, "state") => c.state \in DialogueStates
  /\ Gives(c, "plan") => c.plan \in BOOLEAN
  /\ Gives(c, "order") => c.order \in 0..MaxOrders
  /\ Gives(c, "payment") => c.payment \in PaymentIds \cup {None}
  /\ Gives(c, "amount") => c.amount \in Amounts \cup {None}
  /\ Gives(c, "purpose") => c.purpose \in Purposes \cup {None}
  /\ Gives(c, "subject") => c.subject \in BOOLEAN
  /\ Gives(c, "ticket") => c.ticket \in Tickets \cup {None}
ChangeFits(c, paid, count) ==
  /\ ChangeType(c)
  /\ \/ DOMAIN c = {}
     \/ /\ Gives(c, "state")
        /\ c.state = "confirmation" => Gives(c, "plan") /\ c.plan
        /\ c.state = "payment" => Gives(c, "order") /\ c.order \in 1..count
        /\ c.state \in {"receipt", "crypto"} =>
             Gives(c, "payment") /\ Gives(c, "amount") /\ Gives(c, "purpose") /\ Named(c, paid)
        /\ c.state = "message" => Gives(c, "subject") /\ c.subject
        /\ c.state = "reply" => Gives(c, "ticket") /\ c.ticket # None

\* A receipt is for one of the payments, and has its amount.
IsFor(r, paid) == r.payment \in DOMAIN paid /\ r.amount = paid[r.payment].amount

\* What handler j has yet to do fits.
JobFits(j, paid, count) ==
  /\ j.step \in HandlerSteps /\ j.next \in Dialogue
  /\ j.step = "stores" => Fits(j.next, paid, count)
  /\ j.step = "writes" => ChangeFits(j.change, paid, count)
  /\ j.step = "uploads" => IsFor(j.receipt, paid)

Books(paid, count) ==
  paid \in Seq(Payment) /\ Len(paid) <= MaxPayments /\ count \in 0..MaxOrders

DialogueInv ==
  /\ Books(payments, orders)
  /\ dialogue \in Dialogue /\ Fits(dialogue, payments, orders)
  /\ DOMAIN handler = Handlers
  /\ \A h \in Handlers : JobFits(handler[h], payments, orders)
  /\ \A r \in receipts : IsFor(r, payments)

-----------------------------------------------------------------------------
(* Payments are only added, so what fits once fits for good.               *)
Extends(paid, paid2) ==
  /\ DOMAIN paid \subseteq DOMAIN paid2
  /\ \A n \in DOMAIN paid : paid2[n] = paid[n]

LEMMA JobsStay ==
  ASSUME NEW paid, NEW paid2, Extends(paid, paid2),
         NEW count \in Nat, NEW count2 \in Nat, count <= count2,
         NEW j, JobFits(j, paid, count)
  PROVE  JobFits(j, paid2, count2)
<1>1. \A d : Fits(d, paid, count) => Fits(d, paid2, count2)
  BY DEF Fits, Named, Extends
<1>2. \A c : ChangeFits(c, paid, count) => ChangeFits(c, paid2, count2)
  BY DEF ChangeFits, Named, Extends
<1>3. \A r : IsFor(r, paid) => IsFor(r, paid2)
  BY DEF IsFor, Extends
<1> QED BY <1>1, <1>2, <1>3 DEF JobFits

LEMMA ChangedFits ==
  ASSUME NEW paid, NEW count \in Nat, NEW d \in Dialogue, Fits(d, paid, count),
         NEW c, ChangeFits(c, paid, count)
  PROVE  Changed(d, c) \in Dialogue /\ Fits(Changed(d, c), paid, count)
<1> DEFINE n == Changed(d, c)
<1>1. /\ n.state = IF Gives(c, "state") THEN c.state ELSE d.state
      /\ n.plan = IF Gives(c, "plan") THEN c.plan ELSE d.plan
      /\ n.order = IF Gives(c, "order") THEN c.order ELSE d.order
      /\ n.payment = IF Gives(c, "payment") THEN c.payment ELSE d.payment
      /\ n.amount = IF Gives(c, "amount") THEN c.amount ELSE d.amount
      /\ n.purpose = IF Gives(c, "purpose") THEN c.purpose ELSE d.purpose
      /\ n.subject = IF Gives(c, "subject") THEN c.subject ELSE d.subject
      /\ n.ticket = IF Gives(c, "ticket") THEN c.ticket ELSE d.ticket
  BY DEF Changed, Dialogue, Gives
<1>2. n \in Dialogue
  BY DEF Changed, Dialogue, Gives, ChangeFits, ChangeType
<1> HIDE DEF n
<1>3. Fits(n, paid, count)
  <2>1. CASE DOMAIN c = {}
    BY <1>1, <2>1 DEF Fits, Named, Gives
  <2>2. CASE DOMAIN c # {}
    BY <1>1, <2>2 DEF Fits, ChangeFits, Named
  <2> QED BY <2>1, <2>2
<1> QED BY <1>2, <1>3 DEF n

-----------------------------------------------------------------------------
(* What a handler's step may do to the books, and how it ends.             *)
BooksGrow ==
  /\ Books(payments', orders') /\ orders <= orders'
  /\ Extends(payments, payments')

LEMMA SameBooks ==
  ASSUME DialogueInv, UNCHANGED <<orders, payments>>
  PROVE  BooksGrow
BY DEF DialogueInv, BooksGrow, Extends, Books

LEMMA OneMoreOrder ==
  ASSUME DialogueInv, orders < MaxOrders, orders' = orders + 1, UNCHANGED payments
  PROVE  BooksGrow /\ orders' \in 1..MaxOrders
BY CustomerAssumption DEF DialogueInv, BooksGrow, Extends, Books

LEMMA OneMorePayment ==
  ASSUME DialogueInv, UNCHANGED orders, Len(payments) < MaxPayments,
         NEW p \in Payment, payments' = Append(payments, p)
  PROVE  /\ BooksGrow
         /\ Len(payments) + 1 \in DOMAIN payments' /\ Len(payments) + 1 \in PaymentIds
         /\ payments'[Len(payments) + 1] = p
<1>1. /\ payments' \in Seq(Payment) /\ Len(payments') = Len(payments) + 1
      /\ DOMAIN payments = 1..Len(payments) /\ DOMAIN payments' = 1..Len(payments')
      /\ Len(payments) \in Nat
  BY DEF DialogueInv, Books
<1>2. \A n \in 1..Len(payments) : payments'[n] = payments[n]
  BY DEF DialogueInv, Books
<1>3. payments'[Len(payments) + 1] = p
  BY DEF DialogueInv, Books
<1>4. Extends(payments, payments')
  BY <1>1, <1>2 DEF Extends
<1>5. Books(payments', orders') /\ orders <= orders'
  BY <1>1, CustomerAssumption DEF DialogueInv, Books
<1> QED BY <1>1, <1>3, <1>4, <1>5, CustomerAssumption DEF BooksGrow, PaymentIds

\* A step of h, after which what h has yet to do fits.
LEMMA OneHandler ==
  ASSUME DialogueInv, BooksGrow, NEW h \in Handlers, NEW j,
         handler' = [handler EXCEPT ![h] = j], JobFits(j, payments', orders'),
         dialogue' \in Dialogue, Fits(dialogue', payments', orders'),
         \A r \in receipts' : r \in receipts \/ IsFor(r, payments')
  PROVE  DialogueInv'
<1>0. orders \in Nat /\ orders' \in Nat /\ orders <= orders' /\ Extends(payments, payments')
  BY CustomerAssumption DEF DialogueInv, BooksGrow, Books
<1>1. Books(payments', orders') /\ DOMAIN handler' = Handlers
  BY DEF BooksGrow, DialogueInv
<1>2. ASSUME NEW g \in Handlers PROVE JobFits(handler'[g], payments', orders')
  <2>1. CASE g = h
    BY <2>1 DEF DialogueInv
  <2>2. CASE g # h
    <3>1. handler'[g] = handler[g] /\ JobFits(handler[g], payments, orders)
      BY <2>2 DEF DialogueInv
    <3> QED BY <3>1, <1>0, JobsStay
  <2> QED BY <2>1, <2>2
<1>3. \A r \in receipts' : IsFor(r, payments')
  BY <1>0 DEF DialogueInv, IsFor, Extends
<1> QED BY <1>1, <1>2, <1>3 DEF DialogueInv

LEMMA SessionStays ==
  ASSUME DialogueInv, BooksGrow, UNCHANGED dialogue
  PROVE  dialogue' \in Dialogue /\ Fits(dialogue', payments', orders')
BY CustomerAssumption DEF DialogueInv, BooksGrow, Books, Fits, Named, Extends

LEMMA FreshFits ==
  /\ FreshDialogue \in Dialogue
  /\ \A paid, count : Fits(FreshDialogue, paid, count)
  /\ \A paid, count : ChangeFits(FreshDialogue, paid, count)
<1>1. FreshDialogue \in Dialogue
  BY CustomerAssumption DEF FreshDialogue, Dialogue, DialogueStates
<1>2. \A paid, count : Fits(FreshDialogue, paid, count)
  BY DEF FreshDialogue, Fits
<1>3. ChangeType(FreshDialogue)
  BY CustomerAssumption DEF FreshDialogue, ChangeType, DialogueStates
<1>4. \A paid, count : ChangeFits(FreshDialogue, paid, count)
  BY <1>3 DEF FreshDialogue, ChangeFits, Gives
<1> QED BY <1>1, <1>2, <1>4

\* A handler that acted on what it read, and whose write reads the session yet.
LEMMA WritesStep ==
  ASSUME DialogueInv, BooksGrow, NEW h \in Handlers, NEW c,
         ChangeFits(c, payments', orders'), Writes(h, c),
         \A r \in receipts' : r \in receipts \/ IsFor(r, payments')
  PROVE  DialogueInv'
<1> DEFINE j == [Resting EXCEPT !.step = "writes", !.change = c]
<1>1. handler' = [handler EXCEPT ![h] = j] /\ UNCHANGED dialogue
  BY DEF Writes
<1>2. j.step = "writes" /\ j.change = c /\ j.next = FreshDialogue
  BY DEF Resting
<1> HIDE DEF j
<1>3. JobFits(j, payments', orders')
  BY <1>2, FreshFits DEF JobFits, HandlerSteps
<1> QED BY <1>1, <1>3, SessionStays, OneHandler

\* A handler whose first read is that of its write.
LEMMA WritesOnlyStep ==
  ASSUME DialogueInv, NEW h \in Handlers, NEW c, ChangeFits(c, payments, orders),
         WritesOnly(h, c), UNCHANGED <<orders, payments, receipts>>
  PROVE  DialogueInv'
<1> DEFINE j == [Resting EXCEPT !.step = "stores", !.next = Changed(dialogue, c)]
<1>1. handler' = [handler EXCEPT ![h] = j] /\ UNCHANGED dialogue
  BY DEF WritesOnly
<1>2. j.step = "stores" /\ j.next = Changed(dialogue, c)
  BY DEF Resting
<1>3. Changed(dialogue, c) \in Dialogue /\ Fits(Changed(dialogue, c), payments, orders)
  <2>1. orders \in Nat /\ dialogue \in Dialogue /\ Fits(dialogue, payments, orders)
    BY CustomerAssumption DEF DialogueInv, Books
  <2> QED BY <2>1, ChangedFits
<1> HIDE DEF j
<1>4. JobFits(j, payments', orders')
  BY <1>2, <1>3 DEF JobFits, HandlerSteps
<1> QED BY <1>1, <1>4, SameBooks, SessionStays, OneHandler

-----------------------------------------------------------------------------
(* The steps of the customer's handlers.                                   *)

LEMMA CustomerInitially == CustomerInit => DialogueInv
<1> SUFFICES ASSUME CustomerInit PROVE DialogueInv
  OBVIOUS
<1>1. Books(payments, orders)
  BY CustomerAssumption DEF CustomerInit, Books
<1>2. Resting.step = "free" /\ Resting.next = FreshDialogue
  BY DEF Resting
<1>3. JobFits(Resting, payments, orders)
  BY <1>2, FreshFits DEF JobFits, HandlerSteps
<1> QED BY <1>1, <1>3, FreshFits DEF CustomerInit, DialogueInv

\* A change to a state that asks for no data.
LEMMA PlainChange ==
  ASSUME NEW state \in {"idle", "code", "subject"}
  PROVE  \A paid, count : ChangeFits(To(state), paid, count)
BY DEF To, ChangeFits, ChangeType, Gives, DialogueStates

LEMMA NoChange == \A paid, count : ChangeFits(NoData, paid, count)
BY DEF NoData, ChangeFits, ChangeType, Gives

LEMMA OrderChange ==
  ASSUME NEW count \in 1..MaxOrders,
         NEW c, c = [state |-> "payment", order |-> count]
  PROVE  \A paid : ChangeFits(c, paid, count)
<1>1. DOMAIN c = {"state", "order"} /\ c.state = "payment" /\ c.order = count
  OBVIOUS
<1>2. count \in 0..MaxOrders /\ count \in 1..count
  BY CustomerAssumption
<1> QED BY <1>1, <1>2 DEF ChangeFits, ChangeType, Gives, DialogueStates

\* The session's payment is the one just initiated.
LEMMA InitiatesStep ==
  ASSUME DialogueInv, NEW h \in Handlers, NEW state \in {"receipt", "crypto"},
         NEW purpose \in Purposes, NEW amount \in Amounts,
         Initiates(h, purpose, amount, PaymentChange(state, purpose, amount))
  PROVE  DialogueInv'
<1> DEFINE p == [purpose |-> purpose, amount |-> amount]
           c == PaymentChange(state, purpose, amount)
           n == Len(payments) + 1
<1>1. p \in Payment /\ p.purpose = purpose /\ p.amount = amount
  BY DEF Payment
<1>2. /\ n \in DOMAIN payments' /\ n \in PaymentIds /\ payments'[n] = p
      /\ BooksGrow
  BY <1>1, OneMorePayment DEF Initiates
<1>3. /\ DOMAIN c = {"state", "payment", "amount", "purpose"}
      /\ c.state = state /\ c.payment = n /\ c.amount = amount /\ c.purpose = purpose
  BY DEF PaymentChange
<1>4. Writes(h, c) /\ UNCHANGED receipts
  BY DEF Initiates
<1> HIDE DEF c, p, n
<1>5. ChangeFits(c, payments', orders')
  BY <1>1, <1>2, <1>3 DEF ChangeFits, ChangeType, Gives, Named, DialogueStates
<1> QED BY <1>2, <1>4, <1>5, WritesStep

LEMMA BuyStepKeeps ==
  ASSUME DialogueInv, NEW h \in Handlers, BuyStep(h)
  PROVE  DialogueInv'
<1>0. dialogue \in Dialogue
  BY DEF DialogueInv
<1>1. CASE OnSelectPlan(h)
  <2> DEFINE c == [state |-> "confirmation", plan |-> TRUE]
  <2>1. DOMAIN c = {"state", "plan"} /\ c.state = "confirmation" /\ c.plan = TRUE
    OBVIOUS
  <2> HIDE DEF c
  <2>2. ChangeFits(c, payments, orders)
    BY <2>1 DEF ChangeFits, ChangeType, Gives, DialogueStates
  <2>3. WritesOnly(h, c) /\ UNCHANGED <<orders, payments, receipts>>
    BY <1>1 DEF OnSelectPlan, c
  <2> QED BY <2>2, <2>3, WritesOnlyStep
<1>2. CASE OnProceed(h)
  <2>1. CASE orders < MaxOrders /\ orders' = orders + 1 /\ Writes(h, OrderCreated)
    <3>1. BooksGrow /\ orders' \in 1..MaxOrders /\ UNCHANGED receipts
      BY <1>2, <2>1, OneMoreOrder DEF OnProceed
    <3>2. ChangeFits(OrderCreated, payments', orders')
      BY <2>1, <3>1, OrderChange DEF OrderCreated
    <3> QED BY <2>1, <3>1, <3>2, WritesStep
  <2>2. CASE UNCHANGED orders /\ Writes(h, To("idle"))
    BY <1>2, <2>2, SameBooks, PlainChange, WritesStep DEF OnProceed
  <2> QED BY <1>2, <2>1, <2>2 DEF OnProceed
<1>3. CASE CreateRenewalOrder(h)
  <2>1. BooksGrow /\ orders' \in 1..MaxOrders /\ UNCHANGED receipts
    BY <1>3, OneMoreOrder DEF CreateRenewalOrder
  <2>2. ChangeFits(OrderCreated, payments', orders')
    BY <1>3, <2>1, OrderChange DEF CreateRenewalOrder, OrderCreated
  <2> QED BY <1>3, <2>1, <2>2, WritesStep DEF CreateRenewalOrder
<1>4. CASE PayWithWallet(h)
  BY <1>4, SameBooks, FreshFits, WritesStep DEF PayWithWallet, Forget
<1>5. dialogue.order # 0 => dialogue.order \in Amounts
  BY <1>0, CustomerAssumption DEF Dialogue, Amounts
<1>6. CASE InitiateCardToCard(h)
  BY <1>5, <1>6, InitiatesStep DEF InitiateCardToCard, Purposes
<1>7. CASE InitiateCrypto(h)
  BY <1>5, <1>7, InitiatesStep DEF InitiateCrypto, Purposes
<1>8. CASE OnCryptoConfirm(h)
  BY <1>8, FreshFits, WritesOnlyStep DEF OnCryptoConfirm, Taps, Forget
<1> QED BY <1>1, <1>2, <1>3, <1>4, <1>6, <1>7, <1>8 DEF BuyStep

\* A handler that goes back to rest.
LEMMA RestingFits ==
  \A paid, count : JobFits(Resting, paid, count)
<1>1. Resting.step = "free" /\ Resting.next = FreshDialogue
  BY DEF Resting
<1> QED BY <1>1, FreshFits DEF JobFits, HandlerSteps

LEMMA WalletStepKeeps ==
  ASSUME DialogueInv, NEW h \in Handlers, WalletStep(h)
  PROVE  DialogueInv'
<1>0. JobFits(handler[h], payments, orders)
  BY DEF DialogueInv
<1>1. ASSUME NEW amount \in Deposits, OnSelectPresetDepositAmount(h, amount)
      PROVE  DialogueInv'
  BY <1>1, InitiatesStep DEF OnSelectPresetDepositAmount, Purposes, Amounts
<1>2. CASE OnReceiptUpload(h)
  <2> DEFINE r == [payment |-> dialogue.payment, amount |-> dialogue.amount]
             j == [Resting EXCEPT !.step = "uploads", !.receipt = r]
  <2>1. IsFor(r, payments)
    BY <1>2 DEF OnReceiptUpload, DialogueInv, Fits, Named, IsFor
  <2>2. j.step = "uploads" /\ j.receipt = r /\ j.next = FreshDialogue
    BY DEF Resting
  <2>3. /\ handler' = [handler EXCEPT ![h] = j]
        /\ UNCHANGED <<dialogue, orders, payments, receipts>>
    BY <1>2 DEF OnReceiptUpload
  <2> HIDE DEF j, r
  <2>4. JobFits(j, payments', orders')
    BY <2>1, <2>2, <2>3, FreshFits DEF JobFits, HandlerSteps
  <2> QED BY <2>3, <2>4, SameBooks, SessionStays, OneHandler
<1>3. CASE SubmitReceipt(h)
  <2>1. IsFor(handler[h].receipt, payments)
    BY <1>0, <1>3 DEF SubmitReceipt, HandlerAt, JobFits
  <2> QED BY <1>3, <2>1, SameBooks, FreshFits, WritesStep DEF SubmitReceipt, Forget
<1>4. CASE ReceiptFails(h)
  BY <1>4, RestingFits, SameBooks, SessionStays, OneHandler DEF ReceiptFails
<1> QED BY <1>1, <1>2, <1>3, <1>4 DEF WalletStep

LEMMA TalkStepKeeps ==
  ASSUME DialogueInv, NEW h \in Handlers, TalkStep(h)
  PROVE  DialogueInv'
<1>1. CASE StartVoucher(h)
  BY <1>1, PlainChange, WritesOnlyStep DEF StartVoucher, Taps
<1>2. CASE OnSubmitCode(h)
  BY <1>2, SameBooks, FreshFits, WritesStep DEF OnSubmitCode, Forget
<1>3. CASE OnSelectCategory(h)
  BY <1>3, PlainChange, WritesOnlyStep DEF OnSelectCategory, Taps
<1>4. CASE OnSubject(h)
  <2> DEFINE c == [state |-> "message", subject |-> TRUE]
  <2>1. DOMAIN c = {"state", "subject"} /\ c.state = "message" /\ c.subject = TRUE
    OBVIOUS
  <2> HIDE DEF c
  <2>2. ChangeFits(c, payments, orders)
    BY <2>1 DEF ChangeFits, ChangeType, Gives, DialogueStates
  <2>3. Writes(h, c) /\ UNCHANGED <<orders, payments, receipts>>
    BY <1>4 DEF OnSubject, Taps, c
  <2> QED BY <2>2, <2>3, SameBooks, WritesStep
<1>5. CASE OnMessage(h) \/ OnReply(h)
  BY <1>5, SameBooks, FreshFits, WritesStep DEF OnMessage, OnReply, Taps, Forget
<1>6. ASSUME NEW t \in Tickets, NEW state \in {"idle", "reply"}, Taps(h, "support"),
             WritesOnly(h, [state |-> state, ticket |-> t])
      PROVE  DialogueInv'
  <2> DEFINE c == [state |-> state, ticket |-> t]
  <2>1. DOMAIN c = {"state", "ticket"} /\ c.state = state /\ c.ticket = t
    OBVIOUS
  <2> HIDE DEF c
  <2>2. ChangeFits(c, payments, orders)
    BY <2>1, CustomerAssumption DEF ChangeFits, ChangeType, Gives, DialogueStates
  <2>3. WritesOnly(h, c) /\ UNCHANGED <<orders, payments, receipts>>
    BY <1>6 DEF Taps, c
  <2> QED BY <2>2, <2>3, WritesOnlyStep
<1>7. ASSUME NEW t \in Tickets, ShowTicket(h, t) \/ StartReply(h, t)
      PROVE  DialogueInv'
  BY <1>6, <1>7 DEF ShowTicket, StartReply
<1> QED BY <1>1, <1>2, <1>3, <1>4, <1>5, <1>7 DEF TalkStep

\* The two halves of a write: the session is read again, then written whole.
LEMMA SessionWriteKeeps ==
  ASSUME DialogueInv, NEW h \in Handlers, FetchDialogue(h) \/ StoreDialogue(h)
  PROVE  DialogueInv'
<1>0. /\ JobFits(handler[h], payments, orders) /\ orders \in Nat
      /\ dialogue \in Dialogue /\ Fits(dialogue, payments, orders)
  BY CustomerAssumption DEF DialogueInv, Books
<1>1. CASE FetchDialogue(h)
  <2> DEFINE next == Changed(dialogue, handler[h].change)
             j == [Resting EXCEPT !.step = "stores", !.next = next]
  <2>1. next \in Dialogue /\ Fits(next, payments, orders)
    BY <1>0, <1>1, ChangedFits DEF FetchDialogue, HandlerAt, JobFits
  <2>2. j.step = "stores" /\ j.next = next
    BY DEF Resting
  <2>3. /\ handler' = [handler EXCEPT ![h] = j]
        /\ UNCHANGED <<dialogue, orders, payments, receipts>>
    BY <1>1 DEF FetchDialogue
  <2> HIDE DEF j, next
  <2>4. JobFits(j, payments', orders')
    BY <2>1, <2>2, <2>3 DEF JobFits, HandlerSteps
  <2> QED BY <2>3, <2>4, SameBooks, SessionStays, OneHandler
<1>2. CASE StoreDialogue(h)
  <2>1. /\ handler' = [handler EXCEPT ![h] = Resting] /\ dialogue' = handler[h].next
        /\ UNCHANGED <<orders, payments, receipts>>
    BY <1>2 DEF StoreDialogue
  <2>2. dialogue' \in Dialogue /\ Fits(dialogue', payments', orders')
    BY <1>0, <1>2, <2>1 DEF StoreDialogue, HandlerAt, JobFits
  <2> QED BY <2>1, <2>2, RestingFits, SameBooks, OneHandler
<1> QED BY <1>1, <1>2

LEMMA DialogueKeeps ==
  ASSUME DialogueInv, [CustomerNext]_customerVars
  PROVE  DialogueInv'
<1>1. ASSUME NEW h \in Handlers,
             \/ ShowScreen(h) \/ MenuWrite(h) \/ CancelDialogue(h)
      PROVE  DialogueInv'
  BY <1>1, PlainChange, NoChange, FreshFits, WritesOnlyStep
     DEF ShowScreen, MenuWrite, CancelDialogue, Forget
<1>2. CASE DialogueExpires
  BY <1>2, FreshFits DEF DialogueExpires, DialogueInv
<1>3. CASE UNCHANGED customerVars
  BY <1>3 DEF customerVars, DialogueInv
<1> QED BY <1>1, <1>2, <1>3, BuyStepKeeps, WalletStepKeeps, TalkStepKeeps, SessionWriteKeeps
        DEF CustomerNext

LEMMA DialogueInvariance == CustomerSpec => []DialogueInv
<1>1. DialogueInv /\ [CustomerNext]_customerVars => DialogueInv'
  BY DialogueKeeps
<1> QED BY CustomerInitially, <1>1, PTL DEF CustomerSpec

(* Whatever handlers of the chat overlap and overwrite each other's        *)
(* session, a receipt names the amount of the payment it is for.           *)
THEOREM ReceiptsAreForTheirPayment == CustomerSpec => []ReceiptsNameTheirPayment
<1>1. DialogueInv => ReceiptsNameTheirPayment
  BY DEF DialogueInv, IsFor, ReceiptsNameTheirPayment
<1> QED BY DialogueInvariance, <1>1, PTL

(* Nor does the session come to be in the state of one dialogue with the   *)
(* data of another, although every handler writes back all it has read.    *)
THEOREM SessionsAreOfOneDialogue == CustomerSpec => []DialoguesDoNotMix
<1>1. DialogueInv => DialoguesDoNotMix
  BY DEF DialogueInv, Fits, Named, DialoguesDoNotMix
<1> QED BY DialogueInvariance, <1>1, PTL

-----------------------------------------------------------------------------
(* The types of what a customer's chat keeps.                                *)

\* What a submitted receipt, one being uploaded, the lock and the flows in use are.
UploadsReceipts ==
  \A h \in Handlers : handler[h].step = "uploads" => handler[h].receipt \in Receipt
CallersTyped ==
  receipts \subseteq Receipt /\ UploadsReceipts /\ lock \in Handlers \cup {None} /\ visit \in Visits

LEMMA CallersStart == CustomerInit => CallersTyped
BY DEF CustomerInit, CallersTyped, UploadsReceipts, Resting

\* A handler that now uploads nothing, or a receipt of the session's payment.
LEMMA CallersStep ==
  ASSUME DialogueInv, CallersTyped, NEW h \in Handlers, NEW j, handler' = [handler EXCEPT ![h] = j],
         j.step = "uploads" => j.receipt \in Receipt,
         receipts' \subseteq Receipt, lock' \in {lock, h, None}, UNCHANGED visit
  PROVE  CallersTyped'
<1>1. \A g \in Handlers : g # h => handler'[g] = handler[g]
  BY DEF DialogueInv
<1>2. handler'[h] = j
  BY DEF DialogueInv
<1> QED BY <1>1, <1>2 DEF CallersTyped, UploadsReceipts

LEMMA WritesNoReceipt ==
  ASSUME DialogueInv, CallersTyped, NEW h \in Handlers, NEW c, Writes(h, c) \/ WritesOnly(h, c),
         receipts' \subseteq Receipt, lock' \in {lock, h, None}
  PROVE  CallersTyped'
<1>1. CASE Writes(h, c)
  <2> DEFINE j == [Resting EXCEPT !.step = "writes", !.change = c]
  <2>1. handler' = [handler EXCEPT ![h] = j] /\ UNCHANGED visit
    BY <1>1 DEF Writes
  <2>2. j.step = "writes"
    BY DEF Resting
  <2> HIDE DEF j
  <2> QED BY <2>1, <2>2, CallersStep
<1>2. CASE WritesOnly(h, c)
  <2> DEFINE j == [Resting EXCEPT !.step = "stores", !.next = Changed(dialogue, c)]
  <2>1. handler' = [handler EXCEPT ![h] = j] /\ UNCHANGED visit
    BY <1>2 DEF WritesOnly
  <2>2. j.step = "stores"
    BY DEF Resting
  <2> HIDE DEF j
  <2> QED BY <2>1, <2>2, CallersStep
<1> QED BY <1>1, <1>2

LEMMA CallersHandled ==
  ASSUME DialogueInv, CallersTyped, NEW h \in Handlers,
         \/ BuyStep(h) \/ WalletStep(h) \/ TalkStep(h)
         \/ ShowScreen(h) \/ MenuWrite(h) \/ CancelDialogue(h)
         \/ FetchDialogue(h) \/ StoreDialogue(h)
  PROVE  CallersTyped'
<1>0. receipts \subseteq Receipt /\ lock \in Handlers \cup {None} /\ Resting.step = "free"
  BY DEF CallersTyped, Resting
<1>1. CASE BuyStep(h)
  <2>1. \E c : Writes(h, c) \/ WritesOnly(h, c)
    BY <1>1 DEF BuyStep, OnSelectPlan, OnProceed, CreateRenewalOrder, PayWithWallet,
       InitiateCardToCard, InitiateCrypto, OnCryptoConfirm, Initiates
  <2>2. UNCHANGED receipts /\ lock' \in {lock, h, None}
    BY <1>1 DEF BuyStep, OnSelectPlan, OnProceed, CreateRenewalOrder, PayWithWallet,
       InitiateCardToCard, InitiateCrypto, OnCryptoConfirm, Initiates, Locked, Taps
  <2> QED BY <1>0, <2>1, <2>2, WritesNoReceipt
<1>2. CASE TalkStep(h)
  <2>1. \E c : Writes(h, c) \/ WritesOnly(h, c)
    BY <1>2 DEF TalkStep, StartVoucher, OnSubmitCode, OnSelectCategory, OnSubject, OnMessage,
       OnReply, ShowTicket, StartReply
  <2>2. UNCHANGED receipts /\ lock' \in {lock, h, None}
    BY <1>2 DEF TalkStep, StartVoucher, OnSubmitCode, OnSelectCategory, OnSubject, OnMessage,
       OnReply, ShowTicket, StartReply, Locked, Taps
  <2> QED BY <1>0, <2>1, <2>2, WritesNoReceipt
<1>3. CASE WalletStep(h)
  <2>1. ASSUME NEW amount \in Deposits, OnSelectPresetDepositAmount(h, amount)
        PROVE  CallersTyped'
    <3>1. \E c : Writes(h, c)
      BY <2>1 DEF OnSelectPresetDepositAmount, Initiates
    <3>2. UNCHANGED <<receipts, lock>>
      BY <2>1 DEF OnSelectPresetDepositAmount, Initiates
    <3> QED BY <1>0, <3>1, <3>2, WritesNoReceipt
  <2>2. CASE OnReceiptUpload(h)
    <3> DEFINE r == [payment |-> dialogue.payment, amount |-> dialogue.amount]
               j == [Resting EXCEPT !.step = "uploads", !.receipt = r]
    <3>1. handler' = [handler EXCEPT ![h] = j] /\ UNCHANGED <<receipts, lock, visit>>
      BY <2>2 DEF OnReceiptUpload
    <3>2. dialogue.payment \in PaymentIds /\ dialogue.amount \in Amounts \cup {None}
      BY <2>2 DEF OnReceiptUpload, DialogueInv, Dialogue
    <3>3. r \in Receipt
      BY <3>2 DEF Receipt
    <3>4. j.receipt = r
      BY DEF Resting
    <3> HIDE DEF j, r
    <3> QED BY <1>0, <3>1, <3>3, <3>4, CallersStep
  <2>3. CASE SubmitReceipt(h)
    <3>1. handler[h].receipt \in Receipt
      BY <2>3 DEF SubmitReceipt, HandlerAt, CallersTyped, UploadsReceipts
    <3>2. receipts' \subseteq Receipt /\ Writes(h, Forget) /\ UNCHANGED lock
      BY <1>0, <2>3, <3>1 DEF SubmitReceipt
    <3> QED BY <3>2, WritesNoReceipt
  <2>4. CASE ReceiptFails(h)
    BY <1>0, <2>4, CallersStep DEF ReceiptFails
  <2> QED BY <1>3, <2>1, <2>2, <2>3, <2>4 DEF WalletStep
<1>4. CASE ShowScreen(h) \/ MenuWrite(h) \/ CancelDialogue(h)
  BY <1>0, <1>4, WritesNoReceipt DEF ShowScreen, MenuWrite, CancelDialogue
<1>5. CASE FetchDialogue(h)
  <2> DEFINE j == [Resting EXCEPT !.step = "stores", !.next = Changed(dialogue, handler[h].change)]
  <2>1. handler' = [handler EXCEPT ![h] = j] /\ UNCHANGED <<receipts, lock, visit>>
    BY <1>5 DEF FetchDialogue
  <2>2. j.step = "stores"
    BY DEF Resting
  <2> HIDE DEF j
  <2> QED BY <1>0, <2>1, <2>2, CallersStep
<1>6. CASE StoreDialogue(h)
  BY <1>0, <1>6, CallersStep DEF StoreDialogue
<1> QED BY <1>1, <1>2, <1>3, <1>4, <1>5, <1>6

CustomerInv == DialogueInv /\ CallersTyped

LEMMA CustomerKeeps == CustomerInv /\ [CustomerNext]_customerVars => CustomerInv'
<1> SUFFICES ASSUME CustomerInv, [CustomerNext]_customerVars PROVE CustomerInv'
  OBVIOUS
<1>1. DialogueInv'
  BY DialogueKeeps DEF CustomerInv
<1>2. CallersTyped'
  <2>1. CASE DialogueExpires \/ UNCHANGED customerVars
    BY <2>1 DEF DialogueExpires, customerVars, CustomerInv, CallersTyped, UploadsReceipts
  <2> QED BY <2>1, CallersHandled DEF CustomerInv, CustomerNext
<1> QED BY <1>1, <1>2 DEF CustomerInv

LEMMA CustomerTypesHold == CustomerInv => CustomerTypeOK
BY DEF CustomerInv, DialogueInv, CallersTyped, CustomerTypeOK, Books, JobFits

\* The session, the books of orders and payments, the receipts and the lock of a
\* chat keep their types, for any handlers, tickets and preset amounts.
THEOREM CustomerTypesKept == CustomerSpec => []CustomerTypeOK
<1>1. CustomerInit => CustomerInv
  BY CustomerInitially, CallersStart DEF CustomerInv
<1> QED BY <1>1, CustomerTypesHold, CustomerKeeps, PTL DEF CustomerSpec

-----------------------------------------------------------------------------
(* The order in which a wizard asks for the fields of an entity.           *)
NoneTwice(fields) ==
  \A m, n \in DOMAIN fields : fields[m] = fields[n] => m = n

LEMMA FieldAt ==
  ASSUME NEW S, NEW fields \in Seq(S), NoneTwice(fields), NEW k \in DOMAIN fields
  PROVE  /\ (CHOOSE n \in DOMAIN fields : fields[n] = fields[k]) = k
         /\ After(fields, fields[k]) = fields[k + 1]
         /\ Before(fields, fields[k]) = {fields[n] : n \in 1..(k - 1)}
<1>1. (CHOOSE n \in DOMAIN fields : fields[n] = fields[k]) = k
  BY DEF NoneTwice
<1> QED BY <1>1 DEF After, Before

\* The field asked for next comes after one more field.
LEMMA NextField ==
  ASSUME NEW S, NEW fields \in Seq(S), NoneTwice(fields),
         NEW f \in Elements(fields), f # fields[Len(fields)]
  PROVE  /\ After(fields, f) \in Elements(fields)
         /\ Before(fields, After(fields, f)) = Before(fields, f) \cup {f}
<1>1. PICK k \in DOMAIN fields : f = fields[k]
  BY DEF Elements
<1>2. k \in 1..Len(fields) /\ k # Len(fields) /\ DOMAIN fields = 1..Len(fields)
      /\ Len(fields) \in Nat
  BY <1>1
<1>3. k + 1 \in DOMAIN fields /\ (k + 1) - 1 = k
  BY <1>2
<1>4. /\ After(fields, f) = fields[k + 1]
      /\ Before(fields, f) = {fields[n] : n \in 1..(k - 1)}
      /\ Before(fields, fields[k + 1]) = {fields[n] : n \in 1..k}
  BY <1>1, <1>3, FieldAt
<1>5. {fields[n] : n \in 1..k} = {fields[n] : n \in 1..(k - 1)} \cup {f}
  BY <1>1, <1>2
<1> QED BY <1>3, <1>4, <1>5 DEF Elements

LEMMA LastField ==
  ASSUME NEW S, NEW fields \in Seq(S), NoneTwice(fields), fields # <<>>
  PROVE  Before(fields, fields[Len(fields)]) \cup {fields[Len(fields)]} = Elements(fields)
<1>1. Len(fields) \in DOMAIN fields /\ Len(fields) \in Nat /\ DOMAIN fields = 1..Len(fields)
  OBVIOUS
<1>2. Before(fields, fields[Len(fields)]) = {fields[n] : n \in 1..(Len(fields) - 1)}
  BY <1>1, FieldAt
<1> QED BY <1>1, <1>2 DEF Elements

\* The fields of the three entities.
LEMMA FieldSets ==
  /\ Elements(PlanFields) = {"name", "price", "durationDays", "trafficLimitGb"}
  /\ Elements(CardFields) = {"number", "holder", "bank", "sheba", "label"}
  /\ Elements(CryptoFields) = {"address", "network", "label", "instructions"}
<1>1. Elements(PlanFields) = {"name", "price", "durationDays", "trafficLimitGb"}
  BY DEF PlanFields, Elements
<1>2. Elements(CardFields) = {"number", "holder", "bank", "sheba", "label"}
  BY DEF CardFields, Elements
<1>3. Elements(CryptoFields) = {"address", "network", "label", "instructions"}
  BY DEF CryptoFields, Elements
<1> QED BY <1>1, <1>2, <1>3

LEMMA FieldLists ==
  /\ PlanFields \in Seq(Elements(PlanFields)) /\ NoneTwice(PlanFields)
  /\ PlanFields[Len(PlanFields)] = "trafficLimitGb" /\ PlanFields # <<>>
  /\ CardFields \in Seq(Elements(CardFields)) /\ NoneTwice(CardFields)
  /\ CardFields[Len(CardFields)] = "label" /\ CardFields # <<>>
  /\ CryptoFields \in Seq(Elements(CryptoFields)) /\ NoneTwice(CryptoFields)
  /\ CryptoFields[Len(CryptoFields)] = "instructions" /\ CryptoFields # <<>>
<1>1. /\ PlanFields \in Seq(Elements(PlanFields)) /\ NoneTwice(PlanFields)
      /\ PlanFields[Len(PlanFields)] = "trafficLimitGb" /\ PlanFields # <<>>
  <2>1. PlanFields \in Seq(Elements(PlanFields)) /\ Len(PlanFields) = 4 /\ PlanFields # <<>>
    BY FieldSets DEF PlanFields
  <2>2. NoneTwice(PlanFields)
    BY DEF PlanFields, NoneTwice
  <2>3. PlanFields[4] = "trafficLimitGb"
    BY DEF PlanFields
  <2> QED BY <2>1, <2>2, <2>3
<1>2. /\ CardFields \in Seq(Elements(CardFields)) /\ NoneTwice(CardFields)
      /\ CardFields[Len(CardFields)] = "label" /\ CardFields # <<>>
  <2>1. CardFields \in Seq(Elements(CardFields)) /\ Len(CardFields) = 5 /\ CardFields # <<>>
    BY FieldSets DEF CardFields
  <2>2. NoneTwice(CardFields)
    BY DEF CardFields, NoneTwice
  <2>3. CardFields[5] = "label"
    BY DEF CardFields
  <2> QED BY <2>1, <2>2, <2>3
<1>3. /\ CryptoFields \in Seq(Elements(CryptoFields)) /\ NoneTwice(CryptoFields)
      /\ CryptoFields[Len(CryptoFields)] = "instructions" /\ CryptoFields # <<>>
  <2>1. CryptoFields \in Seq(Elements(CryptoFields)) /\ Len(CryptoFields) = 4 /\ CryptoFields # <<>>
    BY FieldSets DEF CryptoFields
  <2>2. NoneTwice(CryptoFields)
    BY DEF CryptoFields, NoneTwice
  <2>3. CryptoFields[4] = "instructions"
    BY DEF CryptoFields
  <2> QED BY <2>1, <2>2, <2>3
<1> QED BY <1>1, <1>2, <1>3

LEMMA FirstFields ==
  /\ Before(PlanFields, "name") = {}
  /\ Before(CardFields, "number") = {}
  /\ Before(CryptoFields, "address") = {}
<1>1. PlanFields[1] = "name" /\ CardFields[1] = "number" /\ CryptoFields[1] = "address"
  BY DEF PlanFields, CardFields, CryptoFields
<1>2. 1 \in DOMAIN PlanFields /\ 1 \in DOMAIN CardFields /\ 1 \in DOMAIN CryptoFields
  BY DEF PlanFields, CardFields, CryptoFields
<1>3. 1..(1 - 1) = {}
  OBVIOUS
<1>4. Before(PlanFields, PlanFields[1]) = {}
  BY <1>2, <1>3, FieldLists, FieldAt
<1>5. Before(CardFields, CardFields[1]) = {}
  BY <1>2, <1>3, FieldLists, FieldAt
<1>6. Before(CryptoFields, CryptoFields[1]) = {}
  BY <1>2, <1>3, FieldLists, FieldAt
<1> QED BY <1>1, <1>4, <1>5, <1>6

-----------------------------------------------------------------------------
(* The types of the wizards, with any number of updates at once.           *)

IsUpdate(j) == DOMAIN j = {"step", "route", "text", "next", "data", "clear"}

\* A change of the session sets fields to values of their types.
DataTyped(d) ==
  /\ Gives(d, "state") => d.state \in AdminStates
  /\ Gives(d, "wizard") => d.wizard \in Kinds
  /\ Gives(d, "field") => d.field \in Fields
  /\ Gives(d, "target") => d.target \in Targets
  /\ Gives(d, "draft") => d.draft \subseteq DraftItems
  /\ Gives(d, "message") => d.message \in BOOLEAN
UpdateTyped(j) ==
  /\ IsUpdate(j) /\ j.step \in UpdateSteps /\ j.route \in AdminStates /\ j.text \in Texts
  /\ j.next \in ChatSession /\ DataTyped(j.data)
UpdatesTyped == DOMAIN update = Updates /\ \A u \in Updates : UpdateTyped(update[u])
WizardTypes == chat \in ChatSession /\ call \in Service /\ UpdatesTyped

-----------------------------------------------------------------------------
LEMMA FreshTyped ==
  /\ FreshChat \in ChatSession /\ NoCall \in Service /\ UpdateTyped(Free) /\ DataTyped(NoData)
<1>1. FreshChat \in ChatSession
  BY DEF FreshChat, ChatSession, AdminStates, Kinds, Fields, Targets
<1>2. NoCall \in Service
  BY DEF NoCall, Service, Targets, Fields
<1>3. DataTyped(NoData)
  BY DEF DataTyped, NoData, Gives
<1>4. /\ IsUpdate(Free) /\ Free.step = "free" /\ Free.route = "idle" /\ Free.text = "good"
      /\ Free.next = FreshChat /\ Free.data = NoData
  BY DEF Free, IsUpdate
<1> QED BY <1>1, <1>2, <1>3, <1>4 DEF UpdateTyped, UpdateSteps, AdminStates, Texts

LEMMA SetTyped ==
  ASSUME NEW s \in ChatSession, NEW state \in AdminStates, NEW d, DataTyped(d)
  PROVE  SetState(s, state, d) \in ChatSession /\ ClearState(s, FreshChat, {}) \in ChatSession
<1>1. Changed(s, d) \in ChatSession
  BY DEF Changed, ChatSession, DataTyped, Gives
<1>2. ASSUME NEW m \in ChatSession PROVE Changed(m, [state |-> state]) \in ChatSession
  BY DEF Changed, ChatSession
<1>3. ClearState(s, FreshChat, {}) \in ChatSession
  BY FreshTyped DEF ClearState, ChatSession
<1> QED BY <1>1, <1>2, <1>3 DEF SetState

LEMMA FieldsTyped ==
  /\ Elements(PlanFields) \subseteq Fields \cap DraftItems
  /\ Elements(CardFields) \subseteq Fields \cap DraftItems
  /\ Elements(CryptoFields) \subseteq Fields \cap DraftItems
  /\ PlanEdits \cup {""} \subseteq Fields
  /\ GatewayFields \subseteq Fields /\ ReferralFields \subseteq Fields
  /\ {"key", "value", "maxRedemptions"} \subseteq Fields
  /\ {"currency", "planId", "key", "category"} \subseteq DraftItems
BY DEF Fields, DraftItems, PlanEdits

-----------------------------------------------------------------------------
\* A step of u that asks a service for something of its types, or nothing.
LEMMA UpdateStep ==
  ASSUME WizardTypes, NEW u \in Updates, NEW j, UpdateTyped(j), update' = [update EXCEPT ![u] = j],
         chat' \in ChatSession, call' \in Service
  PROVE  WizardTypes'
BY DEF WizardTypes, UpdatesTyped

LEMMA NothingTyped == NothingAsked => call' \in Service
BY FreshTyped DEF NothingAsked

LEMMA DoneTyped ==
  ASSUME WizardTypes, NEW u \in Updates, Done(u) \/ Clears(u), call' \in Service
  PROVE  WizardTypes'
<1> DEFINE j == [Free EXCEPT !.step = "fetch", !.clear = TRUE]
<1>1. /\ IsUpdate(j) /\ j.step = "fetch" /\ j.route = Free.route /\ j.text = Free.text
      /\ j.next = Free.next /\ j.data = Free.data
  BY DEF Free, IsUpdate
<1>2. UpdateTyped(j)
  BY <1>1, FreshTyped DEF UpdateTyped, UpdateSteps
<1>3. Clears(u) => update' = [update EXCEPT ![u] = j]
  BY DEF Clears
<1>4. Done(u) => update' = [update EXCEPT ![u] = Free]
  BY DEF Done
<1>5. chat' \in ChatSession
  BY DEF Done, Clears, WizardTypes
<1> HIDE DEF j
<1> QED BY <1>2, <1>3, <1>4, <1>5, FreshTyped, UpdateStep

LEMMA SetsTyped ==
  ASSUME WizardTypes, NEW u \in Updates, NEW state \in AdminStates, NEW d, DataTyped(d),
         Sets(u, state, d), call' \in Service
  PROVE  WizardTypes'
<1> DEFINE j == [Free EXCEPT !.step = "fetch", !.route = state, !.data = d]
<1>1. /\ IsUpdate(j) /\ j.step = "fetch" /\ j.route = state /\ j.text = Free.text
      /\ j.next = Free.next /\ j.data = d
  BY DEF Free, IsUpdate
<1>2. UpdateTyped(j)
  BY <1>1, FreshTyped DEF UpdateTyped, UpdateSteps
<1>3. update' = [update EXCEPT ![u] = j] /\ chat' \in ChatSession
  BY DEF Sets, WizardTypes
<1> HIDE DEF j
<1> QED BY <1>2, <1>3, UpdateStep

LEMMA AsksTyped ==
  ASSUME NEW w \in Kinds, NEW f \in Fields, NEW draft \in SUBSET DraftItems
  PROVE  DataTyped(Asks(w, f, draft))
BY DEF DataTyped, Asks, Gives

LEMMA EditsTyped ==
  ASSUME NEW w \in Kinds, NEW f \in Fields, NEW target \in Targets
  PROVE  DataTyped(Edits(w, f, target))
BY DEF DataTyped, Edits, Gives

LEMMA TapsTyped ==
  ASSUME WizardTypes, NEW u \in Updates, AdminTap(u)
  PROVE  WizardTypes'
<1> USE FieldsTyped, NothingTyped
<1>s. {"plan", "voucher", "setting", "card", "crypto", "gateway", "referral", "join", "idle",
       "broadcast"} \subseteq AdminStates
  BY DEF AdminStates, WizardStates
<1>k. Kinds = {"none", "plan_create", "plan_edit", "voucher_create", "setting_edit", "card_create",
          "card_edit", "crypto_create", "crypto_edit", "gateway_edit", "referral_edit",
          "join_channel_add"} /\ {"plan", "card", "crypto", "gateway", "setting"} \subseteq Targets
  BY DEF Kinds, Targets
<1>a. ASSUME NEW state \in AdminStates, NEW w \in Kinds, NEW f \in Fields,
             NEW draft \in SUBSET DraftItems, Tapped(u), Sets(u, state, Asks(w, f, draft))
      PROVE  WizardTypes'
  BY <1>a, AsksTyped, SetsTyped DEF Tapped
<1>e. ASSUME NEW state \in AdminStates, NEW w \in Kinds, NEW f \in Fields,
             NEW target \in Targets, Tapped(u), Sets(u, state, Edits(w, f, target))
      PROVE  WizardTypes'
  BY <1>e, EditsTyped, SetsTyped DEF Tapped
<1>1. CASE OnPlanAction(u)
  <2>1. {} \in SUBSET DraftItems /\ "name" \in Fields
    BY FieldSets
  <2> QED BY <1>1, <1>s, <1>k, <1>a, <1>e, <2>1 DEF OnPlanAction
<1>2. CASE OnVoucherAction(u)
  <2>1. {"planId"} \in SUBSET DraftItems
    OBVIOUS
  <2> QED BY <1>2, <1>s, <1>k, <1>a, <2>1 DEF OnVoucherAction
<1>3. CASE OnSettingAction(u)
  <2> DEFINE d == [wizard |-> "setting_edit", field |-> "value", target |-> "setting",
                   draft |-> {"category"}]
  <2>1. {} \in SUBSET DraftItems /\ DataTyped(d)
    BY <1>k DEF DataTyped, Gives
  <2>2. Tapped(u) /\ (Sets(u, "setting", Asks("setting_edit", "key", {})) \/ Sets(u, "setting", d))
    BY <1>3 DEF OnSettingAction
  <2> HIDE DEF d
  <2> QED BY <1>s, <1>k, <1>a, <2>1, <2>2, SetsTyped DEF Tapped
<1>4. CASE OnCardAction(u)
  <2>1. {} \in SUBSET DraftItems /\ "number" \in Fields
    BY FieldSets
  <2> QED BY <1>4, <1>s, <1>k, <1>a, <1>e, <2>1 DEF OnCardAction
<1>5. CASE OnCryptoAction(u)
  <2>1. {"currency"} \in SUBSET DraftItems /\ "address" \in Fields
    BY FieldSets
  <2> QED BY <1>5, <1>s, <1>k, <1>a, <1>e, <2>1 DEF OnCryptoAction
<1>6. CASE OnGatewayAction(u)
  BY <1>6, <1>s, <1>k, <1>e DEF OnGatewayAction
<1>7. CASE OnReferralAction(u)
  <2>1. PICK f \in ReferralFields : Sets(u, "referral", [wizard |-> "referral_edit", field |-> f])
    BY <1>7 DEF OnReferralAction
  <2>2. DataTyped([wizard |-> "referral_edit", field |-> f])
    BY <1>k DEF DataTyped, Gives
  <2> QED BY <1>7, <1>s, <2>1, <2>2, SetsTyped DEF OnReferralAction, Tapped
<1>8. CASE OnMandatoryJoinAction(u)
  <2>2. DataTyped([wizard |-> "join_channel_add"])
    BY <1>k DEF DataTyped, Gives
  <2> QED BY <1>8, <1>s, <2>2, SetsTyped DEF OnMandatoryJoinAction, Tapped
<1>9. CASE ViewBroadcast(u) \/ ShowMenu(u)
  BY <1>9, <1>s, FreshTyped, SetsTyped DEF ViewBroadcast, ShowMenu, Tapped
<1>10. CASE OnCancel(u)
  BY <1>10, DoneTyped DEF OnCancel, Tapped
<1>11. CASE OnBroadcastConfirm(u)
  <2>1. "none" \in Targets /\ "none" \in Fields /\ {} \in SUBSET DraftItems
    BY DEF Targets, Fields
  <2> DEFINE r == [name |-> "broadcast", target |-> "none", field |-> "none", draft |-> {},
                   text |-> "none"]
  <2>a. r \in Service
    BY <2>1 DEF Service
  <2>2. Calls("broadcast", "none", "none", {}, "none") => call' \in Service
    BY <2>a DEF Calls
  <2> QED BY <1>11, <2>2, DoneTyped DEF OnBroadcastConfirm
<1> QED BY <1>1, <1>2, <1>3, <1>4, <1>5, <1>6, <1>7, <1>8, <1>9, <1>10, <1>11 DEF AdminTap

-----------------------------------------------------------------------------
\* The states, names and texts that wizards pass on.
LEMMA CallTyped ==
  ASSUME WizardTypes, NEW u \in Updates, NEW draft \in SUBSET DraftItems,
         NEW target \in {"none", chat.target}
  PROVE  \A service \in {"plans.create", "plans.update", "bankCards.create",
                    "bankCards.update", "cryptoWallets.create", "cryptoWallets.update",
                    "settings.upsert", "gateway.merchant", "gateway.callback", "referral",
                    "channels"} :
           Calls(service, target, chat.field, draft, Text(u)) => call' \in Service
<1>1. chat.target \in Targets /\ chat.field \in Fields /\ "none" \in Targets
  BY DEF WizardTypes, ChatSession, Targets
<1>2. Text(u) \in Texts
  BY DEF WizardTypes, UpdatesTyped, UpdateTyped, Text
<1> QED BY <1>1, <1>2 DEF Calls, Service

LEMMA AcceptedTyped ==
  ASSUME WizardTypes, NEW u \in Updates, NEW draft \in SUBSET DraftItems,
         NEW service \in {"plans.create", "plans.update", "bankCards.create",
                    "bankCards.update", "cryptoWallets.create", "cryptoWallets.update",
                    "settings.upsert", "gateway.merchant", "gateway.callback", "referral",
                    "channels"},
         Accepted(u, service, draft)
  PROVE  WizardTypes'
BY CallTyped, NothingTyped, DoneTyped DEF Accepted

LEMMA CreateTyped ==
  ASSUME WizardTypes, NEW u \in Updates, NEW state \in AdminStates, NEW kind \in Kinds,
         NEW S, NEW fields \in Seq(S), NoneTwice(fields), fields # <<>>,
         Elements(fields) \subseteq Fields \cap DraftItems, NEW skippable,
         NEW service \in {"bankCards.create", "cryptoWallets.create"},
         CreateStep(u, state, kind, fields, skippable, service)
  PROVE  WizardTypes'
<1> DEFINE f == chat.field
           draft == Optional(fields, skippable, u)
<1>1. CASE f \notin Elements(fields)
  <2>1. f # fields[Len(fields)]
    BY <1>1 DEF Elements
  <2>2. Done(u) /\ NothingAsked
    BY <1>1, <2>1 DEF CreateStep
  <2> QED BY <2>2, DoneTyped, NothingTyped
<1>2. CASE f \in Elements(fields)
  <2>1. draft \in SUBSET DraftItems
    BY <1>2 DEF Optional, Drafted, WizardTypes, ChatSession
  <2>2. CASE f = fields[Len(fields)]
    BY <1>2, <2>1, <2>2, AcceptedTyped DEF CreateStep
  <2>3. CASE f # fields[Len(fields)]
    <3>1. After(fields, f) \in Fields
      BY <1>2, <2>3, NextField
    <3>2. Sets(u, state, Asks(kind, After(fields, f), draft)) /\ NothingAsked
      BY <1>2, <2>3 DEF CreateStep
    <3> HIDE DEF draft
    <3> QED BY <2>1, <3>1, <3>2, AsksTyped, SetsTyped, NothingTyped
  <2> QED BY <2>2, <2>3
<1> QED BY <1>1, <1>2

LEMMA PlanTextTyped ==
  ASSUME WizardTypes, NEW u \in Updates, HandlePlanWizardText(u)
  PROVE  WizardTypes'
<1>0. chat.draft \in SUBSET DraftItems /\ {} \in SUBSET DraftItems /\ "plan" \in AdminStates
      /\ "plan_create" \in Kinds
  BY DEF WizardTypes, ChatSession, AdminStates, WizardStates, Kinds
<1>1. CASE chat.wizard = "plan_create"
  <2> DEFINE f == chat.field
  <2>1. PlanCreateStep(u)
    BY <1>1 DEF HandlePlanWizardText
  <2>2. CASE f \notin Elements(PlanFields) \/ (f \in {"price", "durationDays"} /\ Text(u) # "good")
    <3>1. f # "trafficLimitGb"
      BY <2>2, FieldSets
    <3>2. Done(u) /\ NothingAsked
      BY <2>1, <2>2, <3>1 DEF PlanCreateStep
    <3> QED BY <3>2, DoneTyped, NothingTyped
  <2>3. CASE ~(\/ f \notin Elements(PlanFields)
               \/ (f \in {"price", "durationDays"} /\ Text(u) # "good"))
    <3>1. Drafted(f) \in SUBSET DraftItems
      BY <1>0, <2>3, FieldsTyped DEF Drafted
    <3>2. CASE f = "trafficLimitGb"
      <4>1. Clears(u) /\ (Calls("plans.create", "none", f, Drafted(f), Text(u)) \/ NothingAsked)
        BY <2>1, <2>3, <3>2 DEF PlanCreateStep
      <4> QED BY <3>1, <4>1, CallTyped, NothingTyped, DoneTyped
    <3>3. CASE f # "trafficLimitGb"
      <4>1. Sets(u, "plan", Asks("plan_create", After(PlanFields, f), Drafted(f))) /\ NothingAsked
        BY <2>1, <2>3, <3>3 DEF PlanCreateStep
      <4>2. After(PlanFields, f) \in Fields
        BY <2>3, <3>3, FieldLists, NextField, FieldsTyped
      <4> QED BY <1>0, <3>1, <4>1, <4>2, AsksTyped, SetsTyped, NothingTyped
    <3> QED BY <3>2, <3>3
  <2> QED BY <2>2, <2>3
<1>2. CASE chat.wizard # "plan_create"
  <2>1. PlanEditStep(u)
    BY <1>2 DEF HandlePlanWizardText
  <2>2. (Done(u) /\ NothingAsked) \/ (Clears(u) /\
          (Calls("plans.update", chat.target, chat.field, {}, Text(u)) \/ NothingAsked))
    BY <2>1 DEF PlanEditStep
  <2> QED BY <1>0, <2>2, CallTyped, NothingTyped, DoneTyped
<1> QED BY <1>1, <1>2

LEMMA OtherTextsTyped ==
  ASSUME WizardTypes, NEW u \in Updates,
         \/ OnBroadcastText(u) \/ HandleSettingWizardText(u) \/ HandleCardWizardText(u)
         \/ HandleCryptoWizardText(u) \/ HandleGatewayWizardText(u)
         \/ HandleReferralWizardText(u) \/ HandleMandatoryJoinChannelText(u)
  PROVE  WizardTypes'
<1>0. /\ chat.draft \in SUBSET DraftItems /\ {} \in SUBSET DraftItems
      /\ {"setting", "card", "crypto", "confirm"} \subseteq AdminStates
      /\ {"card_create", "crypto_create"} \subseteq Kinds
  BY DEF WizardTypes, ChatSession, AdminStates, WizardStates, Kinds
<1>1. CASE OnBroadcastText(u)
  <2>1. DataTyped([message |-> TRUE])
    BY DEF DataTyped, Gives
  <2> QED BY <1>0, <1>1, <2>1, SetsTyped, DoneTyped, NothingTyped DEF OnBroadcastText
<1>2. CASE HandleSettingWizardText(u)
  <2> DEFINE d == [wizard |-> "setting_edit", field |-> "value",
                   target |-> "newKey", draft |-> Drafted("key")]
  <2>1. Drafted("key") \in SUBSET DraftItems
    BY <1>0, FieldsTyped DEF Drafted
  <2>2. DataTyped(d)
    BY <2>1, FieldsTyped DEF DataTyped, Gives, Kinds, Targets
  <2>3. \/ Sets(u, "setting", d) /\ NothingAsked
        \/ Accepted(u, "settings.upsert", chat.draft)
    BY <1>2 DEF HandleSettingWizardText
  <2> HIDE DEF d
  <2> QED BY <1>0, <2>2, <2>3, SetsTyped, NothingTyped, AcceptedTyped
<1>3. CASE HandleCardWizardText(u)
  <2>1. \/ CreateStep(u, "card", "card_create", CardFields, {"sheba", "label"}, "bankCards.create")
        \/ Done(u) /\ NothingAsked
        \/ Accepted(u, "bankCards.update", {})
    BY <1>3 DEF HandleCardWizardText
  <2> QED BY <1>0, <2>1, FieldLists, FieldsTyped, CreateTyped, DoneTyped, NothingTyped,
      AcceptedTyped
<1>4. CASE HandleCryptoWizardText(u)
  <2>1. \/ CreateStep(u, "crypto", "crypto_create", CryptoFields,
                      {"network", "label", "instructions"}, "cryptoWallets.create")
        \/ Accepted(u, "cryptoWallets.update", {})
    BY <1>4 DEF HandleCryptoWizardText
  <2> QED BY <1>0, <2>1, FieldLists, FieldsTyped, CreateTyped, AcceptedTyped
<1>5. CASE HandleGatewayWizardText(u)
  <2>1. \/ Done(u) /\ NothingAsked
        \/ Accepted(u, "gateway.merchant", {}) \/ Accepted(u, "gateway.callback", {})
    BY <1>5 DEF HandleGatewayWizardText
  <2> QED BY <1>0, <2>1, DoneTyped, NothingTyped, AcceptedTyped
<1>6. CASE HandleReferralWizardText(u) \/ HandleMandatoryJoinChannelText(u)
  <2>1. \/ Done(u) /\ NothingAsked
        \/ Accepted(u, "referral", {}) \/ Accepted(u, "channels", {})
    BY <1>6 DEF HandleReferralWizardText, HandleMandatoryJoinChannelText
  <2> QED BY <1>0, <2>1, DoneTyped, NothingTyped, AcceptedTyped
<1> QED BY <1>1, <1>2, <1>3, <1>4, <1>5, <1>6

-----------------------------------------------------------------------------
LEMMA RoutesTyped ==
  ASSUME WizardTypes, NEW u \in Updates,
         \/ \E text \in Texts : OnText(u, text)
         \/ OnWizardText(u) \/ FetchSession(u) \/ StoreSession(u)
  PROVE  WizardTypes'
<1>0. /\ UpdateTyped(update[u]) /\ chat \in ChatSession /\ chat.state \in AdminStates
      /\ u \in DOMAIN update
  BY DEF WizardTypes, UpdatesTyped, ChatSession
<1>1. ASSUME NEW text \in Texts, OnText(u, text) PROVE WizardTypes'
  <2> DEFINE j == [Free EXCEPT !.text = text,
       !.step = IF chat.state = "broadcast" THEN "handle" ELSE "routed", !.route = chat.state]
  <2>1. /\ IsUpdate(j) /\ j.step \in {"handle", "routed"} /\ j.route = chat.state /\ j.text = text
        /\ j.next = Free.next /\ j.data = Free.data
    BY DEF Free, IsUpdate
  <2>2. UpdateTyped(j)
    BY <1>0, <2>1, FreshTyped DEF UpdateTyped, UpdateSteps
  <2>3. update' = [update EXCEPT ![u] = j] /\ chat' = chat /\ NothingAsked
    BY <1>1 DEF OnText
  <2> HIDE DEF j
  <2> QED BY <1>0, <2>2, <2>3, UpdateStep, NothingTyped
<1>2. CASE OnWizardText(u)
  <2> DEFINE j == [update[u] EXCEPT !.step = "handle", !.route = chat.state]
  <2>1. /\ IsUpdate(j) /\ j.step = "handle" /\ j.route = chat.state /\ j.text = update[u].text
        /\ j.next = update[u].next /\ j.data = update[u].data
    BY <1>0 DEF UpdateTyped, IsUpdate
  <2>2. UpdateTyped(j)
    BY <1>0, <2>1 DEF UpdateTyped, UpdateSteps
  <2>3. /\ update' = [update EXCEPT ![u] = j] \/ update' = [update EXCEPT ![u] = Free]
        /\ chat' = chat /\ NothingAsked
    BY <1>0, <1>2 DEF OnWizardText
  <2> HIDE DEF j
  <2> QED BY <1>0, <2>2, <2>3, FreshTyped, UpdateStep, NothingTyped
<1>3. CASE FetchSession(u)
  <2> DEFINE next == IF update[u].clear THEN ClearState(chat, FreshChat, {})
                     ELSE SetState(chat, update[u].route, update[u].data)
             j == [update[u] EXCEPT !.step = "store", !.next = next]
  <2>1. next \in ChatSession
    BY <1>0, SetTyped DEF UpdateTyped
  <2>2. /\ IsUpdate(j) /\ j.step = "store" /\ j.route = update[u].route /\ j.text = update[u].text
        /\ j.next = next /\ j.data = update[u].data
    BY <1>0 DEF UpdateTyped, IsUpdate
  <2>3. update' = [update EXCEPT ![u] = j] /\ chat' = chat /\ NothingAsked
    BY <1>0, <1>3 DEF FetchSession
  <2> HIDE DEF j, next
  <2>4. UpdateTyped(j)
    BY <1>0, <2>1, <2>2 DEF UpdateTyped, UpdateSteps
  <2> QED BY <1>0, <2>3, <2>4, UpdateStep, NothingTyped
<1>4. CASE StoreSession(u)
  <2>1. chat' \in ChatSession /\ NothingAsked /\ update' = [update EXCEPT ![u] = Free]
    BY <1>0, <1>4 DEF StoreSession, UpdateTyped
  <2> QED BY <2>1, FreshTyped, UpdateStep, NothingTyped
<1> QED BY <1>1, <1>2, <1>3, <1>4

LEMMA WizardTypesStart == AdminInit => WizardTypes
BY FreshTyped DEF AdminInit, WizardTypes, UpdatesTyped

LEMMA WizardTypesKeep == WizardTypes /\ [AdminNext]_adminVars => WizardTypes'
<1> SUFFICES ASSUME WizardTypes, [AdminNext]_adminVars PROVE WizardTypes'
  OBVIOUS
<1>1. CASE ChatExpires
  BY <1>1, FreshTyped, NothingTyped DEF ChatExpires, WizardTypes, UpdatesTyped
<1>2. CASE UNCHANGED adminVars
  BY <1>2 DEF adminVars, WizardTypes, UpdatesTyped
<1>3. ASSUME NEW u \in Updates, AdminText(u) PROVE WizardTypes'
  BY <1>3, RoutesTyped, PlanTextTyped, OtherTextsTyped DEF AdminText
<1> QED BY <1>1, <1>2, <1>3, TapsTyped, RoutesTyped DEF AdminNext

LEMMA WizardTypesHold == WizardTypes => AdminTypeOK
BY DEF WizardTypes, UpdatesTyped, UpdateTyped, AdminTypeOK

\* However many updates of the chat are handled at once, and whichever reads and
\* writes of the session they interleave, session, drafts and what a service is
\* asked for keep their types.
THEOREM AdminTypesKept == AdminSpec => []AdminTypeOK
BY WizardTypesStart, WizardTypesKeep, WizardTypesHold, PTL DEF AdminSpec
-----------------------------------------------------------------------------
(* The draft of a plan, with any number of updates at once: wizard, field   *)
(* and draft are written together or not at all, so whatever is read again *)
(* before it is written, they belong together.                             *)

PlanKept(s) ==
  s.wizard = "plan_create" =>
    s.field \in Elements(PlanFields) /\ s.draft = Before(PlanFields, s.field)
PlanGiven(d) ==
  IF ~Gives(d, "wizard") THEN ~Gives(d, "field") /\ ~Gives(d, "draft")
  ELSE d.wizard = "plan_create" =>
         /\ Gives(d, "field") /\ Gives(d, "draft")
         /\ d.field \in Elements(PlanFields) /\ d.draft = Before(PlanFields, d.field)
PlanInv ==
  /\ PlanKept(chat)
  /\ \A u \in Updates : PlanKept(update[u].next) /\ PlanGiven(update[u].data)
  /\ PlansAreWhole

-----------------------------------------------------------------------------
LEMMA FreshPlans ==
  /\ PlanKept(FreshChat) /\ PlanKept(Free.next) /\ PlanGiven(Free.data)
  /\ PlanGiven(NoData) /\ PlanGiven([message |-> TRUE])
BY DEF PlanKept, PlanGiven, FreshChat, Free, NoData, Gives

LEMMA NothingPlanned ==
  /\ NothingAsked => PlansAreWhole'
  /\ \A service, target, field, draft, text :
       service # "plans.create" /\ Calls(service, target, field, draft, text) => PlansAreWhole'
BY DEF NothingAsked, NoCall, Calls, PlansAreWhole

LEMMA PlanMerges ==
  ASSUME NEW s \in ChatSession, PlanKept(s), NEW state \in AdminStates, NEW d, PlanGiven(d)
  PROVE  PlanKept(SetState(s, state, d)) /\ PlanKept(ClearState(s, FreshChat, {}))
<1> DEFINE n == SetState(s, state, d)
<1>1. /\ n.wizard = IF Gives(d, "wizard") THEN d.wizard ELSE s.wizard
      /\ n.field = IF Gives(d, "field") THEN d.field ELSE s.field
      /\ n.draft = IF Gives(d, "draft") THEN d.draft ELSE s.draft
  BY DEF SetState, Changed, ChatSession, Gives
<1>2. PlanKept(n)
  BY <1>1 DEF PlanKept, PlanGiven
<1>3. ClearState(s, FreshChat, {}).wizard = "none"
  BY DEF ClearState, ChatSession, FreshChat
<1>4. PlanKept(ClearState(s, FreshChat, {}))
  BY <1>3 DEF PlanKept
<1> QED BY <1>2, <1>4

\* A step of u.
LEMMA PlanStep ==
  ASSUME WizardTypes, PlanInv, NEW u \in Updates, NEW j, PlanKept(j.next), PlanGiven(j.data),
         update' = [update EXCEPT ![u] = j], PlanKept(chat'), PlansAreWhole'
  PROVE  PlanInv'
BY DEF PlanInv, WizardTypes, UpdatesTyped

LEMMA PlanEnds ==
  ASSUME WizardTypes, PlanInv, NEW u \in Updates, Done(u) \/ Clears(u), PlansAreWhole'
  PROVE  PlanInv'
<1> DEFINE j == [Free EXCEPT !.step = "fetch", !.clear = TRUE]
<1>1. j.next = Free.next /\ j.data = Free.data
  BY DEF Free
<1>2. Clears(u) => update' = [update EXCEPT ![u] = j]
  BY DEF Clears
<1>3. Done(u) => update' = [update EXCEPT ![u] = Free]
  BY DEF Done
<1>4. PlanKept(chat')
  BY DEF Done, Clears, PlanInv
<1> HIDE DEF j
<1> QED BY <1>1, <1>2, <1>3, <1>4, FreshPlans, PlanStep

LEMMA PlanSets ==
  ASSUME WizardTypes, PlanInv, NEW u \in Updates, NEW state, NEW d, PlanGiven(d),
         Sets(u, state, d), PlansAreWhole'
  PROVE  PlanInv'
<1> DEFINE j == [Free EXCEPT !.step = "fetch", !.route = state, !.data = d]
<1>1. j.next = Free.next /\ j.data = d
  BY DEF Free
<1>2. update' = [update EXCEPT ![u] = j] /\ PlanKept(chat')
  BY DEF Sets, PlanInv
<1> HIDE DEF j
<1> QED BY <1>1, <1>2, FreshPlans, PlanStep

LEMMA PlanAccepted ==
  ASSUME WizardTypes, PlanInv, NEW u \in Updates, NEW service, service # "plans.create",
         NEW draft, Accepted(u, service, draft)
  PROVE  PlanInv'
<1>1. PlansAreWhole'
  BY NothingPlanned DEF Accepted
<1> QED BY <1>1, PlanEnds DEF Accepted

\* What the other wizards write is about no plan to create.
LEMMA OthersGive ==
  /\ \A w, f, draft : w # "plan_create" => PlanGiven(Asks(w, f, draft))
  /\ \A w, f, target : w # "plan_create" => PlanGiven(Edits(w, f, target))
  /\ \A f \in Elements(PlanFields) :
       PlanGiven(Asks("plan_create", f, Before(PlanFields, f)))
BY DEF PlanGiven, Asks, Edits, Gives

LEMMA OtherCreates ==
  ASSUME WizardTypes, PlanInv, NEW u \in Updates, NEW state, NEW kind, kind # "plan_create",
         NEW fields, NEW skippable, NEW service, service # "plans.create",
         CreateStep(u, state, kind, fields, skippable, service)
  PROVE  PlanInv'
<1> DEFINE draft == Optional(fields, skippable, u)
<1>1. \/ Done(u) /\ NothingAsked
      \/ Accepted(u, service, draft)
      \/ Sets(u, state, Asks(kind, After(fields, chat.field), draft)) /\ NothingAsked
  BY DEF CreateStep
<1> HIDE DEF draft
<1> QED BY <1>1, NothingPlanned, OthersGive, PlanEnds, PlanAccepted, PlanSets

-----------------------------------------------------------------------------
LEMMA PlanTaps ==
  ASSUME WizardTypes, PlanInv, NEW u \in Updates, AdminTap(u)
  PROVE  PlanInv'
<1>1. CASE OnBroadcastConfirm(u)
  <2>1. Clears(u) /\ (NothingAsked \/ Calls("broadcast", "none", "none", {}, "none"))
    BY <1>1 DEF OnBroadcastConfirm
  <2> QED BY <2>1, NothingPlanned, PlanEnds
<1>2. CASE OnCancel(u)
  BY <1>2, NothingPlanned, PlanEnds DEF OnCancel, Tapped
<1>3. CASE ~OnBroadcastConfirm(u) /\ ~OnCancel(u)
  <2>1. PlansAreWhole'
    BY <1>3, NothingPlanned DEF AdminTap, Tapped, OnPlanAction, OnVoucherAction, OnSettingAction,
          OnCardAction, OnCryptoAction, OnGatewayAction, OnReferralAction, OnMandatoryJoinAction,
          ViewBroadcast, ShowMenu
  <2>2. PlanGiven(Asks("plan_create", "name", {}))
    BY OthersGive, FirstFields, FieldSets
  <2>3. CASE OnPlanAction(u)
    BY <2>1, <2>2, <2>3, OthersGive, PlanSets DEF OnPlanAction
  <2>4. CASE OnVoucherAction(u) \/ OnCardAction(u) \/ OnCryptoAction(u) \/ OnGatewayAction(u)
    BY <2>1, <2>4, OthersGive, PlanSets
       DEF OnVoucherAction, OnCardAction, OnCryptoAction, OnGatewayAction
  <2>5. CASE OnSettingAction(u)
    <3>1. PlanGiven([wizard |-> "setting_edit", field |-> "value", target |-> "setting",
                     draft |-> {"category"}])
      BY DEF PlanGiven, Gives
    <3> QED BY <2>1, <2>5, <3>1, OthersGive, PlanSets DEF OnSettingAction
  <2>6. CASE OnReferralAction(u)
    <3>1. \A f : PlanGiven([wizard |-> "referral_edit", field |-> f])
      BY DEF PlanGiven, Gives
    <3> QED BY <2>1, <2>6, <3>1, PlanSets DEF OnReferralAction
  <2>7. CASE OnMandatoryJoinAction(u)
    <3>1. PlanGiven([wizard |-> "join_channel_add"])
      BY DEF PlanGiven, Gives
    <3> QED BY <2>1, <2>7, <3>1, PlanSets DEF OnMandatoryJoinAction
  <2>8. CASE ViewBroadcast(u) \/ ShowMenu(u)
    BY <2>1, <2>8, FreshPlans, PlanSets DEF ViewBroadcast, ShowMenu
  <2> QED BY <1>3, <2>3, <2>4, <2>5, <2>6, <2>7, <2>8 DEF AdminTap
<1> QED BY <1>1, <1>2, <1>3

\* The handler works with one read of the session: field and draft match.
LEMMA PlanTexts ==
  ASSUME WizardTypes, PlanInv, NEW u \in Updates, HandlePlanWizardText(u)
  PROVE  PlanInv'
<1>1. CASE chat.wizard = "plan_create"
  <2> DEFINE f == chat.field
             d == Drafted(f)
  <2>1. f \in Elements(PlanFields) /\ chat.draft = Before(PlanFields, f)
    BY <1>1 DEF PlanInv, PlanKept
  <2>2. f # "trafficLimitGb" => /\ After(PlanFields, f) \in Elements(PlanFields)
                                /\ d = Before(PlanFields, After(PlanFields, f))
    BY <2>1, FieldLists, NextField DEF Drafted
  <2>3. f = "trafficLimitGb" => d = Elements(PlanFields)
    BY <2>1, FieldLists, LastField DEF Drafted
  <2>4. PlanCreateStep(u)
    BY <1>1 DEF HandlePlanWizardText
  <2>5. CASE Done(u) /\ NothingAsked
    BY <2>5, PlanEnds, NothingPlanned
  <2>6. CASE f = "trafficLimitGb" /\ Clears(u)
             /\ (NothingAsked \/ Calls("plans.create", "none", f, d, Text(u)))
    <3>1. PlansAreWhole'
      BY <2>3, <2>6, NothingPlanned DEF Calls, PlansAreWhole
    <3> QED BY <2>6, <3>1, PlanEnds
  <2>7. CASE f # "trafficLimitGb" /\ NothingAsked
             /\ Sets(u, "plan", Asks("plan_create", After(PlanFields, f), d))
    BY <2>2, <2>7, OthersGive, PlanSets, NothingPlanned
  <2> HIDE DEF d
  <2> QED BY <2>4, <2>5, <2>6, <2>7 DEF PlanCreateStep, d
<1>2. CASE chat.wizard # "plan_create"
  <2>1. \/ Done(u) /\ NothingAsked
        \/ /\ Clears(u)
           /\ NothingAsked \/ Calls("plans.update", chat.target, chat.field, {}, Text(u))
    BY <1>2 DEF HandlePlanWizardText, PlanEditStep
  <2> QED BY <2>1, PlanEnds, NothingPlanned
<1> QED BY <1>1, <1>2

LEMMA OtherTexts ==
  ASSUME WizardTypes, PlanInv, NEW u \in Updates,
         \/ OnBroadcastText(u) \/ HandleSettingWizardText(u) \/ HandleCardWizardText(u)
         \/ HandleCryptoWizardText(u) \/ HandleGatewayWizardText(u)
         \/ HandleReferralWizardText(u) \/ HandleMandatoryJoinChannelText(u)
  PROVE  PlanInv'
<1>1. CASE OnBroadcastText(u)
  BY <1>1, FreshPlans, PlanSets, PlanEnds, NothingPlanned DEF OnBroadcastText
<1>2. CASE HandleSettingWizardText(u)
  <2>1. \A draft : PlanGiven([wizard |-> "setting_edit", field |-> "value",
                              target |-> "newKey", draft |-> draft])
    BY DEF PlanGiven, Gives
  <2>2. \/ /\ Sets(u, "setting", [wizard |-> "setting_edit", field |-> "value",
                                  target |-> "newKey", draft |-> Drafted("key")])
           /\ NothingAsked
        \/ Accepted(u, "settings.upsert", chat.draft)
    BY <1>2 DEF HandleSettingWizardText
  <2> QED BY <2>1, <2>2, PlanSets, PlanAccepted, NothingPlanned
<1>3. CASE HandleCardWizardText(u)
  <2>1. \/ CreateStep(u, "card", "card_create", CardFields, {"sheba", "label"}, "bankCards.create")
        \/ Done(u) /\ NothingAsked
        \/ Accepted(u, "bankCards.update", {})
    BY <1>3 DEF HandleCardWizardText
  <2> QED BY <2>1, OtherCreates, PlanEnds, PlanAccepted, NothingPlanned
<1>4. CASE HandleCryptoWizardText(u)
  <2>1. \/ CreateStep(u, "crypto", "crypto_create", CryptoFields,
                      {"network", "label", "instructions"}, "cryptoWallets.create")
        \/ Accepted(u, "cryptoWallets.update", {})
    BY <1>4 DEF HandleCryptoWizardText
  <2> QED BY <2>1, OtherCreates, PlanAccepted
<1>5. CASE HandleGatewayWizardText(u) \/ HandleReferralWizardText(u)
           \/ HandleMandatoryJoinChannelText(u)
  <2>1. \/ Done(u) /\ NothingAsked
        \/ Accepted(u, "gateway.merchant", {}) \/ Accepted(u, "gateway.callback", {})
        \/ Accepted(u, "referral", {}) \/ Accepted(u, "channels", {})
    BY <1>5 DEF HandleGatewayWizardText, HandleReferralWizardText, HandleMandatoryJoinChannelText
  <2> QED BY <2>1, PlanEnds, PlanAccepted, NothingPlanned
<1> QED BY <1>1, <1>2, <1>3, <1>4, <1>5

LEMMA PlanReads ==
  ASSUME WizardTypes, PlanInv, NEW u \in Updates,
         \/ \E text \in Texts : OnText(u, text)
         \/ OnWizardText(u) \/ FetchSession(u) \/ StoreSession(u)
  PROVE  PlanInv'
<1>0. /\ UpdateTyped(update[u]) /\ chat \in ChatSession /\ u \in DOMAIN update
      /\ PlanKept(chat) /\ PlanKept(update[u].next) /\ PlanGiven(update[u].data)
  BY DEF WizardTypes, UpdatesTyped, PlanInv
<1>1. PlansAreWhole'
  BY NothingPlanned DEF OnText, OnWizardText, FetchSession, StoreSession
<1>2. ASSUME NEW text \in Texts, OnText(u, text) PROVE PlanInv'
  <2> DEFINE j == [Free EXCEPT !.text = text,
       !.step = IF chat.state = "broadcast" THEN "handle" ELSE "routed", !.route = chat.state]
  <2>1. j.next = Free.next /\ j.data = Free.data
    BY DEF Free
  <2>2. update' = [update EXCEPT ![u] = j] /\ chat' = chat
    BY <1>2 DEF OnText
  <2> HIDE DEF j
  <2> QED BY <1>0, <1>1, <2>1, <2>2, FreshPlans, PlanStep
<1>3. CASE OnWizardText(u)
  <2> DEFINE j == [update[u] EXCEPT !.step = "handle", !.route = chat.state]
  <2>1. j.next = update[u].next /\ j.data = update[u].data
    BY <1>0 DEF UpdateTyped, IsUpdate
  <2>2. /\ update' = [update EXCEPT ![u] = j] \/ update' = [update EXCEPT ![u] = Free]
        /\ chat' = chat
    BY <1>0, <1>3 DEF OnWizardText
  <2> HIDE DEF j
  <2> QED BY <1>0, <1>1, <2>1, <2>2, FreshPlans, PlanStep
<1>4. CASE FetchSession(u)
  <2> DEFINE next == IF update[u].clear THEN ClearState(chat, FreshChat, {})
                     ELSE SetState(chat, update[u].route, update[u].data)
             j == [update[u] EXCEPT !.step = "store", !.next = next]
  <2>1. PlanKept(next)
    BY <1>0, PlanMerges DEF UpdateTyped
  <2>2. j.next = next /\ j.data = update[u].data
    BY <1>0 DEF UpdateTyped, IsUpdate
  <2>3. update' = [update EXCEPT ![u] = j] /\ chat' = chat
    BY <1>0, <1>4 DEF FetchSession
  <2> HIDE DEF j, next
  <2> QED BY <1>0, <1>1, <2>1, <2>2, <2>3, PlanStep
<1>5. CASE StoreSession(u)
  <2>1. chat' = update[u].next /\ update' = [update EXCEPT ![u] = Free]
    BY <1>5 DEF StoreSession
  <2> QED BY <1>0, <1>1, <2>1, FreshPlans, PlanStep
<1> QED BY <1>2, <1>3, <1>4, <1>5

LEMMA PlansStart == AdminInit => PlanInv
BY FreshPlans DEF AdminInit, PlanInv, PlansAreWhole, NoCall

LEMMA PlansKeep == WizardTypes /\ PlanInv /\ [AdminNext]_adminVars => PlanInv'
<1> SUFFICES ASSUME WizardTypes, PlanInv, [AdminNext]_adminVars PROVE PlanInv'
  OBVIOUS
<1>1. CASE ChatExpires
  BY <1>1, FreshPlans, NothingPlanned DEF ChatExpires, PlanInv
<1>2. CASE UNCHANGED adminVars
  BY <1>2 DEF adminVars, PlanInv, PlansAreWhole
<1>3. ASSUME NEW u \in Updates, AdminText(u) PROVE PlanInv'
  BY <1>3, PlanReads, PlanTexts, OtherTexts DEF AdminText
<1> QED BY <1>1, <1>2, <1>3, PlanTaps, PlanReads DEF AdminNext

\* However many updates of the chat are handled at once, a plan is created
\* with the fields of a plan, every one of them and no other.
THEOREM PlansAreCreatedWhole == AdminSpec => []PlansAreWhole
<1>1. PlanInv => PlansAreWhole
  BY DEF PlanInv
<1> QED BY <1>1, WizardTypesStart, WizardTypesKeep, PlansStart, PlansKeep, PTL DEF AdminSpec
=============================================================================
