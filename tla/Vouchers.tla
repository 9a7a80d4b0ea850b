------------------------------ MODULE Vouchers ------------------------------
(***************************************************************************)
(* VouchersService: an administrator mints codes bound to a plan, and a    *)
(* user who redeems one gets a subscription of that plan at once. A code   *)
(* may have several uses, but each user has only one of them.              *)
(*                                                                         *)
(* redeem checks the code twice: before the transaction, to fail fast, and *)
(* inside it after SELECT ... FOR UPDATE. The transaction is two steps     *)
(* here, Recheck and Activate; holder is the row lock between them, which  *)
(* also keeps every other writer of the row waiting. The panel is called   *)
(* after the commit; Provisioning models that call.                        *)
(*                                                                         *)
(* Left out: the BALANCE type, which redeem refuses, the overrides of the  *)
(* plan's quota, which redeem does not apply, and the notes.               *)
(***************************************************************************)
EXTENDS Naturals, FiniteSets

CONSTANTS
  Codes, Redeemers,
  Attempts,      \* calls of redeem
  MaxUses,       \* bound: the largest limit an administrator gives
  NoCode, NoAttempt

ASSUME VoucherAssumption ==
  /\ MaxUses \in Nat \ {0}
  /\ NoAttempt \notin Attempts

VARIABLES
  voucher,     \* vouchers: each code's row, NoCode before it is minted
  redemption,  \* voucher_redemptions, each with the subscription it activated
  holder,      \* the transaction that locked the row of a code
  planEnabled, \* plans.isEnabled of the plan the codes are bound to
  attempt      \* volatile: what each call of redeem knows

voucherVars == <<voucher, redemption, holder, planEnabled, attempt>>

Voucher == [active : BOOLEAN, expired : BOOLEAN, uses : 0..MaxUses, limit : 1..MaxUses]
Redemption == [code : Codes, user : Redeemers, subscription : Attempts]
AttemptSteps ==
  {"new", "checked", "locked", "activated", "delivered", "undelivered", "refused", "lost"}
Attempt == [step : AttemptSteps, code : Codes, user : Redeemers, uses : 0..MaxUses]

ASSUME NoCodeAssumption == NoCode \notin Voucher

VoucherTypeOK ==
  /\ voucher \in [Codes -> Voucher \cup {NoCode}]
  /\ redemption \subseteq Redemption
  /\ holder \in [Codes -> Attempts \cup {NoAttempt}]
  /\ planEnabled \in BOOLEAN
  /\ attempt \in [Attempts -> Attempt]

VoucherInit ==
  /\ voucher = [c \in Codes |-> NoCode]
  /\ redemption = {}
  /\ holder = [c \in Codes |-> NoAttempt]
  /\ planEnabled = TRUE
  /\ attempt \in [Attempts -> {a \in Attempt : a.step = "new" /\ a.uses = 0}]

Redeemable(v) == v # NoCode /\ v.active /\ ~v.expired /\ v.uses < v.limit
UsedBy(c, u) == \E r \in redemption : r.code = c /\ r.user = u
Unlocked(c) == holder[c] = NoAttempt
AttemptAt(a, step) == attempt[a].step = step
AttemptGoes(a, step) == attempt' = [attempt EXCEPT ![a].step = step]

-----------------------------------------------------------------------------
(* The administrator. An UPDATE waits for the row's lock.                  *)

Generate(c, limit) ==
  /\ voucher[c] = NoCode /\ planEnabled
  /\ voucher' = [voucher EXCEPT
       ![c] = [active |-> TRUE, expired |-> FALSE, uses |-> 0, limit |-> limit]]
  /\ UNCHANGED <<redemption, holder, planEnabled, attempt>>

EditVoucher(c, v) ==
  /\ voucher[c] # NoCode /\ Unlocked(c) /\ v # voucher[c]
  /\ voucher' = [voucher EXCEPT ![c] = v]
  /\ UNCHANGED <<redemption, holder, planEnabled, attempt>>

DisableVoucher(c) == EditVoucher(c, [voucher[c] EXCEPT !.active = FALSE])

UpdateVoucher(c) ==
  \/ \E limit \in 1..MaxUses : EditVoucher(c, [voucher[c] EXCEPT !.limit = limit])
  \/ EditVoucher(c, [voucher[c] EXCEPT !.expired = FALSE])

(* Time passes whatever is locked. *)
VoucherExpires(c) ==
  /\ voucher[c] # NoCode /\ ~voucher[c].expired
  /\ voucher' = [voucher EXCEPT ![c].expired = TRUE]
  /\ UNCHANGED <<redemption, holder, planEnabled, attempt>>

TogglePlan ==
  /\ planEnabled' = ~planEnabled
  /\ UNCHANGED <<voucher, redemption, holder, attempt>>

-----------------------------------------------------------------------------
(* redeem.                                                                 *)

Preflight(a) ==
  LET passes == Redeemable(voucher[attempt[a].code]) /\ planEnabled
  IN /\ AttemptAt(a, "new")
     /\ AttemptGoes(a, IF passes THEN "checked" ELSE "refused")
     /\ UNCHANGED <<voucher, redemption, holder, planEnabled>>

(* Mutant: the transaction trusts the checks made before it began. *)
RecheckNothing(a) ==
  LET c == attempt[a].code
  IN /\ AttemptAt(a, "checked") /\ Unlocked(c)
     /\ attempt' = [attempt EXCEPT ![a] =
          [@ EXCEPT !.step = "locked", !.uses = voucher[c].uses]]
     /\ holder' = [holder EXCEPT ![c] = a]
     /\ UNCHANGED <<voucher, redemption, planEnabled>>

(* Mutant: the row is read without FOR UPDATE. *)
RecheckUnlocked(a) ==
  LET c == attempt[a].code
  IN /\ AttemptAt(a, "checked")
     /\ Redeemable(voucher[c]) /\ ~UsedBy(c, attempt[a].user)
     /\ attempt' = [attempt EXCEPT ![a] =
          [@ EXCEPT !.step = "locked", !.uses = voucher[c].uses]]
     /\ UNCHANGED <<voucher, redemption, holder, planEnabled>>

Recheck(a) ==
  LET c == attempt[a].code
  IN /\ AttemptAt(a, "checked") /\ Unlocked(c)
     /\ \/ /\ Redeemable(voucher[c]) /\ ~UsedBy(c, attempt[a].user)
           /\ attempt' = [attempt EXCEPT ![a] =
                [@ EXCEPT !.step = "locked", !.uses = voucher[c].uses]]
           /\ holder' = [holder EXCEPT ![c] = a]
        \/ /\ ~Redeemable(voucher[c]) \/ UsedBy(c, attempt[a].user)
           /\ AttemptGoes(a, "refused")
           /\ UNCHANGED holder
     /\ UNCHANGED <<voucher, redemption, planEnabled>>

EndTransaction(a, step) ==
  /\ AttemptGoes(a, step)
  /\ holder' = [c \in Codes |-> IF holder[c] = a THEN NoAttempt ELSE holder[c]]

(* The subscription, the redemption and the count are one commit; the      *)
(* count is written from what the transaction read.                        *)
Activate(a) ==
  LET c == attempt[a].code
      used == attempt[a].uses + 1
  IN /\ AttemptAt(a, "locked")
     /\ redemption' = redemption \cup
          {[code |-> c, user |-> attempt[a].user, subscription |-> a]}
     /\ voucher' = [voucher EXCEPT ![c] = [@ EXCEPT !.uses = used,
                                                    !.active = used < voucher[c].limit]]
     /\ EndTransaction(a, "activated")
     /\ UNCHANGED planEnabled

Rollback(a) ==
  /\ AttemptAt(a, "locked")
  /\ EndTransaction(a, "refused")
  /\ UNCHANGED <<voucher, redemption, planEnabled>>

(* createVpnUserForSubscription returns or throws after the commit. *)
ProvisionRedeemed(a) ==
  /\ AttemptAt(a, "activated")
  /\ \E answer \in {"delivered", "undelivered"} : AttemptGoes(a, answer)
  /\ UNCHANGED <<voucher, redemption, holder, planEnabled>>

(* The process stops: PostgreSQL rolls the open transaction back. *)
RedeemLost(a) ==
  /\ attempt[a].step \in {"checked", "locked", "activated"}
  /\ EndTransaction(a, "lost")
  /\ UNCHANGED <<voucher, redemption, planEnabled>>

RedeemStep(a) == Preflight(a) \/ Recheck(a) \/ Activate(a) \/ ProvisionRedeemed(a)

VoucherNext ==
  \/ TogglePlan
  \/ \E c \in Codes : DisableVoucher(c) \/ UpdateVoucher(c) \/ VoucherExpires(c)
  \/ \E c \in Codes, limit \in 1..MaxUses : Generate(c, limit)
  \/ \E a \in Attempts : RedeemStep(a) \/ Rollback(a) \/ RedeemLost(a)

VoucherSpec == VoucherInit /\ [][VoucherNext]_voucherVars

-----------------------------------------------------------------------------
(* vouchers.redemptions counts the redemptions there are, each gave a      *)
(* subscription of its own, and no user redeemed one code twice, however   *)
(* many calls of redeem overlap.                                           *)
RedemptionsAreCounted ==
  /\ \A c \in Codes :
       voucher[c] # NoCode =>
         voucher[c].uses = Cardinality({r \in redemption : r.code = c})
  /\ \A r, s \in redemption :
       (r.code = s.code /\ r.user = s.user) \/ r.subscription = s.subscription => r = s

(* "Admin disables a voucher so it can no longer be redeemed": from then   *)
(* on no step activates anything with it, and a redemption under way does  *)
(* not set isActive again when it writes !exhausted.                       *)
DisabledForGood ==
  [][\A c \in Codes : voucher[c] # NoCode /\ ~voucher[c].active =>
        /\ ~voucher'[c].active
        /\ \A r \in redemption' \ redemption : r.code # c]_voucherVars
=============================================================================
