-------------------------- MODULE OperationsProofs --------------------------
(***************************************************************************)
(* Proofs about the components of MCOperations: vouchers, the rewards of   *)
(* invitations, panel sessions and the panel inventory, for any number of  *)
(* redemptions, codes, users, mints, readers and synchronisations, in any  *)
(* interleaving; and the components side by side, with what                *)
(* StatementsProofs and ChatProofs prove of theirs.                        *)
(***************************************************************************)
EXTENDS MCOperations, StatementsProofs, ChatProofs, FiniteSetTheorems

-----------------------------------------------------------------------------
(* Vouchers: the count of a code is that of its redemptions, no user has two *)
(* of one code, and a disabled code activates nothing.                     *)

RedemptionsOf(c) == {r \in redemption : r.code = c}

Code(a) == attempt[a].code

\* What a transaction has read under the row's lock still holds: nobody else
\* counts, disables or redeems for this user meanwhile.
LockedOK(a) ==
  attempt[a].step = "locked" =>
    /\ holder[Code(a)] = a
    /\ voucher[Code(a)] # NoCode /\ voucher[Code(a)].active
    /\ attempt[a].uses = voucher[Code(a)].uses
    /\ voucher[Code(a)].uses < voucher[Code(a)].limit
    /\ ~UsedBy(Code(a), attempt[a].user)

\* A redemption is of a code there is, by a call that has got as far as that.
RedemptionOK(r) ==
  /\ voucher[r.code] # NoCode
  /\ attempt[r.subscription].step \in {"activated", "delivered", "undelivered", "lost"}

Counted ==
  \A c \in Codes : voucher[c] # NoCode => voucher[c].uses = Cardinality(RedemptionsOf(c))

Distinct ==
  \A r, s \in redemption :
    (r.code = s.code /\ r.user = s.user) \/ r.subscription = s.subscription => r = s

VoucherInv ==
  /\ VoucherTypeOK
  /\ \A a \in Attempts : LockedOK(a)
  /\ \A r \in redemption : RedemptionOK(r)
  /\ IsFiniteSet(redemption) /\ Counted /\ Distinct

-----------------------------------------------------------------------------
LEMMA InitVoucher == VoucherInit => VoucherInv
<1> SUFFICES ASSUME VoucherInit PROVE VoucherInv
  OBVIOUS
<1>1. VoucherTypeOK
  BY DEF VoucherInit, VoucherTypeOK
<1>2. \A a \in Attempts : attempt[a].step = "new"
  BY DEF VoucherInit
<1>3. IsFiniteSet(redemption)
  BY FS_EmptySet DEF VoucherInit
<1> QED BY <1>1, <1>2, <1>3 DEF VoucherInv, VoucherInit, LockedOK, Counted, Distinct

\* The rows of the codes change in a way that no transaction minds.
LEMMA RowStep ==
  ASSUME VoucherInv, voucher' \in [Codes -> Voucher \cup {NoCode}], planEnabled' \in BOOLEAN,
         UNCHANGED <<redemption, holder, attempt>>,
         \A c \in Codes : voucher[c] # NoCode =>
           voucher'[c] # NoCode /\ voucher'[c].uses = voucher[c].uses,
         \A c \in Codes : voucher[c] # NoCode /\ ~Unlocked(c) =>
           voucher'[c].active = voucher[c].active /\ voucher'[c].limit = voucher[c].limit,
         \A c \in Codes : voucher[c] = NoCode /\ voucher'[c] # NoCode => voucher'[c].uses = 0
  PROVE  VoucherInv'
<1>1. VoucherTypeOK'
  BY DEF VoucherInv, VoucherTypeOK
<1>2. \A a \in Attempts : attempt[a].code \in Codes
  BY DEF VoucherInv, VoucherTypeOK, Attempt
<1>3. ASSUME NEW a \in Attempts PROVE LockedOK(a)'
  <2>1. attempt[a].step = "locked" => ~Unlocked(Code(a)) /\ Code(a) \in Codes
    BY <1>2, VoucherAssumption DEF VoucherInv, LockedOK, Unlocked, Code
  <2> QED BY <2>1 DEF VoucherInv, LockedOK, Code, UsedBy
<1>4. ASSUME NEW r \in redemption PROVE RedemptionOK(r)'
  <2>1. r.code \in Codes
    BY DEF VoucherInv, VoucherTypeOK, Redemption
  <2> QED BY <2>1 DEF VoucherInv, RedemptionOK
<1>5. ASSUME NEW c \in Codes, voucher'[c] # NoCode
      PROVE  voucher'[c].uses = Cardinality(RedemptionsOf(c)')
  <2>1. RedemptionsOf(c)' = RedemptionsOf(c)
    BY DEF RedemptionsOf
  <2>2. CASE voucher[c] # NoCode
    BY <1>5, <2>1, <2>2 DEF VoucherInv, Counted
  <2>3. CASE voucher[c] = NoCode
    <3>1. RedemptionsOf(c) = {}
      BY <2>3 DEF VoucherInv, RedemptionOK, RedemptionsOf
    <3> QED BY <1>5, <2>1, <2>3, <3>1, FS_EmptySet
  <2> QED BY <2>2, <2>3
<1>6. Counted'
  BY <1>5 DEF Counted, RedemptionsOf
<1> QED BY <1>1, <1>3, <1>4, <1>6 DEF VoucherInv, Distinct

\* A call of redeem goes on and the rows stay: it does not get the lock, and if it
\* had one it gives it back.
LEMMA CallStep ==
  ASSUME VoucherInv, NEW a \in Attempts,
         NEW to \in {"checked", "delivered", "undelivered", "refused", "lost"},
         attempt[a].step = "activated" => to \in {"delivered", "undelivered", "lost"},
         attempt[a].step \in {"new", "checked", "locked", "activated"},
         AttemptGoes(a, to),
         holder' = [c \in Codes |-> IF holder[c] = a THEN NoAttempt ELSE holder[c]]
           \/ holder' = holder,
         UNCHANGED <<voucher, redemption, planEnabled>>
  PROVE  VoucherInv'
<1>1. /\ attempt[a] \in Attempt
      /\ attempt'[a] = [attempt[a] EXCEPT !.step = to]
      /\ \A b \in Attempts \ {a} : attempt'[b] = attempt[b]
  BY DEF VoucherInv, VoucherTypeOK, AttemptGoes
<1>2. to \in AttemptSteps /\ to # "locked"
  BY DEF AttemptSteps
<1>3. VoucherTypeOK'
  <2>1. attempt' \in [Attempts -> Attempt]
    BY <1>1, <1>2 DEF VoucherInv, VoucherTypeOK, AttemptGoes, Attempt
  <2> QED BY <2>1 DEF VoucherInv, VoucherTypeOK
<1>4. ASSUME NEW b \in Attempts PROVE LockedOK(b)'
  <2>1. CASE b = a
    BY <1>1, <1>2, <2>1 DEF LockedOK, Attempt
  <2>2. CASE b # a
    <3>1. attempt'[b] = attempt[b] /\ attempt[b] \in Attempt
      BY <1>1, <2>2 DEF VoucherInv, VoucherTypeOK
    <3>2. holder[attempt[b].code] = b => holder'[attempt[b].code] = b
      BY <2>2, <3>1 DEF Attempt
    <3> QED BY <3>1, <3>2 DEF VoucherInv, LockedOK, Code, UsedBy
  <2> QED BY <2>1, <2>2
<1>5. ASSUME NEW r \in redemption PROVE RedemptionOK(r)'
  <2>1. RedemptionOK(r) /\ r.subscription \in Attempts
    BY DEF VoucherInv, VoucherTypeOK, Redemption
  <2>2. CASE r.subscription = a
    <3>1. to \in {"delivered", "undelivered", "lost"}
      BY <2>1, <2>2 DEF RedemptionOK
    <3> QED BY <1>1, <2>1, <2>2, <3>1 DEF RedemptionOK, Attempt
  <2>3. CASE r.subscription # a
    BY <1>1, <2>1, <2>3 DEF RedemptionOK
  <2> QED BY <2>2, <2>3
<1> QED BY <1>3, <1>4, <1>5 DEF VoucherInv, Counted, Distinct, RedemptionsOf

LEMMA RecheckStep ==
  ASSUME VoucherInv, NEW a \in Attempts, Recheck(a)
  PROVE  VoucherInv'
<1> DEFINE c == attempt[a].code
<1>1. attempt[a] \in Attempt /\ c \in Codes /\ attempt[a].step = "checked" /\ Unlocked(c)
      /\ UNCHANGED <<voucher, redemption, planEnabled>>
  BY DEF Recheck, AttemptAt, VoucherInv, VoucherTypeOK, Attempt
<1>2. CASE AttemptGoes(a, "refused") /\ UNCHANGED holder
  BY <1>1, <1>2, CallStep
<1>3. CASE /\ Redeemable(voucher[c]) /\ ~UsedBy(c, attempt[a].user)
           /\ attempt' = [attempt EXCEPT ![a] =
                [@ EXCEPT !.step = "locked", !.uses = voucher[c].uses]]
           /\ holder' = [holder EXCEPT ![c] = a]
  <2>1. voucher[c] \in Voucher /\ voucher[c].active /\ voucher[c].uses < voucher[c].limit
        /\ voucher[c] # NoCode
    BY <1>1, <1>3 DEF Redeemable, VoucherInv, VoucherTypeOK
  <2>2. /\ attempt'[a] = [attempt[a] EXCEPT !.step = "locked", !.uses = voucher[c].uses]
        /\ \A b \in Attempts \ {a} : attempt'[b] = attempt[b]
    BY <1>3 DEF VoucherInv, VoucherTypeOK
  <2>3. attempt'[a] \in Attempt /\ attempt'[a].step = "locked" /\ attempt'[a].code = c
        /\ attempt'[a].user = attempt[a].user /\ attempt'[a].uses = voucher[c].uses
    BY <1>1, <2>1, <2>2 DEF Attempt, Voucher, AttemptSteps
  <2>4. VoucherTypeOK'
    <3>1. attempt' \in [Attempts -> Attempt]
      BY <1>3, <2>2, <2>3 DEF VoucherInv, VoucherTypeOK
    <3> QED BY <1>1, <1>3, <3>1 DEF VoucherInv, VoucherTypeOK
  <2>5. ASSUME NEW b \in Attempts PROVE LockedOK(b)'
    <3>1. CASE b = a
      BY <1>1, <1>3, <2>1, <2>3, <3>1 DEF LockedOK, Code, UsedBy, VoucherInv, VoucherTypeOK
    <3>2. CASE b # a
      <4>1. attempt'[b] = attempt[b] /\ LockedOK(b)
        BY <2>2, <3>2 DEF VoucherInv
      <4>2. attempt[b].step = "locked" => holder'[Code(b)] = b
        BY <1>1, <1>3, <4>1, VoucherAssumption
           DEF LockedOK, Unlocked, Code, VoucherInv, VoucherTypeOK, Attempt
      <4> QED BY <1>1, <4>1, <4>2 DEF LockedOK, Code, UsedBy
    <3> QED BY <3>1, <3>2
  <2>6. ASSUME NEW r \in redemption PROVE RedemptionOK(r)'
    <3>1. RedemptionOK(r) /\ r.subscription \in Attempts
      BY DEF VoucherInv, VoucherTypeOK, Redemption
    <3>2. r.subscription # a
      BY <1>1, <3>1 DEF RedemptionOK
    <3> QED BY <1>1, <2>2, <3>1, <3>2 DEF RedemptionOK
  <2> QED BY <1>1, <2>4, <2>5, <2>6 DEF VoucherInv, Counted, Distinct, RedemptionsOf
<1> QED BY <1>2, <1>3 DEF Recheck

LEMMA CountedRow ==
  ASSUME NEW v \in Voucher, NEW n \in 0..MaxUses, NEW on \in BOOLEAN,
         NEW w, w = [v EXCEPT !.uses = n, !.active = on]
  PROVE  w \in Voucher /\ w.uses = n
<1>1. ASSUME NEW x \in Voucher PROVE [x EXCEPT !.active = on] \in Voucher
  BY DEF Voucher
<1>2. [v EXCEPT !.uses = n] \in Voucher
  BY DEF Voucher
<1> QED BY <1>1, <1>2 DEF Voucher

\* The commit: one redemption more, counted from what was read under the lock.
LEMMA ActivateStep ==
  ASSUME VoucherInv, NEW a \in Attempts, Activate(a)
  PROVE  VoucherInv'
<1>1. PICK c \in Codes, u \in Redeemers :
        /\ c = attempt[a].code /\ u = attempt[a].user
        /\ attempt[a] \in Attempt /\ attempt[a].step = "locked"
  BY DEF Activate, AttemptAt, VoucherInv, VoucherTypeOK, Attempt
<1> DEFINE new == [code |-> c, user |-> u, subscription |-> a]
<1>2. /\ holder[c] = a /\ voucher[c] \in Voucher /\ voucher[c] # NoCode
      /\ attempt[a].uses = voucher[c].uses
      /\ voucher[c].uses < voucher[c].limit /\ ~UsedBy(c, u)
  BY <1>1 DEF VoucherInv, VoucherTypeOK, LockedOK, Code
<1>3. PICK n \in 1..MaxUses, on \in BOOLEAN :
        /\ n = voucher[c].uses + 1
        /\ voucher' = [voucher EXCEPT ![c] = [@ EXCEPT !.uses = n, !.active = on]]
  <2>1. voucher[c].uses + 1 \in 1..MaxUses
    BY <1>2, VoucherAssumption DEF Voucher
  <2>2. (attempt[a].uses + 1 < voucher[c].limit) \in BOOLEAN
    OBVIOUS
  <2> QED BY <1>1, <1>2, <2>1, <2>2 DEF Activate
<1>4. redemption' = redemption \cup {new} /\ UNCHANGED planEnabled
      /\ AttemptGoes(a, "activated")
      /\ holder' = [d \in Codes |-> IF holder[d] = a THEN NoAttempt ELSE holder[d]]
  BY <1>1 DEF Activate, EndTransaction
<1>5. /\ voucher'[c] \in Voucher /\ voucher'[c].uses = n
      /\ \A d \in Codes \ {c} : voucher'[d] = voucher[d]
  <2>1. voucher'[c] = [voucher[c] EXCEPT !.uses = n, !.active = on]
    BY <1>1, <1>3 DEF VoucherInv, VoucherTypeOK
  <2>2. voucher'[c].uses = n
    BY <1>2, <2>1 DEF Voucher
  <2>3. voucher'[c] \in Voucher
    <3>1. voucher[c] \in Voucher /\ n \in 0..MaxUses
      BY <1>2, VoucherAssumption
    <3>2. PICK v \in Voucher : v = voucher[c]
      BY <3>1
    <3>3. PICK w : w = voucher'[c]
      OBVIOUS
    <3>4. w = [v EXCEPT !.uses = n, !.active = on]
      BY <2>1, <3>2, <3>3
    <3>5. w \in Voucher
      BY <3>1, <3>4, CountedRow
    <3> QED BY <3>3, <3>5
  <2> QED BY <1>1, <1>3, <2>2, <2>3 DEF VoucherInv, VoucherTypeOK
<1>6. /\ attempt'[a] \in Attempt /\ attempt'[a].step = "activated"
      /\ \A b \in Attempts \ {a} : attempt'[b] = attempt[b]
  BY <1>1, <1>4 DEF AttemptGoes, VoucherInv, VoucherTypeOK, Attempt, AttemptSteps
<1>7. VoucherTypeOK'
  <2>1. voucher' \in [Codes -> Voucher \cup {NoCode}]
    BY <1>3, <1>5 DEF VoucherInv, VoucherTypeOK
  <2>2. attempt' \in [Attempts -> Attempt]
    BY <1>4, <1>6 DEF AttemptGoes, VoucherInv, VoucherTypeOK
  <2>3. redemption' \subseteq Redemption
    BY <1>1, <1>4 DEF Redemption, VoucherInv, VoucherTypeOK
  <2> QED BY <1>4, <2>1, <2>2, <2>3 DEF VoucherInv, VoucherTypeOK
<1>8. ASSUME NEW b \in Attempts PROVE LockedOK(b)'
  <2>1. CASE b = a
    BY <1>6, <2>1 DEF LockedOK
  <2>2. CASE b # a /\ attempt[b].step = "locked"
    <3>1. attempt'[b] = attempt[b] /\ attempt[b] \in Attempt /\ LockedOK(b)
      BY <1>6, <2>2 DEF VoucherInv, VoucherTypeOK
    <3>2. holder[Code(b)] = b /\ Code(b) \in Codes /\ Code(b) # c
      BY <1>2, <2>2, <3>1 DEF LockedOK, Code, Attempt
    <3>3. voucher'[Code(b)] = voucher[Code(b)] /\ holder'[Code(b)] = b
      BY <1>4, <1>5, <2>2, <3>2
    <3>4. Code(b)' = Code(b)
          /\ (UsedBy(Code(b), attempt[b].user)' => UsedBy(Code(b), attempt[b].user))
      BY <1>4, <3>1, <3>2 DEF Code, UsedBy
    <3> QED BY <2>2, <3>1, <3>3, <3>4 DEF LockedOK
  <2>3. CASE b # a /\ attempt[b].step # "locked"
    BY <1>6, <2>3 DEF LockedOK
  <2> QED BY <2>1, <2>2, <2>3
<1>9. voucher'[c] # NoCode
  BY <1>5, NoCodeAssumption
<1>10. ASSUME NEW r \in redemption' PROVE RedemptionOK(r)'
  <2>1. CASE r = new
    BY <1>6, <1>9, <2>1 DEF RedemptionOK
  <2>2. CASE r \in redemption
    <3>1. RedemptionOK(r) /\ r.code \in Codes /\ r.subscription \in Attempts
      BY <2>2 DEF VoucherInv, VoucherTypeOK, Redemption
    <3>2. r.subscription # a
      BY <1>1, <3>1 DEF RedemptionOK
    <3> QED BY <1>5, <1>6, <1>9, <3>1, <3>2 DEF RedemptionOK
  <2> QED BY <1>4, <2>1, <2>2
<1>11. new \notin redemption
       /\ \A r \in redemption : r.subscription # a /\ ~(r.code = c /\ r.user = u)
  BY <1>1, <1>2 DEF VoucherInv, RedemptionOK, UsedBy
<1>12. IsFiniteSet(redemption') /\ Distinct'
  <2>1. IsFiniteSet(redemption')
    BY <1>4, FS_AddElement DEF VoucherInv
  <2>2. Distinct'
    <3>1. ASSUME NEW r \in redemption', NEW s \in redemption',
                 (r.code = s.code /\ r.user = s.user) \/ r.subscription = s.subscription
          PROVE  r = s
      <4>1. CASE r \in redemption /\ s \in redemption
        BY <3>1, <4>1 DEF VoucherInv, Distinct
      <4>2. CASE r = new /\ s \in redemption
        BY <1>11, <3>1, <4>2
      <4>3. CASE s = new /\ r \in redemption
        BY <1>11, <3>1, <4>3
      <4> QED BY <1>4, <4>1, <4>2, <4>3
    <3> QED BY <3>1 DEF Distinct
  <2> QED BY <2>1, <2>2
<1>13. ASSUME NEW d \in Codes, voucher'[d] # NoCode
       PROVE  voucher'[d].uses = Cardinality(RedemptionsOf(d)')
  <2>1. CASE d = c
    <3>1. RedemptionsOf(c)' = RedemptionsOf(c) \cup {new} /\ new \notin RedemptionsOf(c)
      BY <1>4, <1>11, <2>1 DEF RedemptionsOf
    <3>2. IsFiniteSet(RedemptionsOf(c))
      BY FS_Subset DEF VoucherInv, RedemptionsOf
    <3>3. Cardinality(RedemptionsOf(c) \cup {new}) = Cardinality(RedemptionsOf(c)) + 1
      BY <3>1, <3>2, FS_AddElement
    <3>4. voucher[c].uses = Cardinality(RedemptionsOf(c))
      BY <1>1, <1>2 DEF VoucherInv, Counted
    <3> QED BY <1>3, <1>5, <2>1, <3>1, <3>3, <3>4
  <2>2. CASE d # c
    <3>1. RedemptionsOf(d)' = RedemptionsOf(d)
      BY <1>4, <2>2 DEF RedemptionsOf
    <3> QED BY <1>5, <1>13, <2>2, <3>1 DEF VoucherInv, Counted
  <2> QED BY <2>1, <2>2
<1> QED BY <1>7, <1>8, <1>10, <1>12, <1>13 DEF VoucherInv, Counted, RedemptionsOf

LEMMA RedeemSteps ==
  ASSUME VoucherInv, NEW a \in Attempts,
         Preflight(a) \/ ProvisionRedeemed(a) \/ Rollback(a) \/ RedeemLost(a)
  PROVE  VoucherInv'
<1>1. CASE Preflight(a)
  <2>1. PICK to \in {"checked", "refused"} : AttemptGoes(a, to)
    BY <1>1 DEF Preflight
  <2>2. attempt[a].step = "new" /\ UNCHANGED <<voucher, redemption, holder, planEnabled>>
    BY <1>1 DEF Preflight, AttemptAt
  <2> QED BY <2>1, <2>2, CallStep
<1>2. CASE ProvisionRedeemed(a)
  BY <1>2, CallStep DEF ProvisionRedeemed, AttemptAt
<1>3. CASE Rollback(a)
  BY <1>3, CallStep DEF Rollback, EndTransaction, AttemptAt
<1>4. CASE RedeemLost(a)
  BY <1>4, CallStep DEF RedeemLost, EndTransaction
<1> QED BY <1>1, <1>2, <1>3, <1>4

\* What an administrator's update may write: the uses stay, and so does a FALSE isActive.
LEMMA EditStep ==
  ASSUME VoucherInv, NEW c \in Codes, NEW v \in Voucher, EditVoucher(c, v),
         v.uses = voucher[c].uses
  PROVE  VoucherInv'
<1>1. /\ voucher'[c] = v /\ voucher' \in [Codes -> Voucher \cup {NoCode}]
      /\ \A d \in Codes \ {c} : voucher'[d] = voucher[d]
      /\ UNCHANGED <<redemption, holder, planEnabled, attempt>>
      /\ voucher[c] # NoCode /\ Unlocked(c)
  BY DEF EditVoucher, VoucherInv, VoucherTypeOK
<1>2. planEnabled' \in BOOLEAN
  BY <1>1 DEF VoucherInv, VoucherTypeOK
<1> QED BY <1>1, <1>2, NoCodeAssumption, RowStep

LEMMA AdminSteps ==
  ASSUME VoucherInv,
         \/ TogglePlan
         \/ \E c \in Codes : DisableVoucher(c) \/ UpdateVoucher(c) \/ VoucherExpires(c)
         \/ \E c \in Codes, limit \in 1..MaxUses : Generate(c, limit)
  PROVE  VoucherInv'
<1>1. CASE TogglePlan
  <2>1. planEnabled' \in BOOLEAN
    BY <1>1 DEF TogglePlan
  <2> QED BY <1>1, <2>1, RowStep DEF TogglePlan, VoucherInv, VoucherTypeOK
<1>2. ASSUME NEW c \in Codes, DisableVoucher(c) \/ UpdateVoucher(c)
      PROVE  VoucherInv'
  <2>1. voucher[c] \in Voucher
    BY <1>2 DEF DisableVoucher, UpdateVoucher, EditVoucher, VoucherInv, VoucherTypeOK
  <2>2. PICK v \in Voucher : EditVoucher(c, v) /\ v.uses = voucher[c].uses
    <3>1. CASE DisableVoucher(c)
      <4>1. PICK v : v = [voucher[c] EXCEPT !.active = FALSE]
        OBVIOUS
      <4>2. v \in Voucher /\ v.uses = voucher[c].uses
        BY <2>1, <4>1 DEF Voucher
      <4> QED BY <3>1, <4>1, <4>2 DEF DisableVoucher
    <3>2. ASSUME NEW limit \in 1..MaxUses, EditVoucher(c, [voucher[c] EXCEPT !.limit = limit])
          PROVE  \E v \in Voucher : EditVoucher(c, v) /\ v.uses = voucher[c].uses
      <4>1. PICK v : v = [voucher[c] EXCEPT !.limit = limit]
        OBVIOUS
      <4>2. v \in Voucher /\ v.uses = voucher[c].uses
        BY <2>1, <4>1 DEF Voucher
      <4> QED BY <3>2, <4>1, <4>2
    <3>3. CASE EditVoucher(c, [voucher[c] EXCEPT !.expired = FALSE])
      <4>1. PICK v : v = [voucher[c] EXCEPT !.expired = FALSE]
        OBVIOUS
      <4>2. v \in Voucher /\ v.uses = voucher[c].uses
        BY <2>1, <4>1 DEF Voucher
      <4> QED BY <3>3, <4>1, <4>2
    <3> QED BY <1>2, <3>1, <3>2, <3>3 DEF UpdateVoucher
  <2> QED BY <2>2, EditStep
<1>3. ASSUME NEW c \in Codes, VoucherExpires(c)
      PROVE  VoucherInv'
  <2>1. voucher[c] \in Voucher
        /\ voucher' = [voucher EXCEPT ![c].expired = TRUE]
        /\ UNCHANGED <<redemption, holder, planEnabled, attempt>>
    BY <1>3 DEF VoucherExpires, VoucherInv, VoucherTypeOK
  <2>2. /\ voucher'[c] \in Voucher /\ voucher'[c].uses = voucher[c].uses
        /\ voucher'[c].active = voucher[c].active /\ voucher'[c].limit = voucher[c].limit
        /\ \A d \in Codes \ {c} : voucher'[d] = voucher[d]
        /\ voucher' \in [Codes -> Voucher \cup {NoCode}]
    BY <2>1 DEF Voucher, VoucherInv, VoucherTypeOK
  <2>3. planEnabled' \in BOOLEAN
    BY <2>1 DEF VoucherInv, VoucherTypeOK
  <2>4. voucher[c] # NoCode
    BY <1>3 DEF VoucherExpires
  <2> QED BY <2>1, <2>2, <2>3, <2>4, NoCodeAssumption, RowStep
<1>4. ASSUME NEW c \in Codes, NEW limit \in 1..MaxUses, Generate(c, limit)
      PROVE  VoucherInv'
  <2> DEFINE v == [active |-> TRUE, expired |-> FALSE, uses |-> 0, limit |-> limit]
  <2>1. v \in Voucher /\ v.uses = 0
    BY VoucherAssumption DEF Voucher
  <2>2. voucher[c] = NoCode /\ voucher' = [voucher EXCEPT ![c] = v]
        /\ UNCHANGED <<redemption, holder, planEnabled, attempt>>
    BY <1>4 DEF Generate
  <2>3. /\ voucher' \in [Codes -> Voucher \cup {NoCode}] /\ voucher'[c] = v
        /\ \A d \in Codes \ {c} : voucher'[d] = voucher[d]
        /\ planEnabled' \in BOOLEAN
    BY <2>1, <2>2 DEF VoucherInv, VoucherTypeOK
  <2> QED BY <2>1, <2>2, <2>3, RowStep
<1> QED BY <1>1, <1>2, <1>3, <1>4

LEMMA NextVoucher == VoucherInv /\ [VoucherNext]_voucherVars => VoucherInv'
<1> SUFFICES ASSUME VoucherInv, [VoucherNext]_voucherVars PROVE VoucherInv'
  OBVIOUS
<1>1. CASE \/ TogglePlan
           \/ \E c \in Codes : DisableVoucher(c) \/ UpdateVoucher(c) \/ VoucherExpires(c)
           \/ \E c \in Codes, limit \in 1..MaxUses : Generate(c, limit)
  BY <1>1, AdminSteps
<1>2. CASE \E a \in Attempts : RedeemStep(a) \/ Rollback(a) \/ RedeemLost(a)
  BY <1>2, RecheckStep, ActivateStep, RedeemSteps DEF RedeemStep
<1>3. CASE UNCHANGED voucherVars
  BY <1>3 DEF voucherVars, VoucherInv, VoucherTypeOK, LockedOK, Code, UsedBy, RedemptionOK,
              Counted, Distinct, RedemptionsOf
<1> QED BY <1>1, <1>2, <1>3 DEF VoucherNext

LEMMA VoucherInvariance == VoucherSpec => []VoucherInv
BY InitVoucher, NextVoucher, PTL DEF VoucherSpec

\* A voucher's count is the number of its redemptions, each of another user and with
\* a subscription of its own, for any number of overlapping calls of redeem.
THEOREM UsesAreRedemptions == VoucherSpec => []RedemptionsAreCounted
<1>1. VoucherInv => RedemptionsAreCounted
  BY DEF VoucherInv, Counted, Distinct, RedemptionsOf, RedemptionsAreCounted
<1> QED BY <1>1, VoucherInvariance, PTL

\* Once isActive is FALSE no step sets it and none activates a subscription with the
\* code, a redemption that was under way included: its transaction holds the lock the
\* administrator's update waited for.
LEMMA DisabledStep ==
  ASSUME VoucherInv, [VoucherNext]_voucherVars, NEW c \in Codes,
         voucher[c] # NoCode, ~voucher[c].active
  PROVE  ~voucher'[c].active /\ \A r \in redemption' \ redemption : r.code # c
<1>1. voucher[c] \in Voucher
  BY DEF VoucherInv, VoucherTypeOK
<1>2. ASSUME NEW d \in Codes, DisableVoucher(d) \/ UpdateVoucher(d) \/ VoucherExpires(d)
      PROVE  ~voucher'[c].active /\ redemption' = redemption
  <2>1. redemption' = redemption
    BY <1>2 DEF DisableVoucher, UpdateVoucher, VoucherExpires, EditVoucher
  <2>2. CASE c # d
    BY <1>2, <2>2 DEF DisableVoucher, UpdateVoucher, VoucherExpires, EditVoucher,
                      VoucherInv, VoucherTypeOK
  <2>3. CASE c = d
    BY <1>1, <1>2, <2>3 DEF DisableVoucher, UpdateVoucher, VoucherExpires, EditVoucher,
                      VoucherInv, VoucherTypeOK, Voucher
  <2> QED BY <2>1, <2>2, <2>3
<1>3. ASSUME NEW d \in Codes, NEW limit \in 1..MaxUses, Generate(d, limit)
      PROVE  voucher'[c] = voucher[c] /\ redemption' = redemption
  BY <1>3 DEF Generate, VoucherInv, VoucherTypeOK
<1>4. ASSUME NEW a \in Attempts, Activate(a)
      PROVE  voucher'[c] = voucher[c] /\ \A r \in redemption' \ redemption : r.code # c
  <2>1. attempt[a].code \in Codes /\ voucher[attempt[a].code].active
    BY <1>4 DEF Activate, AttemptAt, VoucherInv, VoucherTypeOK, Attempt, LockedOK, Code
  <2>2. attempt[a].code # c
    BY <2>1
  <2>3. voucher'[c] = voucher[c]
    BY <1>4, <2>2 DEF Activate, VoucherInv, VoucherTypeOK
  <2>4. redemption' = redemption \cup
          {[code |-> attempt[a].code, user |-> attempt[a].user, subscription |-> a]}
    BY <1>4 DEF Activate
  <2> QED BY <2>2, <2>3, <2>4
<1>5. ASSUME NEW a \in Attempts,
             \/ Preflight(a) \/ Recheck(a) \/ ProvisionRedeemed(a)
             \/ Rollback(a) \/ RedeemLost(a)
      PROVE  UNCHANGED <<voucher, redemption>>
  BY <1>5 DEF Preflight, Recheck, ProvisionRedeemed, Rollback, RedeemLost
<1>6. CASE TogglePlan \/ UNCHANGED voucherVars
  BY <1>6 DEF TogglePlan, voucherVars
<1> QED BY <1>2, <1>3, <1>4, <1>5, <1>6 DEF VoucherNext, RedeemStep

\* "Admin disables a voucher so it can no longer be redeemed".
THEOREM DisabledVouchersStayDisabled == VoucherSpec => DisabledForGood
<1>1. VoucherInv /\ [VoucherNext]_voucherVars =>
        [\A c \in Codes : voucher[c] # NoCode /\ ~voucher[c].active =>
            /\ ~voucher'[c].active
            /\ \A r \in redemption' \ redemption : r.code # c]_voucherVars
  BY DisabledStep
<1> QED BY <1>1, VoucherInvariance, PTL DEF VoucherSpec, DisabledForGood

-----------------------------------------------------------------------------
(* Signup referrals: the inductive invariant.                              *)

\* A log never goes back: what a request does next agrees with how far its
\* log has come, and only the request that locked a log is about to commit.
JobAgrees(m) ==
  /\ MintAt(m, "claim") => log[InviteeOf(m)] # "NONE"
  /\ MintAt(m, "commit") => log[InviteeOf(m)] = "PENDING" /\ claimer[InviteeOf(m)] = m
  /\ mint[m].step \in {"collect", "provision", "post", "mark"} =>
       log[InviteeOf(m)] \in {"COMPLETED", "REWARDED"}

\* Whose trials a request has yet to provision.
JobShape(m) ==
  /\ mint[m].step \in {"provision", "post"} =>
       mint[m].users # {} /\ mint[m].users \subseteq Parties(InviteeOf(m))
  /\ MintAt(m, "mark") => mint[m].users = {}

\* If the log a request works for was rewarded, the quota it is about to post
\* counts that reward, and so did those it posted.
JobDelivers(m) ==
  LET i == InviteeOf(m)
  IN i \in rewardedLogs =>
       /\ mint[m].step \in {"provision", "post", "mark"} =>
            \A u \in Parties(i) \ mint[m].users : i \in taken[u]
       /\ MintAt(m, "post") => i \in mint[m].read

JobOK(m) == JobAgrees(m) /\ JobShape(m) /\ JobDelivers(m)

ReferralInv ==
  /\ ReferralTypeOK
  /\ RewardedOnce
  /\ \A m \in Mints : JobOK(m)
  /\ RewardedIsDelivered

ShipTypes ==
  /\ shipped \in [ReferralUsers -> SUBSET Invitees]
  /\ taken \in [ReferralUsers -> SUBSET Invitees]
  /\ readings \in [ReferralUsers -> SUBSET SUBSET Invitees]
TakenGrows == \A u \in ReferralUsers : taken[u] \subseteq taken'[u]

LEMMA IdleMintType == IdleMint \in MintJob /\ IdleMint.step = "idle"
BY ReferralAssumption DEF IdleMint, MintJob, MintSteps

LEMMA PartiesAreUsers == \A i \in Invitees : Parties(i) \subseteq ReferralUsers
BY ReferralAssumption DEF Parties, ReferralUsers

LEMMA LogsAreFinite ==
  ASSUME ReferralTypeOK, NEW S \in SUBSET rewardedLogs
  PROVE  IsFiniteSet(S) /\ Cardinality(S) \in Nat
BY ReferralAssumption, FS_Subset, FS_CardinalityType DEF ReferralTypeOK

\* Nothing is asked of a request between its steps.
LEMMA IdleIsFine ==
  ASSUME NEW m \in Mints, mint[m].step \in {"idle"}
  PROVE  JobOK(m)
BY DEF JobOK, JobAgrees, JobShape, JobDelivers, MintAt

LEMMA InitReferrals == ReferralInit => ReferralInv
<1> SUFFICES ASSUME ReferralInit PROVE ReferralInv
  OBVIOUS
<1>1. ReferralTypeOK
  BY IdleMintType DEF ReferralInit, ReferralTypeOK, LogStatuses
<1>2. RewardedOnce /\ RewardedIsDelivered
  BY DEF ReferralInit, RewardedOnce, RewardedIsDelivered, InvitationsOf
<1>3. \A m \in Mints : JobOK(m)
  BY IdleMintType, IdleIsFine DEF ReferralInit
<1> QED BY <1>1, <1>2, <1>3 DEF ReferralInv

\* What a request's own step leaves of its record.
LEMMA WorkEffect ==
  ASSUME ReferralTypeOK, NEW m \in Mints, NEW step \in MintSteps,
         NEW users \in SUBSET ReferralUsers, Work(m, step, users)
  PROVE  /\ mint' \in [Mints -> MintJob]
         /\ mint'[m].step = step /\ mint'[m].users = users
         /\ mint'[m].invitee = mint[m].invitee
         /\ \A n \in Mints : n # m => mint'[n] = mint[n]
<1> DEFINE job == [mint[m] EXCEPT !.step = step, !.users = users]
<1>1. mint \in [Mints -> MintJob] /\ mint[m] \in MintJob
  BY DEF ReferralTypeOK
<1>2. job \in MintJob /\ job.step = step /\ job.users = users /\ job.invitee = mint[m].invitee
  BY <1>1 DEF MintJob
<1>3. mint' = [mint EXCEPT ![m] = job]
  BY DEF Work
<1> HIDE DEF job
<1> QED BY <1>1, <1>2, <1>3

LEMMA EndEffect ==
  ASSUME ReferralTypeOK, NEW m \in Mints, EndMint(m)
  PROVE  /\ mint' \in [Mints -> MintJob] /\ mint'[m] = IdleMint
         /\ \A n \in Mints : n # m => mint'[n] = mint[n]
BY IdleMintType DEF EndMint, ReferralTypeOK

\* What the panel has taken stays taken, and what it takes is added.
LEMMA ShipStays ==
  ASSUME ReferralTypeOK, UNCHANGED shipVars
  PROVE  ShipTypes' /\ TakenGrows
BY DEF shipVars, ReferralTypeOK, ShipTypes, TakenGrows

LEMMA TakesEffect ==
  ASSUME ReferralTypeOK, NEW u \in ReferralUsers, NEW rewards \in SUBSET Invitees,
         TakesQuota(u, rewards)
  PROVE  /\ shipped' \in [ReferralUsers -> SUBSET Invitees]
         /\ taken' \in [ReferralUsers -> SUBSET Invitees]
         /\ taken'[u] = taken[u] \cup rewards
         /\ TakenGrows
<1>1. /\ shipped \in [ReferralUsers -> SUBSET Invitees]
      /\ taken \in [ReferralUsers -> SUBSET Invitees]
  BY DEF ReferralTypeOK
<1>2. taken[u] \cup rewards \in SUBSET Invitees
  BY <1>1
<1>3. /\ shipped' = [shipped EXCEPT ![u] = rewards]
      /\ taken' = [taken EXCEPT ![u] = taken[u] \cup rewards]
  BY DEF TakesQuota
<1> QED BY <1>1, <1>2, <1>3 DEF TakenGrows

\* A log that nobody unmarks stays delivered.
LEMMA StaysDelivered ==
  ASSUME ReferralInv, TakenGrows, UNCHANGED rewardedLogs,
         \A i \in Invitees : log'[i] = "REWARDED" => log[i] = "REWARDED"
  PROVE  RewardedIsDelivered'
<1> SUFFICES ASSUME NEW i \in rewardedLogs, log'[i] = "REWARDED", NEW u \in Parties(i)
             PROVE  i \in taken'[u]
  BY DEF RewardedIsDelivered, Parties
<1>1. i \in Invitees /\ u \in ReferralUsers
  BY PartiesAreUsers DEF ReferralInv, ReferralTypeOK
<1> QED BY <1>1 DEF ReferralInv, RewardedIsDelivered, TakenGrows

\* The other requests are where they were.
LEMMA OthersStay ==
  ASSUME ReferralInv, TakenGrows, NEW n \in Mints, mint'[n] = mint[n],
         UNCHANGED <<log, rewardedLogs>>,
         \A i \in Invitees : claimer[i] = n => claimer'[i] = n
  PROVE  JobOK(n)'
<1>1. mint[n].invitee \in Invitees /\ JobOK(n)
  BY DEF ReferralInv, ReferralTypeOK, MintJob
<1>2. JobAgrees(n)' /\ JobShape(n)'
  BY <1>1 DEF JobOK, JobAgrees, JobShape, MintAt, InviteeOf, Parties
<1>3. JobDelivers(n)'
  <2>1. \A u \in Parties(mint[n].invitee) : taken[u] \subseteq taken'[u]
    BY <1>1, PartiesAreUsers DEF TakenGrows
  <2> QED BY <1>1, <2>1 DEF JobOK, JobDelivers, MintAt, InviteeOf, Parties
<1> QED BY <1>2, <1>3 DEF JobOK

-----------------------------------------------------------------------------
\* A request moves on, and with it perhaps the lock of its log and the panel.
LEMMA MintStep ==
  ASSUME ReferralInv, NEW m \in Mints, UNCHANGED <<log, quota, trialPlan, rewardedLogs>>,
         ShipTypes', TakenGrows,
         mint' \in [Mints -> MintJob], claimer' \in [Invitees -> Mints \cup {NoMint}],
         \A n \in Mints : n # m => mint'[n] = mint[n],
         \A i \in Invitees : claimer[i] \in Mints \ {m} => claimer'[i] = claimer[i],
         JobOK(m)'
  PROVE  ReferralInv'
<1>1. ReferralTypeOK'
  BY DEF ReferralInv, ReferralTypeOK, ShipTypes
<1>2. RewardedOnce'
  BY DEF ReferralInv, RewardedOnce
<1>3. ASSUME NEW n \in Mints PROVE JobOK(n)'
  BY OthersStay
<1>4. RewardedIsDelivered'
  BY StaysDelivered
<1> QED BY <1>1, <1>2, <1>3, <1>4 DEF ReferralInv

\* The same when neither the panel nor a lock changes.
LEMMA QuietStep ==
  ASSUME ReferralInv, NEW m \in Mints,
         UNCHANGED <<log, quota, shipVars, trialPlan, claimer, rewardedLogs>>,
         mint' \in [Mints -> MintJob], \A n \in Mints : n # m => mint'[n] = mint[n],
         JobOK(m)'
  PROVE  ReferralInv'
BY MintStep, ShipStays DEF ReferralInv, ReferralTypeOK

\* A request that takes up a log.
LEMMA RetargetEffect ==
  ASSUME ReferralTypeOK, NEW m \in Mints, NEW i \in Invitees, NEW step \in MintSteps,
         mint' = [mint EXCEPT ![m] = [mint[m] EXCEPT !.step = step, !.invitee = i]]
  PROVE  /\ mint' \in [Mints -> MintJob] /\ mint'[m].step = step /\ mint'[m].invitee = i
         /\ \A n \in Mints : n # m => mint'[n] = mint[n]
<1> DEFINE job == [mint[m] EXCEPT !.step = step, !.invitee = i]
<1>1. mint \in [Mints -> MintJob] /\ mint[m] \in MintJob
  BY DEF ReferralTypeOK
<1>2. job \in MintJob /\ job.step = step /\ job.invitee = i
  BY <1>1 DEF MintJob
<1>3. mint' = [mint EXCEPT ![m] = job]
  OBVIOUS
<1> HIDE DEF job
<1> QED BY <1>1, <1>2, <1>3

\* Steps of a request that write none of these rows.
LEMMA StartAgainStep ==
  ASSUME ReferralInv, NEW m \in Mints, NEW i \in Invitees, StartAgain(m, i)
  PROVE  ReferralInv'
<1>1. /\ StepFor(log[i]) \in {"claim", "collect"} /\ MintAt(m, "idle")
      /\ StepFor(log[i]) = "claim" => log[i] = "PENDING"
      /\ StepFor(log[i]) = "collect" => log[i] = "COMPLETED"
  BY DEF StartAgain, StepFor
<1>2. mint' = [mint EXCEPT ![m] = [mint[m] EXCEPT !.step = StepFor(log[i]), !.invitee = i]]
  BY <1>1 DEF StartAgain, MintReads
<1>3. /\ mint' \in [Mints -> MintJob] /\ mint'[m].step = StepFor(log[i]) /\ mint'[m].invitee = i
      /\ \A n \in Mints : n # m => mint'[n] = mint[n]
  BY <1>1, <1>2, RetargetEffect DEF ReferralInv, MintSteps
<1>4. UNCHANGED <<log, quota, shipVars, trialPlan, claimer, rewardedLogs>>
  BY DEF StartAgain
<1>5. JobOK(m)'
  BY <1>1, <1>3, <1>4 DEF JobOK, JobAgrees, JobShape, JobDelivers, MintAt, InviteeOf
<1> QED BY <1>3, <1>4, <1>5, QuietStep

LEMMA ClaimLogStep ==
  ASSUME ReferralInv, NEW m \in Mints, ClaimLog(m)
  PROVE  ReferralInv'
<1> DEFINE i == mint[m].invitee
<1>1. i \in Invitees /\ MintAt(m, "claim") /\ log[i] # "NONE" /\ claimer[i] = NoMint
  BY DEF ClaimLog, ReferralInv, ReferralTypeOK, MintJob, JobOK, JobAgrees, InviteeOf
<1>2. UNCHANGED <<log, quota, shipVars, trialPlan, rewardedLogs>> /\ ShipTypes' /\ TakenGrows
  BY ShipStays DEF ClaimLog, ReferralInv
<1>3. CASE log[i] = "PENDING"
  <2>1. /\ Work(m, "commit", Parties(i) \cap WithTrial)
        /\ claimer' = [claimer EXCEPT ![i] = m]
    BY <1>3 DEF ClaimLog, InviteeOf
  <2>2. /\ mint' \in [Mints -> MintJob] /\ mint'[m].step = "commit" /\ mint'[m].invitee = i
        /\ \A n \in Mints : n # m => mint'[n] = mint[n]
    BY <2>1, WorkEffect DEF WithTrial, MintSteps, ReferralInv
  <2>3. /\ claimer' \in [Invitees -> Mints \cup {NoMint}] /\ claimer'[i] = m
        /\ \A j \in Invitees : claimer[j] \in Mints \ {m} => claimer'[j] = claimer[j]
    BY <1>1, <2>1, ReferralAssumption DEF ReferralInv, ReferralTypeOK
  <2>4. JobOK(m)'
    BY <1>2, <1>3, <2>2, <2>3 DEF JobOK, JobAgrees, JobShape, JobDelivers, MintAt, InviteeOf
  <2> QED BY <1>2, <2>2, <2>3, <2>4, MintStep
<1>4. CASE log[i] # "PENDING"
  <2>1. Work(m, "collect", {}) /\ UNCHANGED claimer
    BY <1>4 DEF ClaimLog, InviteeOf
  <2>2. /\ mint' \in [Mints -> MintJob] /\ mint'[m].step = "collect" /\ mint'[m].invitee = i
        /\ \A n \in Mints : n # m => mint'[n] = mint[n]
    BY <2>1, WorkEffect DEF MintSteps, ReferralInv
  <2>3. log[i] \in {"COMPLETED", "REWARDED"}
    BY <1>1, <1>4 DEF ReferralInv, ReferralTypeOK, LogStatuses
  <2>4. JobOK(m)'
    BY <1>2, <2>2, <2>3 DEF JobOK, JobAgrees, JobShape, JobDelivers, MintAt, InviteeOf
  <2> QED BY <1>2, <2>1, <2>2, <2>4, QuietStep
<1> QED BY <1>3, <1>4

LEMMA EndStep ==
  ASSUME ReferralInv, NEW m \in Mints, EndMint(m), ShipTypes', TakenGrows,
         UNCHANGED <<log, quota, trialPlan, claimer, rewardedLogs>>
  PROVE  ReferralInv'
<1>1. /\ mint' \in [Mints -> MintJob] /\ mint'[m] = IdleMint
      /\ \A n \in Mints : n # m => mint'[n] = mint[n]
  BY EndEffect DEF ReferralInv
<1>2. JobOK(m)'
  BY <1>1, IdleMintType DEF JobOK, JobAgrees, JobShape, JobDelivers, MintAt
<1> QED BY <1>1, <1>2, MintStep DEF ReferralInv, ReferralTypeOK

LEMMA RewardConflictStep ==
  ASSUME ReferralInv, NEW m \in Mints, RewardConflict(m)
  PROVE  ReferralInv'
<1> DEFINE i == mint[m].invitee
<1>1. i \in Invitees /\ MintAt(m, "commit") /\ log[i] = "PENDING" /\ claimer[i] = m
  BY DEF RewardConflict, ReferralInv, ReferralTypeOK, MintJob, JobOK, JobAgrees, InviteeOf
<1>2. UNCHANGED <<log, quota, shipVars, trialPlan, rewardedLogs>> /\ ShipTypes' /\ TakenGrows
  BY ShipStays DEF RewardConflict, ReferralInv
<1>3. /\ claimer' \in [Invitees -> Mints \cup {NoMint}]
      /\ \A j \in Invitees : claimer[j] \in Mints \ {m} => claimer'[j] = claimer[j]
  BY <1>1 DEF RewardConflict, InviteeOf, ReferralInv, ReferralTypeOK
<1>4. CASE mint[m].mayRetry /\ StepFor(log[i]) # "idle"
  <2>1. StepFor(log[i]) = "claim"
    BY <1>1, <1>4 DEF StepFor
  <2>2. /\ mint' \in [Mints -> MintJob] /\ mint'[m].step = "claim" /\ mint'[m].invitee = i
        /\ \A n \in Mints : n # m => mint'[n] = mint[n]
    <3> DEFINE j == [mint[m] EXCEPT !.step = "claim", !.mayRetry = FALSE, !.users = {}]
    <3>1. j \in MintJob /\ j.step = "claim" /\ j.invitee = i
      BY DEF ReferralInv, ReferralTypeOK, MintJob, MintSteps
    <3>2. mint' = [mint EXCEPT ![m] = j] /\ mint \in [Mints -> MintJob]
      BY <1>4, <2>1 DEF RewardConflict, InviteeOf, ReferralInv, ReferralTypeOK
    <3> HIDE DEF j
    <3> QED BY <3>1, <3>2
  <2>3. JobOK(m)'
    BY <1>1, <1>2, <2>2 DEF JobOK, JobAgrees, JobShape, JobDelivers, MintAt, InviteeOf
  <2> QED BY <1>2, <1>3, <2>2, <2>3, MintStep
<1>5. CASE ~(mint[m].mayRetry /\ StepFor(log[i]) # "idle")
  <2>1. /\ mint' \in [Mints -> MintJob] /\ mint'[m] = IdleMint
        /\ \A n \in Mints : n # m => mint'[n] = mint[n]
    BY <1>5, EndEffect DEF RewardConflict, InviteeOf, ReferralInv
  <2>2. JobOK(m)'
    BY <2>1, IdleMintType DEF JobOK, JobAgrees, JobShape, JobDelivers, MintAt
  <2> QED BY <1>2, <1>3, <2>1, <2>2, MintStep
<1> QED BY <1>4, <1>5

LEMMA CollectTrialsStep ==
  ASSUME ReferralInv, NEW m \in Mints, CollectTrials(m)
  PROVE  ReferralInv'
<1> DEFINE i == mint[m].invitee
<1>1. /\ i \in Invitees /\ log[i] \in {"COMPLETED", "REWARDED"}
      /\ UNCHANGED <<log, quota, shipVars, trialPlan, claimer, rewardedLogs>>
  BY DEF CollectTrials, ReferralInv, ReferralTypeOK, MintJob, JobOK, JobAgrees, InviteeOf, MintAt
<1>2. CASE Work(m, "provision", Parties(i))
  <2>1. /\ mint' \in [Mints -> MintJob] /\ mint'[m].step = "provision"
        /\ mint'[m].users = Parties(i) /\ mint'[m].invitee = i
        /\ \A n \in Mints : n # m => mint'[n] = mint[n]
    BY <1>1, <1>2, WorkEffect, PartiesAreUsers DEF MintSteps, ReferralInv
  <2>2. JobOK(m)'
    BY <1>1, <2>1 DEF JobOK, JobAgrees, JobShape, JobDelivers, MintAt, InviteeOf, Parties
  <2> QED BY <1>1, <2>1, <2>2, QuietStep
<1>3. CASE EndMint(m)
  BY <1>1, <1>3, EndStep, ShipStays DEF ReferralInv
<1> QED BY <1>2, <1>3 DEF CollectTrials, InviteeOf

-----------------------------------------------------------------------------
(* Steps that read a trial and post its quota.                             *)

\* Whose turn it is.
LEMMA NextIsLeft ==
  ASSUME ReferralInv, NEW m \in Mints, mint[m].step \in {"provision", "post"}
  PROVE  /\ mint[m].invitee \in Invitees
         /\ NextOf(m) \in mint[m].users /\ NextOf(m) \in Parties(InviteeOf(m))
         /\ NextOf(m) \in ReferralUsers
         /\ log[mint[m].invitee] \in {"COMPLETED", "REWARDED"}
<1>1. mint[m].invitee \in Invitees /\ JobOK(m)
  BY DEF ReferralInv, ReferralTypeOK, MintJob
<1>2. mint[m].users # {} /\ mint[m].users \subseteq Parties(InviteeOf(m))
  BY <1>1 DEF JobOK, JobShape
<1>3. NextOf(m) \in mint[m].users
  BY <1>2 DEF NextOf, Parties, InviteeOf
<1> QED BY <1>1, <1>2, <1>3, PartiesAreUsers DEF JobOK, JobAgrees, InviteeOf

\* The subscription that is read after the commit counts the reward.
LEMMA LoadTrialStep ==
  ASSUME ReferralInv, NEW m \in Mints, LoadTrial(m)
  PROVE  ReferralInv'
<1> DEFINE read == InvitationsOf(NextOf(m), rewardedLogs)
           job == [mint[m] EXCEPT !.step = "post", !.read = read]
<1>1. /\ mint[m] \in MintJob /\ mint \in [Mints -> MintJob] /\ MintAt(m, "provision") /\ JobOK(m)
      /\ rewardedLogs \subseteq Invitees
  BY DEF LoadTrial, ReferralInv, ReferralTypeOK
<1>2. /\ mint[m].invitee \in Invitees /\ NextOf(m) \in Parties(InviteeOf(m))
      /\ log[mint[m].invitee] \in {"COMPLETED", "REWARDED"}
  BY <1>1, NextIsLeft DEF MintAt
<1>3. read \in SUBSET Invitees /\ (InviteeOf(m) \in rewardedLogs => InviteeOf(m) \in read)
  BY <1>1, <1>2 DEF InvitationsOf
<1>a. mint' = [mint EXCEPT ![m] = job]
  BY DEF LoadTrial
<1>b. UNCHANGED <<log, quota, shipVars, trialPlan, claimer, rewardedLogs>>
  BY DEF LoadTrial
<1> HIDE DEF read
<1>4. /\ job \in MintJob /\ job.step = "post" /\ job.read = read
      /\ job.users = mint[m].users /\ job.invitee = mint[m].invitee
  BY <1>1, <1>3 DEF MintJob, MintSteps
<1> HIDE DEF job
<1>5. /\ mint' \in [Mints -> MintJob] /\ mint'[m] = job
      /\ \A n \in Mints : n # m => mint'[n] = mint[n]
  BY <1>1, <1>4, <1>a
<1>6. JobAgrees(m)' /\ JobShape(m)'
  BY <1>1, <1>2, <1>4, <1>5, <1>b DEF JobOK, JobAgrees, JobShape, MintAt, InviteeOf
<1>7. JobDelivers(m)'
  BY <1>1, <1>3, <1>4, <1>5, <1>b DEF JobOK, JobDelivers, MintAt, InviteeOf, shipVars
<1> QED BY <1>5, <1>6, <1>7, <1>b, QuietStep DEF JobOK

\* The panel takes what was read.
LEMMA PostQuotaStep ==
  ASSUME ReferralInv, NEW m \in Mints, PostQuota(m)
  PROVE  ReferralInv'
<1> DEFINE u == NextOf(m)
           left == mint[m].users \ {u}
           step == IF left = {} THEN "mark" ELSE "provision"
           job == [mint[m] EXCEPT !.step = step, !.users = left, !.read = {}]
<1>1. /\ mint[m] \in MintJob /\ mint \in [Mints -> MintJob] /\ MintAt(m, "post") /\ JobOK(m)
      /\ mint[m].read \in SUBSET Invitees
  BY DEF PostQuota, ReferralInv, ReferralTypeOK, MintJob
<1>2. /\ mint[m].invitee \in Invitees /\ u \in Parties(InviteeOf(m)) /\ u \in ReferralUsers
      /\ log[mint[m].invitee] \in {"COMPLETED", "REWARDED"}
  BY <1>1, NextIsLeft DEF MintAt
<1>3. /\ TakesQuota(u, mint[m].read) /\ mint' = [mint EXCEPT ![m] = job]
      /\ UNCHANGED <<log, quota, readings, trialPlan, claimer, rewardedLogs>>
  BY DEF PostQuota
<1> HIDE DEF u
<1>4. /\ job \in MintJob /\ job.step = step /\ job.users = left
      /\ job.invitee = mint[m].invitee
  BY <1>1 DEF MintJob, MintSteps
<1> HIDE DEF job
<1>5. /\ mint' \in [Mints -> MintJob] /\ mint'[m] = job
      /\ \A n \in Mints : n # m => mint'[n] = mint[n]
  BY <1>1, <1>3, <1>4
<1>6. ShipTypes' /\ TakenGrows /\ taken'[u] = taken[u] \cup mint[m].read
  BY <1>1, <1>2, <1>3, TakesEffect DEF ShipTypes, ReferralInv, ReferralTypeOK
<1>7. JobAgrees(m)' /\ JobShape(m)'
  BY <1>1, <1>2, <1>3, <1>4, <1>5 DEF JobOK, JobAgrees, JobShape, MintAt, InviteeOf, Parties
<1>8. JobDelivers(m)'
  <2> SUFFICES ASSUME InviteeOf(m) \in rewardedLogs, NEW v \in Parties(InviteeOf(m)) \ left
               PROVE  InviteeOf(m) \in taken'[v]
    BY <1>3, <1>4, <1>5 DEF JobDelivers, MintAt, InviteeOf, Parties
  <2>1. CASE v = u
    BY <1>1, <1>6, <2>1 DEF JobOK, JobDelivers
  <2>2. CASE v # u
    <3>1. InviteeOf(m) \in taken[v]
      BY <1>1, <2>2 DEF JobOK, JobDelivers, MintAt
    <3>2. v \in ReferralUsers
      BY <1>2, PartiesAreUsers DEF InviteeOf
    <3> QED BY <3>1, <3>2, <1>6 DEF TakenGrows
  <2> QED BY <2>1, <2>2
<1> QED BY <1>3, <1>5, <1>6, <1>7, <1>8, MintStep DEF JobOK, ReferralInv, ReferralTypeOK

\* A request that fails leaves its log as it was, for the next one.
LEMMA ShipFailsStep ==
  ASSUME ReferralInv, NEW m \in Mints, ShipFails(m)
  PROVE  ReferralInv'
<1>1. /\ EndMint(m) /\ UNCHANGED <<log, quota, readings, trialPlan, claimer, rewardedLogs>>
      /\ readings \in [ReferralUsers -> SUBSET SUBSET Invitees]
  BY DEF ShipFails, ReferralInv, ReferralTypeOK
<1>2. CASE UNCHANGED <<shipped, taken>>
  BY <1>1, <1>2, ShipStays, EndStep DEF shipVars, ReferralInv
<1>3. CASE MintAt(m, "post") /\ TakesQuota(NextOf(m), mint[m].read)
  <2>1. NextOf(m) \in ReferralUsers /\ mint[m].read \in SUBSET Invitees
    BY <1>3, NextIsLeft DEF MintAt, ReferralInv, ReferralTypeOK, MintJob
  <2>2. ShipTypes' /\ TakenGrows
    BY <1>1, <1>3, <2>1, TakesEffect DEF ShipTypes, ReferralInv
  <2> QED BY <1>1, <2>2, EndStep
<1> QED BY <1>2, <1>3 DEF ShipFails

\* Nothing moves but the plan and the panel.
LEMMA PanelMoves ==
  ASSUME ReferralInv, UNCHANGED <<log, quota, claimer, rewardedLogs, mint>>,
         trialPlan' \in BOOLEAN, ShipTypes', TakenGrows
  PROVE  ReferralInv'
<1>1. ReferralTypeOK' /\ RewardedOnce'
  BY DEF ReferralInv, ReferralTypeOK, RewardedOnce, ShipTypes
<1>2. ASSUME NEW n \in Mints PROVE JobOK(n)'
  BY OthersStay
<1>3. RewardedIsDelivered'
  BY StaysDelivered
<1> QED BY <1>1, <1>2, <1>3 DEF ReferralInv

LEMMA OtherProvisioners ==
  ASSUME ReferralInv, NEW u \in ReferralUsers, OtherLoads(u) \/ OtherEnds(u)
  PROVE  ReferralInv'
<1>1. ReferralTypeOK /\ trialPlan \in BOOLEAN /\ readings \in [ReferralUsers -> SUBSET SUBSET Invitees]
  BY DEF ReferralInv, ReferralTypeOK
<1>2. CASE OtherLoads(u)
  <2>1. {InvitationsOf(u, rewardedLogs)} \in SUBSET SUBSET Invitees
    BY <1>1 DEF InvitationsOf, ReferralTypeOK
  <2>2. readings' \in [ReferralUsers -> SUBSET SUBSET Invitees]
    BY <1>1, <1>2, <2>1 DEF OtherLoads
  <2>3. ShipTypes' /\ TakenGrows
    BY <1>1, <1>2, <2>2 DEF OtherLoads, ShipTypes, TakenGrows, ReferralTypeOK
  <2> QED BY <1>1, <1>2, <2>3, PanelMoves DEF OtherLoads
<1>3. CASE OtherEnds(u)
  <2>1. readings' \in [ReferralUsers -> SUBSET SUBSET Invitees]
    BY <1>1, <1>3 DEF OtherEnds
  <2>2. PICK rewards \in readings[u] : TakesQuota(u, rewards) \/ UNCHANGED <<shipped, taken>>
    BY <1>3 DEF OtherEnds
  <2>3. rewards \in SUBSET Invitees
    BY <1>1, <2>2
  <2>4. ShipTypes' /\ TakenGrows
    BY <1>1, <2>1, <2>2, <2>3, TakesEffect DEF ShipTypes, TakenGrows, ReferralTypeOK
  <2> QED BY <1>1, <1>3, <2>4, PanelMoves DEF OtherEnds
<1> QED BY <1>2, <1>3

-----------------------------------------------------------------------------
(* Steps that write a log or a quota.                                      *)

\* No request's record changes; a log moves on that was not REWARDED and does
\* not become it, and that nobody has locked.
LEMMA LogStep ==
  ASSUME ReferralInv, NEW i \in Invitees,
         UNCHANGED <<quota, shipVars, trialPlan, claimer, rewardedLogs, mint>>,
         log[i] = "PENDING", claimer[i] = NoMint, log' = [log EXCEPT ![i] = "COMPLETED"]
  PROVE  ReferralInv'
<1>1. /\ log' \in [Invitees -> LogStatuses] /\ log'[i] = "COMPLETED"
      /\ \A j \in Invitees : j # i => log'[j] = log[j]
  BY DEF ReferralInv, ReferralTypeOK, LogStatuses
<1>2. ReferralTypeOK'
  BY <1>1 DEF ReferralInv, ReferralTypeOK, shipVars
<1>3. RewardedOnce'
  BY <1>1 DEF ReferralInv, ReferralTypeOK, RewardedOnce
<1>4. ASSUME NEW n \in Mints PROVE JobOK(n)'
  <2>1. mint[n].invitee \in Invitees /\ n # NoMint
    BY ReferralAssumption DEF ReferralInv, ReferralTypeOK, MintJob
  <2>2. JobOK(n)
    BY DEF ReferralInv
  <2>3. JobAgrees(n)'
    BY <1>1, <2>1, <2>2 DEF JobOK, JobAgrees, MintAt, InviteeOf
  <2> QED BY <2>2, <2>3 DEF JobOK, JobShape, JobDelivers, MintAt, InviteeOf, Parties, shipVars
<1>5. RewardedIsDelivered'
  BY <1>1, ShipStays, StaysDelivered DEF ReferralInv
<1> QED BY <1>2, <1>3, <1>4, <1>5 DEF ReferralInv

LEMMA SignUpStep ==
  ASSUME ReferralInv, NEW m \in Mints, NEW i \in Invitees, SignUp(m, i)
  PROVE  ReferralInv'
<1>1. /\ log' \in [Invitees -> LogStatuses] /\ log[i] = "NONE" /\ log'[i] = "PENDING"
      /\ \A j \in Invitees : j # i => log'[j] = log[j]
      /\ UNCHANGED <<quota, shipVars, trialPlan, claimer, rewardedLogs>>
  BY DEF SignUp, ReferralInv, ReferralTypeOK, LogStatuses
<1>2. StepFor("PENDING") \in {"claim", "idle"}
  BY DEF StepFor
<1>3. \/ /\ StepFor("PENDING") = "idle" /\ EndMint(m)
      \/ /\ StepFor("PENDING") = "claim"
         /\ mint' = [mint EXCEPT ![m] = [mint[m] EXCEPT !.step = "claim", !.invitee = i]]
  BY <1>2 DEF SignUp, MintReads, EndMint
<1>4. /\ mint' \in [Mints -> MintJob] /\ \A n \in Mints : n # m => mint'[n] = mint[n]
      /\ mint'[m].step \in {"idle", "claim"}
      /\ mint'[m].step = "claim" => mint'[m].invitee = i
  <2>1. CASE EndMint(m)
    BY <2>1, IdleMintType, EndEffect DEF ReferralInv
  <2>2. CASE mint' = [mint EXCEPT ![m] = [mint[m] EXCEPT !.step = "claim", !.invitee = i]]
    <3>1. "claim" \in MintSteps
      BY DEF MintSteps
    <3> QED BY <3>1, <2>2, RetargetEffect DEF ReferralInv
  <2> QED BY <1>3, <2>1, <2>2
<1>5. ReferralTypeOK'
  BY <1>1, <1>4 DEF ReferralInv, ReferralTypeOK, shipVars
<1>6. i \notin rewardedLogs
  BY <1>1 DEF ReferralInv, RewardedOnce
<1>7. RewardedOnce'
  BY <1>1, <1>6 DEF ReferralInv, ReferralTypeOK, RewardedOnce
<1>8. ASSUME NEW n \in Mints PROVE JobOK(n)'
  <2>1. mint[n].invitee \in Invitees /\ JobOK(n)
    BY DEF ReferralInv, ReferralTypeOK, MintJob
  <2>2. CASE n = m
    BY <1>1, <1>4, <2>2 DEF JobOK, JobAgrees, JobShape, JobDelivers, MintAt, InviteeOf
  <2>3. CASE n # m
    <3>1. JobAgrees(n)'
      BY <1>1, <1>4, <2>1, <2>3 DEF JobOK, JobAgrees, MintAt, InviteeOf
    <3> QED BY <3>1, <1>1, <1>4, <2>1, <2>3
          DEF JobOK, JobShape, JobDelivers, MintAt, InviteeOf, Parties, shipVars
  <2> QED BY <2>2, <2>3
<1>9. RewardedIsDelivered'
  BY <1>1, ShipStays, StaysDelivered DEF ReferralInv
<1> QED BY <1>5, <1>7, <1>8, <1>9 DEF ReferralInv

\* The quotas grow with the set of rewarded logs, and nobody has yet posted
\* one for the log that is rewarded.
LEMMA CommitRewardStep ==
  ASSUME ReferralInv, NEW m \in Mints, CommitReward(m)
  PROVE  ReferralInv'
<1> DEFINE i == mint[m].invitee
<1>i. PICK j \in Invitees : j = mint[m].invitee
  BY DEF ReferralInv, ReferralTypeOK, MintJob
<1>1. /\ MintAt(m, "commit") /\ log[j] = "PENDING" /\ claimer[j] = m
      /\ UNCHANGED <<shipVars, trialPlan>>
      /\ log' = [log EXCEPT ![j] = "COMPLETED"] /\ claimer' = [claimer EXCEPT ![j] = NoMint]
      /\ quota' = [u \in ReferralUsers |-> IF u \in Parties(j) THEN Rewarded(u) ELSE quota[u]]
      /\ rewardedLogs' = rewardedLogs \cup {j}
      /\ Work(m, "provision", Parties(j))
  BY <1>i DEF CommitReward, ReferralInv, JobOK, JobAgrees, InviteeOf
<1>2. j \notin rewardedLogs
  BY <1>1 DEF ReferralInv, RewardedOnce
<1>3. /\ log' \in [Invitees -> LogStatuses] /\ log'[j] = "COMPLETED"
      /\ \A k \in Invitees : k # j => log'[k] = log[k]
      /\ claimer' \in [Invitees -> Mints \cup {NoMint}]
      /\ \A k \in Invitees : k # j => claimer'[k] = claimer[k]
  BY <1>1 DEF ReferralInv, ReferralTypeOK, LogStatuses
<1>4. /\ mint' \in [Mints -> MintJob] /\ mint'[m].step = "provision"
      /\ mint'[m].users = Parties(j) /\ mint'[m].invitee = j
      /\ \A n \in Mints : n # m => mint'[n] = mint[n]
  BY <1>i, <1>1, WorkEffect, PartiesAreUsers DEF MintSteps, ReferralInv
<1>5. \A u \in ReferralUsers : quota[u] \in Nat \cup {NoTrial}
  BY DEF ReferralInv, ReferralTypeOK
<1>6. ReferralTypeOK'
  <2>1. quota' \in [ReferralUsers -> Nat \cup {NoTrial}]
    BY <1>1, <1>5 DEF Rewarded
  <2> QED BY <1>1, <1>3, <1>4, <2>1 DEF ReferralInv, ReferralTypeOK, shipVars
<1>7. RewardedOnce'
  <2>1. \A k \in rewardedLogs' : log'[k] \in {"COMPLETED", "REWARDED"}
    BY <1>1, <1>3 DEF ReferralInv, ReferralTypeOK, RewardedOnce
  <2>2. ASSUME NEW u \in ReferralUsers
        PROVE  IF quota'[u] = NoTrial THEN InvitationsOf(u, rewardedLogs') = {}
               ELSE quota'[u] = Cardinality(InvitationsOf(u, rewardedLogs'))
    <3> DEFINE Inv == InvitationsOf(u, rewardedLogs)
    <3>1. IF quota[u] = NoTrial THEN Inv = {} ELSE quota[u] = Cardinality(Inv)
      BY DEF ReferralInv, RewardedOnce
    <3>2. IsFiniteSet(Inv) /\ Cardinality(Inv) \in Nat /\ j \notin Inv
      BY <1>2, LogsAreFinite DEF ReferralInv, InvitationsOf
    <3>3. CASE u \in Parties(j)
      <4>1. InvitationsOf(u, rewardedLogs') = Inv \cup {j}
        BY <1>1, <3>3 DEF InvitationsOf
      <4>2. Cardinality(Inv \cup {j}) = Cardinality(Inv) + 1
        BY <3>2, FS_AddElement
      <4>3. quota'[u] = Cardinality(Inv) + 1
        <5>1. CASE quota[u] = NoTrial
          <6>1. Cardinality(Inv) = 0
            BY <5>1, <3>1, FS_EmptySet
          <6> QED BY <5>1, <6>1, <1>1, <3>3 DEF Rewarded
        <5>2. CASE quota[u] # NoTrial
          BY <5>2, <3>1, <1>1, <3>3 DEF Rewarded
        <5> QED BY <5>1, <5>2
      <4> QED BY <4>1, <4>2, <4>3, <3>2, ReferralAssumption
    <3>4. CASE u \notin Parties(j)
      <4>1. InvitationsOf(u, rewardedLogs') = Inv
        BY <1>1, <3>4 DEF InvitationsOf
      <4> QED BY <4>1, <3>1, <3>4, <1>1
    <3> QED BY <3>3, <3>4
  <2> QED BY <2>1, <2>2 DEF RewardedOnce
<1>8. ASSUME NEW n \in Mints PROVE JobOK(n)'
  <2>1. mint[n].invitee \in Invitees /\ JobOK(n)
    BY DEF ReferralInv, ReferralTypeOK, MintJob
  <2>2. CASE n = m
    BY <1>3, <1>4, <2>2 DEF JobOK, JobAgrees, JobShape, JobDelivers, MintAt, InviteeOf, Parties
  <2>3. CASE n # m
    <3>1. JobAgrees(n)'
      BY <1>1, <1>3, <1>4, <2>1, <2>3 DEF JobOK, JobAgrees, MintAt, InviteeOf
    <3>2. JobShape(n)'
      BY <1>4, <2>1, <2>3 DEF JobOK, JobShape, MintAt, InviteeOf, Parties
    <3>3. mint[n].step \in {"provision", "post", "mark"} => mint[n].invitee # j
      BY <1>1, <2>1 DEF JobOK, JobAgrees, InviteeOf
    <3>4. JobDelivers(n)'
      BY <1>1, <1>4, <2>1, <2>3, <3>3
         DEF JobOK, JobDelivers, MintAt, InviteeOf, Parties, shipVars
    <3> QED BY <3>1, <3>2, <3>4 DEF JobOK
  <2> QED BY <2>2, <2>3
<1>9. RewardedIsDelivered'
  BY <1>1, <1>3 DEF ReferralInv, ReferralTypeOK, RewardedIsDelivered, Parties, shipVars
<1> QED BY <1>6, <1>7, <1>8, <1>9 DEF ReferralInv

\* What is marked was taken, for both sides.
LEMMA MarkRewardedStep ==
  ASSUME ReferralInv, NEW m \in Mints, MarkRewarded(m)
  PROVE  ReferralInv'
<1>i. PICK j \in Invitees : j = mint[m].invitee
  BY DEF ReferralInv, ReferralTypeOK, MintJob
<1>1. /\ MintAt(m, "mark") /\ log[j] \in {"COMPLETED", "REWARDED"}
      /\ UNCHANGED <<quota, shipVars, trialPlan, claimer, rewardedLogs>>
      /\ log' = [log EXCEPT ![j] = IF @ = "COMPLETED" THEN "REWARDED" ELSE @]
      /\ EndMint(m)
  BY <1>i DEF MarkRewarded, ReferralInv, JobOK, JobAgrees, InviteeOf, MintAt
<1>2. /\ log' \in [Invitees -> LogStatuses] /\ log'[j] = "REWARDED"
      /\ \A k \in Invitees : k # j => log'[k] = log[k]
  BY <1>1 DEF ReferralInv, ReferralTypeOK, LogStatuses
<1>3. /\ mint' \in [Mints -> MintJob] /\ mint'[m].step = "idle"
      /\ \A n \in Mints : n # m => mint'[n] = mint[n]
  BY IdleMintType, <1>1, EndEffect DEF ReferralInv
<1>4. ReferralTypeOK'
  BY <1>1, <1>2, <1>3 DEF ReferralInv, ReferralTypeOK, shipVars
<1>5. RewardedOnce'
  BY <1>1, <1>2 DEF ReferralInv, ReferralTypeOK, RewardedOnce
<1>6. ASSUME NEW n \in Mints PROVE JobOK(n)'
  <2>1. mint[n].invitee \in Invitees /\ JobOK(n)
    BY DEF ReferralInv, ReferralTypeOK, MintJob
  <2>2. CASE n = m
    BY <1>3, <2>2 DEF JobOK, JobAgrees, JobShape, JobDelivers, MintAt
  <2>3. CASE n # m
    <3>1. JobAgrees(n)'
      BY <1>1, <1>2, <1>3, <2>1, <2>3 DEF JobOK, JobAgrees, MintAt, InviteeOf
    <3> QED BY <3>1, <1>1, <1>3, <2>1, <2>3
          DEF JobOK, JobShape, JobDelivers, MintAt, InviteeOf, Parties, shipVars
  <2> QED BY <2>2, <2>3
<1>7. RewardedIsDelivered'
  <2>1. j \in rewardedLogs => \A u \in Parties(j) : j \in taken[u]
    BY <1>i, <1>1 DEF ReferralInv, JobOK, JobShape, JobDelivers, MintAt, InviteeOf
  <2> QED BY <1>1, <1>2, <2>1
        DEF ReferralInv, ReferralTypeOK, RewardedIsDelivered, Parties, shipVars
<1> QED BY <1>4, <1>5, <1>6, <1>7 DEF ReferralInv

LEMMA ActivateTrialStep ==
  ASSUME ReferralInv, NEW u \in ReferralUsers, ActivateTrial(u)
  PROVE  ReferralInv'
<1>1. /\ quota[u] = NoTrial /\ quota' = [quota EXCEPT ![u] = 0]
      /\ UNCHANGED <<log, shipVars, trialPlan, claimer, rewardedLogs, mint>>
  BY DEF ActivateTrial
<1>2. /\ quota' \in [ReferralUsers -> Nat \cup {NoTrial}] /\ quota'[u] = 0
      /\ \A v \in ReferralUsers : v # u => quota'[v] = quota[v]
  BY <1>1 DEF ReferralInv, ReferralTypeOK
<1>3. ReferralTypeOK'
  BY <1>1, <1>2 DEF ReferralInv, ReferralTypeOK, shipVars
<1>4. InvitationsOf(u, rewardedLogs) = {}
  BY <1>1 DEF ReferralInv, RewardedOnce
<1>5. RewardedOnce'
  <2>1. ASSUME NEW v \in ReferralUsers
        PROVE  IF quota'[v] = NoTrial THEN InvitationsOf(v, rewardedLogs) = {}
               ELSE quota'[v] = Cardinality(InvitationsOf(v, rewardedLogs))
    BY <1>2, <1>4, FS_EmptySet DEF ReferralInv, RewardedOnce
  <2> QED BY <2>1, <1>1 DEF ReferralInv, RewardedOnce, InvitationsOf
<1>6. TakenGrows
  BY <1>1, ShipStays DEF ReferralInv
<1>7. \A n \in Mints : JobOK(n)'
  BY <1>1, <1>6, OthersStay
<1>8. RewardedIsDelivered'
  BY <1>1, <1>6, StaysDelivered
<1> QED BY <1>3, <1>5, <1>7, <1>8 DEF ReferralInv

LEMMA MintsLostStep ==
  ASSUME ReferralInv, MintsLost
  PROVE  ReferralInv'
<1>1. /\ mint' \in [Mints -> MintJob] /\ claimer' \in [Invitees -> Mints \cup {NoMint}]
      /\ readings' \in [ReferralUsers -> SUBSET SUBSET Invitees]
      /\ \A n \in Mints : mint'[n].step = "idle"
      /\ UNCHANGED <<log, quota, shipped, taken, trialPlan, rewardedLogs>>
  BY IdleMintType DEF MintsLost
<1>2. ReferralTypeOK' /\ RewardedOnce' /\ TakenGrows
  BY <1>1 DEF ReferralInv, ReferralTypeOK, RewardedOnce, TakenGrows
<1>3. \A n \in Mints : JobOK(n)'
  BY <1>1 DEF JobOK, JobAgrees, JobShape, JobDelivers, MintAt
<1>4. RewardedIsDelivered'
  BY <1>1, <1>2, StaysDelivered
<1> QED BY <1>2, <1>3, <1>4 DEF ReferralInv

LEMMA NextReferrals == ReferralInv /\ [ReferralNext]_referralVars => ReferralInv'
<1> SUFFICES ASSUME ReferralInv, [ReferralNext]_referralVars PROVE ReferralInv'
  OBVIOUS
<1>1. ASSUME NEW m \in Mints, NEW i \in Invitees, SignUp(m, i) \/ StartAgain(m, i)
      PROVE  ReferralInv'
  BY <1>1, SignUpStep, StartAgainStep
<1>2. ASSUME NEW m \in Mints, ClaimLog(m) \/ CommitReward(m) \/ RewardConflict(m)
      PROVE  ReferralInv'
  BY <1>2, ClaimLogStep, CommitRewardStep, RewardConflictStep
<1>3. ASSUME NEW m \in Mints,
             \/ CollectTrials(m) \/ LoadTrial(m) \/ PostQuota(m) \/ ShipFails(m)
             \/ MarkRewarded(m)
      PROVE  ReferralInv'
  BY <1>3, CollectTrialsStep, LoadTrialStep, PostQuotaStep, ShipFailsStep, MarkRewardedStep
<1>4. ASSUME NEW u \in ReferralUsers, ActivateTrial(u) \/ OtherLoads(u) \/ OtherEnds(u)
      PROVE  ReferralInv'
  BY <1>4, ActivateTrialStep, OtherProvisioners
<1>5. Repaired \subseteq ReferralUsers
  BY ReferralAssumption
<1>6. ASSUME NEW i \in Invitees, CommissionCompletesLog(i)
      PROVE  ReferralInv'
  BY <1>6, LogStep DEF CommissionCompletesLog
<1>7. CASE ToggleTrialPlan \/ UNCHANGED referralVars
  <2>1. /\ UNCHANGED <<log, quota, shipVars, claimer, rewardedLogs, mint>>
        /\ trialPlan' \in BOOLEAN
    BY <1>7 DEF ToggleTrialPlan, referralVars, ReferralInv, ReferralTypeOK
  <2> QED BY <2>1, PanelMoves, ShipStays DEF ReferralInv
<1>8. CASE MintsLost
  BY <1>8, MintsLostStep
<1> QED BY <1>1, <1>2, <1>3, <1>4, <1>5, <1>6, <1>7, <1>8 DEF ReferralNext

\* Types of logs, quotas and requests, and what each request knows of its log.
LEMMA ReferralInvariance == ReferralSpec => []ReferralInv
<1> QED BY InitReferrals, NextReferrals, PTL DEF ReferralSpec

\* However many requests, restarts, commissions and retries there are, a
\* quota holds one reward for each rewarded invitation.
THEOREM SignupRewardedOnce == ReferralSpec => []RewardedOnce
<1>1. ReferralInv => RewardedOnce
  BY DEF ReferralInv
<1> QED BY <1>1, ReferralInvariance, PTL

\* Both sides' panel clients were given a quota that counts the reward of a log
\* that says REWARDED, whichever provisioners read the trials before that reward
\* and posted what they had read at any time.
THEOREM RewardedLogsAreDelivered == ReferralSpec => []RewardedIsDelivered
<1>1. ReferralInv => RewardedIsDelivered
  BY DEF ReferralInv
<1> QED BY <1>1, ReferralInvariance, PTL

-----------------------------------------------------------------------------
(* Sessions: a read that is refused for good met a second restart.         *)

Holds(e) == e.at \in {"send", "reply"}

Refused(e) == e.at = "reply" /\ e.answer \in {"denied", "hidden"}
Captures(e) == e.at = "reply" /\ e.answer = "ok" /\ e.cookie # NoCookie

\* The panel knows the cookie of the object.
Fresh(l) == cookie[l] = restarts

\* A refusal means that the panel does not know the object's cookie, and an
\* answer that is ok captures the cookie of the panel's life only into an
\* object that has it; a retry holds an object the panel knows until the panel
\* restarts again.
ExchangeOK(e) ==
  /\ Holds(e) => e.login \in Logins
  /\ e.since <= restarts
  /\ Captures(e) => e.cookie <= restarts /\ (e.cookie = restarts <=> Fresh(e.login))
  /\ Refused(e) => ~Fresh(e.login)
  /\ e.at = "reply" /\ e.answer = "hidden" => e.cookie \in {NoCookie, Anonymous}
  /\ Holds(e) /\ e.attempt = 2 => e.since < restarts \/ Fresh(e.login)
  /\ e.at = "denied" /\ e.method = "GET" =>
       IF e.attempt = 1 THEN e.answer = "hidden" ELSE e.since < restarts

CookiesOK == \A l \in Logins : cookie[l] = Anonymous \/ cookie[l] <= restarts

USE DEF Refused, Captures, Fresh

SessionInv == SessionTypeOK /\ CookiesOK /\ \A c \in Exchanges : ExchangeOK(exchange[c])

-----------------------------------------------------------------------------
LEMMA QuietIsOK ==
  ASSUME SessionTypeOK
  PROVE  Quiet \in Exchange /\ ExchangeOK(Quiet)
BY SessionsAssumption DEF SessionTypeOK, Quiet, Exchange, Life, NoCookie, ExchangeOK, Holds

LEMMA InitSession == SessionInit => SessionInv
<1> SUFFICES ASSUME SessionInit PROVE SessionInv
  OBVIOUS
<1>1. SessionTypeOK
  BY SessionsAssumption DEF SessionInit, SessionTypeOK, Quiet, Exchange, Life, NoCookie
<1>2. CookiesOK
  BY DEF SessionInit, CookiesOK
<1> QED BY <1>1, <1>2, QuietIsOK DEF SessionInv, SessionInit

\* One exchange changes; a cookie may, but not whether the panel knows it.
LEMMA OneExchange ==
  ASSUME SessionInv, NEW c \in Exchanges, NEW e \in Exchange, ExchangeOK(e)',
         exchange' = [exchange EXCEPT ![c] = e],
         cache' \in Logins \cup {NoLogin},
         cookie' \in [Logins -> Life \cup {Anonymous}], CookiesOK',
         \A l \in Logins : Fresh(l)' <=> Fresh(l),
         UNCHANGED <<aged, restarts>>
  PROVE  SessionInv'
<1>1. SessionTypeOK'
  BY DEF SessionInv, SessionTypeOK
<1>2. ASSUME NEW x \in Exchanges, x # c PROVE ExchangeOK(exchange[x])'
  <2>1. exchange'[x] = exchange[x] /\ ExchangeOK(exchange[x]) /\ restarts' = restarts
    BY <1>2 DEF SessionInv, SessionTypeOK
  <2>2. Holds(exchange[x]) => (Fresh(exchange[x].login)' <=> Fresh(exchange[x].login))
    BY <2>1 DEF ExchangeOK
  <2> QED BY <2>1, <2>2 DEF ExchangeOK, Holds
<1>3. exchange'[c] = e
  BY DEF SessionInv, SessionTypeOK
<1> QED BY <1>1, <1>2, <1>3 DEF SessionInv

\* No cookie changes.
LEMMA SameCookies ==
  ASSUME SessionInv, NEW c \in Exchanges, NEW e \in Exchange, ExchangeOK(e),
         exchange' = [exchange EXCEPT ![c] = e],
         cache' \in Logins \cup {NoLogin}, UNCHANGED <<cookie, aged, restarts>>
  PROVE  SessionInv'
<1>1. CookiesOK' /\ cookie' \in [Logins -> Life \cup {Anonymous}]
      /\ \A l \in Logins : Fresh(l)' <=> Fresh(l)
  BY DEF SessionInv, SessionTypeOK, CookiesOK
<1>2. ExchangeOK(e)'
  BY DEF ExchangeOK, Holds
<1> QED BY <1>1, <1>2, OneExchange

\* A request begins, is lost, retries or throws.
LEMMA ExchangeStarts ==
  ASSUME SessionInv, NEW c \in Exchanges, NEW method \in {"GET", "POST"},
         StartRequest(c, method)
  PROVE  SessionInv'
<1>1. cache' \in Logins \cup {NoLogin} /\ UNCHANGED <<cookie, aged, restarts>>
  BY DEF StartRequest, SessionInv, SessionTypeOK
<1>2. CASE cache # NoLogin /\ cache \notin aged
  <2> DEFINE e == [Quiet EXCEPT !.at = "send", !.method = method, !.login = cache]
  <2>1. exchange' = [exchange EXCEPT ![c] = e]
    BY <1>2 DEF StartRequest
  <2>2. e \in Exchange /\ e.at = "send" /\ e.login \in Logins /\ e.since = 0 /\ e.attempt = 1
    BY <1>2, QuietIsOK DEF Quiet, Exchange, SessionInv, SessionTypeOK
  <2>3. ExchangeOK(e)
    BY <2>2, SessionsAssumption DEF ExchangeOK, Holds, SessionInv, SessionTypeOK, Life
  <2> QED BY <1>1, <2>1, <2>2, <2>3, SameCookies
<1>3. CASE ~(cache # NoLogin /\ cache \notin aged)
  <2> DEFINE e == [Quiet EXCEPT !.at = "login", !.method = method]
  <2>1. exchange' = [exchange EXCEPT ![c] = e]
    BY <1>3 DEF StartRequest
  <2>2. e \in Exchange /\ e.at = "login" /\ e.since = 0
    BY QuietIsOK DEF Quiet, Exchange, SessionInv
  <2>3. ExchangeOK(e)
    BY <2>2, SessionsAssumption DEF ExchangeOK, Holds, SessionInv, SessionTypeOK, Life
  <2> QED BY <1>1, <2>1, <2>2, <2>3, SameCookies
<1> QED BY <1>2, <1>3

LEMMA EndSteps ==
  ASSUME SessionInv, NEW c \in Exchanges, LoginFails(c) \/ RequestLost(c) \/ Throw(c)
  PROVE  SessionInv'
<1>1. exchange' \in {[exchange EXCEPT ![c] = Quiet]} /\ UNCHANGED <<cache, cookie, aged, restarts>>
  BY DEF LoginFails, RequestLost, Throw
<1>2. cache' \in Logins \cup {NoLogin}
  BY <1>1 DEF SessionInv, SessionTypeOK
<1> QED BY <1>1, <1>2, QuietIsOK, SameCookies DEF SessionInv

\* The exchange a retry begins with.
LEMMA RetryExchange ==
  ASSUME NEW q \in Exchange, NEW n \in Life
  PROVE  LET e == [q EXCEPT !.at = "login", !.attempt = 2, !.since = n]
         IN  e \in Exchange /\ e.at = "login" /\ e.since = n
<1>1. [q EXCEPT !.at = "login"] \in Exchange
  BY DEF Exchange
<1>2. ASSUME NEW r \in Exchange PROVE [r EXCEPT !.attempt = 2] \in Exchange
  BY DEF Exchange
<1>3. ASSUME NEW r \in Exchange PROVE [r EXCEPT !.since = n] \in Exchange
  BY DEF Exchange
<1> QED BY <1>1, <1>2, <1>3 DEF Exchange

LEMMA RetryStep ==
  ASSUME SessionInv, NEW c \in Exchanges, RetryAfterDenial(c)
  PROVE  SessionInv'
<1> DEFINE e == [Quiet EXCEPT !.at = "login", !.attempt = 2, !.since = restarts]
<1>1. e \in Exchange /\ e.at = "login" /\ e.since = restarts /\ restarts \in Life
  BY QuietIsOK, RetryExchange DEF SessionInv, SessionTypeOK
<1>2. ExchangeOK(e)
  BY <1>1, SessionsAssumption DEF ExchangeOK, Holds, Life
<1>3. exchange' = [exchange EXCEPT ![c] = e] /\ cache' = NoLogin
      /\ UNCHANGED <<cookie, aged, restarts>>
  BY DEF RetryAfterDenial
<1> QED BY <1>1, <1>2, <1>3, SameCookies

LEMMA DeniedStep ==
  ASSUME SessionInv, NEW c \in Exchanges, Denied(c)
  PROVE  SessionInv'
<1> DEFINE e == [exchange[c] EXCEPT !.at = "denied"]
<1>1. exchange[c] \in Exchange /\ ExchangeOK(exchange[c])
  BY DEF SessionInv, SessionTypeOK
<1>2. exchange[c].at = "reply" /\ exchange[c].answer = "denied" /\ ~Retried(c)
      /\ exchange' = [exchange EXCEPT ![c] = e] /\ UNCHANGED <<cache, cookie, aged, restarts>>
  BY <1>1 DEF Denied
<1>3. e \in Exchange /\ e.at = "denied" /\ e.method = exchange[c].method
      /\ e.attempt = exchange[c].attempt /\ e.since = exchange[c].since
  BY <1>1 DEF Exchange
<1>4. ExchangeOK(e)
  <2>1. e.method = "GET" => e.attempt = 2
    BY <1>2, <1>3 DEF Retried, Exchange
  <2>2. e.attempt = 2 => e.since < restarts
    BY <1>1, <1>2, <1>3 DEF ExchangeOK, Holds
  <2> HIDE DEF e
  <2> QED BY <1>1, <1>3, <2>1, <2>2 DEF ExchangeOK, Holds
<1> QED BY <1>2, <1>3, <1>4, SameCookies DEF SessionInv, SessionTypeOK

LEMMA AnswerStep ==
  ASSUME SessionInv, NEW c \in Exchanges, PanelAnswers(c)
  PROVE  SessionInv'
<1>1. exchange[c] \in Exchange /\ ExchangeOK(exchange[c]) /\ exchange[c].at = "send"
      /\ exchange[c].login \in Logins /\ restarts \in Life
  BY DEF SessionInv, SessionTypeOK, PanelAnswers, ExchangeOK, Holds
<1>2. UNCHANGED <<cache, cookie, aged, restarts>> /\ cache' \in Logins \cup {NoLogin}
  BY DEF PanelAnswers, SessionInv, SessionTypeOK
<1>3. PICK answer \in {"ok", "denied", "hidden"}, new \in Life \cup {NoCookie, Anonymous} :
        /\ Replies(c, answer, new)
        /\ answer = "ok" => Fresh(exchange[c].login) /\ new \in {NoCookie, restarts}
        /\ answer # "ok" => ~Fresh(exchange[c].login)
        /\ answer = "hidden" => new \in {NoCookie, Anonymous}
  BY <1>1 DEF PanelAnswers
<1> DEFINE e == [exchange[c] EXCEPT !.at = "reply", !.answer = answer, !.cookie = new]
<1>4. exchange' = [exchange EXCEPT ![c] = e]
  BY <1>3 DEF Replies
<1>5. e \in Exchange /\ e.at = "reply" /\ e.answer = answer /\ e.cookie = new
      /\ e.login = exchange[c].login /\ e.since = exchange[c].since
      /\ e.attempt = exchange[c].attempt
  BY <1>1, <1>3 DEF Exchange
<1> HIDE DEF e
<1>6. ExchangeOK(e)
  BY <1>1, <1>3, <1>5, SessionsAssumption DEF ExchangeOK, Holds, Life, NoCookie
<1> QED BY <1>2, <1>4, <1>5, <1>6, SameCookies

\* The captured cookie is one the panel knows just when the object's is.
LEMMA CaptureStep ==
  ASSUME SessionInv, NEW c \in Exchanges, CaptureCookies(c)
  PROVE  SessionInv'
<1>1. exchange[c] \in Exchange /\ ExchangeOK(exchange[c]) /\ exchange[c].at = "reply"
      /\ exchange[c].answer \in {"ok", "hidden"} /\ exchange[c].login \in Logins
      /\ restarts \in Life
  BY DEF SessionInv, SessionTypeOK, CaptureCookies, ExchangeOK, Holds
<1> DEFINE l == exchange[c].login
           new == exchange[c].cookie
           f == IF exchange[c].answer = "ok" THEN Quiet ELSE [exchange[c] EXCEPT !.at = "denied"]
<1>2. exchange' = [exchange EXCEPT ![c] = f] /\ UNCHANGED <<aged, restarts>>
  BY DEF CaptureCookies
<1>3. cache' \in Logins \cup {NoLogin}
  BY <1>1 DEF CaptureCookies, SessionInv, SessionTypeOK
<1>4. f \in Exchange /\ ExchangeOK(f)
  <2>1. CASE exchange[c].answer = "ok"
    BY <2>1, QuietIsOK DEF SessionInv
  <2>2. CASE exchange[c].answer = "hidden"
    <3>1. f \in Exchange /\ f.at = "denied" /\ f.answer = "hidden"
          /\ f.attempt = exchange[c].attempt /\ f.since = exchange[c].since
      BY <1>1, <2>2 DEF Exchange
    <3>2. f.attempt = 2 => f.since < restarts
      BY <1>1, <2>2, <3>1 DEF ExchangeOK, Holds
    <3>3. f.attempt \in {1, 2}
      BY <3>1 DEF Exchange
    <3> HIDE DEF f
    <3> QED BY <1>1, <3>1, <3>2, <3>3 DEF ExchangeOK, Holds
  <2> QED BY <1>1, <2>1, <2>2
<1>5. cookie' \in [Logins -> Life \cup {Anonymous}] /\ CookiesOK'
      /\ \A x \in Logins : Fresh(x)' <=> Fresh(x)
  <2>1. CASE new = NoCookie
    BY <1>2, <2>1 DEF CaptureCookies, SessionInv, SessionTypeOK, CookiesOK
  <2>2. CASE new # NoCookie
    <3>1. cookie' = [cookie EXCEPT ![l] = new] /\ cookie \in [Logins -> Life \cup {Anonymous}]
      BY <2>2 DEF CaptureCookies, SessionInv, SessionTypeOK
    <3>2. new \in Life \cup {Anonymous} /\ (new = Anonymous \/ new <= restarts)
          /\ (new = restarts <=> Fresh(l))
      BY <1>1, <2>2, SessionsAssumption DEF ExchangeOK, Life, Anonymous, Exchange
    <3> HIDE DEF l, new
    <3>3. \A x \in Logins : cookie'[x] = IF x = l THEN new ELSE cookie[x]
      BY <3>1
    <3> QED BY <1>2, <3>1, <3>2, <3>3 DEF CookiesOK, SessionInv
  <2> QED BY <2>1, <2>2
<1> HIDE DEF f
<1>6. PICK e \in Exchange : e = f
  BY <1>4
<1>7. ExchangeOK(e)'
  <2>1. Holds(e) => (Fresh(e.login)' <=> Fresh(e.login))
    BY <1>4, <1>5, <1>6 DEF ExchangeOK
  <2> QED BY <1>2, <1>4, <1>6, <2>1 DEF ExchangeOK, Holds
<1> QED BY <1>2, <1>3, <1>4, <1>5, <1>7, <1>6, OneExchange

LEMMA LoginStep ==
  ASSUME SessionInv, NEW c \in Exchanges, Login(c)
  PROVE  SessionInv'
<1>1. PICK l \in Unused :
        /\ cookie' = [cookie EXCEPT ![l] = restarts]
        /\ aged' = aged \ {l} /\ cache' = l
        /\ exchange' = [exchange EXCEPT ![c] = [@ EXCEPT !.at = "send", !.login = l]]
  BY DEF Login
<1>2. exchange[c] \in Exchange /\ ExchangeOK(exchange[c]) /\ exchange[c].at = "login"
      /\ restarts' = restarts
  BY DEF SessionInv, SessionTypeOK, Login
<1> DEFINE e == [exchange[c] EXCEPT !.at = "send", !.login = l]
<1>3. l \in Logins /\ \A x \in Exchanges : exchange[x].login # l
  BY DEF Unused
<1>4. e \in Exchange /\ exchange' = [exchange EXCEPT ![c] = e]
  BY <1>1, <1>2, <1>3 DEF Exchange
<1>5. SessionTypeOK' /\ CookiesOK'
  BY <1>1, <1>2, <1>3, <1>4, SessionsAssumption DEF SessionInv, SessionTypeOK, CookiesOK, Life
<1>6. cookie'[l] = restarts
  BY <1>1, <1>3 DEF SessionInv, SessionTypeOK
<1>7. ExchangeOK(exchange[c])'
  <2>1. exchange'[c].at = "send" /\ exchange'[c].login = l
        /\ exchange'[c].since = exchange[c].since
    BY <1>2, <1>4 DEF Exchange, SessionInv, SessionTypeOK
  <2>2. exchange[c].since <= restarts /\ restarts' = restarts
    BY <1>2 DEF ExchangeOK
  <2> QED BY <1>3, <1>6, <2>1, <2>2 DEF ExchangeOK, Holds
<1>8. ASSUME NEW x \in Exchanges, x # c
      PROVE  ExchangeOK(exchange[x])'
  <2>1. exchange'[x] = exchange[x] /\ ExchangeOK(exchange[x])
    BY <1>4, <1>8 DEF SessionInv, SessionTypeOK
  <2>2. Holds(exchange[x]) => cookie'[exchange[x].login] = cookie[exchange[x].login]
    BY <1>1, <1>3, <2>1 DEF ExchangeOK, SessionInv, SessionTypeOK
  <2> QED BY <1>2, <2>1, <2>2 DEF ExchangeOK, Holds
<1> QED BY <1>4, <1>5, <1>7, <1>8 DEF SessionInv, SessionTypeOK

LEMMA PanelSteps ==
  ASSUME SessionInv, PanelRestarts \/ HourPasses \/ UNCHANGED sessionVars
  PROVE  SessionInv'
<1>1. CASE PanelRestarts
  <2>1. restarts' = restarts + 1 /\ restarts' \in Life /\ restarts \in Life
        /\ UNCHANGED <<cache, cookie, aged, exchange>>
    BY <1>1, SessionsAssumption DEF PanelRestarts, SessionInv, SessionTypeOK, Life
  <2>2. SessionTypeOK' /\ CookiesOK'
    BY <2>1 DEF SessionInv, SessionTypeOK, CookiesOK, Life
  <2>3. ASSUME NEW x \in Exchanges PROVE ExchangeOK(exchange[x])'
    <3>1. exchange[x] \in Exchange /\ ExchangeOK(exchange[x])
          /\ (Holds(exchange[x]) => exchange[x].login \in Logins)
          /\ exchange[x].since \in Life /\ exchange[x].cookie \in Life \cup {NoCookie, Anonymous}
      BY DEF SessionInv, SessionTypeOK, ExchangeOK, Exchange
    <3>2. \A l \in Logins : ~Fresh(l)'
      BY <2>1, SessionsAssumption DEF SessionInv, CookiesOK, Life, Anonymous
    <3>3. Captures(exchange[x]) => exchange[x].cookie <= restarts /\ exchange[x].cookie \in Life
      BY <2>1, <3>1, SessionsAssumption DEF ExchangeOK, Life, NoCookie, Anonymous
    <3>4. Captures(exchange[x]) => exchange[x].cookie <= restarts' /\ exchange[x].cookie # restarts'
      BY <2>1, <3>3 DEF Life
    <3>5. exchange[x].since < restarts' /\ exchange[x].since <= restarts'
      BY <2>1, <3>1 DEF ExchangeOK, Life
    <3>6. PICK e \in Exchange : e = exchange[x] /\ e = exchange'[x]
      BY <2>1, <3>1
    <3>7. ExchangeOK(e)'
      BY <3>1, <3>2, <3>4, <3>5, <3>6 DEF ExchangeOK, Holds
    <3> QED BY <3>6, <3>7
  <2> QED BY <2>2, <2>3 DEF SessionInv
<1>2. CASE HourPasses
  BY <1>2 DEF HourPasses, SessionInv, SessionTypeOK, CookiesOK, ExchangeOK, Holds
<1>3. CASE UNCHANGED sessionVars
  BY <1>3 DEF sessionVars, SessionInv, SessionTypeOK, CookiesOK, ExchangeOK, Holds
<1> QED BY <1>1, <1>2, <1>3

LEMMA NextSession == SessionInv /\ [SessionNext]_sessionVars => SessionInv'
<1> SUFFICES ASSUME SessionInv, [SessionNext]_sessionVars PROVE SessionInv'
  OBVIOUS
<1>1. CASE PanelRestarts \/ HourPasses \/ UNCHANGED sessionVars
  BY <1>1, PanelSteps
<1>2. ASSUME NEW c \in Exchanges, NEW method \in {"GET", "POST"}, StartRequest(c, method)
      PROVE  SessionInv'
  BY <1>2, ExchangeStarts
<1>3. ASSUME NEW c \in Exchanges,
             \/ Login(c) \/ LoginFails(c) \/ PanelAnswers(c) \/ RequestLost(c)
             \/ CaptureCookies(c) \/ RetryAfterDenial(c) \/ Denied(c) \/ Throw(c)
      PROVE  SessionInv'
  BY <1>3, LoginStep, EndSteps, AnswerStep, CaptureStep, RetryStep, DeniedStep
<1> QED BY <1>1, <1>2, <1>3 DEF SessionNext

LEMMA SessionInvariance == SessionSpec => []SessionInv
BY InitSession, NextSession, PTL DEF SessionSpec

\* Requests that share a session cannot spoil one another's retry: whoever is
\* refused twice met two restarts of the panel.
THEOREM OneRestartIsSurvived == SessionSpec => []ReadsSurviveARestart
<1>1. SessionInv => ReadsSurviveARestart
  BY DEF SessionInv, ExchangeOK, ReadsSurviveARestart
<1> QED BY <1>1, SessionInvariance, PTL

\* The types of the session objects and of what requests remember.
THEOREM SessionTypesKept == SessionSpec => []SessionTypeOK
<1>1. SessionInv => SessionTypeOK
  BY DEF SessionInv
<1> QED BY <1>1, SessionInvariance, PTL

-----------------------------------------------------------------------------
(* The inventory: what a process commits for a panel never goes back.      *)

JobFields == {"step", "kind", "panel", "address", "with", "read", "good"}
IsJob(j) == DOMAIN j = JobFields /\ j.read \in 0..edition
Busy(j) == j.step \in {"list", "commit"}

\* What a process has committed for the panel of a call, or of the call it may become.
CommittedFor(s) == latest[<<ProcessOf[s], PanelOf(s)>>]

InventoryShape ==
  /\ edition \in Nat
  /\ syncer = [s \in Syncers |-> syncer[s]]
  /\ latest = [x \in Processes \X Registered |-> latest[x]]
  /\ \A s \in Syncers : IsJob(syncer[s])
  /\ \A x \in Processes \X Registered : latest[x] \in 0..edition

\* One call of a process lists or commits for a panel, and what it has listed is
\* not older than what the process has committed.
OneSynchronises ==
  \A s, t \in Syncers :
    Busy(syncer[s]) /\ Busy(syncer[t]) /\ ProcessOf[s] = ProcessOf[t] /\ PanelOf(s) = PanelOf(t)
      => s = t
ReadsAreNew ==
  \A s \in Syncers :
    SyncerAt(s, "commit") /\ PanelOf(s) \in Registered => CommittedFor(s) <= syncer[s].read

InventoryInv == InventoryShape /\ OneSynchronises /\ ReadsAreNew

Forward == \A x \in Processes \X Registered : latest[x] <= latest'[x]

-----------------------------------------------------------------------------
LEMMA AsleepIsJob ==
  DOMAIN Asleep = JobFields /\ Asleep.read = 0 /\ Asleep.step = "idle" /\ Asleep.panel = NoPanel
BY DEF Asleep, JobFields

LEMMA AsleepFits == InventoryShape => IsJob(Asleep) /\ ~Busy(Asleep)
BY AsleepIsJob DEF IsJob, Busy, InventoryShape

LEMMA InitInventory == InventoryInit => InventoryInv
<1> SUFFICES ASSUME InventoryInit PROVE InventoryInv
  OBVIOUS
<1>1. edition = 0 /\ syncer = [s \in Syncers |-> Asleep]
      /\ latest = [x \in Processes \X Registered |-> 0]
  BY DEF InventoryInit
<1>2. \A s \in Syncers : syncer[s] = Asleep
  BY <1>1
<1>3. \A x \in Processes \X Registered : latest[x] = 0
  BY <1>1
<1>4. InventoryShape
  BY <1>1, <1>2, <1>3, AsleepIsJob DEF InventoryShape, IsJob
<1> QED BY <1>2, <1>4, AsleepIsJob DEF InventoryInv, OneSynchronises, ReadsAreNew, Busy, SyncerAt

LEMMA OwnListing ==
  ASSUME InventoryInv, NEW s \in Syncers, PanelOf(s) \in Registered
  PROVE  CommittedFor(s) \in 0..edition
<1>1. <<ProcessOf[s], PanelOf(s)>> \in Processes \X Registered
  BY DEF Processes
<1> QED BY <1>1 DEF CommittedFor, InventoryInv, InventoryShape

\* A step in which no call begins to list or to commit, and nothing is committed.
LEMMA QuietInventory ==
  ASSUME InventoryInv, UNCHANGED <<edition, latest>>,
         syncer' = [t \in Syncers |-> syncer'[t]],
         \A t \in Syncers : \/ syncer'[t] = syncer[t]
                            \/ IsJob(syncer'[t]) /\ ~Busy(syncer'[t])
  PROVE  InventoryInv' /\ Forward
<1>1. InventoryShape'
  <2>1. \A t \in Syncers : IsJob(syncer[t])
    BY DEF InventoryInv, InventoryShape
  <2>2. \A t \in Syncers : IsJob(syncer[t])'
    BY <2>1 DEF IsJob
  <2> QED BY <2>2 DEF InventoryInv, InventoryShape
<1>2. OneSynchronises'
  BY DEF InventoryInv, OneSynchronises, PanelOf
<1>3. ReadsAreNew'
  BY DEF InventoryInv, ReadsAreNew, PanelOf, CommittedFor, SyncerAt, Busy
<1>4. Forward
  BY DEF InventoryInv, InventoryShape, Forward
<1> QED BY <1>1, <1>2, <1>3, <1>4 DEF InventoryInv

\* One call goes on, to a step that neither lists nor commits.
LEMMA QuietCall ==
  ASSUME InventoryInv, UNCHANGED <<edition, latest>>, NEW s \in Syncers,
         NEW j, syncer' = [syncer EXCEPT ![s] = j], IsJob(j), ~Busy(j)
  PROVE  InventoryInv' /\ Forward
<1>1. syncer = [t \in Syncers |-> syncer[t]]
  BY DEF InventoryInv, InventoryShape
<1>2. /\ syncer' = [t \in Syncers |-> syncer'[t]] /\ syncer'[s] = j
      /\ \A t \in Syncers \ {s} : syncer'[t] = syncer[t]
  BY <1>1
<1> QED BY <1>2, QuietInventory

LEMMA SleepStep ==
  ASSUME InventoryInv, UNCHANGED <<edition, latest>>, NEW s \in Syncers, Sleeps(s)
  PROVE  InventoryInv' /\ Forward
<1>1. IsJob(Asleep) /\ ~Busy(Asleep)
  BY AsleepFits DEF InventoryInv
<1> QED BY <1>1, QuietCall DEF Sleeps

LEMMA GoesStep ==
  ASSUME InventoryInv, UNCHANGED <<edition, latest>>, NEW s \in Syncers,
         NEW step, step \notin {"list", "commit"}, SyncerGoes(s, step)
  PROVE  InventoryInv' /\ Forward
<1> DEFINE j == [syncer[s] EXCEPT !.step = step]
<1>1. syncer' = [syncer EXCEPT ![s] = j]
  BY DEF SyncerGoes
<1>2. IsJob(j) /\ ~Busy(j)
  BY DEF IsJob, Busy, InventoryInv, InventoryShape, JobFields
<1> HIDE DEF j
<1> QED BY <1>1, <1>2, QuietCall

LEMMA ConcludedStep ==
  ASSUME InventoryInv, UNCHANGED <<edition, latest>>, NEW s \in Syncers,
         NEW good, Concluded(s, good)
  PROVE  InventoryInv' /\ Forward
<1>1. syncer' = [t \in Syncers |-> syncer'[t]]
  BY DEF Concluded
<1>2. ASSUME NEW t \in Syncers
      PROVE  \/ syncer'[t] = syncer[t]
             \/ IsJob(syncer'[t]) /\ ~Busy(syncer'[t])
  <2>1. CASE t # s /\ ~(SyncerAt(t, "joined") /\ syncer[t].with = s)
    BY <2>1 DEF Concluded
  <2>2. CASE ~(t # s /\ ~(SyncerAt(t, "joined") /\ syncer[t].with = s))
    <3>1. CASE syncer[t].kind = "request"
      BY <2>2, <3>1, AsleepFits DEF Concluded, InventoryInv
    <3>2. CASE syncer[t].kind # "request"
      <4> DEFINE j == [syncer[t] EXCEPT !.step = "health", !.good = good, !.with = NoSyncer]
      <4>1. syncer'[t] = j
        BY <2>2, <3>2 DEF Concluded
      <4>2. IsJob(j) /\ ~Busy(j)
        BY DEF IsJob, Busy, InventoryInv, InventoryShape, JobFields
      <4> QED BY <4>1, <4>2
    <3> QED BY <3>1, <3>2
  <2> QED BY <2>1, <2>2
<1> QED BY <1>1, <1>2, QuietInventory

-----------------------------------------------------------------------------
(* The steps of a call.                                                    *)
LEMMA ReconcileSteps ==
  ASSUME InventoryInv, NEW s \in Syncers,
         \/ ReconcilePanel(s) \/ ReconcileServer(s) \/ ProbeDrift(s) \/ RecordHealth(s)
  PROVE  InventoryInv' /\ Forward
<1>1. UNCHANGED <<edition, latest>>
  BY DEF ReconcilePanel, ReconcileServer, ProbeDrift, RecordHealth, Elsewhere
<1>2. ASSUME NEW p, NEW step, step \notin {"list", "commit"}, NEW j,
             j = [syncer[s] EXCEPT !.step = step, !.panel = p],
             syncer' = [syncer EXCEPT ![s] = j]
      PROVE  InventoryInv' /\ Forward
  <2>1. IsJob(j) /\ ~Busy(j)
    BY <1>2 DEF IsJob, Busy, InventoryInv, InventoryShape, JobFields
  <2> QED BY <1>1, <1>2, <2>1, QuietCall
<1>3. CASE ReconcilePanel(s)
  <2> DEFINE p == Oldest(PanelsAt(syncer[s].address), NextPanel)
             j == [syncer[s] EXCEPT !.step = "server", !.panel = p]
  <2>1. syncer' = [syncer EXCEPT ![s] = j]
    BY <1>3 DEF ReconcilePanel
  <2> HIDE DEF p
  <2> QED BY <1>2, <2>1
<1>4. CASE ReconcileServer(s)
  BY <1>1, <1>4, SleepStep, GoesStep DEF ReconcileServer
<1>5. CASE ProbeDrift(s)
  <2> DEFINE p == Oldest({q \in Registered : Exists(q)}, NoPanel)
             j == [syncer[s] EXCEPT !.step = "sync", !.panel = p]
  <2>1. Sleeps(s) \/ syncer' = [syncer EXCEPT ![s] = j]
    BY <1>5 DEF ProbeDrift
  <2> HIDE DEF p
  <2>2. CASE syncer' = [syncer EXCEPT ![s] = j]
    BY <1>2, <2>2
  <2> QED BY <1>1, <2>1, <2>2, SleepStep
<1>6. CASE RecordHealth(s)
  BY <1>1, <1>6, SleepStep DEF RecordHealth
<1> QED BY <1>3, <1>4, <1>5, <1>6

LEMMA JoinStep ==
  ASSUME InventoryInv, NEW s \in Syncers, JoinActive(s)
  PROVE  InventoryInv' /\ Forward
<1>1. PICK t \in ActiveSyncs(s) :
        syncer' = [syncer EXCEPT ![s] = [@ EXCEPT !.step = "joined", !.with = t]]
  BY DEF JoinActive
<1> DEFINE j == [syncer[s] EXCEPT !.step = "joined", !.with = t]
<1>2. syncer' = [syncer EXCEPT ![s] = j] /\ UNCHANGED <<edition, latest>>
  BY <1>1 DEF JoinActive, Elsewhere
<1>3. IsJob(j) /\ ~Busy(j)
  BY DEF IsJob, Busy, InventoryInv, InventoryShape, JobFields
<1> HIDE DEF j
<1> QED BY <1>2, <1>3, QuietCall

LEMMA BeginStep ==
  ASSUME InventoryInv, NEW s \in Syncers, BeginSync(s)
  PROVE  InventoryInv' /\ Forward
<1>0. UNCHANGED <<edition, latest>> /\ ActiveSyncs(s) = {}
  BY DEF BeginSync, Elsewhere
<1>1. CASE Concluded(s, FALSE)
  BY <1>0, <1>1, ConcludedStep
<1>2. CASE SyncerGoes(s, "list")
  <2> DEFINE j == [syncer[s] EXCEPT !.step = "list"]
  <2>1. syncer' = [syncer EXCEPT ![s] = j] /\ IsJob(syncer[s])
        /\ syncer = [t \in Syncers |-> syncer[t]]
    BY <1>2 DEF SyncerGoes, InventoryInv, InventoryShape
  <2>2. IsJob(j) /\ j.step = "list" /\ j.panel = syncer[s].panel
    BY <2>1 DEF IsJob, JobFields
  <2> HIDE DEF j
  <2>3. /\ syncer' = [t \in Syncers |-> syncer'[t]] /\ syncer'[s] = j
        /\ \A t \in Syncers \ {s} : syncer'[t] = syncer[t]
    BY <2>1
  <2>4. InventoryShape'
    <3>1. \A t \in Syncers : IsJob(syncer[t])'
      BY <1>0, <2>2, <2>3 DEF IsJob, InventoryInv, InventoryShape
    <3> QED BY <1>0, <2>3, <3>1 DEF InventoryInv, InventoryShape
  <2>5. \A t \in Syncers : ProcessOf[t] = ProcessOf[s] /\ PanelOf(t) = PanelOf(s)
                             => ~Busy(syncer[t])
    BY <1>0 DEF ActiveSyncs, Busy
  <2>6. OneSynchronises'
    BY <2>2, <2>3, <2>5 DEF InventoryInv, OneSynchronises, PanelOf
  <2>7. ReadsAreNew'
    BY <1>0, <2>2, <2>3 DEF InventoryInv, ReadsAreNew, PanelOf, CommittedFor, SyncerAt
  <2> QED BY <1>0, <2>4, <2>6, <2>7 DEF InventoryInv, InventoryShape, Forward
<1> QED BY <1>1, <1>2 DEF BeginSync

LEMMA ListStep ==
  ASSUME InventoryInv, NEW s \in Syncers, ListInbounds(s)
  PROVE  InventoryInv' /\ Forward
<1>0. UNCHANGED <<edition, latest>> /\ syncer[s].step = "list"
  BY DEF ListInbounds, Elsewhere, SyncerAt
<1>1. CASE Concluded(s, FALSE)
  BY <1>0, <1>1, ConcludedStep
<1>2. CASE syncer' = [syncer EXCEPT ![s] = [@ EXCEPT !.step = "commit", !.read = edition]]
  <2> DEFINE j == [syncer[s] EXCEPT !.step = "commit", !.read = edition]
  <2>1. syncer' = [syncer EXCEPT ![s] = j] /\ IsJob(syncer[s]) /\ edition \in Nat
        /\ syncer = [t \in Syncers |-> syncer[t]]
    BY <1>2 DEF InventoryInv, InventoryShape
  <2>2. IsJob(j) /\ j.step = "commit" /\ j.panel = syncer[s].panel /\ j.read = edition
    BY <2>1 DEF IsJob, JobFields
  <2> HIDE DEF j
  <2>3. /\ syncer' = [t \in Syncers |-> syncer'[t]] /\ syncer'[s] = j
        /\ \A t \in Syncers \ {s} : syncer'[t] = syncer[t]
    BY <2>1
  <2>4. InventoryShape'
    <3>1. \A t \in Syncers : IsJob(syncer[t])'
      BY <1>0, <2>2, <2>3 DEF IsJob, InventoryInv, InventoryShape
    <3> QED BY <1>0, <2>3, <3>1 DEF InventoryInv, InventoryShape
  <2>5. OneSynchronises'
    BY <1>0, <2>2, <2>3 DEF InventoryInv, OneSynchronises, PanelOf, Busy
  <2>6. ReadsAreNew'
    <3>1. PanelOf(s) \in Registered => CommittedFor(s) <= edition
      BY OwnListing, <2>1
    <3> QED BY <1>0, <2>2, <2>3, <3>1
            DEF InventoryInv, ReadsAreNew, PanelOf, CommittedFor, SyncerAt
  <2> QED BY <1>0, <2>4, <2>5, <2>6 DEF InventoryInv, InventoryShape, Forward
<1> QED BY <1>1, <1>2 DEF ListInbounds

\* The commit itself: the listing is at least as new as the one it replaces, and no
\* other call of the process is about to commit for the panel.
LEMMA CommitListing ==
  ASSUME InventoryInv, NEW s \in Syncers, CommitInbounds(s)
  PROVE  InventoryInv' /\ Forward
<1> DEFINE p == PanelOf(s)
           x == <<ProcessOf[s], p>>
<1>1. CASE UNCHANGED latest
  BY <1>1, ConcludedStep DEF CommitInbounds
<1>2. CASE /\ Exists(p) /\ latest' = [latest EXCEPT ![x] = syncer[s].read]
  <2>1. x \in Processes \X Registered /\ syncer[s].step = "commit" /\ p \in Registered
        /\ UNCHANGED edition
    BY <1>2 DEF Exists, Processes, CommitInbounds, SyncerAt
  <2>2. latest[x] <= syncer[s].read /\ syncer[s].read \in 0..edition
    BY <2>1 DEF InventoryInv, InventoryShape, ReadsAreNew, SyncerAt, CommittedFor, IsJob
  <2>3. /\ latest' = [y \in Processes \X Registered |-> latest'[y]]
        /\ latest'[x] = syncer[s].read
        /\ \A y \in Processes \X Registered : y # x => latest'[y] = latest[y]
    <3>1. latest = [y \in Processes \X Registered |-> latest[y]]
      BY DEF InventoryInv, InventoryShape
    <3> HIDE DEF x
    <3> QED BY <1>2, <2>1, <3>1
  <2>4. Forward
    BY <2>2, <2>3 DEF Forward, InventoryInv, InventoryShape
  <2>5. PICK good : Concluded(s, good)
    BY DEF CommitInbounds
  <2>6. ASSUME NEW t \in Syncers
        PROVE  \/ syncer'[t] = syncer[t] /\ t # s
               \/ IsJob(syncer'[t]) /\ ~Busy(syncer'[t])
    <3>1. CASE t # s /\ ~(SyncerAt(t, "joined") /\ syncer[t].with = s)
      BY <2>5, <3>1 DEF Concluded
    <3>2. CASE ~(t # s /\ ~(SyncerAt(t, "joined") /\ syncer[t].with = s))
      <4>1. CASE syncer[t].kind = "request"
        BY <2>5, <3>2, <4>1, AsleepFits DEF Concluded, InventoryInv
      <4>2. CASE syncer[t].kind # "request"
        <5> DEFINE j == [syncer[t] EXCEPT !.step = "health", !.good = good, !.with = NoSyncer]
        <5>1. syncer'[t] = j
          BY <2>5, <3>2, <4>2 DEF Concluded
        <5>2. IsJob(j) /\ ~Busy(j)
          BY DEF IsJob, Busy, InventoryInv, InventoryShape, JobFields
        <5> QED BY <5>1, <5>2
      <4> QED BY <4>1, <4>2
    <3> QED BY <3>1, <3>2
  <2>7. InventoryShape'
    <3>1. \A t \in Syncers : IsJob(syncer[t])'
      BY <2>1, <2>6 DEF InventoryInv, InventoryShape, IsJob
    <3>2. \A y \in Processes \X Registered : latest'[y] \in 0..edition
      BY <2>2, <2>3 DEF InventoryInv, InventoryShape
    <3>3. syncer' = [t \in Syncers |-> syncer'[t]]
      BY <2>5 DEF Concluded
    <3> QED BY <2>1, <2>3, <3>1, <3>2, <3>3 DEF InventoryInv, InventoryShape
  <2>8. OneSynchronises'
    BY <2>6 DEF InventoryInv, OneSynchronises, PanelOf
  <2>9. ReadsAreNew'
    <3> SUFFICES ASSUME NEW t \in Syncers, SyncerAt(t, "commit")', PanelOf(t)' \in Registered
                 PROVE  CommittedFor(t)' <= syncer'[t].read
      BY DEF ReadsAreNew
    <3>1. syncer'[t] = syncer[t] /\ t # s /\ syncer[t].step = "commit"
          /\ PanelOf(t) \in Registered /\ PanelOf(t)' = PanelOf(t)
      BY <2>6 DEF SyncerAt, Busy, PanelOf
    <3>2. <<ProcessOf[t], PanelOf(t)>> # x
      BY <2>1, <3>1 DEF InventoryInv, OneSynchronises, Busy
    <3>3. <<ProcessOf[t], PanelOf(t)>> \in Processes \X Registered
      BY <3>1 DEF Processes
    <3>4. CommittedFor(t)' = CommittedFor(t)
      BY <2>3, <3>1, <3>2, <3>3 DEF CommittedFor
    <3> QED BY <3>1, <3>4 DEF InventoryInv, ReadsAreNew, SyncerAt
  <2> QED BY <2>4, <2>7, <2>8, <2>9 DEF InventoryInv
<1> QED BY <1>1, <1>2 DEF CommitInbounds

LEMMA CallSteps == ASSUME InventoryInv, NEW s \in Syncers, SyncStep(s)
                    PROVE  InventoryInv' /\ Forward
BY ReconcileSteps, JoinStep, BeginStep, ListStep, CommitListing DEF SyncStep

-----------------------------------------------------------------------------
(* The other steps.                                                        *)
LEMMA StartSteps ==
  ASSUME InventoryInv, NEW s \in Syncers,
         \/ \E p \in Registered : StartSync(s, p)
         \/ \E kind \in {"install", "drift"}, a \in Addresses : StartReconcile(s, kind, a)
  PROVE  InventoryInv' /\ Forward
<1>1. CASE \E p \in Registered : StartSync(s, p)
  <2> PICK p \in Registered : StartSync(s, p)
    BY <1>1
  <2> DEFINE j == [Asleep EXCEPT !.step = "sync", !.kind = "request", !.panel = p]
  <2>1. syncer' = [syncer EXCEPT ![s] = j] /\ UNCHANGED <<edition, latest>>
    BY DEF StartSync, Elsewhere
  <2>2. IsJob(j) /\ ~Busy(j)
    BY AsleepIsJob DEF IsJob, Busy, JobFields, InventoryInv, InventoryShape
  <2> HIDE DEF j
  <2> QED BY <2>1, <2>2, QuietCall
<1>2. CASE \E kind \in {"install", "drift"}, a \in Addresses : StartReconcile(s, kind, a)
  <2> PICK kind \in {"install", "drift"}, a \in Addresses : StartReconcile(s, kind, a)
    BY <1>2
  <2> DEFINE j == [Asleep EXCEPT !.kind = kind, !.address = a,
                     !.step = IF kind = "install" THEN "panel" ELSE "probe"]
  <2>1. syncer' = [syncer EXCEPT ![s] = j] /\ UNCHANGED <<edition, latest>>
    BY DEF StartReconcile, Elsewhere
  <2>2. IsJob(j) /\ ~Busy(j)
    BY AsleepIsJob DEF IsJob, Busy, JobFields, InventoryInv, InventoryShape
  <2> HIDE DEF j
  <2> QED BY <2>1, <2>2, QuietCall
<1> QED BY <1>1, <1>2

LEMMA ProcessEndKeeps ==
  ASSUME InventoryInv, NEW process, ProcessEnds(process)
  PROVE  InventoryInv' /\ Forward
<1>1. UNCHANGED <<edition, latest>> /\ syncer' = [t \in Syncers |-> syncer'[t]]
  BY DEF ProcessEnds, Elsewhere
<1>2. \A t \in Syncers : syncer'[t] = syncer[t] \/ syncer'[t] = Asleep
  BY DEF ProcessEnds
<1>3. IsJob(Asleep) /\ ~Busy(Asleep)
  BY AsleepFits DEF InventoryInv
<1> QED BY <1>1, <1>2, <1>3, QuietInventory

LEMMA ChangeStep ==
  ASSUME InventoryInv, InboundsChange
  PROVE  InventoryInv' /\ Forward
<1>1. edition' = edition + 1 /\ UNCHANGED <<syncer, latest>>
  BY DEF InboundsChange
<1>2. InventoryShape'
  <2>1. \A t \in Syncers : IsJob(syncer[t])'
    BY <1>1 DEF InventoryInv, InventoryShape, IsJob
  <2> QED BY <1>1, <2>1 DEF InventoryInv, InventoryShape
<1>3. OneSynchronises'
  BY <1>1 DEF InventoryInv, OneSynchronises, Busy, PanelOf
<1>4. ReadsAreNew'
  BY <1>1 DEF InventoryInv, ReadsAreNew, SyncerAt, PanelOf, CommittedFor
<1>5. Forward
  BY <1>1 DEF InventoryInv, InventoryShape, Forward
<1> QED BY <1>2, <1>3, <1>4, <1>5 DEF InventoryInv

LEMMA StillInventory ==
  ASSUME InventoryInv, UNCHANGED <<syncer, edition, latest>>
  PROVE  InventoryInv' /\ Forward
<1>1. syncer' = [t \in Syncers |-> syncer'[t]] /\ \A t \in Syncers : syncer'[t] = syncer[t]
  BY DEF InventoryInv, InventoryShape
<1> QED BY <1>1, QuietInventory

LEMMA AdministratorSteps ==
  ASSUME InventoryInv, AdministratorStep
  PROVE  InventoryInv' /\ Forward
<1>1. UNCHANGED <<syncer, edition, latest>>
  BY DEF AdministratorStep, CreatePanel, UpdatePanel, DeletePanel, CheckHealth, CreateServer,
         UpdateServer, DeleteServer, Elsewhere
<1> QED BY <1>1, StillInventory

LEMMA NextInventory ==
  ASSUME InventoryInv, [InventoryNext]_inventoryVars
  PROVE  InventoryInv' /\ Forward
<1>1. CASE UNCHANGED inventoryVars
  BY <1>1, StillInventory DEF inventoryVars
<1>2. CASE InventoryNext
  BY <1>2, AdministratorSteps, ChangeStep, CallSteps, StartSteps, ProcessEndKeeps DEF InventoryNext
<1> QED BY <1>1, <1>2

\* However synchronisations of several processes overlap, are abandoned and are
\* started again, a process never puts an older listing of a panel over a newer one.
THEOREM CommitsGoForward == InventorySpec => ListingsDoNotGoBack
<1>1. InventorySpec => []InventoryInv
  <2>1. InventoryInv /\ [InventoryNext]_inventoryVars => InventoryInv'
    BY NextInventory
  <2> QED BY <2>1, InitInventory, PTL DEF InventorySpec
<1>2. InventoryInv /\ [InventoryNext]_inventoryVars
        => [\A x \in Processes \X Registered : latest[x] <= latest'[x]]_inventoryVars
  BY NextInventory DEF Forward
<1> QED BY <1>1, <1>2, PTL DEF InventorySpec, ListingsDoNotGoBack

-----------------------------------------------------------------------------
(* The types of the inventory.                                            *)

LEMMA OldestIs ==
  ASSUME NEW ps, ps \subseteq Registered, NEW none
  PROVE  Oldest(ps, none) \in ps \cup {none}
<1>1. ps # {} => \E p \in ps : \A q \in ps : p <= q
  <2>1. ps \subseteq Nat
    BY InventoryAssumption DEF Registered
  <2> QED BY <2>1, LeastNat
<1> QED BY <1>1 DEF Oldest

LEMMA NextPanelIs == NextPanel \in Registered \cup {NoPanel}
BY OldestIs DEF NextPanel, Unregistered

LEMMA AsleepTyped == Asleep \in SyncJob
<1>1. (CHOOSE a \in Addresses : TRUE) \in Addresses
  BY InventoryAssumption
<1>2. 0 \in Editions
  BY InventoryAssumption DEF Editions
<1> QED BY <1>1, <1>2 DEF Asleep, SyncJob, SyncSteps

LEMMA InventoryTypesStart == InventoryInit => InventoryTypeOK
<1>1. 0 \in Editions
  BY InventoryAssumption DEF Editions
<1> QED BY <1>1, AsleepTyped DEF InventoryInit, InventoryTypeOK

\* The job of a call with some of its fields set.
LEMMA JobSet ==
  ASSUME NEW j \in SyncJob, NEW step \in SyncSteps
  PROVE  /\ [j EXCEPT !.step = step] \in SyncJob
         /\ \A p \in Registered : [j EXCEPT !.step = step, !.panel = p] \in SyncJob
         /\ \A t \in Syncers : [j EXCEPT !.step = step, !.with = t] \in SyncJob
         /\ \A read \in Editions : [j EXCEPT !.step = step, !.read = read] \in SyncJob
         /\ \A good \in BOOLEAN :
              [j EXCEPT !.step = step, !.good = good, !.with = NoSyncer] \in SyncJob
         /\ j.panel \in Registered \cup {NoPanel} /\ j.address \in Addresses /\ j.read \in Editions
BY DEF SyncJob

\* What a step does to the rows.
RowsTyped ==
  /\ registered \in [Registered -> PanelRow \cup {NoPanel}]
  /\ serves \in [Hosts -> Registered \cup {NoServer}]
  /\ rowsFrom \in [Registered -> Editions \cup {NoPanel}]

LEMMA HealthSet ==
  ASSUME RowsTyped, NEW p, NEW health \in Health, SetHealth(p, health)
  PROVE  registered' \in [Registered -> PanelRow \cup {NoPanel}]
<1>1. CASE Exists(p)
  <2>1. registered[p] \in PanelRow /\ p \in Registered
    BY <1>1 DEF Exists, RowsTyped
  <2>2. [registered[p] EXCEPT !.health = health] \in PanelRow
    BY <2>1 DEF PanelRow
  <2> QED BY <1>1, <2>1, <2>2 DEF SetHealth, RowsTyped
<1> QED BY <1>1 DEF SetHealth, RowsTyped

LEMMA RowNew ==
  ASSUME RowsTyped, NEW p \in Registered, NEW a \in Addresses, NEW active \in BOOLEAN,
         NewPanel(p, a, active)
  PROVE  registered' \in [Registered -> PanelRow \cup {NoPanel}]
<1>1. [address |-> a, active |-> active, health |-> "UNKNOWN"] \in PanelRow
  BY DEF PanelRow, Health
<1> QED BY <1>1 DEF NewPanel, RowsTyped

LEMMA AdministratorTyped ==
  ASSUME InventoryTypeOK, AdministratorStep
  PROVE  InventoryTypeOK'
<1>0. RowsTyped
  BY DEF InventoryTypeOK, RowsTyped
<1>c. UNCHANGED <<syncer, edition, latest>>
  BY DEF AdministratorStep, CreatePanel, UpdatePanel, DeletePanel, CheckHealth, CreateServer,
         UpdateServer, DeleteServer, Elsewhere
<1>r. RowsTyped' => InventoryTypeOK'
  BY <1>c DEF InventoryTypeOK, RowsTyped
<1>1. ASSUME NEW a \in Addresses, CreatePanel(a) PROVE RowsTyped'
  BY <1>0, <1>1, NextPanelIs, RowNew DEF CreatePanel, RowsTyped
<1>2. ASSUME NEW p \in Registered, NEW a \in Addresses, NEW active \in BOOLEAN,
             UpdatePanel(p, a, active)
      PROVE  RowsTyped'
  <2> DEFINE r == [registered[p] EXCEPT !.address = a, !.active = active]
  <2>1. registered[p] \in PanelRow
    BY <1>0, <1>2 DEF UpdatePanel, Exists, RowsTyped
  <2>2. r \in PanelRow
    BY <2>1 DEF PanelRow
  <2>3. registered' = [registered EXCEPT ![p] = r] /\ UNCHANGED <<serves, rowsFrom>>
    BY <1>0, <1>2 DEF UpdatePanel, RowsTyped
  <2> HIDE DEF r
  <2> QED BY <1>0, <2>2, <2>3 DEF RowsTyped
<1>3. ASSUME NEW p \in Registered, DeletePanel(p) \/ CheckHealth(p) PROVE RowsTyped'
  <2>1. CASE DeletePanel(p)
    BY <1>0, <2>1 DEF DeletePanel, RowsTyped
  <2>2. CASE CheckHealth(p)
    BY <1>0, <2>2, HealthSet DEF CheckHealth, RowsTyped, Health
  <2> QED BY <1>3, <2>1, <2>2
<1>4. ASSUME NEW h \in Hosts, NEW p \in Registered,
             CreateServer(h, p) \/ \E g \in Hosts : UpdateServer(h, g, p)
      PROVE  RowsTyped'
  BY <1>0, <1>4 DEF CreateServer, UpdateServer, RowsTyped
<1>5. ASSUME NEW h \in Hosts, DeleteServer(h) PROVE RowsTyped'
  BY <1>0, <1>5 DEF DeleteServer, RowsTyped
<1> QED BY <1>r, <1>1, <1>2, <1>3, <1>4, <1>5 DEF AdministratorStep

LEMMA OneCallTyped ==
  ASSUME InventoryTypeOK, NEW s \in Syncers, NEW j \in SyncJob, syncer' = [syncer EXCEPT ![s] = j]
  PROVE  syncer' \in [Syncers -> SyncJob]
BY DEF InventoryTypeOK

LEMMA ConcludedTyped ==
  ASSUME InventoryTypeOK, NEW s \in Syncers, NEW good \in BOOLEAN, Concluded(s, good)
  PROVE  syncer' \in [Syncers -> SyncJob]
<1>1. ASSUME NEW t \in Syncers PROVE syncer'[t] \in SyncJob
  <2> DEFINE j == [syncer[t] EXCEPT !.step = "health", !.good = good, !.with = NoSyncer]
  <2>1. syncer[t] \in SyncJob /\ "health" \in SyncSteps
    BY DEF InventoryTypeOK, SyncSteps
  <2>2. j \in SyncJob
    BY <2>1, JobSet
  <2>3. syncer'[t] \in {syncer[t], Asleep, j}
    BY DEF Concluded
  <2> QED BY <2>1, <2>2, <2>3, AsleepTyped
<1> QED BY <1>1 DEF Concluded

LEMMA SyncTyped ==
  ASSUME InventoryTypeOK, NEW s \in Syncers, SyncStep(s)
  PROVE  InventoryTypeOK'
<1>0. /\ RowsTyped /\ syncer[s] \in SyncJob
      /\ edition \in Editions /\ latest \in [Processes \X Registered -> Editions]
      /\ s \in DOMAIN syncer
  BY DEF InventoryTypeOK, RowsTyped
<1>p. {"server", "sync", "list", "joined", "commit", "health"} \subseteq SyncSteps
  BY DEF SyncSteps
<1>j. /\ syncer[s].panel \in Registered \cup {NoPanel} /\ syncer[s].address \in Addresses
      /\ syncer[s].read \in Editions
  BY <1>0 DEF SyncJob
<1>s. Sleeps(s) => syncer' \in [Syncers -> SyncJob]
  BY OneCallTyped, AsleepTyped DEF Sleeps
<1>g. ASSUME NEW step \in SyncSteps, SyncerGoes(s, step) PROVE syncer' \in [Syncers -> SyncJob]
  <2> DEFINE j == [syncer[s] EXCEPT !.step = step]
  <2>1. j \in SyncJob
    BY <1>0, JobSet
  <2>2. syncer' = [syncer EXCEPT ![s] = j]
    BY <1>g DEF SyncerGoes
  <2> HIDE DEF j
  <2> QED BY <2>1, <2>2, OneCallTyped
<1>1. CASE ReconcilePanel(s)
  <2> DEFINE p == Oldest(PanelsAt(syncer[s].address), NextPanel)
             j == [syncer[s] EXCEPT !.step = "server", !.panel = p]
  <2>1. p \in Registered
    <3>1. PanelsAt(syncer[s].address) \subseteq Registered
      BY DEF PanelsAt
    <3>2. p # NoPanel
      BY <1>1 DEF ReconcilePanel
    <3> QED BY <3>1, <3>2, OldestIs, NextPanelIs
  <2>2. j \in SyncJob
    BY <1>0, <1>p, <2>1, JobSet
  <2>3. /\ NewPanel(p, syncer[s].address, TRUE) /\ syncer' = [syncer EXCEPT ![s] = j]
        /\ UNCHANGED <<serves, rowsFrom, edition, latest>>
    BY <1>1 DEF ReconcilePanel, Elsewhere
  <2> HIDE DEF j, p
  <2>4. syncer' \in [Syncers -> SyncJob]
    BY <2>2, <2>3, OneCallTyped
  <2>5. registered' \in [Registered -> PanelRow \cup {NoPanel}]
    BY <1>0, <1>j, <2>1, <2>3, RowNew
  <2> QED BY <2>3, <2>4, <2>5 DEF InventoryTypeOK
<1>2. CASE ReconcileServer(s)
  <2>1. syncer' \in [Syncers -> SyncJob]
    BY <1>2, <1>p, <1>s, <1>g DEF ReconcileServer
  <2>2. serves' \in [Hosts -> Registered \cup {NoServer}]
    <3>1. CASE UNCHANGED serves
      BY <3>1 DEF InventoryTypeOK
    <3>2. CASE Exists(PanelOf(s)) /\ BindServer(HostOf[syncer[s].address], PanelOf(s))
      <4>1. PanelOf(s) \in Registered /\ HostOf[syncer[s].address] \in Hosts
        BY <1>j, <3>2 DEF Exists, Hosts
      <4>2. serves \in [Hosts -> Registered \cup {NoServer}]
        BY DEF InventoryTypeOK
      <4> QED BY <3>2, <4>1, <4>2 DEF BindServer, ServersOf
    <3> QED BY <1>2, <3>1, <3>2 DEF ReconcileServer
  <2> QED BY <1>2, <2>1, <2>2 DEF ReconcileServer, InventoryTypeOK, Elsewhere
<1>3. CASE ProbeDrift(s)
  <2> DEFINE p == Oldest({q \in Registered : Exists(q)}, NoPanel)
             j == [syncer[s] EXCEPT !.step = "sync", !.panel = p]
  <2>1. p \in Registered \cup {NoPanel}
    BY OldestIs
  <2>2. UNCHANGED <<serves, rowsFrom, edition, latest>>
    BY <1>3 DEF ProbeDrift, Elsewhere
  <2>3. CASE /\ p # NoPanel /\ Active(p)
             /\ registered' = [registered EXCEPT ![p].address = syncer[s].address]
             /\ syncer' = [syncer EXCEPT ![s] = j]
    <3> DEFINE r == [registered[p] EXCEPT !.address = syncer[s].address]
    <3>1. p \in Registered /\ registered[p] \in PanelRow
      BY <1>0, <2>1, <2>3 DEF Active, Exists, RowsTyped
    <3>2. r \in PanelRow
      BY <1>j, <3>1 DEF PanelRow
    <3>3. j \in SyncJob
      BY <1>0, <1>p, <3>1, JobSet
    <3>4. registered' = [registered EXCEPT ![p] = r] /\ syncer' = [syncer EXCEPT ![s] = j]
      BY <2>3
    <3> HIDE DEF r, j, p
    <3>5. syncer' \in [Syncers -> SyncJob]
      BY <3>3, <3>4, OneCallTyped
    <3>6. registered' \in [Registered -> PanelRow \cup {NoPanel}]
      BY <1>0, <3>1, <3>2, <3>4 DEF RowsTyped
    <3> QED BY <2>2, <3>5, <3>6 DEF InventoryTypeOK
  <2>4. CASE (\E health \in {"AUTH_REQUIRED", "UNHEALTHY"} : SetHealth(p, health)) /\ Sleeps(s)
    <3> HIDE DEF p
    <3>1. registered' \in [Registered -> PanelRow \cup {NoPanel}]
      BY <1>0, <2>4, HealthSet DEF Health
    <3> QED BY <1>s, <2>2, <2>4, <3>1 DEF InventoryTypeOK
  <2>5. CASE UNCHANGED registered /\ Sleeps(s)
    BY <1>s, <2>2, <2>5 DEF InventoryTypeOK
  <2> QED BY <1>3, <2>3, <2>4, <2>5 DEF ProbeDrift
<1>4. CASE JoinActive(s)
  <2>1. PICK t \in ActiveSyncs(s) :
          syncer' = [syncer EXCEPT ![s] = [@ EXCEPT !.step = "joined", !.with = t]]
    BY <1>4 DEF JoinActive
  <2> DEFINE j == [syncer[s] EXCEPT !.step = "joined", !.with = t]
  <2>2. t \in Syncers
    BY DEF ActiveSyncs
  <2>3. j \in SyncJob /\ syncer' = [syncer EXCEPT ![s] = j]
    BY <1>0, <1>p, <2>1, <2>2, JobSet
  <2> HIDE DEF j
  <2>4. syncer' \in [Syncers -> SyncJob]
    BY <2>3, OneCallTyped
  <2> QED BY <1>4, <2>4 DEF JoinActive, InventoryTypeOK, Inventory, Elsewhere
<1>5. CASE BeginSync(s)
  <2>1. syncer' \in [Syncers -> SyncJob]
    BY <1>5, <1>p, <1>g, ConcludedTyped DEF BeginSync
  <2> QED BY <1>5, <2>1 DEF BeginSync, InventoryTypeOK, Inventory, Elsewhere
<1>6. CASE ListInbounds(s)
  <2> DEFINE j == [syncer[s] EXCEPT !.step = "commit", !.read = edition]
  <2>1. Concluded(s, FALSE) \/ syncer' = [syncer EXCEPT ![s] = j]
    BY <1>0, <1>6 DEF ListInbounds
  <2>2. j \in SyncJob
    BY <1>0, <1>p, JobSet
  <2> HIDE DEF j
  <2>3. syncer' \in [Syncers -> SyncJob]
    BY <2>1, <2>2, OneCallTyped, ConcludedTyped
  <2> QED BY <1>6, <2>3 DEF ListInbounds, InventoryTypeOK, Inventory, Elsewhere
<1>7. CASE CommitInbounds(s)
  <2> DEFINE p == PanelOf(s)
             x == <<ProcessOf[s], p>>
  <2>1. syncer' \in [Syncers -> SyncJob]
    <3>1. (syncer[s].read \in Usable) \in BOOLEAN
      OBVIOUS
    <3>2. PICK good \in BOOLEAN : Concluded(s, good)
      BY <1>7, <3>1, Zenon DEF CommitInbounds
    <3> QED BY <3>2, ConcludedTyped
  <2>2. /\ rowsFrom' \in [Registered -> Editions \cup {NoPanel}]
        /\ latest' \in [Processes \X Registered -> Editions]
    <3>1. CASE UNCHANGED <<rowsFrom, latest>>
      BY <3>1 DEF InventoryTypeOK
    <3>2. CASE /\ Exists(p) /\ rowsFrom' = [rowsFrom EXCEPT ![p] = syncer[s].read]
               /\ latest' = [latest EXCEPT ![x] = syncer[s].read]
      <4>1. rowsFrom' \in [Registered -> Editions \cup {NoPanel}]
        BY <1>j, <3>2 DEF InventoryTypeOK
      <4>2. latest' \in [Processes \X Registered -> Editions]
        <5> HIDE DEF x
        <5> QED BY <1>0, <1>j, <3>2
      <4> QED BY <4>1, <4>2
    <3> QED BY <1>7, <3>1, <3>2 DEF CommitInbounds
  <2> QED BY <1>7, <2>1, <2>2 DEF CommitInbounds, InventoryTypeOK
<1>8. CASE RecordHealth(s)
  <2>1. SetHealth(PanelOf(s), "HEALTHY") \/ SetHealth(PanelOf(s), "UNHEALTHY")
    BY <1>8 DEF RecordHealth
  <2>2. registered' \in [Registered -> PanelRow \cup {NoPanel}]
    BY <1>0, <2>1, HealthSet DEF Health
  <2> QED BY <1>8, <1>s, <2>2 DEF RecordHealth, InventoryTypeOK, Elsewhere
<1> QED BY <1>1, <1>2, <1>3, <1>4, <1>5, <1>6, <1>7, <1>8 DEF SyncStep

LEMMA CallStartTyped ==
  ASSUME InventoryTypeOK, NEW s \in Syncers,
         \/ \E p \in Registered : StartSync(s, p)
         \/ \E kind \in {"install", "drift"}, a \in Addresses : StartReconcile(s, kind, a)
  PROVE  InventoryTypeOK'
<1>r. UNCHANGED <<registered, serves, rowsFrom, edition, latest>>
  BY DEF StartSync, StartReconcile, Inventory, Elsewhere
<1>1. ASSUME NEW p \in Registered, StartSync(s, p) PROVE syncer' \in [Syncers -> SyncJob]
  <2> DEFINE j == [Asleep EXCEPT !.step = "sync", !.kind = "request", !.panel = p]
  <2>1. j \in SyncJob
    BY AsleepTyped DEF SyncJob, SyncSteps
  <2>2. syncer' = [syncer EXCEPT ![s] = j]
    BY <1>1 DEF StartSync
  <2> HIDE DEF j
  <2> QED BY <2>1, <2>2, OneCallTyped
<1>2. ASSUME NEW kind \in {"install", "drift"}, NEW a \in Addresses, StartReconcile(s, kind, a)
      PROVE  syncer' \in [Syncers -> SyncJob]
  <2> DEFINE step == IF kind = "install" THEN "panel" ELSE "probe"
             j == [Asleep EXCEPT !.kind = kind, !.address = a, !.step = step]
  <2>1. step \in SyncSteps
    BY DEF SyncSteps
  <2>2. syncer' = [syncer EXCEPT ![s] = j]
    BY <1>2 DEF StartReconcile
  <2> HIDE DEF step
  <2>3. j \in SyncJob
    BY <2>1, AsleepTyped DEF SyncJob
  <2> HIDE DEF j
  <2> QED BY <2>2, <2>3, OneCallTyped
<1> QED BY <1>r, <1>1, <1>2 DEF InventoryTypeOK

LEMMA InventoryTypesKeep == InventoryTypeOK /\ [InventoryNext]_inventoryVars => InventoryTypeOK'
<1> SUFFICES ASSUME InventoryTypeOK, [InventoryNext]_inventoryVars PROVE InventoryTypeOK'
  OBVIOUS
<1>1. CASE UNCHANGED inventoryVars
  BY <1>1 DEF inventoryVars, InventoryTypeOK
<1>2. CASE InboundsChange
  <2>1. edition' \in Editions
    BY <1>2, InventoryAssumption DEF InboundsChange, InventoryTypeOK, Editions
  <2> QED BY <1>2, <2>1 DEF InboundsChange, InventoryTypeOK, Inventory
<1>3. ASSUME NEW process \in Processes, ProcessEnds(process) PROVE InventoryTypeOK'
  <2>1. \A t \in Syncers : syncer'[t] \in {Asleep, syncer[t]}
    BY <1>3 DEF ProcessEnds
  <2>2. syncer' \in [Syncers -> SyncJob]
    BY <1>3, <2>1, AsleepTyped DEF ProcessEnds, InventoryTypeOK
  <2> QED BY <1>3, <2>2 DEF ProcessEnds, InventoryTypeOK, Inventory, Elsewhere
<1> QED BY <1>1, <1>2, <1>3, AdministratorTyped, SyncTyped, CallStartTyped DEF InventoryNext

\* Panels, servers, inbound rows and what each call is doing keep their types for
\* any addresses, callers, processes and editions.
THEOREM InventoryTypesKept == InventorySpec => []InventoryTypeOK
BY InventoryTypesStart, InventoryTypesKeep, PTL DEF InventorySpec

-----------------------------------------------------------------------------
\* A component that is parked keeps its invariant as the one that moves does.
OperationsInv ==
  /\ scenario \in Scenarios
  /\ VoucherInv /\ ReferralInv
  /\ StatementsInv /\ LedgerInv /\ AtomicInv /\ StatementsTypeOK
  /\ WizardTypes /\ CustomerInv /\ OnboardingInv
  /\ SessionInv /\ InventoryTypeOK

LEMMA OperationsStart == OperationsInit => OperationsInv
<1> SUFFICES ASSUME OperationsInit PROVE OperationsInv
  OBVIOUS
<1>1. VoucherInv /\ ReferralInv
  BY InitVoucher, InitReferrals DEF OperationsInit
<1>2. StatementsInv /\ LedgerInv /\ AtomicInv /\ StatementsTypeOK
  BY AllInductive DEF OperationsInit
<1>3. WizardTypes /\ CustomerInv /\ OnboardingInv
  BY WizardTypesStart, CustomerInitially, CallersStart, InitOnboarding
    DEF OperationsInit, CustomerInv
<1>4. SessionInv /\ InventoryTypeOK
  BY InitSession, InventoryTypesStart DEF OperationsInit
<1> QED BY <1>1, <1>2, <1>3, <1>4 DEF OperationsInit, OperationsInv

\* A step is one of its scenario's component, and none of the others'.
LEMMA OneComponentMoves ==
  ASSUME [OperationsNext]_operationsVars
  PROVE  /\ UNCHANGED scenario
         /\ [VoucherNext]_voucherVars /\ [ReferralNext]_referralVars
         /\ [StatementsNext]_statementVars
         /\ [AdminNext]_adminVars /\ [CustomerNext]_customerVars
         /\ [OnboardingNext]_onboardingVars
         /\ [SessionNext]_sessionVars /\ [InventoryNext]_inventoryVars
<1>1. CASE UNCHANGED operationsVars
  BY <1>1 DEF operationsVars, moneyVars, botVars, panelVars
<1>2. CASE MoneyStep /\ UNCHANGED scenario
  BY <1>2 DEF MoneyStep, botVars, panelVars
<1>3. CASE ChatStep /\ UNCHANGED scenario
  BY <1>3 DEF ChatStep, moneyVars, panelVars
<1>4. CASE PanelStep /\ UNCHANGED scenario
  BY <1>4 DEF PanelStep, moneyVars, botVars
<1> QED BY <1>1, <1>2, <1>3, <1>4 DEF OperationsNext

LEMMA OperationsKeep == OperationsInv /\ [OperationsNext]_operationsVars => OperationsInv'
<1> SUFFICES ASSUME OperationsInv, [OperationsNext]_operationsVars PROVE OperationsInv'
  OBVIOUS
<1>1. VoucherInv' /\ ReferralInv'
  BY OneComponentMoves, NextVoucher, NextReferrals DEF OperationsInv
<1>2. (StatementsInv /\ LedgerInv /\ AtomicInv /\ StatementsTypeOK)'
  BY OneComponentMoves, AllInductive DEF OperationsInv
<1>3. WizardTypes' /\ CustomerInv' /\ OnboardingInv'
  BY OneComponentMoves, WizardTypesKeep, CustomerKeeps, NextOnboarding DEF OperationsInv
<1>4. SessionInv' /\ InventoryTypeOK'
  BY OneComponentMoves, NextSession, InventoryTypesKeep DEF OperationsInv
<1>5. scenario' \in Scenarios
  BY OneComponentMoves DEF OperationsInv
<1> QED BY <1>1, <1>2, <1>3, <1>4, <1>5 DEF OperationsInv

\* The eight components side by side keep the types of their rows and of what
\* their callers know, whichever of them the behaviour is of.
THEOREM OperationsTypesKept == OperationsSpec => []OperationsTypeOK
<1>1. OperationsInv => OperationsTypeOK
  <2> SUFFICES ASSUME OperationsInv PROVE OperationsTypeOK
    OBVIOUS
  <2>1. /\ VoucherTypeOK /\ ReferralTypeOK /\ StatementsTypeOK /\ OnboardingTypeOK
        /\ SessionTypeOK /\ InventoryTypeOK
    BY DEF OperationsInv, VoucherInv, ReferralInv, OnboardingInv, SessionInv
  <2>2. AdminTypeOK /\ CustomerTypeOK
    BY WizardTypesHold, CustomerTypesHold DEF OperationsInv
  <2>3. scenario \in Scenarios
    BY DEF OperationsInv
  <2> QED BY <2>1, <2>2, <2>3 DEF OperationsTypeOK, Scenarios
<1> QED BY OperationsStart, OperationsKeep, <1>1, PTL DEF OperationsSpec
=============================================================================
