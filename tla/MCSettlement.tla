---------------------------- MODULE MCSettlement ----------------------------
(* Instances of Settlement for TLC. *)
EXTENDS Settlement, TLC

CONSTANTS u1, u2, o1, o2, p1, p2

\* u1 was referred by u2; u1 buys twice, the second time a renewal of o1.
MCBuyer == [o \in Orders |-> u1]
MCTarget == [o \in Orders |-> IF o = o2 THEN o1 ELSE NoOrder]
MCPrice == [o \in Orders |-> 10]
MCReferrer == [u \in Users |-> IF u = u1 /\ u2 \in Users THEN u2 ELSE NoUser]

PaymentSymmetry == Permutations(Payments)
=============================================================================
