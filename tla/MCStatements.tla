---------------------------- MODULE MCStatements ----------------------------
(***************************************************************************)
(* Two friends of one referrer settle their orders in two transactions     *)
(* that overlap; the referrer buys an order too, or deposits.              *)
(***************************************************************************)
EXTENDS SettlementStatements, TLC

CONSTANTS u1, u2, u3, o1, o2, o3, p1, p2, p3, p4, p5

MCOrderOf ==
  [p \in Payments |-> (p1 :> o1 @@ p2 :> o2 @@ p3 :> o3 @@ p4 :> NoOrder @@ p5 :> o3)[p]]
MCPayer ==
  [p \in Payments |-> (p1 :> u1 @@ p2 :> u2 @@ p3 :> u3 @@ p4 :> u3 @@ p5 :> u3)[p]]
MCAmount == [p \in Payments |-> 10]
MCReferrer == [u \in Users |-> IF u = u3 THEN NoUser ELSE u3]
=============================================================================
