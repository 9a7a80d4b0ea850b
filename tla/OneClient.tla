----------------------------- MODULE OneClient ------------------------------
(***************************************************************************)
(* What provisioning promises: a subscription takes one identity (a client *)
(* name and a subscription token) that no other subscription has, and      *)
(* keeps it; only claimed identities become clients of the panel; a link   *)
(* is delivered only for a client that exists.                             *)
(***************************************************************************)
CONSTANTS Subs, Names, Tokens, None

VARIABLES
  identity,   \* subscription -> None or <<name, token>>
  clients,    \* identities the panel has a client for
  delivered   \* subscriptions whose link was handed out

vars == <<identity, clients, delivered>>

Init ==
  /\ identity = [s \in Subs |-> None]
  /\ clients = {}
  /\ delivered = {}

Claim(s, n, t) ==
  /\ identity[s] = None
  /\ \A r \in Subs : identity[r] # None => identity[r][1] # n /\ identity[r][2] # t
  /\ identity' = [identity EXCEPT ![s] = <<n, t>>]
  /\ UNCHANGED <<clients, delivered>>

CreateClient(s) ==
  /\ identity[s] # None
  /\ clients' = clients \cup {identity[s]}
  /\ UNCHANGED <<identity, delivered>>

Deliver(s) ==
  /\ identity[s] \in clients
  /\ delivered' = delivered \cup {s}
  /\ UNCHANGED <<identity, clients>>

Next == \E s \in Subs :
  \/ \E n \in Names, t \in Tokens : Claim(s, n, t)
  \/ CreateClient(s)
  \/ Deliver(s)

Spec == Init /\ [][Next]_vars
=============================================================================
