--------------------------- MODULE MCProvisioning ---------------------------
(* Instances of Provisioning for TLC. *)
EXTENDS Provisioning, TLC

CONSTANTS s1, s2, base, t1, t2, t3, w1, w2

\* Both subscriptions belong to one user, so they propose the same name.
MCBaseName == [s \in Subs |-> base]
MCSuffixedName == [s \in Subs |-> s]
MCNames == {base} \cup Subs

\* Two subscriptions that want one name, with a worker each; or one whose terms change,
\* with two workers and a panel that carries out calls late.
Competing ==
  /\ late = {} /\ \A s \in Subs : terms[s] = 0
  /\ \A v, w \in Workers :
       v # w /\ job[v] # NoJob /\ job[w] # NoJob => job[v].sub # job[w].sub
Alone == row[s2] = NoRow /\ \A w \in Workers : job[w] # NoJob => job[w].sub = s1
CompetingOrAlone == Competing \/ Alone

WorkersAndTokens == Permutations(Workers) \cup Permutations(Tokens)
=============================================================================
