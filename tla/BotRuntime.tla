----------------------------- MODULE BotRuntime -----------------------------
(***************************************************************************)
(* BotRuntime: the session of a chat, one JSON value in Redis that every   *)
(* handler of the Telegram bot reads and writes back whole. A handler that *)
(* changes it reads it first and writes it in a later call, so handlers of *)
(* one chat that overlap overwrite each other's changes.                   *)
(*                                                                         *)
(* A session is a record with a field "state" and the fields of data that  *)
(* the flow at hand uses; a change is a function on the fields it sets.    *)
(***************************************************************************)

Changed(s, change) ==
  [f \in DOMAIN s |-> IF f \in DOMAIN change THEN change[f] ELSE s[f]]

\* A write that changes nothing of interest: pushMenu, resetMenu, setLocale.
NoData == [f \in {} |-> ""]

\* setState(state, data): the state and the given data, over the session read.
SetState(s, state, data) == Changed(Changed(s, data), [state |-> state])

\* clearState forgets the state and the data; identity and language stay.
ClearState(s, fresh, kept) ==
  [f \in DOMAIN s |-> IF f \in kept THEN s[f] ELSE fresh[f]]
=============================================================================
