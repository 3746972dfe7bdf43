---------------------------- MODULE MCMessageBus ----------------------------
(***************************************************************************)
(* A small instance of MessageBus.  Two classes are subscribed and all are *)
(* received.  A vector that has moved twice has room for a fourth element: *)
(* four subscribers are the fewest with which one may subscribe to the     *)
(* list that is walked, and the walk goes on.  One dispatch is nested in   *)
(* another.                                                                *)
(***************************************************************************)
EXTENDS MessageBus

\* every type that has a class, and two that have none
EveryType == DOMAIN Made \cup {5, Unknown}
=============================================================================
