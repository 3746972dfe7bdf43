---------------------------- MODULE MCGtwClient ----------------------------
(***************************************************************************)
(* Small instances of GtwClient.  One response type is enough: an answer   *)
(* to the wrong request of the same type is the case that matters, and the *)
(* login response and the events already have other types.  Three requests *)
(* are a login and two more, which are two nested requests, a timed-out    *)
(* one and its successor, or the logins of two later sessions.  Four       *)
(* frames let a wait be nested in a callback of another wait.              *)
(***************************************************************************)
EXTENDS GtwClientProperties

AllCalls == {"connect", "disconnect", "send", "sendRequest"}
=============================================================================
