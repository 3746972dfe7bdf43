-------------------------- MODULE MCClientsOnLoop --------------------------
(***************************************************************************)
(* Small instances of ClientsOnLoop.  Two clients are enough for one to    *)
(* meet what the other left; a client has at most two timers, so three     *)
(* slots are too few for both and enough for ids that outlived their       *)
(* timers; two descriptors are handed back and forth between the clients   *)
(* and the rest of the program; there is a watch for each descriptor, as   *)
(* there are 32 in the program, so that no place is missing.               *)
(***************************************************************************)
EXTENDS ClientsOnLoop, TLC

Swap == Permutations(Clients)
=============================================================================
