----------------------------- MODULE MCEnvelope -----------------------------
(***************************************************************************)
(* Samples for Envelope: every field at its smallest, its largest and a    *)
(* value whose bytes differ, bodies of up to two bytes, and payloads of    *)
(* every length from none to one byte more than such a message, which      *)
(* claim every size in that range.  TLC's integers end at 2^31 - 1.        *)
(***************************************************************************)
EXTENDS Envelope

Samples ==
  [ messageType    : {0, 255},
    timestamp      : {0, 1754566797, 2147483647},
    clientId       : {<<1, 2, 3, 4, 5, 6>>, <<0, 255, 0, 0, 0, 9>>},
    platform       : {0, 1},
    responseStatus : {0, 1, 255},
    messageBody    : {<<>>, <<18>>, <<255, 0>>} ]

Content == <<17, 104, 148, 148, 77, 1, 2, 3, 4, 5, 6, 7, 0, 18, 19, 20>>

Claims == [size : 0 .. 17, length : 0 .. 16]

Payloads ==
  {[i \in 1 .. n |-> 9] : n \in 0 .. 3} \cup
  {[i \in 1 .. SizeBytes + c.length |->
      IF i <= SizeBytes THEN hton(c.size)[i] ELSE Content[i - SizeBytes]] : c \in Claims}
=============================================================================
