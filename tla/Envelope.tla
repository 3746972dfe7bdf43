------------------------------ MODULE Envelope ------------------------------
(***************************************************************************)
(* The envelope of every message between the client and the gateway: how   *)
(* serialize() lays it out in the payload of an MQTT message, and what     *)
(* deserialize() makes of a payload.                                       *)
(*                                                                         *)
(* A payload is a message size of four bytes and then the message, of that *)
(* size: type, timestamp, client id, platform, response status, body.  The *)
(* bytes of the body and of the client id are copied as they are.          *)
(***************************************************************************)
EXTENDS Integers, Sequences

CONSTANTS
  Sent,        \* the envelopes that are serialized
  Delivered    \* other payloads a broker delivers

Bytes == 0 .. 255
Words == {n \in Nat : n \div 16777216 < 256}      \* uint32_t

SizeBytes == 4                   \* of the message size
MinSize == 13                    \* size() of an envelope without a body

\* The fields before the body, at their offsets in a payload.
EnvelopeType ==
  [ messageType    : Bytes,
    timestamp      : Words,
    clientId       : [1 .. 6 -> Bytes],
    platform       : Bytes,
    responseStatus : Bytes,
    messageBody    : Seq(Bytes) ]

\* The body of an envelope is so short that size() is a word.
ASSUME SentAssumption ==
  \A e \in Sent : e \in EnvelopeType /\ MinSize + Len(e.messageBody) \in Words
ASSUME DeliveredAssumption == \A p \in Delivered : p \in Seq(Bytes)

-----------------------------------------------------------------------------
hton(n) == <<n \div 16777216, (n \div 65536) % 256, (n \div 256) % 256, n % 256>>

ntoh(p, offset) ==
  16777216 * p[offset + 1] + 65536 * p[offset + 2] + 256 * p[offset + 3] + p[offset + 4]

size(e) == MinSize + Len(e.messageBody)

serialize(e) ==
  [i \in 1 .. SizeBytes + size(e) |->
     IF i <= 4 THEN hton(size(e))[i]
     ELSE IF i = 5 THEN e.messageType
     ELSE IF i <= 9 THEN hton(e.timestamp)[i - 5]
     ELSE IF i <= 15 THEN e.clientId[i - 9]
     ELSE IF i = 16 THEN e.platform
     ELSE IF i = 17 THEN e.responseStatus
     ELSE e.messageBody[i - 17]]

atLeastSize(p) == ntoh(p, 0) + SizeBytes <= Len(p)      \* mutant

SizeMatches(p) == ntoh(p, 0) + SizeBytes = Len(p)

\* the fields of a payload that holds them
swappedFields(p) ==                              \* mutant
  [ messageType    |-> p[5],
    timestamp      |-> ntoh(p, 5),
    clientId       |-> [i \in 1 .. 6 |-> p[i + 9]],
    platform       |-> p[17],
    responseStatus |-> p[16],
    messageBody    |-> [i \in 1 .. ntoh(p, 0) - MinSize |-> p[i + 17]] ]

shortId(p) == [swappedFields(p) EXCEPT !.clientId = [i \in 1 .. 5 |-> p[i + 9]]]     \* mutant

Fields(p) ==
  [ messageType    |-> p[5],
    timestamp      |-> ntoh(p, 5),
    clientId       |-> [i \in 1 .. 6 |-> p[i + 9]],
    platform       |-> p[16],
    responseStatus |-> p[17],
    messageBody    |-> [i \in 1 .. ntoh(p, 0) - MinSize |-> p[i + 17]] ]

-----------------------------------------------------------------------------
\* What deserialize() gives: the envelope, if any, unless it copies bytes from
\* behind the payload, after which nothing is known of the program.
Outcome == [defined : BOOLEAN, envelope : {<<>>} \cup {<<e>> : e \in EnvelopeType}]

Rejected == [defined |-> TRUE, envelope |-> <<>>]
Undefined == [defined |-> FALSE, envelope |-> <<>>]
Accepted(e) == [defined |-> TRUE, envelope |-> <<e>>]

\* Its check of the size does not count the four bytes of the message size, so the
\* shortest payloads pass it and have no room for their fields.
deserialize(p) ==
  IF Len(p) < MinSize \/ ~SizeMatches(p) THEN Rejected
  ELSE IF ntoh(p, 0) < MinSize THEN Undefined
  ELSE Accepted(Fields(p))

VARIABLES
  sent,        \* the envelope serialized last, if it made the payload
  payload,     \* the last payload
  received     \* what deserialize() gave for it

vars == <<sent, payload, received>>

TypeOK ==
  /\ sent \in {<<>>} \cup {<<e>> : e \in Sent}
  /\ payload \in Seq(Bytes)
  /\ received.defined \in BOOLEAN
  /\ \A i \in DOMAIN received.envelope : received.envelope[i] \in EnvelopeType

Init == sent = <<>> /\ payload = <<>> /\ received = Rejected

\* one side serializes an envelope, and the other gets the payload whole
Send ==
  \E e \in Sent :
    /\ sent' = <<e>>
    /\ payload' = serialize(e)
    /\ received' = deserialize(serialize(e))

\* a payload that this library did not make
Deliver ==
  \E p \in Delivered :
    /\ sent' = <<>>
    /\ payload' = p
    /\ received' = deserialize(p)

Next == Send \/ Deliver

Spec == Init /\ [][Next]_vars

-----------------------------------------------------------------------------
(* Properties.                                                             *)

\* What was serialized is read back as it was, field by field.
RoundTrip == sent # <<>> => received = [defined |-> TRUE, envelope |-> sent]

\* Only what serialize() writes is taken for an envelope: no payload is accepted
\* with bytes missing or left over.
OnlySerialized ==
  \A i \in DOMAIN received.envelope : serialize(received.envelope[i]) = payload

\* "is lower than min size": a payload too small for the fields is rejected.
TooSmallIsRejected == Len(payload) < SizeBytes + MinSize => received = Rejected
=============================================================================
