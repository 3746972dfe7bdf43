--------------------------- MODULE EnvelopeProofs ---------------------------
(***************************************************************************)
(* Proofs about Envelope, for every envelope and every payload.            *)
(***************************************************************************)
EXTENDS Envelope, SequenceTheorems, TLAPS

\* A word splits into four bytes.
LEMMA WordToBytes ==
  ASSUME NEW n \in Words
  PROVE  /\ n \div 16777216 \in Bytes
         /\ (n \div 65536) % 256 \in Bytes
         /\ (n \div 256) % 256 \in Bytes
         /\ n % 256 \in Bytes
         /\ n = 16777216 * (n \div 16777216) + 65536 * ((n \div 65536) % 256)
                  + 256 * ((n \div 256) % 256) + (n % 256)
<1>1. n \in Nat /\ n \div 16777216 \in 0 .. 255
  BY SMT DEF Words
<1>2. n % 256 \in Bytes /\ (n \div 256) % 256 \in Bytes /\ (n \div 65536) % 256 \in Bytes
  BY <1>1, SMT DEF Bytes
<1>3. n = 256 * (n \div 256) + (n % 256)
  BY <1>1, SMT
<1>4. n \div 256 = 256 * (n \div 65536) + ((n \div 256) % 256)
  BY <1>1, SMT
<1>5. n \div 65536 = 256 * (n \div 16777216) + ((n \div 65536) % 256)
  BY <1>1, SMT
<1>6. QED
  BY <1>1, <1>2, <1>3, <1>4, <1>5, SMT DEF Bytes

\* Four bytes make a word, and it splits into them again.
LEMMA BytesToWord ==
  ASSUME NEW a \in Bytes, NEW b \in Bytes, NEW c \in Bytes, NEW d \in Bytes,
         NEW n, n = 16777216 * a + 65536 * b + 256 * c + d
  PROVE  /\ n \in Words
         /\ n \div 16777216 = a
         /\ (n \div 65536) % 256 = b
         /\ (n \div 256) % 256 = c
         /\ n % 256 = d
<1>1. n \in Nat /\ n \div 16777216 = a
  BY SMT DEF Bytes
<1>2. n \in Words
  BY <1>1, SMT DEF Bytes, Words
<1>3. n \div 65536 = 256 * a + b
  BY SMT DEF Bytes
<1>4. n \div 256 = 256 * (256 * a + b) + c
  BY SMT DEF Bytes
<1>5. (n \div 65536) % 256 = b
  BY <1>3, SMT DEF Bytes
<1>6. (n \div 256) % 256 = c
  BY <1>4, SMT DEF Bytes
<1>7. n % 256 = d
  BY SMT DEF Bytes
<1>8. QED
  BY <1>1, <1>2, <1>5, <1>6, <1>7

\* hton() gives four bytes, and ntoh() of them, wherever they are, is the word again.
LEMMA HtonNtoh ==
  ASSUME NEW n \in Words
  PROVE  /\ \A i \in 1 .. 4 : hton(n)[i] \in Bytes
         /\ \A p, offset : (\A i \in 1 .. 4 : p[offset + i] = hton(n)[i]) => ntoh(p, offset) = n
<1>1. \A i \in 1 .. 4 : hton(n)[i] \in Bytes
  BY WordToBytes, SMT DEF hton
<1>2. ASSUME NEW p, NEW offset, \A i \in 1 .. 4 : p[offset + i] = hton(n)[i]
      PROVE  ntoh(p, offset) = n
  <2>1. /\ p[offset + 1] = hton(n)[1] /\ p[offset + 2] = hton(n)[2]
        /\ p[offset + 3] = hton(n)[3] /\ p[offset + 4] = hton(n)[4]
    BY <1>2
  <2>2. QED
    BY <2>1, WordToBytes, SMT DEF hton, ntoh
<1>3. QED
  BY <1>1, <1>2

\* ntoh() of four bytes is a word, and hton() gives them again.
LEMMA NtohHton ==
  ASSUME NEW p, NEW offset,
         p[offset + 1] \in Bytes, p[offset + 2] \in Bytes,
         p[offset + 3] \in Bytes, p[offset + 4] \in Bytes
  PROVE  /\ ntoh(p, offset) \in Words
         /\ \A i \in 1 .. 4 : hton(ntoh(p, offset))[i] = p[offset + i]
BY BytesToWord, SMT DEF hton, ntoh

\* The layout of a serialized envelope.
LEMMA Layout ==
  ASSUME NEW e \in EnvelopeType, size(e) \in Words
  PROVE  LET p == serialize(e)
         IN  /\ p \in Seq(Bytes)
             /\ Len(p) = SizeBytes + size(e)
             /\ ntoh(p, 0) = size(e)
             /\ p[5] = e.messageType
             /\ ntoh(p, 5) = e.timestamp
             /\ \A i \in 1 .. 6 : p[i + 9] = e.clientId[i]
             /\ p[16] = e.platform
             /\ p[17] = e.responseStatus
             /\ \A i \in 1 .. Len(e.messageBody) : p[i + 17] = e.messageBody[i]
<1> DEFINE p == serialize(e)
           length == SizeBytes + size(e)
<1>1. /\ length \in Nat /\ length = 17 + Len(e.messageBody) /\ length >= 17
      /\ Len(e.messageBody) \in Nat
  BY DEF EnvelopeType, SizeBytes, MinSize, size
<1>2. e.timestamp \in Words
  BY DEF EnvelopeType
<1>3. ASSUME NEW i \in 1 .. length
      PROVE  p[i] \in Bytes
  <2>1. CASE i <= 4
    BY <2>1, HtonNtoh DEF serialize
  <2>2. CASE i = 5
    BY <2>2 DEF serialize, EnvelopeType
  <2>3. CASE i > 5 /\ i <= 9
    <3>1. i - 5 \in 1 .. 4 /\ p[i] = hton(e.timestamp)[i - 5]
      BY <2>3 DEF serialize
    <3>2. QED
      BY <3>1, <1>2, HtonNtoh
  <2>4. CASE i > 9 /\ i <= 15
    BY <2>4 DEF serialize, EnvelopeType
  <2>5. CASE i = 16 \/ i = 17
    BY <2>5 DEF serialize, EnvelopeType
  <2>6. CASE i > 17
    <3>1. i - 17 \in 1 .. Len(e.messageBody) /\ p[i] = e.messageBody[i - 17]
      BY <2>6, <1>1 DEF serialize
    <3>2. QED
      BY <3>1 DEF EnvelopeType
  <2>7. QED
    BY <2>1, <2>2, <2>3, <2>4, <2>5, <2>6
<1>4. p = [i \in 1 .. length |-> p[i]]
  BY DEF serialize
<1>5. p \in Seq(Bytes) /\ Len(p) = length
  BY <1>1, <1>3, <1>4
<1>6. \A i \in 1 .. 4 : p[0 + i] = hton(size(e))[i]
  BY <1>1 DEF serialize
<1>7. ntoh(p, 0) = size(e)
  BY <1>6, HtonNtoh
<1>8. \A i \in 1 .. 4 : p[5 + i] = hton(e.timestamp)[i]
  BY <1>1 DEF serialize
<1>9. ntoh(p, 5) = e.timestamp
  BY <1>2, <1>8, HtonNtoh
<1>10. /\ p[5] = e.messageType /\ p[16] = e.platform /\ p[17] = e.responseStatus
       /\ \A i \in 1 .. 6 : p[i + 9] = e.clientId[i]
  BY <1>1 DEF serialize
<1>11. \A i \in 1 .. Len(e.messageBody) : p[i + 17] = e.messageBody[i]
  BY <1>1 DEF serialize
<1>12. QED
  BY <1>5, <1>7, <1>9, <1>10, <1>11

\* deserialize() of a serialized envelope is that envelope.
LEMMA SerializedIsRead ==
  ASSUME NEW e \in EnvelopeType, size(e) \in Words
  PROVE  deserialize(serialize(e)) = Accepted(e)
<1> DEFINE p == serialize(e)
<1>1. /\ Len(p) = 17 + Len(e.messageBody) /\ ntoh(p, 0) = 13 + Len(e.messageBody)
      /\ Len(e.messageBody) \in Nat
  BY Layout DEF SizeBytes, MinSize, size, EnvelopeType
<1>2. SizeMatches(p) /\ ~(Len(p) < MinSize) /\ ~(ntoh(p, 0) < MinSize)
  BY <1>1 DEF SizeMatches, SizeBytes, MinSize
<1>3. Fields(p).clientId = e.clientId
  <2>1. Fields(p).clientId = [i \in 1 .. 6 |-> p[i + 9]]
    BY DEF Fields
  <2>2. e.clientId = [i \in 1 .. 6 |-> e.clientId[i]]
    BY DEF EnvelopeType
  <2>3. QED
    BY <2>1, <2>2, Layout
<1>4. Fields(p).messageBody = e.messageBody
  <2>1. Fields(p).messageBody = [i \in 1 .. Len(e.messageBody) |-> p[i + 17]]
    BY <1>1 DEF Fields, MinSize
  <2>2. e.messageBody = [i \in 1 .. Len(e.messageBody) |-> e.messageBody[i]]
    BY DEF EnvelopeType
  <2>3. QED
    BY <2>1, <2>2, Layout
<1>5. /\ Fields(p).messageType = e.messageType /\ Fields(p).timestamp = e.timestamp
      /\ Fields(p).platform = e.platform /\ Fields(p).responseStatus = e.responseStatus
  BY Layout DEF Fields
<1>6. Fields(p) = e
  BY <1>3, <1>4, <1>5 DEF Fields, EnvelopeType
<1>7. QED
  BY <1>2, <1>6 DEF deserialize

\* What deserialize() accepts has all its fields, and is what serialize() writes.
LEMMA AcceptedIsSerialized ==
  ASSUME NEW p \in Seq(Bytes), ~(Len(p) < MinSize), SizeMatches(p), ~(ntoh(p, 0) < MinSize)
  PROVE  Fields(p) \in EnvelopeType /\ serialize(Fields(p)) = p
<1> DEFINE e == Fields(p)
<1>1. Len(p) \in Nat /\ Len(p) >= 13 /\ p = [i \in 1 .. Len(p) |-> p[i]]
  BY DEF MinSize
<1>2. \A i \in 1 .. Len(p) : p[i] \in Bytes
  OBVIOUS
<1>3. p[0 + 1] \in Bytes /\ p[0 + 2] \in Bytes /\ p[0 + 3] \in Bytes /\ p[0 + 4] \in Bytes
  BY <1>1, <1>2
<1>4. ntoh(p, 0) \in Words /\ \A i \in 1 .. 4 : hton(ntoh(p, 0))[i] = p[0 + i]
  BY <1>3, NtohHton
<1>5. ntoh(p, 0) \in Nat /\ Len(p) = 4 + ntoh(p, 0) /\ Len(p) >= 17
  BY <1>1, <1>4 DEF SizeMatches, SizeBytes, MinSize, Words
<1>6. p[5 + 1] \in Bytes /\ p[5 + 2] \in Bytes /\ p[5 + 3] \in Bytes /\ p[5 + 4] \in Bytes
  BY <1>2, <1>5
<1>7. ntoh(p, 5) \in Words /\ \A i \in 1 .. 4 : hton(ntoh(p, 5))[i] = p[5 + i]
  BY <1>6, NtohHton
<1>8. p[5] \in Bytes /\ p[16] \in Bytes /\ p[17] \in Bytes /\ \A i \in 1 .. 6 : p[i + 9] \in Bytes
  BY <1>2, <1>5
<1>9. /\ e.messageBody = [i \in 1 .. Len(p) - 17 |-> p[i + 17]]
      /\ \A i \in 1 .. Len(p) - 17 : p[i + 17] \in Bytes
  BY <1>2, <1>5 DEF Fields, MinSize
<1>10. e.messageBody \in Seq(Bytes) /\ Len(e.messageBody) = Len(p) - 17
  BY <1>5, <1>9
<1>11. e \in EnvelopeType
  BY <1>7, <1>8, <1>10 DEF Fields, EnvelopeType
<1>12. size(e) = ntoh(p, 0) /\ SizeBytes + size(e) = Len(p)
  BY <1>5, <1>10 DEF size, MinSize, SizeBytes
<1>13. ASSUME NEW i \in 1 .. Len(p)
       PROVE  serialize(e)[i] = p[i]
  <2>1. CASE i <= 4
    <3>1. i \in 1 .. 4 /\ serialize(e)[i] = hton(ntoh(p, 0))[i]
      BY <2>1, <1>12 DEF serialize
    <3>2. hton(ntoh(p, 0))[i] = p[0 + i] /\ 0 + i = i
      BY <3>1, <1>4
    <3>3. QED
      BY <3>1, <3>2
  <2>2. CASE i > 5 /\ i <= 9
    <3>1. i - 5 \in 1 .. 4 /\ serialize(e)[i] = hton(ntoh(p, 5))[i - 5]
      BY <2>2, <1>12 DEF serialize, Fields
    <3>2. hton(ntoh(p, 5))[i - 5] = p[5 + (i - 5)] /\ 5 + (i - 5) = i
      BY <3>1, <1>7
    <3>3. QED
      BY <3>1, <3>2
  <2>3. CASE i > 9 /\ i <= 15
    <3>1. i - 9 \in 1 .. 6 /\ serialize(e)[i] = e.clientId[i - 9]
      BY <2>3, <1>12 DEF serialize
    <3>2. e.clientId[i - 9] = p[(i - 9) + 9] /\ (i - 9) + 9 = i
      BY <3>1 DEF Fields
    <3>3. QED
      BY <3>1, <3>2
  <2>4. CASE i = 5 \/ i = 16 \/ i = 17
    BY <2>4, <1>12 DEF serialize, Fields
  <2>5. CASE i > 17
    <3>1. i - 17 \in 1 .. Len(p) - 17 /\ serialize(e)[i] = e.messageBody[i - 17]
      BY <2>5, <1>12, <1>5 DEF serialize
    <3>2. e.messageBody[i - 17] = p[(i - 17) + 17] /\ (i - 17) + 17 = i
      BY <3>1, <1>9
    <3>3. QED
      BY <3>1, <3>2
  <2>6. QED
    BY <2>1, <2>2, <2>3, <2>4, <2>5, <1>5
<1>14. serialize(e) = [i \in 1 .. Len(p) |-> serialize(e)[i]]
  BY <1>12 DEF serialize
<1>15. QED
  BY <1>1, <1>11, <1>13, <1>14

-----------------------------------------------------------------------------
\* The envelope deserialize() gives, if any, is well typed and makes its payload.
LEMMA Deserialized ==
  ASSUME NEW p \in Seq(Bytes), NEW r, r = deserialize(p)
  PROVE  /\ r.defined \in BOOLEAN
         /\ \A i \in DOMAIN r.envelope : r.envelope[i] \in EnvelopeType /\ serialize(r.envelope[i]) = p
<1>1. CASE r = Rejected \/ r = Undefined
  <2>1. Rejected.defined \in BOOLEAN /\ Undefined.defined \in BOOLEAN
    BY DEF Rejected, Undefined
  <2>2. Rejected.envelope = <<>> /\ Undefined.envelope = <<>>
    BY DEF Rejected, Undefined
  <2>3. r.envelope = <<>>
    BY <1>1, <2>2
  <2>4. DOMAIN r.envelope = {}
    BY <2>3
  <2>5. QED
    BY <1>1, <2>1, <2>4
<1>2. CASE ~(Len(p) < MinSize) /\ SizeMatches(p) /\ ~(ntoh(p, 0) < MinSize)
  BY <1>2, AcceptedIsSerialized DEF deserialize, Accepted
<1>3. QED
  BY <1>1, <1>2 DEF deserialize

\* A step of Send.
LEMMA SendStep ==
  ASSUME Send
  PROVE  TypeOK' /\ RoundTrip' /\ OnlySerialized'
<1>1. PICK e \in Sent : /\ sent' = <<e>> /\ payload' = serialize(e)
                        /\ received' = deserialize(serialize(e))
  BY DEF Send
<1>2. e \in EnvelopeType /\ size(e) \in Words
  BY <1>1, SentAssumption DEF size
<1>3. payload' \in Seq(Bytes) /\ received' = Accepted(e)
  BY <1>1, <1>2, Layout, SerializedIsRead
<1>4. TypeOK' /\ OnlySerialized'
  BY <1>1, <1>3, Deserialized DEF TypeOK, OnlySerialized
<1>5. QED
  BY <1>1, <1>3, <1>4 DEF RoundTrip, Accepted

\* A step of Deliver.
LEMMA DeliverStep ==
  ASSUME Deliver
  PROVE  TypeOK' /\ RoundTrip' /\ OnlySerialized'
<1>1. PICK p \in Delivered : sent' = <<>> /\ payload' = p /\ received' = deserialize(p)
  BY DEF Deliver
<1>2. p \in Seq(Bytes)
  BY <1>1, DeliveredAssumption
<1>3. QED
  BY <1>1, <1>2, Deserialized DEF TypeOK, RoundTrip, OnlySerialized

IInv == TypeOK /\ RoundTrip /\ OnlySerialized

\* The three hold of every behaviour.
THEOREM Invariance == Spec => []IInv
<1>1. Init => IInv
  BY DEF Init, IInv, TypeOK, RoundTrip, OnlySerialized, Rejected
<1>2. IInv /\ [Next]_vars => IInv'
  <2>1. IInv /\ UNCHANGED vars => IInv'
    BY DEF vars, IInv, TypeOK, RoundTrip, OnlySerialized
  <2>2. QED
    BY <2>1, SendStep, DeliverStep DEF Next, IInv
<1>3. QED
  BY <1>1, <1>2, PTL DEF Spec

\* Whatever is sent and delivered, every payload and every envelope is well typed.
THEOREM TypeCorrect == Spec => []TypeOK
BY Invariance, PTL DEF IInv

\* Every envelope whose size() is a word is read back as it was serialized.
THEOREM NothingIsLost == Spec => []RoundTrip
BY Invariance, PTL DEF IInv

\* Every payload that is accepted is one serialize() writes, and writes for what
\* was read from it.
THEOREM NothingElseIsAccepted == Spec => []OnlySerialized
BY Invariance, PTL DEF IInv
=============================================================================
