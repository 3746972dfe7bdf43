------------------------- MODULE ClientSetupProofs -------------------------
(***************************************************************************)
(* Proofs about ClientSetup, for every text of a DSN, whatever its port.   *)
(***************************************************************************)
EXTENDS ClientSetup, TLAPS

\* The DSN of the builder is that of the text it was told, and so is the client's.
Told ==
  builder.mDsn # nullptr =>
    uri["builder"] \in Uri /\ builder.mDsn = from(uri["builder"])

Built ==
  client # nullptr => uri["client"] \in Uri /\ client.mDsn = from(uri["client"])

\* A handle has a host only when its configuration was completed.
HostComesLast ==
  mMosq # nullptr => client # nullptr /\ (mMosq.port # NoPort => mMosq \in Configured)

Linked == link # nullptr => client # nullptr /\ link \in Configured

IInv == TypeOK /\ Told /\ Built /\ HostComesLast /\ Linked

\* A port is what sixteen bits hold of a number.
LEMMA Narrowed ==
  /\ \A n \in Nat : n % 65536 \in uint16
  /\ \A n \in uint16 : n % 65536 = n
  /\ NoPort \notin uint16
<1>1. \A n \in Nat : n % 65536 \in uint16
  BY SMTT(30) DEF uint16
<1>2. \A n \in uint16 : n % 65536 = n
  <2> SUFFICES ASSUME NEW n \in uint16 PROVE n % 65536 = n
    OBVIOUS
  <2>1. n \in Nat /\ 0 <= n /\ n < 65536
    BY SMT DEF uint16
  <2>2. QED
    BY <2>1, SMTT(30)
<1>3. NoPort \notin uint16
  BY SMT DEF uint16, NoPort
<1>4. QED
  BY <1>1, <1>2, <1>3

\* What from() returns is a DSN, its port cut to 16 bits.
LEMMA FromDsn ==
  ASSUME NEW u \in Uri
  PROVE  /\ from(u) \in Dsn
         /\ from(u).secure = (u.scheme = "mqtts") /\ from(u).cacert = u.cacert
         /\ from(u).login = u.login /\ from(u).verify = verifyOf(u.verify)
         /\ from(u).port = portOf(u.port)
<1>1. u.port \in Nat \cup {NoPort}
  BY PortsAssumption DEF Uri
<1>2. portOf(u.port) \in uint16 \cup {NoPort}
  BY <1>1, Narrowed, SMT DEF portOf, NoPort
<1>4. verifyOf(u.verify) \in {"none", "true", "false"}
  BY DEF verifyOf
<1>5. u.login \in BOOLEAN /\ u.cacert \in BOOLEAN
  BY DEF Uri
<1>6. QED
  BY <1>2, <1>4, <1>5 DEF from, Dsn

\* Each call on a handle sets its own part.
LEMMA Calls ==
  ASSUME NEW h \in Handle, client.mDsn \in Dsn
  PROVE  /\ tlsSet(h) \in Handle /\ insecureSet(h) \in Handle /\ loggedIn(h) \in Handle
         /\ tlsSet(h).tls /\ tlsSet(h).cacert = client.mDsn.cacert
         /\ tlsSet(h).port = h.port
         /\ insecureSet(h).tls = h.tls /\ insecureSet(h).cacert = h.cacert
         /\ insecureSet(h).insecure = (client.mDsn.verify = "false")
         /\ insecureSet(h).port = h.port
         /\ loggedIn(h).tls = h.tls /\ loggedIn(h).cacert = h.cacert
         /\ loggedIn(h).insecure = h.insecure
         /\ loggedIn(h).login = client.mDsn.login
BY DEF tlsSet, insecureSet, loggedIn, Handle, Dsn

\* mosquitto_new() gives a handle that is not configured.
LEMMA NewHandleOK ==
  NewHandle \in Handle /\ ~NewHandle.tls /\ NewHandle.port = NoPort
BY DEF NewHandle, Handle

\* TLS is set up on a new handle before the login.
LEMMA SecuredOK ==
  ASSUME client.mDsn \in Dsn
  PROVE  LET h == secured(NewHandle)
         IN  /\ h \in Handle /\ h.port = NoPort
             /\ h.tls = client.mDsn.secure
             /\ h.tls => /\ h.cacert = client.mDsn.cacert
                         /\ h.insecure = (client.mDsn.verify = "false")
<1>1. tlsSet(NewHandle) \in Handle /\ tlsSet(NewHandle).tls
      /\ tlsSet(NewHandle).cacert = client.mDsn.cacert /\ tlsSet(NewHandle).port = NoPort
  BY Calls, NewHandleOK
<1> DEFINE h == insecureSet(tlsSet(NewHandle))
<1>2. h \in Handle /\ h.tls /\ h.cacert = client.mDsn.cacert /\ h.port = NoPort
      /\ h.insecure = (client.mDsn.verify = "false")
  BY <1>1, Calls
<1> HIDE DEF h
<1>3. client.mDsn.secure \in BOOLEAN
  BY DEF Dsn
<1>4. CASE client.mDsn.secure
  <2>1. secured(NewHandle) = h
    BY <1>4 DEF secured, h
  <2>2. QED
    BY <1>2, <1>3, <1>4, <2>1 DEF Handle
<1>5. CASE ~client.mDsn.secure
  BY <1>3, <1>5, NewHandleOK DEF secured, Handle
<1>6. QED
  BY <1>4, <1>5

\* What fails halfway has no host yet.
LEMMA HalfwayHasNoHost ==
  ASSUME NEW h \in Halfway, client.mDsn \in Dsn
  PROVE  h \in Handle /\ h.port = NoPort
BY SecuredOK, NewHandleOK, Calls DEF Halfway

\* A completed configuration is what the DSN of the client says.
LEMMA ConfiguredOK ==
  ASSUME NEW h \in Configured, client.mDsn \in Dsn
  PROVE  /\ h \in Handle
         /\ h.tls = client.mDsn.secure
         /\ h.tls => /\ h.cacert = client.mDsn.cacert
                     /\ h.insecure = (client.mDsn.verify = "false")
         /\ h.login = client.mDsn.login
         /\ h.port \in PortsUsed
<1> DEFINE g == loggedIn(secured(NewHandle))
<1>1. PICK port \in PortsUsed : h = [g EXCEPT !.port = port]
  BY DEF Configured
<1>2. /\ g \in Handle /\ g.tls = client.mDsn.secure
      /\ g.tls => /\ g.cacert = client.mDsn.cacert
                  /\ g.insecure = (client.mDsn.verify = "false")
      /\ g.login = client.mDsn.login
  BY SecuredOK, Calls
<1> HIDE DEF g
<1>3. port \in uint16
  BY GarbageAssumption DEF PortsUsed, Dsn
<1>4. QED
  BY <1>1, <1>2, <1>3 DEF Handle

\* The configuration depends on the client alone.
LEMMA SameClient ==
  ASSUME client' = client
  PROVE  Configured' = Configured
BY DEF Configured, loggedIn, secured, insecureSet, tlsSet, PortsUsed

\* A Builder with nothing set.
LEMMA Initially == Init => IInv
BY DEF Init, IInv, TypeOK, Callback, Told, Built, HostComesLast, Linked

\* The setters of the Builder touch neither the client nor its connection.
LEMMA SettersKeep ==
  ASSUME IInv,
         (\E u \in Texts : dsn(u)) \/ login \/ useKeepAliveMessage \/ onSessionExpiring
  PROVE  IInv'
<1>1. client' = client /\ mMosq' = mMosq /\ link' = link /\ uri'["client"] = uri["client"]
  BY DEF dsn, login, useKeepAliveMessage, onSessionExpiring, IInv, TypeOK
<1>2. Configured' = Configured
  BY <1>1, SameClient
<1>3. Built' /\ HostComesLast' /\ Linked'
  BY <1>1, <1>2 DEF IInv, Built, HostComesLast, Linked
<1>4. TypeOK' /\ Told'
  <2>1. CASE \E u \in Texts : dsn(u)
    <3>1. PICK u \in Texts : dsn(u)
      BY <2>1
    <3>2. u \in Uri /\ from(u) \in Dsn
      BY TextsAssumption, FromDsn
    <3>3. builder'.mDsn = from(u) /\ uri'["builder"] = u
      BY <3>1 DEF dsn, IInv, TypeOK
    <3>4. QED
      BY <1>1, <3>1, <3>2, <3>3 DEF dsn, IInv, TypeOK, Told
  <2>2. CASE login \/ useKeepAliveMessage \/ onSessionExpiring
    BY <1>1, <2>2 DEF login, useKeepAliveMessage, onSessionExpiring, IInv, TypeOK, Told, Callback
  <2>3. QED
    BY <2>1, <2>2
<1>5. QED
  BY <1>3, <1>4 DEF IInv

\* build() makes a client of what was set.
LEMMA BuildKeeps == IInv /\ build => IInv'
<1> SUFFICES ASSUME IInv, build PROVE IInv'
  OBVIOUS
<1>1. builder'.mDsn = builder.mDsn /\ uri'["builder"] = uri["builder"]
  BY DEF build, IInv, TypeOK
<1>2. Told'
  BY <1>1 DEF IInv, Told
<1>3. Built'
  BY DEF build, IInv, TypeOK, Told, Built
<1>4. HostComesLast' /\ Linked'
  BY DEF build, HostComesLast, Linked
<1>5. TypeOK'
  BY DEF build, IInv, TypeOK, Callback
<1>6. QED
  BY <1>2, <1>3, <1>4, <1>5 DEF IInv

\* However far the configuration of a handle comes, it has a host only if it came to
\* its end, and only then there is a connection.
LEMMA ConnectionKeeps ==
  ASSUME IInv, Connect \/ Reconnect \/ Close
  PROVE  IInv'
<1>1. UNCHANGED <<builder, client, uri>>
  BY DEF Connect, Reconnect, Close
<1>2. Configured' = Configured
  BY <1>1, SameClient
<1>3. Told' /\ Built'
  BY <1>1 DEF IInv, Told, Built
<1>4. client # nullptr => client.mDsn \in Dsn
  BY DEF IInv, TypeOK
<1>5. /\ HostComesLast' /\ Linked'
      /\ mMosq' \in Handle \cup {nullptr} /\ link' \in Handle \cup {nullptr}
  <2>1. CASE Connect
    <3>1. CASE mMosq' \in Halfway /\ link' = nullptr
      BY <1>1, <1>4, <2>1, <3>1, HalfwayHasNoHost DEF Connect, HostComesLast, Linked
    <3>2. CASE mMosq' \in Configured /\ link' \in {nullptr, mMosq'}
      BY <1>1, <1>2, <1>4, <2>1, <3>2, ConfiguredOK DEF Connect, HostComesLast, Linked
    <3>3. QED
      BY <2>1, <3>1, <3>2 DEF Connect
  <2>2. CASE Reconnect
    BY <1>1, <1>2, <2>2 DEF Reconnect, IInv, TypeOK, HostComesLast, Linked
  <2>3. CASE Close
    BY <1>1, <1>2, <2>3 DEF Close, IInv, TypeOK, HostComesLast, Linked
  <2>4. QED
    BY <2>1, <2>2, <2>3
<1>6. TypeOK'
  BY <1>1, <1>5 DEF IInv, TypeOK
<1>7. QED
  BY <1>3, <1>5, <1>6 DEF IInv

\* No step breaks the invariant.
LEMMA Step == IInv /\ [Next]_vars => IInv'
<1> SUFFICES ASSUME IInv, [Next]_vars PROVE IInv'
  OBVIOUS
<1>1. CASE UNCHANGED vars
  <2>1. Configured' = Configured
    BY <1>1, SameClient DEF vars
  <2>2. QED
    BY <1>1, <2>1 DEF vars, IInv, TypeOK, Told, Built, HostComesLast, Linked
<1>2. CASE Next
  BY <1>2, SettersKeep, BuildKeeps, ConnectionKeeps DEF Next
<1>3. QED
  BY <1>1, <1>2

\* The invariant holds in every state.
LEMMA Invariant == Spec => []IInv
BY Initially, Step, PTL DEF Spec

\* Every connection is made with what the text of the DSN asks for.
LEMMA LinkAsAsked ==
  ASSUME IInv, link # nullptr
  PROVE  /\ link.tls = (uri["client"].scheme = "mqtts")
         /\ link.tls => /\ link.insecure = (uri["client"].verify = "false")
                        /\ link.cacert = uri["client"].cacert
         /\ link.login = uri["client"].login
         /\ IF uri["client"].port = NoPort THEN link.port \in Garbage
                                           ELSE link.port = uri["client"].port % 65536
<1> DEFINE u == uri["client"]
<1>1. u \in Uri /\ client.mDsn = from(u) /\ client.mDsn \in Dsn /\ link \in Configured
  BY DEF IInv, Built, Linked, TypeOK
<1>2. /\ link.tls = client.mDsn.secure
      /\ link.tls => /\ link.cacert = client.mDsn.cacert
                     /\ link.insecure = (client.mDsn.verify = "false")
      /\ link.login = client.mDsn.login
      /\ link.port \in PortsUsed
  BY <1>1, ConfiguredOK
<1>3. /\ client.mDsn.secure = (u.scheme = "mqtts") /\ client.mDsn.cacert = u.cacert
      /\ client.mDsn.login = u.login /\ client.mDsn.verify = verifyOf(u.verify)
  BY <1>1, FromDsn
<1>4. verifyOf(u.verify) = "false" <=> u.verify = "false"
  BY DEF verifyOf
<1>5. IF u.port = NoPort THEN link.port \in Garbage ELSE link.port = u.port % 65536
  <2>1. client.mDsn.port = portOf(u.port)
    BY <1>1, FromDsn
  <2>2. CASE u.port = NoPort
    BY <1>2, <2>1, <2>2 DEF PortsUsed, portOf
  <2>3. CASE u.port # NoPort
    <3>1. u.port \in Nat
      BY <1>1, <2>3, PortsAssumption DEF Uri
    <3>2. client.mDsn.port = u.port % 65536 /\ client.mDsn.port # NoPort
      BY <2>1, <2>3, <3>1, Narrowed DEF portOf
    <3>3. QED
      BY <1>2, <2>3, <3>2 DEF PortsUsed
  <2>4. QED
    BY <2>2, <2>3
<1>6. QED
  BY <1>2, <1>3, <1>4, <1>5

\* Every variable keeps its type.
THEOREM TypeCorrect == Spec => []TypeOK
BY Invariant, PTL DEF IInv

\* Every connection is encrypted, and the server verified, as the text of the DSN says,
\* whichever of the calls that configure the handle failed before.
THEOREM SecuredAsAsked == Spec => []SecureAsAsked
<1>1. IInv => SecureAsAsked
  BY LinkAsAsked DEF SecureAsAsked
<1>2. QED
  BY <1>1, Invariant, PTL

\* Every connection is opened with the login of the text, and to its port as far as 16
\* bits hold it: the port the user meant only if the text names one below 65536.
THEOREM ConnectedByTheText == Spec => []AddressedByTheText
<1>1. IInv => AddressedByTheText
  BY LinkAsAsked DEF AddressedByTheText
<1>2. QED
  BY <1>1, Invariant, PTL
=============================================================================
