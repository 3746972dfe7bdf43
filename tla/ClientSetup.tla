---------------------------- MODULE ClientSetup ----------------------------
(***************************************************************************)
(* From the text of a DSN to an open connection: MqttDsn::from(), the      *)
(* Builder, and connectMqtt(), which configures a libmosquitto handle once *)
(* and reconnects it ever after, however far the configuration came.       *)
(***************************************************************************)
EXTENDS Integers

CONSTANTS
  nullptr,
  Ports,       \* what the digits of a DSN say
  Texts,       \* the DSNs the application tries
  MaxInt,      \* INT_MAX
  Garbage      \* what an empty std::optional<uint16_t> may hold

NoPort == -1
uint16 == 0 .. 65535

\* The parts of a text that from() tells apart, one that does not match its pattern
\* being a text of "another" scheme.  Users come with a password.
Uri ==
  [ scheme : {"mqtt", "mqtts", "another"}, login : BOOLEAN, port : Ports \cup {NoPort},
    cacert : BOOLEAN, verify : {"absent", "true", "false", "invalid"} ]

ASSUME PortsAssumption == Ports \subseteq Nat /\ MaxInt \in Nat
ASSUME GarbageAssumption == Garbage \subseteq uint16
ASSUME TextsAssumption == Texts \subseteq Uri

Dsn ==
  [ secure : BOOLEAN, login : BOOLEAN, port : uint16 \cup {NoPort},
    cacert : BOOLEAN, verify : {"none", "true", "false"} ]

\* A callback that was moved from is empty: calling it throws.
Callback == {"none", "given", "moved"}

\* what the mosquitto_*_set() calls have left in a handle; the port comes with the host
Handle ==
  [ tls : BOOLEAN, cacert : BOOLEAN, insecure : BOOLEAN, login : BOOLEAN,
    port : uint16 \cup {NoPort} ]

NewHandle ==
  [tls |-> FALSE, cacert |-> FALSE, insecure |-> FALSE, login |-> FALSE, port |-> NoPort]

VARIABLES
  builder,     \* the members of the Builder
  client,      \* what it built last
  mMosq,       \* the handle of that client
  link,        \* the handle as it was when the connection was opened
  uri          \* ghost: the text behind the DSN of the builder, and of the client

vars == <<builder, client, mMosq, link, uri>>

TypeOK ==
  /\ builder \in [mDsn : Dsn \cup {nullptr}, credentials : BOOLEAN,
                  mKeepAliveMessage : BOOLEAN, mSessionExpiringCallback : Callback]
  /\ client \in [mDsn : Dsn, mKeepAliveMessage : BOOLEAN,
                 mSessionExpiringCallback : Callback] \cup {nullptr}
  /\ mMosq \in Handle \cup {nullptr}
  /\ link \in Handle \cup {nullptr}
  /\ uri \in [{"builder", "client"} -> Uri \cup {nullptr}]

Init ==
  /\ builder = [mDsn |-> nullptr, credentials |-> FALSE,
                mKeepAliveMessage |-> FALSE, mSessionExpiringCallback |-> "none"]
  /\ client = nullptr /\ mMosq = nullptr /\ link = nullptr
  /\ uri = [who \in {"builder", "client"} |-> nullptr]

-----------------------------------------------------------------------------
(* MqttDsn::from()                                                         *)

\* std::stoi() throws beyond an int
Parses(u) == u.scheme # "another" /\ u.port <= MaxInt

verifyOf(text) == IF text \in {"true", "false"} THEN text ELSE "none"

narrow(port) == port                                                     \* mutant

portOf(port) == IF port = NoPort THEN NoPort ELSE port % 65536           \* uint16_t

from(u) ==
  [ secure |-> u.scheme = "mqtts", login |-> u.login, port |-> portOf(u.port),
    cacert |-> u.cacert, verify |-> verifyOf(u.verify) ]

-----------------------------------------------------------------------------
(* The Builder.                                                            *)

dsn(u) ==
  /\ Parses(u)
  /\ builder' = [builder EXCEPT !.mDsn = from(u)]
  /\ uri' = [uri EXCEPT !["builder"] = u]
  /\ UNCHANGED <<client, mMosq, link>>

login ==
  /\ builder' = [builder EXCEPT !.credentials = TRUE]
  /\ UNCHANGED <<client, mMosq, link, uri>>

useKeepAliveMessage ==
  /\ builder' = [builder EXCEPT !.mKeepAliveMessage = TRUE]
  /\ UNCHANGED <<client, mMosq, link, uri>>

onSessionExpiring ==
  /\ builder' = [builder EXCEPT !.mSessionExpiringCallback = "given"]
  /\ UNCHANGED <<client, mMosq, link, uri>>

\* The message and the callback move to the client; the optional of the callback stays
\* engaged.  The client built before is gone.
build ==
  /\ builder.mDsn # nullptr /\ builder.credentials
  /\ client' = [ mDsn |-> builder.mDsn,
                 mKeepAliveMessage |-> builder.mKeepAliveMessage,
                 mSessionExpiringCallback |-> builder.mSessionExpiringCallback ]
  /\ builder' = [builder EXCEPT !.mKeepAliveMessage = FALSE,
                                !.mSessionExpiringCallback = IF @ = "none" THEN @ ELSE "moved"]
  /\ mMosq' = nullptr /\ link' = nullptr
  /\ uri' = [uri EXCEPT !["client"] = uri["builder"]]

-----------------------------------------------------------------------------
(* connectMqtt()                                                           *)

tlsSet(h) == [h EXCEPT !.tls = TRUE, !.cacert = client.mDsn.cacert]
insecureSet(h) == [h EXCEPT !.insecure = (client.mDsn.verify = "false")]
secured(h) == IF client.mDsn.secure THEN insecureSet(tlsSet(h)) ELSE h
loggedIn(h) == [h EXCEPT !.login = client.mDsn.login]

\* what is left when mosquitto_tls_set(), mosquitto_tls_insecure_set() or
\* mosquitto_username_pw_set() fails
Halfway == {NewHandle, secured(NewHandle)}
             \cup (IF client.mDsn.secure THEN {tlsSet(NewHandle)} ELSE {})

\* mDsn.port is dereferenced whether it holds a port or not
PortsUsed == IF client.mDsn.port = NoPort THEN Garbage ELSE {client.mDsn.port}

ignoresTlsErrors ==                                                      \* mutant
  {[loggedIn(h) EXCEPT !.port = port] : h \in Halfway, port \in PortsUsed}

ignoresLoginErrors ==                                                    \* mutant
  {[h EXCEPT !.port = port] : h \in {secured(NewHandle)}, port \in PortsUsed}

Configured == {[loggedIn(secured(NewHandle)) EXCEPT !.port = port] : port \in PortsUsed}

\* mosquitto_connect() keeps host and port in the handle whether it succeeds or not
Connect ==
  /\ client # nullptr /\ mMosq = nullptr
  /\ \/ mMosq' \in Halfway /\ link' = nullptr
     \/ mMosq' \in Configured /\ link' \in {nullptr, mMosq'}
  /\ UNCHANGED <<builder, client, uri>>

\* mosquitto_reconnect() refuses a handle that has no host
Reconnect ==
  /\ client # nullptr /\ mMosq # nullptr /\ link = nullptr
  /\ mMosq.port # NoPort /\ link' = mMosq
  /\ UNCHANGED <<builder, client, mMosq, uri>>

\* the connection is lost, or closed
Close ==
  /\ link # nullptr /\ link' = nullptr
  /\ UNCHANGED <<builder, client, mMosq, uri>>

Next ==
  \/ \E u \in Texts : dsn(u)
  \/ login \/ useKeepAliveMessage \/ onSessionExpiring \/ build
  \/ Connect \/ Reconnect \/ Close

Spec == Init /\ [][Next]_vars

-----------------------------------------------------------------------------
(* Properties.                                                             *)

\* The first connection and every later one is encrypted, and the server verified
\* against the certificate, exactly as the text of the DSN says, although setting up the
\* handle may fail halfway and the handle is used again.
SecureAsAsked ==
  link # nullptr =>
    /\ link.tls = (uri["client"].scheme = "mqtts")
    /\ link.tls => /\ link.insecure = (uri["client"].verify = "false")
                   /\ link.cacert = uri["client"].cacert

\* It is opened with the user's name and password if the text has them, and to the port
\* whose number the text gives, as far as 16 bits hold it: to another port when the number
\* is too large, and to whatever the empty optional holds when there is none.
AddressedByTheText ==
  link # nullptr =>
    /\ link.login = uri["client"].login
    /\ IF uri["client"].port = NoPort THEN link.port \in Garbage
                                      ELSE link.port = uri["client"].port % 65536
=============================================================================
