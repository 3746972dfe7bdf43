------------------------ MODULE GtwClientProperties ------------------------
(***************************************************************************)
(* What the client of GtwClient must keep true.                            *)
(***************************************************************************)
EXTENDS GtwClient

ReconnectTimers == {t \in TimerIds : client.timers[t] = "reconnect"}
MiscTimers == {t \in TimerIds : client.timers[t] = "misc"}
Waiting(i) == stack[i].at \in WaitsForResponse

\* The background reconnect is scheduled at most once: a pending reconnect timer
\* is the one mReconnectTimerId names, it is pending only while mReconnecting
\* says so, and never while reconnect() is itself trying to connect.
ReconnectTimer ==
  \A t \in ReconnectTimers :
     /\ t = client.mReconnectTimerId
     /\ client.mReconnecting
     /\ \A i \in DOMAIN stack : ~stack[i].auto

\* There is one chain of mosquitto_loop_misc() calls: a pending misc timer is the
\* one mMiscTimerId names, so that scheduleMisc() and disconnect() can stop it.
MiscTimer == \A t \in MiscTimers : t = client.mMiscTimerId

\* mExpectedResponse never outlives the frame it points into, and that frame is the
\* innermost of those that wait for a response.
ExpectedResponseLive ==
  LET i == client.mExpectedResponse
  IN  i # 0 => /\ i \in DOMAIN stack
               /\ Waiting(i)
               /\ \A j \in DOMAIN stack : j > i => ~Waiting(j)

\* Every message waiting to be dispatched is of the session that is open: no
\* message of an earlier session reaches a subscriber under a later one.
QueueFresh ==
  client.mSessionInfo # 0 =>
    \A i \in DOMAIN client.mMessageQueue : client.mMessageQueue[i].sess = client.mSessionInfo

\* While a response can still come in, the key it will be decrypted with is the one
\* in mSessionInfo: the reference ExpectedResponse::key keeps does not dangle.
KeyLive ==
  LET i == client.mExpectedResponse
  IN  i # 0 /\ stack[i].at = "response" /\ client.mConnected /\ "client" \in topics
        => stack[i].key = client.mSessionInfo

\* onMessageCallback() casts the user data of the connection to the client: no
\* message can arrive while it is the context of connect(), alive or gone.
MessageFindsClient ==
  client.mConnected /\ client.sock # NoFd /\ topics # {} => client.userData = "self"

\* A CONNACK goes to the connect() it is for: the one that waits is found in the user
\* data and goes on only once its own connection was accepted, whatever a late CONNACK
\* of an earlier one wrote, and no CONNACK finds the client itself in the user data.
\* (Through the context of a connect() that gave up a late CONNACK does write: this says
\* what that cannot lead to, not that it does not happen.)
ConnackReachesItsConnect ==
  /\ \A i \in DOMAIN stack :
       stack[i].at = "connack" =>
         /\ client.userData = "context"
         /\ (stack[i].done => accepted \/ stack[i].error # "none")
  /\ client.mConnected /\ client.sock # NoFd /\ ~accepted => client.userData # "self"

\* The loop watches the open socket of a connected client, so that messages and the
\* loss of the connection are noticed.
ConnectedIsWatched ==
  client.mConnected /\ client.sock # NoFd => client.sock \in client.watches

\* The delay has grown only while a reconnect is under way: the first attempt after
\* a success starts from the base delay again.
BackoffIsReset == client.mReconnectDelay # BaseDelay => client.mReconnecting

\* disconnect() of a connected client leaves none of its timers on the loop, and no
\* watch of the socket it had.  (Watches of sockets it lost before stay.)
DisconnectLeavesNothing ==
  [][client.mConnected /\ result'.call = "disconnect"
       => /\ ReconnectTimers' = {} /\ MiscTimers' = {}
          /\ client.sock \notin client'.watches]_vars

\* A scheduled reconnect is given up only by firing, by disconnect(), by a session
\* that is found invalid, or because connect() succeeded.
ReconnectSurvives ==
  [][ReconnectTimers # {} /\ ReconnectTimers' = {} =>
       \/ Idle /\ client.timers[client.mReconnectTimerId] = "reconnect" /\ result'.call = "reconnect"
       \/ \E i \in DOMAIN stack' : stack'[i].auto
       \/ client.mConnected /\ ~client'.mConnected
       \/ client'.mSessionInfo \notin {0, client.mSessionInfo}]_vars

\* Every call of the application and every event of the loop comes to its end.
CallsReturn == stack # <<>> ~> stack = <<>>

\* A client that is reconnecting has its next attempt scheduled, or is in one.  It needs
\* none only where a connect() of the application has opened a session meanwhile.
Recovers ==
  client.mReconnecting =>
    \/ ReconnectTimers # {}
    \/ IF \E i \in DOMAIN stack : stack[i].at \in {"connack", "login"}
       THEN \E i \in DOMAIN stack : stack[i].auto
       ELSE client.mConnected /\ client.mSessionInfo # 0

\* Nothing but disconnect() makes a reconnecting client forget its next attempt, whatever
\* fails in an attempt or in calls of the application: disconnect() stops the timer and
\* leaves mReconnecting set.
OnlyDisconnectForgets == [][Recovers /\ ~Recovers' => result'.call = "disconnect"]_vars

\* And the attempt is made, for an application that does not call disconnect():
\* reconnect() runs to its end, whatever other calls do before, unless a connect() of
\* the application opened a session meanwhile.  What the
\* success of an attempt is worth is ConnectMeansSession.
NextAttemptComes ==
  Idle /\ client.mReconnecting /\ (~client.mConnected \/ client.mSessionInfo = 0)
    ~> Idle /\ (result.call = "reconnect" \/ (client.mConnected /\ client.mSessionInfo # 0))

\* "due to mosquitto_loop_misc() PINGREQ": as long as the session is usable, the next
\* mosquitto_loop_misc() is scheduled, or the broker would drop the connection.
PingsGoOn ==
  Idle /\ CanSend /\ "clients" \in topics => MiscTimers # {}

\* README.md, "connect to MQTT broker and authenticate with Cosmo GTW": a connect()
\* that succeeded leaves a session, and so does a reconnect() that calls it.
ConnectMeansSession ==
  result.call \in {"connect", "reconnect"} /\ result.ok => client.mSessionInfo # 0

\* The client reconnects on an expired session: when the loop runs again, a session
\* whose EXPIRED event was read is no longer the open one.
ReconnectsOnExpiredSession ==
  Idle /\ told # 0 /\ CanSend /\ ~client.mReconnecting => client.mSessionInfo # told

\* The test ExpectedResponseIsNotSubscribed: the response that a sendRequest() still
\* waits for is not handed to the subscribers.
ExpectedResponseIsNotSubscribed ==
  [][\A i \in DOMAIN stack :
        /\ stack[i].at = "response" /\ ~stack[i].done
        /\ \E r \in owed \ owed' : r.req = stack[i].req
        => client'.mMessageQueue = client.mMessageQueue]_vars

\* A sendRequest() that succeeded returns the response to its own request.
OwnResponse == result.call = "sendRequest" /\ result.ok => result.own

=============================================================================
