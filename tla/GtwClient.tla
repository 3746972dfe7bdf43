----------------------------- MODULE GtwClient -----------------------------
(***************************************************************************)
(* MqttMobilusGtwClientImpl: the client of the Mobilus Cosmo gateway,      *)
(* together with what it needs of its surroundings: the timers and socket  *)
(* watches of the event loop, the connection libmosquitto keeps for it,    *)
(* the broker and the gateway.                                             *)
(*                                                                         *)
(* The program has one thread, and its waits are re-entrant: connect() and *)
(* sendRequest() block in SelectCondition::wait(), which reads the socket, *)
(* which dispatches messages to the application's subscribers, which may   *)
(* call the client again.  The C++ call stack is therefore part of the     *)
(* state: `stack' holds one frame for every blocked call and for every     *)
(* running handleSocketEvents(), and only its top frame can move.          *)
(*                                                                         *)
(* The members of the client are the fields of one record, `client', so    *)
(* that each member function is an operator from record to record and the  *)
(* functions compose as the calls do.  An operator has the name of the     *)
(* function it models.                                                     *)
(***************************************************************************)
EXTENDS Integers, Sequences, FiniteSets

CONSTANTS
  Fds,            \* the descriptors a socket may get
  TimerCount,     \* slots of the loop's timer table (SelectEventLoop::kTimerCount);
                  \* 0 models NullEventLoop, which starts no timer
  Types,          \* the response types an application may ask for
  KeepAlive,      \* the keep-alive message's response type, or "none"
  Calls,          \* the calls the application makes from outside of the loop
  CallbackCalls,  \* the calls it makes from its callbacks
  BaseDelay, MaxDelay, Factor,       \* ExponentialBackoff
  MaxRequests,    \* bound: requests sent in a behaviour, logins included
  MaxQueue,       \* bound: messages queued for dispatching
  MaxDepth        \* bound: frames on the call stack

kInvalidTimerId == -1
NoFd == -1               \* what mosquitto_socket() says of a closed socket

TimerIds == 0 .. TimerCount - 1

\* A request is named by its number, 0 if nobody waits for its answer.  A session
\* (and its keys) is named by the number of the login request that opened it, and
\* 0 is "no session" as well as the key of a login, the hashed password.
Sessions == 0 .. MaxRequests

ASSUME FdsAssumption == Fds \subseteq Nat /\ Fds # {}
ASSUME TimerAssumption == TimerCount \in Nat
ASSUME TypesAssumption ==
  /\ {"login", "events", "none"} \cap Types = {}
  /\ KeepAlive \in Types \cup {"none"}
  /\ \A t \in Types : t \in STRING
ASSUME BackoffAssumption ==
  /\ BaseDelay \in Nat \ {0}
  /\ MaxDelay \in Nat \ {0}
  /\ Factor \in Nat \ {0}
  /\ BaseDelay <= MaxDelay
ASSUME BoundsAssumption ==
  /\ MaxRequests \in Nat
  /\ MaxQueue \in Nat
  /\ MaxDepth \in Nat

VARIABLES
  client,       \* members of MqttMobilusGtwClientImpl, its timers, watches and socket
  accepted,     \* the broker accepted the current connection (CONNACK code 0)
  topics,       \* what the current connection is subscribed to
  owed,         \* requests the gateway has received and not answered yet
  gwSession,    \* the session the gateway holds for this client, or 0
  nextReq,      \* number of the next request
  stack,        \* blocked calls and running handlers, the innermost last
  result,       \* what the last step returned to the application
  told          \* history: the last session whose EXPIRED event the client read

vars == <<client, accepted, topics, owed, gwSession, nextReq, stack, result, told>>

-----------------------------------------------------------------------------
(* Types.                                                                  *)

MessageTypes == Types \cup {"login", "events", "none"}

Queued == [kind : {"expired", "expiring", "bus"}, sess : Sessions]

ClientState ==
  [ mConnected        : BOOLEAN,
    mReconnecting     : BOOLEAN,
    mSessionInfo      : Sessions,
    mExpectedResponse : Nat,           \* 0, or the index of the waiting frame
    mMessageQueue     : Seq(Queued),
    mReconnectDelay   : Nat \ {0},
    mReconnectTimerId : TimerIds \cup {kInvalidTimerId},
    mMiscTimerId      : TimerIds \cup {kInvalidTimerId},
    timers            : [TimerIds -> {"free", "reconnect", "misc"}],
    watches           : SUBSET Fds,
    sock              : Fds \cup {NoFd},
    userData          : {"null", "self", "context", "dangling"} ]

\* "connack", "login" and "response" are the three waits; "read", "next",
\* "subscriber" and "expiring" the places of a running handleSocketEvents():
\* in mosquitto_loop_read(), in dispatchQueuedMessages(), in a callback.
WaitsForResponse == {"login", "response"}
Waits == WaitsForResponse \cup {"connack"}
Callbacks == {"subscriber", "expiring"}
Handlers == Callbacks \cup {"read", "next"}

Frame ==
  [ at    : Waits \cup Handlers,
    auto  : BOOLEAN,                 \* connect() was called by reconnect()
    fd    : Fds \cup {NoFd},         \* mSocketFd of the SelectCondition
    done  : BOOLEAN,                 \* mCondition of the SelectCondition
    error : {"none", "refused", "invalidSession", "badResponse"},
    type  : MessageTypes,            \* ExpectedResponse::messageType
    req   : Sessions,
    key   : Sessions,                \* ExpectedResponse::key
    got   : Sessions ]               \* the response: what it answers, 0 if nothing

OwedRequest == [req : Sessions, type : MessageTypes, key : Sessions]

Result == [call : {"none", "connect", "disconnect", "send", "sendRequest", "reconnect"},
           ok   : BOOLEAN, 
           own  : BOOLEAN]           \* the response answers the request of this call

TypeOK ==
  /\ client \in ClientState
  /\ accepted \in BOOLEAN
  /\ topics \in SUBSET {"client", "clients"}
  /\ owed \in SUBSET OwedRequest
  /\ gwSession \in Sessions
  /\ nextReq \in Nat \ {0}
  /\ stack \in Seq(Frame)
  /\ result \in Result
  /\ told \in Sessions

-----------------------------------------------------------------------------
(* The loop's timers: SelectEventLoop::startTimer(), stopTimer().          *)

FreeTimers(c) == {t \in TimerIds : c.timers[t] = "free"}

\* the lowest free slot, kInvalidTimerId when the table is full
FreeSlot(c) ==
  IF FreeTimers(c) = {} THEN kInvalidTimerId
  ELSE CHOOSE t \in FreeTimers(c) : \A u \in FreeTimers(c) : t <= u

occupy(c, id, owner) ==
  [c EXCEPT !.timers = [t \in TimerIds |-> IF t = id THEN owner ELSE @[t]]]

stopTimer(c, id) == occupy(c, id, "free")

startReconnectTimer(c) ==
  [occupy(c, FreeSlot(c), "reconnect") EXCEPT !.mReconnectTimerId = FreeSlot(c)]

startMiscTimer(c) ==
  [occupy(c, FreeSlot(c), "misc") EXCEPT !.mMiscTimerId = FreeSlot(c)]

stopAfterStart(c) == stopTimer(startMiscTimer(c), c.mMiscTimerId)              \* mutant
stopReconnectInstead(c) == startMiscTimer(stopTimer(c, c.mReconnectTimerId))   \* mutant

scheduleMisc(c) == startMiscTimer(stopTimer(c, c.mMiscTimerId))

-----------------------------------------------------------------------------
(* ExponentialBackoff.                                                     *)

next(c) ==
  LET longer == c.mReconnectDelay * Factor
  IN  [c EXCEPT !.mReconnectDelay = IF longer < MaxDelay THEN longer ELSE MaxDelay]

resetNothing(c) == c                                   \* mutant
resetToZero(c) == [c EXCEPT !.mReconnectDelay = 0]     \* mutant

reset(c) == [c EXCEPT !.mReconnectDelay = BaseDelay]

-----------------------------------------------------------------------------
(* Losing the connection and the session.                                  *)

mosquittoClose(c) == [c EXCEPT !.sock = NoFd]

\* Within a libmosquitto callback mosquitto_disconnect() only queues DISCONNECT,
\* elsewhere it closes the socket.  With the socket gone already,
\* unwatchSocket(-1) matches no watch.
disconnectStaysConnected(c, inCallback) ==    \* mutant
  [c EXCEPT !.mSessionInfo = 0, !.sock = IF c.mConnected /\ ~inCallback THEN NoFd ELSE @]
disconnectKeepsMisc(c, inCallback) ==         \* mutant
  IF ~c.mConnected THEN [c EXCEPT !.mSessionInfo = 0]
  ELSE [stopTimer(c, c.mReconnectTimerId)
          EXCEPT !.mSessionInfo = 0,
                 !.watches      = @ \ {c.sock},
                 !.sock         = IF inCallback THEN @ ELSE NoFd,
                 !.mConnected   = FALSE]

disconnect(c, inCallback) ==
  IF ~c.mConnected THEN [c EXCEPT !.mSessionInfo = 0]
  ELSE [stopTimer(stopTimer(c, c.mReconnectTimerId), c.mMiscTimerId)
          EXCEPT !.mSessionInfo = 0,
                 !.watches      = @ \ {c.sock},
                 !.sock         = IF inCallback THEN @ ELSE NoFd,
                 !.mConnected   = FALSE]

handleInvalidSession(c, inCallback) ==
  IF c.mReconnecting THEN c
  ELSE [startReconnectTimer(disconnect(c, inCallback)) EXCEPT !.mReconnecting = TRUE]

dropForGood(c) == [c EXCEPT !.watches = @ \ {c.sock}, !.mConnected = FALSE,   \* mutant
                            !.mReconnecting = TRUE, !.mSessionInfo = 0]

dropConnection(c) ==
  [startReconnectTimer([c EXCEPT !.watches = @ \ {c.sock}])
     EXCEPT !.mConnected    = FALSE,
            !.mReconnecting = TRUE,
            !.mSessionInfo  = 0]

handleLostConnection(c) == IF c.mReconnecting THEN c ELSE dropConnection(c)

\* libmosquitto closes the socket before it reports the error
lose(c) == handleLostConnection(mosquittoClose(c))

\* connect() gives up after the CONNACK
abandon(c) == [mosquittoClose(c) EXCEPT !.mConnected = FALSE]

reconnectOnce(c, ok) == IF ok THEN [reset(c) EXCEPT !.mReconnecting = FALSE] ELSE next(c)   \* mutant

\* the rest of reconnect(), after its connect() returned
reconnectReturns(c, ok) ==
  IF ok THEN [reset(c) EXCEPT !.mReconnecting = FALSE]
  ELSE startReconnectTimer(next(c))

-----------------------------------------------------------------------------
(* Messages of the gateway, and how the client takes them.  `key' is the   *)
(* session whose keys encrypted the body, `id' the request it answers.     *)

Answer(r)   == [kind |-> "response", type |-> r.type, key |-> r.key, id |-> r.req]
Denied      == [kind |-> "response", type |-> "login", key |-> 0, id |-> 0]
Refusal     == [kind |-> "invalidSession", type |-> "none", key |-> 0, id |-> 0]
BadResponse == [kind |-> "badResponse", type |-> "none", key |-> 0, id |-> 0]
Event(k)    == [kind |-> k, type |-> "events", key |-> gwSession, id |-> 0]

onExpectedResponse(f, m) ==
  IF m.kind = "invalidSession" THEN [f EXCEPT !.done = TRUE, !.error = "invalidSession"]
  ELSE IF m.kind = "badResponse" \/ m.type # f.type \/ m.key # f.key
       THEN [f EXCEPT !.done = TRUE, !.error = "badResponse"]
       ELSE [f EXCEPT !.done = TRUE, !.got = m.id]

QueuedFor(m) ==
  [kind |-> IF m.kind \in {"expired", "expiring"} THEN m.kind ELSE "bus", sess |-> m.key]

queueAnything(c, m) == [c EXCEPT !.mMessageQueue = Append(@, QueuedFor(m))]   \* mutant

onGeneralMessage(c, m) ==
  IF m.kind = "invalidSession" THEN handleInvalidSession(c, TRUE)
  ELSE IF m.kind = "badResponse" \/ c.mSessionInfo = 0 \/ m.key # c.mSessionInfo
       THEN c
       ELSE [c EXCEPT !.mMessageQueue = Append(@, QueuedFor(m))]

-----------------------------------------------------------------------------
(* The call stack.                                                         *)

Top == stack[Len(stack)]
Idle == stack = <<>>
At(places) == ~Idle /\ Top.at \in places
Rest == SubSeq(stack, 1, Len(stack) - 1)
ReplaceTop(f) == stack' = [stack EXCEPT ![Len(stack)] = f]

NewFrame(at, fd) ==
  [at |-> at, auto |-> FALSE, fd |-> fd, done |-> FALSE, error |-> "none",
   type |-> "none", req |-> 0, key |-> 0, got |-> 0]

Nothing == [call |-> "none", ok |-> TRUE, own |-> TRUE]
Returned(call, ok) == [call |-> call, ok |-> ok, own |-> TRUE]

\* The application calls from outside of the loop or from one of its callbacks,
\* and MaxDepth leaves room for a wait and the handler that reads for it.
MayCall(call) == \/ Idle /\ call \in Calls
                 \/ At(Callbacks) /\ call \in CallbackCalls
RoomToWait == Len(stack) + 2 <= MaxDepth
MayRequest == nextReq <= MaxRequests

-----------------------------------------------------------------------------
Init ==
  /\ client = [ mConnected |-> FALSE, mReconnecting |-> FALSE, mSessionInfo |-> 0,
                mExpectedResponse |-> 0, mMessageQueue |-> <<>>,
                mReconnectDelay |-> BaseDelay,
                mReconnectTimerId |-> kInvalidTimerId, mMiscTimerId |-> kInvalidTimerId,
                timers |-> [t \in TimerIds |-> "free"], watches |-> {},
                sock |-> NoFd, userData |-> "null" ]
  /\ accepted = FALSE
  /\ topics = {}
  /\ owed = {}
  /\ gwSession = 0
  /\ nextReq = 1
  /\ stack = <<>>
  /\ result = Nothing
  /\ told = 0

\* connect() and, when reconnect() called it, the rest of reconnect()
ConnectReturns(c, auto, ok) ==
  /\ client' = IF auto THEN reconnectReturns(c, ok) ELSE c
  /\ result' = Returned(IF auto THEN "reconnect" ELSE "connect", ok)

openUnwatched(c, fd) ==    \* mutant
  [c EXCEPT !.mConnected = TRUE, !.sock = fd, !.userData = "context"]
openWithoutContext(c, fd) ==    \* mutant
  [c EXCEPT !.mConnected = TRUE, !.watches = @ \cup {fd}, !.sock = fd]

\* connectMqtt() gave socket fd: it is watched, and until the CONNACK the callbacks
\* are given the context of connect()
open(c, fd) ==
  [c EXCEPT !.mConnected = TRUE, !.watches = @ \cup {fd}, !.sock = fd,
            !.userData = "context"]

\* connect() up to its first wait; c is the client at the call
connect(c, auto) ==
  \/ /\ c.mConnected
     /\ ConnectReturns(c, auto, TRUE)
     /\ UNCHANGED <<accepted, topics, nextReq, stack>>
  \/ /\ ~c.mConnected                       \* connectMqtt() fails
     /\ ConnectReturns(mosquittoClose(c), auto, FALSE)
     /\ UNCHANGED <<accepted, topics, nextReq, stack>>
  \/ /\ ~c.mConnected
     /\ MayRequest /\ RoomToWait
     /\ \E fd \in Fds :
          /\ client' = open(c, fd)
          /\ stack' = Append(stack, [NewFrame("connack", fd) EXCEPT !.auto = auto,
                                                                    !.req  = nextReq])
     /\ accepted' = FALSE
     /\ topics' = {}
     /\ nextReq' = nextReq + 1
     /\ result' = Nothing

Connect ==
  /\ MayCall("connect")
  /\ connect(client, FALSE)
  /\ UNCHANGED <<owed, gwSession, told>>

Disconnect ==
  /\ MayCall("disconnect")
  /\ client' = disconnect(client, FALSE)
  /\ result' = Returned("disconnect", client.mConnected => client.sock # NoFd)
  /\ UNCHANGED <<accepted, topics, owed, gwSession, nextReq, stack, told>>

\* send() reaches mosquitto_publish(), which has a socket
CanSend == client.mConnected /\ client.mSessionInfo # 0 /\ client.sock # NoFd

Unawaited(t) == [req |-> 0, type |-> t, key |-> client.mSessionInfo]

Send ==
  /\ MayCall("send")
  /\ \/ /\ owed' = owed
        /\ result' = Returned("send", FALSE)
     \/ /\ CanSend
        /\ \E t \in Types : owed' = owed \cup {Unawaited(t)}
        /\ result' = Returned("send", TRUE)
  /\ UNCHANGED <<client, accepted, topics, gwSession, nextReq, stack, told>>

keepExpecting(c) == c                                  \* mutant

\* the wait of sendRequest() is enclosed by setting and resetting the pointer to its
\* frame, the i-th of the stack
expect(c, i) == [c EXCEPT !.mExpectedResponse = i]
answered(c) == [c EXCEPT !.mExpectedResponse = 0]

\* sendSessionRequest() and sendRequest() up to the wait
SendRequest ==
  /\ MayCall("sendRequest") /\ RoomToWait
  /\ \/ /\ result' = Returned("sendRequest", FALSE)
        /\ UNCHANGED <<client, owed, nextReq, stack>>
     \/ /\ CanSend /\ MayRequest
        /\ \E t \in Types :
             LET request == [req |-> nextReq, type |-> t, key |-> client.mSessionInfo]
             IN  /\ owed' = owed \cup {request}
                 /\ stack' = Append(stack, [NewFrame("response", client.sock) EXCEPT
                                              !.type = t, !.req = nextReq, !.key = request.key])
        /\ client' = expect(client, Len(stack) + 1)
        /\ nextReq' = nextReq + 1
        /\ result' = Nothing
  /\ UNCHANGED <<accepted, topics, gwSession, told>>

-----------------------------------------------------------------------------
(* The waits of connect() and sendRequest().  The end of a wait that was   *)
(* not notified is its timeout, or select() failing on a closed socket.    *)

\* the stack frame of connect() is gone, mMosq still points into it
forgetContext(c) == [c EXCEPT !.userData = IF @ = "context" THEN "dangling" ELSE @]

ConnackMissing ==
  /\ At({"connack"}) /\ (~Top.done \/ Top.error = "refused")
  /\ stack' = Rest
  /\ ConnectReturns(forgetContext(client), Top.auto, FALSE)
  /\ UNCHANGED <<accepted, topics, owed, gwSession, nextReq, told>>

keepUserData(c) == c                                   \* mutant

useSelf(c) == [c EXCEPT !.userData = "self"]

\* The CONNACK came: subscribe to the client's queue and send the login request.  A
\* libmosquitto call may fail for reasons of its own, without a socket it must.
ConnackArrived ==
  /\ At({"connack"}) /\ Top.done /\ Top.error = "none"
  /\ LET c == useSelf(client)
     IN  \/ /\ stack' = Rest
            /\ ConnectReturns(abandon(c), Top.auto, FALSE)
            /\ UNCHANGED <<topics, owed>>
         \/ /\ c.sock # NoFd /\ c.mConnected
            /\ topics' = topics \cup {"client"}
            /\ owed' = owed \cup {[req |-> Top.req, type |-> "login", key |-> 0]}
            /\ client' = expect(c, Len(stack))
            /\ ReplaceTop([NewFrame("login", c.sock) EXCEPT !.auto = Top.auto,
                                                            !.type = "login",
                                                            !.req  = Top.req])
            /\ result' = Nothing
  /\ UNCHANGED <<accepted, gwSession, nextReq, told>>

LoginFails ==
  /\ At({"login"}) /\ (~Top.done \/ Top.error # "none" \/ Top.got = 0)
  /\ stack' = Rest
  /\ LET c == IF Top.error = "invalidSession"
              THEN handleInvalidSession(answered(client), FALSE) ELSE answered(client)
     IN  ConnectReturns(abandon(c), Top.auto, FALSE)
  /\ UNCHANGED <<accepted, topics, owed, gwSession, nextReq, told>>

\* The session is open: subscribe to the events and schedule mosquitto_loop_misc().
LoginSucceeds ==
  /\ At({"login"}) /\ Top.done /\ Top.error = "none" /\ Top.got # 0
  /\ stack' = Rest
  /\ LET c == [answered(client) EXCEPT !.mSessionInfo = Top.got]
     IN  \/ /\ ConnectReturns(abandon(c), Top.auto, FALSE)
            /\ UNCHANGED topics
         \/ /\ c.sock # NoFd
            /\ topics' = topics \cup {"clients"}
            /\ ConnectReturns(scheduleMisc(c), Top.auto, TRUE)
  /\ UNCHANGED <<accepted, owed, gwSession, nextReq, told>>

RequestEnds ==
  /\ At({"response"})
  /\ stack' = Rest
  /\ client' = IF Top.error = "invalidSession"
               THEN handleInvalidSession(answered(client), FALSE) ELSE answered(client)
  /\ result' = [call |-> "sendRequest", ok |-> Top.done /\ Top.error = "none",
                own |-> Top.got = Top.req]
  /\ UNCHANGED <<accepted, topics, owed, gwSession, nextReq, told>>

WaitEnds ==
  ConnackMissing \/ ConnackArrived \/ LoginFails \/ LoginSucceeds \/ RequestEnds

-----------------------------------------------------------------------------
(* handleSocketEvents(), called by the innermost wait or by the loop.      *)

StartReading ==
  /\ client.mConnected /\ client.sock # NoFd
  /\ stack' = Append(stack, NewFrame("read", client.sock))
  /\ result' = Nothing
  /\ UNCHANGED <<client, accepted, topics, owed, gwSession, nextReq, told>>

WaitReads == At(Waits) /\ ~Top.done /\ Top.fd = client.sock /\ StartReading

LoopReads == Idle /\ client.sock \in client.watches /\ StartReading

\* onConnectCallback(): the stacks it may leave.  Through a dangling pointer it
\* writes into the frame of a connect() that returned, and notifies what its memory
\* refers to by now: nothing that matters, or the condition of any call that waits.
\* (A crash is the end of the behaviour, which every behaviour may come to.)
onConnectCallback(error) ==
  CASE client.userData = "context" ->
         {[i \in DOMAIN stack |->
             IF /\ stack[i].at = "connack"
                /\ \A j \in DOMAIN stack : j > i => stack[j].at # "connack"
             THEN [stack[i] EXCEPT !.done = TRUE, !.error = error] ELSE stack[i]]}
    [] client.userData = "dangling" ->
         {stack} \cup {[stack EXCEPT ![i].done = TRUE] :
                         i \in {j \in DOMAIN stack : stack[j].at \in Waits}}
    [] OTHER -> {stack}

ReadConnack ==
  /\ At({"read"}) /\ ~accepted
  /\ accepted' = TRUE
  /\ stack' \in onConnectCallback("none")
  /\ result' = Nothing
  /\ UNCHANGED <<client, topics, owed, gwSession, nextReq, told>>

\* libmosquitto calls back, then fails mosquitto_loop_read()
ReadRefused ==
  /\ At({"read"}) /\ ~accepted
  /\ \E s \in onConnectCallback("refused") : stack' = SubSeq(s, 1, Len(stack) - 1)
  /\ client' = lose(client)
  /\ result' = Nothing
  /\ UNCHANGED <<accepted, topics, owed, gwSession, nextReq, told>>

\* onMessage(): a message on the client's queue goes to the call that expects a
\* response, if there is one, whatever the message is
onMessage(topic, m) ==
  /\ IF topic = "client" /\ client.mExpectedResponse # 0
     THEN /\ stack' = [stack EXCEPT ![client.mExpectedResponse] = onExpectedResponse(@, m)]
          /\ UNCHANGED client
     ELSE /\ client' = onGeneralMessage(client, m)
          /\ Len(client'.mMessageQueue) <= MaxQueue
          /\ UNCHANGED stack
  /\ told' = IF m.kind = "expired" /\ m.key = client.mSessionInfo THEN m.key ELSE told
  /\ result' = Nothing

\* The gateway answers any request it has received, at any later time: with the
\* response, or refuses the session, or the login, or reports a failure.
AnswersTo(r) ==
  {BadResponse} \cup
  IF r.type = "login" THEN {Answer(r), Denied}
  ELSE IF r.key = gwSession THEN {Answer(r)} ELSE {Refusal}

ReadAnswer ==
  /\ At({"read"}) /\ "client" \in topics
  /\ \E r \in owed : \E m \in AnswersTo(r) :
       /\ onMessage("client", m)
       /\ owed' = owed \ {r}
       /\ gwSession' = IF r.type = "login" /\ m = Answer(r) THEN r.req ELSE gwSession
  /\ UNCHANGED <<accepted, topics, nextReq>>

ReadSessionEvent ==
  /\ At({"read"}) /\ "client" \in topics /\ gwSession # 0
  /\ \E kind \in {"expiring", "expired"} :
       /\ onMessage("client", Event(kind))
       /\ gwSession' = IF kind = "expired" THEN 0 ELSE gwSession
  /\ UNCHANGED <<accepted, topics, owed, nextReq>>

\* on the topic of all clients: a device event, or a message that says of the session
\* that it is invalid
ReadDeviceEvent ==
  /\ At({"read"}) /\ "clients" \in topics
  /\ \/ gwSession # 0 /\ onMessage("clients", Event("device"))
     \/ onMessage("clients", Refusal)
  /\ UNCHANGED <<accepted, topics, owed, gwSession, nextReq>>

ReadEnds ==
  /\ At({"read"})
  /\ ReplaceTop([Top EXCEPT !.at = "next"])
  /\ result' = Nothing
  /\ UNCHANGED <<client, accepted, topics, owed, gwSession, nextReq, told>>

\* mosquitto_loop_read() fails, or mosquitto_loop_write() when nothing was read.
\* After a disconnect() libmosquitto reports no error.
ReadFails ==
  /\ At({"read"}) /\ client.mConnected
  /\ stack' = Rest
  /\ client' = lose(client)
  /\ result' = Nothing
  /\ UNCHANGED <<accepted, topics, owed, gwSession, nextReq, told>>

-----------------------------------------------------------------------------
(* dispatchQueuedMessages(), and the callbacks of the application.         *)

Peeked == client                                       \* mutant

Popped == [client EXCEPT !.mMessageQueue = Tail(@)]

DispatchNext ==
  /\ At({"next"}) /\ client.mMessageQueue # <<>>
  /\ LET kind == Head(client.mMessageQueue).kind
     IN  \/ /\ kind = "expired"
            /\ client' = handleInvalidSession(Popped, FALSE)
            /\ UNCHANGED stack
         \/ /\ kind = "expiring"
            /\ client' = Popped
            /\ ReplaceTop([Top EXCEPT !.at = "expiring"])
         \/ /\ kind = "bus"
            /\ client' = Popped
            /\ ReplaceTop([Top EXCEPT !.at = "subscriber"])
  /\ result' = Nothing
  /\ UNCHANGED <<accepted, topics, owed, gwSession, nextReq, told>>

\* after the session-expiring callback the keep-alive message is sent, if there is one
CallbackReturns ==
  /\ At(Callbacks)
  /\ \/ owed' = owed
     \/ /\ Top.at = "expiring" /\ KeepAlive # "none" /\ CanSend
        /\ owed' = owed \cup {Unawaited(KeepAlive)}
  /\ ReplaceTop([Top EXCEPT !.at = "next"])
  /\ result' = Nothing
  /\ UNCHANGED <<client, accepted, topics, gwSession, nextReq, told>>

HandlerEnds ==
  /\ At({"next"}) /\ client.mMessageQueue = <<>>
  /\ \/ UNCHANGED client
     \/ /\ client.mConnected /\ client.sock # NoFd      \* mosquitto_loop_write() fails
        /\ client' = lose(client)
  /\ stack' = Rest
  /\ result' = Nothing
  /\ UNCHANGED <<accepted, topics, owed, gwSession, nextReq, told>>

-----------------------------------------------------------------------------
(* The timers: the loop releases the slot, then calls the callback.        *)

FireReconnect ==
  /\ Idle
  /\ \E t \in TimerIds :
       /\ client.timers[t] = "reconnect"
       /\ IF client.mReconnecting THEN connect(stopTimer(client, t), TRUE)
          ELSE /\ client' = stopTimer(client, t)
               /\ result' = Nothing
               /\ UNCHANGED <<accepted, topics, nextReq, stack>>
  /\ UNCHANGED <<owed, gwSession, told>>

\* handleMisc()
FireMisc ==
  /\ Idle
  /\ \E t \in TimerIds :
       LET c == stopTimer(client, t)
       IN  /\ client.timers[t] = "misc"
           /\ \/ ~c.mConnected /\ client' = c
              \/ c.mConnected /\ client' = lose(c)       \* mosquitto_loop_misc() fails
              \/ c.mConnected /\ c.sock # NoFd /\ client' = scheduleMisc(c)
  /\ result' = Nothing
  /\ UNCHANGED <<accepted, topics, owed, gwSession, nextReq, stack, told>>

\* the gateway drops the session without the client hearing of it
SessionLapses ==
  /\ gwSession # 0
  /\ gwSession' = 0
  /\ result' = Nothing
  /\ UNCHANGED <<client, accepted, topics, owed, nextReq, stack, told>>

-----------------------------------------------------------------------------
Application == Connect \/ Disconnect \/ Send \/ SendRequest
Reads == \/ ReadConnack \/ ReadRefused \/ ReadAnswer \/ ReadSessionEvent
         \/ ReadDeviceEvent \/ ReadEnds \/ ReadFails
Timers == FireReconnect \/ FireMisc

Next == \/ Application \/ WaitEnds \/ WaitReads \/ LoopReads \/ Reads
        \/ DispatchNext \/ CallbackReturns \/ HandlerEnds \/ Timers \/ SessionLapses

Spec == Init /\ [][Next]_vars

\* A handler runs to its end.  A wait is bounded by its timeout, which select()
\* counts down over all the rounds of the wait, and an application's callback
\* returns: both also when they are interrupted by calls nested in them, hence the
\* strong fairness, at every depth of the call stack.
Fairness ==
  /\ WF_vars(ReadEnds \/ DispatchNext \/ HandlerEnds)
  /\ \A d \in 1 .. MaxDepth : SF_vars((WaitEnds \/ CallbackReturns) /\ Len(stack) = d)

FairSpec == Spec /\ Fairness

\* The application runs the loop again and again, and the loop serves its timers.
FairLoopSpec == FairSpec /\ SF_vars(FireReconnect)
=============================================================================
