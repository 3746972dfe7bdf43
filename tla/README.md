# Verification of mobilus-gtw-client

TLA+ models of the C++ client library for the Mobilus Cosmo gateway, the TLC
runs that check them on small instances, and theorems proved with TLAPS for all
instances.  Paths below are relative to the repository.

## 1. The system

The library is single-threaded. An application builds a client, attaches it to
an event loop, and calls `connect()`, `send()`, `sendRequest()` and
`disconnect()`. The client talks MQTT, through libmosquitto, to the broker of
the gateway.

| component | state it keeps | operations | who calls it |
|---|---|---|---|
| `MqttMobilusGtwClientImpl` (`src/MqttMobilusGtwClientImpl.cpp`) | `mConnected`, `mReconnecting`, `mSessionInfo`, `mExpectedResponse`, `mMessageQueue`, `mReconnectDelay`, ids of two timers, the mosquitto handle with its user data | `connect`, `disconnect`, `send`, `sendRequest`, `handleSocketEvents`, `reconnect`, `handleMisc`, the callbacks of libmosquitto | application, event loop, `SelectCondition`, libmosquitto |
| `SelectCondition` (`src/SelectCondition.cpp`) | a condition, a descriptor, a timeout | `wait`, `notify` | `connect`, `sendRequest`; notified by the callbacks of libmosquitto |
| `ExponentialBackoff` | the delay | `next`, `reset`, `delay` | the client |
| `io::SelectEventLoop` (`src/io/SelectEventLoop.cpp`) | 64 timer slots, 32 socket watches, `mRun` | `runUntil`, `stop`, `startTimer`, `stopTimer`, `watchSocket`, `unwatchSocket` | application, the clients, and its own callbacks |
| `io::NullEventLoop` | nothing | starts no timer, watches no socket | clients without a loop |
| `Envelope` (`src/Envelope.cpp`) | none | `serialize`, `deserialize` | the client, for every message |
| `MessageBus` | subscribers by message type | `subscribe`, `dispatch` | application; the client dispatches |
| `MqttDsn`, `MqttMobilusGtwClient::Builder` | what it was told | `from`; setters, `build` | application |
| `ProtoUtils` | none | `messageTypeFor`, `newMessageFor` | the client, the bus |
| `ClientId`, crypto, logging | none, or set once | OpenSSL, texts | the client |
| libmosquitto, broker, gateway | connection, subscriptions, session, unanswered requests | external | the client |

How they interact. `connect()` and `sendRequest()` block: they call
`SelectCondition::wait()`, which polls the client's own socket and calls
`handleSocketEvents()`, which lets libmosquitto read, which calls
`onConnectCallback()` or `onMessage()`, which notify the condition or queue a
message. After the read `dispatchQueuedMessages()` runs the application's
subscribers, and these may call `connect()`, `disconnect()` or `sendRequest()`
again. So waits nest within subscribers within waits, on one C++ stack, and
every member the outer call relied on may have changed when it goes on. The
loop, when the application runs it, calls `handleSocketEvents()` and the two
timer callbacks `reconnect()` and `handleMisc()`. Timers and watches live in
tables of the loop; the client keeps ids into them.

What is hard here:

* re-entrancy: `mExpectedResponse` and the user data of the connection point
  into stack frames; `ExpectedResponse::key` refers into `mSessionInfo`;
* stale ids: timer ids are not reset when a timer has fired, descriptors are
  used again by the operating system;
* failure in the middle of `connect()`, which has five places to give up, and
  of a reconnect, which suppresses the handling of losses;
* responses without a correlation id, timeouts with late answers, session
  events that come while a request waits;
* tables that callbacks change while the loop walks over them, and time that
  passes between looking at a timer and computing the timeout of `select()`;
* several clients, and other code, share the tables of one loop and the
  descriptors of one process; ids and watches outlive what they stood for;
* a list of subscribers that subscribers change, and walk again, while it is
  walked;
* a connection handle that is configured in four calls, any of which may fail,
  and that is kept and reconnected all the same;
* a binary layout with sizes, widths and an unsigned subtraction.

What makes each component correct:

* client: at most one reconnect is scheduled, and one chain of misc calls; no
  pointer outlives its frame; a pending reconnect is not lost; what is
  dispatched belongs to the open session; the open socket is watched; all calls
  return; its next attempt to reconnect comes; its pings go on; `connect()` means
  a session; a request gets its own response; a connection is secured, and the
  user logged in, as the DSN says;
* clients on one loop: none disturbs another's timers or watches, and a
  destroyed one leaves no timer and no watch behind (of the watches, the code
  keeps this only for a client that never lost a connection);
* loop: every started timer is stopped or called once, when due, and served as
  long as the loop runs; every watched, readable socket is served; no socket is
  watched twice; a bounded run ends;
* envelope: what was serialized is read back, and nothing else is accepted;
* bus: each subscriber present gets each message of its class once.

`PROJECT.json` lists each hazard at its line, with the properties that cover it.

## 2. The modules

### GtwClient, GtwClientProperties, MCGtwClient

`GtwClient` is the client with the parts of its surroundings it depends on.
The members of the class are the fields of the record `client`; each member
function is an operator with the function's name from record to record, so that
`handleInvalidSession` is written as the composition of `disconnect` and
`startReconnectTimer`, as in the code. The C++ stack is the variable `stack`:
one frame for each blocked `connect()` (`"connack"`, `"login"`) or
`sendRequest()` (`"response"`), with the fields of `SelectCondition`,
`ConnectCallbackContext` and `ExpectedResponse`, and one for each running
`handleSocketEvents()` (`"read"`, `"next"`, and `"subscriber"`, `"expiring"`
while the application's callback runs). Only the top frame moves.

| actions | code |
|---|---|
| `Connect`, `ConnackMissing`, `ConnackArrived`, `LoginFails`, `LoginSucceeds` | `connect()` cut at its two waits, with `login()` |
| `Disconnect`, `Send`, `SendRequest`, `RequestEnds` | the other calls; `sendRequest()` cut at its wait |
| `StartReading` (`WaitReads`, `LoopReads`), `ReadConnack`, `ReadRefused`, `ReadAnswer`, `ReadSessionEvent`, `ReadDeviceEvent`, `ReadEnds`, `ReadFails` | `handleSocketEvents()` and what `mosquitto_loop_read()` calls back, packet by packet |
| `DispatchNext`, `CallbackReturns`, `HandlerEnds` | `dispatchQueuedMessages()`, `handleClientCallEvents()`, the rest of `handleSocketEvents()` |
| `FireReconnect`, `FireMisc` | `reconnect()`, `handleMisc()`, called by the loop |
| `SessionLapses` | the gateway drops a session silently |

Abstractions, beyond leaving out texts and payloads. A session, and its keys,
is the number of the login request that opened it; a message encrypted with
another session's key fails to parse. The broker and the gateway are `accepted`,
`topics`, `owed` and `gwSession`: requests are answered at any later time, in
any order, also after their sender gave up; a message exists when it is read, so
only answers are delayed (`owed`), and requests that nobody waits for are not
told apart there. libmosquitto, as the code relies on it: an error of a read
closes the socket before it is returned; `mosquitto_disconnect()` closes the
socket at once, or only queues a packet when called within one of its
callbacks; a refused CONNACK calls back and then fails the read; publishing
without a socket fails. Failures of `mosquitto_loop_write()` are `HandlerEnds`
and `ReadFails`. Subscribing and publishing may fail for reasons of their own, and
must without a socket. A message that says the session is invalid may come on the
client's topic and on that of all clients. A CONNACK that finds the context of a
`connect()` that gave up is undefined behaviour: `onConnectCallback` is a set of
outcomes there, in which it writes through the dead frame and notifies nothing
that matters, or the condition of any call that waits. One that finds the client
itself, which takes a `connect()` from a callback, changes nothing in the model,
the mildest of its outcomes. The two clocks of
the client, timeouts and timer delays, are not counted: a wait may end at any
time, a timer may fire at any time after its start. Duplicates of QoS 1 are not
modelled, nor is the capacity of the watch table, and the raw-message callback
does not call the client.

### SelectEventLoop, TimerService, MCSelectEventLoop

`SelectEventLoop` is `runUntil()` cut wherever a callback runs or time may pass:
`While`, the walk over the timers (`PassTimer`, `FireTimer`,
`CallbackReturns`), `Break`, `SelectFails`, `Select`, `SelectReturns`,
`SelectInterrupted`, the walk over the watches (`PassWatch`, `HandleSocket`,
`HandlerReturns`, `RoundEnds`). From outside and from every callback come
`startTimer`, `stopTimer`, `OpenAndWatch`, `Close`, `stop`. `Tick` may happen
between any two steps; its unit is the microsecond, to which
`convertToTimeval()` truncates. Read and write events are one readiness. A
socket's owner may close it and leave the watch behind, which is what the
client does when libmosquitto closed the socket first; the handler of such a
watch may be one that asks for no events (`silent`), as a client without a
connection does, and may ask again as soon as it has a connection.

`TimerService` is the abstract specification: timers are a set, starting adds
one, stopping removes one, a callback removes a due one and runs alone. It is
implemented by the loop under `pending <- {timers[t] : t \in Active}`.

### ClientsOnLoop, MCClientsOnLoop

`ClientsOnLoop` composes several clients with the tables of one loop. Here a
call of a client is one step, its waits included, because no other client runs
meanwhile; what can happen in its waits is what `GtwClient` shows, and comes
out of `failures` and `connect` as a set of outcomes. The same functions as in
`GtwClient` (`disconnect`, `lose`, `handleInvalidSession`, `scheduleMisc`,
`reconnect`, `handleMisc`), now of a client `c`, take the shared tables to the
tables they leave. `SendRequest` is a request of the application, whose own wait,
without the loop's `select()`, meets the loss of the connection or of the session.
`FireTimer` and `HandleSocket` are the loop calling back,
`Destroy` is the destructor, `OpenFile` and `CloseFile` are other code of the
process, which takes and gives back descriptors. The operating system gives the
lowest free descriptor. The callback of a timer, or the handler of a watch,
whose client is gone is undefined behaviour, and no step of the model.

### ProtoUtils, MessageBus, MCMessageBus

`ProtoUtils` has the two tables of `src/ProtoUtils.cpp`. `MessageBus` has the
lists of subscribers and a stack of calls of `dispatch()`, each walking the list
of its class and then that of all messages, up to the end that the range-based
`for` took when it began. A subscriber that is running may subscribe anything,
or dispatch a further message, nested, which is what a request sent from it
does. The capacity of a `std::vector` doubles when it is full; when that happens
to a list that is being walked, the elements move away from under the walk, and
the model ends there (`moved`): from then on the behaviour is undefined.
(References into the `unordered_map` stay valid when it grows.)

### ClientSetup, MCClientSetup

`ClientSetup` goes from the text of a DSN to a connection: `from` on the parts
of the text its pattern tells apart, the `Builder` with `dsn`, `login`,
`useKeepAliveMessage`, `onSessionExpiring`, `build` in any order and any number
of times, and `connectMqtt()` as `Connect` (a new handle, whose configuration
may fail at each call) and `Reconnect` (the handle there is). A port is an
integer that is cut to 16 bits; the port of a DSN that names none is whatever
the empty optional holds (`Garbage`).

### Envelope, MCEnvelope

`serialize` and `deserialize` over real bytes, offset by offset. Reading behind
the end of a payload is the outcome `Undefined`, and nothing is assumed of it.

### The modules of proofs

`GtwClientProofs`, `GtwClientConnectionProofs` and `GtwClientNestingProofs`, each
extending the one before, `SelectEventLoopProofs`, `ClientsOnLoopProofs`,
`MessageBusProofs`, `EnvelopeProofs` and `ClientSetupProofs` hold the theorems,
see section 5.

## 3. The runs

| run | checks | shows |
|---|---|---|
| `reentrant` | `TypeOK`, `ReconnectTimer`, `MiscTimer`, `ExpectedResponseLive`, `KeyLive`, `BackoffIsReset`, `ConnectedIsWatched`, `DisconnectLeavesNothing`, `ReconnectSurvives`, `OnlyDisconnectForgets` | ids, pointers and the pending reconnect stay sound when subscribers call anything; a client that reconnects has its next attempt scheduled, or is in one, until it has a session or somebody calls `disconnect()`; with two descriptors the open socket is watched whatever stale watches there are |
| `recovery` | `MessageFindsClient`, `ConnackReachesItsConnect`, `QueueFresh`, `PingsGoOn`, `CallsReturn`, `NextAttemptComes` | all nested waits and dispatches end, and the next attempt of a reconnecting client is made; messages find the client, a `connect()` goes on only with the CONNACK of its own connection, and what is queued is of the open session; the pings of a usable connection go on |
| `loop` | `TypeOK`, `WatchedOnce`, `ImplementsTimerService`, `TimersServed`, `SocketsServed`, `RunForReturns` | the loop implements the timer service while its tables change under it, nothing starves while it runs, and a bounded run ends |
| `on_loop` | `TypeOK`, `OneTimerOfAKind`, `SocketHasItsHandler`, `DestructorLeavesStaleWatches` | two clients on a loop with too few timer slots: stale ids never double a client's timers, stale watches never take an open socket from its client, and the destructor of a connected client leaves no timer, and no watch but those of descriptors it had lost before |
| `bus` | `TypeOK`, `CastIsSound`, `ServedOnce` | every message type reaches its subscribers, each once, whatever they subscribe and dispatch meanwhile |
| `setup` | `TypeOK`, `SecureAsAsked`, `AddressedByTheText` | no failed or repeated setup leads to a connection without the encryption, the verification or the login of the DSN, or to another port than its text leads to: the number modulo 65536, or what an empty optional holds when there is none |
| `envelope` | `TypeOK`, `RoundTrip`, `OnlySerialized` | the layout is read as it is written |

Five more runs end in a violation. Each states what a comment, a test or the
repository's README says, and TLC finds the behaviour of the code that differs:

| run | property | what the code does |
|---|---|---|
| `connect_without_session` | `ConnectMeansSession` | a `connect()` that timed out leaves `mConnected` set; the next one returns success at once. If that is the one of `reconnect()`, it clears `mReconnecting` with neither a session nor a timer |
| `expired_while_waiting` | `ReconnectsOnExpiredSession` | the EXPIRED event is taken for the response of a waiting request, and lost |
| `nested_request` | `ExpectedResponseIsNotSubscribed` | a request nested in another one resets `mExpectedResponse` (`src/MqttMobilusGtwClientImpl.cpp:304`): the response to the outer one goes to the subscribers |
| `stale_watch` | `LoopGoesOn` | a connection lost during a reconnect leaves the client connected, with a watch of a closed descriptor: `select()` fails and the loop ends for everybody |
| `others_timer` | `PingsGoOn` | a client stops another client's misc timer by an id it kept: that connection is not pinged any more |

### Further deviations

These were met while modelling and are not repeated by a run. Where a property
is named, putting it into the `.cfg` of the module's run shows it.

* `src/MqttMobilusGtwClientImpl.cpp:97`: after `connect()` gave up waiting, the loop
  reads the late CONNACK, and lines 252 and 253 write through the user data into a
  frame that is gone. The model has this (`onConnectCallback` with `"dangling"`), and
  no property forbids it: `ConnackReachesItsConnect` says that no later `connect()`
  goes on for it.
* `src/MqttMobilusGtwClientImpl.cpp:98`: `connect()` returns the error of a missing
  CONNACK without setting the user data again, which stays the address of its own
  local. If a subscriber called it while another `connect()` waits for its login,
  that one goes on with the new connection and succeeds, and `onMessageCallback()`
  takes the address for the client (`MessageFindsClient`, with `connect` and
  `disconnect` in `CallbackCalls` and four requests: the session that is lost, the
  `connect()` after it, and the two that subscribers call while messages of the
  first one are dispatched).
* `src/MqttMobilusGtwClientImpl.cpp:450`: the late response to a request that
  timed out is returned by the next request of its type (`OwnResponse`).
* `src/io/SelectEventLoop.cpp:76`: a timer falling due between the walk and
  `select()` makes the timeout negative, and the loop ends
  (`NewTimersConsidered`).
* `src/io/SelectEventLoop.cpp:68`: `activeTimers` counts the timers that fired in
  the same round, so that `run()` does not end after its last timer but sleeps
  for ever.
* `src/Envelope.cpp:13`: payloads of 13 to 16 bytes pass the check of the minimal
  size, and are read beyond their end (`TooSmallIsRejected`).
* `src/MqttMobilusGtwClientImpl.cpp:139`: `disconnect()` while a reconnect is
  under way leaves `mReconnecting` set with no timer, and one while not connected
  leaves the timer. `OnlyDisconnectForgets` names it as the only step that forgets a
  reconnect, and `NextAttemptComes` is checked with an application that does not
  call it.
* `src/MqttMobilusGtwClientImpl.cpp:79`: a `connect()` of the application that
  succeeds while a reconnect is pending leaves `mReconnecting` set: later losses are
  ignored, as in `stale_watch`. `Recovers` goes by the members of the client: such a
  client has recovered, and counts as connected after such a loss, too. What comes of
  that is `LoopGoesOn`'s violation.
* `src/MqttMobilusGtwClientImpl.cpp:50`: the destructor of a client that is
  reconnecting leaves its timer, and one of a client that lost a connection the watch
  of the closed socket, both with a pointer to the client, which the loop may call.
  `DestructorLeavesStaleWatches` says that a client destroyed while connected leaves
  the latter only.
* `src/MqttMobilusGtwClientImpl.cpp:540`: after a failed configuration the handle
  has no host, and `mosquitto_reconnect()` refuses it for ever: such a client
  never connects.
* `src/MqttMobilusGtwClientImpl.cpp:555`: the port of a DSN without one, as in
  `tests/MqttDsnTest.cpp:50`, is read from an empty optional, and one beyond 16 bits
  is truncated (`src/MqttDsn.cpp:51`): `AddressedByTheText` says where these go.
* `src/MqttMobilusGtwClient.cpp:72`: a second `build()` hands out a callback that
  was moved from; calling it throws.
* `include/jungi/mobgtw/MessageBus.h:27`: a class without a message type
  (`proto::Device`, `proto::Event`) is subscribed among those of all messages,
  and every message is cast to it; dispatched, it is given twice to those.

`MessageFindsClient`, `ConnackReachesItsConnect` and `QueueFresh` are properties of
an application whose callbacks do not call `connect()`: `recovery` checks them with
subscribers that send requests, the theorems prove them for subscribers that do
anything else, `disconnect()` included. A `connect()` called from a subscriber while
another one waits replaces the connection under the outer call, which then goes on
with the inner one's, with the consequence told above. The `reentrant` run has such
subscribers, and its properties hold with them.

### Bounds

* `MaxRequests = 3`: a login and two requests, which are two nested ones, or one
  that timed out and its successor, or the logins of two more sessions. The
  hazards need a request that interferes with one other.
* `MaxDepth = 4`: wait, handler, wait, handler, the first nesting of waits.
  Deeper stacks repeat the same frames; the proofs take any depth.
* `MaxQueue = 1`: a message is queued while one taken from the queue is being
  dispatched, and handlers nested in that dispatch queue more. A longer queue has the
  run `recovery` exceed its time; the proofs take any length.
* one response type: the case that matters is a wrong response of the right
  type; wrong types exist already with the login and the events.
* `TimerCount = 2`: both timers of the client fit, and a stale id can name the
  other one's slot. The table of 64 is in the proofs, and so is
  `TimerCount = 0`, which is `NullEventLoop`.
* `MaxDelay = 4`, doubling from 1: the delay grows twice and meets its limit
  (`recovery`, which says nothing of the delay, does not let it grow).
* loop: two slots, two watches, two descriptors, two timers, two ticks: the
  tables fill up, the second timer may use the slot of the first, a timer falls
  due between any two steps and before or after another, a descriptor is closed
  and opened again during the walk, and `runFor()` ends with timers pending.
* clients on a loop: two clients, three slots for their up to four timers, two
  descriptors, a watch for each of them; the clients are interchangeable, which
  is the symmetry of the run. A table with no free watch is out of its bounds.
* bus: two subscribed classes and every message type; four subscribers, because a
  vector that grew to three has room for a fourth; two dispatches, one nested in
  the other (three nested ones were checked once: nothing else appears).
* setup: the largest port, the first that does not fit 16 bits, the first beyond
  an int (70001 with `MaxInt = 70000`: TLC's integers are no wider than an int);
  half of the combinations of a DSN's parts, those with both or neither of login
  and certificate, which are handled apart.
* envelope: lengths 0 to 20 claiming sizes 0 to 17, around the least message of
  17 bytes; fields with smallest, largest and byte-wise different values.

Elsewhere there is no symmetry: the values that could be exchanged are numbers.

### Fairness

`GtwClient!Fairness`: a handler runs on (weak fairness of its steps); each wait
ends and each callback returns, at each depth of the stack (strong fairness).
A wait is bounded because `select()` counts its timeout down over the rounds of
the wait; this holds on Linux, where `select()` updates it. It is strong
fairness because a nested call disables the outer frame's steps again and again.
The callbacks are the application's; that they return is assumed.
`FairLoopSpec` adds that a pending reconnect timer fires (strong fairness of
`FireReconnect`, which waits in between disable): the application runs the loop,
and that the loop serves its timers is `TimersServed`, checked in `loop`.
`SelectEventLoop!FairSpec`: the loop takes its steps and time passes. Nothing is
assumed of the network, of `Arrives`, or of the calls.

## 4. Mutants

Every property of a passing run has a mutant in `PROJECT.json`: an operator next
to the one it replaces, marked `mutant`, with a plausible mistake (a timer not
stopped, a pointer not reset, a slot released too late, a field at the wrong
offset). TLC finds the property violated with it.

## 5. The proofs

Checked with TLAPS, for all values of the constants that satisfy the named
assumptions of the modules.

**GtwClientProofs** (`TypeCorrect`, `OneReconnectTimer`, `OneMiscTimer`,
`ExpectedResponseIsLive`, `BackoffStartsAnew`, `DisconnectIsClean`): any number
of timers, descriptors, requests, queued messages and frames, any application.
The invariant is `IInv`. What the two timer properties say is not inductive: that
a reconnect timer is the one `mReconnectTimerId` names is preserved only because
none is pending whenever one is started, and that follows from `mReconnecting`,
except inside `reconnect()`, whose `connect()` runs with `mReconnecting` set and
no timer. Hence `Autos`: a frame of `connect()` called by `reconnect()` is the
lowest one, `mReconnecting` is set below it, and no reconnect timer is pending.
The pointer needs that frames are pushed and popped in order; `KeepShape`,
`Push` and `Pop` lemmas say what each kind of step does to the stack. Each
operator on the record has a lemma about what it keeps, each action one that
composes them.

**GtwClientConnectionProofs** (`OpenSocketIsWatched`, `KeyIsOfTheSession`,
`PingsAreScheduled`, `ScheduledReconnectSurvives`): likewise any application,
whatever it calls from where. Every step is first sorted by what it may do to the
connection: nearly all are calm (`CalmStep`: they keep it as it is, or end it), and
the few others open a socket, open a session, send a request or take a response
(`Sorted`). The invariant `ConnectionInv` is then preserved kind by kind. That the
key of an expected response is the session's needs more than what it says: the
reference goes into `mSessionInfo`, which a login overwrites, so it must be shown
that no answer to a login can come twice or go to another `connect()`. Logins are
numbered by their requests, and `Unique` says that each number is in one place
only: with a `connect()` that is going to ask, with the gateway that owes the
answer, with the `connect()` that got it, or with the client. `PingsAreScheduled`
takes a table with a slot for each of the client's two timers
(`TimerCount >= 2`): in a fuller one `startTimer()` fails, and nothing reports it.

**GtwClientNestingProofs** (`MessagesFindTheClient`, `ConnacksReachTheirConnect`,
`QueueIsOfTheSession`, `OnlyDisconnectForgetsTheReconnect`): assume
`CallbacksDoNotConnect`, that is, the application may call `disconnect()` and `sendRequest()` from its
callbacks, but not `connect()`. Without the assumption TLC refutes the first
(section 3, further deviations). With it, waits nest in one way (`NestedIn`): a `connect()`
is alone at the bottom of the stack, a handler runs in a wait, a request is sent
from a callback. So `NestingInv` can say what the rest of the state is for the
`connect()` at the bottom: while it waits for its CONNACK its context is the user
data and the connection is subscribed to nothing (`Connecting`); while it waits
for its login the client is the user data, and every message is taken for the
response, so that nothing is queued and no callback runs (`LoggingIn`). A late CONNACK
may notify any call that waits; a `connect()` is not among them as soon as its own
context is the user data, which is why `Connecting` holds. For the reconnect, every
step is shown to keep the invariant `Scheduled` or to be `Disconnect`
(`NextScheduled`), however many attempts, requests and handlers it interrupts;
`Scheduled` is `Recovers` told of the bottom of the stack (`RecoversIsScheduled`), so
that only `disconnect()` can end it. It takes a table with two slots (`RoomForTwo`). What it does not say
is that a recovered client has a live session: an attempt may succeed at line 79
without one, which is the violation of `ConnectMeansSession`.

**ClientsOnLoopProofs** (`TypeCorrect`, `OneTimerOfEachKind`,
`OpenSocketHasItsHandler`, `DestructorIsClean`): any number of clients, slots,
watches and descriptors. The invariant `Good` is one of the tables, so that it can
be said of what a function of a client leaves: each function has a lemma `Keeps`,
and they compose as the calls do. `OneTimerOfAKind` alone is not preserved: a
reconnect timer is pending only while its client says so (`Named`), since nobody
stops the one before, and `reconnect()`, which the loop calls with the slot
released, is the only one to schedule the next. For the watches it is needed that
no two clients have the same open socket (`Apart`) and that no descriptor is
watched twice (`WatchedOnce`); then, with room in the table for every descriptor
(`RoomToWatch`), a pigeonhole argument (`RoomForAnother`) shows that `watchSocket()`
finds a slot, whatever stale watches there are. `RoomToWatch` is the theorem's
hypothesis, because `watchSocket()` of a full table fails and nobody looks: the
loop has 32 watches, and a descriptor has one at most, so it holds of a process
with up to 32 descriptors in use.

**MessageBusProofs** (`TypeCorrect`, `TheCastIsSound`,
`EverySubscriberServedOnce`): any classes, subscribers and depth of nesting. The
invariant says of every walk whom it has passed (`OnlyPassed`), that nobody was
called twice, and that who is due and was not called is still ahead of it
(`NobodyMissed`): in the rest of the list of the class, or among those of all
messages. Subscribers have numbers of their own (`Numbered`) and are in the list of
their class (`Listed`); the lists only grow, so that what is said of a walk stays
true whatever is subscribed below it (`GoodWhenListsGrow`). `MadeForTheType` and
`TypesDiffer` are what the two tables of `ProtoUtils` must agree on. The cast, and
who is due, assume `ClassesAreMessages`: that nobody subscribes a class without a
message type, which `enable_if` at `include/jungi/mobgtw/MessageBus.h:24` lets
through (section 3).

**SelectEventLoopProofs** (`TypeCorrect`, `EachSocketOnce`,
`LoopImplementsTimerService`): tables of any size. The invariant `LoopInv` adds
to the types that timers in use have different numbers, none above `started`
(`Numbered`), and that a timer runs exactly while the loop is in a callback
(`InCallback`). With them, emptying a slot removes one element of the abstract
set (`EmptySlot`) and filling one adds one (`FillSlot`); every other step is
invisible (`Unseen`).

**EnvelopeProofs** (`TypeCorrect`, `NothingIsLost`, `NothingElseIsAccepted`):
all envelopes whose size is a word, all payloads. `WordToBytes` and
`BytesToWord` are the arithmetic of the network byte order, `Layout` the
offsets, and from these each field is read where it was written.

**ClientSetupProofs** (`TypeCorrect`, `SecuredAsAsked`, `ConnectedByTheText`): any
port, one beyond 16 bits or none included, any set of DSN texts, any content of an empty optional that fits its type.
That a connection is as the text asks depends on how far an earlier `connect()`
came on the handle it reuses. The invariant `IInv` therefore says that the DSN of
the client is `from` of its text (`Told`, `Built`), that a handle has a host only
if its configuration was completed (`HostComesLast`), since the call that sets
the host is the last one and `Reconnect` needs a host, and hence that a link is a
completed configuration (`Linked`).

Only model-checked: the liveness properties `CallsReturn`, `NextAttemptComes`,
`TimersServed`, `SocketsServed` and `RunForReturns` (fairness and ENABLED are out
of the prover's reach). Every invariant and every action property of a passing run
is a theorem, under the hypotheses named above where there are any. What a recursive definition
computes for every input would need induction over data, which the installed
provers cannot do; no module here has such a definition.

## 6. Not modelled

Calls of the client from the raw-message callback, which runs within a callback
of libmosquitto; the timeouts of `SelectCondition` as time; the regular
expressions of `MqttDsn` (the standard library's; a login or host with
characters of the syntax is not distinguished); `ClientId`, crypto, logging (no
state); generated code, third-party code, the build.

## 7. Plan

Done, in this order: `GtwClient` and its proofs, `SelectEventLoop` with
`TimerService`, `Envelope`; then the recovery of the client, `ClientsOnLoop`,
`MessageBus` with `ProtoUtils`, `ClientSetup`.

Then the proofs: the connection and the nesting of the client, the clients on a
loop, the bus.

Next: `SelectCondition` with time, that is nested waits, each with its own timeout,
and the descriptor it keeps.
