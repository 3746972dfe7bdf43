---------------------- MODULE GtwClientConnectionProofs ----------------------
(***************************************************************************)
(* What the client of GtwClient promises of its connection, whatever the   *)
(* application calls from its callbacks: the open socket is watched, the   *)
(* key of an expected response is that of the session, the pings go on,    *)
(* and a scheduled reconnect is not forgotten.                             *)
(***************************************************************************)
EXTENDS GtwClientProofs

Open(c) == c.mConnected /\ c.sock # NoFd
MiscPending(c) == \E t \in TimerIds : c.timers[t] = "misc"

\* The loop has a slot for each of the two timers of a client.
RoomForTwo == TimerCount >= 2

(***************************************************************************)
(* The functions of the client open no connection and no session, and drop *)
(* the timers of a connection only with the connection.                    *)
(***************************************************************************)

Calm(c, d) ==
  /\ d.mExpectedResponse \in {c.mExpectedResponse, 0}
  /\ d.mConnected => c.mConnected
  /\ d.sock \in {c.sock, NoFd}
  /\ d.mSessionInfo = c.mSessionInfo \/ (d.mSessionInfo = 0 /\ ~d.mConnected)
  /\ Open(d) => d.watches = c.watches
  /\ RoomForTwo /\ Open(d) /\ MiscPending(c) => MiscPending(d)

\* disconnect(), and an invalid session, may cancel the reconnect of a connected client.
PendingKept(c, d) == Pending(c) => Pending(d) \/ (c.mConnected /\ ~d.mConnected)

Quiet(c, d) ==
  /\ Calm(c, d)
  /\ PendingKept(c, d)
  /\ d.userData = c.userData
  /\ d.mMessageQueue = c.mMessageQueue

\* The functions compose as the calls do.
LEMMA CalmTransitive ==
  ASSUME NEW c, NEW d, NEW e, Calm(c, d), Calm(d, e)
  PROVE  /\ Calm(c, e)
         /\ PendingKept(c, d) /\ PendingKept(d, e) => PendingKept(c, e)
BY DEF Calm, Open, PendingKept

\* So do those that keep the user data and the queue as well.
LEMMA QuietTransitive ==
  ASSUME NEW c, NEW d, NEW e, Quiet(c, d), Quiet(d, e)
  PROVE  Quiet(c, e)
BY CalmTransitive DEF Quiet

\* A function that returns early changes nothing.
LEMMA QuietReflexive ==
  ASSUME NEW c
  PROVE  Quiet(c, c)
BY DEF Quiet, Calm, PendingKept

\* One kind of timer leaves a slot to the other.
LEMMA SlotLeft ==
  ASSUME NEW c \in ClientState, RoomForTwo, SlotsOK(c), ~Pending(c) \/ ~MiscPending(c)
  PROVE  FreeSlot(c) \in TimerIds
<1>1. 0 \in TimerIds /\ 1 \in TimerIds
  BY TimerAssumption DEF RoomForTwo, TimerIds
<1>2. \A t \in TimerIds : c.timers[t] \in {"free", "reconnect", "misc"}
  BY DEF ClientState
<1>3. c.timers[0] = "free" \/ c.timers[1] = "free"
  BY <1>1, <1>2 DEF SlotsOK, Pending, MiscPending
<1>4. FreeTimers(c) # {}
  BY <1>1, <1>3 DEF FreeTimers
<1>5. QED
  BY <1>4, FreeSlotIsFree

\* Starting a timer takes none from another.
LEMMA StartReconnectTakesNone ==
  ASSUME NEW c \in ClientState
  PROVE  LET d == startReconnectTimer(c)
         IN  /\ d \in ClientState /\ SameElse(c, d)
             /\ MiscPending(c) => MiscPending(d)
             /\ Pending(c) => Pending(d)
             /\ RoomForTwo /\ SlotsOK(c) /\ ~Pending(c) => Pending(d)
<1> DEFINE e == occupy(c, FreeSlot(c), "reconnect")
           d == startReconnectTimer(c)
<1>1. d \in ClientState /\ SameElse(c, d)
  BY StartReconnectTimer
<1>2. /\ e \in ClientState
      /\ e.timers = [t \in TimerIds |-> IF t = FreeSlot(c) THEN "reconnect" ELSE c.timers[t]]
  <2>1. "reconnect" \in Owners
    BY DEF Owners
  <2>2. QED
    BY <2>1, OccupyOneSlot
<1> HIDE DEF e
<1>3. [e EXCEPT !.mReconnectTimerId = FreeSlot(c)].timers = e.timers
  BY <1>2 DEF ClientState
<1>4. d.timers = [t \in TimerIds |-> IF t = FreeSlot(c) THEN "reconnect" ELSE c.timers[t]]
  BY <1>2, <1>3 DEF startReconnectTimer, e
<1> HIDE DEF d
<1>5. /\ MiscPending(c) => MiscPending(d)
      /\ Pending(c) => Pending(d)
  BY <1>4, FreeSlotIsFree DEF MiscPending, Pending
<1>6. RoomForTwo /\ SlotsOK(c) /\ ~Pending(c) => Pending(d)
  BY <1>4, SlotLeft DEF Pending
<1>7. QED
  BY <1>1, <1>5, <1>6 DEF d

\* libmosquitto closing the socket closes nothing else.
LEMMA CloseIsQuiet ==
  ASSUME NEW c \in ClientState
  PROVE  Quiet(c, mosquittoClose(c)) /\ mosquittoClose(c).sock = NoFd
BY DEF mosquittoClose, ClientState, Quiet, Calm, PendingKept, Open, MiscPending, Pending

\* connect() that gives up leaves the timers, the queue and the user data.
LEMMA AbandonIsQuiet ==
  ASSUME NEW c \in ClientState
  PROVE  Quiet(c, abandon(c)) /\ ~abandon(c).mConnected
<1> DEFINE d == abandon(c)
<1>1. /\ d.mConnected = FALSE /\ d.sock = NoFd /\ d.timers = c.timers
      /\ d.userData = c.userData /\ d.mMessageQueue = c.mMessageQueue
      /\ d.mExpectedResponse = c.mExpectedResponse /\ d.mSessionInfo = c.mSessionInfo
  BY DEF abandon, mosquittoClose, ClientState
<1> HIDE DEF d
<1>2. QED
  BY <1>1 DEF Quiet, Calm, PendingKept, Open, MiscPending, Pending, d

\* disconnect() drops the timers with the connection.
LEMMA DisconnectIsQuiet ==
  ASSUME NEW c \in ClientState, NEW inCallback \in BOOLEAN
  PROVE  LET d == disconnect(c, inCallback)
         IN  Quiet(c, d) /\ ~d.mConnected /\ d.mReconnecting = c.mReconnecting
<1> DEFINE f == stopTimer(c, c.mReconnectTimerId)
           e == stopTimer(f, c.mMiscTimerId)
           d == disconnect(c, inCallback)
<1>1. CASE c.mConnected
  <2>1. f \in ClientState /\ SameElse(c, f)
    BY StopTimer
  <2> HIDE DEF f
  <2>2. e \in ClientState /\ SameElse(f, e)
    BY <2>1, StopTimer
  <2>3. d = [e EXCEPT !.mSessionInfo = 0,
                      !.watches      = @ \ {c.sock},
                      !.sock         = IF inCallback THEN @ ELSE NoFd,
                      !.mConnected   = FALSE]
    BY <1>1 DEF disconnect, e, f
  <2> HIDE DEF e, d
  <2>4. /\ d.mConnected = FALSE /\ d.mSessionInfo = 0
        /\ d.sock \in {e.sock, NoFd}
        /\ d.mReconnecting = e.mReconnecting
        /\ d.userData = e.userData /\ d.mMessageQueue = e.mMessageQueue
        /\ d.mExpectedResponse = e.mExpectedResponse
    BY <2>2, <2>3 DEF ClientState
  <2>5. QED
    BY <1>1, <2>1, <2>2, <2>4 DEF Quiet, Calm, PendingKept, Open, SameElse, d
<1>2. CASE ~c.mConnected
  <2>1. d = [c EXCEPT !.mSessionInfo = 0]
    BY <1>2 DEF disconnect
  <2> HIDE DEF d
  <2>2. /\ d.mConnected = c.mConnected /\ d.mSessionInfo = 0
        /\ d.sock = c.sock /\ d.watches = c.watches /\ d.timers = c.timers
        /\ d.mReconnecting = c.mReconnecting
        /\ d.userData = c.userData /\ d.mMessageQueue = c.mMessageQueue
        /\ d.mExpectedResponse = c.mExpectedResponse
    BY <2>1 DEF ClientState
  <2>3. QED
    BY <1>2, <2>2 DEF Quiet, Calm, PendingKept, Open, MiscPending, Pending, d
<1>3. QED
  BY <1>1, <1>2

\* Both ways into a background reconnect: nothing happens to a client that is in one
\* already, and otherwise it ends without a connection and with a reconnect scheduled.
Reconnects(c, d) ==
  /\ d.mReconnecting
  /\ ~d.mConnected \/ c.mReconnecting
  /\ RoomForTwo /\ ~c.mReconnecting => Pending(d)
  /\ c.mReconnecting => /\ d.mConnected = c.mConnected /\ d.timers = c.timers
                        /\ d.mSessionInfo = c.mSessionInfo

\* handleInvalidSession() disconnects and schedules a reconnect, if none is under way.
LEMMA InvalidSessionIsQuiet ==
  ASSUME NEW c, NEW inCallback \in BOOLEAN, Good(c)
  PROVE  LET d == handleInvalidSession(c, inCallback)
         IN  Quiet(c, d) /\ Reconnects(c, d)
<1> DEFINE e == disconnect(c, inCallback)
           f == startReconnectTimer(e)
           d == handleInvalidSession(c, inCallback)
<1>1. CASE c.mReconnecting
  BY <1>1, QuietReflexive DEF handleInvalidSession, Reconnects
<1>2. CASE ~c.mReconnecting
  <2>1. Quiet(c, e) /\ ~e.mConnected /\ ~e.mReconnecting
    BY <1>2, DisconnectIsQuiet DEF Good
  <2>2. Good(e)
    BY DisconnectKeeps DEF Kept
  <2>3. ~Pending(e)
    BY <2>1, <2>2 DEF Good
  <2> HIDE DEF e
  <2>4. /\ f \in ClientState /\ SameElse(e, f)
        /\ RoomForTwo => Pending(f)
    BY <2>2, <2>3, StartReconnectTakesNone DEF Good
  <2>5. d = [f EXCEPT !.mReconnecting = TRUE]
    BY <1>2 DEF handleInvalidSession, e
  <2> HIDE DEF f, d
  <2>6. /\ d.mReconnecting /\ d.timers = f.timers /\ d.mConnected = f.mConnected
        /\ d.sock = f.sock /\ d.watches = f.watches /\ d.mSessionInfo = f.mSessionInfo
        /\ d.userData = f.userData /\ d.mMessageQueue = f.mMessageQueue
        /\ d.mExpectedResponse = f.mExpectedResponse
    BY <2>4, <2>5 DEF ClientState
  <2>7. Quiet(e, d)
    BY <2>1, <2>3, <2>4, <2>6 DEF Quiet, Calm, PendingKept, Open, SameElse
  <2>8. Reconnects(c, d)
    BY <1>2, <2>1, <2>4, <2>6 DEF Reconnects, SameElse, Pending
  <2>9. QED
    BY <2>1, <2>7, <2>8, QuietTransitive DEF d
<1>3. QED
  BY <1>1, <1>2

\* A lost connection is reconnected, unless a reconnect is under way.
LEMMA LoseIsQuiet ==
  ASSUME NEW c, Good(c)
  PROVE  Quiet(c, lose(c)) /\ Reconnects(c, lose(c)) /\ lose(c).sock = NoFd
<1> DEFINE b == mosquittoClose(c)
           u == [b EXCEPT !.watches = @ \ {b.sock}]
           f == startReconnectTimer(u)
           d == lose(c)
<1>1. /\ Quiet(c, b) /\ b.sock = NoFd /\ b \in ClientState /\ Good(b)
      /\ b.mReconnecting = c.mReconnecting /\ b.timers = c.timers
      /\ b.mConnected = c.mConnected /\ b.mSessionInfo = c.mSessionInfo
  <2>1. Good(b)
    BY MosquittoCloseKeeps DEF Kept
  <2>2. /\ b.mReconnecting = c.mReconnecting /\ b.timers = c.timers
        /\ b.mConnected = c.mConnected /\ b.mSessionInfo = c.mSessionInfo
    BY DEF mosquittoClose, Good, ClientState
  <2>3. QED
    BY <2>1, <2>2, CloseIsQuiet DEF Good
<1> HIDE DEF b
<1>2. CASE c.mReconnecting
  <2>1. d = b
    BY <1>1, <1>2 DEF lose, handleLostConnection, b
  <2>2. QED
    BY <1>1, <1>2, <2>1 DEF Reconnects
<1>3. CASE ~c.mReconnecting
  <2>1. /\ u \in ClientState /\ u.timers = b.timers /\ u.sock = NoFd
        /\ u.mReconnectTimerId = b.mReconnectTimerId /\ u.mMiscTimerId = b.mMiscTimerId
        /\ u.userData = b.userData /\ u.mMessageQueue = b.mMessageQueue
        /\ u.mExpectedResponse = b.mExpectedResponse
    BY <1>1 DEF ClientState
  <2>2. SlotsOK(u) /\ ~Pending(u)
    BY <1>1, <1>3, <2>1 DEF Good, SlotsOK, Pending
  <2> HIDE DEF u
  <2>3. f \in ClientState /\ SameElse(u, f) /\ (RoomForTwo => Pending(f))
    BY <2>1, <2>2, StartReconnectTakesNone
  <2>4. d = [f EXCEPT !.mConnected = FALSE, !.mReconnecting = TRUE, !.mSessionInfo = 0]
    BY <1>1, <1>3 DEF lose, handleLostConnection, dropConnection, b, u, f
  <2> HIDE DEF f, d
  <2>5. /\ d.mReconnecting /\ d.timers = f.timers /\ ~d.mConnected
        /\ d.sock = f.sock /\ d.mSessionInfo = 0
        /\ d.userData = f.userData /\ d.mMessageQueue = f.mMessageQueue
        /\ d.mExpectedResponse = f.mExpectedResponse
    BY <2>3, <2>4 DEF ClientState
  <2>6. ~Pending(c)
    BY <1>3 DEF Good
  <2>7. Quiet(c, d)
    BY <1>1, <2>1, <2>3, <2>5, <2>6 DEF Quiet, Calm, PendingKept, Open, SameElse
  <2>8. Reconnects(c, d) /\ d.sock = NoFd
    BY <1>3, <2>1, <2>3, <2>5 DEF Reconnects, SameElse, Pending
  <2>9. QED
    BY <2>7, <2>8 DEF d
<1>4. QED
  BY <1>2, <1>3

\* What reconnect() does after its connect() is no business of the connection.
SameConnection(c, d) ==
  /\ d.mConnected = c.mConnected /\ d.sock = c.sock /\ d.watches = c.watches
  /\ d.mSessionInfo = c.mSessionInfo /\ d.mExpectedResponse = c.mExpectedResponse
  /\ d.mMessageQueue = c.mMessageQueue /\ d.userData = c.userData

\* The rest of reconnect() schedules the next attempt if this one failed.
LEMMA ReconnectReturnsCalm ==
  ASSUME NEW c, NEW ok \in BOOLEAN, Good(c), c.mReconnecting, ~Pending(c)
  PROVE  LET d == reconnectReturns(c, ok)
         IN  /\ SameConnection(c, d)
             /\ MiscPending(c) => MiscPending(d)
             /\ IF ok THEN ~d.mReconnecting ELSE RoomForTwo => Pending(d)
<1> DEFINE d == reconnectReturns(c, ok)
<1>1. CASE ok
  <2>1. d = [reset(c) EXCEPT !.mReconnecting = FALSE]
    BY <1>1 DEF reconnectReturns
  <2> HIDE DEF d
  <2>2. ~d.mReconnecting /\ d.timers = c.timers /\ SameConnection(c, d)
    BY <2>1 DEF reset, Good, ClientState, SameConnection
  <2>3. QED
    BY <1>1, <2>2 DEF MiscPending, d
<1>2. CASE ~ok
  <2> DEFINE e == next(c)
  <2>1. /\ e.timers = c.timers /\ SameConnection(c, e)
        /\ e.mReconnectTimerId = c.mReconnectTimerId /\ e.mMiscTimerId = c.mMiscTimerId
    BY DEF next, Good, ClientState, SameConnection
  <2>2. e \in ClientState
    <3> DEFINE longer == c.mReconnectDelay * Factor
    <3>1. c.mReconnectDelay \in Nat \ {0}
      BY DEF Good, ClientState
    <3>2. longer \in Nat \ {0}
      BY <3>1, BackoffAssumption
    <3> HIDE DEF longer
    <3>3. (IF longer < MaxDelay THEN longer ELSE MaxDelay) \in Nat \ {0}
      BY <3>2, BackoffAssumption
    <3>4. e = [c EXCEPT !.mReconnectDelay = IF longer < MaxDelay THEN longer ELSE MaxDelay]
      BY DEF next, longer
    <3>5. QED
      BY <3>3, <3>4 DEF Good, ClientState
  <2>3. d = startReconnectTimer(e)
    BY <1>2 DEF reconnectReturns
  <2> HIDE DEF e, d
  <2>4. SlotsOK(e) /\ ~Pending(e)
    BY <2>1 DEF Good, SlotsOK, Pending
  <2>5. /\ SameElse(e, d)
        /\ MiscPending(e) => MiscPending(d)
        /\ RoomForTwo => Pending(d)
    BY <2>2, <2>3, <2>4, StartReconnectTakesNone
  <2>6. QED
    BY <1>2, <2>1, <2>5 DEF SameElse, SameConnection, MiscPending, d
<1>3. QED
  BY <1>1, <1>2

\* A function that leaves the connection and the pings alone is calm.
LEMMA SameConnectionIsCalm ==
  ASSUME NEW c, NEW d, SameConnection(c, d), MiscPending(c) => MiscPending(d)
  PROVE  Calm(c, d)
BY DEF SameConnection, Calm

\* scheduleMisc() may take the slot of a reconnect timer only by an id that outlived
\* its timer.
LEMMA ScheduleMiscTimers ==
  ASSUME NEW c \in ClientState, SlotsOK(c)
  PROVE  LET d == scheduleMisc(c)
         IN  /\ d \in ClientState /\ SameElse(c, d)
             /\ RoomForTwo => MiscPending(d)
             /\ Pending(c) /\ (\A t \in TimerIds : t = c.mMiscTimerId => c.timers[t] # "reconnect")
                  => Pending(d)
<1> DEFINE e == stopTimer(c, c.mMiscTimerId)
           f == occupy(e, FreeSlot(e), "misc")
           d == scheduleMisc(c)
<1>1. d \in ClientState /\ SameElse(c, d)
  BY ScheduleMisc
<1>2. /\ e \in ClientState /\ SlotsOK(e) /\ e.mMiscTimerId = c.mMiscTimerId
      /\ \A t \in TimerIds : e.timers[t] = IF t = c.mMiscTimerId THEN "free" ELSE c.timers[t]
  BY StopTimer
<1> HIDE DEF e
<1>3. /\ f \in ClientState
      /\ f.timers = [t \in TimerIds |-> IF t = FreeSlot(e) THEN "misc" ELSE e.timers[t]]
  <2>1. "misc" \in Owners
    BY DEF Owners
  <2>2. QED
    BY <1>2, <2>1, OccupyOneSlot
<1> HIDE DEF f
<1>4. [f EXCEPT !.mMiscTimerId = FreeSlot(e)].timers = f.timers
  BY <1>3 DEF ClientState
<1>5. d.timers = [t \in TimerIds |-> IF t = FreeSlot(e) THEN "misc" ELSE e.timers[t]]
  BY <1>3, <1>4 DEF scheduleMisc, startMiscTimer, e, f
<1> HIDE DEF d
<1>6. ~MiscPending(e)
  BY <1>2 DEF SlotsOK, MiscPending
<1>7. RoomForTwo => MiscPending(d)
  BY <1>2, <1>5, <1>6, SlotLeft DEF MiscPending
<1>8. Pending(c) /\ (\A t \in TimerIds : t = c.mMiscTimerId => c.timers[t] # "reconnect")
        => Pending(d)
  <2> SUFFICES ASSUME NEW t \in TimerIds, c.timers[t] = "reconnect", t # c.mMiscTimerId
               PROVE  Pending(d)
    BY DEF Pending
  <2>1. e.timers[t] = "reconnect"
    BY <1>2
  <2>2. t # FreeSlot(e)
    BY <2>1, FreeSlotIsFree
  <2>3. QED
    BY <1>5, <2>1, <2>2 DEF Pending
<1>9. QED
  BY <1>1, <1>7, <1>8 DEF d

\* Queueing and dispatching a message, and the user data of the connection, leave the
\* connection and the timers alone.
LEMMA UserDataIsCalm ==
  ASSUME NEW c \in ClientState
  PROVE  /\ Calm(c, useSelf(c)) /\ PendingKept(c, useSelf(c))
         /\ Calm(c, forgetContext(c)) /\ PendingKept(c, forgetContext(c))
         /\ useSelf(c).mMessageQueue = c.mMessageQueue
         /\ useSelf(c).userData = "self"
         /\ useSelf(c).sock = c.sock /\ useSelf(c).mConnected = c.mConnected
         /\ useSelf(c).mSessionInfo = c.mSessionInfo
         /\ forgetContext(c).mMessageQueue = c.mMessageQueue
         /\ forgetContext(c).mSessionInfo = c.mSessionInfo
BY DEF useSelf, forgetContext, ClientState, Calm, PendingKept, Open, MiscPending, Pending

\* Taking a message off the queue changes the queue only.
LEMMA PoppedIsCalm ==
  ASSUME client \in ClientState
  PROVE  /\ Calm(client, Popped) /\ PendingKept(client, Popped)
         /\ Popped.mMessageQueue = Tail(client.mMessageQueue)
         /\ Popped.userData = client.userData
         /\ Popped.mSessionInfo = client.mSessionInfo
         /\ Popped.mReconnecting = client.mReconnecting
         /\ Popped.mConnected = client.mConnected
         /\ Popped.sock = client.sock
         /\ Popped.timers = client.timers
BY DEF Popped, ClientState, Calm, PendingKept, Open, MiscPending, Pending

\* A message that nobody expects is queued, or starts a reconnect.
Queues(c, d, m) ==
  /\ c.mSessionInfo # 0 /\ m.key = c.mSessionInfo
  /\ d.mMessageQueue = Append(c.mMessageQueue, QueuedFor(m))
  /\ d.mSessionInfo = c.mSessionInfo /\ d.userData = c.userData
  /\ d.mReconnecting = c.mReconnecting /\ d.mConnected = c.mConnected
  /\ d.sock = c.sock
  /\ d.timers = c.timers

\* onGeneralMessage() takes one of three ways, none of which opens anything.
LEMMA GeneralMessage ==
  ASSUME NEW c, NEW m, Good(c)
  PROVE  LET d == onGeneralMessage(c, m)
         IN  /\ Calm(c, d) /\ PendingKept(c, d)
             /\ \/ Queues(c, d, m)
                \/ d = c
                \/ d = handleInvalidSession(c, TRUE)
             /\ d.userData = c.userData
<1> DEFINE d == onGeneralMessage(c, m)
           q == [c EXCEPT !.mMessageQueue = Append(@, QueuedFor(m))]
<1>1. CASE d = q /\ c.mSessionInfo # 0 /\ m.key = c.mSessionInfo
  <2>1. /\ q.mMessageQueue = Append(c.mMessageQueue, QueuedFor(m))
        /\ q.timers = c.timers
        /\ q.mSessionInfo = c.mSessionInfo /\ q.userData = c.userData
        /\ q.mConnected = c.mConnected /\ q.sock = c.sock /\ q.watches = c.watches
        /\ q.mExpectedResponse = c.mExpectedResponse
        /\ q.mReconnecting = c.mReconnecting
    BY DEF Good, ClientState
  <2> HIDE DEF q
  <2>2. QED
    BY <1>1, <2>1 DEF Queues, Calm, PendingKept, Open, MiscPending, Pending
<1>2. CASE d = c
  BY <1>2, QuietReflexive DEF Quiet
<1>3. CASE d = handleInvalidSession(c, TRUE)
  BY <1>3, InvalidSessionIsQuiet DEF Quiet
<1>4. QED
  BY <1>1, <1>2, <1>3 DEF onGeneralMessage

(***************************************************************************)
(* The steps of the client, sorted by what they do to its connection: most *)
(* of them are calm, and the others open a connection, log in, log in with *)
(* success, send a request, or take a response.                            *)
(***************************************************************************)

SameFrame(f, g) ==
  /\ SameRequest(f, g)
  /\ g.auto = f.auto
  /\ f.at \in Waits \/ g.at \in Waits => g.at = f.at

\* No frame starts to wait, and the frames that wait, wait for the same.
FramesKept(s) ==
  \A i \in DOMAIN s : IF i \in DOMAIN stack THEN SameFrame(stack[i], s[i]) ELSE s[i].at \notin Waits

\* The calls that do not touch the stack.
LEMMA SameFrames == FramesKept(stack)
BY DEF FramesKept, SameFrame, SameRequest

\* Returning.
LEMMA RestFrames ==
  ASSUME TypeOK, ~Idle
  PROVE  FramesKept(Rest)
<1>1. DOMAIN Rest \subseteq DOMAIN stack /\ \A i \in DOMAIN Rest : Rest[i] = stack[i]
  BY RestOK
<1> HIDE DEF Rest
<1>2. QED
  BY <1>1 DEF FramesKept, SameFrame, SameRequest

\* The loop or a wait calling handleSocketEvents().
LEMMA PushedFrames ==
  ASSUME TypeOK, NEW f \in Frame, f.at \notin Waits
  PROVE  FramesKept(Append(stack, f))
<1> DEFINE s == Append(stack, f)
<1>1. /\ DOMAIN s = DOMAIN stack \cup {Len(stack) + 1}
      /\ \A i \in DOMAIN stack : s[i] = stack[i]
      /\ s[Len(stack) + 1] = f
  BY Pushed
<1> HIDE DEF s
<1>2. FramesKept(s)
  BY <1>1 DEF FramesKept, SameFrame, SameRequest
<1>3. QED
  BY <1>2 DEF s

\* handleSocketEvents() going from one of its places to another.
LEMMA MovedFrames ==
  ASSUME TypeOK, At(Handlers), NEW at \in Handlers, ReplaceTop([Top EXCEPT !.at = at])
  PROVE  FramesKept(stack')
<1> DEFINE f == [Top EXCEPT !.at = at]
<1>1. ~Idle /\ Top.at \in Handlers
  BY DEF At
<1>2. Len(stack) \in DOMAIN stack /\ Top \in Frame
  BY <1>1, RestOK
<1>3. f \in Frame /\ f.at = at /\ SameRequest(Top, f) /\ f.auto = Top.auto
  BY <1>2 DEF Frame, SameRequest
<1>4. stack' = [stack EXCEPT ![Len(stack)] = f]
  BY DEF ReplaceTop
<1> HIDE DEF f
<1>5. /\ DOMAIN stack' = DOMAIN stack
      /\ \A j \in DOMAIN stack : stack'[j] = IF j = Len(stack) THEN f ELSE stack[j]
  BY <1>2, <1>3, <1>4, Replaced
<1>6. Top.at \notin Waits /\ f.at \notin Waits
  BY <1>1, <1>3 DEF Handlers, Callbacks, Waits, WaitsForResponse
<1>7. SameFrame(Top, f)
  BY <1>3, <1>6 DEF SameFrame
<1>8. \A j \in DOMAIN stack : SameFrame(stack[j], stack[j])
  BY DEF SameFrame, SameRequest
<1>9. QED
  BY <1>5, <1>7, <1>8 DEF FramesKept, Top

\* onConnectCallback(), also when the read that called it fails.
LEMMA CallbackFrames ==
  ASSUME TypeOK, ~Idle, NEW error \in {"none", "refused"}, NEW s \in onConnectCallback(error)
  PROVE  FramesKept(s) /\ FramesKept(SubSeq(s, 1, Len(stack) - 1))
<1> DEFINE r == SubSeq(s, 1, Len(stack) - 1)
<1>1. /\ s \in Seq(Frame) /\ Len(s) = Len(stack) /\ DOMAIN s = DOMAIN stack
      /\ \A i \in DOMAIN stack :
           s[i].at = stack[i].at /\ s[i].auto = stack[i].auto /\ SameRequest(stack[i], s[i])
  BY OnConnectCallback
<1>2. FramesKept(s)
  BY <1>1 DEF FramesKept, SameFrame
<1>3. Len(stack) \in Nat \ {0} /\ DOMAIN stack = 1 .. Len(stack)
  BY RestOK DEF TypeOK
<1>4. /\ Len(r) = Len(stack) - 1 /\ r \in Seq(Frame)
      /\ \A i \in 1 .. Len(stack) - 1 : r[i] = s[i]
  BY <1>1, <1>3, SubSeqProperties
<1> HIDE DEF r
<1>5. DOMAIN r \subseteq DOMAIN s /\ \A i \in DOMAIN r : r[i] = s[i]
  BY <1>1, <1>3, <1>4
<1>6. FramesKept(r)
  BY <1>1, <1>2, <1>5 DEF FramesKept
<1>7. QED
  BY <1>2, <1>6 DEF r

NoNewLogin == \A r \in owed' : r.type = "login" => r \in owed

\* A reconnect is given up by firing, or with the connection.
ReconnectKept ==
  Pending(client) /\ ~Pending(client') =>
    \/ client.mConnected /\ ~client'.mConnected
    \/ Idle /\ result'.call = "reconnect"
    \/ \E i \in DOMAIN stack' : stack'[i].auto

CalmStep ==
  /\ Calm(client, client')
  /\ topics' = topics
  /\ nextReq' = nextReq
  /\ NoNewLogin
  /\ FramesKept(stack')

Opens ==
  /\ client'.sock \in client'.watches
  /\ client'.mExpectedResponse = client.mExpectedResponse
  /\ client'.mSessionInfo = client.mSessionInfo
  /\ topics' = {}
  /\ owed' = owed
  /\ nextReq' = nextReq + 1
  /\ \E f \in Frame : f.at = "connack" /\ f.req = nextReq /\ stack' = Append(stack, f)

\* A step that sets mExpectedResponse to i.
Expects(i) ==
  /\ client'.mExpectedResponse = i
  /\ client'.mConnected = client.mConnected
  /\ client'.sock = client.sock
  /\ client'.watches = client.watches
  /\ client'.mSessionInfo = client.mSessionInfo
  /\ client'.timers = client.timers

LogsIn ==
  /\ At({"connack"})
  /\ Expects(Len(stack))
  /\ topics' = topics \cup {"client"}
  /\ nextReq' = nextReq
  /\ owed' = owed \cup {[req |-> Top.req, type |-> "login", key |-> 0]}
  /\ \E f \in Frame : f.at = "login" /\ f.type = "login" /\ f.got = 0 /\ ReplaceTop(f)

Requests ==
  /\ Expects(Len(stack) + 1)
  /\ topics' = topics
  /\ nextReq' = nextReq + 1
  /\ NoNewLogin
  /\ \E f \in Frame : /\ f.at = "response" /\ f.key = client.mSessionInfo
                      /\ stack' = Append(stack, f)

TakesResponse ==
  /\ client' = client
  /\ topics' = topics
  /\ nextReq' = nextReq
  /\ owed' \subseteq owed
  /\ DOMAIN stack' = DOMAIN stack
  /\ \A i \in DOMAIN stack :
       /\ stack'[i].at = stack[i].at /\ stack'[i].type = stack[i].type
       /\ stack'[i].req = stack[i].req /\ stack'[i].key = stack[i].key
       /\ stack'[i].at = "login" /\ stack'[i].got \notin {0, stack[i].got} =>
            /\ i = client.mExpectedResponse
            /\ \E r \in owed \ owed' : r.type = "login" /\ r.req = stack'[i].got

Sorted ==
  \/ LoginSucceeds
  \/ ReconnectKept /\ (CalmStep \/ Opens \/ LogsIn \/ Requests \/ TakesResponse)

\* A wait for a login waits for the type of a login, and no login has a session's key.
LoginTyped ==
  /\ \A i \in DOMAIN stack : stack[i].at = "login" => stack[i].type = "login"
  /\ \A r \in owed : r.type = "login" => r.key = 0

\* The wait is over and the pointer to it reset: nothing of the connection changed.
LEMMA AnsweredIsCalm ==
  ASSUME NEW c \in ClientState
  PROVE  LET d == answered(c)
         IN  /\ Calm(c, d) /\ PendingKept(c, d)
             /\ d.mExpectedResponse = 0
             /\ d.mConnected = c.mConnected /\ d.sock = c.sock /\ d.watches = c.watches
             /\ d.mSessionInfo = c.mSessionInfo /\ d.timers = c.timers
             /\ d.mMessageQueue = c.mMessageQueue /\ d.userData = c.userData
             /\ d.mReconnecting = c.mReconnecting
             /\ d.mMiscTimerId = c.mMiscTimerId /\ d.mReconnectTimerId = c.mReconnectTimerId
BY DEF answered, ClientState, Calm, PendingKept, Open, MiscPending, Pending

\* A connect() that returns to reconnect() finds no reconnect scheduled.
LEMMA AutoReturns ==
  ASSUME IInv, ~Idle, Top.auto, NEW c, Kept(Leaving, c)
  PROVE  Good(c) /\ c.mReconnecting /\ ~Pending(c) /\ ~Pending(client)
<1>1. Len(stack) \in DOMAIN stack
  BY RestOK DEF IInv
<1>2. client.mReconnecting /\ ~Pending(client)
  BY <1>1 DEF IInv, ClientInv, Autos, Top
<1>3. Leaving.mReconnecting /\ ~Pending(Leaving)
  BY <1>2, AnsweredIsGood DEF Leaving, IInv, ClientInv
<1>4. QED
  BY <1>2, <1>3 DEF Kept

\* What follows connect() in reconnect() adds nothing to what connect() does.
LEMMA ReturnsCalm ==
  ASSUME IInv, ~Idle, NEW c, Kept(Leaving, c), Calm(client, c), PendingKept(client, c),
         NEW ok \in BOOLEAN, ConnectReturns(c, Top.auto, ok)
  PROVE  Calm(client, client') /\ PendingKept(client, client')
<1>1. CASE ~Top.auto
  BY <1>1 DEF ConnectReturns
<1>2. CASE Top.auto
  <2>1. Good(c) /\ c.mReconnecting /\ ~Pending(c) /\ ~Pending(client)
    BY <1>2, AutoReturns
  <2>2. client' = reconnectReturns(c, ok)
    BY <1>2 DEF ConnectReturns
  <2>3. Calm(c, client')
    BY <2>1, <2>2, ReconnectReturnsCalm, SameConnectionIsCalm
  <2>4. QED
    BY <2>1, <2>3, CalmTransitive DEF PendingKept
<1>3. QED
  BY <1>1, <1>2

\* A step that changes the client calmly and none but the innermost frame.
LEMMA CalmSorted ==
  ASSUME Calm(client, client'), PendingKept(client, client'), FramesKept(stack'),
         topics' = topics, nextReq' = nextReq, NoNewLogin
  PROVE  Sorted
BY DEF Sorted, CalmStep, ReconnectKept, PendingKept

\* A client that nothing happens to.
LEMMA StayIsCalm ==
  Calm(client, client) /\ PendingKept(client, client)
BY QuietReflexive DEF Quiet

\* ConnackMissing, LoginFails and the first branch of ConnackArrived.
LEMMA ConnectFailsSorted ==
  ASSUME IInv, ~Idle, stack' = Rest, NEW c, Kept(Leaving, c), Calm(client, c),
         PendingKept(client, c), ConnectReturns(c, Top.auto, FALSE),
         UNCHANGED <<topics, nextReq, owed>>
  PROVE  Sorted
<1>1. Calm(client, client') /\ PendingKept(client, client')
  BY ReturnsCalm
<1>2. FramesKept(stack')
  BY RestFrames DEF IInv
<1>3. QED
  BY <1>1, <1>2, CalmSorted DEF NoNewLogin

\* connect() gives up waiting for the CONNACK.
LEMMA ConnackMissingSorted ==
  ASSUME IInv, ConnackMissing
  PROVE  Sorted
<1>1. ~Idle /\ Top.at = "connack"
  BY DEF ConnackMissing, At
<1>2. Leaving = client
  BY <1>1 DEF Leaving, WaitsForResponse
<1>3. Kept(Leaving, forgetContext(client))
  BY <1>2, UserDataKeeps DEF IInv, ClientInv
<1>4. Calm(client, forgetContext(client)) /\ PendingKept(client, forgetContext(client))
  BY UserDataIsCalm DEF IInv, TypeOK
<1>5. QED
  BY <1>1, <1>3, <1>4, ConnectFailsSorted DEF ConnackMissing

\* connect() sends the login request, or gives up.
LEMMA ConnackArrivedSorted ==
  ASSUME IInv, ConnackArrived
  PROVE  Sorted
<1>1. ~Idle /\ Top.at = "connack"
  BY DEF ConnackArrived, At
<1>2. Leaving = client
  BY <1>1 DEF Leaving, WaitsForResponse
<1> DEFINE c == useSelf(client)
<1>3. Kept(client, c) /\ c \in ClientState
  BY UserDataKeeps DEF IInv, ClientInv, Kept, Good
<1>4. CASE stack' = Rest /\ ConnectReturns(abandon(c), Top.auto, FALSE)
           /\ UNCHANGED <<topics, owed>>
  <2>1. Kept(Leaving, abandon(c))
    BY <1>2, <1>3, AbandonKeeps, KeptTransitive DEF Kept
  <2>2. Calm(client, c) /\ PendingKept(client, c)
    BY UserDataIsCalm DEF IInv, TypeOK
  <2> HIDE DEF c
  <2>3. Calm(client, abandon(c)) /\ PendingKept(client, abandon(c))
    BY <1>3, <2>2, AbandonIsQuiet, CalmTransitive DEF Quiet
  <2>4. QED
    BY <1>1, <1>4, <2>1, <2>3, ConnectFailsSorted DEF ConnackArrived
<1>5. CASE /\ topics' = topics \cup {"client"}
           /\ owed' = owed \cup {[req |-> Top.req, type |-> "login", key |-> 0]}
           /\ client' = expect(c, Len(stack))
           /\ ReplaceTop([NewFrame("login", c.sock) EXCEPT !.auto = Top.auto,
                                                           !.type = "login",
                                                           !.req  = Top.req])
  <2> DEFINE f == [NewFrame("login", c.sock) EXCEPT !.auto = Top.auto,
                                                    !.type = "login",
                                                    !.req  = Top.req]
  <2>1. Expects(Len(stack)) /\ PendingKept(client, client')
    <3>1. /\ c.mConnected = client.mConnected /\ c.sock = client.sock
          /\ c.watches = client.watches /\ c.mSessionInfo = client.mSessionInfo
          /\ c.timers = client.timers
      BY DEF useSelf, IInv, TypeOK, ClientState
    <3> HIDE DEF c
    <3>2. /\ client'.mExpectedResponse = Len(stack)
          /\ client'.mConnected = c.mConnected /\ client'.sock = c.sock
          /\ client'.watches = c.watches /\ client'.mSessionInfo = c.mSessionInfo
          /\ client'.timers = c.timers
      BY <1>3, <1>5 DEF expect, ClientState
    <3>3. QED
      BY <3>1, <3>2 DEF Expects, PendingKept, Pending
  <2>2. f \in Frame /\ f.at = "login" /\ f.type = "login" /\ f.got = 0
    <3>1. c.sock \in Fds \cup {NoFd}
      BY <1>3 DEF ClientState
    <3>2. /\ NewFrame("login", c.sock) \in Frame
          /\ NewFrame("login", c.sock).at = "login" /\ NewFrame("login", c.sock).got = 0
      BY <3>1, NewFrameOK DEF Waits, WaitsForResponse, NewFrame
    <3>3. Top.auto \in BOOLEAN /\ Top.req \in Sessions /\ "login" \in MessageTypes
      BY <1>1, RestOK DEF IInv, Frame, MessageTypes
    <3>4. QED
      BY <3>2, <3>3 DEF Frame
  <2>3. ReplaceTop(f)
    BY <1>5
  <2> HIDE DEF f, c
  <2>4. LogsIn
    BY <1>5, <2>1, <2>2, <2>3 DEF LogsIn, ConnackArrived
  <2>5. QED
    BY <2>1, <2>4 DEF Sorted, ReconnectKept, PendingKept
<1>6. QED
  BY <1>4, <1>5 DEF ConnackArrived

\* connect() gives up after a login without a session.
LEMMA LoginFailsSorted ==
  ASSUME IInv, LoginFails
  PROVE  Sorted
<1>1. ~Idle /\ Top.at = "login"
  BY DEF LoginFails, At
<1> DEFINE a == answered(client)
           c == IF Top.error = "invalidSession" THEN handleInvalidSession(a, FALSE) ELSE a
<1>2. Leaving = a /\ Good(a) /\ Kept(a, a)
  BY <1>1, AnsweredIsGood DEF Leaving, WaitsForResponse, IInv, ClientInv, Kept
<1>3. Calm(client, a) /\ PendingKept(client, a)
  BY AnsweredIsCalm DEF IInv, TypeOK
<1>4. stack' = Rest /\ ConnectReturns(abandon(c), Top.auto, FALSE)
  BY DEF LoginFails
<1> HIDE DEF a
<1>5. Kept(a, c) /\ Calm(client, c) /\ PendingKept(client, c)
  <2>1. /\ Kept(a, handleInvalidSession(a, FALSE))
        /\ Calm(a, handleInvalidSession(a, FALSE))
        /\ PendingKept(a, handleInvalidSession(a, FALSE))
    BY <1>2, HandleInvalidSessionKeeps, InvalidSessionIsQuiet DEF Quiet
  <2>2. QED
    BY <1>2, <1>3, <2>1, CalmTransitive
<1> HIDE DEF c
<1>6. /\ Kept(Leaving, abandon(c))
      /\ Calm(client, abandon(c)) /\ PendingKept(client, abandon(c))
  <2>1. Kept(c, abandon(c)) /\ Calm(c, abandon(c)) /\ PendingKept(c, abandon(c))
    BY <1>5, AbandonKeeps, AbandonIsQuiet DEF Kept, Good, Quiet
  <2>2. QED
    BY <1>2, <1>5, <2>1, CalmTransitive, KeptTransitive
<1>7. QED
  BY <1>1, <1>4, <1>6, ConnectFailsSorted DEF LoginFails

\* sendRequest() returns, and may find the session invalid.
LEMMA RequestEndsSorted ==
  ASSUME IInv, RequestEnds
  PROVE  Sorted
<1> DEFINE a == answered(client)
<1>1. ~Idle
  BY DEF RequestEnds, At
<1>2. Good(a) /\ Calm(client, a) /\ PendingKept(client, a)
  BY AnsweredIsGood, AnsweredIsCalm DEF IInv, ClientInv, TypeOK
<1>3. client' = handleInvalidSession(a, FALSE) \/ client' = a
  BY DEF RequestEnds
<1> HIDE DEF a
<1>4. Calm(client, client') /\ PendingKept(client, client')
  BY <1>2, <1>3, InvalidSessionIsQuiet, CalmTransitive DEF Quiet
<1>5. FramesKept(stack')
  BY <1>1, RestFrames DEF RequestEnds, IInv
<1>6. QED
  BY <1>4, <1>5, CalmSorted DEF RequestEnds, NoNewLogin

\* connect() that opens a socket, called by the application or by reconnect().
LEMMA OpensSorted ==
  ASSUME IInv, NEW c, Good(c), NEW fd \in Fds, NEW auto \in BOOLEAN, MayRequest,
         c.mExpectedResponse = client.mExpectedResponse,
         c.mSessionInfo = client.mSessionInfo,
         client' = open(c, fd),
         stack' = Append(stack, [NewFrame("connack", fd) EXCEPT !.auto = auto,
                                                                !.req  = nextReq]),
         topics' = {}, nextReq' = nextReq + 1, owed' = owed
  PROVE  Opens /\ \E i \in DOMAIN stack' : stack'[i].auto = auto
<1>1. /\ client'.sock = fd /\ client'.watches = c.watches \cup {fd}
      /\ client'.mExpectedResponse = c.mExpectedResponse
      /\ client'.mSessionInfo = c.mSessionInfo
  BY DEF open, Good, ClientState
<1> DEFINE f == [NewFrame("connack", fd) EXCEPT !.auto = auto, !.req = nextReq]
<1>2. f \in Frame /\ f.auto = auto /\ f.at = "connack"
  BY ConnackFrame DEF IInv
<1>3. f.req = nextReq
  BY DEF NewFrame
<1>4. stack' = Append(stack, f)
  OBVIOUS
<1> HIDE DEF f
<1>5. Opens
  BY <1>1, <1>2, <1>3, <1>4 DEF Opens
<1>6. Len(stack) + 1 \in DOMAIN stack' /\ stack'[Len(stack) + 1].auto = auto
  BY <1>2, <1>4, Pushed DEF IInv
<1>7. QED
  BY <1>5, <1>6

\* connect() is called by the application.
LEMMA ConnectSorted ==
  ASSUME IInv, Connect
  PROVE  Sorted
<1>1. CASE client' = client /\ stack' = stack /\ UNCHANGED <<topics, nextReq>>
  BY <1>1, StayIsCalm, SameFrames, CalmSorted DEF Connect, NoNewLogin
<1>2. CASE client' = mosquittoClose(client) /\ stack' = stack /\ UNCHANGED <<topics, nextReq>>
  <2>1. Calm(client, client') /\ PendingKept(client, client')
    BY <1>2, CloseIsQuiet DEF IInv, TypeOK, Quiet
  <2>2. QED
    BY <1>2, <2>1, SameFrames, CalmSorted DEF Connect, NoNewLogin
<1>3. ASSUME MayRequest, NEW fd \in Fds, client' = open(client, fd),
             stack' = Append(stack, [NewFrame("connack", fd) EXCEPT !.auto = FALSE,
                                                                    !.req  = nextReq]),
             topics' = {}, nextReq' = nextReq + 1
      PROVE  Sorted
  <2>1. Opens
    BY <1>3, OpensSorted DEF Connect, IInv, ClientInv
  <2>2. Pending(client) => Pending(client')
    BY <1>3 DEF open, IInv, TypeOK, ClientState, Pending
  <2>3. QED
    BY <2>1, <2>2 DEF Sorted, ReconnectKept
<1>4. QED
  BY <1>1, <1>2, <1>3 DEF Connect, connect, ConnectReturns

\* The reconnect timer fires: reconnect() calls connect().
LEMMA FireReconnectSorted ==
  ASSUME IInv, FireReconnect
  PROVE  Sorted
<1>1. PICK t \in TimerIds :
        /\ client.timers[t] = "reconnect"
        /\ IF client.mReconnecting THEN connect(stopTimer(client, t), TRUE)
           ELSE /\ client' = stopTimer(client, t)
                /\ result' = Nothing
                /\ UNCHANGED <<accepted, topics, nextReq, stack>>
  BY DEF FireReconnect
<1> DEFINE c == stopTimer(client, t)
<1>2. Good(c)
  BY StopKeeps DEF IInv, ClientInv, Kept
<1>3. ~Pending(c)
  BY <1>1, StopTimer DEF IInv, ClientInv, Good, SlotsOK, Pending
<1>4. client.mReconnecting
  BY <1>1 DEF IInv, ClientInv, Good, Pending
<1>5. SameElse(client, c) /\ (MiscPending(client) => MiscPending(c))
  BY <1>1, StopTimer DEF IInv, TypeOK, MiscPending
<1> HIDE DEF c
<1>6. connect(c, TRUE) /\ Idle /\ UNCHANGED <<owed, gwSession, told>>
  BY <1>1, <1>4 DEF FireReconnect, c
<1>7. Calm(client, c)
  BY <1>5, SameConnectionIsCalm DEF SameElse, SameConnection
<1>8. ASSUME NEW d, Good(d), d.mReconnecting, ~Pending(d), Calm(client, d),
             NEW ok \in BOOLEAN, ConnectReturns(d, TRUE, ok),
             stack' = stack, UNCHANGED <<topics, nextReq>>
      PROVE  Sorted
  <2>1. client' = reconnectReturns(d, ok) /\ result' = Returned("reconnect", ok)
    BY <1>8 DEF ConnectReturns
  <2>2. Calm(d, client')
    BY <1>8, <2>1, ReconnectReturnsCalm, SameConnectionIsCalm
  <2>3. CalmStep
    BY <1>6, <1>8, <2>2, CalmTransitive, SameFrames DEF CalmStep, NoNewLogin
  <2>4. ReconnectKept
    BY <1>6, <2>1 DEF ReconnectKept, Returned
  <2>5. QED
    BY <2>3, <2>4 DEF Sorted
<1>9. CASE ConnectReturns(c, TRUE, TRUE) /\ stack' = stack /\ UNCHANGED <<topics, nextReq>>
  BY <1>2, <1>3, <1>4, <1>5, <1>7, <1>8, <1>9 DEF SameElse
<1>10. CASE ConnectReturns(mosquittoClose(c), TRUE, FALSE) /\ stack' = stack
            /\ UNCHANGED <<topics, nextReq>>
  <2> DEFINE d == mosquittoClose(c)
  <2>1. Good(d) /\ Calm(c, d)
    BY <1>2, MosquittoCloseKeeps, CloseIsQuiet DEF Kept, Good, Quiet
  <2>2. d.mReconnecting = c.mReconnecting /\ d.timers = c.timers
    BY <1>2 DEF mosquittoClose, Good, ClientState
  <2> HIDE DEF d
  <2>3. Calm(client, d) /\ d.mReconnecting /\ ~Pending(d)
    BY <1>3, <1>4, <1>5, <1>7, <2>1, <2>2, CalmTransitive DEF Pending, SameElse
  <2>4. QED
    BY <1>8, <1>10, <2>1, <2>3 DEF d
<1>11. ASSUME MayRequest, NEW fd \in Fds, client' = open(c, fd),
              stack' = Append(stack, [NewFrame("connack", fd) EXCEPT !.auto = TRUE,
                                                                     !.req  = nextReq]),
              topics' = {}, nextReq' = nextReq + 1
       PROVE  Sorted
  <2>1. Opens /\ \E i \in DOMAIN stack' : stack'[i].auto
    BY <1>2, <1>5, <1>6, <1>11, OpensSorted DEF SameElse
  <2>2. QED
    BY <2>1 DEF Sorted, ReconnectKept
<1>12. QED
  BY <1>6, <1>9, <1>10, <1>11 DEF connect

\* disconnect() closes what there is.
LEMMA DisconnectSorted ==
  ASSUME IInv, Disconnect
  PROVE  Sorted
<1>1. Calm(client, client') /\ PendingKept(client, client')
  BY DisconnectIsQuiet DEF Disconnect, IInv, TypeOK, Quiet
<1>2. QED
  BY <1>1, SameFrames, CalmSorted DEF Disconnect, NoNewLogin

\* What the application sends is no login.
LEMMA TypesAreNoLogin == "login" \notin Types /\ KeepAlive # "login"
BY TypesAssumption

\* send() owes a request of the open session.
LEMMA SendSorted ==
  ASSUME IInv, Send
  PROVE  Sorted
<1>1. NoNewLogin
  <2>1. CASE owed' = owed
    BY <2>1 DEF NoNewLogin
  <2>2. CASE \E t \in Types : owed' = owed \cup {Unawaited(t)}
    BY <2>2, TypesAreNoLogin DEF NoNewLogin, Unawaited
  <2>3. QED
    BY <2>1, <2>2 DEF Send
<1>2. QED
  BY <1>1, StayIsCalm, SameFrames, CalmSorted DEF Send

\* sendRequest() fails before it sends anything, or sends a request and waits.
LEMMA SendRequestRequests ==
  ASSUME IInv, SendRequest
  PROVE  UNCHANGED <<client, owed, nextReq, stack>> \/ Requests
<1>1. CASE CanSend /\ MayRequest /\ ~UNCHANGED <<client, owed, nextReq, stack>>
  <2>1. PICK t \in Types :
          /\ owed' = owed \cup {[req |-> nextReq, type |-> t, key |-> client.mSessionInfo]}
          /\ stack' = Append(stack, [NewFrame("response", client.sock) EXCEPT
                                       !.type = t, !.req = nextReq, !.key = client.mSessionInfo])
    BY <1>1 DEF SendRequest
  <2>2. NoNewLogin
    BY <2>1, TypesAreNoLogin DEF NoNewLogin
  <2>3. client' = expect(client, Len(stack) + 1) /\ nextReq' = nextReq + 1 /\ topics' = topics
    BY <1>1 DEF SendRequest
  <2>4. Expects(Len(stack) + 1)
    BY <2>3 DEF Expects, expect, IInv, TypeOK, ClientState
  <2> DEFINE f == [NewFrame("response", client.sock) EXCEPT
                     !.type = t, !.req = nextReq, !.key = client.mSessionInfo]
  <2>5. f \in Frame /\ f.at = "response" /\ f.key = client.mSessionInfo
    <3>1. client.sock \in Fds \cup {NoFd} /\ client.mSessionInfo \in Sessions
      BY DEF IInv, TypeOK, ClientState
    <3>2. NewFrame("response", client.sock) \in Frame
      BY <3>1, NewFrameOK DEF Waits, WaitsForResponse
    <3>3. NewFrame("response", client.sock).at = "response"
      BY DEF NewFrame
    <3>4. t \in MessageTypes /\ nextReq \in Sessions
      BY <1>1, BoundsAssumption DEF MessageTypes, IInv, TypeOK, MayRequest, Sessions
    <3>5. QED
      BY <3>1, <3>2, <3>3, <3>4 DEF Frame
  <2>6. stack' = Append(stack, f)
    BY <2>1
  <2> HIDE DEF f
  <2>7. QED
    BY <2>2, <2>3, <2>4, <2>5, <2>6 DEF Requests
<1>2. QED
  BY <1>1 DEF SendRequest

\* Neither drops the connection or a timer.
LEMMA SendRequestSorted ==
  ASSUME IInv, SendRequest
  PROVE  Sorted
<1>1. CASE UNCHANGED <<client, owed, nextReq, stack>>
  BY <1>1, StayIsCalm, SameFrames, CalmSorted DEF SendRequest, NoNewLogin
<1>2. CASE Requests
  BY <1>2 DEF Requests, Sorted, ReconnectKept, Expects, Pending
<1>3. QED
  BY <1>1, <1>2, SendRequestRequests

\* handleSocketEvents() begins.
LEMMA StartReadingSorted ==
  ASSUME IInv, StartReading
  PROVE  Sorted
<1> DEFINE f == NewFrame("read", client.sock)
<1>1. client.sock \in Fds \cup {NoFd}
  BY DEF IInv, TypeOK, ClientState
<1>2. f \in Frame /\ f.at \notin Waits
  BY <1>1, NewFrameOK DEF Handlers, NewFrame, Waits, WaitsForResponse
<1>3. stack' = Append(stack, f)
  BY DEF StartReading
<1> HIDE DEF f
<1>4. FramesKept(stack')
  BY <1>2, <1>3, PushedFrames DEF IInv
<1>5. QED
  BY <1>4, StayIsCalm, CalmSorted DEF StartReading, NoNewLogin

\* The CONNACK is read.
LEMMA ReadConnackSorted ==
  ASSUME IInv, ReadConnack
  PROVE  Sorted
<1>1. FramesKept(stack')
  BY CallbackFrames DEF ReadConnack, At, IInv
<1>2. QED
  BY <1>1, StayIsCalm, CalmSorted DEF ReadConnack, NoNewLogin

\* A CONNACK that refuses is read, and the connection lost.
LEMMA ReadRefusedSorted ==
  ASSUME IInv, ReadRefused
  PROVE  Sorted
<1>1. FramesKept(stack')
  BY CallbackFrames DEF ReadRefused, At, IInv
<1>2. Calm(client, client') /\ PendingKept(client, client')
  BY LoseIsQuiet DEF ReadRefused, IInv, ClientInv, Quiet
<1>3. QED
  BY <1>1, <1>2, CalmSorted DEF ReadRefused, NoNewLogin

\* A step that leaves a login owed only as it was, and hands a message over.
LEMMA OnMessageSorted ==
  ASSUME IInv, LoginTyped, NEW topic, NEW m \in Message, onMessage(topic, m),
         topics' = topics, nextReq' = nextReq, owed' \subseteq owed,
         m.kind \notin {"invalidSession", "badResponse"} /\ m.type = "login" =>
           m.id = 0 \/ \E r \in owed \ owed' : r.type = "login" /\ r.req = m.id
  PROVE  Sorted
<1>1. CASE /\ client.mExpectedResponse # 0
           /\ client' = client
           /\ stack' = [stack EXCEPT ![client.mExpectedResponse] = onExpectedResponse(@, m)]
  <2> DEFINE i == client.mExpectedResponse
             f == onExpectedResponse(stack[i], m)
  <2>1. i \in DOMAIN stack /\ stack[i] \in Frame
    BY <1>1 DEF IInv, TypeOK, ClientInv, ExpectedResponseLive
  <2>2. f \in Frame /\ f.at = stack[i].at /\ f.type = stack[i].type
        /\ f.req = stack[i].req /\ f.key = stack[i].key
    BY <2>1, ResponseFrame
  <2>3. f.got = stack[i].got
          \/ /\ m.kind \notin {"invalidSession", "badResponse"}
             /\ m.type = stack[i].type /\ f.got = m.id
    BY <2>1 DEF onExpectedResponse, Frame
  <2>4. stack' = [stack EXCEPT ![i] = f]
    BY <1>1
  <2> HIDE DEF f
  <2>5. /\ DOMAIN stack' = DOMAIN stack
        /\ \A j \in DOMAIN stack : stack'[j] = IF j = i THEN f ELSE stack[j]
    BY <2>1, <2>2, <2>4, Replaced DEF IInv
  <2>6. ASSUME NEW j \in DOMAIN stack, stack'[j].at = "login",
               stack'[j].got \notin {0, stack[j].got}
        PROVE  /\ j = i
               /\ \E r \in owed \ owed' : r.type = "login" /\ r.req = stack'[j].got
    <3>1. j = i /\ stack'[j] = f
      BY <2>5, <2>6
    <3>2. stack[i].type = "login"
      BY <2>1, <2>2, <2>6, <3>1 DEF LoginTyped
    <3>3. QED
      BY <2>3, <2>6, <3>1, <3>2
  <2>7. TakesResponse
    BY <1>1, <2>2, <2>5, <2>6 DEF TakesResponse
  <2>8. QED
    BY <1>1, <2>7 DEF Sorted, ReconnectKept
<1>2. CASE client' = onGeneralMessage(client, m) /\ stack' = stack
  <2>1. Calm(client, client') /\ PendingKept(client, client')
    BY <1>2, GeneralMessage DEF IInv, ClientInv
  <2>2. QED
    BY <1>2, <2>1, SameFrames, CalmSorted DEF NoNewLogin
<1>3. QED
  BY <1>1, <1>2 DEF onMessage

\* An answer of the gateway is read.
LEMMA ReadAnswerSorted ==
  ASSUME IInv, LoginTyped, ReadAnswer
  PROVE  Sorted
<1>1. PICK r \in owed : \E m \in AnswersTo(r) : onMessage("client", m) /\ owed' = owed \ {r}
  BY DEF ReadAnswer
<1>2. r \in OwedRequest
  BY DEF IInv, TypeOK
<1>3. PICK m \in AnswersTo(r) : onMessage("client", m)
  BY <1>1
<1>4. m \in Message
  BY <1>2, <1>3, AnswersAreMessages
<1>5. m.kind \notin {"invalidSession", "badResponse"} /\ m.type = "login" =>
        m.id = 0 \/ (r.type = "login" /\ r.req = m.id)
  BY <1>3 DEF AnswersTo, Answer, Denied, Refusal, BadResponse
<1>6. r \in owed \ owed' /\ owed' \subseteq owed
  BY <1>1
<1>7. QED
  BY <1>3, <1>4, <1>5, <1>6, OnMessageSorted DEF ReadAnswer

\* An event of the gateway is read.
LEMMA ReadEventSorted ==
  ASSUME IInv, LoginTyped, ReadSessionEvent \/ ReadDeviceEvent
  PROVE  Sorted
<1> DEFINE Events == {Event("expired"), Event("expiring"), Event("device"), Refusal}
<1>1. PICK topic \in {"client", "clients"}, m \in Events : onMessage(topic, m)
  BY DEF ReadSessionEvent, ReadDeviceEvent
<1>2. m \in Message
  BY EventsAreMessages, MessageTypesOK DEF IInv, Refusal, Message, Kinds
<1>3. m.type # "login"
  BY DEF Event, Refusal
<1>4. topics' = topics /\ nextReq' = nextReq /\ owed' \subseteq owed
  BY DEF ReadSessionEvent, ReadDeviceEvent
<1>5. QED
  BY <1>1, <1>2, <1>3, <1>4, OnMessageSorted

\* mosquitto_loop_read() returns.
LEMMA ReadEndsSorted ==
  ASSUME IInv, ReadEnds
  PROVE  Sorted
<1>1. At(Handlers) /\ "next" \in Handlers
  BY DEF ReadEnds, At, Handlers
<1>2. FramesKept(stack')
  BY <1>1, MovedFrames DEF ReadEnds, IInv
<1>3. QED
  BY <1>2, StayIsCalm, CalmSorted DEF ReadEnds, NoNewLogin

\* mosquitto_loop_read() fails, and the connection is lost.
LEMMA ReadFailsSorted ==
  ASSUME IInv, ReadFails
  PROVE  Sorted
<1>1. FramesKept(stack')
  BY RestFrames DEF ReadFails, At, IInv
<1>2. Calm(client, client') /\ PendingKept(client, client')
  BY LoseIsQuiet DEF ReadFails, IInv, ClientInv, Quiet
<1>3. QED
  BY <1>1, <1>2, CalmSorted DEF ReadFails, NoNewLogin

\* A queued message is dispatched, or found to end the session.
LEMMA DispatchNextSorted ==
  ASSUME IInv, DispatchNext
  PROVE  Sorted
<1>1. Calm(client, Popped) /\ PendingKept(client, Popped) /\ Good(Popped)
  BY PoppedIsCalm, PoppedKeeps DEF IInv, TypeOK, DispatchNext, Kept
<1>2. At(Handlers) /\ {"expiring", "subscriber"} \subseteq Handlers
  BY DEF DispatchNext, At, Handlers, Callbacks
<1>3. CASE client' = handleInvalidSession(Popped, FALSE) /\ stack' = stack
  <2>1. Calm(client, client') /\ PendingKept(client, client')
    BY <1>1, <1>3, InvalidSessionIsQuiet, CalmTransitive DEF Quiet
  <2>2. QED
    BY <1>3, <2>1, SameFrames, CalmSorted DEF DispatchNext, NoNewLogin
<1>4. CASE client' = Popped /\ ReplaceTop([Top EXCEPT !.at = "expiring"])
  <2>1. FramesKept(stack')
    BY <1>2, <1>4, MovedFrames DEF IInv
  <2>2. QED
    BY <1>1, <1>4, <2>1, CalmSorted DEF DispatchNext, NoNewLogin
<1>5. CASE client' = Popped /\ ReplaceTop([Top EXCEPT !.at = "subscriber"])
  <2>1. FramesKept(stack')
    BY <1>2, <1>5, MovedFrames DEF IInv
  <2>2. QED
    BY <1>1, <1>5, <2>1, CalmSorted DEF DispatchNext, NoNewLogin
<1>6. QED
  BY <1>3, <1>4, <1>5 DEF DispatchNext

\* A callback returns, and a keep-alive message of the open session may be owed.
LEMMA CallbackReturnsSorted ==
  ASSUME IInv, CallbackReturns
  PROVE  Sorted
<1>1. At(Handlers) /\ "next" \in Handlers
  BY DEF CallbackReturns, At, Handlers
<1>2. FramesKept(stack')
  BY <1>1, MovedFrames DEF CallbackReturns, IInv
<1>3. NoNewLogin
  BY TypesAreNoLogin DEF CallbackReturns, NoNewLogin, Unawaited
<1>4. QED
  BY <1>2, <1>3, StayIsCalm, CalmSorted DEF CallbackReturns

\* handleSocketEvents() returns.
LEMMA HandlerEndsSorted ==
  ASSUME IInv, HandlerEnds
  PROVE  Sorted
<1>1. FramesKept(stack')
  BY RestFrames DEF HandlerEnds, At, IInv
<1>2. Calm(client, client') /\ PendingKept(client, client')
  BY StayIsCalm, LoseIsQuiet DEF HandlerEnds, IInv, ClientInv, Quiet
<1>3. QED
  BY <1>1, <1>2, CalmSorted DEF HandlerEnds, NoNewLogin

\* handleMisc() was called by the one misc timer, and replaces it.
LEMMA FireMiscSorted ==
  ASSUME IInv, FireMisc
  PROVE  Sorted
<1>1. PICK t \in TimerIds :
        LET c == stopTimer(client, t)
        IN  /\ client.timers[t] = "misc"
            /\ \/ ~c.mConnected /\ client' = c
               \/ c.mConnected /\ client' = lose(c)
               \/ c.mConnected /\ c.sock # NoFd /\ client' = scheduleMisc(c)
  BY DEF FireMisc
<1> DEFINE c == stopTimer(client, t)
<1>2. /\ Good(c) /\ SameElse(client, c)
      /\ c.mMiscTimerId = client.mMiscTimerId
      /\ \A u \in TimerIds : c.timers[u] = IF u = t THEN "free" ELSE client.timers[u]
  BY StopKeeps, StopTimer DEF IInv, ClientInv, Kept, TypeOK
<1>3. t = client.mMiscTimerId
  BY <1>1 DEF IInv, ClientInv, Good, SlotsOK
<1>4. \/ ~c.mConnected /\ client' = c
      \/ client' = lose(c)
      \/ client' = scheduleMisc(c)
  BY <1>1
<1> HIDE DEF c
<1>5. Pending(client) => Pending(c)
  BY <1>1, <1>2 DEF Pending
<1>6. Calm(client, client') /\ PendingKept(client, client')
  <2>1. CASE ~c.mConnected /\ client' = c
    BY <1>2, <1>5, <2>1 DEF Calm, PendingKept, SameElse, Open
  <2>2. CASE client' = lose(c)
    <3> DEFINE d == lose(c)
    <3>1. Calm(c, d) /\ PendingKept(c, d) /\ d.sock = NoFd
      BY <1>2, LoseIsQuiet DEF Quiet
    <3> HIDE DEF d
    <3>2. Calm(client, d) /\ PendingKept(client, d)
      BY <1>2, <1>5, <3>1 DEF Calm, PendingKept, SameElse, Open
    <3>3. QED
      BY <2>2, <3>2 DEF d
  <2>3. CASE client' = scheduleMisc(c)
    <3> DEFINE d == scheduleMisc(c)
    <3>1. /\ SameElse(c, d)
          /\ RoomForTwo => MiscPending(d)
          /\ Pending(c) => Pending(d)
      BY <1>2, <1>3, ScheduleMiscTimers DEF Good
    <3> HIDE DEF d
    <3>2. Calm(client, d) /\ PendingKept(client, d)
      BY <1>2, <1>5, <3>1 DEF Calm, PendingKept, SameElse
    <3>3. QED
      BY <2>3, <3>2 DEF d
  <2>4. QED
    BY <1>4, <2>1, <2>2, <2>3
<1>7. QED
  BY <1>6, SameFrames, CalmSorted DEF FireMisc, NoNewLogin

\* The gateway drops the session, and the client does not notice.
LEMMA SessionLapsesSorted ==
  ASSUME IInv, SessionLapses
  PROVE  Sorted
BY StayIsCalm, SameFrames, CalmSorted DEF SessionLapses, NoNewLogin

\* Every step is of one of the sorts.
LEMMA NextSorted ==
  ASSUME IInv, LoginTyped, Next
  PROVE  Sorted
<1>1. CASE Application
  BY <1>1, ConnectSorted, DisconnectSorted, SendSorted, SendRequestSorted DEF Application
<1>2. CASE WaitEnds
  BY <1>2, ConnackMissingSorted, ConnackArrivedSorted, LoginFailsSorted, RequestEndsSorted
     DEF WaitEnds, Sorted
<1>3. CASE WaitReads \/ LoopReads
  BY <1>3, StartReadingSorted DEF WaitReads, LoopReads
<1>4. CASE Reads
  BY <1>4, ReadConnackSorted, ReadRefusedSorted, ReadAnswerSorted, ReadEventSorted,
     ReadEndsSorted, ReadFailsSorted DEF Reads
<1>5. CASE DispatchNext \/ CallbackReturns \/ HandlerEnds
  BY <1>5, DispatchNextSorted, CallbackReturnsSorted, HandlerEndsSorted
<1>6. CASE Timers
  BY <1>6, FireReconnectSorted, FireMiscSorted DEF Timers
<1>7. CASE SessionLapses
  BY <1>7, SessionLapsesSorted
<1>8. QED
  BY <1>1, <1>2, <1>3, <1>4, <1>5, <1>6, <1>7 DEF Next

\* connect() that succeeds opens the session of the response it got, and schedules
\* mosquitto_loop_misc().
LoggedIn ==
  /\ ~Idle /\ Top.at = "login" /\ Top.got # 0
  /\ stack' = Rest
  /\ client'.mExpectedResponse = 0
  /\ client'.mSessionInfo = Top.got
  /\ client'.mConnected => client.mConnected
  /\ client'.sock \in {client.sock, NoFd}
  /\ client'.watches = client.watches
  /\ RoomForTwo /\ Open(client') => MiscPending(client')
  /\ topics' \in {topics, topics \cup {"clients"}}
  /\ owed' = owed /\ nextReq' = nextReq

\* connect() returns with a session: pings are scheduled, and no reconnect is lost but to it.
LEMMA LoginSucceedsLogsIn ==
  ASSUME IInv, LoginSucceeds
  PROVE  LoggedIn
<1>1. ~Idle /\ Top.at = "login" /\ Top.got # 0
  BY DEF LoginSucceeds, At
<1> DEFINE a == answered(client)
           c == [a EXCEPT !.mSessionInfo = Top.got]
<1>2. Leaving = a /\ Good(a)
  BY <1>1, AnsweredIsGood DEF Leaving, WaitsForResponse, IInv, ClientInv
<1>3. /\ a.mExpectedResponse = 0 /\ a.mConnected = client.mConnected
      /\ a.sock = client.sock /\ a.watches = client.watches
  BY AnsweredIsCalm DEF IInv, TypeOK
<1>4. \/ ConnectReturns(abandon(c), Top.auto, FALSE)
      \/ ConnectReturns(scheduleMisc(c), Top.auto, TRUE)
  BY DEF LoginSucceeds
<1> HIDE DEF a
<1>5. Top.got \in Sessions
  BY <1>1, RestOK DEF IInv, Frame
<1>6. /\ c \in ClientState /\ SameTimers(a, c) /\ c.mSessionInfo = Top.got
      /\ c.mConnected = a.mConnected /\ c.sock = a.sock /\ c.watches = a.watches
  BY <1>2, <1>5 DEF Good, ClientState, SameTimers
<1>7. Kept(a, c)
  BY <1>2, <1>6, SameTimersKeep
<1> HIDE DEF c
<1>8. ASSUME NEW d, Kept(c, d), NEW ok \in BOOLEAN, ConnectReturns(d, Top.auto, ok)
      PROVE  SameConnection(d, client') /\ (MiscPending(d) => MiscPending(client'))
  <2>1. CASE ~Top.auto
    BY <1>8, <2>1 DEF ConnectReturns, SameConnection
  <2>2. CASE Top.auto
    <3>1. Kept(Leaving, d)
      BY <1>2, <1>7, <1>8, KeptTransitive
    <3>2. Good(d) /\ d.mReconnecting /\ ~Pending(d)
      BY <1>1, <2>2, <3>1, AutoReturns
    <3>3. QED
      BY <1>8, <2>2, <3>2, ReconnectReturnsCalm DEF ConnectReturns
  <2>3. QED
    BY <2>1, <2>2
<1>9. /\ client'.mExpectedResponse = 0 /\ client'.mSessionInfo = Top.got
      /\ client'.mConnected => client.mConnected
      /\ client'.sock \in {client.sock, NoFd} /\ client'.watches = client.watches
      /\ RoomForTwo /\ Open(client') => MiscPending(client')
  <2>1. CASE ConnectReturns(abandon(c), Top.auto, FALSE)
    <3> DEFINE d == abandon(c)
    <3>1. Kept(c, d)
      BY <1>7, AbandonKeeps DEF Kept
    <3>2. /\ d.mExpectedResponse = c.mExpectedResponse /\ d.mSessionInfo = c.mSessionInfo
          /\ ~d.mConnected /\ d.sock = NoFd /\ d.watches = c.watches
      BY <1>6 DEF abandon, mosquittoClose, ClientState
    <3> HIDE DEF d
    <3>3. SameConnection(d, client')
      BY <1>8, <2>1, <3>1 DEF d
    <3>4. QED
      BY <1>3, <1>6, <3>2, <3>3 DEF SameConnection, SameTimers, Open
  <2>2. CASE ConnectReturns(scheduleMisc(c), Top.auto, TRUE)
    <3> DEFINE d == scheduleMisc(c)
    <3>1. Kept(c, d)
      BY <1>7, ScheduleMiscKeeps DEF Kept
    <3>2. SameElse(c, d) /\ (RoomForTwo => MiscPending(d))
      BY <1>7, ScheduleMiscTimers DEF Kept, Good
    <3> HIDE DEF d
    <3>3. SameConnection(d, client') /\ (MiscPending(d) => MiscPending(client'))
      BY <1>8, <2>2, <3>1 DEF d
    <3>4. QED
      BY <1>3, <1>6, <3>2, <3>3 DEF SameConnection, SameTimers, SameElse
  <2>3. QED
    BY <1>4, <2>1, <2>2
<1>10. stack' = Rest /\ topics' \in {topics, topics \cup {"clients"}}
       /\ owed' = owed /\ nextReq' = nextReq
  BY DEF LoginSucceeds
<1>11. QED
  BY <1>1, <1>9, <1>10 DEF LoggedIn

(***************************************************************************)
(* The invariant of the connection.                                        *)
(***************************************************************************)

\* While the session can be used, the next mosquitto_loop_misc() is scheduled.
Pings == RoomForTwo /\ Open(client) /\ "clients" \in topics => MiscPending(client)

\* Each number of a login is in one place: with the connect() that is going to ask for
\* it, with the gateway, with the connect() that got it, or with the client.
Carries(i, n) == \/ stack[i].at = "connack" /\ stack[i].req = n
                 \/ stack[i].at = "login" /\ stack[i].got = n
Owes(n) == \E r \in owed : r.type = "login" /\ r.req = n
Unique ==
  \A n \in Sessions \ {0} :
    /\ client.mSessionInfo = n => n < nextReq /\ ~Owes(n) /\ \A i \in DOMAIN stack : ~Carries(i, n)
    /\ Owes(n) => n < nextReq /\ \A i \in DOMAIN stack : ~Carries(i, n)
    /\ \A i \in DOMAIN stack : Carries(i, n) =>
         n < nextReq /\ \A j \in DOMAIN stack : Carries(j, n) => i = j

ConnectionInv ==
  /\ LoginTyped
  /\ ConnectedIsWatched
  /\ KeyLive
  /\ Pings
  /\ Unique

\* A calm step takes at most something away.
LEMMA CalmKeepsConnection ==
  ASSUME IInv, IInv', ConnectionInv, CalmStep
  PROVE  ConnectionInv'
<1> USE DEF CalmStep
<1>1. \A i \in DOMAIN stack' :
        IF i \in DOMAIN stack THEN SameFrame(stack[i], stack'[i]) ELSE stack'[i].at \notin Waits
  BY DEF FramesKept
<1>2. LoginTyped'
  BY <1>1 DEF ConnectionInv, LoginTyped, NoNewLogin, SameFrame, SameRequest, Waits, WaitsForResponse
<1>3. ConnectedIsWatched'
  BY DEF ConnectionInv, ConnectedIsWatched, Calm, Open
<1>4. KeyLive'
  BY <1>1 DEF ConnectionInv, KeyLive, IInv, ClientInv, ExpectedResponseLive, Calm,
             SameFrame, SameRequest, Waits, WaitsForResponse
<1>5. Pings'
  BY DEF ConnectionInv, Pings, Calm, Open, MiscPending
<1>6. Unique'
  <2>1. \A n : Owes(n)' => Owes(n)
    BY DEF Owes, NoNewLogin
  <2>2. \A n : \A i \in DOMAIN stack' : Carries(i, n)' => i \in DOMAIN stack /\ Carries(i, n)
    BY <1>1 DEF Carries, SameFrame, SameRequest, Waits, WaitsForResponse
  <2>3. client'.mSessionInfo \in {client.mSessionInfo, 0}
    BY DEF Calm
  <2>4. QED
    BY <2>1, <2>2, <2>3 DEF ConnectionInv, Unique
<1>7. QED
  BY <1>2, <1>3, <1>4, <1>5, <1>6 DEF ConnectionInv

\* A new connection is watched, and subscribed to nothing yet.
LEMMA OpensKeepsConnection ==
  ASSUME IInv, IInv', ConnectionInv, Opens
  PROVE  ConnectionInv'
<1>1. PICK f \in Frame : f.at = "connack" /\ f.req = nextReq /\ stack' = Append(stack, f)
  BY DEF Opens
<1>2. /\ DOMAIN stack' = DOMAIN stack \cup {Len(stack) + 1}
      /\ \A i \in DOMAIN stack : stack'[i] = stack[i]
      /\ stack'[Len(stack) + 1] = f
  BY <1>1, Pushed DEF IInv
<1>3. LoginTyped'
  BY <1>1, <1>2 DEF ConnectionInv, LoginTyped, Opens
<1>4. ConnectedIsWatched' /\ KeyLive' /\ Pings'
  BY DEF Opens, ConnectedIsWatched, KeyLive, Pings
<1>5. Unique'
  <2>1. \A n : Owes(n)' <=> Owes(n)
    BY DEF Owes, Opens
  <2>2. \A n : \A i \in DOMAIN stack' :
          Carries(i, n)' <=> (i \in DOMAIN stack /\ Carries(i, n)) \/ (i = Len(stack) + 1 /\ n = nextReq)
    <3>1. Len(stack) + 1 \notin DOMAIN stack
      BY DEF IInv, TypeOK
    <3>2. QED
      BY <1>1, <1>2, <3>1 DEF Carries
  <2>3. nextReq \in Nat /\ nextReq' = nextReq + 1 /\ Sessions \subseteq Int
        /\ client'.mSessionInfo = client.mSessionInfo
    BY DEF Opens, IInv, TypeOK, Sessions
  <2>4. QED
    BY <1>2, <2>1, <2>2, <2>3 DEF ConnectionInv, Unique
<1>6. QED
  BY <1>3, <1>4, <1>5 DEF ConnectionInv

\* The login is owed now, and its frame waits for the type of a login.
LEMMA LogsInKeepsConnection ==
  ASSUME IInv, IInv', ConnectionInv, LogsIn
  PROVE  ConnectionInv'
<1>1. PICK f \in Frame : f.at = "login" /\ f.type = "login" /\ f.got = 0 /\ ReplaceTop(f)
  BY DEF LogsIn
<1>2. ~Idle /\ Top.at = "connack"
  BY DEF LogsIn, At
<1>3. Len(stack) \in DOMAIN stack
  BY <1>2, RestOK DEF IInv
<1>4. /\ DOMAIN stack' = DOMAIN stack
      /\ \A j \in DOMAIN stack : stack'[j] = IF j = Len(stack) THEN f ELSE stack[j]
  BY <1>1, <1>3, Replaced DEF IInv, ReplaceTop
<1>5. LoginTyped'
  BY <1>1, <1>4 DEF ConnectionInv, LoginTyped, LogsIn
<1>6. ConnectedIsWatched' /\ Pings'
  BY DEF LogsIn, Expects, ConnectionInv, ConnectedIsWatched, Pings, Open, MiscPending
<1>7. KeyLive'
  BY <1>1, <1>3, <1>4 DEF LogsIn, Expects, KeyLive
<1>8. Unique'
  <2>1. \A n : Owes(n)' => Owes(n) \/ Carries(Len(stack), n)
    BY <1>2 DEF LogsIn, Owes, Carries, Top
  <2>2. \A n \in Sessions \ {0} : \A i \in DOMAIN stack' :
          Carries(i, n)' => i # Len(stack) /\ Carries(i, n)
    BY <1>1, <1>4 DEF Carries
  <2>3. client'.mSessionInfo = client.mSessionInfo /\ nextReq' = nextReq
    BY DEF LogsIn, Expects
  <2>4. QED
    BY <1>3, <1>4, <2>1, <2>2, <2>3 DEF ConnectionInv, Unique
<1>9. QED
  BY <1>5, <1>6, <1>7, <1>8 DEF ConnectionInv

\* A request is encrypted with the key of the session.
LEMMA RequestsKeepsConnection ==
  ASSUME IInv, IInv', ConnectionInv, Requests
  PROVE  ConnectionInv'
<1>1. PICK f \in Frame : /\ f.at = "response" /\ f.key = client.mSessionInfo
                         /\ stack' = Append(stack, f)
  BY DEF Requests
<1>2. /\ DOMAIN stack' = DOMAIN stack \cup {Len(stack) + 1}
      /\ \A i \in DOMAIN stack : stack'[i] = stack[i]
      /\ stack'[Len(stack) + 1] = f
  BY <1>1, Pushed DEF IInv
<1>3. LoginTyped'
  BY <1>1, <1>2 DEF ConnectionInv, LoginTyped, Requests, NoNewLogin
<1>4. ConnectedIsWatched' /\ Pings'
  BY DEF Requests, Expects, ConnectionInv, ConnectedIsWatched, Pings, Open, MiscPending
<1>5. KeyLive'
  BY <1>1, <1>2 DEF Requests, Expects, KeyLive
<1>6. Unique'
  <2>1. \A n : Owes(n)' => Owes(n)
    BY DEF Requests, Owes, NoNewLogin
  <2>2. \A n : \A i \in DOMAIN stack' : Carries(i, n)' => i \in DOMAIN stack /\ Carries(i, n)
    BY <1>1, <1>2 DEF Carries
  <2>3. client'.mSessionInfo = client.mSessionInfo /\ nextReq' = nextReq + 1
        /\ nextReq \in Nat /\ Sessions \subseteq Int
    BY DEF Requests, Expects, IInv, TypeOK, Sessions
  <2>4. QED
    BY <2>1, <2>2, <2>3 DEF ConnectionInv, Unique
<1>7. QED
  BY <1>3, <1>4, <1>5, <1>6 DEF ConnectionInv

\* A login that was owed is with the frame that took it.
LEMMA TakesResponseKeepsConnection ==
  ASSUME IInv, IInv', ConnectionInv, TakesResponse
  PROVE  ConnectionInv'
<1> USE DEF TakesResponse
<1>1. LoginTyped' /\ ConnectedIsWatched' /\ Pings'
  BY DEF ConnectionInv, LoginTyped, ConnectedIsWatched, Pings, MiscPending
<1>2. KeyLive'
  BY DEF ConnectionInv, KeyLive, IInv, ClientInv, ExpectedResponseLive
<1>3. Unique'
  <2>1. \A n : Owes(n)' => Owes(n)
    BY DEF Owes
  <2>2. ASSUME NEW n \in Sessions \ {0}, NEW i \in DOMAIN stack', Carries(i, n)'
        PROVE  /\ i \in DOMAIN stack
               /\ Carries(i, n) \/ (i = client.mExpectedResponse /\ Owes(n) /\ ~Owes(n)')
    <3>1. CASE Carries(i, n)
      BY <3>1
    <3>2. CASE ~Carries(i, n)
      <4>1. stack'[i].at = "login" /\ stack'[i].got = n /\ stack[i].got # n
        BY <2>2, <3>2 DEF Carries
      <4>2. i = client.mExpectedResponse /\ \E r \in owed \ owed' : r.type = "login" /\ r.req = n
        BY <4>1
      <4>3. \A r, q \in owed : r.type = "login" /\ q.type = "login" /\ r.req = q.req => r = q
        <5>1. \A r \in owed : r = [req |-> r.req, type |-> r.type, key |-> r.key]
          BY DEF IInv, TypeOK, OwedRequest
        <5>2. QED
          BY <5>1 DEF ConnectionInv, LoginTyped
      <4>4. QED
        BY <4>2, <4>3 DEF Owes
    <3>3. QED
      BY <3>1, <3>2
  <2>3. QED
    BY <2>1, <2>2 DEF ConnectionInv, Unique
<1>4. QED
  BY <1>1, <1>2, <1>3 DEF ConnectionInv

\* The number of the session is no longer with the frame that got it.
LEMMA LoggedInKeepsConnection ==
  ASSUME IInv, IInv', ConnectionInv, LoggedIn
  PROVE  ConnectionInv'
<1> USE DEF LoggedIn
<1>1. /\ DOMAIN stack' = DOMAIN stack \ {Len(stack)}
      /\ \A i \in DOMAIN stack' : stack'[i] = stack[i]
      /\ Len(stack) \in DOMAIN stack
  BY RestOK DEF IInv
<1>2. LoginTyped'
  BY <1>1 DEF ConnectionInv, LoginTyped
<1>3. ConnectedIsWatched' /\ Pings' /\ KeyLive'
  BY DEF ConnectionInv, ConnectedIsWatched, Pings, KeyLive, Open, MiscPending
<1>4. Unique'
  <2>1. \A n : Owes(n)' <=> Owes(n)
    BY DEF Owes
  <2>2. \A n : \A i \in DOMAIN stack' : Carries(i, n)' => i # Len(stack) /\ Carries(i, n)
    BY <1>1 DEF Carries
  <2>3. Carries(Len(stack), client'.mSessionInfo)
    BY DEF Carries, Top
  <2>4. QED
    BY <1>1, <2>1, <2>2, <2>3 DEF ConnectionInv, Unique
<1>5. QED
  BY <1>2, <1>3, <1>4 DEF ConnectionInv

\* Every step keeps the invariant.
LEMMA NextConnectionInv ==
  ASSUME IInv, ConnectionInv, [Next]_vars
  PROVE  ConnectionInv'
<1>1. IInv'
  BY NextIInv
<1>2. CASE UNCHANGED vars
  BY <1>2 DEF vars, ConnectionInv, LoginTyped, ConnectedIsWatched, KeyLive, Pings, Unique,
              Open, MiscPending, Carries, Owes
<1>3. CASE Next
  <2>1. LoginTyped
    BY DEF ConnectionInv
  <2>2. Sorted
    BY <1>3, <2>1, NextSorted
  <2>3. QED
    BY <1>1, <2>2, LoginSucceedsLogsIn, CalmKeepsConnection, OpensKeepsConnection,
       LogsInKeepsConnection, RequestsKeepsConnection, TakesResponseKeepsConnection,
       LoggedInKeepsConnection DEF Sorted
<1>4. QED
  BY <1>2, <1>3

\* It holds of a client that was just built.
LEMMA InitConnectionInv == ASSUME Init PROVE ConnectionInv
<1>1. /\ ~client.mConnected /\ client.mSessionInfo = 0 /\ client.mExpectedResponse = 0
      /\ owed = {} /\ DOMAIN stack = {}
  BY DEF Init
<1>2. QED
  BY <1>1 DEF ConnectionInv, LoginTyped, ConnectedIsWatched, KeyLive, Pings, Unique, Open, Owes

\* The invariant of the connection holds in every reachable state.
THEOREM ConnectionInvariance == Spec => [](IInv /\ ConnectionInv)
<1>1. Init => IInv /\ ConnectionInv
  BY InitIInv, InitConnectionInv
<1>2. (IInv /\ ConnectionInv) /\ [Next]_vars => (IInv /\ ConnectionInv)'
  BY NextIInv, NextConnectionInv
<1>3. QED
  BY <1>1, <1>2, PTL DEF Spec

\* The open socket of a connected client is watched.
THEOREM OpenSocketIsWatched == Spec => []ConnectedIsWatched
<1>1. ConnectionInv => ConnectedIsWatched
  BY DEF ConnectionInv
<1>2. QED
  BY <1>1, ConnectionInvariance, PTL

\* ExpectedResponse::key is the key of the session as long as a response can come in.
THEOREM KeyIsOfTheSession == Spec => []KeyLive
<1>1. ConnectionInv => KeyLive
  BY DEF ConnectionInv
<1>2. QED
  BY <1>1, ConnectionInvariance, PTL

\* With a slot on the loop for each of the client's two timers, the PINGREQs go on as
\* long as the session can be used.
THEOREM PingsAreScheduled == ASSUME TimerCount >= 2 PROVE Spec => []PingsGoOn
<1>1. ConnectionInv => PingsGoOn
  BY DEF ConnectionInv, Pings, PingsGoOn, CanSend, Open, MiscPending, MiscTimers, RoomForTwo
<1>2. QED
  BY <1>1, ConnectionInvariance, PTL

\* A scheduled reconnect is given up only by firing, with the connection, or because
\* connect() opened a new session.
THEOREM ScheduledReconnectSurvives == Spec => ReconnectSurvives
<1> DEFINE Survives ==
      ReconnectTimers # {} /\ ReconnectTimers' = {} =>
        \/ Idle /\ client.timers[client.mReconnectTimerId] = "reconnect" /\ result'.call = "reconnect"
        \/ \E i \in DOMAIN stack' : stack'[i].auto
        \/ client.mConnected /\ ~client'.mConnected
        \/ client'.mSessionInfo \notin {0, client.mSessionInfo}
<1>1. IInv /\ ConnectionInv /\ [Next]_vars => [Survives]_vars
  <2> SUFFICES ASSUME IInv, ConnectionInv, Next, ReconnectTimers # {}, ReconnectTimers' = {}
               PROVE  Survives
    BY DEF Survives
  <2>1. Pending(client) /\ ~Pending(client')
    BY DEF ReconnectTimers, Pending
  <2>2. client.timers[client.mReconnectTimerId] = "reconnect"
    BY <2>1 DEF Pending, IInv, ClientInv, Good, SlotsOK
  <2>3. Sorted
    BY NextSorted DEF ConnectionInv
  <2>4. CASE ReconnectKept
    BY <2>1, <2>2, <2>4 DEF ReconnectKept, Survives
  <2>5. CASE LoginSucceeds
    <3>1. /\ ~Idle /\ Top.at = "login" /\ Top.got # 0 /\ client'.mSessionInfo = Top.got
      BY <2>5, LoginSucceedsLogsIn DEF LoggedIn
    <3>2. Carries(Len(stack), Top.got) /\ Len(stack) \in DOMAIN stack /\ Top.got \in Sessions
      BY <3>1, RestOK DEF Carries, Top, IInv, Frame
    <3>3. Top.got # client.mSessionInfo
      BY <3>1, <3>2 DEF ConnectionInv, Unique
    <3>4. QED
      BY <3>1, <3>3 DEF Survives
  <2>6. QED
    BY <2>3, <2>4, <2>5 DEF Sorted
<1>2. QED
  BY <1>1, ConnectionInvariance, PTL DEF Spec, ReconnectSurvives
=============================================================================
