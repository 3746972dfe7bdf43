-------------------------- MODULE GtwClientProofs --------------------------
(***************************************************************************)
(* Proofs about GtwClient for every number of timers, every bound and      *)
(* every application: types, the timers of the background reconnect and of *)
(* mosquitto_loop_misc(), the pointer to the expected response.            *)
(***************************************************************************)
EXTENDS GtwClientProperties, SequenceTheorems, WellFoundedInduction, TLAPS

(***************************************************************************)
(* The timer table.                                                        *)
(***************************************************************************)

Owners == {"free", "reconnect", "misc"}

\* startTimer() returns a free slot, or kInvalidTimerId.
LEMMA FreeSlotIsFree ==
  ASSUME NEW c
  PROVE  /\ FreeSlot(c) \in TimerIds \cup {kInvalidTimerId}
         /\ FreeSlot(c) \in TimerIds => c.timers[FreeSlot(c)] = "free"
         /\ FreeTimers(c) # {} => FreeSlot(c) \in TimerIds
<1>1. CASE FreeTimers(c) = {}
  BY <1>1, TimerAssumption DEF FreeSlot, TimerIds, kInvalidTimerId
<1>2. CASE FreeTimers(c) # {}
  <2>1. FreeTimers(c) \subseteq Nat
    BY TimerAssumption DEF FreeTimers, TimerIds
  <2>2. PICK t \in FreeTimers(c) : \A u \in FreeTimers(c) : ~(u < t)
    <3> DEFINE Less == {p \in Nat \X Nat : p[1] < p[2]}
    <3>1. IsWellFoundedOn(Less, Nat)
      BY NatLessThanWellFounded DEF OpToRel
    <3>2. \E t \in FreeTimers(c) : \A u \in FreeTimers(c) : <<u, t>> \notin Less
      <4> HIDE DEF Less
      <4> QED  BY <1>2, <2>1, <3>1, WFMin
    <3>3. QED
      BY <3>2, <2>1
  <2>3. \A u \in FreeTimers(c) : t <= u
    BY <2>1, <2>2
  <2>4. FreeSlot(c) \in FreeTimers(c)
    BY <1>2, <2>3 DEF FreeSlot
  <2>5. QED
    BY <2>4 DEF FreeTimers
<1>3. QED
  BY <1>1, <1>2

\* A slot is used by the timer whose id the client holds, or by none of its own.
SlotsOK(c) ==
  /\ \A t \in TimerIds : c.timers[t] = "reconnect" => t = c.mReconnectTimerId
  /\ \A t \in TimerIds : c.timers[t] = "misc" => t = c.mMiscTimerId

Pending(c) == \E t \in TimerIds : c.timers[t] = "reconnect"

\* What the operators on timers leave alone.
SameElse(c, d) ==
  /\ d.mConnected = c.mConnected
  /\ d.mReconnecting = c.mReconnecting
  /\ d.mSessionInfo = c.mSessionInfo
  /\ d.mExpectedResponse = c.mExpectedResponse
  /\ d.mMessageQueue = c.mMessageQueue
  /\ d.mReconnectDelay = c.mReconnectDelay
  /\ d.watches = c.watches
  /\ d.sock = c.sock
  /\ d.userData = c.userData

\* Using or releasing a slot changes that slot only; kInvalidTimerId is none.
LEMMA OccupyOneSlot ==
  ASSUME NEW c \in ClientState, NEW id, NEW owner \in Owners
  PROVE  /\ occupy(c, id, owner) \in ClientState
         /\ occupy(c, id, owner).timers =
              [t \in TimerIds |-> IF t = id THEN owner ELSE c.timers[t]]
         /\ occupy(c, id, owner).mReconnectTimerId = c.mReconnectTimerId
         /\ occupy(c, id, owner).mMiscTimerId = c.mMiscTimerId
         /\ SameElse(c, occupy(c, id, owner))
BY DEF occupy, Owners, ClientState, SameElse

\* Stopping a timer, whatever the id, starts none.
LEMMA StopTimer ==
  ASSUME NEW c \in ClientState, NEW id
  PROVE  /\ stopTimer(c, id) \in ClientState
         /\ SameElse(c, stopTimer(c, id))
         /\ stopTimer(c, id).mReconnectTimerId = c.mReconnectTimerId
         /\ stopTimer(c, id).mMiscTimerId = c.mMiscTimerId
         /\ \A t \in TimerIds : stopTimer(c, id).timers[t] =
                                  IF t = id THEN "free" ELSE c.timers[t]
         /\ SlotsOK(c) => SlotsOK(stopTimer(c, id))
         /\ Pending(stopTimer(c, id)) => Pending(c)
<1>1. "free" \in Owners
  BY DEF Owners
<1> DEFINE d == occupy(c, id, "free")
<1>2. /\ d \in ClientState
      /\ d.timers = [t \in TimerIds |-> IF t = id THEN "free" ELSE c.timers[t]]
      /\ d.mReconnectTimerId = c.mReconnectTimerId
      /\ d.mMiscTimerId = c.mMiscTimerId
      /\ SameElse(c, d)
  BY <1>1, OccupyOneSlot
<1> HIDE DEF d
<1>3. \A t \in TimerIds : d.timers[t] = IF t = id THEN "free" ELSE c.timers[t]
  BY <1>2
<1>4. /\ SlotsOK(c) => SlotsOK(d)
      /\ Pending(d) => Pending(c)
  BY <1>2, <1>3 DEF SlotsOK, Pending
<1>5. QED
  BY <1>2, <1>3, <1>4 DEF stopTimer, d

\* A reconnect timer started while none is pending is the one the client knows.
LEMMA StartReconnectTimer ==
  ASSUME NEW c \in ClientState
  PROVE  /\ startReconnectTimer(c) \in ClientState
         /\ SameElse(c, startReconnectTimer(c))
         /\ SlotsOK(c) /\ ~Pending(c) => SlotsOK(startReconnectTimer(c))
<1> DEFINE d == occupy(c, FreeSlot(c), "reconnect")
<1>1. "reconnect" \in Owners
  BY DEF Owners
<1>2. /\ d \in ClientState
      /\ d.timers = [t \in TimerIds |-> IF t = FreeSlot(c) THEN "reconnect" ELSE c.timers[t]]
      /\ d.mMiscTimerId = c.mMiscTimerId
      /\ SameElse(c, d)
  BY <1>1, OccupyOneSlot
<1>3. FreeSlot(c) \in TimerIds \cup {kInvalidTimerId}
  BY FreeSlotIsFree
<1> HIDE DEF d
<1>4. /\ [d EXCEPT !.mReconnectTimerId = FreeSlot(c)] \in ClientState
      /\ SameElse(c, [d EXCEPT !.mReconnectTimerId = FreeSlot(c)])
  BY <1>2, <1>3 DEF ClientState, SameElse
<1>5. /\ [d EXCEPT !.mReconnectTimerId = FreeSlot(c)].timers = d.timers
      /\ [d EXCEPT !.mReconnectTimerId = FreeSlot(c)].mReconnectTimerId = FreeSlot(c)
      /\ [d EXCEPT !.mReconnectTimerId = FreeSlot(c)].mMiscTimerId = d.mMiscTimerId
  BY <1>2 DEF ClientState
<1>6. SlotsOK(c) /\ ~Pending(c) => SlotsOK([d EXCEPT !.mReconnectTimerId = FreeSlot(c)])
  BY <1>2, <1>5 DEF SlotsOK, Pending
<1>7. QED
  BY <1>4, <1>6 DEF startReconnectTimer, d

\* scheduleMisc() leaves one misc timer, and the reconnect timer alone.
LEMMA ScheduleMisc ==
  ASSUME NEW c \in ClientState
  PROVE  /\ scheduleMisc(c) \in ClientState
         /\ SameElse(c, scheduleMisc(c))
         /\ SlotsOK(c) => SlotsOK(scheduleMisc(c))
         /\ Pending(scheduleMisc(c)) => Pending(c)
<1> DEFINE e == stopTimer(c, c.mMiscTimerId)
           d == occupy(e, FreeSlot(e), "misc")
<1>1. /\ e \in ClientState
      /\ SameElse(c, e)
      /\ e.mReconnectTimerId = c.mReconnectTimerId
      /\ \A t \in TimerIds : e.timers[t] = IF t = c.mMiscTimerId THEN "free" ELSE c.timers[t]
  BY StopTimer
<1>2. "misc" \in Owners
  BY DEF Owners
<1>3. FreeSlot(e) \in TimerIds \cup {kInvalidTimerId}
  BY FreeSlotIsFree
<1> HIDE DEF e
<1>4. /\ d \in ClientState
      /\ d.timers = [t \in TimerIds |-> IF t = FreeSlot(e) THEN "misc" ELSE e.timers[t]]
      /\ d.mReconnectTimerId = e.mReconnectTimerId
      /\ SameElse(e, d)
  BY <1>1, <1>2, OccupyOneSlot
<1> HIDE DEF d
<1>5. /\ [d EXCEPT !.mMiscTimerId = FreeSlot(e)] \in ClientState
      /\ SameElse(c, [d EXCEPT !.mMiscTimerId = FreeSlot(e)])
  BY <1>1, <1>3, <1>4 DEF ClientState, SameElse
<1>6. /\ [d EXCEPT !.mMiscTimerId = FreeSlot(e)].timers = d.timers
      /\ [d EXCEPT !.mMiscTimerId = FreeSlot(e)].mMiscTimerId = FreeSlot(e)
      /\ [d EXCEPT !.mMiscTimerId = FreeSlot(e)].mReconnectTimerId = d.mReconnectTimerId
  BY <1>4 DEF ClientState
<1>7. SlotsOK(c) => SlotsOK([d EXCEPT !.mMiscTimerId = FreeSlot(e)])
  BY <1>1, <1>4, <1>6 DEF SlotsOK
<1>8. Pending([d EXCEPT !.mMiscTimerId = FreeSlot(e)]) => Pending(c)
  BY <1>1, <1>4, <1>6 DEF Pending
<1>9. QED
  BY <1>5, <1>7, <1>8 DEF scheduleMisc, startMiscTimer, d, e

(***************************************************************************)
(* The functions of the client.                                            *)
(***************************************************************************)

\* The client with its timers in order, and what every function that may run while
\* reconnect() is connecting keeps.
Good(c) ==
  /\ c \in ClientState
  /\ SlotsOK(c)
  /\ Pending(c) => c.mReconnecting

Kept(c, d) ==
  /\ Good(d)
  /\ c.mReconnecting => d.mReconnecting /\ (Pending(d) => Pending(c))
  /\ d.mExpectedResponse = c.mExpectedResponse
  /\ d.mReconnectDelay = c.mReconnectDelay

\* Other members than those of timers may change at will.
SameTimers(c, d) ==
  /\ d.timers = c.timers
  /\ d.mReconnectTimerId = c.mReconnectTimerId
  /\ d.mMiscTimerId = c.mMiscTimerId
  /\ d.mReconnecting = c.mReconnecting
  /\ d.mExpectedResponse = c.mExpectedResponse
  /\ d.mReconnectDelay = c.mReconnectDelay

\* A step that touches no member of timers keeps them in order.
LEMMA SameTimersKeep ==
  ASSUME NEW c, NEW d \in ClientState, Good(c), SameTimers(c, d)
  PROVE  Kept(c, d)
BY DEF Good, SameTimers, Kept, SlotsOK, Pending

\* The functions compose as the calls do.
LEMMA KeptTransitive ==
  ASSUME NEW c, NEW d, NEW e, Kept(c, d), Kept(d, e)
  PROVE  Kept(c, e)
BY DEF Kept

\* stopTimer(), with whatever id, is harmless to the client's own order of timers.
LEMMA StopKeeps ==
  ASSUME NEW c, NEW id, Good(c)
  PROVE  Kept(c, stopTimer(c, id))
BY StopTimer DEF Good, Kept, SameElse

\* scheduleMisc() does not start a reconnect.
LEMMA ScheduleMiscKeeps ==
  ASSUME NEW c, Good(c)
  PROVE  Kept(c, scheduleMisc(c))
BY ScheduleMisc DEF Good, Kept, SameElse

\* libmosquitto closing the socket does not touch the client's timers.
LEMMA MosquittoCloseKeeps ==
  ASSUME NEW c, Good(c)
  PROVE  Kept(c, mosquittoClose(c))
<1>1. mosquittoClose(c) \in ClientState /\ SameTimers(c, mosquittoClose(c))
  BY DEF Good, mosquittoClose, ClientState, SameTimers, NoFd
<1>2. QED
  BY <1>1, SameTimersKeep

\* connect() giving up after the CONNACK does not touch the timers.
LEMMA AbandonKeeps ==
  ASSUME NEW c, Good(c)
  PROVE  Kept(c, abandon(c))
<1>1. abandon(c) \in ClientState /\ SameTimers(c, abandon(c))
  BY DEF Good, abandon, mosquittoClose, ClientState, SameTimers, NoFd
<1>2. QED
  BY <1>1, SameTimersKeep

\* disconnect() cancels both timers, unless the client is not connected.
LEMMA DisconnectKeeps ==
  ASSUME NEW c, NEW inCallback \in BOOLEAN, Good(c)
  PROVE  Kept(c, disconnect(c, inCallback))
<1> DEFINE e == stopTimer(stopTimer(c, c.mReconnectTimerId), c.mMiscTimerId)
<1>1. Kept(c, e)
  BY StopKeeps, KeptTransitive DEF Kept
<1>2. 0 \in Sessions
  BY BoundsAssumption DEF Sessions
<1>3. CASE c.mConnected
  <2> HIDE DEF e
  <2> DEFINE d == [e EXCEPT !.mSessionInfo = 0,
                            !.watches      = @ \ {c.sock},
                            !.sock         = IF inCallback THEN @ ELSE NoFd,
                            !.mConnected   = FALSE]
  <2>1. d \in ClientState /\ SameTimers(e, d)
    BY <1>1, <1>2 DEF Kept, Good, ClientState, SameTimers, NoFd
  <2>2. disconnect(c, inCallback) = d
    BY <1>3 DEF disconnect, d, e
  <2>3. QED
    BY <1>1, <2>1, <2>2, SameTimersKeep, KeptTransitive DEF Kept
<1>4. CASE ~c.mConnected
  <2> DEFINE d == [c EXCEPT !.mSessionInfo = 0]
  <2>1. d \in ClientState /\ SameTimers(c, d)
    BY <1>2 DEF Good, ClientState, SameTimers
  <2>2. disconnect(c, inCallback) = d
    BY <1>4 DEF disconnect
  <2>3. QED
    BY <2>1, <2>2, SameTimersKeep
<1>5. QED
  BY <1>3, <1>4 DEF disconnect

\* A client that starts to reconnect has no reconnect timer yet.
LEMMA StartReconnecting ==
  ASSUME NEW c, Good(c), ~c.mReconnecting
  PROVE  Kept(c, [startReconnectTimer(c) EXCEPT !.mReconnecting = TRUE])
<1> DEFINE e == startReconnectTimer(c)
           d == [e EXCEPT !.mReconnecting = TRUE]
<1>1. e \in ClientState /\ SameElse(c, e) /\ SlotsOK(e)
  BY StartReconnectTimer DEF Good
<1> HIDE DEF e
<1>2. /\ d \in ClientState
      /\ d.mReconnecting
      /\ d.timers = e.timers
      /\ d.mReconnectTimerId = e.mReconnectTimerId
      /\ d.mMiscTimerId = e.mMiscTimerId
      /\ d.mExpectedResponse = c.mExpectedResponse
      /\ d.mReconnectDelay = c.mReconnectDelay
  BY <1>1 DEF ClientState, SameElse
<1> HIDE DEF d
<1>3. Kept(c, d)
  BY <1>1, <1>2 DEF Kept, Good, SlotsOK
<1>4. QED
  BY <1>3 DEF d, e

\* An invalid session starts the one reconnect, or none if it is started.
LEMMA HandleInvalidSessionKeeps ==
  ASSUME NEW c, NEW inCallback \in BOOLEAN, Good(c)
  PROVE  Kept(c, handleInvalidSession(c, inCallback))
<1>1. CASE c.mReconnecting
  BY <1>1 DEF handleInvalidSession, Kept
<1>2. CASE ~c.mReconnecting
  <2> DEFINE e == disconnect(c, inCallback)
  <2>1. Kept(c, e)
    BY DisconnectKeeps
  <2>2. ~e.mReconnecting
    <3>1. /\ stopTimer(c, c.mReconnectTimerId) \in ClientState
          /\ SameElse(c, stopTimer(c, c.mReconnectTimerId))
      BY StopTimer DEF Good
    <3> DEFINE g == stopTimer(stopTimer(c, c.mReconnectTimerId), c.mMiscTimerId)
    <3>2. g \in ClientState /\ g.mReconnecting = c.mReconnecting
      BY <3>1, StopTimer DEF SameElse
    <3> HIDE DEF g
    <3>3. disconnect(c, inCallback) =
            IF ~c.mConnected THEN [c EXCEPT !.mSessionInfo = 0]
            ELSE [g EXCEPT !.mSessionInfo = 0,
                           !.watches      = @ \ {c.sock},
                           !.sock         = IF inCallback THEN @ ELSE NoFd,
                           !.mConnected   = FALSE]
      BY DEF disconnect, g
    <3>4. QED
      BY <1>2, <3>2, <3>3 DEF Good, ClientState
  <2> HIDE DEF e
  <2>3. Kept(e, [startReconnectTimer(e) EXCEPT !.mReconnecting = TRUE])
    BY <2>1, <2>2, StartReconnecting DEF Kept
  <2>4. QED
    BY <1>2, <2>1, <2>3, KeptTransitive DEF handleInvalidSession, e
<1>3. QED
  BY <1>1, <1>2

\* dropConnection() happens only to a client that is not reconnecting.
LEMMA DropConnectionKeeps ==
  ASSUME NEW c, Good(c), ~c.mReconnecting
  PROVE  Kept(c, dropConnection(c))
<1> DEFINE u == [c EXCEPT !.watches = @ \ {c.sock}]
           e == startReconnectTimer(u)
           g == [e EXCEPT !.mReconnecting = TRUE]
           d == [e EXCEPT !.mConnected = FALSE, !.mReconnecting = TRUE, !.mSessionInfo = 0]
<1>1. u \in ClientState /\ SameTimers(c, u) /\ ~u.mReconnecting
  BY DEF Good, ClientState, SameTimers
<1>2. Kept(c, u)
  BY <1>1, SameTimersKeep
<1>3. Kept(u, g)
  BY <1>1, <1>2, StartReconnecting DEF Kept
<1>4. e \in ClientState
  BY <1>1, StartReconnectTimer
<1>5. d = dropConnection(c)
  BY DEF dropConnection
<1> HIDE DEF e
<1>6. d \in ClientState /\ SameTimers(g, d)
  <2>1. 0 \in Sessions
    BY BoundsAssumption DEF Sessions
  <2>2. QED
    BY <1>4, <2>1 DEF ClientState, SameTimers
<1> HIDE DEF g
<1>7. Kept(g, d)
  BY <1>3, <1>6, SameTimersKeep DEF Kept
<1>8. QED
  BY <1>2, <1>3, <1>5, <1>7, KeptTransitive

\* A lost connection starts the one reconnect, or none if it is started.
LEMMA LoseKeeps ==
  ASSUME NEW c, Good(c)
  PROVE  Kept(c, lose(c))
<1> DEFINE e == mosquittoClose(c)
<1>1. Kept(c, e)
  BY MosquittoCloseKeeps
<1> HIDE DEF e
<1>2. Kept(e, handleLostConnection(e))
  BY <1>1, DropConnectionKeeps DEF handleLostConnection, Kept
<1>3. QED
  BY <1>1, <1>2, KeptTransitive DEF lose, e

\* reconnect() gives up its place to a new timer, or to none when it succeeded.
LEMMA ReconnectReturns ==
  ASSUME NEW c, NEW ok \in BOOLEAN, Good(c), c.mReconnecting, ~Pending(c)
  PROVE  /\ Good(reconnectReturns(c, ok))
         /\ reconnectReturns(c, ok).mExpectedResponse = c.mExpectedResponse
         /\ reconnectReturns(c, ok).mReconnectDelay # BaseDelay
              => reconnectReturns(c, ok).mReconnecting
<1>1. CASE ok
  <2> DEFINE d == [reset(c) EXCEPT !.mReconnecting = FALSE]
  <2>1. BaseDelay \in Nat \ {0}
    BY BackoffAssumption
  <2>2. /\ d \in ClientState
        /\ d.timers = c.timers
        /\ d.mReconnectTimerId = c.mReconnectTimerId
        /\ d.mMiscTimerId = c.mMiscTimerId
        /\ d.mExpectedResponse = c.mExpectedResponse
        /\ d.mReconnectDelay = BaseDelay
    BY <2>1 DEF Good, reset, ClientState
  <2> HIDE DEF d
  <2>3. Good(d)
    BY <2>2 DEF Good, SlotsOK, Pending
  <2>4. QED
    BY <1>1, <2>2, <2>3 DEF reconnectReturns, d
<1>2. CASE ~ok
  <2> DEFINE e == next(c)
  <2>1. e \in ClientState /\ e.mReconnecting /\ e.mExpectedResponse = c.mExpectedResponse
    <3> DEFINE longer == c.mReconnectDelay * Factor
    <3>1. c.mReconnectDelay \in Nat \ {0}
      BY DEF Good, ClientState
    <3>2. longer \in Nat \ {0}
      BY <3>1, BackoffAssumption
    <3> HIDE DEF longer
    <3>3. (IF longer < MaxDelay THEN longer ELSE MaxDelay) \in Nat \ {0}
      BY <3>2, BackoffAssumption
    <3>4. e = [c EXCEPT !.mReconnectDelay = IF longer < MaxDelay THEN longer ELSE MaxDelay]
      BY DEF next, longer
    <3>5. QED
      BY <3>3, <3>4 DEF Good, ClientState
  <2>2. /\ e.timers = c.timers
        /\ e.mReconnectTimerId = c.mReconnectTimerId
        /\ e.mMiscTimerId = c.mMiscTimerId
    BY DEF Good, next, ClientState
  <2>3. SlotsOK(e) /\ ~Pending(e)
    BY <2>2 DEF Good, SlotsOK, Pending
  <2> HIDE DEF e
  <2>4. Good(startReconnectTimer(e))
    BY <2>1, <2>3, StartReconnectTimer DEF Good, SameElse
  <2>5. /\ startReconnectTimer(e).mExpectedResponse = c.mExpectedResponse
        /\ startReconnectTimer(e).mReconnecting
    BY <2>1, StartReconnectTimer DEF SameElse
  <2>6. QED
    BY <1>2, <2>4, <2>5 DEF reconnectReturns, e
<1>3. QED
  BY <1>1, <1>2

(***************************************************************************)
(* Messages, and frames of the call stack.                                 *)
(***************************************************************************)

Kinds == {"response", "invalidSession", "badResponse", "expired", "expiring", "device"}

Message == [kind : Kinds, type : MessageTypes, key : Sessions, id : Sessions]

\* The types and the number 0 that login and events use.
LEMMA MessageTypesOK == {"login", "events", "none"} \subseteq MessageTypes /\ 0 \in Sessions
BY BoundsAssumption DEF MessageTypes, Sessions

\* What the gateway answers is a message.
LEMMA AnswersAreMessages ==
  ASSUME NEW r \in OwedRequest
  PROVE  AnswersTo(r) \subseteq Message
BY MessageTypesOK
   DEF AnswersTo, Answer, Denied, Refusal, BadResponse, OwedRequest, Message, Kinds

\* What the gateway tells on its own is a message.
LEMMA EventsAreMessages ==
  ASSUME TypeOK, NEW kind \in {"expired", "expiring", "device"}
  PROVE  Event(kind) \in Message
BY MessageTypesOK DEF Event, TypeOK, Message, Kinds

\* onGeneralMessage() queues the message, or starts to reconnect.
LEMMA OnGeneralMessageKeeps ==
  ASSUME NEW c, NEW m \in Message, Good(c)
  PROVE  Kept(c, onGeneralMessage(c, m))
<1> DEFINE d == [c EXCEPT !.mMessageQueue = Append(@, QueuedFor(m))]
<1>1. QueuedFor(m) \in Queued
  BY DEF QueuedFor, Message, Queued
<1>2. Append(c.mMessageQueue, QueuedFor(m)) \in Seq(Queued)
  BY <1>1 DEF Good, ClientState
<1>3. d \in ClientState /\ SameTimers(c, d)
  BY <1>2 DEF Good, ClientState, SameTimers
<1>4. Kept(c, d)
  BY <1>3, SameTimersKeep
<1>5. Kept(c, c)
  BY DEF Kept
<1>6. Kept(c, handleInvalidSession(c, TRUE))
  BY HandleInvalidSessionKeeps
<1>7. QED
  BY <1>4, <1>5, <1>6 DEF onGeneralMessage

\* A fresh frame is a frame.
LEMMA NewFrameOK ==
  ASSUME NEW at \in Waits \cup Handlers, NEW fd \in Fds \cup {NoFd}
  PROVE  NewFrame(at, fd) \in Frame
BY MessageTypesOK DEF NewFrame, Frame

\* A response ends the wait it is for and changes nothing else of its frame.
LEMMA ResponseFrame ==
  ASSUME NEW f \in Frame, NEW m \in Message
  PROVE  /\ onExpectedResponse(f, m) \in Frame
         /\ onExpectedResponse(f, m).auto = f.auto
         /\ onExpectedResponse(f, m).at = f.at
         /\ onExpectedResponse(f, m).type = f.type
         /\ onExpectedResponse(f, m).req = f.req
         /\ onExpectedResponse(f, m).key = f.key
BY DEF onExpectedResponse, Frame, Message

\* Calling pushes one frame and leaves the others alone.
LEMMA Pushed ==
  ASSUME TypeOK, NEW f \in Frame
  PROVE  /\ Append(stack, f) \in Seq(Frame)
         /\ Len(Append(stack, f)) = Len(stack) + 1
         /\ DOMAIN Append(stack, f) = DOMAIN stack \cup {Len(stack) + 1}
         /\ \A i \in DOMAIN stack : Append(stack, f)[i] = stack[i]
         /\ Append(stack, f)[Len(stack) + 1] = f
BY DEF TypeOK

\* Returning pops one frame and leaves the others alone.
LEMMA RestOK ==
  ASSUME TypeOK, ~Idle
  PROVE  /\ Rest \in Seq(Frame)
         /\ DOMAIN Rest = DOMAIN stack \ {Len(stack)}
         /\ \A i \in DOMAIN Rest : Rest[i] = stack[i]
         /\ Len(stack) \in DOMAIN stack
         /\ \A i \in DOMAIN stack : i <= Len(stack)
         /\ Top \in Frame
<1>1. stack \in Seq(Frame) /\ stack # <<>> /\ Len(stack) \in Nat \ {0}
  BY EmptySeq DEF TypeOK, Idle
<1>2. /\ Rest \in Seq(Frame)
      /\ Len(Rest) = Len(stack) - 1
      /\ \A i \in 1 .. Len(stack) - 1 : Rest[i] = stack[i]
  BY <1>1, SubSeqProperties DEF Rest
<1>3. DOMAIN stack = 1 .. Len(stack) /\ DOMAIN Rest = 1 .. Len(stack) - 1
  BY <1>1, <1>2
<1> HIDE DEF Rest
<1>4. /\ DOMAIN Rest = DOMAIN stack \ {Len(stack)}
      /\ Len(stack) \in DOMAIN stack
      /\ \A i \in DOMAIN stack : i <= Len(stack)
  BY <1>1, <1>3
<1>5. stack[Len(stack)] \in Frame
  BY <1>1
<1>6. QED
  BY <1>2, <1>3, <1>4, <1>5 DEF Top

\* Replacing one frame leaves the others alone.
LEMMA Replaced ==
  ASSUME TypeOK, NEW i \in DOMAIN stack, NEW f \in Frame
  PROVE  /\ [stack EXCEPT ![i] = f] \in Seq(Frame)
         /\ DOMAIN [stack EXCEPT ![i] = f] = DOMAIN stack
         /\ \A j \in DOMAIN stack : [stack EXCEPT ![i] = f][j] = IF j = i THEN f ELSE stack[j]
BY DEF TypeOK

(***************************************************************************)
(* The inductive invariant.  While reconnect() waits in connect() it is    *)
(* the outermost call, the client is reconnecting and no timer is pending: *)
(* that is what keeps a nested failure from starting a second one.         *)
(***************************************************************************)

Autos ==
  \A i \in DOMAIN stack : stack[i].auto => i = 1 /\ client.mReconnecting /\ ~Pending(client)

ClientInv ==
  /\ Good(client)
  /\ Autos
  /\ BackoffIsReset
  /\ ExpectedResponseLive

IInv == TypeOK /\ ClientInv

\* A step that leaves the places of the frames alone, as far as the invariant cares.
SameShape(s) ==
  /\ DOMAIN s = DOMAIN stack
  /\ \A i \in DOMAIN stack :
       /\ s[i].auto = stack[i].auto
       /\ s[i].at \in WaitsForResponse <=> stack[i].at \in WaitsForResponse

\* A step that keeps the client and moves no frame keeps the invariant.
LEMMA KeepShape ==
  ASSUME ClientInv, Kept(client, client'), SameShape(stack')
  PROVE  ClientInv'
<1>1. Good(client)'
  BY DEF Kept, Good, SlotsOK, Pending
<1>2. Autos'
  BY DEF ClientInv, Autos, SameShape, Kept, Pending
<1>3. BackoffIsReset'
  BY DEF ClientInv, BackoffIsReset, Kept
<1>4. ExpectedResponseLive'
  BY DEF ClientInv, ExpectedResponseLive, SameShape, Kept, Waiting
<1>5. QED
  BY <1>1, <1>2, <1>3, <1>4 DEF ClientInv

\* A step that pushes a handler, or connect() called by the application.
LEMMA Push ==
  ASSUME TypeOK, ClientInv, Kept(client, client'),
         NEW f \in Frame, f.auto = FALSE, f.at \notin WaitsForResponse,
         stack' = Append(stack, f)
  PROVE  ClientInv'
<1>1. /\ DOMAIN stack' = DOMAIN stack \cup {Len(stack) + 1}
      /\ \A i \in DOMAIN stack : stack'[i] = stack[i]
      /\ stack'[Len(stack) + 1] = f
  BY Pushed
<1>2. Good(client)'
  BY DEF Kept, Good, SlotsOK, Pending
<1>3. Autos'
  BY <1>1 DEF ClientInv, Autos, Kept, Pending
<1>4. BackoffIsReset'
  BY DEF ClientInv, BackoffIsReset, Kept
<1>5. ExpectedResponseLive'
  BY <1>1 DEF ClientInv, ExpectedResponseLive, Kept, Waiting
<1>6. QED
  BY <1>2, <1>3, <1>4, <1>5 DEF ClientInv

\* The client as its innermost call or handler leaves it.
Leaving == IF Top.at \in WaitsForResponse THEN answered(client) ELSE client

\* Resetting mExpectedResponse disturbs nothing else.
LEMMA AnsweredIsGood ==
  ASSUME NEW c, Good(c)
  PROVE  /\ Good(answered(c))
         /\ answered(c).mExpectedResponse = 0
         /\ answered(c).mReconnecting = c.mReconnecting
         /\ answered(c).mReconnectDelay = c.mReconnectDelay
         /\ Pending(answered(c)) => Pending(c)
<1> DEFINE d == answered(c)
<1>1. /\ d \in ClientState
      /\ d.mExpectedResponse = 0
      /\ d.mReconnecting = c.mReconnecting
      /\ d.mReconnectDelay = c.mReconnectDelay
      /\ d.timers = c.timers
      /\ d.mReconnectTimerId = c.mReconnectTimerId
      /\ d.mMiscTimerId = c.mMiscTimerId
  BY DEF answered, Good, ClientState
<1> HIDE DEF d
<1>2. QED
  BY <1>1 DEF Good, SlotsOK, Pending, d

\* A step that pops the innermost frame, with the rest of reconnect() if connect()
\* returns to it.
LEMMA Pop ==
  ASSUME TypeOK, ClientInv, ~Idle, NEW c, Kept(Leaving, c), stack' = Rest,
         \/ client' = c
         \/ Top.auto /\ \E ok \in BOOLEAN : client' = reconnectReturns(c, ok)
  PROVE  ClientInv'
<1>1. /\ DOMAIN stack' = DOMAIN stack \ {Len(stack)}
      /\ \A i \in DOMAIN stack' : stack'[i] = stack[i]
      /\ Len(stack) \in DOMAIN stack
      /\ \A i \in DOMAIN stack : i <= Len(stack)
      /\ DOMAIN stack \subseteq Nat \ {0}
  BY RestOK DEF TypeOK
<1> DEFINE l == Leaving
<1>2. /\ Good(l)
      /\ l.mReconnecting = client.mReconnecting
      /\ l.mReconnectDelay = client.mReconnectDelay
      /\ Pending(l) => Pending(client)
  BY AnsweredIsGood DEF Leaving, ClientInv
<1>3. l.mExpectedResponse = IF Top.at \in WaitsForResponse THEN 0 ELSE client.mExpectedResponse
  BY AnsweredIsGood DEF Leaving, ClientInv
<1> HIDE DEF l
<1>4. Kept(l, c)
  BY DEF l
<1>5. /\ Good(client')
      /\ client'.mExpectedResponse = l.mExpectedResponse
      /\ client'.mReconnectDelay # BaseDelay => client'.mReconnecting
  <2>1. CASE client' = c
    BY <2>1, <1>2, <1>4 DEF Kept, ClientInv, BackoffIsReset
  <2>2. CASE Top.auto /\ \E ok \in BOOLEAN : client' = reconnectReturns(c, ok)
    <3>1. client.mReconnecting /\ ~Pending(client)
      BY <1>1, <2>2 DEF ClientInv, Autos, Top
    <3>2. Good(c) /\ c.mReconnecting /\ ~Pending(c)
      BY <1>2, <1>4, <3>1 DEF Kept
    <3>3. QED
      BY <2>2, <3>2, <1>4, ReconnectReturns DEF Kept
  <2>3. QED
    BY <2>1, <2>2
<1>6. Good(client)'
  BY <1>5 DEF Good, SlotsOK, Pending
<1>7. Autos'
  <2>1. CASE Top.auto
    BY <2>1, <1>1 DEF ClientInv, Autos, Top
  <2>2. CASE ~Top.auto
    <3>1. client' = c
      BY <2>2
    <3>2. client.mReconnecting /\ ~Pending(client) => client'.mReconnecting /\ ~Pending(client')
      BY <3>1, <1>2, <1>4 DEF Kept
    <3>3. QED
      BY <3>2, <1>1 DEF ClientInv, Autos, Pending
  <2>3. QED
    BY <2>1, <2>2
<1>8. BackoffIsReset'
  BY <1>5 DEF BackoffIsReset
<1>9. ExpectedResponseLive'
  BY <1>1, <1>3, <1>5 DEF ClientInv, ExpectedResponseLive, Waiting, Top
<1>10. QED
  BY <1>6, <1>7, <1>8, <1>9 DEF ClientInv

(***************************************************************************)
(* Each action keeps the invariant.                                        *)
(***************************************************************************)

\* The types of the variables that an action of the client seldom changes.
OtherTypes ==
  /\ accepted \in BOOLEAN
  /\ topics \in SUBSET {"client", "clients"}
  /\ owed \in SUBSET OwedRequest
  /\ gwSession \in Sessions
  /\ nextReq \in Nat \ {0}
  /\ result \in Result
  /\ told \in Sessions

\* The invariant from its parts.
LEMMA Together ==
  ASSUME OtherTypes', stack' \in Seq(Frame), ClientInv'
  PROVE  IInv'
BY DEF IInv, TypeOK, OtherTypes, ClientInv, Good

\* What the calls return is a result.
LEMMA ResultsOK ==
  /\ Nothing \in Result
  /\ \A call \in {"connect", "disconnect", "send", "sendRequest", "reconnect"}, ok \in BOOLEAN :
       Returned(call, ok) \in Result
BY DEF Nothing, Returned, Result

\* A step that leaves the client alone keeps it in order.
LEMMA NothingKept ==
  ASSUME ClientInv
  PROVE  Kept(client, client)
BY DEF ClientInv, Kept

\* A step that leaves the stack alone moves no frame.
LEMMA SameStack == SameShape(stack)
BY DEF SameShape

\* connect() opening a socket disturbs no timer.
LEMMA OpenKeeps ==
  ASSUME NEW c, NEW fd \in Fds, Good(c)
  PROVE  Kept(c, open(c, fd))
<1>1. open(c, fd) \in ClientState /\ SameTimers(c, open(c, fd))
  <2>1. c.watches \cup {fd} \in SUBSET Fds
    BY DEF Good, ClientState
  <2>2. QED
    BY <2>1 DEF Good, open, ClientState, SameTimers
<1>2. QED
  BY <1>1, SameTimersKeep

\* The frame connect() pushes for its first wait.
LEMMA ConnackFrame ==
  ASSUME TypeOK, MayRequest, NEW fd \in Fds, NEW auto \in BOOLEAN
  PROVE  LET f == [NewFrame("connack", fd) EXCEPT !.auto = auto, !.req = nextReq]
         IN  f \in Frame /\ f.auto = auto /\ f.at = "connack"
<1>1. NewFrame("connack", fd) \in Frame /\ NewFrame("connack", fd).at = "connack"
  BY NewFrameOK DEF Waits, NewFrame
<1>2. nextReq \in Sessions
  BY BoundsAssumption DEF TypeOK, MayRequest, Sessions
<1>3. QED
  BY <1>1, <1>2 DEF Frame

\* connect() keeps the types of the other variables.
LEMMA ConnectTypes ==
  ASSUME TypeOK, NEW c, NEW auto \in BOOLEAN, connect(c, auto),
         UNCHANGED <<owed, gwSession, told>>
  PROVE  OtherTypes'
<1>1. result' \in Result
  BY ResultsOK DEF connect, ConnectReturns
<1>2. /\ accepted' = accepted \/ accepted' = FALSE
      /\ topics' = topics \/ topics' = {}
      /\ nextReq' = nextReq \/ nextReq' = nextReq + 1
  BY DEF connect
<1>3. accepted' \in BOOLEAN /\ topics' \in SUBSET {"client", "clients"}
  BY <1>2 DEF TypeOK
<1>4. nextReq' \in Nat \ {0}
  BY <1>2 DEF TypeOK
<1>5. QED
  BY <1>1, <1>3, <1>4 DEF TypeOK, OtherTypes

\* connect() of the application pushes a frame that is not auto, so it may run
\* while reconnect() waits without counting as a second reconnect.
LEMMA ConnectStep ==
  ASSUME IInv, Connect
  PROVE  IInv'
<1>1. OtherTypes'
  BY ConnectTypes DEF IInv, Connect
<1>2. Good(client)
  BY DEF IInv, ClientInv
<1>3. CASE client' = client /\ stack' = stack
  BY <1>1, <1>3, NothingKept, SameStack, KeepShape, Together DEF IInv, TypeOK
<1>4. CASE client' = mosquittoClose(client) /\ stack' = stack
  BY <1>1, <1>2, <1>4, MosquittoCloseKeeps, SameStack, KeepShape, Together DEF IInv, TypeOK
<1>5. ASSUME MayRequest, NEW fd \in Fds, client' = open(client, fd),
             stack' = Append(stack, [NewFrame("connack", fd) EXCEPT !.auto = FALSE,
                                                                    !.req  = nextReq])
      PROVE  IInv'
  <2> DEFINE f == [NewFrame("connack", fd) EXCEPT !.auto = FALSE, !.req = nextReq]
  <2>1. f \in Frame /\ f.auto = FALSE /\ f.at = "connack"
    BY <1>5, ConnackFrame DEF IInv
  <2>2. stack' = Append(stack, f)
    BY <1>5
  <2> HIDE DEF f
  <2>3. f.at \notin WaitsForResponse
    BY <2>1 DEF WaitsForResponse
  <2>4. ClientInv'
    BY <1>2, <1>5, <2>1, <2>2, <2>3, OpenKeeps, Push DEF IInv
  <2>5. stack' \in Seq(Frame)
    BY <2>1, <2>2, Pushed DEF IInv
  <2>6. QED
    BY <1>1, <2>4, <2>5, Together
<1>6. QED
  BY <1>3, <1>4, <1>5 DEF Connect, connect, ConnectReturns

\* disconnect() stops timers and starts none.
LEMMA DisconnectStep ==
  ASSUME IInv, Disconnect
  PROVE  IInv'
<1>1. OtherTypes'
  BY ResultsOK DEF IInv, TypeOK, OtherTypes, Disconnect
<1>2. Kept(client, client') /\ stack' = stack
  BY DisconnectKeeps DEF IInv, ClientInv, Disconnect
<1>3. QED
  BY <1>1, <1>2, SameStack, KeepShape, Together DEF IInv, TypeOK

\* send() changes only what the gateway owes.
LEMMA SendStep ==
  ASSUME IInv, Send
  PROVE  IInv'
<1>1. \A t \in Types : Unawaited(t) \in OwedRequest
  BY MessageTypesOK DEF IInv, TypeOK, Unawaited, OwedRequest, ClientState, MessageTypes
<1>2. CanSend \in BOOLEAN
  BY DEF CanSend, IInv, TypeOK, ClientState
<1>3. OtherTypes'
  BY <1>1, <1>2, ResultsOK DEF IInv, TypeOK, OtherTypes, Send
<1>4. client' = client /\ stack' = stack
  BY DEF Send
<1>5. QED
  BY <1>3, <1>4, NothingKept, SameStack, KeepShape, Together DEF IInv, TypeOK

\* The pointer is set to the frame that sendRequest() pushes or login() enters.
LEMMA ExpectIsGood ==
  ASSUME NEW c, Good(c), NEW i \in Nat
  PROVE  /\ Good(expect(c, i))
         /\ expect(c, i).mExpectedResponse = i
         /\ expect(c, i).mReconnecting = c.mReconnecting
         /\ expect(c, i).mReconnectDelay = c.mReconnectDelay
         /\ Pending(expect(c, i)) => Pending(c)
<1> DEFINE d == expect(c, i)
<1>1. /\ d \in ClientState
      /\ d.mExpectedResponse = i
      /\ d.mReconnecting = c.mReconnecting
      /\ d.mReconnectDelay = c.mReconnectDelay
      /\ d.timers = c.timers
      /\ d.mReconnectTimerId = c.mReconnectTimerId
      /\ d.mMiscTimerId = c.mMiscTimerId
  BY DEF expect, Good, ClientState
<1> HIDE DEF d
<1>2. QED
  BY <1>1 DEF Good, SlotsOK, Pending, d

\* sendRequest() points mExpectedResponse to the frame it pushes.
LEMMA SendRequestStep ==
  ASSUME IInv, SendRequest
  PROVE  IInv'
<1>1. CASE UNCHANGED <<client, stack, owed, nextReq>>
  <2>1. OtherTypes'
    BY <1>1, ResultsOK DEF IInv, TypeOK, OtherTypes, SendRequest
  <2>2. QED
    BY <1>1, <2>1, NothingKept, SameStack, KeepShape, Together DEF IInv, TypeOK
<1>2. ASSUME CanSend, MayRequest, NEW t \in Types,
             client' = expect(client, Len(stack) + 1),
             stack' = Append(stack, [NewFrame("response", client.sock) EXCEPT
                               !.type = t, !.req = nextReq, !.key = client.mSessionInfo]),
             owed' = owed \cup {[req |-> nextReq, type |-> t, key |-> client.mSessionInfo]},
             nextReq' = nextReq + 1,
             result' = Nothing,
             UNCHANGED <<accepted, topics, gwSession, told>>
      PROVE  IInv'
  <2> DEFINE f == [NewFrame("response", client.sock) EXCEPT
                     !.type = t, !.req = nextReq, !.key = client.mSessionInfo]
  <2>1. /\ nextReq \in Sessions
        /\ client.mSessionInfo \in Sessions
        /\ client.sock \in Fds \cup {NoFd}
        /\ t \in MessageTypes
    BY <1>2, BoundsAssumption DEF IInv, TypeOK, MayRequest, Sessions, ClientState, MessageTypes
  <2>2. /\ NewFrame("response", client.sock) \in Frame
        /\ NewFrame("response", client.sock).at = "response"
        /\ NewFrame("response", client.sock).auto = FALSE
    BY <2>1, NewFrameOK DEF Waits, WaitsForResponse, NewFrame
  <2>3. f \in Frame /\ f.auto = FALSE /\ f.at = "response"
    BY <2>1, <2>2 DEF Frame
  <2>4. stack' = Append(stack, f)
    BY <1>2
  <2> HIDE DEF f
  <2>5. /\ stack' \in Seq(Frame)
        /\ DOMAIN stack' = DOMAIN stack \cup {Len(stack) + 1}
        /\ \A i \in DOMAIN stack : stack'[i] = stack[i]
        /\ stack'[Len(stack) + 1] = f
    BY <2>3, <2>4, Pushed DEF IInv
  <2>6. OtherTypes'
    <3>1. [req |-> nextReq, type |-> t, key |-> client.mSessionInfo] \in OwedRequest
      BY <2>1 DEF OwedRequest
    <3>2. QED
      BY <1>2, <3>1, ResultsOK DEF IInv, TypeOK, OtherTypes
  <2>7. /\ Len(stack) + 1 \in Nat
        /\ \A i \in DOMAIN stack : i <= Len(stack)
    BY DEF IInv, TypeOK
  <2>8. /\ Good(client')
        /\ client'.mExpectedResponse = Len(stack) + 1
        /\ client'.mReconnecting = client.mReconnecting
        /\ client'.mReconnectDelay = client.mReconnectDelay
        /\ Pending(client') => Pending(client)
    BY <1>2, <2>7, ExpectIsGood DEF IInv, ClientInv
  <2>9. Good(client)'
    BY <2>8 DEF Good, SlotsOK, Pending
  <2>10. Autos'
    BY <2>3, <2>5, <2>8 DEF IInv, ClientInv, Autos, Pending
  <2>11. BackoffIsReset'
    BY <2>8 DEF IInv, ClientInv, BackoffIsReset
  <2>12. ExpectedResponseLive'
    BY <2>3, <2>5, <2>7, <2>8 DEF ExpectedResponseLive, Waiting, WaitsForResponse
  <2>13. QED
    BY <2>5, <2>6, <2>9, <2>10, <2>11, <2>12, Together DEF ClientInv
<1>3. QED
  BY <1>1, <1>2 DEF SendRequest

\* The user data of the connection is no business of the timers.
LEMMA UserDataKeeps ==
  ASSUME NEW c, Good(c)
  PROVE  Kept(c, forgetContext(c)) /\ Kept(c, useSelf(c))
<1>1. forgetContext(c) \in ClientState /\ SameTimers(c, forgetContext(c))
  BY DEF Good, forgetContext, ClientState, SameTimers
<1>2. useSelf(c) \in ClientState /\ SameTimers(c, useSelf(c))
  BY DEF Good, useSelf, ClientState, SameTimers
<1>3. QED
  BY <1>1, <1>2, SameTimersKeep

\* The top frame knows whether reconnect() called it.
LEMMA AutoIsBoolean ==
  ASSUME TypeOK, ~Idle
  PROVE  Top.auto \in BOOLEAN
BY RestOK DEF Frame

\* connect() returns to the application or to reconnect().
LEMMA ConnectResults ==
  ASSUME NEW c, NEW auto \in BOOLEAN, NEW ok \in BOOLEAN, ConnectReturns(c, auto, ok)
  PROVE  /\ result' \in Result
         /\ \/ client' = c
            \/ auto /\ client' = reconnectReturns(c, ok)
BY ResultsOK DEF ConnectReturns

\* connect() pops its frame when the CONNACK is missing.
LEMMA ConnackMissingStep ==
  ASSUME IInv, ConnackMissing
  PROVE  IInv'
<1>1. ~Idle /\ Top.at = "connack"
  BY DEF ConnackMissing, At
<1>2. Leaving = client
  BY <1>1 DEF Leaving, WaitsForResponse
<1>3. Kept(Leaving, forgetContext(client))
  BY <1>2, UserDataKeeps DEF IInv, ClientInv
<1>4. ConnectReturns(forgetContext(client), Top.auto, FALSE)
  BY DEF ConnackMissing
<1>5. OtherTypes' /\ stack' = Rest /\ stack' \in Seq(Frame)
  BY <1>1, <1>4, ConnectResults, AutoIsBoolean, RestOK
     DEF IInv, TypeOK, OtherTypes, ConnackMissing
<1>6. ClientInv'
  BY <1>1, <1>3, <1>4, <1>5, ConnectResults, AutoIsBoolean, Pop DEF IInv
<1>7. QED
  BY <1>5, <1>6, Together

\* connect() goes on to login(), in the same frame, which now waits for a response.
LEMMA ConnackArrivedStep ==
  ASSUME IInv, ConnackArrived
  PROVE  IInv'
<1>1. ~Idle /\ Top.at = "connack"
  BY DEF ConnackArrived, At
<1>2. Leaving = client
  BY <1>1 DEF Leaving, WaitsForResponse
<1> DEFINE c == useSelf(client)
<1>3. Kept(client, c)
  BY UserDataKeeps DEF IInv, ClientInv
<1>4. Top \in Frame
  BY <1>1, RestOK DEF IInv
<1>5. CASE stack' = Rest /\ ConnectReturns(abandon(c), Top.auto, FALSE)
           /\ UNCHANGED <<topics, owed>>
  <2>1. Kept(Leaving, abandon(c))
    BY <1>2, <1>3, AbandonKeeps, KeptTransitive DEF Kept
  <2> HIDE DEF c
  <2>2. result' \in Result
    BY <1>1, <1>5, ConnectResults, AutoIsBoolean DEF IInv
  <2>3. OtherTypes' /\ stack' \in Seq(Frame)
    BY <1>1, <1>5, <2>2, RestOK DEF IInv, TypeOK, OtherTypes, ConnackArrived
  <2>4. ClientInv'
    BY <1>1, <1>5, <2>1, ConnectResults, AutoIsBoolean, Pop DEF IInv
  <2>5. QED
    BY <2>3, <2>4, Together
<1>6. CASE /\ topics' = topics \cup {"client"}
           /\ owed' = owed \cup {[req |-> Top.req, type |-> "login", key |-> 0]}
           /\ client' = expect(c, Len(stack))
           /\ ReplaceTop([NewFrame("login", c.sock) EXCEPT !.auto = Top.auto,
                                                           !.type = "login",
                                                           !.req  = Top.req])
           /\ result' = Nothing
  <2> DEFINE f == [NewFrame("login", c.sock) EXCEPT !.auto = Top.auto,
                                                    !.type = "login",
                                                    !.req  = Top.req]
  <2>1. c.sock \in Fds \cup {NoFd}
    BY <1>3 DEF Kept, Good, ClientState
  <2>2. f \in Frame /\ f.auto = Top.auto /\ f.at = "login"
    <3>1. /\ NewFrame("login", c.sock) \in Frame
          /\ NewFrame("login", c.sock).at = "login"
      BY <2>1, NewFrameOK DEF Waits, WaitsForResponse, NewFrame
    <3>2. Top.auto \in BOOLEAN /\ Top.req \in Sessions /\ "login" \in MessageTypes
      BY <1>4 DEF Frame, MessageTypes
    <3>3. QED
      BY <3>1, <3>2 DEF Frame
  <2>3. stack' = [stack EXCEPT ![Len(stack)] = f]
    BY <1>6 DEF ReplaceTop
  <2> HIDE DEF f
  <2>4. Len(stack) \in DOMAIN stack /\ Len(stack) \in Nat \ {0}
        /\ \A i \in DOMAIN stack : i <= Len(stack)
    BY <1>1, RestOK DEF IInv, TypeOK
  <2>5. /\ stack' \in Seq(Frame)
        /\ DOMAIN stack' = DOMAIN stack
        /\ \A j \in DOMAIN stack : stack'[j] = IF j = Len(stack) THEN f ELSE stack[j]
    BY <2>2, <2>3, <2>4, Replaced DEF IInv
  <2>6. OtherTypes'
    <3>1. [req |-> Top.req, type |-> "login", key |-> 0] \in OwedRequest
      BY <1>4, MessageTypesOK DEF Frame, OwedRequest
    <3>2. topics' \in SUBSET {"client", "clients"}
      BY <1>6 DEF IInv, TypeOK
    <3>3. QED
      BY <1>6, <3>1, <3>2, ResultsOK DEF IInv, TypeOK, OtherTypes, ConnackArrived
  <2> HIDE DEF c
  <2>7. /\ Good(client')
        /\ client'.mExpectedResponse = Len(stack)
        /\ client'.mReconnecting = c.mReconnecting
        /\ client'.mReconnectDelay = c.mReconnectDelay
        /\ Pending(client') => Pending(c)
    BY <1>3, <1>6, <2>4, ExpectIsGood DEF Kept
  <2>8. Good(client)'
    BY <2>7 DEF Good, SlotsOK, Pending
  <2>9. \A j \in DOMAIN stack : stack'[j].auto = stack[j].auto
    BY <2>2, <2>5 DEF Top
  <2>10. Autos'
    BY <1>3, <2>5, <2>7, <2>9 DEF IInv, ClientInv, Autos, Kept, Pending
  <2>11. BackoffIsReset'
    BY <1>3, <2>7 DEF IInv, ClientInv, BackoffIsReset, Kept
  <2>12. ExpectedResponseLive'
    BY <2>2, <2>4, <2>5, <2>7 DEF ExpectedResponseLive, Waiting, WaitsForResponse
  <2>13. QED
    BY <2>5, <2>6, <2>8, <2>10, <2>11, <2>12, Together DEF ClientInv
<1>7. QED
  BY <1>5, <1>6 DEF ConnackArrived

\* login() pops its frame and resets the pointer to it.
LEMMA LoginFailsStep ==
  ASSUME IInv, LoginFails
  PROVE  IInv'
<1>1. ~Idle /\ Top.at = "login"
  BY DEF LoginFails, At
<1>2. Leaving = answered(client)
  BY <1>1 DEF Leaving, WaitsForResponse
<1> DEFINE c == IF Top.error = "invalidSession"
                THEN handleInvalidSession(answered(client), FALSE) ELSE answered(client)
<1>3. Kept(Leaving, Leaving) /\ Good(answered(client))
  BY <1>2, AnsweredIsGood DEF IInv, ClientInv, Kept
<1>4. Kept(Leaving, c)
  BY <1>2, <1>3, HandleInvalidSessionKeeps
<1>5. ConnectReturns(abandon(c), Top.auto, FALSE) /\ stack' = Rest
  BY DEF LoginFails
<1> HIDE DEF c
<1>6. Kept(Leaving, abandon(c))
  BY <1>4, AbandonKeeps, KeptTransitive DEF Kept
<1>7. OtherTypes' /\ stack' \in Seq(Frame)
  <2>1. result' \in Result
    BY <1>1, <1>5, ConnectResults, AutoIsBoolean DEF IInv
  <2>2. QED
    BY <1>1, <1>5, <2>1, RestOK DEF IInv, TypeOK, OtherTypes, LoginFails
<1>8. ClientInv'
  BY <1>1, <1>5, <1>6, ConnectResults, AutoIsBoolean, Pop DEF IInv
<1>9. QED
  BY <1>7, <1>8, Together

\* login() opens the session, then connect() schedules mosquitto_loop_misc().
LEMMA LoginSucceedsStep ==
  ASSUME IInv, LoginSucceeds
  PROVE  IInv'
<1>1. ~Idle /\ Top.at = "login"
  BY DEF LoginSucceeds, At
<1>2. Leaving = answered(client)
  BY <1>1 DEF Leaving, WaitsForResponse
<1>3. Good(Leaving) /\ Top \in Frame
  BY <1>1, <1>2, AnsweredIsGood, RestOK DEF IInv, ClientInv
<1> DEFINE l == Leaving
           c == [l EXCEPT !.mSessionInfo = Top.got]
<1>4. stack' = Rest
  BY DEF LoginSucceeds
<1>5. \/ ConnectReturns(abandon(c), Top.auto, FALSE)
      \/ ConnectReturns(scheduleMisc(c), Top.auto, TRUE)
  BY <1>2 DEF LoginSucceeds
<1>6. topics' = topics \/ topics' = topics \cup {"clients"}
  BY DEF LoginSucceeds
<1>7. c \in ClientState /\ SameTimers(l, c)
  <2> HIDE DEF l
  <2>1. l \in ClientState /\ Top.got \in Sessions
    BY <1>3 DEF Good, Frame, l
  <2>2. QED
    BY <2>1 DEF ClientState, SameTimers
<1> HIDE DEF c
<1>8. Kept(l, c)
  BY <1>3, <1>7, SameTimersKeep
<1>9. Kept(l, abandon(c)) /\ Kept(l, scheduleMisc(c))
  BY <1>8, AbandonKeeps, ScheduleMiscKeeps, KeptTransitive DEF Kept
<1>10. OtherTypes' /\ stack' \in Seq(Frame)
  <2>1. result' \in Result
    BY <1>1, <1>5, ConnectResults, AutoIsBoolean DEF IInv
  <2>2. topics' \in SUBSET {"client", "clients"}
    BY <1>6 DEF IInv, TypeOK
  <2>3. QED
    BY <1>1, <1>4, <2>1, <2>2, RestOK DEF IInv, TypeOK, OtherTypes, LoginSucceeds
<1>11. ClientInv'
  <2>1. CASE ConnectReturns(abandon(c), Top.auto, FALSE)
    BY <1>1, <1>4, <1>9, <2>1, ConnectResults, AutoIsBoolean, Pop DEF IInv
  <2>2. CASE ConnectReturns(scheduleMisc(c), Top.auto, TRUE)
    BY <1>1, <1>4, <1>9, <2>2, ConnectResults, AutoIsBoolean, Pop DEF IInv
  <2>3. QED
    BY <1>5, <2>1, <2>2
<1>12. QED
  BY <1>10, <1>11, Together

\* sendRequest() pops its frame and resets the pointer to it.
LEMMA RequestEndsStep ==
  ASSUME IInv, RequestEnds
  PROVE  IInv'
<1>1. ~Idle /\ Top.at = "response"
  BY DEF RequestEnds, At
<1>2. Leaving = answered(client)
  BY <1>1 DEF Leaving, WaitsForResponse
<1>3. Kept(Leaving, Leaving) /\ Good(answered(client)) /\ Top \in Frame
  BY <1>1, <1>2, AnsweredIsGood, RestOK DEF IInv, ClientInv, Kept
<1>4. Kept(Leaving, client')
  BY <1>2, <1>3, HandleInvalidSessionKeeps DEF RequestEnds
<1>5. result' \in Result
  BY <1>3 DEF RequestEnds, Result, Frame
<1>6. OtherTypes' /\ stack' = Rest /\ stack' \in Seq(Frame)
  BY <1>1, <1>5, RestOK DEF IInv, TypeOK, OtherTypes, RequestEnds
<1>7. QED
  BY <1>1, <1>4, <1>6, Pop, Together DEF IInv

\* WaitReads and LoopReads
LEMMA StartReadingStep ==
  ASSUME IInv, StartReading
  PROVE  IInv'
<1> DEFINE f == NewFrame("read", client.sock)
<1>1. client.sock \in Fds \cup {NoFd}
  BY DEF IInv, TypeOK, ClientState
<1>2. f \in Frame /\ f.auto = FALSE /\ f.at \notin WaitsForResponse
  BY <1>1, NewFrameOK DEF Handlers, NewFrame, WaitsForResponse
<1>3. stack' = Append(stack, f) /\ client' = client
  BY DEF StartReading
<1> HIDE DEF f
<1>4. ClientInv'
  BY <1>2, <1>3, NothingKept, Push DEF IInv
<1>5. OtherTypes' /\ stack' \in Seq(Frame)
  BY <1>2, <1>3, Pushed, ResultsOK DEF IInv, TypeOK, OtherTypes, StartReading
<1>6. QED
  BY <1>4, <1>5, Together

\* The request a frame waits for, and the response it has.
SameRequest(f, g) ==
  /\ g.fd = f.fd /\ g.type = f.type /\ g.req = f.req
  /\ g.key = f.key /\ g.got = f.got

\* The CONNACK marks the wait of connect(), or through a dangling pointer any wait, as
\* done, and moves nothing.
LEMMA OnConnectCallback ==
  ASSUME TypeOK, NEW error \in {"none", "refused"}, NEW s \in onConnectCallback(error)
  PROVE  /\ s \in Seq(Frame)
         /\ DOMAIN s = DOMAIN stack
         /\ Len(s) = Len(stack)
         /\ \A i \in DOMAIN stack :
              /\ s[i] \in Frame
              /\ s[i].at = stack[i].at
              /\ s[i].auto = stack[i].auto
              /\ SameRequest(stack[i], s[i])
<1>1. /\ DOMAIN stack = 1 .. Len(stack) /\ Len(stack) \in Nat
      /\ stack = [i \in 1 .. Len(stack) |-> stack[i]]
  BY DEF TypeOK
<1> DEFINE Marks(f) == {f, [f EXCEPT !.done = TRUE], [f EXCEPT !.done = TRUE, !.error = error]}
<1>2. s = [i \in DOMAIN stack |-> s[i]] /\ \A i \in DOMAIN stack : s[i] \in Marks(stack[i])
  <2>1. CASE client.userData = "context"
    BY <2>1 DEF onConnectCallback
  <2>2. CASE client.userData = "dangling" /\ s # stack
    <3>1. PICK j \in DOMAIN stack : s = [stack EXCEPT ![j].done = TRUE]
      BY <2>2 DEF onConnectCallback
    <3>2. QED
      BY <1>1, <3>1
  <2>3. CASE s = stack
    BY <1>1, <2>3
  <2>4. QED
    BY <2>1, <2>2, <2>3 DEF onConnectCallback
<1>3. ASSUME NEW i \in DOMAIN stack
      PROVE  /\ s[i] \in Frame /\ s[i].at = stack[i].at /\ s[i].auto = stack[i].auto
             /\ SameRequest(stack[i], s[i])
  <2>1. stack[i] \in Frame
    BY DEF TypeOK
  <2>2. s[i] \in Marks(stack[i])
    BY <1>2
  <2>3. QED
    BY <2>1, <2>2 DEF Frame, SameRequest
<1> HIDE DEF Marks
<1>4. s \in Seq(Frame)
  <2>1. s \in [1 .. Len(stack) -> Frame]
    BY <1>1, <1>2, <1>3
  <2>2. QED
    BY <1>1, <2>1, SeqDef
<1>5. QED
  BY <1>1, <1>2, <1>3, <1>4

\* The CONNACK marks a frame and moves none.
LEMMA ReadConnackStep ==
  ASSUME IInv, ReadConnack
  PROVE  IInv'
<1>1. client' = client /\ stack' \in onConnectCallback("none")
  BY DEF ReadConnack
<1>2. SameShape(stack') /\ stack' \in Seq(Frame)
  BY <1>1, OnConnectCallback DEF IInv, SameShape
<1>3. OtherTypes'
  BY ResultsOK DEF IInv, TypeOK, OtherTypes, ReadConnack
<1>4. QED
  BY <1>1, <1>2, <1>3, NothingKept, KeepShape, Together DEF IInv

\* A step that pops a handler.
LEMMA PopHandler ==
  ASSUME IInv, At({"read", "next"}), Kept(client, client'), stack' = Rest, OtherTypes'
  PROVE  IInv'
<1>1. ~Idle /\ Leaving = client
  BY DEF At, Leaving, WaitsForResponse
<1>2. ClientInv'
  BY <1>1, Pop DEF IInv
<1>3. stack' \in Seq(Frame)
  BY <1>1, RestOK DEF IInv
<1>4. QED
  BY <1>2, <1>3, Together

\* The refused CONNACK marks a frame, and the read that delivered it fails.
LEMMA ReadRefusedStep ==
  ASSUME IInv, ReadRefused
  PROVE  IInv'
<1>0. PICK s \in onConnectCallback("refused") : stack' = SubSeq(s, 1, Len(stack) - 1)
  BY DEF ReadRefused
<1>1. /\ s \in Seq(Frame)
      /\ Len(s) = Len(stack)
      /\ \A i \in DOMAIN stack : s[i] \in Frame
      /\ \A i \in DOMAIN stack : s[i].at = stack[i].at /\ s[i].auto = stack[i].auto
  BY OnConnectCallback DEF IInv
<1>2. ~Idle /\ Top.at = "read"
  BY DEF ReadRefused, At
<1>3. stack' = SubSeq(s, 1, Len(stack) - 1)
  BY <1>0
<1>4. /\ Len(stack) \in Nat \ {0}
      /\ DOMAIN stack = 1 .. Len(stack)
      /\ \A i \in DOMAIN Rest : Rest[i] = stack[i]
      /\ DOMAIN Rest = DOMAIN stack \ {Len(stack)}
  BY <1>2, RestOK DEF IInv, TypeOK
<1>5. /\ stack' \in Seq(Frame)
      /\ Len(stack') = Len(stack) - 1
      /\ \A i \in 1 .. Len(stack) - 1 : stack'[i] = s[i]
  BY <1>1, <1>3, <1>4, SubSeqProperties
<1>6. /\ DOMAIN stack' = DOMAIN stack \ {Len(stack)}
      /\ \A i \in DOMAIN stack' : stack'[i].at = stack[i].at /\ stack'[i].auto = stack[i].auto
  <2>1. DOMAIN stack' = 1 .. Len(stack) - 1
    BY <1>5
  <2>2. QED
    BY <1>1, <1>4, <1>5, <2>1
<1>7. Kept(client, client')
  BY LoseKeeps DEF IInv, ClientInv, ReadRefused
<1>8. Good(client)'
  BY <1>7 DEF Kept, Good, SlotsOK, Pending
<1>9. Autos'
  BY <1>6, <1>7 DEF IInv, ClientInv, Autos, Kept, Pending
<1>10. BackoffIsReset'
  BY <1>7 DEF IInv, ClientInv, BackoffIsReset, Kept
<1>11. ExpectedResponseLive'
  BY <1>2, <1>6, <1>7
     DEF IInv, ClientInv, ExpectedResponseLive, Kept, Waiting, WaitsForResponse, Top
<1>12. OtherTypes'
  BY ResultsOK DEF IInv, TypeOK, OtherTypes, ReadRefused
<1>13. QED
  BY <1>5, <1>8, <1>9, <1>10, <1>11, <1>12, Together DEF ClientInv

\* A message is either the expected response or the client's own business.
LEMMA OnMessageStep ==
  ASSUME IInv, NEW topic, NEW m \in Message, onMessage(topic, m),
         owed' \in SUBSET OwedRequest, gwSession' \in Sessions,
         UNCHANGED <<accepted, topics, nextReq>>
  PROVE  IInv'
<1>1. OtherTypes'
  <2>1. told' \in Sessions /\ result' = Nothing
    BY DEF onMessage, IInv, TypeOK, Message
  <2>2. QED
    BY <2>1, ResultsOK DEF IInv, TypeOK, OtherTypes
<1>2. CASE /\ client.mExpectedResponse # 0
           /\ client' = client
           /\ stack' = [stack EXCEPT ![client.mExpectedResponse] = onExpectedResponse(@, m)]
  <2> DEFINE i == client.mExpectedResponse
             f == onExpectedResponse(stack[i], m)
  <2>1. i \in DOMAIN stack /\ stack[i] \in Frame
    BY <1>2 DEF IInv, TypeOK, ClientInv, ExpectedResponseLive
  <2>2. f \in Frame /\ f.auto = stack[i].auto /\ f.at = stack[i].at
    BY <2>1, ResponseFrame
  <2>3. stack' = [stack EXCEPT ![i] = f]
    BY <1>2
  <2> HIDE DEF f, i
  <2>4. stack' \in Seq(Frame) /\ SameShape(stack')
    BY <2>1, <2>2, <2>3, Replaced DEF IInv, SameShape
  <2>5. QED
    BY <1>1, <1>2, <2>4, NothingKept, KeepShape, Together DEF IInv
<1>3. CASE client' = onGeneralMessage(client, m) /\ stack' = stack
  <2>1. Kept(client, client')
    BY <1>3, OnGeneralMessageKeeps DEF IInv, ClientInv
  <2>2. QED
    BY <1>1, <1>3, <2>1, SameStack, KeepShape, Together DEF IInv, TypeOK
<1>4. QED
  BY <1>2, <1>3 DEF onMessage

\* The gateway's answers are messages, whether somebody waits for them or not.
LEMMA ReadAnswerStep ==
  ASSUME IInv, ReadAnswer
  PROVE  IInv'
<1>1. PICK r \in owed : \E m \in AnswersTo(r) :
        /\ onMessage("client", m)
        /\ owed' = owed \ {r}
        /\ gwSession' = IF r.type = "login" /\ m = Answer(r) THEN r.req ELSE gwSession
  BY DEF ReadAnswer
<1>2. r \in OwedRequest
  BY DEF IInv, TypeOK
<1>3. PICK m \in AnswersTo(r) : onMessage("client", m)
  BY <1>1
<1>4. m \in Message
  BY <1>2, <1>3, AnswersAreMessages
<1>5. owed' \in SUBSET OwedRequest /\ gwSession' \in Sessions
  BY <1>1, <1>2 DEF IInv, TypeOK, OwedRequest
<1>6. QED
  BY <1>3, <1>4, <1>5, OnMessageStep DEF ReadAnswer

\* So are its session events.
LEMMA ReadSessionEventStep ==
  ASSUME IInv, ReadSessionEvent
  PROVE  IInv'
<1>1. PICK kind \in {"expiring", "expired"} :
        /\ onMessage("client", Event(kind))
        /\ gwSession' = IF kind = "expired" THEN 0 ELSE gwSession
  BY DEF ReadSessionEvent
<1>2. Event(kind) \in Message
  BY EventsAreMessages DEF IInv
<1>3. owed' \in SUBSET OwedRequest
  BY DEF ReadSessionEvent, IInv, TypeOK
<1>4. gwSession' \in Sessions
  BY <1>1, MessageTypesOK DEF IInv, TypeOK
<1>5. QED
  BY <1>1, <1>2, <1>3, <1>4, OnMessageStep DEF ReadSessionEvent

\* So are its device events, and its word that the session is invalid.
LEMMA ReadDeviceEventStep ==
  ASSUME IInv, ReadDeviceEvent
  PROVE  IInv'
<1>1. Event("device") \in Message
  BY EventsAreMessages DEF IInv
<1>2. Refusal \in Message
  BY MessageTypesOK DEF Refusal, Message, Kinds
<1>3. owed' \in SUBSET OwedRequest /\ gwSession' \in Sessions
  BY DEF ReadDeviceEvent, IInv, TypeOK
<1>4. QED
  BY <1>1, <1>2, <1>3, OnMessageStep DEF ReadDeviceEvent

\* A step that moves the running handler to another of its places.
LEMMA MoveHandler ==
  ASSUME IInv, At(Handlers), NEW at \in Handlers, ReplaceTop([Top EXCEPT !.at = at]),
         Kept(client, client'), OtherTypes'
  PROVE  IInv'
<1> DEFINE f == [Top EXCEPT !.at = at]
<1>1. ~Idle /\ Top.at \in Handlers
  BY DEF At
<1>2. Len(stack) \in DOMAIN stack /\ Top \in Frame
  BY <1>1, RestOK DEF IInv
<1>3. f \in Frame /\ f.auto = Top.auto /\ f.at = at
  BY <1>2 DEF Frame
<1>4. Top.at \notin WaitsForResponse /\ at \notin WaitsForResponse
  BY <1>1 DEF Handlers, Callbacks, WaitsForResponse
<1>5. stack' = [stack EXCEPT ![Len(stack)] = f]
  BY DEF ReplaceTop
<1> HIDE DEF f
<1>6. stack' \in Seq(Frame) /\ SameShape(stack')
  BY <1>2, <1>3, <1>4, <1>5, Replaced DEF IInv, SameShape, Top
<1>7. QED
  BY <1>6, KeepShape, Together DEF IInv

\* The handler goes on to dispatch what was queued.
LEMMA ReadEndsStep ==
  ASSUME IInv, ReadEnds
  PROVE  IInv'
<1>1. OtherTypes' /\ client' = client
  BY ResultsOK DEF IInv, TypeOK, OtherTypes, ReadEnds
<1>2. At(Handlers) /\ "next" \in Handlers /\ ReplaceTop([Top EXCEPT !.at = "next"])
  BY DEF ReadEnds, At, Handlers
<1>3. QED
  BY <1>1, <1>2, NothingKept, MoveHandler DEF IInv

\* A failed read ends the handler and loses the connection.
LEMMA ReadFailsStep ==
  ASSUME IInv, ReadFails
  PROVE  IInv'
<1>1. OtherTypes'
  BY ResultsOK DEF IInv, TypeOK, OtherTypes, ReadFails
<1>2. At({"read", "next"}) /\ stack' = Rest
  BY DEF ReadFails, At
<1>3. Kept(client, client')
  BY LoseKeeps DEF IInv, ClientInv, ReadFails
<1>4. QED
  BY <1>1, <1>2, <1>3, PopHandler

\* Taking a message off the queue disturbs no timer.
LEMMA PoppedKeeps ==
  ASSUME ClientInv, client.mMessageQueue # <<>>
  PROVE  Kept(client, Popped)
<1>1. Tail(client.mMessageQueue) \in Seq(Queued)
  BY DEF ClientInv, Good, ClientState
<1>2. Popped \in ClientState /\ SameTimers(client, Popped)
  BY <1>1 DEF ClientInv, Good, ClientState, SameTimers, Popped
<1>3. QED
  BY <1>2, SameTimersKeep DEF ClientInv

\* Dispatching enters a callback, or finds that the session expired.
LEMMA DispatchNextStep ==
  ASSUME IInv, DispatchNext
  PROVE  IInv'
<1>1. OtherTypes'
  BY ResultsOK DEF IInv, TypeOK, OtherTypes, DispatchNext
<1>2. Kept(client, Popped)
  BY PoppedKeeps DEF IInv, DispatchNext
<1>3. Kept(client, handleInvalidSession(Popped, FALSE))
  BY <1>2, HandleInvalidSessionKeeps, KeptTransitive DEF Kept
<1>4. At(Handlers) /\ {"expiring", "subscriber"} \subseteq Handlers
  BY DEF DispatchNext, At, Handlers, Callbacks
<1>5. CASE client' = handleInvalidSession(Popped, FALSE) /\ stack' = stack
  BY <1>1, <1>3, <1>5, SameStack, KeepShape, Together DEF IInv, TypeOK
<1>6. CASE client' = Popped /\ ReplaceTop([Top EXCEPT !.at = "expiring"])
  BY <1>1, <1>2, <1>4, <1>6, MoveHandler
<1>7. CASE client' = Popped /\ ReplaceTop([Top EXCEPT !.at = "subscriber"])
  BY <1>1, <1>2, <1>4, <1>7, MoveHandler
<1>8. QED
  BY <1>5, <1>6, <1>7 DEF DispatchNext

\* A callback returns to dispatchQueuedMessages().
LEMMA CallbackReturnsStep ==
  ASSUME IInv, CallbackReturns
  PROVE  IInv'
<1>1. KeepAlive # "none" => Unawaited(KeepAlive) \in OwedRequest
  BY MessageTypesOK, TypesAssumption
     DEF IInv, TypeOK, Unawaited, OwedRequest, ClientState, MessageTypes
<1>2. OtherTypes' /\ client' = client
  BY <1>1, ResultsOK DEF IInv, TypeOK, OtherTypes, CallbackReturns
<1>3. At(Handlers) /\ "next" \in Handlers /\ ReplaceTop([Top EXCEPT !.at = "next"])
  BY DEF CallbackReturns, At, Handlers
<1>4. QED
  BY <1>2, <1>3, NothingKept, MoveHandler DEF IInv

\* The handler ends with a write, which may lose the connection.
LEMMA HandlerEndsStep ==
  ASSUME IInv, HandlerEnds
  PROVE  IInv'
<1>1. OtherTypes'
  BY ResultsOK DEF IInv, TypeOK, OtherTypes, HandlerEnds
<1>2. At({"read", "next"}) /\ stack' = Rest
  BY DEF HandlerEnds, At
<1>3. Kept(client, client')
  BY LoseKeeps, NothingKept DEF IInv, ClientInv, HandlerEnds
<1>4. QED
  BY <1>1, <1>2, <1>3, PopHandler

\* The loop releases the slot of the one pending timer before reconnect() runs.
LEMMA FireReconnectStep ==
  ASSUME IInv, FireReconnect
  PROVE  IInv'
<1>1. PICK t \in TimerIds :
        /\ client.timers[t] = "reconnect"
        /\ IF client.mReconnecting THEN connect(stopTimer(client, t), TRUE)
           ELSE /\ client' = stopTimer(client, t)
                /\ result' = Nothing
                /\ UNCHANGED <<accepted, topics, nextReq, stack>>
  BY DEF FireReconnect
<1> DEFINE c == stopTimer(client, t)
<1>2. Kept(client, c) /\ Good(c)
  BY StopKeeps DEF IInv, ClientInv, Kept
<1>3. ~Pending(c)
  BY <1>1, StopTimer DEF IInv, ClientInv, Good, SlotsOK, Pending
<1>4. client.mReconnecting
  BY <1>1 DEF IInv, ClientInv, Good, Pending
<1>5. c.mReconnecting /\ c.mExpectedResponse = client.mExpectedResponse
  BY <1>2, <1>4 DEF Kept
<1> HIDE DEF c
<1>6. connect(c, TRUE) /\ Idle /\ UNCHANGED <<owed, gwSession, told>>
  BY <1>1, <1>4 DEF FireReconnect, c
<1>7. OtherTypes'
  BY <1>6, ConnectTypes DEF IInv
<1>8. DOMAIN stack = {} /\ Len(stack) = 0
  BY <1>6 DEF Idle
<1>9. client.mExpectedResponse = 0
  BY <1>8 DEF IInv, ClientInv, ExpectedResponseLive
<1>10. ASSUME NEW d, Kept(c, d), NEW ok \in BOOLEAN,
              client' = reconnectReturns(d, ok), stack' = stack
       PROVE  IInv'
  <2>1. d.mReconnecting /\ ~Pending(d) /\ Good(d) /\ d.mExpectedResponse = 0
    BY <1>3, <1>5, <1>9, <1>10 DEF Kept
  <2>2. /\ Good(client')
        /\ client'.mExpectedResponse = 0
        /\ client'.mReconnectDelay # BaseDelay => client'.mReconnecting
    BY <1>10, <2>1, ReconnectReturns
  <2>3. ClientInv'
    BY <1>8, <1>10, <2>2
       DEF ClientInv, Good, SlotsOK, Pending, Autos, BackoffIsReset, ExpectedResponseLive
  <2>4. QED
    BY <1>7, <1>10, <2>3, Together DEF IInv, TypeOK
<1>11. CASE ConnectReturns(c, TRUE, TRUE) /\ stack' = stack
  <2>1. Kept(c, c)
    BY <1>2 DEF Kept
  <2>2. QED
    BY <1>10, <1>11, <2>1 DEF ConnectReturns
<1>12. CASE ConnectReturns(mosquittoClose(c), TRUE, FALSE) /\ stack' = stack
  <2>1. Kept(c, mosquittoClose(c))
    BY <1>2, MosquittoCloseKeeps
  <2>2. QED
    BY <1>10, <1>12, <2>1 DEF ConnectReturns
<1>13. ASSUME MayRequest, NEW fd \in Fds, client' = open(c, fd),
              stack' = Append(stack, [NewFrame("connack", fd) EXCEPT !.auto = TRUE,
                                                                     !.req  = nextReq])
       PROVE  IInv'
  <2> DEFINE f == [NewFrame("connack", fd) EXCEPT !.auto = TRUE, !.req = nextReq]
  <2>1. f \in Frame
    BY <1>13, ConnackFrame DEF IInv
  <2>2. stack' = Append(stack, f)
    BY <1>13
  <2> HIDE DEF f
  <2>3. stack' \in Seq(Frame) /\ DOMAIN stack' = {1}
    BY <1>8, <2>1, <2>2, Pushed DEF IInv
  <2>4. Kept(c, client')
    BY <1>2, <1>13, OpenKeeps
  <2>5. /\ Good(client')
        /\ client'.mReconnecting /\ ~Pending(client')
        /\ client'.mExpectedResponse = 0
    BY <1>3, <1>5, <1>9, <2>4 DEF Kept
  <2>6. ClientInv'
    BY <2>3, <2>5
       DEF ClientInv, Good, SlotsOK, Pending, Autos, BackoffIsReset, ExpectedResponseLive
  <2>7. QED
    BY <1>7, <2>3, <2>6, Together
<1>14. QED
  BY <1>6, <1>11, <1>12, <1>13 DEF connect

\* handleMisc() schedules itself again, or finds the connection lost.
LEMMA FireMiscStep ==
  ASSUME IInv, FireMisc
  PROVE  IInv'
<1>1. PICK t \in TimerIds :
        \/ client' = stopTimer(client, t)
        \/ client' = lose(stopTimer(client, t))
        \/ client' = scheduleMisc(stopTimer(client, t))
  BY DEF FireMisc
<1> DEFINE c == stopTimer(client, t)
<1>2. Kept(client, c)
  BY StopKeeps DEF IInv, ClientInv
<1> HIDE DEF c
<1>3. Kept(client, lose(c)) /\ Kept(client, scheduleMisc(c))
  BY <1>2, LoseKeeps, ScheduleMiscKeeps, KeptTransitive DEF Kept
<1>4. Kept(client, client')
  BY <1>1, <1>2, <1>3 DEF c
<1>5. OtherTypes' /\ stack' = stack
  BY ResultsOK DEF IInv, TypeOK, OtherTypes, FireMisc
<1>6. QED
  BY <1>4, <1>5, SameStack, KeepShape, Together DEF IInv, TypeOK

\* The client does not notice a session that lapses.
LEMMA SessionLapsesStep ==
  ASSUME IInv, SessionLapses
  PROVE  IInv'
<1>1. OtherTypes' /\ client' = client /\ stack' = stack
  BY ResultsOK, MessageTypesOK DEF IInv, TypeOK, OtherTypes, SessionLapses
<1>2. QED
  BY <1>1, NothingKept, SameStack, KeepShape, Together DEF IInv, TypeOK

(***************************************************************************)
(* The theorems.                                                           *)
(***************************************************************************)

\* The invariant holds of a client that was just built.
LEMMA InitIInv == ASSUME Init PROVE IInv
<1>1. client \in ClientState
  <2>1. 0 \in Sessions /\ BaseDelay \in Nat \ {0} /\ 0 \in Nat /\ <<>> \in Seq(Queued)
    BY BackoffAssumption, MessageTypesOK
  <2>2. [t \in TimerIds |-> "free"] \in [TimerIds -> {"free", "reconnect", "misc"}]
    OBVIOUS
  <2>3. QED
    BY <2>1, <2>2 DEF Init, ClientState
<1>2. \A t \in TimerIds : client.timers[t] = "free"
  BY DEF Init
<1>3. Good(client)
  BY <1>1, <1>2 DEF Good, SlotsOK, Pending
<1>4. stack = <<>> /\ DOMAIN stack = {} /\ client.mExpectedResponse = 0
      /\ client.mReconnectDelay = BaseDelay
  BY DEF Init
<1>5. ClientInv
  BY <1>3, <1>4 DEF ClientInv, Autos, BackoffIsReset, ExpectedResponseLive
<1>6. TypeOK
  <2>1. stack \in Seq(Frame) /\ nextReq \in Nat \ {0} /\ gwSession \in Sessions /\ told \in Sessions
    BY <1>4, MessageTypesOK DEF Init
  <2>2. QED
    BY <1>1, <2>1, ResultsOK DEF Init, TypeOK
<1>7. QED
  BY <1>5, <1>6 DEF IInv

\* Every step keeps the invariant.
LEMMA NextIInv == ASSUME IInv, [Next]_vars PROVE IInv'
<1>1. CASE UNCHANGED vars
  <2>1. OtherTypes' /\ client' = client /\ stack' = stack
    BY <1>1 DEF vars, IInv, TypeOK, OtherTypes
  <2>2. QED
    BY <2>1, NothingKept, SameStack, KeepShape, Together DEF IInv, TypeOK
<1>2. CASE Application
  BY <1>2, ConnectStep, DisconnectStep, SendStep, SendRequestStep DEF Application
<1>3. CASE WaitEnds
  BY <1>3, ConnackMissingStep, ConnackArrivedStep, LoginFailsStep, LoginSucceedsStep,
     RequestEndsStep DEF WaitEnds
<1>4. CASE WaitReads \/ LoopReads
  BY <1>4, StartReadingStep DEF WaitReads, LoopReads
<1>5. CASE Reads
  BY <1>5, ReadConnackStep, ReadRefusedStep, ReadAnswerStep, ReadSessionEventStep,
     ReadDeviceEventStep, ReadEndsStep, ReadFailsStep DEF Reads
<1>6. CASE DispatchNext \/ CallbackReturns \/ HandlerEnds
  BY <1>6, DispatchNextStep, CallbackReturnsStep, HandlerEndsStep
<1>7. CASE Timers
  BY <1>7, FireReconnectStep, FireMiscStep DEF Timers
<1>8. CASE SessionLapses
  BY <1>8, SessionLapsesStep
<1>9. QED
  BY <1>1, <1>2, <1>3, <1>4, <1>5, <1>6, <1>7, <1>8 DEF Next

\* The inductive invariant holds in every reachable state.
THEOREM Invariance == Spec => []IInv
<1>1. Init => IInv
  BY InitIInv
<1>2. IInv /\ [Next]_vars => IInv'
  BY NextIInv
<1>3. QED
  BY <1>1, <1>2, PTL DEF Spec

\* Every variable keeps its type.
THEOREM TypeCorrect == Spec => []TypeOK
<1>1. IInv => TypeOK
  BY DEF IInv
<1>2. QED
  BY <1>1, Invariance, PTL

\* The background reconnect is scheduled at most once, and only while the client is
\* reconnecting and not already connecting.
THEOREM OneReconnectTimer == Spec => []ReconnectTimer
<1>1. IInv => ReconnectTimer
  BY DEF IInv, ClientInv, Good, SlotsOK, Pending, Autos, ReconnectTimer, ReconnectTimers
<1>2. QED
  BY <1>1, Invariance, PTL

\* The client runs one chain of mosquitto_loop_misc() calls.
THEOREM OneMiscTimer == Spec => []MiscTimer
<1>1. IInv => MiscTimer
  BY DEF IInv, ClientInv, Good, SlotsOK, MiscTimer, MiscTimers
<1>2. QED
  BY <1>1, Invariance, PTL

\* mExpectedResponse points to the frame of the innermost call that waits.
THEOREM ExpectedResponseIsLive == Spec => []ExpectedResponseLive
<1>1. IInv => ExpectedResponseLive
  BY DEF IInv, ClientInv
<1>2. QED
  BY <1>1, Invariance, PTL

\* The backoff starts anew after a reconnect that succeeded.
THEOREM BackoffStartsAnew == Spec => []BackoffIsReset
<1>1. IInv => BackoffIsReset
  BY DEF IInv, ClientInv
<1>2. QED
  BY <1>1, Invariance, PTL

\* disconnect() of a connected client stops the two timers it may own.
LEMMA DisconnectStops ==
  ASSUME IInv, client.mConnected, Disconnect
  PROVE  /\ ReconnectTimers' = {} /\ MiscTimers' = {}
         /\ client.sock \notin client'.watches
<1> DEFINE e == stopTimer(client, client.mReconnectTimerId)
           g == stopTimer(e, client.mMiscTimerId)
<1>1. /\ e \in ClientState /\ SameElse(client, e)
      /\ \A t \in TimerIds : e.timers[t] =
           IF t = client.mReconnectTimerId THEN "free" ELSE client.timers[t]
  BY StopTimer DEF IInv, TypeOK
<1> HIDE DEF e
<1>2. /\ g \in ClientState /\ g.watches = client.watches
      /\ \A t \in TimerIds : g.timers[t] = IF t = client.mMiscTimerId THEN "free" ELSE e.timers[t]
  BY <1>1, StopTimer DEF SameElse
<1>3. client' = [g EXCEPT !.mSessionInfo = 0,
                          !.watches      = @ \ {client.sock},
                          !.sock         = NoFd,
                          !.mConnected   = FALSE]
  BY DEF Disconnect, disconnect, g, e
<1> HIDE DEF g
<1>4. client'.timers = g.timers /\ client'.watches = client.watches \ {client.sock}
  BY <1>2, <1>3 DEF ClientState
<1>5. \A t \in TimerIds : client'.timers[t] \notin {"reconnect", "misc"}
  BY <1>1, <1>2, <1>4 DEF IInv, ClientInv, Good, SlotsOK
<1>6. QED
  BY <1>4, <1>5 DEF ReconnectTimers, MiscTimers

\* disconnect() of a connected client leaves no timer and no watch of it on the loop.
THEOREM DisconnectIsClean == Spec => DisconnectLeavesNothing
<1> DEFINE Clean == client.mConnected /\ result'.call = "disconnect"
                      => /\ ReconnectTimers' = {} /\ MiscTimers' = {}
                         /\ client.sock \notin client'.watches
<1>1. IInv /\ [Next]_vars => [Clean]_vars
  <2> SUFFICES ASSUME IInv, Next PROVE Clean
    OBVIOUS
  <2>1. CASE Disconnect
    BY <2>1, DisconnectStops
  <2>2. CASE ~Disconnect
    <3> SUFFICES result'.call # "disconnect"
      BY DEF Clean
    <3>1. \A c, auto, ok : ConnectReturns(c, auto, ok) => result'.call # "disconnect"
      BY DEF ConnectReturns, Returned
    <3>2. Nothing.call # "disconnect"
      BY DEF Nothing
    <3>3. \A c, auto : connect(c, auto) => result'.call # "disconnect"
      BY <3>1, <3>2 DEF connect
    <3>4. CASE Connect \/ FireReconnect
      BY <3>2, <3>3, <3>4 DEF Connect, FireReconnect
    <3>5. CASE Send \/ SendRequest \/ RequestEnds
      <4>1. \A call, ok : Returned(call, ok).call = call
        BY DEF Returned
      <4>2. CASE Send
        <5>1. result'.call = "send"
          BY <4>2 DEF Send, Returned
        <5>2. QED
          BY <5>1
      <4>3. CASE SendRequest
        <5>1. result' = Returned("sendRequest", FALSE) \/ result' = Nothing
          BY <4>3 DEF SendRequest
        <5>2. QED
          BY <3>2, <4>1, <5>1
      <4>4. CASE RequestEnds
        BY <4>4 DEF RequestEnds
      <4>5. QED
        BY <3>5, <4>2, <4>3, <4>4
    <3>6. CASE ConnackMissing \/ ConnackArrived \/ LoginFails \/ LoginSucceeds
      BY <3>1, <3>2, <3>6 DEF ConnackMissing, ConnackArrived, LoginFails, LoginSucceeds
    <3>7. CASE WaitReads \/ LoopReads \/ Reads
      <4>1. \A topic, m : onMessage(topic, m) => result' = Nothing
        BY DEF onMessage
      <4>2. CASE ReadAnswer \/ ReadSessionEvent \/ ReadDeviceEvent
        BY <3>2, <4>1, <4>2 DEF ReadAnswer, ReadSessionEvent, ReadDeviceEvent
      <4>3. CASE WaitReads \/ LoopReads
        BY <3>2, <4>3 DEF WaitReads, LoopReads, StartReading
      <4>4. CASE ReadConnack \/ ReadRefused \/ ReadEnds \/ ReadFails
        BY <3>2, <4>4 DEF ReadConnack, ReadRefused, ReadEnds, ReadFails
      <4>5. QED
        BY <3>7, <4>2, <4>3, <4>4 DEF Reads
    <3>8. CASE DispatchNext \/ CallbackReturns \/ HandlerEnds \/ FireMisc \/ SessionLapses
      BY <3>2, <3>8 DEF DispatchNext, CallbackReturns, HandlerEnds, FireMisc, SessionLapses
    <3>9. QED
      BY <2>2, <3>4, <3>5, <3>6, <3>7, <3>8 DEF Next, Application, WaitEnds, Timers
  <2>3. QED
    BY <2>1, <2>2
<1>2. QED
  BY <1>1, Invariance, PTL DEF Spec, DisconnectLeavesNothing

=============================================================================
