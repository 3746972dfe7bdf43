------------------------ MODULE ClientsOnLoopProofs ------------------------
(***************************************************************************)
(* Proofs about ClientsOnLoop, for any number of clients, timer slots,     *)
(* socket watches and descriptors.                                         *)
(***************************************************************************)
EXTENDS ClientsOnLoop, FiniteSetTheorems, WellFoundedInduction, TLAPS

\* Free slots, free watches and free descriptors are sets of numbers: the least of one
\* that is not empty is in it.
LEMMA MinIsIn ==
  ASSUME NEW S \in SUBSET Nat, S # {}
  PROVE  Min(S) \in S
<1>1. PICK x \in S : \A y \in S : ~(y < x)
  <2> DEFINE Less == {p \in Nat \X Nat : p[1] < p[2]}
  <2>1. IsWellFoundedOn(Less, Nat)
    BY NatLessThanWellFounded DEF OpToRel
  <2>2. \E x \in S : \A y \in S : <<y, x>> \notin Less
    <3> HIDE DEF Less
    <3> QED  BY <2>1, WFMin
  <2>3. QED
    BY <2>2
<1>2. \A y \in S : x <= y
  BY <1>1
<1>3. QED
  BY <1>2 DEF Min

(***************************************************************************)
(* The invariant, of the tables a function of a client is given and those  *)
(* it leaves.                                                              *)
(***************************************************************************)

State ==
  [ clients : [Clients -> Client],
    timers  : [TimerIds -> Timer \cup {NoTimer}],
    watches : [WatchIds -> Watch \cup {NoWatch}] ]

\* A timer is the one its client's id names, and a reconnect timer is pending only while
\* the client says that it is reconnecting.
Named(s) ==
  \A c \in Clients : s.clients[c].alive =>
    \A t \in TimerIds : s.timers[t].client = c =>
      IF s.timers[t].callback = "misc" THEN t = s.clients[c].mMiscTimerId
      ELSE t = s.clients[c].mReconnectTimerId /\ s.clients[c].mReconnecting

\* A client that is gone is not connected: the destructor's disconnect().
ConnectedLives(s) ==
  \A c \in Clients : s.clients[c].mConnected => s.clients[c].alive

\* No two clients have the same open socket.
Apart(s) ==
  \A c, d \in Clients :
    s.clients[c].sock # kInvalidFd /\ s.clients[c].sock = s.clients[d].sock => c = d

\* No descriptor is watched twice.
WatchedOnce(s) ==
  \A v, w \in WatchIds :
    s.watches[v].fd # kInvalidFd /\ s.watches[v].fd = s.watches[w].fd => v = w

\* There is a place for every descriptor in the table of watches.
RoomToWatch == IsFiniteSet(Fds) /\ Cardinality(Fds) <= WatchCount

Handled(s) ==
  \A c \in Clients : s.clients[c].mConnected /\ s.clients[c].sock # kInvalidFd =>
    \E w \in WatchIds : s.watches[w] = [fd |-> s.clients[c].sock, handler |-> c]

Good(s) ==
  /\ s \in State
  /\ Named(s) /\ ConnectedLives(s) /\ Apart(s) /\ WatchedOnce(s)
  /\ RoomToWatch => Handled(s)

NoReconnect(s, c) == \A t \in TimerIds : s.timers[t] # [callback |-> "reconnect", client |-> c]

\* What the functions that c calls keep: the clients that are alive, and, while c is
\* reconnecting, that it is and that nobody but reconnect() schedules the next attempt.
Keeps(s, d, c) ==
  /\ Good(d)
  /\ \A b \in Clients : d.clients[b].alive = s.clients[b].alive
  /\ s.clients[c].mReconnecting =>
       d.clients[c].mReconnecting /\ (NoReconnect(s, c) => NoReconnect(d, c))

\* The functions compose as the calls do.
LEMMA KeepsTransitive ==
  ASSUME NEW s, NEW d, NEW e, NEW c \in Clients, Keeps(s, d, c), Keeps(d, e, c)
  PROVE  Keeps(s, e, c)
BY DEF Keeps

\* A function that returns early.
LEMMA StayKeeps ==
  ASSUME NEW s, NEW c \in Clients, Good(s)
  PROVE  Keeps(s, s, c)
BY DEF Keeps

(***************************************************************************)
(* The loop's tables.                                                      *)
(***************************************************************************)

\* No slot, or a free one.
LEMMA FreeSlotIsFree ==
  ASSUME NEW s
  PROVE  /\ FreeSlot(s) \in TimerIds \cup {kInvalidTimerId}
         /\ FreeSlot(s) \in TimerIds => s.timers[FreeSlot(s)] = NoTimer
<1>1. FreeTimers(s) \in SUBSET Nat
  BY ClientsAssumption DEF FreeTimers, TimerIds
<1>2. kInvalidTimerId \notin TimerIds
  BY ClientsAssumption DEF TimerIds, kInvalidTimerId
<1>3. QED
  BY <1>1, <1>2, MinIsIn DEF FreeSlot, FreeTimers

\* One slot changes.
LEMMA OccupyOneSlot ==
  ASSUME NEW s \in State, NEW id, NEW timer \in Timer \cup {NoTimer}
  PROVE  LET d == occupy(s, id, timer)
         IN  /\ d \in State
             /\ d.clients = s.clients /\ d.watches = s.watches
             /\ \A t \in TimerIds : d.timers[t] = IF t = id THEN timer ELSE s.timers[t]
<1> DEFINE table == [t \in TimerIds |-> IF t = id THEN timer ELSE s.timers[t]]
<1>1. table \in [TimerIds -> Timer \cup {NoTimer}]
  BY DEF State
<1>2. occupy(s, id, timer) = [s EXCEPT !.timers = table]
  BY DEF occupy
<1>3. \A t \in TimerIds : table[t] = IF t = id THEN timer ELSE s.timers[t]
  OBVIOUS
<1> HIDE DEF table
<1>4. QED
  BY <1>1, <1>2, <1>3 DEF State

\* A slot that is in use belongs to a client, and one of nobody is free.
LEMMA OwnersOfSlots ==
  ASSUME NEW s \in State, NEW t \in TimerIds, NEW c \in Clients
  PROVE  /\ NoTimer.client # c /\ NoTimer \notin Timer
         /\ s.timers[t].client = c <=>
              \/ s.timers[t] = [callback |-> "reconnect", client |-> c]
              \/ s.timers[t] = [callback |-> "misc", client |-> c]
<1>1. NoTimer.client # c /\ NoTimer \notin Timer
  BY ClientsAssumption DEF NoTimer, Timer
<1>2. s.timers[t] \in Timer \/ s.timers[t] = NoTimer
  BY DEF State
<1>3. QED
  BY <1>1, <1>2 DEF Timer

\* stopTimer() takes a timer away.
LEMMA StopKeeps ==
  ASSUME NEW s, NEW id, Good(s)
  PROVE  LET d == stopTimer(s, id)
         IN  /\ Good(d)
             /\ d.clients = s.clients /\ d.watches = s.watches
             /\ \A t \in TimerIds : d.timers[t] = IF t = id THEN NoTimer ELSE s.timers[t]
             /\ \A c \in Clients : Keeps(s, d, c)
<1> DEFINE d == stopTimer(s, id)
<1>1. /\ d \in State
      /\ d.clients = s.clients /\ d.watches = s.watches
      /\ \A t \in TimerIds : d.timers[t] = IF t = id THEN NoTimer ELSE s.timers[t]
  BY OccupyOneSlot DEF stopTimer, Good
<1> HIDE DEF d
<1>2. \A c \in Clients : NoTimer # [callback |-> "reconnect", client |-> c] /\ NoTimer.client # c
  BY ClientsAssumption DEF NoTimer
<1>3. Named(d)
  BY <1>1, <1>2 DEF Good, Named
<1>4. Good(d)
  BY <1>1, <1>3 DEF Good, ConnectedLives, Apart, WatchedOnce, Handled
<1>5. \A c \in Clients : Keeps(s, d, c)
  BY <1>1, <1>2, <1>4 DEF Keeps, NoReconnect
<1>6. QED
  BY <1>1, <1>4, <1>5 DEF d

\* One client changes, and no watch.
ClientBecomes(s, d, c, r) ==
  /\ d \in State /\ d.watches = s.watches
  /\ \A b \in Clients : d.clients[b] = IF b = c THEN r ELSE s.clients[b]

\* Only the record of c is written.
LEMMA SetClient ==
  ASSUME NEW s \in State, NEW c \in Clients, NEW r \in Client, NEW d,
         d = [s EXCEPT !.clients = [s.clients EXCEPT ![c] = r]]
  PROVE  ClientBecomes(s, d, c, r) /\ d.timers = s.timers
BY DEF State, ClientBecomes

\* startTimer() for the next attempt to connect.
LEMMA StartReconnectTimer ==
  ASSUME NEW s \in State, NEW c \in Clients
  PROVE  LET d == startReconnectTimer(s, c)
         IN  /\ ClientBecomes(s, d, c, [s.clients[c] EXCEPT !.mReconnectTimerId = FreeSlot(s)])
             /\ \A t \in TimerIds :
                  d.timers[t] = IF t = FreeSlot(s) THEN [callback |-> "reconnect", client |-> c]
                                ELSE s.timers[t]
<1> DEFINE timer == [callback |-> "reconnect", client |-> c]
           e == occupy(s, FreeSlot(s), timer)
           d == startReconnectTimer(s, c)
<1>1. timer \in Timer
  BY DEF Timer
<1>2. /\ e \in State /\ e.clients = s.clients /\ e.watches = s.watches
      /\ \A t \in TimerIds : e.timers[t] = IF t = FreeSlot(s) THEN timer ELSE s.timers[t]
  BY <1>1, OccupyOneSlot
<1>3. FreeSlot(s) \in TimerIds \cup {kInvalidTimerId}
  BY FreeSlotIsFree
<1>4. d = [e EXCEPT !.clients[c].mReconnectTimerId = FreeSlot(s)]
  BY DEF startReconnectTimer
<1> HIDE DEF e, timer
<1>5. ClientBecomes(e, d, c, [e.clients[c] EXCEPT !.mReconnectTimerId = FreeSlot(s)])
      /\ d.timers = e.timers
  <2> DEFINE r == [e.clients[c] EXCEPT !.mReconnectTimerId = FreeSlot(s)]
  <2>1. r \in Client
    BY <1>2, <1>3 DEF State, Client
  <2>2. d = [e EXCEPT !.clients = [e.clients EXCEPT ![c] = r]]
    BY <1>4
  <2>3. QED
    BY <1>2, <2>1, <2>2, SetClient
<1> HIDE DEF d
<1>6. QED
  BY <1>2, <1>5 DEF ClientBecomes, d, timer

\* scheduleMisc()'s startTimer().
LEMMA StartMiscTimer ==
  ASSUME NEW s \in State, NEW c \in Clients
  PROVE  LET d == startMiscTimer(s, c)
         IN  /\ ClientBecomes(s, d, c, [s.clients[c] EXCEPT !.mMiscTimerId = FreeSlot(s)])
             /\ \A t \in TimerIds :
                  d.timers[t] = IF t = FreeSlot(s) THEN [callback |-> "misc", client |-> c]
                                ELSE s.timers[t]
<1> DEFINE timer == [callback |-> "misc", client |-> c]
           e == occupy(s, FreeSlot(s), timer)
           d == startMiscTimer(s, c)
<1>1. timer \in Timer
  BY DEF Timer
<1>2. /\ e \in State /\ e.clients = s.clients /\ e.watches = s.watches
      /\ \A t \in TimerIds : e.timers[t] = IF t = FreeSlot(s) THEN timer ELSE s.timers[t]
  BY <1>1, OccupyOneSlot
<1>3. FreeSlot(s) \in TimerIds \cup {kInvalidTimerId}
  BY FreeSlotIsFree
<1>4. d = [e EXCEPT !.clients[c].mMiscTimerId = FreeSlot(s)]
  BY DEF startMiscTimer
<1> HIDE DEF e, timer
<1>5. ClientBecomes(e, d, c, [e.clients[c] EXCEPT !.mMiscTimerId = FreeSlot(s)])
      /\ d.timers = e.timers
  <2> DEFINE r == [e.clients[c] EXCEPT !.mMiscTimerId = FreeSlot(s)]
  <2>1. r \in Client
    BY <1>2, <1>3 DEF State, Client
  <2>2. d = [e EXCEPT !.clients = [e.clients EXCEPT ![c] = r]]
    BY <1>4
  <2>3. QED
    BY <1>2, <2>1, <2>2, SetClient
<1> HIDE DEF d
<1>6. QED
  BY <1>2, <1>5 DEF ClientBecomes, d, timer

\* Of the connection a step may leave what there is, or give up something.
Less(p, r) ==
  /\ r \in Client /\ r.alive = p.alive
  /\ r.sock \in {p.sock, kInvalidFd}
  /\ r.mConnected => p.mConnected

\* A step that takes no watch away and opens no socket keeps what is said of them.
LEMMA LessConnected ==
  ASSUME NEW s, NEW d, NEW c \in Clients, NEW r,
         Good(s), ClientBecomes(s, d, c, r), Less(s.clients[c], r)
  PROVE  /\ ConnectedLives(d) /\ Apart(d) /\ WatchedOnce(d) /\ (RoomToWatch => Handled(d))
         /\ \A b \in Clients : d.clients[b].alive = s.clients[b].alive
<1>1. Apart(d)
  BY DEF Good, Apart, ClientBecomes, Less
<1>2. WatchedOnce(d)
  BY DEF Good, WatchedOnce, ClientBecomes
<1>3. RoomToWatch => Handled(d)
  BY DEF Good, Handled, ClientBecomes, Less
<1>4. ConnectedLives(d)
  BY DEF Good, ConnectedLives, ClientBecomes, Less
<1>5. QED
  BY <1>1, <1>2, <1>3, <1>4 DEF ClientBecomes, Less

\* What startReconnectTimer() does to the slots.
ReconnectAdded(s, d, c) ==
  \A t \in TimerIds :
    d.timers[t] = IF t = FreeSlot(s) THEN [callback |-> "reconnect", client |-> c]
                  ELSE s.timers[t]

SameAlive(s, d) == \A b \in Clients : d.clients[b].alive = s.clients[b].alive

\* The next attempt is scheduled, when none is, by a client that is reconnecting.
LEMMA ReconnectStarts ==
  ASSUME NEW s, NEW d, NEW c \in Clients, NEW r,
         Good(s), NoReconnect(s, c), ClientBecomes(s, d, c, r), Less(s.clients[c], r),
         r.mReconnecting = TRUE, r.mReconnectTimerId = FreeSlot(s),
         r.mMiscTimerId = s.clients[c].mMiscTimerId,
         ReconnectAdded(s, d, c)
  PROVE  Good(d) /\ SameAlive(s, d)
<1>1. Named(d)
  <2> SUFFICES ASSUME NEW b \in Clients, d.clients[b].alive, NEW t \in TimerIds,
                      d.timers[t].client = b
               PROVE  IF d.timers[t].callback = "misc" THEN t = d.clients[b].mMiscTimerId
                      ELSE t = d.clients[b].mReconnectTimerId /\ d.clients[b].mReconnecting
    BY DEF Named
  <2>1. CASE t = FreeSlot(s)
    BY <2>1 DEF ClientBecomes, ReconnectAdded
  <2>2. CASE t # FreeSlot(s) /\ b # c
    BY <2>2 DEF ClientBecomes, Good, Named, ReconnectAdded
  <2>3. CASE t # FreeSlot(s) /\ b = c
    <3>1. s.timers[t] = [callback |-> "misc", client |-> c]
      BY <2>3, OwnersOfSlots DEF NoReconnect, Good, ReconnectAdded
    <3>2. t = s.clients[c].mMiscTimerId
      BY <2>3, <3>1 DEF Good, Named, ClientBecomes, Less
    <3>3. d.timers[t] = s.timers[t] /\ d.clients[b] = r
      BY <2>3 DEF ClientBecomes, ReconnectAdded
    <3>4. QED
      BY <2>3, <3>1, <3>2, <3>3
  <2>4. QED
    BY <2>1, <2>2, <2>3
<1>2. /\ ConnectedLives(d) /\ Apart(d) /\ WatchedOnce(d) /\ (RoomToWatch => Handled(d))
      /\ SameAlive(s, d)
  BY LessConnected DEF SameAlive
<1>3. QED
  BY <1>1, <1>2 DEF Good, ClientBecomes

\* scheduleMisc() stops the timer its id names, which is the only one that may be its own.
LEMMA ScheduleMiscKeeps ==
  ASSUME NEW s, NEW c \in Clients, Good(s), s.clients[c].alive
  PROVE  Keeps(s, scheduleMisc(s, c), c)
<1> DEFINE e == stopTimer(s, s.clients[c].mMiscTimerId)
           d == startMiscTimer(e, c)
           r == [e.clients[c] EXCEPT !.mMiscTimerId = FreeSlot(e)]
<1>1. /\ Good(e) /\ Keeps(s, e, c)
      /\ e.clients = s.clients
      /\ \A t \in TimerIds :
           e.timers[t] = IF t = s.clients[c].mMiscTimerId THEN NoTimer ELSE s.timers[t]
  BY StopKeeps
<1>2. /\ ClientBecomes(e, d, c, r)
      /\ \A t \in TimerIds :
           d.timers[t] = IF t = FreeSlot(e) THEN [callback |-> "misc", client |-> c] ELSE e.timers[t]
  BY <1>1, StartMiscTimer DEF Good
<1> HIDE DEF e, d
<1>3. FreeSlot(e) \in TimerIds \cup {kInvalidTimerId}
  BY FreeSlotIsFree
<1>4. /\ Less(e.clients[c], r) /\ r.mMiscTimerId = FreeSlot(e)
      /\ r.mReconnecting = e.clients[c].mReconnecting
      /\ r.mReconnectTimerId = e.clients[c].mReconnectTimerId
  <2> DEFINE p == e.clients[c]
  <2>1. p \in Client
    BY <1>1 DEF Good, State
  <2> HIDE DEF p
  <2>2. LET q == [p EXCEPT !.mMiscTimerId = FreeSlot(e)]
        IN  /\ Less(p, q) /\ q.mMiscTimerId = FreeSlot(e)
            /\ q.mReconnecting = p.mReconnecting
            /\ q.mReconnectTimerId = p.mReconnectTimerId
    BY <1>3, <2>1 DEF Less, Client
  <2>3. QED
    BY <2>2 DEF p
<1> HIDE DEF r
<1>5. \A t \in TimerIds : e.timers[t] # [callback |-> "misc", client |-> c]
  <2> SUFFICES ASSUME NEW t \in TimerIds, e.timers[t] = [callback |-> "misc", client |-> c]
               PROVE  FALSE
    OBVIOUS
  <2>1. t = s.clients[c].mMiscTimerId
    BY <1>1 DEF Good, Named
  <2>2. e.timers[t] = NoTimer
    BY <1>1, <2>1
  <2>3. [callback |-> "misc", client |-> c].client = c
    OBVIOUS
  <2>4. NoTimer.client # c
    BY ClientsAssumption DEF NoTimer
  <2>5. QED
    BY <2>2, <2>3, <2>4
<1>6. Named(d)
  <2> SUFFICES ASSUME NEW b \in Clients, d.clients[b].alive, NEW t \in TimerIds,
                      d.timers[t].client = b
               PROVE  IF d.timers[t].callback = "misc" THEN t = d.clients[b].mMiscTimerId
                      ELSE t = d.clients[b].mReconnectTimerId /\ d.clients[b].mReconnecting
    BY DEF Named
  <2>1. CASE t = FreeSlot(e)
    <3>1. d.timers[t] = [callback |-> "misc", client |-> c]
      BY <1>2, <2>1
    <3>2. b = c
      BY <3>1
    <3>3. d.clients[c] = r
      BY <1>2 DEF ClientBecomes
    <3>4. QED
      BY <1>4, <2>1, <3>1, <3>2, <3>3
  <2>2. CASE t # FreeSlot(e) /\ b # c
    BY <1>1, <1>2, <2>2 DEF ClientBecomes, Good, Named
  <2>3. CASE t # FreeSlot(e) /\ b = c
    <3>1. e.timers[t] = [callback |-> "reconnect", client |-> c]
      BY <1>1, <1>2, <1>5, <2>3, OwnersOfSlots DEF Good
    <3>2. t = e.clients[c].mReconnectTimerId /\ e.clients[c].mReconnecting
      BY <1>1, <2>3, <3>1 DEF Good, Named
    <3>3. d.timers[t].callback = "reconnect" /\ d.clients[c] = r
      BY <1>2, <2>3, <3>1 DEF ClientBecomes
    <3>4. QED
      BY <1>4, <2>3, <3>2, <3>3
  <2>4. QED
    BY <2>1, <2>2, <2>3
<1>7. Keeps(e, d, c)
  <2>1. Good(d) /\ \A b \in Clients : d.clients[b].alive = e.clients[b].alive
    BY <1>1, <1>2, <1>4, <1>6, LessConnected DEF Good, ClientBecomes
  <2>2. [callback |-> "misc", client |-> c] # [callback |-> "reconnect", client |-> c]
    OBVIOUS
  <2>3. NoReconnect(e, c) => NoReconnect(d, c)
    BY <1>2, <2>2 DEF NoReconnect
  <2>4. QED
    BY <1>2, <1>4, <2>1, <2>3 DEF Keeps, ClientBecomes
<1>8. QED
  BY <1>1, <1>7, KeepsTransitive DEF scheduleMisc, e, d

\* A step that leaves the timers and their ids alone.
LEMMA LessKeeps ==
  ASSUME NEW s, NEW d, NEW c \in Clients, NEW r,
         Good(s), ClientBecomes(s, d, c, r), Less(s.clients[c], r), d.timers = s.timers,
         r.mReconnecting = s.clients[c].mReconnecting,
         r.mReconnectTimerId = s.clients[c].mReconnectTimerId,
         r.mMiscTimerId = s.clients[c].mMiscTimerId
  PROVE  Keeps(s, d, c)
<1>1. \A b \in Clients :
        /\ d.clients[b].mReconnecting = s.clients[b].mReconnecting
        /\ d.clients[b].mReconnectTimerId = s.clients[b].mReconnectTimerId
        /\ d.clients[b].mMiscTimerId = s.clients[b].mMiscTimerId
        /\ d.clients[b].alive = s.clients[b].alive
  BY DEF ClientBecomes, Less
<1>2. Named(d)
  BY <1>1 DEF Good, Named
<1>3. Good(d)
  BY <1>2, LessConnected DEF Good, ClientBecomes
<1>4. NoReconnect(s, c) => NoReconnect(d, c)
  BY DEF NoReconnect
<1>5. QED
  BY <1>1, <1>3, <1>4 DEF Keeps

\* The socket is closed.
LEMMA CloseKeeps ==
  ASSUME NEW s, NEW c \in Clients, Good(s)
  PROVE  LET d == close(s, c)
             r == [s.clients[c] EXCEPT !.sock = kInvalidFd]
         IN  /\ Keeps(s, d, c)
             /\ ClientBecomes(s, d, c, r) /\ d.timers = s.timers
<1> DEFINE d == close(s, c)
           r == [s.clients[c] EXCEPT !.sock = kInvalidFd]
<1>1. s \in State /\ s.clients[c] \in Client
  BY DEF Good, State
<1>2. r \in Client
  BY <1>1 DEF Client
<1>3. d = [s EXCEPT !.clients = [s.clients EXCEPT ![c] = r]]
  BY DEF close
<1>4. /\ Less(s.clients[c], r)
      /\ r.mReconnecting = s.clients[c].mReconnecting
      /\ r.mReconnectTimerId = s.clients[c].mReconnectTimerId
      /\ r.mMiscTimerId = s.clients[c].mMiscTimerId
  BY <1>1, <1>2 DEF Less, Client
<1> HIDE DEF d, r
<1>5. ClientBecomes(s, d, c, r) /\ d.timers = s.timers
  BY <1>1, <1>2, <1>3, SetClient
<1>6. Keeps(s, d, c)
  BY <1>4, <1>5, LessKeeps
<1>7. QED
  BY <1>5, <1>6 DEF d, r

\* connect() gives up after the CONNACK.
LEMMA AbandonKeeps ==
  ASSUME NEW s, NEW c \in Clients, Good(s)
  PROVE  Keeps(s, abandon(s, c), c)
<1> DEFINE e == close(s, c)
           d == [e EXCEPT !.clients[c].mConnected = FALSE]
           r == [e.clients[c] EXCEPT !.mConnected = FALSE]
<1>1. Keeps(s, e, c)
  BY CloseKeeps
<1> HIDE DEF e
<1>2. e \in State /\ e.clients[c] \in Client
  BY <1>1 DEF Keeps, Good, State
<1>3. /\ r \in Client /\ Less(e.clients[c], r)
      /\ r.mReconnecting = e.clients[c].mReconnecting
      /\ r.mReconnectTimerId = e.clients[c].mReconnectTimerId
      /\ r.mMiscTimerId = e.clients[c].mMiscTimerId
  BY <1>2 DEF Less, Client
<1>4. d = [e EXCEPT !.clients = [e.clients EXCEPT ![c] = r]]
  OBVIOUS
<1> HIDE DEF d, r
<1>5. ClientBecomes(e, d, c, r) /\ d.timers = e.timers
  BY <1>2, <1>3, <1>4, SetClient
<1>6. Keeps(e, d, c)
  BY <1>1, <1>3, <1>5, LessKeeps DEF Keeps
<1>7. QED
  BY <1>1, <1>6, KeepsTransitive DEF abandon, d, e

\* unwatchSocket() clears the first watch of the descriptor, and there is no other.
LEMMA UnwatchSocket ==
  ASSUME NEW s \in State, NEW fd, WatchedOnce(s)
  PROVE  LET d == unwatchSocket(s, fd)
         IN  /\ d \in State
             /\ d.clients = s.clients /\ d.timers = s.timers
             /\ \A w \in WatchIds :
                  d.watches[w] = IF s.watches[w].fd = fd THEN NoWatch ELSE s.watches[w]
<1> DEFINE table == [w \in WatchIds |-> IF s.watches[w].fd = fd THEN NoWatch ELSE s.watches[w]]
<1>1. table \in [WatchIds -> Watch \cup {NoWatch}]
  BY DEF State
<1>2. unwatchSocket(s, fd) = [s EXCEPT !.watches = table]
  <2> DEFINE found == {w \in WatchIds : s.watches[w].fd = fd}
             first == Min(found)
             cleared == [s.watches EXCEPT ![first] = NoWatch]
  <2>1. /\ found = {} => unwatchSocket(s, fd) = s
        /\ found # {} => unwatchSocket(s, fd) = [s EXCEPT !.watches = cleared]
    BY DEF unwatchSocket
  <2>2. WatchIds \in SUBSET Nat /\ \A w \in WatchIds : s.watches[w] \in Watch \cup {NoWatch}
    BY ClientsAssumption DEF WatchIds, State
  <2>3. found # {} => first \in found
    BY <2>2, MinIsIn
  <2> HIDE DEF first
  <2>4. CASE found = {}
    <3>1. table = s.watches
      BY <2>4 DEF State
    <3> HIDE DEF table
    <3>2. QED
      BY <2>1, <2>4, <3>1 DEF State
  <2>5. CASE found # {}
    <3>1. \A w \in WatchIds : w # first /\ s.watches[w].fd = fd => s.watches[w] = NoWatch
      <4> SUFFICES ASSUME NEW w \in WatchIds, w # first, s.watches[w].fd = fd
                   PROVE  s.watches[w] = NoWatch
        OBVIOUS
      <4>1. fd = kInvalidFd
        BY <2>3, <2>5 DEF WatchedOnce
      <4>2. s.watches[w] \notin Watch
        BY <4>1, ClientsAssumption DEF Watch, kInvalidFd
      <4>3. QED
        BY <2>2, <4>2
    <3>2. cleared = table
      BY <2>3, <2>5, <3>1 DEF State
    <3>3. QED
      BY <2>1, <2>5, <3>2
  <2>6. QED
    BY <2>4, <2>5
<1>3. \A w \in WatchIds : table[w] = IF s.watches[w].fd = fd THEN NoWatch ELSE s.watches[w]
  OBVIOUS
<1> HIDE DEF table
<1>4. QED
  BY <1>1, <1>2, <1>3 DEF State

\* A client that is not reconnecting has no reconnect scheduled.
LEMMA NotReconnecting ==
  ASSUME NEW s, NEW c \in Clients, Good(s), s.clients[c].alive, ~s.clients[c].mReconnecting
  PROVE  NoReconnect(s, c)
<1> SUFFICES ASSUME NEW t \in TimerIds, s.timers[t] = [callback |-> "reconnect", client |-> c]
             PROVE  FALSE
  BY DEF NoReconnect
<1>1. s.timers[t].client = c /\ s.timers[t].callback # "misc"
  OBVIOUS
<1>2. QED
  BY <1>1 DEF Good, Named

\* Opening or ending the session changes nothing else.
LEMMA SetSessionKeeps ==
  ASSUME NEW s, NEW c \in Clients, Good(s), NEW has \in BOOLEAN
  PROVE  LET d == setSession(s, c, has)
         IN  /\ Keeps(s, d, c)
             /\ d.timers = s.timers /\ d.watches = s.watches
             /\ d.clients[c].mReconnecting = s.clients[c].mReconnecting
             /\ d.clients[c].mConnected = s.clients[c].mConnected
             /\ d.clients[c].sock = s.clients[c].sock
<1> DEFINE d == setSession(s, c, has)
           p == s.clients[c]
           r == [p EXCEPT !.mSessionInfo = has]
<1>1. s \in State /\ p \in Client
  BY DEF Good, State
<1>2. d = [s EXCEPT !.clients = [s.clients EXCEPT ![c] = r]]
  BY DEF setSession
<1> HIDE DEF p
<1>3. /\ r \in Client /\ Less(p, r) /\ r.mConnected = p.mConnected /\ r.sock = p.sock
      /\ r.mReconnecting = p.mReconnecting
      /\ r.mReconnectTimerId = p.mReconnectTimerId
      /\ r.mMiscTimerId = p.mMiscTimerId
  BY <1>1 DEF Less, Client
<1> HIDE DEF d, r
<1>4. ClientBecomes(s, d, c, r) /\ d.timers = s.timers
  BY <1>1, <1>2, <1>3, SetClient
<1>5. Keeps(s, d, c)
  BY <1>3, <1>4, LessKeeps DEF p
<1>6. QED
  BY <1>3, <1>4, <1>5 DEF ClientBecomes, p, d

\* disconnect() of a connected client leaves none of its timers on the loop, and clears
\* the watch of its socket.
LEMMA DetachKeeps ==
  ASSUME NEW s, NEW c \in Clients, Good(s), s.clients[c].alive
  PROVE  LET d == detach(s, c)
         IN  /\ Keeps(s, d, c)
             /\ d.clients[c].mReconnecting = s.clients[c].mReconnecting
             /\ s.clients[c].mConnected =>
                  /\ \A t \in TimerIds : d.timers[t].client # c
                  /\ \A w \in WatchIds :
                       d.watches[w] = IF s.watches[w].fd = s.clients[c].sock THEN NoWatch
                                      ELSE s.watches[w]
<1>1. CASE ~s.clients[c].mConnected
  BY <1>1, StayKeeps DEF detach
<1>2. CASE s.clients[c].mConnected
  <2> DEFINE p == s.clients[c]
             f == stopTimer(s, p.mReconnectTimerId)
             g == stopTimer(f, p.mMiscTimerId)
             u == unwatchSocket(s, p.sock)
             v == stopTimer(u, p.mReconnectTimerId)
             x == stopTimer(v, p.mMiscTimerId)
             y == close(x, c)
             d == [y EXCEPT !.clients[c].mConnected = FALSE]
             q == [p EXCEPT !.sock = kInvalidFd]
             r == [q EXCEPT !.mConnected = FALSE]
  <2>1. d = detach(s, c)
    BY <1>2 DEF detach
  <2>2. /\ Good(g) /\ g.clients = s.clients /\ g.watches = s.watches
        /\ \A t \in TimerIds :
             g.timers[t] = IF t = p.mMiscTimerId \/ t = p.mReconnectTimerId THEN NoTimer
                           ELSE s.timers[t]
    BY StopKeeps
  <2>3. /\ u \in State /\ u.clients = s.clients /\ u.timers = s.timers
        /\ \A w \in WatchIds :
             u.watches[w] = IF s.watches[w].fd = p.sock THEN NoWatch ELSE s.watches[w]
    BY UnwatchSocket DEF Good
  <2> HIDE DEF f, g, u
  <2>4. /\ v \in State /\ v.clients = u.clients /\ v.watches = u.watches
        /\ \A t \in TimerIds :
             v.timers[t] = IF t = p.mReconnectTimerId THEN NoTimer ELSE u.timers[t]
    BY <2>3, OccupyOneSlot DEF stopTimer
  <2> HIDE DEF v
  <2>5. /\ x \in State /\ x.clients = s.clients /\ x.watches = u.watches
        /\ \A t \in TimerIds : x.timers[t] = g.timers[t]
    BY <2>2, <2>3, <2>4, OccupyOneSlot DEF stopTimer
  <2> HIDE DEF x
  <2>6. p \in Client
    BY DEF Good, State
  <2>7. q \in Client /\ r \in Client /\ r.alive = p.alive /\ r.sock = kInvalidFd
        /\ r.mConnected = FALSE
        /\ r.mReconnecting = p.mReconnecting
        /\ r.mReconnectTimerId = p.mReconnectTimerId
        /\ r.mMiscTimerId = p.mMiscTimerId
    BY <2>6 DEF Client
  <2>8. ClientBecomes(x, y, c, q) /\ y.timers = x.timers
    <3>1. y = [x EXCEPT !.clients = [x.clients EXCEPT ![c] = q]]
      BY <2>5 DEF close
    <3> HIDE DEF q, y
    <3>2. QED
      BY <2>5, <2>7, <3>1, SetClient
  <2> HIDE DEF y
  <2>9. ClientBecomes(y, d, c, r) /\ d.timers = y.timers
    <3>1. y.clients[c] = q /\ y \in State
      BY <2>8 DEF ClientBecomes
    <3>2. d = [y EXCEPT !.clients = [y.clients EXCEPT ![c] = r]]
      BY <3>1
    <3> HIDE DEF d, r
    <3>3. QED
      BY <2>7, <3>1, <3>2, SetClient
  <2> HIDE DEF d, r, q
  <2>10. /\ d \in State
         /\ \A b \in Clients : d.clients[b] = IF b = c THEN r ELSE s.clients[b]
         /\ \A t \in TimerIds : d.timers[t] = g.timers[t]
         /\ \A w \in WatchIds :
              d.watches[w] = IF s.watches[w].fd = p.sock THEN NoWatch ELSE s.watches[w]
    BY <2>3, <2>5, <2>8, <2>9 DEF ClientBecomes
  <2> HIDE DEF p
  <2>11. \A t \in TimerIds : d.timers[t].client # c
    <3> SUFFICES ASSUME NEW t \in TimerIds, d.timers[t].client = c PROVE FALSE
      OBVIOUS
    <3>1. NoTimer.client # c
      BY ClientsAssumption DEF NoTimer
    <3>2. s.timers[t].client = c /\ t # p.mMiscTimerId /\ t # p.mReconnectTimerId
      BY <2>2, <2>10, <3>1
    <3>3. QED
      BY <3>2 DEF Good, Named, p
  <2>12. Named(d)
    BY <2>2, <2>10, <2>11 DEF Good, Named
  <2>13. NoWatch.fd = kInvalidFd
    BY DEF NoWatch
  <2>14. ConnectedLives(d) /\ Apart(d) /\ WatchedOnce(d)
    BY <2>7, <2>10, <2>13 DEF Good, ConnectedLives, Apart, WatchedOnce
  <2>15. ASSUME RoomToWatch PROVE Handled(d)
    <3> SUFFICES ASSUME NEW b \in Clients, d.clients[b].mConnected, d.clients[b].sock # kInvalidFd
                 PROVE  \E w \in WatchIds : d.watches[w] = [fd |-> d.clients[b].sock, handler |-> b]
      BY DEF Handled
    <3>1. b # c /\ d.clients[b] = s.clients[b]
      BY <2>7, <2>10
    <3>2. PICK w \in WatchIds : s.watches[w] = [fd |-> s.clients[b].sock, handler |-> b]
      BY <2>15, <3>1 DEF Good, Handled
    <3>3. s.watches[w].fd # p.sock
      BY <3>1, <3>2 DEF Good, Apart, p
    <3>4. QED
      BY <2>10, <3>1, <3>2, <3>3
  <2>16. Good(d)
    BY <2>10, <2>12, <2>14, <2>15 DEF Good
  <2>17. NoReconnect(d, c)
    BY <2>11 DEF NoReconnect
  <2>18. \A b \in Clients : d.clients[b].alive = s.clients[b].alive
    BY <2>7, <2>10 DEF p
  <2>19. d.clients[c].mReconnecting = s.clients[c].mReconnecting
    BY <2>7, <2>10 DEF p
  <2>20. QED
    BY <2>1, <2>10, <2>11, <2>16, <2>17, <2>18, <2>19 DEF Keeps, p
<1>3. QED
  BY <1>1, <1>2

\* disconnect() closes the session as well.
LEMMA DisconnectKeeps ==
  ASSUME NEW s, NEW c \in Clients, Good(s), s.clients[c].alive
  PROVE  LET d == disconnect(s, c)
         IN  /\ Keeps(s, d, c)
             /\ d.clients[c].mReconnecting = s.clients[c].mReconnecting
             /\ s.clients[c].mConnected =>
                  /\ \A t \in TimerIds : d.timers[t].client # c
                  /\ \A w \in WatchIds :
                       d.watches[w] = IF s.watches[w].fd = s.clients[c].sock THEN NoWatch
                                      ELSE s.watches[w]
<1> DEFINE e == setSession(s, c, FALSE)
<1>1. /\ Keeps(s, e, c) /\ e.watches = s.watches
      /\ e.clients[c].mReconnecting = s.clients[c].mReconnecting
      /\ e.clients[c].mConnected = s.clients[c].mConnected
      /\ e.clients[c].sock = s.clients[c].sock
  BY SetSessionKeeps
<1>2. disconnect(s, c) = detach(e, c)
  BY DEF disconnect
<1> HIDE DEF e
<1>3. Good(e) /\ e.clients[c].alive
  BY <1>1 DEF Keeps
<1>4. QED
  BY <1>1, <1>2, <1>3, DetachKeeps, KeepsTransitive

\* d is s but for the record of c.
WithClient(s, d, c, r) == d = [s EXCEPT !.clients = [s.clients EXCEPT ![c] = r]]

\* startReconnectTimer() and what the caller says of the client with it.
LEMMA BecomesReconnecting ==
  ASSUME NEW s, NEW c \in Clients, NEW r \in Client, NEW d,
         Good(s), NoReconnect(s, c), Less(s.clients[c], r),
         r.mReconnecting = TRUE, r.mReconnectTimerId = FreeSlot(s),
         r.mMiscTimerId = s.clients[c].mMiscTimerId,
         WithClient(startReconnectTimer(s, c), d, c, r)
  PROVE  Good(d) /\ SameAlive(s, d) /\ d.clients[c] = r
<1> DEFINE e == startReconnectTimer(s, c)
<1>1. /\ e \in State /\ e.watches = s.watches
      /\ \A b \in Clients : b # c => e.clients[b] = s.clients[b]
      /\ \A t \in TimerIds :
           e.timers[t] = IF t = FreeSlot(s) THEN [callback |-> "reconnect", client |-> c]
                         ELSE s.timers[t]
  <2>1. s \in State
    BY DEF Good
  <2>2. /\ ClientBecomes(s, e, c, [s.clients[c] EXCEPT !.mReconnectTimerId = FreeSlot(s)])
        /\ \A t \in TimerIds :
             e.timers[t] = IF t = FreeSlot(s) THEN [callback |-> "reconnect", client |-> c]
                           ELSE s.timers[t]
    BY <2>1, StartReconnectTimer
  <2> HIDE DEF e
  <2>3. QED
    BY <2>2 DEF ClientBecomes
<1> HIDE DEF e
<1>2. ClientBecomes(e, d, c, r) /\ d.timers = e.timers
  BY <1>1, SetClient DEF e, WithClient
<1>3. ClientBecomes(s, d, c, r)
  BY <1>1, <1>2 DEF ClientBecomes
<1>4. ReconnectAdded(s, d, c)
  BY <1>1, <1>2 DEF ReconnectAdded
<1>5. Good(d) /\ SameAlive(s, d)
  BY <1>3, <1>4, ReconnectStarts
<1>6. d.clients[c] = r
  BY <1>3 DEF ClientBecomes
<1>7. QED
  BY <1>5, <1>6

\* What startReconnectTimer() leaves of the client's members.
LEMMA StartedReconnectTimer ==
  ASSUME NEW s, NEW c \in Clients, Good(s)
  PROVE  LET r == startReconnectTimer(s, c).clients[c]
         IN  /\ r \in Client /\ Less(s.clients[c], r)
             /\ r.mReconnectTimerId = FreeSlot(s)
             /\ r.mConnected = s.clients[c].mConnected
             /\ r.mReconnecting = s.clients[c].mReconnecting
             /\ r.mMiscTimerId = s.clients[c].mMiscTimerId
             /\ r.sock = s.clients[c].sock
             /\ WithClient(startReconnectTimer(s, c), startReconnectTimer(s, c), c, r)
<1> DEFINE e == startReconnectTimer(s, c)
           p == s.clients[c]
           r == [p EXCEPT !.mReconnectTimerId = FreeSlot(s)]
<1>1. e \in State /\ e.clients[c] = r
  BY StartReconnectTimer DEF Good, ClientBecomes
<1>2. p \in Client
  BY DEF Good, State
<1>3. FreeSlot(s) \in TimerIds \cup {kInvalidTimerId}
  BY FreeSlotIsFree
<1>4. /\ r \in Client /\ Less(p, r)
      /\ r.mReconnectTimerId = FreeSlot(s) /\ r.mConnected = p.mConnected
      /\ r.mReconnecting = p.mReconnecting /\ r.mMiscTimerId = p.mMiscTimerId
      /\ r.sock = p.sock
  <2> HIDE DEF p
  <2>1. QED
    BY <1>2, <1>3 DEF Less, Client
<1> HIDE DEF e, r
<1>5. WithClient(e, e, c, r)
  BY <1>1 DEF State, WithClient
<1>6. QED
  BY <1>1, <1>4, <1>5 DEF e

\* The session is refused or has expired: the connection is ended, and the next attempt
\* scheduled unless there is one already.
LEMMA HandleInvalidSessionKeeps ==
  ASSUME NEW s, NEW c \in Clients, Good(s), s.clients[c].alive
  PROVE  Keeps(s, handleInvalidSession(s, c), c)
<1>1. CASE s.clients[c].mReconnecting
  BY <1>1, StayKeeps DEF handleInvalidSession
<1>2. CASE ~s.clients[c].mReconnecting
  <2> DEFINE e == disconnect(s, c)
             f == startReconnectTimer(e, c)
             p == f.clients[c]
             r == [p EXCEPT !.mReconnecting = TRUE]
             d == [f EXCEPT !.clients = [f.clients EXCEPT ![c] = r]]
  <2>1. Keeps(s, e, c) /\ ~e.clients[c].mReconnecting
    BY <1>2, DisconnectKeeps
  <2>2. d = handleInvalidSession(s, c)
    BY <1>2 DEF handleInvalidSession
  <2> HIDE DEF e
  <2>3. Good(e) /\ NoReconnect(e, c) /\ \A b \in Clients : e.clients[b].alive = s.clients[b].alive
    BY <2>1, NotReconnecting DEF Keeps
  <2>4. /\ p \in Client /\ Less(e.clients[c], p)
        /\ p.mReconnectTimerId = FreeSlot(e)
        /\ p.mMiscTimerId = e.clients[c].mMiscTimerId
    BY <2>3, StartedReconnectTimer
  <2> HIDE DEF p
  <2>5. /\ r \in Client /\ Less(e.clients[c], r) /\ r.mReconnecting = TRUE
        /\ r.mReconnectTimerId = FreeSlot(e)
        /\ r.mMiscTimerId = e.clients[c].mMiscTimerId
    BY <2>4 DEF Client, Less
  <2> HIDE DEF r
  <2>6. Good(d) /\ SameAlive(e, d)
    <3>1. WithClient(f, d, c, r)
      BY DEF WithClient
    <3> HIDE DEF d
    <3>2. QED
      BY <2>3, <2>5, <3>1, BecomesReconnecting
  <2>7. QED
    BY <1>2, <2>2, <2>3, <2>6 DEF Keeps, SameAlive
<1>3. QED
  BY <1>1, <1>2

\* The connection is lost: likewise, with a socket that is closed already.
LEMMA LoseKeeps ==
  ASSUME NEW s, NEW c \in Clients, Good(s), s.clients[c].alive
  PROVE  Keeps(s, lose(s, c), c)
<1>1. CASE s.clients[c].mReconnecting
  BY <1>1, CloseKeeps DEF lose
<1>2. CASE ~s.clients[c].mReconnecting
  <2> DEFINE u == setSession(s, c, FALSE)
             e == close(u, c)
             f == startReconnectTimer(e, c)
             p == f.clients[c]
             r == [p EXCEPT !.mConnected = FALSE, !.mReconnecting = TRUE]
             d == [f EXCEPT !.clients = [f.clients EXCEPT ![c] = r]]
  <2>0. Keeps(s, u, c) /\ u.clients[c].mReconnecting = s.clients[c].mReconnecting
    BY SetSessionKeeps
  <2> HIDE DEF u
  <2>1. Keeps(s, e, c) /\ ClientBecomes(u, e, c, [u.clients[c] EXCEPT !.sock = kInvalidFd])
    <3>1. Keeps(u, e, c) /\ ClientBecomes(u, e, c, [u.clients[c] EXCEPT !.sock = kInvalidFd])
      BY <2>0, CloseKeeps DEF Keeps
    <3>2. QED
      BY <2>0, <3>1, KeepsTransitive
  <2>2. d = lose(s, c)
    <3>1. lose(s, c) = [f EXCEPT !.clients[c].mConnected = FALSE, !.clients[c].mReconnecting = TRUE]
      BY <1>2 DEF lose, u
    <3>2. f \in State
      <4>1. e \in State
        BY <2>1 DEF ClientBecomes
      <4> HIDE DEF e
      <4>2. QED
        BY <4>1, StartReconnectTimer DEF ClientBecomes
    <3> HIDE DEF f
    <3>3. [f EXCEPT !.clients[c].mConnected = FALSE, !.clients[c].mReconnecting = TRUE] = d
      BY <3>2 DEF State, Client
    <3>4. QED
      BY <3>1, <3>3
  <2>3. ~e.clients[c].mReconnecting /\ e.clients[c].alive
    <3>1. u.clients[c] \in Client
      BY <2>0 DEF Keeps, Good, State
    <3>2. e.clients[c].mReconnecting = u.clients[c].mReconnecting
      BY <2>1, <3>1 DEF ClientBecomes, Client
    <3>3. QED
      BY <1>2, <2>0, <2>1, <3>2 DEF Keeps
  <2> HIDE DEF e
  <2>4. Good(e) /\ NoReconnect(e, c) /\ \A b \in Clients : e.clients[b].alive = s.clients[b].alive
    BY <2>1, <2>3, NotReconnecting DEF Keeps
  <2>5. /\ p \in Client /\ Less(e.clients[c], p)
        /\ p.mReconnectTimerId = FreeSlot(e)
        /\ p.mMiscTimerId = e.clients[c].mMiscTimerId
    BY <2>4, StartedReconnectTimer
  <2> HIDE DEF p
  <2>6. /\ r \in Client /\ Less(e.clients[c], r) /\ r.mReconnecting = TRUE
        /\ r.mReconnectTimerId = FreeSlot(e)
        /\ r.mMiscTimerId = e.clients[c].mMiscTimerId
    BY <2>5 DEF Client, Less
  <2> HIDE DEF r
  <2>7. Good(d) /\ SameAlive(e, d)
    <3>1. WithClient(f, d, c, r)
      BY DEF WithClient
    <3> HIDE DEF d
    <3>2. QED
      BY <2>4, <2>6, <3>1, BecomesReconnecting
  <2>8. QED
    BY <1>2, <2>2, <2>4, <2>7 DEF Keeps, SameAlive
<1>3. QED
  BY <1>1, <1>2

(***************************************************************************)
(* Connections.                                                            *)
(***************************************************************************)

\* With no descriptor watched twice, a descriptor that is not watched leaves a slot.
LEMMA RoomForAnother ==
  ASSUME NEW s \in State, NEW fd \in Fds, WatchedOnce(s), RoomToWatch,
         \A w \in WatchIds : s.watches[w].fd # fd
  PROVE  \E w \in WatchIds : s.watches[w] = NoWatch
<1> SUFFICES ASSUME \A w \in WatchIds : s.watches[w] # NoWatch
             PROVE  FALSE
  OBVIOUS
<1> DEFINE f == [w \in WatchIds |-> s.watches[w].fd]
<1>1. \A w \in WatchIds : s.watches[w].fd \in Fds \ {fd}
  BY DEF State, Watch
<1>2. \A v, w \in WatchIds : s.watches[v].fd = s.watches[w].fd => v = w
  <2>1. kInvalidFd \notin Fds
    BY ClientsAssumption DEF kInvalidFd
  <2>2. QED
    BY <1>1, <2>1 DEF WatchedOnce
<1>3. f \in Injection(WatchIds, Fds \ {fd})
  <2>1. f \in [WatchIds -> Fds \ {fd}]
    BY <1>1
  <2>2. \A v, w \in WatchIds : f[v] = f[w] => v = w
    BY <1>2
  <2>3. QED
    BY <2>1, <2>2 DEF Injection, IsInjective
<1>4. IsFiniteSet(Fds \ {fd}) /\ Cardinality(Fds \ {fd}) = Cardinality(Fds) - 1
  BY FS_RemoveElement DEF RoomToWatch
<1>5. Cardinality(WatchIds) = WatchCount
  BY ClientsAssumption, FS_Interval DEF WatchIds
<1>6. Cardinality(WatchIds) <= Cardinality(Fds \ {fd})
  <2> HIDE DEF f
  <2>1. QED
    BY <1>3, <1>4, FS_Injection
<1>7. Cardinality(Fds) \in Nat
  BY FS_CardinalityType DEF RoomToWatch
<1>8. QED
  BY <1>4, <1>5, <1>6, <1>7, ClientsAssumption DEF RoomToWatch

\* addWatch() takes a free slot.
LEMMA AddWatch ==
  ASSUME NEW s \in State, NEW c \in Clients, NEW fd \in Fds
  PROVE  LET d == addWatch(s, fd, c)
         IN  /\ d \in State
             /\ d.clients = s.clients /\ d.timers = s.timers
             /\ \/ d = s /\ \A w \in WatchIds : s.watches[w] # NoWatch
                \/ \E m \in WatchIds :
                     /\ s.watches[m] = NoWatch
                     /\ \A w \in WatchIds :
                          d.watches[w] = IF w = m THEN [fd |-> fd, handler |-> c]
                                         ELSE s.watches[w]
<1> DEFINE free == {w \in WatchIds : s.watches[w] = NoWatch}
           m == Min(free)
           watch == [fd |-> fd, handler |-> c]
           table == [s.watches EXCEPT ![m] = watch]
           d == addWatch(s, fd, c)
<1>1. CASE free = {}
  BY <1>1 DEF addWatch
<1>2. CASE free # {}
  <2>1. free \in SUBSET Nat
    BY ClientsAssumption DEF WatchIds
  <2>2. m \in free
    <3> HIDE DEF free
    <3>1. QED
      BY <1>2, <2>1, MinIsIn
  <2>3. d = [s EXCEPT !.watches = table]
    BY <1>2 DEF addWatch
  <2>4. m \in WatchIds /\ s.watches[m] = NoWatch
    BY <2>2
  <2> HIDE DEF free, m
  <2>5. watch \in Watch
    BY DEF Watch
  <2> HIDE DEF watch
  <2>6. /\ table \in [WatchIds -> Watch \cup {NoWatch}]
        /\ \A w \in WatchIds : table[w] = IF w = m THEN watch ELSE s.watches[w]
    BY <2>4, <2>5 DEF State
  <2> HIDE DEF table, d
  <2>7. d \in State /\ d.clients = s.clients /\ d.timers = s.timers /\ d.watches = table
    BY <2>3, <2>6 DEF State
  <2>8. QED
    BY <2>4, <2>6, <2>7 DEF d, watch
<1>3. QED
  BY <1>1, <1>2

\* watchSocket() replaces the watch of a descriptor, and finds a slot where there is
\* one for every descriptor.
LEMMA WatchSocket ==
  ASSUME NEW s \in State, NEW c \in Clients, NEW fd \in Fds, WatchedOnce(s)
  PROVE  LET d == watchSocket(s, fd, c)
         IN  /\ d \in State /\ d.clients = s.clients /\ d.timers = s.timers
             /\ WatchedOnce(d)
             /\ RoomToWatch => \E w \in WatchIds : d.watches[w] = [fd |-> fd, handler |-> c]
             /\ \A w \in WatchIds :
                  s.watches[w] # NoWatch /\ s.watches[w].fd # fd => d.watches[w] = s.watches[w]
<1> DEFINE u == unwatchSocket(s, fd)
           d == addWatch(u, fd, c)
<1>0. kInvalidFd \notin Fds /\ NoWatch.fd = kInvalidFd
  BY ClientsAssumption DEF kInvalidFd, NoWatch
<1>1. /\ u \in State /\ u.clients = s.clients /\ u.timers = s.timers
      /\ \A w \in WatchIds :
           u.watches[w] = IF s.watches[w].fd = fd THEN NoWatch ELSE s.watches[w]
  BY UnwatchSocket
<1> HIDE DEF u
<1>2. \A w \in WatchIds : u.watches[w].fd # fd
  BY <1>0, <1>1
<1>3. WatchedOnce(u)
  BY <1>0, <1>1 DEF WatchedOnce
<1>4. /\ d \in State /\ d.clients = u.clients /\ d.timers = u.timers
      /\ \/ d = u /\ \A w \in WatchIds : u.watches[w] # NoWatch
         \/ \E m \in WatchIds :
              /\ u.watches[m] = NoWatch
              /\ \A w \in WatchIds :
                   d.watches[w] = IF w = m THEN [fd |-> fd, handler |-> c] ELSE u.watches[w]
  BY <1>1, AddWatch
<1> HIDE DEF d
<1>5. CASE d = u /\ \A w \in WatchIds : u.watches[w] # NoWatch
  <2>1. ~RoomToWatch
    BY <1>1, <1>2, <1>3, <1>5, RoomForAnother
  <2>2. QED
    BY <1>1, <1>3, <1>5, <2>1 DEF watchSocket, u, d
<1>6. ASSUME NEW m \in WatchIds, u.watches[m] = NoWatch,
             \A w \in WatchIds :
               d.watches[w] = IF w = m THEN [fd |-> fd, handler |-> c] ELSE u.watches[w]
      PROVE  /\ WatchedOnce(d)
             /\ \E w \in WatchIds : d.watches[w] = [fd |-> fd, handler |-> c]
             /\ \A w \in WatchIds :
                  s.watches[w] # NoWatch /\ s.watches[w].fd # fd => d.watches[w] = s.watches[w]
  <2>1. d.watches[m].fd = fd /\ d.watches[m] = [fd |-> fd, handler |-> c]
    BY <1>6
  <2>2. \A w \in WatchIds : w # m => d.watches[w] = u.watches[w]
    BY <1>6
  <2>3. WatchedOnce(d)
    BY <1>2, <1>3, <2>1, <2>2 DEF WatchedOnce
  <2>4. QED
    BY <1>1, <1>6, <2>1, <2>2, <2>3
<1>7. QED
  BY <1>1, <1>4, <1>5, <1>6 DEF watchSocket, u, d

\* A socket is opened and watched: on a descriptor of no other client.
LEMMA OpenKeeps ==
  ASSUME NEW s, NEW c \in Clients, NEW fd \in Fds, Good(s), s.clients[c].alive,
         \A b \in Clients : s.clients[b].sock # fd
  PROVE  Keeps(s, open(s, c, fd), c)
<1> DEFINE e == watchSocket(s, fd, c)
           p == s.clients[c]
           r == [p EXCEPT !.mConnected = TRUE, !.sock = fd]
           d == [e EXCEPT !.clients = [e.clients EXCEPT ![c] = r]]
<1>1. /\ e \in State /\ e.clients = s.clients /\ e.timers = s.timers
      /\ WatchedOnce(e)
      /\ RoomToWatch => \E w \in WatchIds : e.watches[w] = [fd |-> fd, handler |-> c]
      /\ \A w \in WatchIds :
           s.watches[w] # NoWatch /\ s.watches[w].fd # fd => e.watches[w] = s.watches[w]
  BY WatchSocket DEF Good
<1>2. d = open(s, c, fd)
  <2>1. open(s, c, fd) = [e EXCEPT !.clients[c].mConnected = TRUE, !.clients[c].sock = fd]
    BY DEF open
  <2> HIDE DEF e
  <2>2. [e EXCEPT !.clients[c].mConnected = TRUE, !.clients[c].sock = fd] = d
    BY <1>1 DEF State, Client
  <2>3. QED
    BY <2>1, <2>2
<1>3. p \in Client
  BY DEF Good, State
<1> HIDE DEF e, p
<1>4. /\ r \in Client /\ r.mConnected = TRUE /\ r.sock = fd
      /\ r.alive = p.alive /\ r.mReconnecting = p.mReconnecting
      /\ r.mReconnectTimerId = p.mReconnectTimerId /\ r.mMiscTimerId = p.mMiscTimerId
  BY <1>3 DEF Client
<1>5. ClientBecomes(e, d, c, r) /\ d.timers = e.timers
  <2>1. d = [e EXCEPT !.clients = [e.clients EXCEPT ![c] = r]]
    OBVIOUS
  <2> HIDE DEF d, r
  <2>2. QED
    BY <1>1, <1>4, <2>1, SetClient
<1> HIDE DEF d, r
<1>6. /\ d \in State /\ d.timers = s.timers /\ d.watches = e.watches
      /\ d.clients[c] = r
      /\ \A b \in Clients : b # c => d.clients[b] = s.clients[b]
  BY <1>1, <1>5 DEF ClientBecomes
<1>7. Named(d)
  BY <1>4, <1>6 DEF Good, Named, p
<1>8. Apart(d)
  BY <1>4, <1>6 DEF Good, Apart
<1>9. WatchedOnce(d) /\ ConnectedLives(d)
  <2>1. WatchedOnce(d)
    BY <1>1, <1>6 DEF WatchedOnce
  <2>2. d.clients[c].alive
    BY <1>4, <1>6 DEF p
  <2>3. ConnectedLives(d)
    BY <1>6, <2>2 DEF Good, ConnectedLives
  <2>4. QED
    BY <2>1, <2>3
<1>10. ASSUME RoomToWatch PROVE Handled(d)
  <2> SUFFICES ASSUME NEW b \in Clients, d.clients[b].mConnected, d.clients[b].sock # kInvalidFd
               PROVE  \E w \in WatchIds : d.watches[w] = [fd |-> d.clients[b].sock, handler |-> b]
    BY DEF Handled
  <2>1. CASE b = c
    BY <1>1, <1>4, <1>6, <1>10, <2>1
  <2>2. CASE b # c
    <3>1. d.clients[b] = s.clients[b]
      BY <1>6, <2>2
    <3>2. PICK w \in WatchIds : s.watches[w] = [fd |-> s.clients[b].sock, handler |-> b]
      BY <1>10, <3>1 DEF Good, Handled
    <3>3. s.watches[w].fd = s.clients[b].sock /\ s.watches[w].fd # kInvalidFd
      BY <3>1, <3>2
    <3>4. s.watches[w] # NoWatch /\ s.watches[w].fd # fd
      BY <3>3 DEF NoWatch
    <3>5. QED
      BY <1>1, <1>6, <3>1, <3>2, <3>4
  <2>3. QED
    BY <2>1, <2>2
<1>11. Good(d)
  BY <1>6, <1>7, <1>8, <1>9, <1>10 DEF Good
<1>12. NoReconnect(s, c) => NoReconnect(d, c)
  BY <1>6 DEF NoReconnect
<1>13. (\A b \in Clients : d.clients[b].alive = s.clients[b].alive)
       /\ d.clients[c].mReconnecting = s.clients[c].mReconnecting
  BY <1>4, <1>6 DEF p
<1>14. QED
  BY <1>2, <1>11, <1>12, <1>13 DEF Keeps

\* connect() that fails once there is a socket.
LEMMA FailuresKeep ==
  ASSUME NEW s, NEW c \in Clients, Good(s), s.clients[c].alive, NEW f \in failures(s, c)
  PROVE  Keeps(s, f, c)
<1>1. Keeps(s, s, c) /\ Keeps(s, lose(s, c), c) /\ Keeps(s, handleInvalidSession(s, c), c)
  BY StayKeeps, LoseKeeps, HandleInvalidSessionKeeps
<1>2. ASSUME NEW g, Keeps(s, g, c) PROVE Keeps(s, abandon(g, c), c)
  BY <1>2, AbandonKeeps, KeepsTransitive DEF Keeps
<1>3. ASSUME NEW g, Keeps(s, g, c) PROVE Keeps(s, abandon(setSession(g, c, TRUE), c), c)
  <2>1. Keeps(s, setSession(g, c, TRUE), c)
    BY <1>3, SetSessionKeeps, KeepsTransitive DEF Keeps
  <2>2. QED
    BY <1>2, <2>1
<1>4. QED
  BY <1>1, <1>2, <1>3 DEF failures

\* The operating system gives out a descriptor of no client.
LEMMA NewFdIsFree ==
  ASSUME FreeFds # {}
  PROVE  NewFd \in Fds \ files /\ \A b \in Clients : clients[b].sock # NewFd
<1>1. FreeFds \in SUBSET Nat
  BY ClientsAssumption DEF FreeFds
<1>2. NewFd \in FreeFds
  BY <1>1, MinIsIn DEF NewFd
<1>3. kInvalidFd \notin Fds
  BY ClientsAssumption DEF kInvalidFd
<1>4. QED
  BY <1>2, <1>3 DEF FreeFds, Sockets

\* Every outcome of connect().
LEMMA ConnectKeeps ==
  ASSUME NEW s, NEW c \in Clients, Good(s), s.clients[c].alive, s.clients = clients,
         NEW r \in connect(s, c)
  PROVE  Keeps(s, r.then, c)
<1>0. \A d : Outcome(TRUE, d).then = d /\ Outcome(FALSE, d).then = d
  BY DEF Outcome
<1>1. CASE s.clients[c].mConnected \/ r = Outcome(FALSE, s)
  <2>1. r \in {Outcome(TRUE, s), Outcome(FALSE, s)}
    BY <1>1 DEF connect
  <2>2. QED
    BY <1>0, <2>1, StayKeeps
<1>2. CASE ~s.clients[c].mConnected /\ r # Outcome(FALSE, s)
  <2> DEFINE opened == open(s, c, NewFd)
             e == setSession(opened, c, TRUE)
  <2>1. FreeFds # {}
        /\ r \in {Outcome(FALSE, f) : f \in failures(opened, c)}
                   \cup {Outcome(TRUE, scheduleMisc(e, c))}
    BY <1>2 DEF connect
  <2>2. Keeps(s, opened, c)
    BY <2>1, NewFdIsFree, OpenKeeps
  <2> HIDE DEF opened
  <2>3. Good(opened) /\ opened.clients[c].alive
    BY <2>2 DEF Keeps
  <2>4. \A f \in failures(opened, c) : Keeps(opened, f, c)
    BY <2>3, FailuresKeep
  <2>5. Keeps(opened, scheduleMisc(e, c), c)
    <3>1. Keeps(opened, e, c)
      BY <2>3, SetSessionKeeps
    <3> HIDE DEF e
    <3>2. QED
      BY <2>3, <3>1, ScheduleMiscKeeps, KeepsTransitive DEF Keeps
  <2>6. Keeps(opened, r.then, c)
    <3>1. CASE r \in {Outcome(FALSE, f) : f \in failures(opened, c)}
      <4>1. PICK f \in failures(opened, c) : r = Outcome(FALSE, f)
        BY <3>1
      <4>2. r.then = f
        BY <1>0, <4>1
      <4>3. QED
        BY <2>4, <4>2
    <3>2. CASE r = Outcome(TRUE, scheduleMisc(e, c))
      BY <1>0, <2>5, <3>2
    <3>3. QED
      BY <2>1, <3>1, <3>2
  <2>7. QED
    BY <2>2, <2>6, KeepsTransitive
<1>3. QED
  BY <1>1, <1>2

\* The reconnect timer of c fired: the next is scheduled, or c is not reconnecting.
LEMMA ReconnectKeeps ==
  ASSUME NEW s, NEW c \in Clients, Good(s), s.clients[c].alive, s.clients = clients,
         NoReconnect(s, c), NEW d \in reconnect(s, c)
  PROVE  Good(d) /\ SameAlive(s, d)
<1>1. CASE ~s.clients[c].mReconnecting
  BY <1>1 DEF reconnect, SameAlive
<1>2. CASE s.clients[c].mReconnecting
  <2>1. PICK r \in connect(s, c) :
          d = IF r.ok THEN [r.then EXCEPT !.clients[c].mReconnecting = FALSE]
              ELSE startReconnectTimer(r.then, c)
    BY <1>2 DEF reconnect
  <2> DEFINE e == r.then
             p == e.clients[c]
             q == [p EXCEPT !.mReconnecting = FALSE]
  <2>2. Keeps(s, e, c)
    BY ConnectKeeps
  <2> HIDE DEF e
  <2>3. Good(e) /\ NoReconnect(e, c) /\ e.clients[c].mReconnecting /\ SameAlive(s, e)
    BY <1>2, <2>2 DEF Keeps, SameAlive
  <2>4. p \in Client
    BY <2>3 DEF Good, State
  <2>5. CASE r.ok
    <3>1. d = [e EXCEPT !.clients = [e.clients EXCEPT ![c] = q]]
      BY <2>1, <2>5 DEF e
    <3>2. /\ q \in Client /\ Less(p, q)
          /\ q.mReconnectTimerId = p.mReconnectTimerId /\ q.mMiscTimerId = p.mMiscTimerId
      <4> HIDE DEF p
      <4>1. QED
        BY <2>4 DEF Client, Less
    <3> HIDE DEF p, q
    <3>3. ClientBecomes(e, d, c, q) /\ d.timers = e.timers
      BY <2>3, <3>1, <3>2, SetClient DEF Good
    <3>4. ConnectedLives(d) /\ Apart(d) /\ WatchedOnce(d) /\ (RoomToWatch => Handled(d)) /\ SameAlive(e, d)
      BY <2>3, <3>2, <3>3, LessConnected DEF SameAlive, p
    <3>5. Named(d)
      <4> SUFFICES ASSUME NEW b \in Clients, d.clients[b].alive, NEW t \in TimerIds,
                          d.timers[t].client = b
                   PROVE  IF d.timers[t].callback = "misc" THEN t = d.clients[b].mMiscTimerId
                          ELSE t = d.clients[b].mReconnectTimerId /\ d.clients[b].mReconnecting
        BY DEF Named
      <4>1. CASE b # c
        BY <2>3, <3>3, <4>1 DEF Good, Named, ClientBecomes
      <4>2. CASE b = c
        <5>1. e.timers[t] = [callback |-> "misc", client |-> c]
          BY <2>3, <3>3, <4>2, OwnersOfSlots DEF Good, NoReconnect
        <5>2. e.timers[t].client = c /\ e.timers[t].callback = "misc"
          BY <5>1
        <5>3. t = p.mMiscTimerId
          BY <2>3, <3>4, <4>2, <5>2 DEF Good, Named, SameAlive, p
        <5>4. QED
          BY <3>2, <3>3, <4>2, <5>2, <5>3 DEF ClientBecomes
      <4>3. QED
        BY <4>1, <4>2
    <3>6. QED
      BY <2>3, <3>3, <3>4, <3>5 DEF Good, ClientBecomes, SameAlive
  <2>6. CASE ~r.ok
    <3> DEFINE f == startReconnectTimer(e, c)
               x == f.clients[c]
    <3>1. /\ x \in Client /\ Less(p, x)
          /\ x.mReconnectTimerId = FreeSlot(e)
          /\ x.mReconnecting = p.mReconnecting
          /\ x.mMiscTimerId = p.mMiscTimerId
          /\ WithClient(f, f, c, x)
      BY <2>3, StartedReconnectTimer
    <3>2. x.mReconnecting = TRUE
      <4> HIDE DEF x
      <4>1. QED
        BY <2>3, <2>4, <3>1 DEF Client
    <3> HIDE DEF x
    <3>3. Good(f) /\ SameAlive(e, f)
      BY <2>3, <3>1, <3>2, BecomesReconnecting
    <3>4. d = f
      BY <2>1, <2>6 DEF e
    <3>5. QED
      BY <2>3, <3>3, <3>4 DEF SameAlive
  <2>7. QED
    BY <2>5, <2>6
<1>3. QED
  BY <1>1, <1>2

\* The misc timer of c fired.
LEMMA HandleMiscKeeps ==
  ASSUME NEW s, NEW c \in Clients, Good(s), s.clients[c].alive, NEW d \in handleMisc(s, c)
  PROVE  Keeps(s, d, c)
<1>1. d \in {s, lose(s, c), scheduleMisc(s, c)}
  BY DEF handleMisc
<1>2. QED
  BY <1>1, StayKeeps, LoseKeeps, ScheduleMiscKeeps

(***************************************************************************)
(* The steps.                                                              *)
(***************************************************************************)

Inv == Good(Tables) /\ files \in SUBSET Fds

\* The tables after a step are those its function leaves.
LEMMA BecomesTables ==
  ASSUME NEW d, d \in State, Becomes(d)
  PROVE  Tables' = d
BY DEF State, Becomes, Tables

\* The invariant says the types.
LEMMA InvTypes ==
  ASSUME Inv
  PROVE  TypeOK
BY DEF Inv, Good, State, Tables, TypeOK

\* The clients before their first call, on a loop without timers or watches.
LEMMA InvInit ==
  ASSUME Init
  PROVE  Inv
<1>1. /\ Tables.clients = clients /\ Tables.timers = timers /\ Tables.watches = watches
      /\ Tables = [clients |-> clients, timers |-> timers, watches |-> watches]
  BY DEF Tables
<1>2. NewClient \in Client
  BY DEF NewClient, Client
<1>3. Tables \in State
  BY <1>1, <1>2 DEF Init, State
<1>4. /\ \A c \in Clients : Tables.clients[c] = NewClient
      /\ \A t \in TimerIds : Tables.timers[t] = NoTimer
      /\ \A w \in WatchIds : Tables.watches[w] = NoWatch
  BY <1>1 DEF Init
<1> HIDE DEF Tables
<1>5. Named(Tables)
  BY <1>4, ClientsAssumption DEF Named, NoTimer
<1>6. ConnectedLives(Tables) /\ Apart(Tables) /\ Handled(Tables)
  BY <1>4 DEF NewClient, ConnectedLives, Apart, Handled
<1>7. WatchedOnce(Tables)
  BY <1>4 DEF NoWatch, WatchedOnce
<1>8. QED
  BY <1>3, <1>5, <1>6, <1>7 DEF Inv, Good, Init

\* What the destructor leaves.
LEMMA DestroyLeaves ==
  ASSUME NEW c \in Clients, Inv, Destroy(c)
  PROVE  /\ Good(Tables')
         /\ \A b \in Clients : clients'[b].alive = (b # c /\ clients[b].alive)
         /\ clients[c].mConnected =>
              /\ \A t \in TimerIds : timers'[t].client # c
              /\ \A w \in WatchIds :
                   watches'[w] = IF watches[w].fd = clients[c].sock THEN NoWatch
                                 ELSE watches[w]
<1> DEFINE s == Tables
           e == disconnect(s, c)
           r == [NewClient EXCEPT !.alive = FALSE]
           d == [e EXCEPT !.clients = [e.clients EXCEPT ![c] = r]]
<1>1. /\ s.clients = clients /\ s.timers = timers /\ s.watches = watches
      /\ Good(s) /\ s.clients[c].alive
  BY DEF Inv, Tables, Destroy
<1>2. Becomes(d)
  BY DEF Destroy, leave
<1> HIDE DEF s
<1>3. /\ Keeps(s, e, c)
      /\ s.clients[c].mConnected =>
           /\ \A t \in TimerIds : e.timers[t].client # c
           /\ \A w \in WatchIds :
                e.watches[w] = IF s.watches[w].fd = s.clients[c].sock THEN NoWatch
                               ELSE s.watches[w]
  BY <1>1, DisconnectKeeps
<1> HIDE DEF e
<1>4. Good(e) /\ \A b \in Clients : e.clients[b].alive = s.clients[b].alive
  BY <1>3 DEF Keeps
<1>5. r \in Client /\ r.alive = FALSE /\ r.mConnected = FALSE /\ r.sock = kInvalidFd
  BY DEF NewClient, Client
<1>6. ClientBecomes(e, d, c, r) /\ d.timers = e.timers
  <2>1. d = [e EXCEPT !.clients = [e.clients EXCEPT ![c] = r]]
    OBVIOUS
  <2> HIDE DEF d, r
  <2>2. QED
    BY <1>4, <1>5, <2>1, SetClient DEF Good
<1> HIDE DEF d, r
<1>7. Named(d) /\ ConnectedLives(d) /\ Apart(d) /\ WatchedOnce(d)
  <2>1. Named(d)
    BY <1>4, <1>5, <1>6 DEF Good, Named, ClientBecomes
  <2>2. ConnectedLives(d) /\ Apart(d)
    BY <1>4, <1>5, <1>6 DEF Good, ConnectedLives, Apart, ClientBecomes
  <2>3. WatchedOnce(d)
    BY <1>4, <1>6 DEF Good, WatchedOnce, ClientBecomes
  <2>4. QED
    BY <2>1, <2>2, <2>3
<1>8. RoomToWatch => Handled(d)
  BY <1>4, <1>5, <1>6 DEF Good, Handled, ClientBecomes
<1>9. Good(d)
  BY <1>6, <1>7, <1>8 DEF Good, ClientBecomes
<1>10. Tables' = d
  BY <1>2, <1>6, BecomesTables DEF ClientBecomes
<1>11. clients' = d.clients /\ timers' = d.timers /\ watches' = d.watches
  BY <1>2 DEF Becomes
<1>12. \A b \in Clients : clients'[b].alive = (b # c /\ clients[b].alive)
  <2> TAKE b \in Clients
  <2>1. CASE b = c
    BY <1>5, <1>6, <1>11, <2>1 DEF ClientBecomes
  <2>2. CASE b # c
    <3>1. clients'[b] = e.clients[b] /\ e.clients[b].alive = clients[b].alive
      BY <1>1, <1>4, <1>6, <1>11, <2>2 DEF ClientBecomes
    <3>2. clients[b].alive \in BOOLEAN
      BY <1>1 DEF Good, State, Client
    <3>3. QED
      BY <2>2, <3>1, <3>2
  <2>3. QED
    BY <2>1, <2>2
<1>13. QED
  BY <1>1, <1>3, <1>6, <1>9, <1>10, <1>11, <1>12 DEF ClientBecomes

\* The loop releases the slot of a reconnect timer before it calls back: the client has
\* no other.
LEMMA FiredReconnect ==
  ASSUME NEW t \in TimerIds, NEW c \in Clients, Inv, clients[c].alive,
         timers[t].client = c, timers[t].callback # "misc"
  PROVE  NoReconnect(stopTimer(Tables, t), c)
<1> DEFINE e == stopTimer(Tables, t)
<1>1. /\ Tables.clients = clients /\ Tables.timers = timers
      /\ Good(Tables)
  BY DEF Inv, Tables
<1> HIDE DEF Tables
<1>2. \A u \in TimerIds : e.timers[u] = IF u = t THEN NoTimer ELSE timers[u]
  BY <1>1, StopKeeps
<1> HIDE DEF e
<1> SUFFICES ASSUME NEW u \in TimerIds, e.timers[u] = [callback |-> "reconnect", client |-> c]
             PROVE  FALSE
  BY DEF NoReconnect, e
<1>3. e.timers[u].client = c /\ e.timers[u].callback # "misc"
  OBVIOUS
<1>4. u # t /\ timers[u].client = c /\ timers[u].callback # "misc"
  BY <1>2, <1>3, ClientsAssumption DEF NoTimer
<1>5. u = clients[c].mReconnectTimerId /\ t = clients[c].mReconnectTimerId
  BY <1>1, <1>4 DEF Good, Named
<1>6. QED
  BY <1>4, <1>5

\* What the functions leave becomes the tables.
LEMMA BecomesGood ==
  ASSUME NEW d, Good(d), SameAlive(Tables, d), Becomes(d)
  PROVE  Good(Tables') /\ \A b \in Clients : clients'[b].alive = clients[b].alive
<1>1. Tables' = d /\ clients' = d.clients
  BY BecomesTables DEF Good, Becomes
<1>2. Tables.clients = clients
  BY DEF Tables
<1> HIDE DEF Tables
<1>3. QED
  BY <1>1, <1>2 DEF SameAlive

\* Every step but the destructor's leaves the clients that are alive.
LEMMA StepKeeps ==
  ASSUME Inv, Next, \A c \in Clients : ~Destroy(c)
  PROVE  Good(Tables') /\ \A b \in Clients : clients'[b].alive = clients[b].alive
<1>0. /\ Tables.clients = clients /\ Tables.timers = timers /\ Tables.watches = watches
      /\ Good(Tables)
  BY DEF Inv, Tables
<1>1. ASSUME NEW c \in Clients, NEW d, Keeps(Tables, d, c), Becomes(d)
      PROVE  Good(Tables') /\ \A b \in Clients : clients'[b].alive = clients[b].alive
  <2>1. Good(d) /\ SameAlive(Tables, d)
    BY <1>1 DEF Keeps, SameAlive
  <2>2. QED
    BY <1>1, <2>1, BecomesGood
<1>2. ASSUME NEW c \in Clients, Connect(c)
      PROVE  Good(Tables') /\ \A b \in Clients : clients'[b].alive = clients[b].alive
  <2>1. PICK r \in connect(Tables, c) : Becomes(r.then)
    BY <1>2 DEF Connect
  <2>2. Tables.clients[c].alive
    BY <1>0, <1>2 DEF Connect
  <2>3. Keeps(Tables, r.then, c)
    BY <1>0, <2>2, ConnectKeeps
  <2>4. QED
    BY <1>1, <2>1, <2>3
<1>3. ASSUME NEW c \in Clients, Disconnect(c)
      PROVE  Good(Tables') /\ \A b \in Clients : clients'[b].alive = clients[b].alive
  <2>1. Tables.clients[c].alive /\ Becomes(disconnect(Tables, c))
    BY <1>0, <1>3 DEF Disconnect
  <2>2. Keeps(Tables, disconnect(Tables, c), c)
    BY <1>0, <2>1, DisconnectKeeps
  <2>3. QED
    BY <1>1, <2>1, <2>2
<1>4. ASSUME NEW c \in Clients, SendRequest(c)
      PROVE  Good(Tables') /\ \A b \in Clients : clients'[b].alive = clients[b].alive
  <2>1. Tables.clients[c].alive
    BY <1>0, <1>4 DEF SendRequest
  <2>2. Keeps(Tables, lose(Tables, c), c) /\ Keeps(Tables, handleInvalidSession(Tables, c), c)
    BY <1>0, <2>1, LoseKeeps, HandleInvalidSessionKeeps
  <2>3. QED
    BY <1>1, <1>4, <2>2 DEF SendRequest
<1>5. ASSUME NEW t \in TimerIds, FireTimer(t)
      PROVE  Good(Tables') /\ \A b \in Clients : clients'[b].alive = clients[b].alive
  <2> DEFINE c == timers[t].client
             e == stopTimer(Tables, t)
  <2>1. timers[t] \in Timer /\ clients[c].alive
    BY <1>0, <1>5 DEF FireTimer, Good, State
  <2>2. c \in Clients /\ timers[t].callback \in {"reconnect", "misc"}
    BY <2>1 DEF Timer
  <2>3. /\ Good(e) /\ e.clients = clients
        /\ SameAlive(Tables, e)
    <3>1. Good(e) /\ e.clients = Tables.clients
      BY <1>0, StopKeeps
    <3>2. QED
      BY <1>0, <3>1 DEF SameAlive
  <2>4. CASE timers[t].callback = "reconnect"
    <3>1. PICK d \in reconnect(e, c) : Becomes(d)
      BY <1>5, <2>4 DEF FireTimer
    <3>2. NoReconnect(e, c)
      BY <2>1, <2>2, <2>4, FiredReconnect
    <3> HIDE DEF e, c
    <3>3. Good(d) /\ SameAlive(e, d)
      BY <2>1, <2>2, <2>3, <3>2, ReconnectKeeps
    <3>4. SameAlive(Tables, d)
      BY <2>3, <3>3 DEF SameAlive
    <3>5. QED
      BY <3>1, <3>3, <3>4, BecomesGood
  <2>5. CASE timers[t].callback = "misc"
    <3>1. PICK d \in handleMisc(e, c) : Becomes(d)
      BY <1>5, <2>5 DEF FireTimer
    <3> HIDE DEF e, c
    <3>2. Keeps(e, d, c)
      BY <2>1, <2>2, <2>3, HandleMiscKeeps
    <3>3. Good(d) /\ SameAlive(Tables, d)
      BY <2>3, <3>2 DEF Keeps, SameAlive
    <3>4. QED
      BY <3>1, <3>3, BecomesGood
  <2>6. QED
    BY <2>2, <2>4, <2>5
<1>6. ASSUME NEW w \in WatchIds, HandleSocket(w)
      PROVE  Good(Tables') /\ \A b \in Clients : clients'[b].alive = clients[b].alive
  <2> DEFINE c == watches[w].handler
  <2>1. watches[w] \in Watch /\ clients[c].mConnected
    BY <1>0, <1>6 DEF HandleSocket, Asks, Good, State
  <2>2. c \in Clients
    BY <2>1 DEF Watch
  <2>3. Tables.clients[c].alive
    BY <1>0, <2>1, <2>2 DEF Good, ConnectedLives
  <2>4. Becomes(lose(Tables, c)) \/ Becomes(handleInvalidSession(Tables, c))
    BY <1>6 DEF HandleSocket
  <2>5. Keeps(Tables, lose(Tables, c), c) /\ Keeps(Tables, handleInvalidSession(Tables, c), c)
    BY <1>0, <2>2, <2>3, LoseKeeps, HandleInvalidSessionKeeps
  <2> HIDE DEF c
  <2>6. QED
    BY <1>1, <2>2, <2>4, <2>5
<1>7. CASE OpenFile \/ CloseFile
  <2>1. UNCHANGED <<clients, timers, watches>>
    BY <1>7 DEF OpenFile, CloseFile
  <2>2. Tables' = Tables
    BY <2>1 DEF Tables
  <2>3. QED
    BY <1>0, <2>1, <2>2
<1>8. QED
  BY <1>2, <1>3, <1>4, <1>5, <1>6, <1>7 DEF Next

\* No step breaks the invariant.
LEMMA InvNext ==
  ASSUME Inv, [Next]_vars
  PROVE  Inv'
<1>1. Good(Tables')
  <2>1. CASE UNCHANGED vars
    <3>1. Tables' = Tables
      BY <2>1 DEF vars, Tables
    <3>2. QED
      BY <3>1 DEF Inv
  <2>2. CASE \E c \in Clients : Destroy(c)
    BY <2>2, DestroyLeaves
  <2>3. CASE Next /\ \A c \in Clients : ~Destroy(c)
    BY <2>3, StepKeeps
  <2>4. QED
    BY <2>1, <2>2, <2>3
<1>2. files' \in SUBSET Fds
  <2>1. CASE OpenFile
    <3>1. FreeFds # {} /\ files' = files \cup {NewFd}
      BY <2>1 DEF OpenFile
    <3>2. NewFd \in Fds
      BY <3>1, NewFdIsFree
    <3>3. QED
      BY <3>1, <3>2 DEF Inv
  <2>2. CASE CloseFile
    BY <2>2 DEF CloseFile, Inv
  <2>3. CASE UNCHANGED files
    BY <2>3 DEF Inv
  <2>4. QED
    BY <2>1, <2>2, <2>3 DEF Next, vars, Connect, Disconnect, SendRequest, Destroy, FireTimer,
                            HandleSocket
<1>3. Good(Tables)'
  BY <1>1
<1>4. QED
  BY <1>2, <1>3 DEF Inv

\* The tables of timers and watches fit the clients that share them, in every state.
THEOREM Invariance == Spec => []Inv
<1>1. Init => Inv
  BY InvInit
<1>2. Inv /\ [Next]_vars => Inv'
  BY InvNext
<1>3. QED
  BY <1>1, <1>2, PTL DEF Spec

(***************************************************************************)
(* The properties.                                                         *)
(***************************************************************************)

\* The tables hold timers and watches of clients, and the clients ids of the tables,
\* whichever client fails, is destroyed or takes the last slot.
THEOREM TypeCorrect == Spec => []TypeOK
<1>1. Inv => TypeOK
  BY InvTypes
<1>2. QED
  BY <1>1, Invariance, PTL

\* No chain of callbacks doubles: of each kind a client has one timer at most, the one
\* its id names, although ids outlive their timers and the slots are shared.
THEOREM OneTimerOfEachKind == Spec => []OneTimerOfAKind
<1>1. Inv => OneTimerOfAKind
  <2> SUFFICES ASSUME Inv, NEW c \in Clients, clients[c].alive, NEW t \in TimerIds, Owns(c, t)
               PROVE  t = IF timers[t].callback = "misc" THEN clients[c].mMiscTimerId
                          ELSE clients[c].mReconnectTimerId
    BY DEF OneTimerOfAKind
  <2>1. Tables.clients = clients /\ Tables.timers = timers /\ Named(Tables)
    BY DEF Inv, Good, Tables
  <2> HIDE DEF Tables
  <2>2. QED
    BY <2>1 DEF Named, Owns
<1>2. QED
  BY <1>1, Invariance, PTL

\* Where the table of watches has a place for every descriptor, an open connection is
\* watched, by its own client and by no other, whatever watches were left behind.
THEOREM OpenSocketHasItsHandler ==
  ASSUME RoomToWatch
  PROVE  Spec => []SocketHasItsHandler
<1>1. Inv => SocketHasItsHandler
  <2> SUFFICES ASSUME Inv, NEW c \in Clients,
                      clients[c].mConnected, clients[c].sock # kInvalidFd
               PROVE  \E w \in WatchIds :
                        /\ watches[w].handler = c
                        /\ {v \in WatchIds : watches[v].fd = clients[c].sock} = {w}
    BY DEF SocketHasItsHandler
  <2>1. /\ Tables.clients = clients /\ Tables.watches = watches
        /\ Handled(Tables) /\ WatchedOnce(Tables)
    BY RoomToWatch DEF Inv, Good, Tables
  <2> HIDE DEF Tables
  <2>2. PICK w \in WatchIds : watches[w] = [fd |-> clients[c].sock, handler |-> c]
    BY <2>1 DEF Handled
  <2>3. watches[w].fd = clients[c].sock /\ watches[w].handler = c
    BY <2>2
  <2>4. \A v \in WatchIds : watches[v].fd = clients[c].sock => v = w
    BY <2>1, <2>3 DEF WatchedOnce
  <2>5. QED
    BY <2>3, <2>4
<1>2. QED
  BY <1>1, Invariance, PTL

\* No timer is left of a client destroyed while it is connected, in a table that others
\* have taken slots of before and after it, and no watch but those of descriptors that
\* it had lost before.
THEOREM DestructorIsClean == Spec => DestructorLeavesStaleWatches
<1>1. ASSUME Inv, Next, NEW c \in Clients,
             clients[c].alive, clients[c].mConnected, ~clients'[c].alive
      PROVE  /\ \A t \in TimerIds : timers'[t].client # c
             /\ \A w \in WatchIds :
                  watches'[w].handler = c =>
                    watches'[w] = watches[w] /\ watches[w].fd # clients[c].sock
  <2>1. PICK b \in Clients : Destroy(b)
    BY <1>1, StepKeeps
  <2>2. b = c
    BY <1>1, <2>1, DestroyLeaves
  <2>3. /\ \A t \in TimerIds : timers'[t].client # c
        /\ \A w \in WatchIds :
             watches'[w] = IF watches[w].fd = clients[c].sock THEN NoWatch ELSE watches[w]
    BY <1>1, <2>1, <2>2, DestroyLeaves
  <2>4. NoWatch.handler # c
    BY ClientsAssumption DEF NoWatch
  <2>5. QED
    BY <2>3, <2>4
<1>2. Inv /\ [Next]_vars =>
        [\A c \in Clients :
           clients[c].alive /\ clients[c].mConnected /\ ~clients'[c].alive =>
             /\ \A t \in TimerIds : timers'[t].client # c
             /\ \A w \in WatchIds :
                  watches'[w].handler = c =>
                    watches'[w] = watches[w] /\ watches[w].fd # clients[c].sock]_vars
  BY <1>1
<1>3. QED
  BY <1>2, Invariance, PTL DEF Spec, DestructorLeavesStaleWatches
=============================================================================
