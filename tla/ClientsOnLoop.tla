---------------------------- MODULE ClientsOnLoop ----------------------------
(***************************************************************************)
(* Several clients on one SelectEventLoop: what they do to each other      *)
(* through the tables of timers and of socket watches they share, and      *)
(* through the descriptors, which the operating system gives out again as  *)
(* soon as they are closed, to other parts of the program, too.            *)
(*                                                                         *)
(* A call of a client is one step here, its waits included: no other       *)
(* client runs meanwhile.  A function of the client takes the tables to    *)
(* the tables it leaves, as c calls it.                                    *)
(***************************************************************************)
EXTENDS Integers, FiniteSetsExt

CONSTANTS
  Clients, Nobody,
  TimerCount,    \* kTimerCount
  WatchCount,    \* kSocketWatchCount
  Fds            \* the descriptors of the process

kInvalidTimerId == -1
kInvalidFd == -1

ASSUME ClientsAssumption ==
  /\ Nobody \notin Clients
  /\ TimerCount \in Nat /\ WatchCount \in Nat /\ Fds \subseteq Nat

TimerIds == 0 .. TimerCount - 1
WatchIds == 0 .. WatchCount - 1

Timer == [callback : {"reconnect", "misc"}, client : Clients]
NoTimer == [callback |-> "none", client |-> Nobody]

Watch == [fd : Fds, handler : Clients]
NoWatch == [fd |-> kInvalidFd, handler |-> Nobody]

Client ==
  [ alive             : BOOLEAN,
    mConnected        : BOOLEAN,
    mReconnecting     : BOOLEAN,
    mSessionInfo      : BOOLEAN,                    \* it has a value
    mReconnectTimerId : TimerIds \cup {kInvalidTimerId},
    mMiscTimerId      : TimerIds \cup {kInvalidTimerId},
    sock              : Fds \cup {kInvalidFd} ]     \* mosquitto_socket()

NewClient ==
  [ alive |-> TRUE, mConnected |-> FALSE, mReconnecting |-> FALSE,
    mSessionInfo |-> FALSE, mReconnectTimerId |-> kInvalidTimerId,
    mMiscTimerId |-> kInvalidTimerId, sock |-> kInvalidFd ]

VARIABLES
  clients,       \* their members
  timers,        \* mTimers
  watches,       \* mSocketWatches
  files          \* descriptors other parts of the program have open

vars == <<clients, timers, watches, files>>

TypeOK ==
  /\ clients \in [Clients -> Client]
  /\ timers \in [TimerIds -> Timer \cup {NoTimer}]
  /\ watches \in [WatchIds -> Watch \cup {NoWatch}]
  /\ files \in SUBSET Fds

Init ==
  /\ clients = [c \in Clients |-> NewClient]
  /\ timers = [t \in TimerIds |-> NoTimer]
  /\ watches = [w \in WatchIds |-> NoWatch]
  /\ files = {}

Tables == [clients |-> clients, timers |-> timers, watches |-> watches]
Becomes(s) == clients' = s.clients /\ timers' = s.timers /\ watches' = s.watches

Sockets == {clients[c].sock : c \in Clients} \ {kInvalidFd}

\* the operating system gives the lowest descriptor that is free
FreeFds == Fds \ (Sockets \cup files)
NewFd == Min(FreeFds)

-----------------------------------------------------------------------------
(* The loop's tables.                                                      *)

FreeTimers(s) == {t \in TimerIds : s.timers[t] = NoTimer}

freeSlotAnyway(s) == IF FreeTimers(s) = {} THEN TimerCount ELSE Min(FreeTimers(s))   \* mutant

FreeSlot(s) == IF FreeTimers(s) = {} THEN kInvalidTimerId ELSE Min(FreeTimers(s))

occupy(s, id, timer) ==
  [s EXCEPT !.timers = [t \in TimerIds |-> IF t = id THEN timer ELSE @[t]]]

stopTimer(s, id) == occupy(s, id, NoTimer)

startReconnectTimer(s, c) ==
  [occupy(s, FreeSlot(s), [callback |-> "reconnect", client |-> c])
     EXCEPT !.clients[c].mReconnectTimerId = FreeSlot(s)]

startMiscTimer(s, c) ==
  [occupy(s, FreeSlot(s), [callback |-> "misc", client |-> c])
     EXCEPT !.clients[c].mMiscTimerId = FreeSlot(s)]

\* the first watch of the descriptor
unwatchSocket(s, fd) ==
  LET found == {w \in WatchIds : s.watches[w].fd = fd}
  IN  IF found = {} THEN s ELSE [s EXCEPT !.watches[Min(found)] = NoWatch]

addWatch(s, fd, c) ==
  LET free == {w \in WatchIds : s.watches[w] = NoWatch}
  IN  IF free = {} THEN s
      ELSE [s EXCEPT !.watches[Min(free)] = [fd |-> fd, handler |-> c]]

watchAgain(s, fd, c) == addWatch(s, fd, c)             \* mutant

watchSocket(s, fd, c) == addWatch(unwatchSocket(s, fd), fd, c)

-----------------------------------------------------------------------------
(* The client.                                                             *)

scheduleMisc(s, c) == startMiscTimer(stopTimer(s, s.clients[c].mMiscTimerId), c)

\* libmosquitto closes the socket before it reports the loss of a connection, and
\* in mosquitto_disconnect()
close(s, c) == [s EXCEPT !.clients[c].sock = kInvalidFd]

setSession(s, c, has) == [s EXCEPT !.clients[c].mSessionInfo = has]

\* the rest of disconnect()
detach(s, c) ==
  IF ~s.clients[c].mConnected THEN s
  ELSE LET unwatched == unwatchSocket(s, s.clients[c].sock)
           stopped == stopTimer(stopTimer(unwatched, s.clients[c].mReconnectTimerId),
                                s.clients[c].mMiscTimerId)
       IN  [close(stopped, c) EXCEPT !.clients[c].mConnected = FALSE]

disconnect(s, c) == detach(setSession(s, c, FALSE), c)

handleInvalidSession(s, c) ==
  IF s.clients[c].mReconnecting THEN s
  ELSE [startReconnectTimer(disconnect(s, c), c) EXCEPT !.clients[c].mReconnecting = TRUE]

loseAgain(s, c) ==                                     \* mutant
  [startReconnectTimer(close(s, c), c) EXCEPT !.clients[c].mConnected    = FALSE,
                                              !.clients[c].mReconnecting = TRUE]

\* handleLostConnection(): with the socket closed unwatchSocket() finds no watch
lose(s, c) ==
  IF s.clients[c].mReconnecting THEN close(s, c)
  ELSE [startReconnectTimer(close(setSession(s, c, FALSE), c), c)
          EXCEPT !.clients[c].mConnected    = FALSE,
                 !.clients[c].mReconnecting = TRUE]

\* connectMqtt() opened a socket
open(s, c, fd) ==
  [watchSocket(s, fd, c) EXCEPT !.clients[c].mConnected = TRUE, !.clients[c].sock = fd]

\* connect() gives up after the CONNACK
abandon(s, c) == [close(s, c) EXCEPT !.clients[c].mConnected = FALSE]

\* How connect() may fail once there is a socket: the CONNACK is missing; or a refusal,
\* or the connection is lost before it; or the login or a subscription fails, as
\* likely because the connection is lost meanwhile or the session is refused.  The
\* last subscription fails with the session open.
failures(s, c) ==
  LET lost == lose(s, c)
  IN  {s, lost}
        \cup {abandon(f, c) : f \in {s, lost, handleInvalidSession(s, c)}}
        \cup {abandon(setSession(f, c, TRUE), c) : f \in {s, lost}}

Outcome(ok, s) == [ok |-> ok, then |-> s]

connect(s, c) ==
  IF s.clients[c].mConnected THEN {Outcome(TRUE, s)}
  ELSE {Outcome(FALSE, s)} \cup                  \* connectMqtt() fails
       (IF FreeFds = {} THEN {}
        ELSE LET opened == open(s, c, NewFd)
             IN  {Outcome(FALSE, f) : f \in failures(opened, c)}
                   \cup {Outcome(TRUE, scheduleMisc(setSession(opened, c, TRUE), c))})

reconnect(s, c) ==
  IF ~s.clients[c].mReconnecting THEN {s}
  ELSE {IF r.ok THEN [r.then EXCEPT !.clients[c].mReconnecting = FALSE]
        ELSE startReconnectTimer(r.then, c) : r \in connect(s, c)}

handleMisc(s, c) ==
  IF ~s.clients[c].mConnected THEN {s}
  ELSE {lose(s, c)} \cup (IF s.clients[c].sock = kInvalidFd THEN {} ELSE {scheduleMisc(s, c)})

-----------------------------------------------------------------------------
(* Steps.                                                                  *)

Connect(c) ==
  /\ clients[c].alive
  /\ \E r \in connect(Tables, c) : Becomes(r.then)
  /\ UNCHANGED files

Disconnect(c) ==
  /\ clients[c].alive
  /\ Becomes(disconnect(Tables, c))
  /\ UNCHANGED files

\* sendRequest() of the application reads in its own wait, without the loop's select().
SendRequest(c) ==
  /\ clients[c].alive /\ clients[c].mConnected /\ clients[c].mSessionInfo
  /\ clients[c].sock # kInvalidFd
  /\ Becomes(lose(Tables, c)) \/ Becomes(handleInvalidSession(Tables, c))
  /\ UNCHANGED files

leaveAll(c) == Tables                                  \* mutant

\* what the destructor leaves
leave(c) == disconnect(Tables, c)

Destroy(c) ==
  /\ clients[c].alive
  /\ Becomes([leave(c) EXCEPT !.clients[c] = [NewClient EXCEPT !.alive = FALSE]])
  /\ UNCHANGED files

\* The loop releases the slot, then calls back.
FireTimer(t) ==
  /\ timers[t] # NoTimer /\ clients[timers[t].client].alive
  /\ \E s \in IF timers[t].callback = "reconnect"
              THEN reconnect(stopTimer(Tables, t), timers[t].client)
              ELSE handleMisc(stopTimer(Tables, t), timers[t].client) : Becomes(s)
  /\ UNCHANGED files

\* socketEvents() of a client that is not connected are none.
Asks(w) == watches[w] # NoWatch /\ clients[watches[w].handler].mConnected
SelectSucceeds == \A w \in WatchIds : Asks(w) => watches[w].fd \in Sockets \cup files

\* handleSocketEvents(): the connection is lost, or the session found invalid.  Other
\* messages leave the tables alone.
HandleSocket(w) ==
  /\ SelectSucceeds /\ Asks(w)
  /\ LET c == watches[w].handler
     IN  Becomes(lose(Tables, c)) \/ Becomes(handleInvalidSession(Tables, c))
  /\ UNCHANGED files

OpenFile ==
  /\ FreeFds # {}
  /\ files' = files \cup {NewFd}
  /\ UNCHANGED <<clients, timers, watches>>

CloseFile ==
  /\ \E fd \in files : files' = files \ {fd}
  /\ UNCHANGED <<clients, timers, watches>>

Next ==
  \/ \E c \in Clients : Connect(c) \/ Disconnect(c) \/ SendRequest(c) \/ Destroy(c)
  \/ \E t \in TimerIds : FireTimer(t)
  \/ \E w \in WatchIds : HandleSocket(w)
  \/ OpenFile \/ CloseFile

Spec == Init /\ [][Next]_vars

-----------------------------------------------------------------------------
(* Properties.                                                             *)

Owns(c, t) == timers[t].client = c

\* The slots are shared and ids outlive their timers: still each client has at most
\* one timer of a kind pending, the one its id names, so that no chain of callbacks
\* doubles.
OneTimerOfAKind ==
  \A c \in Clients : clients[c].alive =>
    \A t \in TimerIds : Owns(c, t) =>
      t = IF timers[t].callback = "misc" THEN clients[c].mMiscTimerId
          ELSE clients[c].mReconnectTimerId

\* An open connection is watched once, for the client it belongs to, although watches
\* of the same descriptor were left behind by it or by another client.
SocketHasItsHandler ==
  \A c \in Clients : clients[c].mConnected /\ clients[c].sock # kInvalidFd =>
    \E w \in WatchIds :
      /\ watches[w].handler = c
      /\ {v \in WatchIds : watches[v].fd = clients[c].sock} = {w}

\* The destructor of a connected client takes its timers and the watch of its socket
\* with it.  What the loop keeps of a client that is gone, and may call, is at most a
\* watch of a descriptor that the client had lost before, and whose number nobody's
\* watchSocket() took over: a client that never lost a socket leaves nothing.
DestructorLeavesStaleWatches ==
  [][\A c \in Clients :
       clients[c].alive /\ clients[c].mConnected /\ ~clients'[c].alive =>
         /\ \A t \in TimerIds : timers'[t].client # c
         /\ \A w \in WatchIds :
              watches'[w].handler = c =>
                watches'[w] = watches[w] /\ watches[w].fd # clients[c].sock]_vars

\* "break the loop": select() does not fail, which would end the loop for all its
\* users, timers pending or not, over a watch that some client left behind.
LoopGoesOn == SelectSucceeds

\* "due to mosquitto_loop_misc() PINGREQ": the next mosquitto_loop_misc() of an open
\* connection is given up by a step of its own client only.
PingsGoOn ==
  [][\A t \in TimerIds :
       LET c == timers[t].client
       IN  timers[t].callback = "misc" /\ clients[c].mConnected /\ clients[c].sock # kInvalidFd
             => timers'[t] = timers[t] \/ clients'[c] # clients[c]]_vars
=============================================================================
