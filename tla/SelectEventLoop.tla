-------------------------- MODULE SelectEventLoop --------------------------
(***************************************************************************)
(* io::SelectEventLoop: runUntil() with its table of timers and its table  *)
(* of socket watches, and the callbacks, which call the loop while it      *)
(* walks through these tables.                                             *)
(*                                                                         *)
(* Time passes between any two steps.  Its unit is the microsecond of a    *)
(* timeval: a shorter time is no time, for convertToTimeval() truncates.   *)
(***************************************************************************)
EXTENDS Integers, FiniteSets, FiniteSetsExt

CONSTANTS
  TimerCount,    \* kTimerCount
  WatchCount,    \* kSocketWatchCount
  Fds,           \* the descriptors a socket may get
  Delays,        \* of startTimer()
  RunTimes,      \* of runFor(); Forever for run()
  MaxClock,      \* bound: the time a behaviour takes
  MaxStarts      \* bound: timers started in a behaviour

kInvalidFd == -1
Forever == MaxClock + 1          \* Clock::time_point::max()

ASSUME LoopAssumption ==
  /\ TimerCount \in Nat /\ WatchCount \in Nat
  /\ MaxClock \in Nat /\ MaxStarts \in Nat
  /\ Fds \subseteq Nat /\ Delays \subseteq Nat /\ RunTimes \subseteq Nat

TimerIds == 0 .. TimerCount - 1
WatchIds == 0 .. WatchCount - 1

\* A timer is known by its number, the data its callback is given.
Timer == [tag : Nat, expiresAt : 0 .. MaxClock]
NoTimer == [tag |-> 0, expiresAt |-> 0]

VARIABLES
  clock,         \* Clock::now()
  timers,        \* mTimers
  watches,       \* mSocketWatches
  mRun,
  started,       \* number of timers started so far
  running,       \* number of the timer whose callback runs, or 0
  open,          \* descriptors of open sockets
  readable,      \* those with something to read
  silent,        \* descriptors whose handler's socketEvents() are none
  at,            \* where runUntil() is, "idle" when it is not running
  slot,          \* the place of its walk through a table
  activeTimers,  \* its local variables
  time,
  wakeAt,        \* when select() times out
  ready          \* what select() returned

tables == <<timers, watches, started, mRun>>
env == <<open, readable, silent>>
locals == <<at, slot, activeTimers, time, wakeAt, ready>>
vars == <<clock, tables, running, env, locals>>

TypeOK ==
  /\ clock \in 0 .. MaxClock
  /\ timers \in [TimerIds -> Timer]
  /\ watches \in [WatchIds -> Fds \cup {kInvalidFd}]
  /\ mRun \in BOOLEAN
  /\ started \in Nat /\ running \in Nat
  /\ open \in SUBSET Fds /\ readable \in SUBSET open /\ silent \in SUBSET Fds
  /\ at \in {"idle", "while", "timers", "callback", "select", "sockets", "handler"}
  /\ slot \in Nat
  /\ activeTimers \in BOOLEAN
  /\ time \in Nat /\ wakeAt \in Nat
  /\ ready \in SUBSET Fds

isActive(t) == timers[t].tag # 0
Active == {t \in TimerIds : isActive(t)}
Watched == {watches[w] : w \in WatchIds} \ {kInvalidFd}
Asked == Watched \ silent         \* what is set in readFds and writeFds

Init ==
  /\ clock = 0
  /\ timers = [t \in TimerIds |-> NoTimer]
  /\ watches = [w \in WatchIds |-> kInvalidFd]
  /\ mRun = TRUE
  /\ started = 0 /\ running = 0
  /\ open = {} /\ readable = {} /\ silent = {}
  /\ at = "idle" /\ slot = 0 /\ activeTimers = FALSE
  /\ time = 0 /\ wakeAt = 0 /\ ready = {}

-----------------------------------------------------------------------------
(* The calls, from outside of the loop or from a callback it runs.         *)

MayCall == at \in {"idle", "callback", "handler"}

\* With no free slot it returns kInvalidTimerId and changes nothing.
FreeSlots == TimerIds \ Active

dueBefore(d) == clock - d                              \* mutant

dueAt(d) == clock + d

startTimer ==
  /\ MayCall /\ FreeSlots # {} /\ started < MaxStarts
  /\ \E d \in Delays :
       /\ dueAt(d) <= MaxClock
       /\ timers' = [timers EXCEPT ![Min(FreeSlots)] = [tag |-> started + 1, expiresAt |-> dueAt(d)]]
  /\ started' = started + 1
  /\ UNCHANGED <<clock, watches, mRun, running, env, locals>>

\* the id of a slot not in use stops nothing
stopTimer ==
  /\ MayCall
  /\ \E id \in Active : timers' = [timers EXCEPT ![id] = NoTimer]
  /\ UNCHANGED <<clock, watches, mRun, started, running, env, locals>>

\* the first watch of the descriptor
unwatchSocket(fd) ==
  LET found == {w \in WatchIds : watches[w] = fd}
  IN  IF found = {} THEN watches ELSE [watches EXCEPT ![Min(found)] = kInvalidFd]

\* Without a free slot the socket stays unwatched, and nobody is told.
addWatch(ws, fd) ==
  LET free == {w \in WatchIds : ws[w] = kInvalidFd}
  IN  IF free = {} THEN ws ELSE [ws EXCEPT ![Min(free)] = fd]

watchAgain(fd) == addWatch(watches, fd)                \* mutant

watchSocket(fd) == addWatch(unwatchSocket(fd), fd)

\* The handler of a new socket may be one that was silent: with it the watches it
\* left behind ask again.
OpenAndWatch ==
  /\ MayCall
  /\ \E fd \in Fds \ open :
       /\ open' = open \cup {fd}
       /\ watches' = watchSocket(fd)
       /\ silent' \in SUBSET (silent \ {fd})
  /\ UNCHANGED <<clock, timers, mRun, started, running, readable, locals>>

\* The owner of a socket unwatches and closes it, or closes it first, after which
\* it does not know the descriptor any more and leaves the watch behind, most often
\* with a handler that wants no events while it has no connection.
Close ==
  /\ MayCall
  /\ \E fd \in open :
       /\ open' = open \ {fd}
       /\ readable' = readable \ {fd}
       /\ \/ watches' = unwatchSocket(fd) /\ UNCHANGED silent
          \/ UNCHANGED watches /\ silent' \in {silent, silent \cup {fd}}
  /\ UNCHANGED <<clock, timers, mRun, started, running, locals>>

stop ==
  /\ MayCall
  /\ mRun' = FALSE
  /\ UNCHANGED <<clock, timers, watches, started, running, env, locals>>

run ==
  /\ at = "idle"
  /\ \E d \in RunTimes : time' = IF d = Forever \/ clock + d > MaxClock THEN Forever ELSE clock + d
  /\ at' = "while"
  /\ UNCHANGED <<clock, tables, running, env, slot, activeTimers, wakeAt, ready>>

-----------------------------------------------------------------------------
(* One round of the loop: the timers, select(), the sockets.               *)

Goto(place) == at' = place

\* the end of the scope of a round's variables
ForgetRound == slot' = 0 /\ activeTimers' = FALSE /\ wakeAt' = 0 /\ ready' = {}

Return ==
  /\ Goto("idle")
  /\ ForgetRound /\ time' = 0

While ==
  /\ at = "while"
  /\ IF mRun /\ clock <= time
     THEN Goto("timers") /\ UNCHANGED <<slot, activeTimers, time, wakeAt, ready>>
     ELSE Return
  /\ UNCHANGED <<clock, tables, running, env>>

hasExpired(t) == timers[t].expiresAt <= clock

PassTimer ==
  /\ at = "timers" /\ slot < TimerCount
  /\ ~isActive(slot) \/ ~hasExpired(slot)
  /\ activeTimers' = (activeTimers \/ isActive(slot))
  /\ slot' = slot + 1
  /\ UNCHANGED <<clock, tables, running, env, at, time, wakeAt, ready>>

keepSlot == timers                                     \* mutant

release == [timers EXCEPT ![slot] = NoTimer]

FireTimer ==
  /\ at = "timers" /\ slot < TimerCount
  /\ isActive(slot) /\ hasExpired(slot)
  /\ timers' = release
  /\ running' = timers[slot].tag
  /\ activeTimers' = TRUE
  /\ Goto("callback")
  /\ UNCHANGED <<clock, watches, mRun, started, env, slot, time, wakeAt, ready>>

CallbackReturns ==
  /\ at = "callback"
  /\ running' = 0
  /\ Goto("timers")
  /\ slot' = slot + 1
  /\ UNCHANGED <<clock, tables, env, activeTimers, time, wakeAt, ready>>

timeOnly == time                                       \* mutant
timersOnly == Min({Forever} \cup {timers[t].expiresAt : t \in Active})   \* mutant

\* when select() is to return, in the past if a timer expired since the walk
wake == Min({time, Forever} \cup {timers[t].expiresAt : t \in Active})

TimersDone == at = "timers" /\ slot = TimerCount

Break ==
  /\ TimersDone
  /\ Watched = {} /\ ~activeTimers
  /\ Return
  /\ UNCHANGED <<clock, tables, running, env>>

\* select() fails: a negative timeout is EINVAL, a closed descriptor EBADF
SelectFails ==
  /\ TimersDone
  /\ Watched # {} \/ activeTimers
  /\ wake < clock \/ ~(Asked \subseteq open)
  /\ Return
  /\ UNCHANGED <<clock, tables, running, env>>

Select ==
  /\ TimersDone
  /\ Watched # {} \/ activeTimers
  /\ wake >= clock /\ Asked \subseteq open
  /\ wakeAt' = wake
  /\ activeTimers' = FALSE               \* not read any more in this round
  /\ Goto("select")
  /\ UNCHANGED <<clock, tables, running, env, slot, time, ready>>

\* a signal, EINTR
SelectInterrupted ==
  /\ at = "select"
  /\ Return
  /\ UNCHANGED <<clock, tables, running, env>>

SelectReturns ==
  /\ at = "select"
  /\ Asked \cap readable # {} \/ clock >= wakeAt
  /\ ready' = Asked \cap readable
  /\ slot' = 0
  /\ Goto("sockets")
  /\ UNCHANGED <<clock, tables, running, env, activeTimers, time, wakeAt>>

PassWatch ==
  /\ at = "sockets" /\ slot < WatchCount /\ watches[slot] = kInvalidFd
  /\ slot' = slot + 1
  /\ UNCHANGED <<clock, tables, running, env, at, activeTimers, time, wakeAt, ready>>

\* handleSocketEvents() reads what there is, if it is told so
reads(fd) == readable \ ({fd} \cap ready)

HandleSocket ==
  /\ at = "sockets" /\ slot < WatchCount /\ watches[slot] # kInvalidFd
  /\ readable' = reads(watches[slot])
  /\ Goto("handler")
  /\ UNCHANGED <<clock, tables, running, open, silent, slot, activeTimers, time, wakeAt, ready>>

HandlerEndsRound ==                                    \* mutant
  /\ at = "handler"
  /\ Goto("while") /\ ForgetRound
  /\ UNCHANGED <<clock, tables, running, env, time>>

HandlerReturns ==
  /\ at = "handler"
  /\ Goto("sockets")
  /\ slot' = slot + 1
  /\ UNCHANGED <<clock, tables, running, env, activeTimers, time, wakeAt, ready>>

RoundEnds ==
  /\ at = "sockets" /\ slot = WatchCount
  /\ Goto("while") /\ ForgetRound
  /\ UNCHANGED <<clock, tables, running, env, time>>

-----------------------------------------------------------------------------
Tick ==
  /\ clock < MaxClock
  /\ clock' = clock + 1
  /\ UNCHANGED <<tables, running, env, locals>>

Arrives ==
  /\ \E fd \in open \ readable : readable' = readable \cup {fd}
  /\ UNCHANGED <<clock, tables, running, open, silent, locals>>

Calls == startTimer \/ stopTimer \/ OpenAndWatch \/ Close \/ stop \/ run
Round == \/ While \/ PassTimer \/ FireTimer \/ CallbackReturns
         \/ Break \/ SelectFails \/ Select \/ SelectReturns
         \/ PassWatch \/ HandleSocket \/ HandlerReturns \/ RoundEnds

Next == Calls \/ Round \/ SelectInterrupted \/ Tick \/ Arrives

Spec == Init /\ [][Next]_vars

\* The loop runs when it can, callbacks return, time passes.
FairSpec == Spec /\ WF_vars(Round) /\ WF_vars(Tick)

-----------------------------------------------------------------------------
(* Properties.                                                             *)

\* The walk over the slots, interrupted by callbacks that start and stop timers in
\* the same slots, calls back each timer at most once, when it is due, never after
\* it was stopped, and forgets none.
Service ==
  INSTANCE TimerService WITH
    Times <- 0 .. MaxClock, now <- clock, pending <- {timers[t] : t \in Active}

ImplementsTimerService == Service!Spec

\* No socket has two watches, so that none is handled twice with one readiness.
WatchedOnce ==
  \A v, w \in WatchIds : watches[v] = watches[w] /\ watches[v] # kInvalidFd => v = w

\* While the loop runs a timer does not wait for ever, whatever the sockets and the
\* other timers' callbacks do.
TimersServed ==
  \A n \in 1 .. MaxStarts :
    at # "idle" /\ (\E t \in TimerIds : timers[t].tag = n)
      ~> at = "idle" \/ \A t \in TimerIds : timers[t].tag # n

\* Nor does a watched socket that has something to read.
SocketsServed ==
  \A fd \in Fds :
    at # "idle" /\ fd \in Asked \cap readable
      ~> at = "idle" \/ fd \notin Asked \cap readable

\* runFor() returns, whatever the callbacks start, watch and stop while it runs.
RunForReturns == at # "idle" /\ time < MaxClock ~> at = "idle"

\* "consider new timers as well": the loop does not end over its timeout while a
\* timer is pending.
NewTimersConsidered ==
  [][TimersDone /\ at' = "idle" /\ clock <= time /\ Asked \subseteq open => Active = {}]_vars
=============================================================================
