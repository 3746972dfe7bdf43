----------------------- MODULE SelectEventLoopProofs -----------------------
(***************************************************************************)
(* Proofs about SelectEventLoop, for tables of every size and any calls    *)
(* from its callbacks.                                                     *)
(***************************************************************************)
EXTENDS SelectEventLoop, WellFoundedInduction, TLAPS

(***************************************************************************)
(* The tables.                                                             *)
(***************************************************************************)

\* A set of numbers that is not empty has a least one.
LEMMA MinIsLeast ==
  ASSUME NEW S \in SUBSET Nat, S # {}
  PROVE  Min(S) \in S /\ \A y \in S : Min(S) <= y
<1>1. PICK x \in S : \A y \in S : ~(y < x)
  <2> DEFINE Less == {p \in Nat \X Nat : p[1] < p[2]}
  <2>1. IsWellFoundedOn(Less, Nat)
    BY NatLessThanWellFounded DEF OpToRel
  <2>2. \E x \in S : \A y \in S : <<y, x>> \notin Less
    <3> HIDE DEF Less
    <3> QED  BY <2>1, WFMin
  <2>3. QED
    BY <2>2
<1>2. \A y \in S : x <= y
  BY <1>1
<1>3. QED
  BY <1>2 DEF Min

\* No two timers are the same one, and none has a number not given yet.
Numbered ==
  /\ \A t \in TimerIds : timers[t].tag <= started
  /\ \A t, u \in TimerIds : isActive(t) /\ timers[t].tag = timers[u].tag => t = u

InCallback == running # 0 <=> at = "callback"

LoopInv == TypeOK /\ WatchedOnce /\ Numbered /\ InCallback

Pending == {timers[t] : t \in Active}

\* Emptying the slot of an active timer takes that timer, and no other, out of the
\* pending ones.
LEMMA EmptySlot ==
  ASSUME LoopInv, NEW id \in Active, timers' = [timers EXCEPT ![id] = NoTimer]
  PROVE  /\ timers' \in [TimerIds -> Timer]
         /\ timers[id] \in Pending
         /\ Pending' = Pending \ {timers[id]}
         /\ started' = started => Numbered'
<1>1. /\ timers \in [TimerIds -> Timer] /\ id \in TimerIds /\ started \in Nat
      /\ NoTimer \in Timer /\ NoTimer.tag = 0
  BY LoopAssumption DEF LoopInv, TypeOK, Active, Timer, NoTimer
<1>2. timers' \in [TimerIds -> Timer]
  BY <1>1
<1>3. \A t \in TimerIds : timers'[t] = IF t = id THEN NoTimer ELSE timers[t]
  BY <1>1
<1>4. Active' = Active \ {id}
  BY <1>1, <1>3 DEF Active, isActive
<1>5. \A t \in Active : timers[t] = timers[id] => t = id
  BY DEF LoopInv, Numbered, Active
<1>6. \A t \in Active' : timers'[t] = timers[t]
  BY <1>3, <1>4 DEF Active
<1>7. Pending' = {timers[t] : t \in Active \ {id}}
  BY <1>4, <1>6 DEF Pending
<1>8. Pending' = Pending \ {timers[id]}
  BY <1>5, <1>7 DEF Pending
<1>9. started' = started => Numbered'
  BY <1>1, <1>3 DEF LoopInv, Numbered, isActive
<1>10. QED
  BY <1>2, <1>8, <1>9 DEF Pending

\* startTimer() puts one timer, with the next number, into a slot that was free.
LEMMA FillSlot ==
  ASSUME LoopInv, FreeSlots # {}, NEW due \in 0 .. MaxClock,
         timers' = [timers EXCEPT ![Min(FreeSlots)] = [tag |-> started + 1, expiresAt |-> due]],
         started' = started + 1
  PROVE  /\ timers' \in [TimerIds -> Timer]
         /\ Pending' = Pending \cup {[tag |-> started', expiresAt |-> due]}
         /\ Numbered'
<1> DEFINE id == Min(FreeSlots)
           new == [tag |-> started + 1, expiresAt |-> due]
<1>1. timers \in [TimerIds -> Timer] /\ started \in Nat /\ TimerIds \subseteq Nat
  BY LoopAssumption DEF LoopInv, TypeOK, TimerIds
<1>2. id \in FreeSlots
  BY <1>1, MinIsLeast DEF FreeSlots
<1> HIDE DEF id
<1>3. id \in TimerIds /\ ~isActive(id) /\ id \notin Active
  BY <1>2 DEF FreeSlots, Active
<1>4. new \in Timer
  BY <1>1 DEF Timer
<1>5. timers' = [timers EXCEPT ![id] = new]
  BY DEF id
<1>6. timers' \in [TimerIds -> Timer]
  BY <1>1, <1>4, <1>5
<1>7. \A t \in TimerIds : timers'[t] = IF t = id THEN new ELSE timers[t]
  BY <1>1, <1>5
<1>8. new.tag = started + 1 /\ started + 1 # 0
  BY <1>1
<1> HIDE DEF new
<1>9. Active' = Active \cup {id}
  BY <1>3, <1>7, <1>8 DEF Active, isActive
<1>10. \A t \in Active : timers'[t] = timers[t]
  BY <1>3, <1>7 DEF Active
<1>11. Pending' = Pending \cup {new}
  BY <1>3, <1>7, <1>9, <1>10 DEF Pending
<1>12. \A t \in TimerIds : timers[t].tag \in Nat
  BY <1>1 DEF Timer
<1>13. Numbered'
  <2>1. \A t \in TimerIds : timers'[t].tag <= started'
    BY <1>1, <1>7, <1>8, <1>12 DEF LoopInv, Numbered
  <2>2. ASSUME NEW t \in TimerIds, NEW u \in TimerIds,
               isActive(t)', timers'[t].tag = timers'[u].tag
        PROVE  t = u
    <3>1. timers[t].tag <= started /\ timers[u].tag <= started
      BY DEF LoopInv, Numbered
    <3>2. CASE t = id \/ u = id
      BY <2>2, <3>1, <3>2, <1>1, <1>7, <1>8, <1>12
    <3>3. CASE t # id /\ u # id
      BY <2>2, <3>3, <1>7 DEF LoopInv, Numbered, isActive
    <3>4. QED
      BY <3>2, <3>3
  <2>3. QED
    BY <2>1, <2>2 DEF Numbered
<1>14. QED
  BY <1>6, <1>11, <1>13 DEF new

\* Unwatching and watching keep the watch table one to one.
LEMMA WatchOnce ==
  ASSUME LoopInv, NEW fd \in Fds
  PROVE  /\ unwatchSocket(fd) \in [WatchIds -> Fds \cup {kInvalidFd}]
         /\ watchSocket(fd) \in [WatchIds -> Fds \cup {kInvalidFd}]
         /\ watches' \in {unwatchSocket(fd), watchSocket(fd)} => WatchedOnce'
<1> DEFINE ws == unwatchSocket(fd)
           found == {w \in WatchIds : watches[w] = fd}
           first == Min(found)
           free == {w \in WatchIds : ws[w] = kInvalidFd}
           id == Min(free)
<1>1. /\ watches \in [WatchIds -> Fds \cup {kInvalidFd}] /\ fd # kInvalidFd
      /\ WatchIds \subseteq Nat
  BY LoopAssumption DEF LoopInv, TypeOK, kInvalidFd, WatchIds
<1>2. /\ ws \in [WatchIds -> Fds \cup {kInvalidFd}]
      /\ \A w \in WatchIds : ws[w] = IF watches[w] = fd THEN kInvalidFd ELSE watches[w]
      /\ \A w \in WatchIds : ws[w] # fd
  <2>1. /\ found = {} => ws = watches
        /\ found # {} => ws = [watches EXCEPT ![first] = kInvalidFd]
    BY DEF unwatchSocket
  <2>2. found # {} => first \in WatchIds /\ watches[first] = fd
    BY <1>1, MinIsLeast
  <2> HIDE DEF ws, first
  <2>3. CASE found = {}
    BY <1>1, <2>1, <2>3
  <2>4. CASE found # {}
    <3>1. \A w \in WatchIds : watches[w] = fd => w = first
      BY <1>1, <2>2, <2>4 DEF LoopInv, WatchedOnce
    <3>2. QED
      BY <1>1, <2>1, <2>2, <2>4, <3>1
  <2>5. QED
    BY <2>3, <2>4
<1>3. \A v, w \in WatchIds : ws[v] = ws[w] /\ ws[v] # kInvalidFd => v = w
  BY <1>2 DEF LoopInv, WatchedOnce
<1>4. free # {} => id \in WatchIds /\ ws[id] = kInvalidFd
  BY <1>1, MinIsLeast
<1>5. /\ free = {} => watchSocket(fd) = ws
      /\ free # {} => watchSocket(fd) = [ws EXCEPT ![id] = fd]
  BY DEF watchSocket, addWatch
<1> HIDE DEF free, id, ws
<1>6. CASE free = {}
  BY <1>2, <1>3, <1>5, <1>6 DEF WatchedOnce, ws
<1>7. CASE free # {}
  <2>1. watchSocket(fd) \in [WatchIds -> Fds \cup {kInvalidFd}]
    BY <1>2, <1>4, <1>5, <1>7
  <2>2. \A w \in WatchIds : watchSocket(fd)[w] = IF w = id THEN fd ELSE ws[w]
    BY <1>2, <1>4, <1>5, <1>7
  <2>3. \A v, w \in WatchIds :
          watchSocket(fd)[v] = watchSocket(fd)[w] /\ watchSocket(fd)[v] # kInvalidFd => v = w
    BY <1>2, <1>3, <2>2
  <2>4. QED
    BY <1>2, <1>3, <2>1, <2>3 DEF WatchedOnce, ws
<1>8. QED
  BY <1>6, <1>7

(***************************************************************************)
(* The steps.  Each keeps the invariant and is a step of the timer service *)
(* or none.                                                                *)
(***************************************************************************)

\* startTimer().
LEMMA StartStep ==
  ASSUME LoopInv, startTimer
  PROVE  LoopInv' /\ Service!startTimer
<1>1. PICK d \in Delays :
        /\ FreeSlots # {} /\ dueAt(d) <= MaxClock
        /\ timers' = [timers EXCEPT ![Min(FreeSlots)] = [tag |-> started + 1, expiresAt |-> dueAt(d)]]
        /\ started' = started + 1
        /\ UNCHANGED <<clock, watches, mRun, running, env, locals>>
  BY DEF startTimer
<1>2. dueAt(d) \in 0 .. MaxClock /\ dueAt(d) >= clock
  BY <1>1, LoopAssumption DEF LoopInv, TypeOK, dueAt
<1>3. /\ timers' \in [TimerIds -> Timer]
      /\ Pending' = Pending \cup {[tag |-> started', expiresAt |-> dueAt(d)]}
      /\ Numbered'
  BY <1>1, <1>2, FillSlot
<1>4. LoopInv'
  BY <1>1, <1>3 DEF LoopInv, TypeOK, WatchedOnce, InCallback, env, locals
<1>5. Service!startTimer
  BY <1>1, <1>2, <1>3 DEF Service!startTimer, Pending
<1>6. QED
  BY <1>4, <1>5

\* stopTimer().
LEMMA StopStep ==
  ASSUME LoopInv, stopTimer
  PROVE  LoopInv' /\ Service!stopTimer
<1>1. PICK id \in Active : timers' = [timers EXCEPT ![id] = NoTimer]
  BY DEF stopTimer
<1>2. UNCHANGED <<clock, watches, mRun, started, running, env, locals>>
  BY DEF stopTimer
<1>3. /\ timers' \in [TimerIds -> Timer]
      /\ timers[id] \in Pending /\ Pending' = Pending \ {timers[id]}
      /\ Numbered'
  BY <1>1, <1>2, EmptySlot
<1>4. LoopInv'
  BY <1>2, <1>3 DEF LoopInv, TypeOK, WatchedOnce, InCallback, env, locals
<1>5. Service!stopTimer
  BY <1>2, <1>3 DEF Service!stopTimer, Pending
<1>6. QED
  BY <1>4, <1>5

\* The loop calls a timer back.
LEMMA FireStep ==
  ASSUME LoopInv, FireTimer
  PROVE  LoopInv' /\ Service!callback
<1>1. slot \in Active /\ timers[slot].expiresAt <= clock
  BY LoopAssumption DEF FireTimer, hasExpired, Active, TimerIds, LoopInv, TypeOK
<1>2. /\ timers' = [timers EXCEPT ![slot] = NoTimer]
      /\ running' = timers[slot].tag /\ running = 0
      /\ at' = "callback" /\ activeTimers' = TRUE
      /\ UNCHANGED <<clock, watches, mRun, started, env, slot, time, wakeAt, ready>>
  BY DEF FireTimer, release, Goto, LoopInv, InCallback
<1>3. /\ timers' \in [TimerIds -> Timer]
      /\ timers[slot] \in Pending /\ Pending' = Pending \ {timers[slot]}
      /\ Numbered'
  BY <1>1, <1>2, EmptySlot
<1>4. running' \in Nat /\ running' # 0
  BY <1>1, <1>2 DEF LoopInv, TypeOK, Timer, Active, isActive
<1>5. LoopInv'
  BY <1>2, <1>3, <1>4 DEF LoopInv, TypeOK, WatchedOnce, InCallback, env
<1>6. Service!callback
  BY <1>1, <1>2, <1>3 DEF Service!callback, Pending
<1>7. QED
  BY <1>5, <1>6

\* A callback returns.
LEMMA ReturnStep ==
  ASSUME LoopInv, CallbackReturns
  PROVE  LoopInv' /\ Service!return
<1>1. /\ running # 0 /\ running' = 0 /\ at' = "timers" /\ slot' = slot + 1
      /\ UNCHANGED <<clock, timers, watches, started, mRun, env, activeTimers, time, wakeAt, ready>>
  BY DEF CallbackReturns, Goto, LoopInv, InCallback, tables
<1>2. UNCHANGED Pending
  BY <1>1 DEF Pending, Active, isActive
<1>3. LoopInv'
  BY <1>1 DEF LoopInv, TypeOK, WatchedOnce, Numbered, isActive, InCallback, env
<1>4. Service!return
  BY <1>1, <1>2 DEF Service!return, Pending
<1>5. QED
  BY <1>3, <1>4

\* Time passes.
LEMMA TickStep ==
  ASSUME LoopInv, Tick
  PROVE  LoopInv' /\ Service!Tick
<1>1. UNCHANGED Pending
  BY DEF Tick, tables, Pending, Active, isActive
<1>2. LoopInv'
  BY LoopAssumption
     DEF Tick, tables, env, locals, LoopInv, TypeOK, WatchedOnce, Numbered, isActive, InCallback
<1>3. Service!Tick
  BY <1>1 DEF Tick, tables, Service!Tick, Pending
<1>4. QED
  BY <1>2, <1>3

TimersKept == UNCHANGED <<clock, timers, started, running>>

\* A step that leaves the timers alone does not show in the timer service.
LEMMA Unseen ==
  ASSUME LoopInv, TimersKept
  PROVE  UNCHANGED Service!vars /\ Numbered'
BY DEF TimersKept, Service!vars, Active, isActive, LoopInv, Numbered

\* A socket is opened and watched, or closed with its watch or without.
LEMMA SocketSteps ==
  ASSUME LoopInv, OpenAndWatch \/ Close
  PROVE  LoopInv' /\ TimersKept
<1>1. CASE OpenAndWatch
  <2>1. PICK fd \in Fds : open' = open \cup {fd} /\ watches' = watchSocket(fd)
    BY <1>1 DEF OpenAndWatch
  <2>2. watches' \in [WatchIds -> Fds \cup {kInvalidFd}] /\ WatchedOnce'
    BY <2>1, WatchOnce
  <2>3. TimersKept /\ Numbered'
    BY <1>1, Unseen DEF OpenAndWatch, TimersKept
  <2>4. TypeOK' /\ InCallback'
    BY <1>1, <2>1, <2>2 DEF OpenAndWatch, LoopInv, TypeOK, InCallback, locals
  <2>5. QED
    BY <2>2, <2>3, <2>4 DEF LoopInv
<1>2. CASE Close
  <2>1. PICK fd \in open : /\ open' = open \ {fd} /\ readable' = readable \ {fd}
                           /\ watches' \in {unwatchSocket(fd), watches}
    BY <1>2 DEF Close
  <2>2. fd \in Fds
    BY DEF LoopInv, TypeOK
  <2>3. watches' \in [WatchIds -> Fds \cup {kInvalidFd}] /\ WatchedOnce'
    BY <2>1, <2>2, WatchOnce DEF LoopInv, TypeOK, WatchedOnce
  <2>4. TimersKept /\ Numbered'
    BY <1>2, Unseen DEF Close, TimersKept
  <2>5. TypeOK' /\ InCallback'
    BY <1>2, <2>1, <2>3 DEF Close, LoopInv, TypeOK, InCallback, locals
  <2>6. QED
    BY <2>3, <2>4, <2>5 DEF LoopInv
<1>3. QED
  BY <1>1, <1>2

\* The time select() waits for is a time.
LEMMA WakeIsTime ==
  ASSUME LoopInv
  PROVE  wake \in Nat
<1> DEFINE S == {time, Forever} \cup {timers[t].expiresAt : t \in Active}
<1>1. S \in SUBSET Nat /\ S # {}
  BY LoopAssumption DEF LoopInv, TypeOK, Timer, Active, Forever
<1>2. QED
  BY <1>1, MinIsLeast DEF wake

LoopSteps ==
  \/ stop \/ run \/ While \/ PassTimer \/ Break \/ SelectFails \/ Select \/ SelectInterrupted
  \/ SelectReturns \/ PassWatch \/ HandleSocket \/ HandlerReturns \/ RoundEnds \/ Arrives

\* The other steps change neither table.
LEMMA OtherSteps ==
  ASSUME LoopInv, LoopSteps
  PROVE  LoopInv' /\ TimersKept
<1>1. TimersKept /\ UNCHANGED watches
  BY DEF LoopSteps, TimersKept, stop, run, While, PassTimer, Break, SelectFails, Select,
         SelectInterrupted, SelectReturns, PassWatch, HandleSocket, HandlerReturns,
         RoundEnds, Arrives, tables
<1>2. Numbered' /\ WatchedOnce'
  BY <1>1, Unseen DEF LoopInv, WatchedOnce
<1>3. InCallback'
  BY <1>1 DEF LoopInv, InCallback, LoopSteps, TimersKept, stop, run, While, PassTimer, Break,
         SelectFails, Select, SelectInterrupted, SelectReturns, PassWatch, HandleSocket,
         HandlerReturns, RoundEnds, Arrives, Return, ForgetRound, Goto, TimersDone, locals
<1>4. TypeOK'
  <2>1. CASE stop \/ Arrives
    BY <1>1, <2>1 DEF LoopInv, TypeOK, stop, Arrives, env, locals, tables, TimersKept
  <2>2. CASE run
    BY <1>1, <2>2, LoopAssumption DEF LoopInv, TypeOK, run, env, tables, TimersKept, Forever
  <2>3. CASE While \/ Break \/ SelectFails \/ SelectInterrupted
    <3>1. UNCHANGED <<clock, tables, running, env>>
      BY <2>3 DEF While, Break, SelectFails, SelectInterrupted
    <3>2. CASE Return
      BY <3>1, <3>2 DEF LoopInv, TypeOK, Return, ForgetRound, Goto, env, tables
    <3>3. CASE While /\ ~Return
      <4>1. at' = "timers" /\ UNCHANGED <<slot, activeTimers, time, wakeAt, ready>>
        BY <3>3, Zenon DEF While, Goto
      <4>2. QED
        BY <3>1, <4>1 DEF LoopInv, TypeOK, env, tables
    <3>4. QED
      BY <2>3, <3>2, <3>3 DEF Break, SelectFails, SelectInterrupted
  <2>4. CASE PassTimer
    BY <1>1, <2>4 DEF LoopInv, TypeOK, PassTimer, isActive, env, tables, TimersKept
  <2>5. CASE Select
    BY <1>1, <2>5, WakeIsTime DEF LoopInv, TypeOK, Select, Goto, env, tables, TimersKept
  <2>6. CASE SelectReturns
    <3>1. Asked \cap readable \in SUBSET Fds
      BY DEF LoopInv, TypeOK
    <3>2. QED
      BY <1>1, <2>6, <3>1 DEF LoopInv, TypeOK, SelectReturns, Goto, env, tables, TimersKept
  <2>7. CASE HandleSocket
    BY <1>1, <2>7 DEF LoopInv, TypeOK, HandleSocket, reads, Goto, env, tables, TimersKept
  <2>8. CASE PassWatch \/ HandlerReturns
    BY <1>1, <2>8 DEF LoopInv, TypeOK, PassWatch, HandlerReturns, Goto, env, tables, TimersKept
  <2>9. CASE RoundEnds
    <3>1. at' = "while" /\ ForgetRound /\ UNCHANGED <<clock, tables, running, env, time>>
      BY <2>9, Zenon DEF RoundEnds, Goto
    <3>2. QED
      BY <3>1 DEF LoopInv, TypeOK, ForgetRound, env, tables
  <2>10. QED
    BY <2>1, <2>2, <2>3, <2>4, <2>5, <2>6, <2>7, <2>8, <2>9 DEF LoopSteps
<1>5. QED
  BY <1>1, <1>2, <1>3, <1>4 DEF LoopInv

-----------------------------------------------------------------------------
\* Every step keeps the invariant and is a step of the timer service or unseen.
LEMMA EveryStep ==
  ASSUME LoopInv, [Next]_vars
  PROVE  LoopInv' /\ [Service!Next]_(Service!vars)
<1>1. CASE startTimer \/ stopTimer \/ FireTimer \/ CallbackReturns \/ Tick
  BY <1>1, StartStep, StopStep, FireStep, ReturnStep, TickStep DEF Service!Next
<1>2. CASE OpenAndWatch \/ Close \/ LoopSteps
  BY <1>2, SocketSteps, OtherSteps, Unseen
<1>3. CASE UNCHANGED vars
  <2>1. TimersKept
    BY <1>3 DEF vars, tables, TimersKept
  <2>2. LoopInv'
    BY <1>3, <2>1, Unseen
       DEF vars, tables, env, locals, LoopInv, TypeOK, WatchedOnce, InCallback
  <2>3. QED
    BY <2>1, <2>2, Unseen
<1>4. QED
  BY <1>1, <1>2, <1>3 DEF Next, Calls, Round, LoopSteps

\* The invariant holds when the loop is made.
LEMMA LoopStarts ==
  ASSUME Init
  PROVE  LoopInv /\ Service!Init
<1>1. TypeOK
  <2>1. NoTimer \in Timer /\ timers \in [TimerIds -> Timer]
    BY LoopAssumption DEF Init, NoTimer, Timer
  <2>2. watches \in [WatchIds -> Fds \cup {kInvalidFd}]
    BY DEF Init
  <2>3. mRun \in BOOLEAN /\ activeTimers \in BOOLEAN
    BY DEF Init
  <2>4. clock \in 0 .. MaxClock /\ started \in Nat /\ running \in Nat /\ slot \in Nat
        /\ time \in Nat /\ wakeAt \in Nat
    BY LoopAssumption DEF Init
  <2>5. open \in SUBSET Fds /\ readable \in SUBSET open /\ ready \in SUBSET Fds
    BY DEF Init
  <2>6. QED
    BY <2>1, <2>2, <2>3, <2>4, <2>5 DEF Init, TypeOK
<1>2. WatchedOnce /\ Numbered /\ InCallback
  BY DEF Init, WatchedOnce, Numbered, InCallback, isActive, NoTimer
<1>3. Service!Init
  BY DEF Init, Service!Init, Active, isActive, NoTimer
<1>4. QED
  BY <1>1, <1>2, <1>3 DEF LoopInv

\* The invariant holds of every behaviour.
THEOREM Invariance == Spec => []LoopInv
<1>1. LoopInv /\ [Next]_vars => LoopInv'
  BY EveryStep
<1>2. QED
  BY <1>1, LoopStarts, PTL DEF Spec

\* The loop's variables keep their types.
THEOREM TypeCorrect == Spec => []TypeOK
BY Invariance, PTL DEF LoopInv

\* No socket is ever watched twice, for any number of watches and descriptors.
THEOREM EachSocketOnce == Spec => []WatchedOnce
BY Invariance, PTL DEF LoopInv

\* runUntil(), whatever its callbacks start and stop while it walks over the timer
\* table, implements the timer service: each timer is stopped or called back once,
\* when it is due.
THEOREM LoopImplementsTimerService == Spec => ImplementsTimerService
<1>1. Init => Service!Init
  BY LoopStarts
<1>2. LoopInv /\ [Next]_vars => [Service!Next]_(Service!vars)
  BY EveryStep
<1>3. QED
  BY <1>1, <1>2, Invariance, PTL DEF Spec, ImplementsTimerService, Service!Spec
=============================================================================
