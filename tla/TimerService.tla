---------------------------- MODULE TimerService ----------------------------
(***************************************************************************)
(* What io::EventLoop promises of its timers: each start is one timer,     *)
(* which is stopped, or whose callback is called once, when it is due and  *)
(* not while another callback runs.                                        *)
(***************************************************************************)
EXTENDS Naturals

CONSTANT Times   \* the times a timer may be set to

VARIABLES
  now,
  started,       \* number of timers started so far; the n-th one has tag n
  pending,       \* timers neither stopped nor called yet
  running        \* tag of the timer whose callback runs, or 0

vars == <<now, started, pending, running>>

Init == now \in Nat /\ started = 0 /\ pending = {} /\ running = 0

Tick ==
  /\ now' = now + 1
  /\ UNCHANGED <<started, pending, running>>

startTimer ==
  /\ started' = started + 1
  /\ \E t \in Times : t >= now /\ pending' = pending \cup {[tag |-> started', expiresAt |-> t]}
  /\ UNCHANGED <<now, running>>

stopTimer ==
  /\ \E t \in pending : pending' = pending \ {t}
  /\ UNCHANGED <<now, started, running>>

callback ==
  /\ running = 0
  /\ \E t \in pending : t.expiresAt <= now /\ pending' = pending \ {t} /\ running' = t.tag
  /\ UNCHANGED <<now, started>>

return ==
  /\ running # 0
  /\ running' = 0
  /\ UNCHANGED <<now, started, pending>>

Next == Tick \/ startTimer \/ stopTimer \/ callback \/ return

Spec == Init /\ [][Next]_vars
=============================================================================
