--------------------------- MODULE RestartTracker ---------------------------
(***************************************************************************)
(* The restart limiter of one child: a sliding window of restart instants  *)
(* and the backoff delay (crates/tokio-supervisor/src/runtime/intensity.rs *)
(* with the policies of restart.rs).  schedule_restart of supervision.rs   *)
(* records an instant, asks whether the limit is exceeded, and if not      *)
(* takes the delay of the next restart.                                    *)
(*                                                                         *)
(* An instant is a natural number; the clock is monotonic.  The window is  *)
(* measured in the same unit as the delays.                                *)
(***************************************************************************)
EXTENDS Integers, Sequences

CONSTANTS
  Within,       \* RestartIntensity: the length of the window
  MaxRestarts,  \* RestartIntensity: the restarts it may hold
  Policy,       \* "None", "Fixed", "Exponential" or "JitteredExponential"
  Base, Factor, MaxDelay,   \* its parameters (Fixed: Base)
  DurationMax,  \* the largest Duration, where saturating_mul stops
  Horizon,      \* bound: the clock stops here
  Records       \* bound: so many restarts are recorded

ASSUME IntensityAssumption ==
  /\ Within \in Nat \ {0}
  /\ MaxRestarts \in Nat

ASSUME BackoffAssumption ==
  /\ Policy \in {"None", "Fixed", "Exponential", "JitteredExponential"}
  /\ Base \in Nat \ {0}
  /\ Factor \in Nat \ {0}
  /\ MaxDelay \in Nat \ {0}
  /\ DurationMax \in Nat
  /\ Base <= DurationMax /\ MaxDelay <= DurationMax
  /\ Horizon \in Nat /\ Records \in Nat

VARIABLES
  now,      \* the clock
  times,    \* RestartTracker::times, oldest first
  delay,    \* what backoff returned last
  restart,  \* when the child may run, and hence fail, again
  history   \* auxiliary: every recorded instant, and whether the restart
            \* was granted
vars == <<now, times, delay, restart, history>>

-----------------------------------------------------------------------------
MinOf(m, n) == IF m <= n THEN m ELSE n

\* record: the front of the deque is popped while it is older than the window.
Stale(t) == now - t > Within

FirstKept(ts) ==
  CHOOSE i \in 1..(Len(ts) + 1) :
    /\ \A j \in 1..(i - 1) : Stale(ts[j])
    /\ i <= Len(ts) => ~Stale(ts[i])

Recorded(ts) == Append(SubSeq(ts, FirstKept(ts), Len(ts)), now)

\* Mutation: the limit is noticed one restart late.
ExceededLate(ts) == Len(ts) > MaxRestarts + 1

Exceeded(ts) == Len(ts) > MaxRestarts

\* Mutation: the clamp is only applied to the first delay.
UnclampedBackoff(steps) ==
  LET d[n \in 0..steps] ==
        IF n = 0 THEN MinOf(Base, MaxDelay)
        ELSE MinOf(d[n - 1] * Factor, DurationMax)
  IN d[steps]

\* exponential_backoff: the early return at max is the value every further
\* step gives.
ExponentialBackoff(steps) ==
  LET d[n \in 0..steps] ==
        IF n = 0 THEN Base
        ELSE MinOf(MinOf(d[n - 1] * Factor, DurationMax), MaxDelay)
  IN MinOf(d[steps], MaxDelay)

\* backoff: the possible delays, with k instants in the window.
Backoff(k) ==
  LET d == ExponentialBackoff(k - 1)
  IN CASE Policy = "None" -> {0}
       [] Policy = "Fixed" -> {Base}
       [] Policy = "Exponential" -> {d}
       [] Policy = "JitteredExponential" -> (d \div 2)..d

-----------------------------------------------------------------------------
Init ==
  /\ now = 0
  /\ times = <<>>
  /\ delay = 0
  /\ restart = 0
  /\ history = <<>>

\* The child has run again since the last restart, and fails now.
ScheduleRestart ==
  /\ now >= restart /\ Len(history) < Records
  /\ times' = Recorded(times)
  /\ history' = Append(history, [at |-> now, granted |-> ~Exceeded(times')])
  /\ \/ /\ ~Exceeded(times')
        /\ delay' \in Backoff(Len(times'))
        /\ restart' = now + delay'
     \/ /\ Exceeded(times')
        /\ UNCHANGED <<delay, restart>>
  /\ UNCHANGED now

Tick ==
  /\ now < Horizon
  /\ now' = now + 1
  /\ UNCHANGED <<times, delay, restart, history>>

Next == ScheduleRestart \/ Tick

Spec == Init /\ [][Next]_vars

-----------------------------------------------------------------------------
TypeOK ==
  /\ now \in Nat
  /\ times \in Seq(Nat)
  /\ delay \in Nat
  /\ restart \in Nat
  /\ history \in Seq([at : Nat, granted : BOOLEAN])

\* The limit is exact, for windows that slide over the whole history and not
\* only over what the deque still holds: a restart is refused exactly when it
\* and the MaxRestarts ones before it fall into one window.
LimitIsExact ==
  \A i \in 1..Len(history) :
    history[i].granted <=>
      (i > MaxRestarts =>
         history[i].at - history[i - MaxRestarts].at > Within)

\* The deque does not grow without need: it holds the newest instants, those
\* of the window that ends at the last one.
WindowIsSuffix ==
  LET dropped == Len(history) - Len(times)
      last == history[Len(history)].at
  IN /\ dropped >= 0
     /\ \A i \in 1..Len(times) : times[i] = history[dropped + i].at
     /\ \A i \in 1..Len(history) :
          i > dropped <=> last - history[i].at <= Within

\* The factor, n times.
Power(n) ==
  LET p[i \in 0..n] == IF i = 0 THEN 1 ELSE p[i - 1] * Factor IN p[n]

\* The delay grows by the factor with every restart in the window and never
\* passes the maximum, saturation included; jitter takes at most half of it.
DelayFollowsPolicy ==
  Len(history) > 0 /\ history[Len(history)].granted =>
    LET k == Len(times)
        d == MinOf(Base * Power(k - 1), MaxDelay)
    IN CASE Policy = "None" -> delay = 0
         [] Policy = "Fixed" -> delay = Base
         [] Policy = "Exponential" -> delay = d
         [] Policy = "JitteredExponential" -> delay \in (d \div 2)..d
=============================================================================
