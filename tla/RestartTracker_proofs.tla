----------------------- MODULE RestartTracker_proofs -----------------------
(***************************************************************************)
(* The restart limiter is exact for every window, every limit and every    *)
(* history of restarts.                                                    *)
(*                                                                         *)
(* The argument: the clock is monotonic, so the instants of the history    *)
(* are sorted, and what record pops from the front of the deque is what    *)
(* left the window for good.  The deque is thus the suffix of the history  *)
(* that lies in the window, and its length compares with the limit as the  *)
(* age of the instant MaxRestarts back compares with the window.           *)
(***************************************************************************)
EXTENDS RestartTracker, SequenceTheorems, WellFoundedInduction,
        FiniteSetTheorems, TLAPS

Restarts == [at : Nat, granted : BOOLEAN]

\* The part of TypeOK that the limit depends on.
WindowTypes ==
  /\ now \in Nat
  /\ times \in Seq(Nat)
  /\ history \in Seq(Restarts)

\* The recorded instants are sorted and in the past.
HistorySorted ==
  /\ \A i \in 1..Len(history) : history[i].at <= now
  /\ \A i, j \in 1..Len(history) : i <= j => history[i].at <= history[j].at

LimitInv == WindowTypes /\ HistorySorted /\ WindowIsSuffix /\ LimitIsExact

-----------------------------------------------------------------------------
\* Every inhabited set of numbers has a least element: the intervals 0..k,
\* of which one is minimal, stand for the numbers k.
LEMMA LeastNumber ==
  ASSUME NEW S \in SUBSET Nat, S # {}
  PROVE  \E m \in S : \A k \in S : m <= k
<1> DEFINE R == StrictSubsetOrdering(Nat)
           F == FiniteSubsetsOf(Nat)
           T == {0..k : k \in S}
<1>1. IsWellFoundedOn(R, F)
  BY FS_StrictSubsetOrderingWellFounded
<1>2. \A k \in S : 0..k \in F
  BY FS_Interval DEF FiniteSubsetsOf
<1>3. T \subseteq F /\ T # {}
  BY <1>2
<1> HIDE DEF R, F, T
<1>4. PICK x \in T : \A y \in T : ~ (<<y, x>> \in R)
  BY <1>1, <1>3, WFMin
<1>5. PICK m \in S : x = 0..m
  BY <1>4 DEF T
<1>6. ASSUME NEW k \in S, k < m
      PROVE  FALSE
  <2>1. 0..k \in T /\ 0..k \subseteq 0..m /\ m \in 0..m /\ m \notin 0..k
    BY <1>6 DEF T
  <2>2. <<0..k, 0..m>> \in R
    BY <2>1, <1>2 DEF R, StrictSubsetOrdering, F, FiniteSubsetsOf
  <2> QED
    BY <2>1, <2>2, <1>4, <1>5
<1> QED
  BY <1>6

\* FirstKept is where record stops popping: everything before it is older
\* than the window, and the instant there, if there is one, is not.
LEMMA FirstKeptProperties ==
  ASSUME NEW ts \in Seq(Nat), now \in Nat
  PROVE  /\ FirstKept(ts) \in 1..(Len(ts) + 1)
         /\ \A j \in 1..(FirstKept(ts) - 1) : Stale(ts[j])
         /\ FirstKept(ts) <= Len(ts) => ~Stale(ts[FirstKept(ts)])
<1> DEFINE Kept(i) == i <= Len(ts) => ~Stale(ts[i])
           S == {i \in 1..(Len(ts) + 1) : Kept(i)}
<1>1. Len(ts) \in Nat
  OBVIOUS
<1>2. S \subseteq Nat /\ Len(ts) + 1 \in S
  BY <1>1
<1>3. PICK m \in S : \A k \in S : m <= k
  BY <1>2, LeastNumber
<1>4. m \in 1..(Len(ts) + 1) /\ Kept(m)
  BY <1>3
<1>5. ASSUME NEW j \in 1..(m - 1)
      PROVE  Stale(ts[j])
  <2>1. j \in 1..(Len(ts) + 1) /\ j \notin S
    BY <1>1, <1>3, <1>4
  <2> QED
    BY <2>1
<1>6. \E i \in 1..(Len(ts) + 1) :
        /\ \A j \in 1..(i - 1) : Stale(ts[j])
        /\ i <= Len(ts) => ~Stale(ts[i])
  BY <1>4, <1>5
<1> QED
  BY <1>6 DEF FirstKept

-----------------------------------------------------------------------------
\* Nothing has been recorded.
LEMMA LimitInit == Init => LimitInv
<1> SUFFICES ASSUME Init PROVE LimitInv
  OBVIOUS
<1> QED
  BY EmptySeq DEF Init, LimitInv, WindowTypes, HistorySorted, WindowIsSuffix,
                  LimitIsExact, Restarts

\* What a recorded restart does to the deque and to the history.
LEMMA RecordedProperties ==
  ASSUME LimitInv, ScheduleRestart
  PROVE  LET n == Len(history)
             d == n - Len(times)
             f == FirstKept(times)
         IN /\ f \in 1..(Len(times) + 1)
            /\ times' \in Seq(Nat) /\ Len(times') = Len(times) - f + 2
            /\ \A i \in 1..(Len(times) - f + 1) : times'[i] = times[f + i - 1]
            /\ times'[Len(times) - f + 2] = now
            /\ history' \in Seq(Restarts) /\ Len(history') = n + 1
            /\ \A i \in 1..n : history'[i] = history[i]
            /\ history'[n + 1] = [at |-> now, granted |-> ~Exceeded(times')]
<1> DEFINE f == FirstKept(times)
           kept == SubSeq(times, f, Len(times))
           entry == [at |-> now, granted |-> ~Exceeded(times')]
<1>1. times \in Seq(Nat) /\ history \in Seq(Restarts) /\ now \in Nat
  BY DEF LimitInv, WindowTypes
<1>2. f \in 1..(Len(times) + 1)
  BY <1>1, FirstKeptProperties
<1>3. Len(times) \in Nat /\ Len(history) \in Nat
  BY <1>1
<1>4. /\ kept \in Seq(Nat)
      /\ Len(kept) = Len(times) - f + 1
      /\ \A i \in 1..(Len(times) - f + 1) : kept[i] = times[f + i - 1]
  <2>1. \A i \in f..Len(times) : times[i] \in Nat
    BY <1>1, <1>2, <1>3, LenProperties
  <2> QED
    BY <2>1, <1>2, <1>3, SubSeqProperties
<1>5. times' = Append(kept, now)
  BY DEF ScheduleRestart, Recorded
<1>6. history' = Append(history, entry)
  BY DEF ScheduleRestart
<1>7. entry \in Restarts
  BY <1>1 DEF Restarts, Exceeded
<1> HIDE DEF f, kept, entry
<1>8. /\ times' \in Seq(Nat) /\ Len(times') = Len(times) - f + 2
      /\ \A i \in 1..(Len(times) - f + 1) : times'[i] = times[f + i - 1]
      /\ times'[Len(times) - f + 2] = now
  <2>1. /\ Append(kept, now) \in Seq(Nat)
        /\ Len(Append(kept, now)) = Len(kept) + 1
        /\ \A i \in 1..Len(kept) : Append(kept, now)[i] = kept[i]
        /\ Append(kept, now)[Len(kept) + 1] = now
    BY <1>1, <1>4, AppendProperties
  <2>2. f \in Nat
    BY <1>2, <1>3
  <2>3. /\ Len(kept) + 1 = Len(times) - f + 2
        /\ 1..Len(kept) = 1..(Len(times) - f + 1)
    BY <1>3, <1>4, <2>2
  <2> QED
    BY <1>4, <1>5, <2>1, <2>3
<1>9. /\ history' \in Seq(Restarts) /\ Len(history') = Len(history) + 1
      /\ \A i \in 1..Len(history) : history'[i] = history[i]
      /\ history'[Len(history) + 1] = entry
  BY <1>1, <1>6, <1>7, AppendProperties
<1> QED
  BY <1>2, <1>8, <1>9 DEF f, entry

\* The arithmetic of the window.  a holds n sorted instants, of which the last
\* m lie in the window that ends with the last one; t is a later instant, and f
\* the first of the m that lies in the window that ends with t.
LEMMA SlidingWindow ==
  ASSUME NEW n \in Nat, NEW m \in Nat, m <= n, NEW f \in 1..(m + 1),
         NEW a \in [1..n -> Nat], NEW t \in Nat,
         \A i \in 1..n : a[i] <= t,
         \A i, j \in 1..n : i <= j => a[i] <= a[j],
         \A i \in 1..n : i > n - m <=> a[n] - a[i] <= Within,
         \A j \in 1..(f - 1) : t - a[n - m + j] > Within,
         f <= m => ~(t - a[n - m + f] > Within)
  PROVE  \A i \in 1..n : i > n - m + f - 1 <=> t - a[i] <= Within
<1>1. Within \in Nat
  BY IntensityAssumption
<1> SUFFICES ASSUME NEW i \in 1..n
             PROVE  i > n - m + f - 1 <=> t - a[i] <= Within
  OBVIOUS
<1>2. i \in Nat /\ f \in Nat /\ n \in 1..n
  OBVIOUS
<1>3. a[i] \in Nat /\ a[n] \in Nat /\ a[n] <= t
  BY <1>2
<1>4. CASE i <= n - m
  <2>1. ~(a[n] - a[i] <= Within)
    BY <1>2, <1>4
  <2> QED
    BY <2>1, <1>1, <1>2, <1>3, <1>4
<1>5. CASE i > n - m /\ i <= n - m + f - 1
  <2>1. i - (n - m) \in 1..(f - 1) /\ n - m + (i - (n - m)) = i
    BY <1>2, <1>5
  <2>2. t - a[i] > Within
    BY <2>1
  <2> QED
    BY <2>2, <1>1, <1>2, <1>3, <1>5
<1>6. CASE i > n - m + f - 1
  <2>1. f <= m /\ n - m + f \in 1..n /\ n - m + f <= i
    BY <1>2, <1>6
  <2>2. ~(t - a[n - m + f] > Within) /\ a[n - m + f] <= a[i]
    BY <2>1
  <2>3. a[n - m + f] \in Nat
    BY <2>1
  <2> QED
    BY <2>2, <2>3, <1>1, <1>3, <1>6
<1> QED
  BY <1>2, <1>4, <1>5, <1>6

\* The instants of the history, as SlidingWindow takes them.
Instants == [i \in 1..Len(history) |-> history[i].at]

\* They are sorted, in the past, and at least as many as the deque holds.
LEMMA InstantsProperties ==
  ASSUME LimitInv
  PROVE  /\ Len(history) \in Nat /\ Len(times) \in Nat
         /\ Len(times) <= Len(history)
         /\ now \in Nat
         /\ Instants \in [1..Len(history) -> Nat]
         /\ \A i \in 1..Len(history) : Instants[i] = history[i].at
         /\ \A i \in 1..Len(history) : Instants[i] <= now
         /\ \A i, j \in 1..Len(history) : i <= j => Instants[i] <= Instants[j]
<1>1. now \in Nat /\ times \in Seq(Nat) /\ history \in Seq(Restarts)
  BY DEF LimitInv, WindowTypes
<1>2. \A i \in 1..Len(history) : history[i] \in Restarts
  BY <1>1, ElementOfSeq
<1>3. \A i \in 1..Len(history) : history[i].at \in Nat
  BY <1>2 DEF Restarts
<1>4. Len(history) \in Nat /\ Len(times) \in Nat
  BY <1>1
<1>5. Len(times) <= Len(history)
  BY <1>4 DEF LimitInv, WindowIsSuffix
<1> QED
  BY <1>1, <1>3, <1>4, <1>5 DEF Instants, LimitInv, HistorySorted

\* A recorded restart leaves the history sorted and the deque its suffix.
LEMMA RecordKeepsWindow ==
  ASSUME LimitInv, ScheduleRestart
  PROVE  (WindowTypes /\ HistorySorted /\ WindowIsSuffix)'
<1> DEFINE n == Len(history)
           m == Len(times)
           f == FirstKept(times)
           a == Instants
           b == [i \in 1..(n + 1) |-> history'[i].at]
<1>1. /\ n \in Nat /\ m \in Nat /\ m <= n /\ now \in Nat
      /\ a \in [1..n -> Nat]
      /\ \A i \in 1..n : a[i] = history[i].at
      /\ \A i \in 1..n : a[i] <= now
      /\ \A i, j \in 1..n : i <= j => a[i] <= a[j]
  BY InstantsProperties
<1>2. /\ \A i \in 1..m : times[i] = history[n - m + i].at
      /\ \A i \in 1..n : i > n - m <=> history[n].at - history[i].at <= Within
  BY DEF LimitInv, WindowIsSuffix
<1>3. /\ f \in 1..(m + 1)
      /\ times' \in Seq(Nat) /\ Len(times') = m - f + 2
      /\ \A i \in 1..(m - f + 1) : times'[i] = times[f + i - 1]
      /\ times'[m - f + 2] = now
      /\ history' \in Seq(Restarts) /\ Len(history') = n + 1
      /\ \A i \in 1..n : history'[i] = history[i]
      /\ history'[n + 1].at = now
  BY RecordedProperties
<1>4. /\ \A j \in 1..(f - 1) : now - times[j] > Within
      /\ f <= m => ~(now - times[f] > Within)
  BY FirstKeptProperties DEF Stale, LimitInv, WindowTypes
<1>5. now' = now
  BY DEF ScheduleRestart
<1> HIDE DEF n, m, f, a
<1>6. \A i \in 1..m : n - m + i \in 1..n /\ times[i] = a[n - m + i]
  <2>1. \A i \in 1..m : n - m + i \in 1..n
    BY <1>1
  <2> QED
    BY <2>1, <1>1, <1>2
<1>7. \A i \in 1..n : i > n - m <=> a[n] - a[i] <= Within
  <2>1. \A i \in 1..n : n \in 1..n
    BY <1>1
  <2> QED
    BY <2>1, <1>1, <1>2
<1>8. \A i \in 1..n : i > n - m + f - 1 <=> now - a[i] <= Within
  <2>1. \A j \in 1..(f - 1) : j \in 1..m
    BY <1>1, <1>3
  <2>2. \A j \in 1..(f - 1) : now - a[n - m + j] > Within
    BY <2>1, <1>4, <1>6
  <2>3. f <= m => f \in 1..m
    BY <1>1, <1>3
  <2>4. f <= m => ~(now - a[n - m + f] > Within)
    BY <2>3, <1>4, <1>6
  <2> QED
    BY <2>2, <2>4, <1>1, <1>3, <1>7, SlidingWindow
<1>9. /\ \A i \in 1..(n + 1) : i \in 1..n \/ i = n + 1
      /\ \A i \in 1..n : i \in 1..(n + 1)
      /\ n + 1 \in 1..(n + 1)
  BY <1>1
<1>10. /\ \A i \in 1..n : b[i] = a[i]
       /\ b[n + 1] = now
       /\ \A i \in 1..(n + 1) : b[i] = history'[i].at
  BY <1>1, <1>3, <1>9
<1> HIDE DEF b
<1>11. WindowTypes'
  BY <1>1, <1>3, <1>5 DEF WindowTypes
<1>12. \A i \in 1..(n + 1) : b[i] <= now
  BY <1>1, <1>9, <1>10
<1>13. ASSUME NEW i \in 1..(n + 1), NEW j \in 1..(n + 1), i <= j
       PROVE  b[i] <= b[j]
  <2>1. CASE j = n + 1
    BY <2>1, <1>10, <1>12
  <2>2. CASE j \in 1..n
    <3>1. i \in 1..n
      BY <2>2, <1>1, <1>13
    <3> QED
      BY <2>2, <3>1, <1>1, <1>10, <1>13
  <2> QED
    BY <2>1, <2>2, <1>9
<1>14. HistorySorted'
  BY <1>3, <1>5, <1>10, <1>12, <1>13 DEF HistorySorted
<1>15. /\ n \in Nat /\ m \in Nat /\ m <= n
       /\ f \in Nat /\ f >= 1 /\ f <= m + 1
  <2>1. f \in 1..(m + 1)
    BY <1>3
  <2>2. n \in Nat /\ m \in Nat /\ m <= n
    BY <1>1
  <2> QED
    BY <2>1, <2>2
<1> DEFINE dd == n - m + f - 1
<1>16. Len(history') - Len(times') = dd /\ dd >= 0
  BY <1>1, <1>3
<1>17. ASSUME NEW i \in 1..(m - f + 2)
       PROVE  times'[i] = b[dd + i] /\ dd + i \in 1..(n + 1)
  <2>1. CASE i = m - f + 2
    <3>1. dd + i = n + 1
      BY <2>1, <1>1, <1>3
    <3> QED
      BY <2>1, <3>1, <1>3, <1>9, <1>10
  <2>2. CASE i \in 1..(m - f + 1)
    <3>1. f + i - 1 \in 1..m /\ dd + i \in 1..n /\ n - m + (f + i - 1) = dd + i
      BY <2>2, <1>15
    <3> QED
      BY <2>2, <3>1, <1>3, <1>6, <1>9, <1>10
  <2>3. i = m - f + 2 \/ i \in 1..(m - f + 1)
    BY <1>1, <1>3
  <2> QED
    BY <2>1, <2>2, <2>3
<1>18. ASSUME NEW i \in 1..(n + 1)
       PROVE  i > dd <=> now - b[i] <= Within
  <2>1. CASE i = n + 1
    <3>1. i > dd
      BY <2>1, <1>1, <1>3
    <3> QED
      BY <2>1, <3>1, <1>1, <1>10, IntensityAssumption
  <2>2. CASE i \in 1..n
    BY <2>2, <1>8, <1>10
  <2> QED
    BY <2>1, <2>2, <1>9
<1> HIDE DEF dd
<1>19. WindowIsSuffix'
  <2>1. history'[Len(history')].at = now
    BY <1>3
  <2>2. \A i \in 1..Len(times') : times'[i] = history'[dd + i].at
    BY <1>3, <1>10, <1>17
  <2>3. \A i \in 1..Len(history') :
          i > dd <=> history'[Len(history')].at - history'[i].at <= Within
    BY <2>1, <1>3, <1>10, <1>18
  <2> QED
    BY <2>2, <2>3, <1>16 DEF WindowIsSuffix
<1> QED
  BY <1>11, <1>14, <1>19

\* Its answer is the exact one: the length of the deque exceeds the limit as
\* the instant MaxRestarts back lies in the window.
LEMMA RecordKeepsLimit ==
  ASSUME LimitInv, ScheduleRestart
  PROVE  LimitIsExact'
<1> DEFINE n == Len(history)
           m == Len(times)
           f == FirstKept(times)
<1>1. /\ now \in Nat /\ times \in Seq(Nat) /\ history \in Seq(Restarts)
      /\ n \in Nat /\ m \in Nat /\ n - m >= 0
  BY DEF LimitInv, WindowTypes, WindowIsSuffix
<1>2. /\ f \in 1..(m + 1)
      /\ Len(times') = m - f + 2
      /\ history' \in Seq(Restarts) /\ Len(history') = n + 1
      /\ \A i \in 1..n : history'[i] = history[i]
      /\ history'[n + 1] = [at |-> now, granted |-> ~Exceeded(times')]
  BY RecordedProperties
<1>3. \A i \in 1..n :
        history[i].granted <=>
          (i > MaxRestarts =>
             history[i].at - history[i - MaxRestarts].at > Within)
  BY DEF LimitInv, LimitIsExact
<1>4. \A i \in 1..(n + 1) :
        i > n + 1 - Len(times') <=> now - history'[i].at <= Within
  BY <1>2, RecordKeepsWindow DEF WindowIsSuffix
<1>5. \A i \in 1..(n + 1) : history'[i].at \in Nat
  <2>1. \A i \in 1..(n + 1) : history'[i] \in Restarts
    BY <1>2, ElementOfSeq
  <2> QED
    BY <2>1 DEF Restarts
<1> HIDE DEF n, m, f
<1>6. /\ history'[n + 1].at = now
      /\ history'[n + 1].granted <=> ~(Len(times') > MaxRestarts)
  <2>1. history'[n + 1].at = now
    BY <1>2
  <2>2. history'[n + 1].granted = ~Exceeded(times')
    BY <1>2
  <2>3. history'[n + 1].granted <=> ~(Len(times') > MaxRestarts)
    BY <2>2, Zenon DEF Exceeded
  <2> QED
    BY <2>1, <2>3
<1>7. MaxRestarts \in Nat /\ Within \in Nat /\ f \in Nat
  BY <1>1, <1>2, IntensityAssumption
<1>8. ASSUME NEW i \in 1..n
      PROVE  history'[i].granted <=>
               (i > MaxRestarts =>
                  history'[i].at - history'[i - MaxRestarts].at > Within)
  <2>1. i > MaxRestarts => i - MaxRestarts \in 1..n
    BY <1>1, <1>7
  <2> QED
    BY <2>1, <1>2, <1>3
<1>9. history'[n + 1].granted <=>
        (n + 1 > MaxRestarts =>
           history'[n + 1].at - history'[n + 1 - MaxRestarts].at > Within)
  <2>1. CASE n + 1 > MaxRestarts
    <3> DEFINE k == n + 1 - MaxRestarts
    <3>1. k \in 1..(n + 1)
      BY <2>1, <1>1, <1>7
    <3>2. k > n + 1 - Len(times') <=> now - history'[k].at <= Within
      BY <3>1, <1>4
    <3>3. k > n + 1 - Len(times') <=> Len(times') > MaxRestarts
      BY <1>1, <1>2, <1>7
    <3>4. now - history'[k].at > Within <=> ~(now - history'[k].at <= Within)
      BY <3>1, <1>1, <1>5, <1>7
    <3> QED
      BY <2>1, <3>2, <3>3, <3>4, <1>6
  <2>2. CASE ~(n + 1 > MaxRestarts)
    BY <2>2, <1>1, <1>2, <1>6, <1>7
  <2> QED
    BY <2>1, <2>2
<1>10. \A i \in 1..(n + 1) : i \in 1..n \/ i = n + 1
  BY <1>1
<1>11. \A i \in 1..(n + 1) :
         history'[i].granted <=>
           (i > MaxRestarts =>
              history'[i].at - history'[i - MaxRestarts].at > Within)
  <2> SUFFICES ASSUME NEW i \in 1..(n + 1)
               PROVE  history'[i].granted <=>
                        (i > MaxRestarts =>
                           history'[i].at - history'[i - MaxRestarts].at
                             > Within)
    OBVIOUS
  <2>1. CASE i \in 1..n
    BY <2>1, <1>8
  <2>2. CASE i = n + 1
    <3>1. i - MaxRestarts = n + 1 - MaxRestarts
      BY <2>2, <1>1, <1>7
    <3> QED
      BY <2>2, <3>1, <1>9, Zenon
  <2> QED
    BY <2>1, <2>2, <1>10
<1> QED
  BY <1>2, <1>11 DEF LimitIsExact

\* Time passes over a window without changing it.
LEMMA TickKeepsLimit ==
  ASSUME LimitInv, Tick \/ UNCHANGED vars
  PROVE  LimitInv'
<1>1. /\ now' \in Nat /\ now' >= now /\ now \in Nat
      /\ UNCHANGED <<times, history>>
  BY DEF Tick, vars, LimitInv, WindowTypes
<1>2. WindowTypes' /\ WindowIsSuffix' /\ LimitIsExact'
  BY <1>1 DEF LimitInv, WindowTypes, WindowIsSuffix, LimitIsExact
<1>3. HistorySorted'
  <2>1. \A i \in 1..Len(history) :
          /\ Instants[i] = history[i].at
          /\ Instants[i] \in Nat
          /\ Instants[i] <= now
    BY InstantsProperties
  <2>2. \A i \in 1..Len(history) : history[i].at <= now'
    BY <1>1, <2>1
  <2> QED
    BY <1>1, <2>2 DEF LimitInv, HistorySorted
<1> QED
  BY <1>2, <1>3 DEF LimitInv

-----------------------------------------------------------------------------
\* The invariant holds in every reachable state, of every window, limit and
\* policy and without the bounds Horizon and Records playing a part.
THEOREM LimitInvariant == Spec => []LimitInv
<1>1. LimitInv /\ [Next]_vars => LimitInv'
  BY RecordKeepsWindow, RecordKeepsLimit, TickKeepsLimit DEF Next, LimitInv
<1> QED
  BY LimitInit, <1>1, PTL DEF Spec

\* RestartTracker::exceeded is exact over the whole history: a restart is
\* refused exactly when it and the MaxRestarts ones before it fall into one
\* window, whatever the deque has forgotten.
THEOREM LimitTheorem == Spec => []LimitIsExact
<1>1. LimitInv => LimitIsExact
  BY DEF LimitInv
<1> QED
  BY LimitInvariant, <1>1, PTL

\* RestartTracker::record keeps exactly the instants of the last window: it
\* forgets none that counts and holds none that does not.
THEOREM WindowTheorem == Spec => []WindowIsSuffix
<1>1. LimitInv => WindowIsSuffix
  BY DEF LimitInv
<1> QED
  BY LimitInvariant, <1>1, PTL

-----------------------------------------------------------------------------
(* The delay.  A recursive function is the CHOOSE of a function that       *)
(* satisfies its equation.  That one exists, and what any of them does,    *)
(* is shown at the least argument where it could fail.                     *)

\* The equation of Power ...
IsPower(p, n) == p = [i \in 0..n |-> IF i = 0 THEN 1 ELSE p[i - 1] * Factor]

\* ... and that of ExponentialBackoff.
IsBackoff(d, n) ==
  d = [i \in 0..n |->
         IF i = 0 THEN Base
         ELSE MinOf(MinOf(d[i - 1] * Factor, DurationMax), MaxDelay)]

\* Some function satisfies the equation of Power, whatever its domain.
LEMMA PowerExists ==
  ASSUME NEW n \in Nat
  PROVE  \E p : IsPower(p, n)
<1> DEFINE S == {m \in Nat : ~ \E p : IsPower(p, m)}
<1> SUFFICES ASSUME S # {} PROVE FALSE
  OBVIOUS
<1>1. PICK m \in S : \A k \in S : m <= k
  BY LeastNumber, S \subseteq Nat
<1>2. CASE m = 0
  <2>1. IsPower([i \in 0..0 |-> 1], 0)
    BY DEF IsPower
  <2> QED
    BY <1>1, <1>2, <2>1
<1>3. CASE m # 0
  <2>1. m \in Nat /\ m - 1 \in Nat /\ m - 1 \notin S
    BY <1>1, <1>3
  <2>2. PICK p : IsPower(p, m - 1)
    BY <2>1
  <2> DEFINE q == [i \in 0..m |-> IF i = m THEN p[m - 1] * Factor ELSE p[i]]
  <2>3. \A i \in 0..(m - 1) : p[i] = IF i = 0 THEN 1 ELSE p[i - 1] * Factor
    BY <2>2 DEF IsPower
  <2>4. ASSUME NEW i \in 0..m
        PROVE  q[i] = IF i = 0 THEN 1 ELSE q[i - 1] * Factor
    <3>1. CASE i = m
      BY <3>1, <2>1, <1>3
    <3>2. CASE i # m
      <4>1. i \in 0..(m - 1) /\ (i # 0 => i - 1 \in 0..m /\ i - 1 # m)
        BY <3>2, <2>1
      <4> QED
        BY <4>1, <3>2, <2>3
    <3> QED
      BY <3>1, <3>2
  <2>5. IsPower(q, m)
    <3> DEFINE r == [i \in 0..m |-> IF i = 0 THEN 1 ELSE q[i - 1] * Factor]
    <3>1. DOMAIN q = 0..m /\ q = [i \in 0..m |-> q[i]]
      OBVIOUS
    <3> HIDE DEF q
    <3> QED
      BY <3>1, <2>4 DEF IsPower
  <2> QED
    BY <1>1, <2>5
<1> QED
  BY <1>2, <1>3

\* Its values are positive.
LEMMA PowerPositive ==
  ASSUME NEW n \in Nat, NEW p, IsPower(p, n)
  PROVE  \A i \in 0..n : p[i] \in Nat \ {0}
<1> DEFINE S == {i \in 0..n : p[i] \notin Nat \ {0}}
<1> SUFFICES ASSUME S # {} PROVE FALSE
  OBVIOUS
<1>0. \A i \in 0..n : p[i] = IF i = 0 THEN 1 ELSE p[i - 1] * Factor
  BY DEF IsPower
<1>1. PICK m \in S : \A k \in S : m <= k
  BY LeastNumber, S \subseteq Nat
<1>2. m \in 0..n /\ m # 0
  BY <1>0, <1>1
<1>3. m - 1 \in 0..n /\ m - 1 \notin S
  BY <1>1, <1>2
<1>4. p[m - 1] \in Nat \ {0} /\ p[m] = p[m - 1] * Factor
  BY <1>0, <1>2, <1>3
<1>5. \A a, b \in Nat \ {0} : a * b \in Nat \ {0}
  OBVIOUS
<1> QED
  BY <1>1, <1>4, <1>5, BackoffAssumption

\* One step of the backoff, in closed form: the two clamps commute with the
\* multiplication.
LEMMA ClampedStep ==
  ASSUME NEW b \in Nat, NEW c \in Nat, c = MinOf(b, MaxDelay) \/ c = b
  PROVE  MinOf(MinOf(c * Factor, DurationMax), MaxDelay)
           = MinOf(b * Factor, MaxDelay)
<1>1. /\ MaxDelay \in Nat /\ DurationMax \in Nat /\ MaxDelay <= DurationMax
      /\ Factor \in Nat \ {0}
  BY BackoffAssumption
<1>2. \A x \in Nat : MinOf(MinOf(x, DurationMax), MaxDelay) = MinOf(x, MaxDelay)
  BY <1>1 DEF MinOf
<1>3. \A x \in Nat : x * Factor \in Nat /\ x * Factor >= x
  BY <1>1
<1>4. CASE c = b
  BY <1>2, <1>3, <1>4
<1>5. CASE c # b
  <2>1. c = MaxDelay /\ b > MaxDelay
    BY <1>1, <1>5 DEF MinOf
  <2>2. MinOf(c * Factor, MaxDelay) = MaxDelay
    BY <1>1, <1>3, <2>1 DEF MinOf
  <2>3. MinOf(b * Factor, MaxDelay) = MaxDelay
    BY <1>1, <1>3, <2>1 DEF MinOf
  <2> QED
    BY <1>2, <1>3, <2>2, <2>3
<1> QED
  BY <1>4, <1>5

\* The loop of exponential_backoff, at each of its steps.
LEMMA BackoffClosed ==
  ASSUME NEW n \in Nat, NEW p, IsPower(p, n), NEW d, IsBackoff(d, n)
  PROVE  \A i \in 0..n :
           d[i] = IF i = 0 THEN Base ELSE MinOf(Base * p[i], MaxDelay)
<1> DEFINE Closed(i) == IF i = 0 THEN Base ELSE MinOf(Base * p[i], MaxDelay)
           S == {i \in 0..n : d[i] # Closed(i)}
<1> SUFFICES ASSUME S # {} PROVE FALSE
  OBVIOUS
<1>1. \A i \in 0..n :
        d[i] = IF i = 0 THEN Base
               ELSE MinOf(MinOf(d[i - 1] * Factor, DurationMax), MaxDelay)
  BY DEF IsBackoff
<1>2. \A i \in 0..n : p[i] = IF i = 0 THEN 1 ELSE p[i - 1] * Factor
  BY DEF IsPower
<1>3. PICK m \in S : \A k \in S : m <= k
  BY LeastNumber, S \subseteq Nat
<1>4. m \in 0..n /\ m # 0
  BY <1>1, <1>3
<1>5. m - 1 \in 0..n /\ d[m - 1] = Closed(m - 1)
  BY <1>3, <1>4
<1>6. Base \in Nat /\ Factor \in Nat /\ p[m - 1] \in Nat /\ Base * p[m - 1] \in Nat
  BY <1>5, PowerPositive, BackoffAssumption
<1>7. d[m - 1] = Base * p[m - 1] \/ d[m - 1] = MinOf(Base * p[m - 1], MaxDelay)
  BY <1>2, <1>5, <1>6
<1>8. d[m - 1] \in Nat
  BY <1>6, <1>7, BackoffAssumption DEF MinOf
<1>9. d[m] = MinOf(Base * p[m - 1] * Factor, MaxDelay)
  BY <1>1, <1>4, <1>6, <1>7, <1>8, ClampedStep
<1>10. Base * p[m - 1] * Factor = Base * p[m]
  BY <1>2, <1>4, <1>6
<1> QED
  BY <1>3, <1>4, <1>9, <1>10

\* Some function satisfies the equation of the backoff: the closed form does.
LEMMA BackoffExists ==
  ASSUME NEW n \in Nat
  PROVE  \E d : IsBackoff(d, n)
<1>1. PICK p : IsPower(p, n)
  BY PowerExists
<1> DEFINE d == [i \in 0..n |->
                   IF i = 0 THEN Base ELSE MinOf(Base * p[i], MaxDelay)]
<1>2. \A i \in 0..n : p[i] = IF i = 0 THEN 1 ELSE p[i - 1] * Factor
  BY <1>1 DEF IsPower
<1>3. ASSUME NEW i \in 0..n
      PROVE  d[i] = IF i = 0 THEN Base
                    ELSE MinOf(MinOf(d[i - 1] * Factor, DurationMax), MaxDelay)
  <2>1. CASE i = 0
    BY <2>1
  <2>2. CASE i # 0
    <3>1. i - 1 \in 0..n
      BY <2>2
    <3>2. /\ Base \in Nat /\ Factor \in Nat
          /\ p[i - 1] \in Nat /\ Base * p[i - 1] \in Nat
      BY <1>1, <3>1, PowerPositive, BackoffAssumption
    <3>3. \/ d[i - 1] = Base * p[i - 1]
          \/ d[i - 1] = MinOf(Base * p[i - 1], MaxDelay)
      BY <1>2, <3>1, <3>2
    <3>4. d[i - 1] \in Nat
      BY <3>2, <3>3, BackoffAssumption DEF MinOf
    <3>5. Base * p[i - 1] * Factor = Base * p[i]
      BY <1>2, <2>2, <3>2
    <3>6. d[i] = MinOf(Base * p[i], MaxDelay)
      BY <2>2
    <3> HIDE DEF d
    <3>7. MinOf(MinOf(d[i - 1] * Factor, DurationMax), MaxDelay)
            = MinOf(Base * p[i - 1] * Factor, MaxDelay)
      BY <3>2, <3>3, <3>4, ClampedStep
    <3> QED
      BY <2>2, <3>5, <3>6, <3>7
  <2> QED
    BY <2>1, <2>2
<1>4. DOMAIN d = 0..n /\ d = [i \in 0..n |-> d[i]]
  OBVIOUS
<1> HIDE DEF d
<1> QED
  BY <1>3, <1>4 DEF IsBackoff

\* What exponential_backoff returns, saturation and early return included.
LEMMA BackoffValue ==
  ASSUME NEW n \in Nat
  PROVE  /\ Power(n) \in Nat \ {0}
         /\ ExponentialBackoff(n) = MinOf(Base * Power(n), MaxDelay)
<1> DEFINE p == CHOOSE p : IsPower(p, n)
           d == CHOOSE d : IsBackoff(d, n)
<1>1. IsPower(p, n) /\ IsBackoff(d, n)
  BY PowerExists, BackoffExists
<1>2. Power(n) = p[n]
  BY DEF Power, IsPower
<1>3. ExponentialBackoff(n) = MinOf(d[n], MaxDelay)
  BY DEF ExponentialBackoff, IsBackoff
<1> HIDE DEF p, d
<1>4. n \in 0..n /\ p[n] \in Nat \ {0}
  BY <1>1, PowerPositive
<1>5. d[n] = IF n = 0 THEN Base ELSE MinOf(Base * p[n], MaxDelay)
  BY <1>1, <1>4, BackoffClosed
<1>6. n = 0 => p[n] = 1
  BY <1>1, <1>4 DEF IsPower
<1>7. Base * p[n] \in Nat /\ Base \in Nat /\ MaxDelay \in Nat
  BY <1>4, BackoffAssumption
<1>8. MinOf(d[n], MaxDelay) = MinOf(Base * p[n], MaxDelay)
  BY <1>5, <1>6, <1>7 DEF MinOf
<1> QED
  BY <1>2, <1>3, <1>4, <1>8

\* What a granted restart does to the delay.
DelayInv == delay \in Nat /\ restart \in Nat /\ DelayFollowsPolicy

\* A recorded restart, granted or refused, keeps it.
LEMMA RecordKeepsDelay ==
  ASSUME LimitInv, DelayInv, ScheduleRestart
  PROVE  DelayInv'
<1> DEFINE n == Len(history)
           k == Len(times')
           e == MinOf(Base * Power(k - 1), MaxDelay)
<1>1. /\ now \in Nat /\ Len(history) \in Nat /\ Len(times) \in Nat
      /\ FirstKept(times) \in 1..(Len(times) + 1)
      /\ Len(times') = Len(times) - FirstKept(times) + 2
      /\ Len(history') = n + 1
      /\ history'[n + 1].granted = ~Exceeded(times')
  BY RecordedProperties DEF LimitInv, WindowTypes
<1>2. k \in Nat \ {0} /\ k - 1 \in Nat
  BY <1>1
<1>3. Power(k - 1) \in Nat /\ ExponentialBackoff(k - 1) = e
  BY <1>2, BackoffValue
<1>4. e \in Nat /\ Base \in Nat
  BY <1>3, BackoffAssumption DEF MinOf
<1>5. CASE ~Exceeded(times')
  <2>1. delay' \in Backoff(k) /\ restart' = now + delay'
    BY <1>5 DEF ScheduleRestart
  <2> HIDE DEF k
  <2>2. Backoff(k) = CASE Policy = "None" -> {0}
                       [] Policy = "Fixed" -> {Base}
                       [] Policy = "Exponential" -> {e}
                       [] Policy = "JitteredExponential" -> (e \div 2)..e
    BY <1>3 DEF Backoff
  <2> HIDE DEF e
  <2>3. ASSUME Policy = "None"
        PROVE  delay' \in Nat /\ DelayFollowsPolicy'
    <3>1. delay' = 0
      BY <2>1, <2>2, <2>3
    <3> QED
      BY <2>3, <3>1 DEF DelayFollowsPolicy
  <2>4. ASSUME Policy = "Fixed"
        PROVE  delay' \in Nat /\ DelayFollowsPolicy'
    <3>1. delay' = Base
      BY <2>1, <2>2, <2>4
    <3> QED
      BY <1>4, <2>4, <3>1 DEF DelayFollowsPolicy
  <2>5. ASSUME Policy = "Exponential"
        PROVE  delay' \in Nat /\ DelayFollowsPolicy'
    <3>1. delay' = e
      BY <2>1, <2>2, <2>5
    <3> QED
      BY <1>4, <2>5, <3>1 DEF DelayFollowsPolicy, e, k
  <2>6. ASSUME Policy = "JitteredExponential"
        PROVE  delay' \in Nat /\ DelayFollowsPolicy'
    <3>1. delay' \in (e \div 2)..e
      BY <2>1, <2>2, <2>6
    <3>2. delay' \in Nat
      BY <1>4, <3>1
    <3>3. DelayFollowsPolicy'
      BY <2>6, <3>1 DEF DelayFollowsPolicy, e, k
    <3> QED
      BY <3>2, <3>3
  <2>7. delay' \in Nat /\ DelayFollowsPolicy'
    BY <2>3, <2>4, <2>5, <2>6, BackoffAssumption
  <2>8. restart' \in Nat
    <3>1. now \in Nat /\ restart' = now + delay'
      BY <1>5 DEF ScheduleRestart, LimitInv, WindowTypes
    <3>2. delay' \in Nat
      BY <2>7
    <3>3. \A x, y \in Nat : x + y \in Nat
      OBVIOUS
    <3> QED
      BY <3>1, <3>2, <3>3, Zenon
  <2> QED
    BY <2>7, <2>8 DEF DelayInv
<1>6. CASE Exceeded(times')
  <2>1. UNCHANGED <<delay, restart>>
    BY <1>6 DEF ScheduleRestart
  <2>2. ~(history'[Len(history')].granted)
    BY <1>1, <1>6
  <2> QED
    BY <2>1, <2>2 DEF DelayInv, DelayFollowsPolicy
<1> QED
  BY <1>5, <1>6

\* The invariant of the delay.
THEOREM DelayInvariant == Spec => []DelayInv
<1>1. Init => DelayInv
  BY DEF Init, DelayInv, DelayFollowsPolicy
<1>2. LimitInv /\ DelayInv /\ [Next]_vars => DelayInv'
  <2>1. ASSUME DelayInv, Tick \/ UNCHANGED vars PROVE DelayInv'
    BY <2>1 DEF DelayInv, DelayFollowsPolicy, Tick, vars
  <2> QED
    BY <2>1, RecordKeepsDelay DEF Next
<1> QED
  BY <1>1, <1>2, LimitInvariant, PTL DEF Spec

\* RestartTracker::backoff gives, for every policy and every number of restarts
\* in the window, the base times a power of the factor, clamped to the maximum:
\* the early return and the saturation of the loop change nothing, and
\* jitter takes at most half.
THEOREM DelayTheorem == Spec => []DelayFollowsPolicy
<1>1. DelayInv => DelayFollowsPolicy
  BY DEF DelayInv
<1> QED
  BY DelayInvariant, <1>1, PTL

\* The types of all variables.
THEOREM TypeTheorem == Spec => []TypeOK
<1>1. LimitInv /\ DelayInv => TypeOK
  BY DEF LimitInv, WindowTypes, Restarts, DelayInv, TypeOK
<1> QED
  BY LimitInvariant, DelayInvariant, <1>1, PTL

=============================================================================
