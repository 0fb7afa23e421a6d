--------------------------- MODULE Mailbox_proofs ---------------------------
(***************************************************************************)
(* The mailbox of an actor, for any number of calls of run_until that may  *)
(* overlap or be dropped, and any number of senders.                       *)
(***************************************************************************)
EXTENDS Mailbox, FiniteSetTheorems, TLAPS

\* The calls that hold the flag.
Busy(r) == phase[r] \in {"started", "active", "unbound"}

\* The flag excludes a second call from its test to its release.
RunInv ==
  /\ \A r \in Runs : Busy(r) => running
  /\ \A r, q \in Runs : Busy(r) /\ Busy(q) => r = q
  /\ ActiveIsBound

\* A task exists once its call is active, a receiver only with its task.
TaskInv ==
  /\ \A r \in Runs :
       task[r] # "none" => phase[r] \in {"active", "unbound", "returned"}
  /\ \A r \in Runs : open[r] => task[r] \in {"running", "finishing"}

\* Every envelope in a mailbox is there once, and belongs to a sender that was
\* told so; every sender that was told so has its envelope in a mailbox.
DeliveryInv ==
  /\ \A r \in Runs : \A i \in 1..Len(accepted[r]) :
       sender[accepted[r][i]] = "ok"
  /\ \A r, q \in Runs :
       \A i \in 1..Len(accepted[r]), j \in 1..Len(accepted[q]) :
         accepted[r][i] = accepted[q][j] => r = q /\ i = j
  /\ \A s \in Senders :
       sender[s] = "ok" =>
         \E r \in Runs : \E i \in 1..Len(accepted[r]) : accepted[r][i] = s

MailboxInv == TypeOK /\ RunInv /\ TaskInv /\ DeliveryInv

-----------------------------------------------------------------------------
\* The actor starts with it.
LEMMA MailboxInit == Init => MailboxInv
<1> SUFFICES ASSUME Init PROVE MailboxInv
  OBVIOUS
<1>1. TypeOK
  <2>1. /\ accepted \in [Runs -> Seq(Senders)] /\ received \in [Runs -> Nat]
    <3>1. <<>> \in Seq(Senders)
      OBVIOUS
    <3> QED
      BY <3>1 DEF Init
  <2>2. \A r \in Runs : /\ received[r] <= Len(accepted[r])
                        /\ Len(accepted[r]) - received[r] <= Capacity
    <3>1. \A r \in Runs : received[r] = 0 /\ accepted[r] = <<>>
      BY DEF Init
    <3>2. Len(<<>>) = 0 /\ Capacity \in Nat
      BY MailboxAssumption
    <3>3. 0 <= 0 /\ 0 - 0 <= Capacity
      BY <3>2
    <3> QED
      BY <3>1, <3>2, <3>3
  <2>3. \A s \in Senders : sender[s] = "new" /\ held[s] = None
    BY DEF Init
  <2>4. /\ running \in BOOLEAN /\ bound \in Runs \cup {None}
        /\ source_dropped \in BOOLEAN
        /\ phase \in [Runs -> {"idle", "refused", "started", "active", "unbound",
                               "returned"}]
        /\ task \in [Runs -> {"none", "running", "finishing", "ended"}]
        /\ open \in [Runs -> BOOLEAN] /\ cancelled \in [Runs -> BOOLEAN]
        /\ sender \in [Senders -> {"new", "holding", "waiting", "ok", "failed",
                                   "abandoned"}]
        /\ held \in [Senders -> Runs \cup {None}]
    BY DEF Init
  <2> QED
    BY <2>1, <2>2, <2>3, <2>4 DEF TypeOK
<1>2. RunInv
  BY MailboxAssumption DEF Init, RunInv, Busy, ActiveIsBound
<1>3. TaskInv
  BY DEF Init, TaskInv
<1>4. DeliveryInv
  BY DEF Init, DeliveryInv
<1> QED
  BY <1>1, <1>2, <1>3, <1>4 DEF MailboxInv

\* The calls of run_until exclude each other, and bind and clear in turn.
LEMMA RunUntilKeeps ==
  ASSUME MailboxInv, NEW r \in Runs, RunUntil(r)
  PROVE  MailboxInv'
<1>1. TypeOK /\ RunInv /\ TaskInv /\ DeliveryInv /\ None \notin Runs
  BY MailboxAssumption DEF MailboxInv
<1>2. DeliveryInv'
  <2>1. UNCHANGED <<accepted, sender>>
    BY DEF RunUntil, Start, Bind, Shutdown, Joined, Dropped, Unbind, Release,
           mailboxVars, senderVars
  <2> QED
    BY <1>1, <2>1 DEF DeliveryInv
<1>3. CASE Start(r)
  <2>1. TypeOK'
    BY <1>1, <1>3 DEF TypeOK, Start, mailboxVars, senderVars
  <2>2. RunInv'
    BY <1>1, <1>3 DEF TypeOK, RunInv, Busy, ActiveIsBound, Start
  <2>3. TaskInv'
    BY <1>1, <1>3 DEF TypeOK, TaskInv, Start, mailboxVars
  <2> QED
    BY <1>2, <2>1, <2>2, <2>3 DEF MailboxInv
<1>4. CASE Bind(r)
  <2>1. TypeOK'
    BY <1>1, <1>4 DEF TypeOK, Bind, senderVars
  <2>2. RunInv'
    BY <1>1, <1>4 DEF TypeOK, RunInv, Busy, ActiveIsBound, Bind
  <2>3. TaskInv'
    BY <1>1, <1>4 DEF TypeOK, TaskInv, Bind
  <2> QED
    BY <1>2, <2>1, <2>2, <2>3 DEF MailboxInv
<1>5. CASE Shutdown(r)
  BY <1>1, <1>2, <1>5
     DEF MailboxInv, TypeOK, RunInv, Busy, ActiveIsBound, TaskInv, Shutdown,
         runVars, mailboxVars, senderVars
<1>6. CASE Unbind(r)
  <2>1. TypeOK'
    BY <1>1, <1>6 DEF TypeOK, Unbind, mailboxVars, senderVars
  <2>2. RunInv'
    BY <1>1, <1>6 DEF TypeOK, RunInv, Busy, ActiveIsBound, Unbind
  <2>3. TaskInv'
    BY <1>1, <1>6 DEF TypeOK, TaskInv, Unbind, mailboxVars
  <2> QED
    BY <1>2, <2>1, <2>2, <2>3 DEF MailboxInv
<1>7. CASE Release(r)
  <2>1. TypeOK'
    BY <1>1, <1>7 DEF TypeOK, Release, mailboxVars, senderVars
  <2>2. RunInv'
    BY <1>1, <1>7 DEF TypeOK, RunInv, Busy, ActiveIsBound, Release
  <2>3. TaskInv'
    BY <1>1, <1>7 DEF TypeOK, TaskInv, Release, mailboxVars
  <2> QED
    BY <1>2, <2>1, <2>2, <2>3 DEF MailboxInv
<1> QED
  BY <1>3, <1>4, <1>5, <1>6, <1>7 DEF RunUntil, Joined, Dropped

\* The task of an actor changes neither the flag nor what was accepted.
LEMMA ActorKeeps ==
  ASSUME MailboxInv, NEW r \in Runs, Actor(r)
  PROVE  MailboxInv'
<1>1. TypeOK /\ RunInv /\ TaskInv /\ DeliveryInv
  BY DEF MailboxInv
<1>2. UNCHANGED <<running, phase, bound, accepted, sender>>
  BY DEF Actor, Recv, ActorReturns, BlockingFails, TaskEnds, runVars,
         mailboxVars, senderVars
<1>3. DeliveryInv' /\ RunInv'
  BY <1>1, <1>2 DEF DeliveryInv, RunInv, Busy, ActiveIsBound
<1>4. TypeOK'
  <2>1. /\ source_dropped' = source_dropped /\ held' = held
        /\ received' = received \/ Recv(r)
        /\ open' = open \/ open' = [open EXCEPT ![r] = FALSE]
        /\ cancelled' = cancelled \/ cancelled' = [cancelled EXCEPT ![r] = TRUE]
        /\ \/ task' = task
           \/ \E t \in {"finishing", "ended"} : task' = [task EXCEPT ![r] = t]
    BY DEF Actor, Recv, ActorReturns, BlockingFails, TaskEnds, runVars,
           mailboxVars, senderVars
  <2>2. /\ received' \in [Runs -> Nat]
        /\ \A q \in Runs : /\ received'[q] <= Len(accepted[q])
                          /\ Len(accepted[q]) - received'[q] <= Capacity
    <3>1. \A q \in Runs : Len(accepted[q]) \in Nat
      BY <1>1 DEF TypeOK
    <3>2. CASE Recv(r)
      <4>1. /\ received[r] < Len(accepted[r])
            /\ received' = [received EXCEPT ![r] = received[r] + 1]
        BY <3>2 DEF Recv
      <4> QED
        BY <1>1, <3>1, <4>1, MailboxAssumption DEF TypeOK
    <3> QED
      BY <1>1, <2>1, <3>2 DEF TypeOK
  <2>3. open' \in [Runs -> BOOLEAN] /\ cancelled' \in [Runs -> BOOLEAN]
    BY <1>1, <2>1 DEF TypeOK
  <2>4. task' \in [Runs -> {"none", "running", "finishing", "ended"}]
    BY <1>1, <2>1 DEF TypeOK
  <2> QED
    BY <1>1, <1>2, <2>1, <2>2, <2>3, <2>4 DEF TypeOK
<1>5. TaskInv'
  <2>1. CASE Recv(r)
    BY <1>1, <1>2, <2>1 DEF TaskInv, Recv
  <2>2. CASE ActorReturns(r)
    BY <1>1, <1>2, <2>2 DEF TypeOK, TaskInv, ActorReturns
  <2>3. CASE BlockingFails(r)
    BY <1>1, <1>2, <2>3 DEF TypeOK, TaskInv, BlockingFails, mailboxVars
  <2>4. CASE TaskEnds(r)
    BY <1>1, <1>2, <2>4 DEF TypeOK, TaskInv, TaskEnds
  <2> QED
    BY <2>1, <2>2, <2>3, <2>4 DEF Actor
<1> QED
  BY <1>3, <1>4, <1>5 DEF MailboxInv

\* An envelope that enters a mailbox was in none, and its sender is told so.
LEMMA DeliverKeeps ==
  ASSUME MailboxInv, NEW s \in Senders, Deliver(s)
  PROVE  MailboxInv'
<1> DEFINE r == held[s]
           n == Len(accepted[r])
<1>1. /\ TypeOK /\ RunInv /\ TaskInv /\ DeliveryInv
      /\ sender[s] = "holding" /\ r \in Runs
  BY DEF MailboxInv, TypeOK, Deliver, Sendable
<1>2. /\ accepted' = [accepted EXCEPT ![r] = Append(accepted[r], s)]
      /\ sender' = [sender EXCEPT ![s] = "ok"]
      /\ held' = [held EXCEPT ![s] = None]
      /\ UNCHANGED <<running, phase, bound, source_dropped, task, cancelled,
                     open, received>>
  BY DEF Deliver, Goes, runVars
<1>3. \A q \in Runs : accepted[q] \in Seq(Senders)
  BY <1>1 DEF TypeOK
<1> HIDE DEF r
<1>4. /\ accepted'[r] = Append(accepted[r], s)
      /\ \A q \in Runs : q # r => accepted'[q] = accepted[q]
      /\ accepted' \in [Runs -> Seq(Senders)]
  BY <1>1, <1>2, <1>3 DEF TypeOK
<1>5. /\ n \in Nat /\ Len(accepted'[r]) = n + 1 /\ accepted'[r][n + 1] = s
      /\ \A i \in 1..n : accepted'[r][i] = accepted[r][i]
      /\ \A i \in 1..(n + 1) : i \in 1..n \/ i = n + 1
  BY <1>1, <1>3, <1>4
<1> HIDE DEF n
<1>6. \A q \in Runs : \A i \in 1..Len(accepted'[q]) :
        \/ i \in 1..Len(accepted[q]) /\ accepted'[q][i] = accepted[q][i]
        \/ q = r /\ i = n + 1 /\ accepted'[q][i] = s
  BY <1>4, <1>5 DEF n
<1>7. \A q \in Runs : \A i \in 1..Len(accepted[q]) :
        /\ accepted[q][i] # s /\ accepted[q][i] \in Senders
        /\ i \in 1..Len(accepted'[q]) /\ accepted'[q][i] = accepted[q][i]
  <2> SUFFICES ASSUME NEW q \in Runs, NEW i \in 1..Len(accepted[q])
               PROVE  /\ accepted[q][i] # s /\ accepted[q][i] \in Senders
                      /\ i \in 1..Len(accepted'[q])
                      /\ accepted'[q][i] = accepted[q][i]
    OBVIOUS
  <2>1. accepted[q][i] \in Senders
    BY <1>3
  <2>2. accepted[q][i] # s
    BY <1>1 DEF DeliveryInv
  <2>3. CASE q = r
    BY <1>5, <2>1, <2>2, <2>3 DEF n
  <2>4. CASE q # r
    BY <1>4, <2>1, <2>2, <2>4
  <2> QED
    BY <2>3, <2>4
<1>8. DeliveryInv'
  <2>1. ASSUME NEW q \in Runs, NEW i \in 1..Len(accepted'[q])
        PROVE  sender'[accepted'[q][i]] = "ok"
    <3>1. CASE accepted'[q][i] = s
      BY <1>1, <1>2, <3>1 DEF TypeOK
    <3>2. CASE i \in 1..Len(accepted[q]) /\ accepted'[q][i] = accepted[q][i]
      BY <1>1, <1>2, <1>7, <3>2 DEF TypeOK, DeliveryInv
    <3> QED
      BY <1>6, <3>1, <3>2
  <2>2. ASSUME NEW q \in Runs, NEW p \in Runs,
               NEW i \in 1..Len(accepted'[q]), NEW j \in 1..Len(accepted'[p]),
               accepted'[q][i] = accepted'[p][j]
        PROVE  q = p /\ i = j
    <3>1. CASE accepted'[q][i] = s
      <4>1. q = r /\ i = n + 1
        BY <1>6, <1>7, <3>1
      <4>2. accepted'[p][j] = s
        BY <2>2, <3>1
      <4>3. p = r /\ j = n + 1
        BY <1>6, <1>7, <4>2
      <4> QED
        BY <4>1, <4>3
    <3>2. CASE accepted'[q][i] # s
      <4>1. /\ i \in 1..Len(accepted[q]) /\ accepted'[q][i] = accepted[q][i]
            /\ j \in 1..Len(accepted[p]) /\ accepted'[p][j] = accepted[p][j]
        BY <1>6, <2>2, <3>2
      <4>2. accepted[q][i] = accepted[p][j]
        BY <2>2, <4>1
      <4> QED
        BY <1>1, <4>1, <4>2 DEF DeliveryInv
    <3> QED
      BY <3>1, <3>2
  <2>3. ASSUME NEW u \in Senders, sender'[u] = "ok"
        PROVE  \E q \in Runs : \E i \in 1..Len(accepted'[q]) :
                 accepted'[q][i] = u
    <3>1. CASE u = s
      <4>1. n + 1 \in 1..Len(accepted'[r])
        BY <1>5
      <4> QED
        BY <1>1, <1>5, <3>1, <4>1
    <3>2. CASE u # s
      <4>1. sender[u] = "ok"
        BY <1>1, <1>2, <2>3, <3>2 DEF TypeOK
      <4>2. PICK q \in Runs : \E i \in 1..Len(accepted[q]) : accepted[q][i] = u
        BY <1>1, <4>1 DEF DeliveryInv
      <4> QED
        BY <1>7, <4>2
    <3> QED
      BY <3>1, <3>2
  <2> QED
    BY <2>1, <2>2, <2>3 DEF DeliveryInv
<1>9. RunInv' /\ TaskInv'
  BY <1>1, <1>2 DEF RunInv, Busy, ActiveIsBound, TaskInv
<1>10. TypeOK'
  <2>1. /\ accepted' \in [Runs -> Seq(Senders)]
        /\ \A q \in Runs : /\ received'[q] <= Len(accepted'[q])
                          /\ Len(accepted'[q]) - received'[q] <= Capacity
    <3>1. /\ Capacity \in Nat /\ received[r] \in Nat
          /\ received[r] <= n /\ n - received[r] < Capacity
      BY <1>1, MailboxAssumption DEF n, r, TypeOK, Deliver, HasRoom
    <3>2. /\ received'[r] <= Len(accepted'[r])
          /\ Len(accepted'[r]) - received'[r] <= Capacity
      BY <1>2, <1>5, <3>1
    <3>3. \A q \in Runs : q # r => Len(accepted'[q]) = Len(accepted[q])
      BY <1>4
    <3> QED
      BY <1>1, <1>2, <1>4, <3>2, <3>3 DEF TypeOK
  <2>2. /\ sender' \in [Senders -> {"new", "holding", "waiting", "ok", "failed",
                                    "abandoned"}]
        /\ held' \in [Senders -> Runs \cup {None}]
        /\ \A u \in Senders :
             /\ sender'[u] = "holding" => held'[u] # None
             /\ held'[u] # None => sender'[u] \in {"holding", "waiting"}
    BY <1>1, <1>2 DEF TypeOK
  <2> QED
    BY <1>1, <1>2, <2>1, <2>2 DEF TypeOK
<1> QED
  BY <1>8, <1>9, <1>10 DEF MailboxInv

\* A sender whose envelope is rejected, handed back or kept is told nothing of
\* a delivery.
LEMMA SendKeeps ==
  ASSUME MailboxInv, NEW s \in Senders, Send(s)
  PROVE  MailboxInv'
<1>1. TypeOK /\ RunInv /\ TaskInv /\ DeliveryInv /\ None \notin Runs
  BY MailboxAssumption DEF MailboxInv
<1>2. CASE Deliver(s)
  BY <1>2, DeliverKeeps
<1>3. CASE ~Deliver(s)
  <2>1. PICK where \in {"new", "holding", "waiting", "failed", "abandoned"} :
          /\ sender' = [sender EXCEPT ![s] = where]
          /\ sender[s] # "ok"
          /\ UNCHANGED <<bound, source_dropped, task, cancelled, running,
                         phase, open, received, accepted>>
          /\ \/ /\ where = "holding" /\ bound # None
                /\ held' = [held EXCEPT ![s] = bound]
             \/ where # "holding" /\ held' = [held EXCEPT ![s] = None]
             \/ where = "waiting" /\ held' = held
    <3>1. Unavailable(s) \in {"waiting", "failed"}
      BY DEF Unavailable
    <3>2. CASE Look(s)
      BY <3>1, <3>2 DEF Look, Goes, runVars
    <3>3. CASE Reject(s) \/ Full(s) \/ Closed(s) \/ Abandon(s)
      BY <3>1, <3>3 DEF Reject, Full, Closed, Abandon, Sendable, Goes, runVars
    <3>4. CASE WaitOver(s)
      BY <3>4 DEF WaitOver, Goes, runVars
    <3> QED
      BY <1>3, <3>2, <3>3, <3>4 DEF Send, Handle
  <2>2. DeliveryInv'
    <3>1. \A u \in Senders : sender[u] = "ok" <=> sender'[u] = "ok"
      BY <1>1, <2>1 DEF TypeOK
    <3>2. \A r \in Runs : \A i \in 1..Len(accepted[r]) : accepted[r][i] \in Senders
      BY <1>1 DEF TypeOK
    <3> QED
      BY <1>1, <2>1, <3>1, <3>2 DEF DeliveryInv
  <2>3. RunInv' /\ TaskInv'
    BY <1>1, <2>1 DEF RunInv, Busy, ActiveIsBound, TaskInv
  <2>4. /\ sender' \in [Senders -> {"new", "holding", "waiting", "ok", "failed",
                                    "abandoned"}]
        /\ held' \in [Senders -> Runs \cup {None}]
    BY <1>1, <2>1 DEF TypeOK
  <2>5. \A u \in Senders :
          /\ sender'[u] = "holding" => held'[u] # None
          /\ held'[u] # None => sender'[u] \in {"holding", "waiting"}
    BY <1>1, <2>1 DEF TypeOK
  <2>6. TypeOK'
    BY <1>1, <2>1, <2>4, <2>5 DEF TypeOK
  <2> QED
    BY <2>2, <2>3, <2>6 DEF MailboxInv
<1> QED
  BY <1>2, <1>3

\* Every step keeps the invariant.
LEMMA MailboxNext == MailboxInv /\ [Next]_vars => MailboxInv'
<1> SUFFICES ASSUME MailboxInv, [Next]_vars PROVE MailboxInv'
  OBVIOUS
<1>1. CASE \E r \in Runs : RunUntil(r) \/ Actor(r)
  BY <1>1, RunUntilKeeps, ActorKeeps
<1>2. CASE \E s \in Senders : Send(s)
  BY <1>2, SendKeeps
<1>3. CASE DropSource
  BY <1>3 DEF DropSource, MailboxInv, TypeOK, RunInv, Busy, ActiveIsBound,
              TaskInv, DeliveryInv, runVars, mailboxVars, senderVars
<1>4. CASE UNCHANGED vars
  BY <1>4 DEF vars, MailboxInv, TypeOK, RunInv, Busy, ActiveIsBound, TaskInv,
              DeliveryInv
<1> QED
  BY <1>1, <1>2, <1>3, <1>4 DEF Next

\* The inductive invariant holds in every reachable state.
THEOREM MailboxInvTheorem == Spec => []MailboxInv
  BY MailboxInit, MailboxNext, PTL DEF Spec

\* The types of all variables, for any calls, senders and capacity; among them
\* that no mailbox ever holds more envelopes than its capacity.
THEOREM TypeTheorem == Spec => []TypeOK
<1>1. MailboxInv => TypeOK
  BY DEF MailboxInv
<1> QED
  BY MailboxInvTheorem, <1>1, PTL

\* However calls of run_until overlap, end or are dropped, the binding shows
\* the mailbox of the active one.
THEOREM BindingTheorem == Spec => []ActiveIsBound
<1>1. MailboxInv => ActiveIsBound
  BY DEF MailboxInv, RunInv
<1> QED
  BY <1>1, MailboxInvTheorem, PTL

\* An envelope enters exactly one mailbox if its sender is told Ok, and none
\* otherwise, over any number of restarts.
THEOREM DeliveryTheorem == Spec => []OneDelivery
<1>1. ASSUME MailboxInv, NEW s \in Senders
      PROVE  Cardinality(Deliveries(s)) = IF sender[s] = "ok" THEN 1 ELSE 0
  <2>1. \A d \in Deliveries(s) :
          /\ d[1] \in Runs /\ d[2] \in 1..Len(accepted[d[1]])
          /\ d = <<d[1], d[2]>> /\ accepted[d[1]][d[2]] = s
    BY DEF Deliveries
  <2>2. CASE sender[s] = "ok"
    <3>0. PICK r \in Runs : \E i \in 1..Len(accepted[r]) : accepted[r][i] = s
      BY <1>1, <2>2 DEF MailboxInv, DeliveryInv
    <3>1. PICK i \in 1..Len(accepted[r]) : accepted[r][i] = s
      BY <3>0
    <3>2. <<r, i>> \in Deliveries(s)
      BY <3>1 DEF Deliveries
    <3>3. \A d \in Deliveries(s) : d = <<r, i>>
      BY <1>1, <2>1, <3>1 DEF MailboxInv, DeliveryInv
    <3>4. Deliveries(s) = {<<r, i>>}
      BY <3>2, <3>3
    <3> QED
      BY <2>2, <3>4, FS_Singleton
  <2>3. CASE sender[s] # "ok"
    <3>1. Deliveries(s) = {}
      BY <1>1, <2>1, <2>3 DEF MailboxInv, DeliveryInv
    <3> QED
      BY <2>3, <3>1, FS_EmptySet
  <2> QED
    BY <2>2, <2>3
<1>2. MailboxInv => OneDelivery
  BY <1>1 DEF OneDelivery
<1> QED
  BY <1>2, MailboxInvTheorem, PTL

\* A sender reaches the bound actor, or one that a dropped call has left
\* behind, and never one that was joined.
THEOREM FollowsTheorem == Spec => DeliveryFollowsBinding
<1> DEFINE A == \A r \in Runs :
                  accepted'[r] # accepted[r] =>
                    bound = r \/ (phase[r] \in {"unbound", "returned"}
                                  /\ task[r] # "ended")
<1>1. MailboxInv /\ [Next]_vars => [A]_vars
  <2> SUFFICES ASSUME MailboxInv, Next, NEW r \in Runs,
                      accepted'[r] # accepted[r]
               PROVE  bound = r \/ (phase[r] \in {"unbound", "returned"}
                                    /\ task[r] # "ended")
    OBVIOUS
  <2>1. PICK s \in Senders : Deliver(s)
    BY DEF Next, RunUntil, Start, Bind, Shutdown, Joined, Dropped, Unbind,
           Release, Actor, Recv, ActorReturns, BlockingFails, TaskEnds, Send, Handle,
           Look, Reject, Full, Closed, WaitOver, Abandon, DropSource,
           mailboxVars
  <2>2. r = held[s] /\ open[r]
    BY <2>1 DEF Deliver, MailboxInv, TypeOK
  <2>3. task[r] \in {"running", "finishing"}
    BY <2>2 DEF MailboxInv, TaskInv
  <2>4. phase[r] \in {"active", "unbound", "returned"}
    BY <2>3 DEF MailboxInv, TaskInv
  <2>5. phase[r] = "active" => bound = r
    BY DEF MailboxInv, RunInv, ActiveIsBound
  <2> QED
    BY <2>3, <2>4, <2>5
<1> QED
  BY <1>1, MailboxInvTheorem, PTL DEF Spec, DeliveryFollowsBinding

=============================================================================
