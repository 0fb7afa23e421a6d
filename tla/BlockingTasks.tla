----------------------------- MODULE BlockingTasks -----------------------------
(***************************************************************************)
(* The blocking tasks of one run of an actor                               *)
(* (crates/tokio-actor/src/blocking.rs), and the loop of the actor's task  *)
(* that owns them (actor_set.rs, graph.rs).                                *)
(*                                                                         *)
(* Each call of spawn_blocking is a member of Tasks.  The calls of Shared  *)
(* are made, and their handles used, by tokio tasks the actor shares its   *)
(* ActorContext with; the others are made by the future of the actor, and  *)
(* no step of the actor's task comes between theirs.                       *)
(*                                                                         *)
(* A closure runs on a thread of its own.  It waits in the queue of the    *)
(* blocking pool first, and an abort reaches it only there.                *)
(***************************************************************************)
EXTENDS Integers, Sequences, FiniteSets

CONSTANTS
  Tasks,           \* the calls of spawn_blocking
  Shared,          \* those made outside the future of the actor
  Limit,           \* max_blocking_tasks; None is a limit no call reaches
  OverflowChecks   \* whether the build panics on integer overflow

ASSUME BlockingAssumption ==
  /\ IsFiniteSet(Tasks) /\ Shared \subseteq Tasks
  /\ Limit \in Nat
  /\ OverflowChecks \in BOOLEAN

VARIABLES
  call,            \* where each call of spawn_blocking is
  closure,         \* where each closure is
  result,          \* what it has returned
  permits,         \* the permits left in the semaphore of BlockingAdmission
  entry,           \* what has become of the entry of each task
  cancel,          \* the tasks whose own token is cancelled
  claimed,         \* the tasks whose failure a wait has claimed
  handle,          \* where each BlockingHandle is
  events,          \* event_rx: the tasks that have reported their completion
  running_blocking_tasks, \* the counter the gauge is set from
  actor,           \* where the task of the actor is
  closing,         \* BlockingState::closing
  actor_shutdown,  \* the token of the actor
  own,             \* what the future of the actor has returned
  expired,         \* the deadline of finish has passed
  failure          \* the tasks whose failure the actor ends with (one at most)

callVars == <<call, permits>>
actorVars == <<actor, closing, own, expired, failure>>
vars == <<call, closure, result, permits, entry, cancel, claimed, handle,
          events, running_blocking_tasks, actor, closing, actor_shutdown, own,
          expired, failure>>

Init ==
  /\ call = [t \in Tasks |-> "idle"]
  /\ closure = [t \in Tasks |-> "none"]
  /\ result = [t \in Tasks |-> "none"]
  /\ permits = Limit
  /\ entry = [t \in Tasks |-> "none"]
  /\ cancel = {}
  /\ claimed = {}
  /\ handle = [t \in Tasks |-> "none"]
  /\ events = <<>>
  /\ running_blocking_tasks = 0
  /\ actor = "running"
  /\ closing = FALSE
  /\ actor_shutdown = FALSE
  /\ own = "none"
  /\ expired = FALSE
  /\ failure = {}

\* BlockingTaskError, as far as the outcome of the actor depends on it: "failed"
\* is an error or a panic of the closure.
Results == {"none", "ok", "failed", "cancelled"}

\* BlockingAdmission::try_acquire
AtCapacity == permits = 0

\* BlockingTaskState::was_claimed_for_wait
Claimed(t) == t \in claimed

\* The future of the actor is inside a call of spawn_blocking.
InCall == \E t \in Tasks \ Shared : call[t] \in {"admitted", "inserted"}

\* The future of the actor is polled, or another task has the context.
Polled(t) == t \in Shared \/ (actor = "running" /\ ~InCall)

\* The closure is dropped, and with it its permit and the completion sender.
Over(t) == closure[t] \in {"exited", "panicked", "dropped"}

\* What complete_entry makes of the joined task, before it looks at the claim.
Failed(t) ==
  \/ closure[t] = "exited" /\ result[t] = "failed"
  \/ closure[t] \in {"panicked", "dropped"}

-----------------------------------------------------------------------------
(* spawn_blocking: admission, the thread, the entry, the observability.    *)

\* Mutation: the permit is not asked for.
AdmitUnlimited(t) ==
  /\ call[t] = "idle" /\ Polled(t)
  /\ IF closing \/ actor_shutdown
     THEN /\ call' = [call EXCEPT ![t] = "shutting_down"]
          /\ UNCHANGED <<permits, closure>>
     ELSE /\ call' = [call EXCEPT ![t] = "admitted"]
          /\ closure' = [closure EXCEPT ![t] = "queued"]
          /\ UNCHANGED permits
  /\ UNCHANGED <<result, entry, cancel, claimed, handle, events,
                 running_blocking_tasks, actor_shutdown, actorVars>>

\* The first lock; then the closure is given to the blocking pool.
Admit(t) ==
  /\ call[t] = "idle" /\ Polled(t)
  /\ IF closing \/ actor_shutdown \/ AtCapacity
     THEN /\ call' = [call EXCEPT ![t] = IF closing \/ actor_shutdown
                                         THEN "shutting_down"
                                         ELSE "at_capacity"]
          /\ UNCHANGED <<permits, closure>>
     ELSE /\ call' = [call EXCEPT ![t] = "admitted"]
          /\ closure' = [closure EXCEPT ![t] = "queued"]
          /\ permits' = permits - 1
  /\ UNCHANGED <<result, entry, cancel, claimed, handle, events,
                 running_blocking_tasks, actor_shutdown, actorVars>>

\* The second lock: it does not look at closing again.
Insert(t) ==
  /\ call[t] = "admitted"
  /\ call' = [call EXCEPT ![t] = "inserted"]
  /\ entry' = [entry EXCEPT ![t] = "kept"]
  /\ UNCHANGED <<closure, result, permits, cancel, claimed, handle, events,
                 running_blocking_tasks, actor_shutdown, actorVars>>

\* emit_blocking_task_started adds to the counter, and to what it had: the
\* second sum overflows if the task has already taken one from zero (wrapping
\* it to the largest number, which is -1 here).
StartPanics == OverflowChecks /\ running_blocking_tasks = -1

\* The actor's task is gone: it has panicked, or was aborted at an await.
\* BlockingRuntime is dropped, and the join handles with it; nothing is
\* cancelled.
Lose ==
  /\ actor' = "lost"
  /\ entry' = [t \in Tasks |-> IF entry[t] \in {"none", "settled", "abandoned"}
                               THEN entry[t] ELSE "lost"]
  /\ UNCHANGED <<closing, own, expired, failure>>

Started(t) ==
  /\ call[t] = "inserted"
  /\ running_blocking_tasks' = running_blocking_tasks + 1
  /\ call' = [call EXCEPT ![t] = IF StartPanics THEN "panicked" ELSE "returned"]
  /\ handle' = [handle EXCEPT ![t] = IF StartPanics THEN "dropped" ELSE "held"]
  /\ IF StartPanics /\ t \notin Shared
     THEN Lose
     ELSE UNCHANGED <<entry, actorVars>>
  /\ UNCHANGED <<closure, result, permits, cancel, claimed, events,
                 actor_shutdown>>

-----------------------------------------------------------------------------
(* The closure.                                                            *)

Moves(t, where) ==
  /\ closure' = [closure EXCEPT ![t] = where]
  /\ UNCHANGED <<call, entry, cancel, claimed, handle, actor_shutdown,
                 actorVars>>

Run(t) ==
  /\ closure[t] = "queued"
  /\ Moves(t, "running")
  /\ UNCHANGED <<result, permits, events, running_blocking_tasks>>

\* emit_blocking_task_finished takes one from the counter, and from what it
\* had: the second difference overflows at zero, outside catch_unwind.
FinishPanics == OverflowChecks /\ running_blocking_tasks = 0

\* f returns, or fails: it returns an error, or unwinds into catch_unwind.  The error
\* may be Cancelled, from a checkpoint or of its own.  A closure that panics after
\* that sends neither its result nor its event.
Return(t) ==
  /\ closure[t] = "running"
  /\ \E r \in {"ok", "failed", "cancelled"} : result' = [result EXCEPT ![t] = r]
  /\ running_blocking_tasks' = running_blocking_tasks - 1
  /\ IF FinishPanics
     THEN Moves(t, "panicked") /\ permits' = permits + 1
     ELSE Moves(t, "returned") /\ UNCHANGED permits
  /\ UNCHANGED events

\* Mutation: only a success is reported.
ReportSuccess(t) ==
  /\ closure[t] = "returned"
  /\ Moves(t, "reported")
  /\ events' = IF result[t] = "ok" THEN Append(events, t) ELSE events
  /\ UNCHANGED <<result, permits, running_blocking_tasks>>

\* completion_tx.send, event_tx.send
Report(t) ==
  /\ closure[t] = "returned"
  /\ Moves(t, "reported")
  /\ events' = Append(events, t)
  /\ UNCHANGED <<result, permits, running_blocking_tasks>>

\* The closure returns its failure to the join handle and drops its permit.
Exit(t) ==
  /\ closure[t] = "reported"
  /\ Moves(t, "exited")
  /\ permits' = permits + 1
  /\ UNCHANGED <<result, events, running_blocking_tasks>>

-----------------------------------------------------------------------------
(* BlockingHandle.                                                         *)

Handles(t, where) ==
  /\ handle' = [handle EXCEPT ![t] = where]
  /\ UNCHANGED <<callVars, closure, result, entry, events,
                 running_blocking_tasks, actor_shutdown, actorVars>>

\* cancel, and drop.
CancelHandle(t) ==
  /\ handle[t] = "held" /\ Polled(t)
  /\ cancel' = cancel \cup {t}
  /\ Handles(t, "dropped")
  /\ UNCHANGED claimed

DropHandle(t) ==
  /\ handle[t] = "held"
  /\ Handles(t, "dropped")
  /\ UNCHANGED <<cancel, claimed>>

\* Mutation: the claim is made when the result is there.
WaitUnclaimed(t) ==
  /\ handle[t] = "held" /\ Polled(t)
  /\ Handles(t, "waiting")
  /\ UNCHANGED <<cancel, claimed>>

\* wait claims the failure, then waits for the result.
Wait(t) ==
  /\ handle[t] = "held" /\ Polled(t)
  /\ claimed' = claimed \cup {t}
  /\ Handles(t, "waiting")
  /\ UNCHANGED cancel

\* The future of wait is dropped; the claim stays.
DropWait(t) ==
  /\ handle[t] = "waiting"
  /\ Handles(t, "dropped")
  /\ UNCHANGED <<cancel, claimed>>

\* The result is sent, or its sender was dropped.
Answer(t) ==
  /\ handle[t] = "waiting" /\ Polled(t)
  /\ closure[t] = "reported" \/ Over(t)
  /\ Handles(t, IF closure[t] \in {"panicked", "dropped"} THEN "unavailable"
                ELSE "answered")
  /\ UNCHANGED <<cancel, claimed>>

-----------------------------------------------------------------------------
(* The loop of the actor's task, and finish.                               *)

\* Mutation: the permit is released with the entry.
AbortReleases(t) ==
  /\ closure' = [closure EXCEPT ![t] = IF @ = "queued" THEN "dropped" ELSE @]
  /\ permits' = permits + 1

\* An abort takes a closure that is still queued, and no other.
Abort(t) ==
  /\ closure' = [closure EXCEPT ![t] = IF @ = "queued" THEN "dropped" ELSE @]
  /\ permits' = IF closure[t] = "queued" THEN permits + 1 ELSE permits

\* Mutation: the tasks are waited for without being told to stop.
CloseQuietly(entries) ==
  /\ actor' = "finishing" /\ closing' = TRUE
  /\ entry' = [t \in Tasks |-> IF entries[t] = "kept" THEN "draining"
                               ELSE entries[t]]
  /\ UNCHANGED cancel

\* close_and_take_all, given the entries there are.
CloseAndTakeAll(entries) ==
  /\ actor' = "finishing" /\ closing' = TRUE
  /\ cancel' = cancel \cup {t \in Tasks : entries[t] = "kept"}
  /\ entry' = [t \in Tasks |-> IF entries[t] = "kept" THEN "draining"
                               ELSE entries[t]]

\* next_event, and take_task: no entry, no failure.
Reap ==
  /\ actor = "running" /\ ~InCall /\ events # <<>>
  /\ events' = Tail(events)
  /\ IF entry[Head(events)] = "kept"
     THEN /\ entry' = [entry EXCEPT ![Head(events)] = "reaping"]
          /\ actor' = "reaping"
     ELSE UNCHANGED <<entry, actor>>
  /\ UNCHANGED <<callVars, closure, result, cancel, claimed, handle,
                 running_blocking_tasks, closing, actor_shutdown, own, expired,
                 failure>>

\* Mutation: a failure is reaped, and the actor goes on.
ReapedForgets(t) ==
  /\ entry[t] = "reaping" /\ Over(t)
  /\ entry' = [entry EXCEPT ![t] = "settled"]
  /\ actor' = "running"
  /\ UNCHANGED <<failure, closing, actor_shutdown, cancel>>
  /\ UNCHANGED <<callVars, closure, result, claimed, handle, events,
                 running_blocking_tasks, own, expired>>

\* The task is joined; a failure nobody has claimed stops the actor.
Reaped(t) ==
  /\ entry[t] = "reaping" /\ Over(t)
  /\ IF Failed(t) /\ ~Claimed(t)
     THEN /\ failure' = {t}
          /\ actor_shutdown' = TRUE
          /\ CloseAndTakeAll([entry EXCEPT ![t] = "settled"])
     ELSE /\ entry' = [entry EXCEPT ![t] = "settled"]
          /\ actor' = "running"
          /\ UNCHANGED <<failure, closing, actor_shutdown, cancel>>
  /\ UNCHANGED <<callVars, closure, result, claimed, handle, events,
                 running_blocking_tasks, own, expired>>

\* The future of the actor is ready.
ActorReturns ==
  /\ actor = "running" /\ ~InCall
  /\ own' \in {"ok", "err"}
  /\ CloseAndTakeAll(entry)
  /\ UNCHANGED <<callVars, closure, result, claimed, handle, events,
                 running_blocking_tasks, actor_shutdown, expired, failure>>

\* Somebody asks the actor to stop.
ShutdownActor ==
  /\ actor = "running" /\ ~actor_shutdown
  /\ actor_shutdown' = TRUE
  /\ UNCHANGED <<callVars, closure, result, entry, cancel, claimed, handle,
                 events, running_blocking_tasks, actorVars>>

\* finish takes the entries in the order of a HashMap.  After the deadline an
\* entry is given up without a look at its task.
AwaitEntry(t) ==
  /\ actor = "finishing" /\ entry[t] = "draining"
  /\ \A u \in Tasks : entry[u] # "awaiting"
  /\ IF expired
     THEN entry' = [entry EXCEPT ![t] = "abandoned"] /\ Abort(t)
     ELSE entry' = [entry EXCEPT ![t] = "awaiting"] /\ UNCHANGED <<closure, permits>>
  /\ UNCHANGED <<call, result, cancel, claimed, handle, events,
                 running_blocking_tasks, actor_shutdown, actorVars>>

\* record_failure keeps the first.
RecordFailure(t) ==
  failure' = IF failure = {} /\ Failed(t) /\ ~Claimed(t) THEN {t} ELSE failure

Joined(t) ==
  /\ entry[t] = "awaiting" /\ Over(t)
  /\ entry' = [entry EXCEPT ![t] = "settled"]
  /\ RecordFailure(t)
  /\ UNCHANGED <<callVars, closure, result, cancel, claimed, handle, events,
                 running_blocking_tasks, actor, closing, actor_shutdown, own,
                 expired>>

Deadline ==
  /\ actor = "finishing" /\ ~expired
  /\ expired' = TRUE
  /\ UNCHANGED <<callVars, closure, result, entry, cancel, claimed, handle,
                 events, running_blocking_tasks, actor, closing, actor_shutdown,
                 own, failure>>

\* Mutation: a closure that has not returned is waited for.
GiveUpReturned(t) ==
  /\ entry[t] = "awaiting" /\ expired /\ Over(t)
  /\ entry' = [entry EXCEPT ![t] = "abandoned"]
  /\ Abort(t)
  /\ UNCHANGED <<call, result, cancel, claimed, handle, events,
                 running_blocking_tasks, actor_shutdown, actorVars>>

GiveUp(t) ==
  /\ entry[t] = "awaiting" /\ expired
  /\ entry' = [entry EXCEPT ![t] = "abandoned"]
  /\ Abort(t)
  /\ UNCHANGED <<call, result, cancel, claimed, handle, events,
                 running_blocking_tasks, actor_shutdown, actorVars>>

\* What the actor answers: its own error before that of a blocking task.
Outcome == IF own # "err" /\ failure = {} THEN "ok" ELSE "err"

End ==
  /\ actor = "finishing"
  /\ \A t \in Tasks : entry[t] \notin {"draining", "awaiting"}
  /\ actor' = "ended"
  /\ UNCHANGED <<callVars, closure, result, entry, cancel, claimed, handle,
                 events, running_blocking_tasks, closing, actor_shutdown, own,
                 expired, failure>>

\* The actor panics where it is polled, or its task is aborted at an await.
LoseActor ==
  /\ actor \in {"running", "reaping", "finishing"} /\ ~InCall
  /\ Lose
  /\ UNCHANGED <<callVars, closure, result, cancel, claimed, handle, events,
                 running_blocking_tasks, actor_shutdown>>

-----------------------------------------------------------------------------
Caller(t) ==
  \/ Admit(t) \/ Insert(t) \/ Started(t)
  \/ CancelHandle(t) \/ DropHandle(t) \/ Wait(t) \/ DropWait(t) \/ Answer(t)

Closure(t) == Run(t) \/ Return(t) \/ Report(t) \/ Exit(t)

Loop(t) == Reaped(t) \/ AwaitEntry(t) \/ Joined(t) \/ GiveUp(t)

Next ==
  \/ \E t \in Tasks : Caller(t) \/ Closure(t) \/ Loop(t)
  \/ Reap \/ ActorReturns \/ ShutdownActor \/ Deadline \/ End \/ LoseActor

Spec == Init /\ [][Next]_vars

\* The runtime polls a task that can go on, a thread that has begun to return
\* does so, and time passes.  Nothing makes a closure start or return, nor the
\* future of the actor.
FairSpec ==
  /\ Spec
  /\ WF_vars(Reap) /\ WF_vars(Deadline) /\ WF_vars(End)
  /\ \A t \in Tasks :
       /\ WF_vars(Insert(t)) /\ WF_vars(Started(t))
       /\ WF_vars(Report(t) \/ Exit(t))
       /\ WF_vars(Loop(t))

-----------------------------------------------------------------------------
(* Properties. *)

\* The variables hold what the program keeps in them.
TypeOK ==
  /\ call \in [Tasks -> {"idle", "admitted", "inserted", "returned", "panicked",
                         "shutting_down", "at_capacity"}]
  /\ closure \in [Tasks -> {"none", "queued", "running", "returned", "reported",
                            "exited", "panicked", "dropped"}]
  /\ result \in [Tasks -> Results]
  /\ permits \in 0..Limit
  /\ entry \in [Tasks -> {"none", "kept", "reaping", "draining", "awaiting",
                          "settled", "abandoned", "lost"}]
  /\ cancel \subseteq Tasks /\ claimed \subseteq Tasks
  /\ handle \in [Tasks -> {"none", "held", "waiting", "answered",
                           "unavailable", "dropped"}]
  /\ events \in Seq(Tasks)
  /\ running_blocking_tasks \in Int
  /\ actor \in {"running", "reaping", "finishing", "ended", "lost"}
  /\ closing \in BOOLEAN /\ actor_shutdown \in BOOLEAN /\ expired \in BOOLEAN
  /\ own \in {"none", "ok", "err"}
  /\ failure \subseteq Tasks /\ Cardinality(failure) <= 1

Live(t) == closure[t] # "none" /\ ~Over(t)

\* max_blocking_tasks bounds the closures that exist, those detached by the
\* deadline or left by a lost actor included: the permit lives in the closure.
LimitHolds ==
  permits + Cardinality({t \in Tasks : Live(t)}) = Limit

\* What finish is for (blocking.rs, finish, close_and_take_all): when the task
\* of the actor has ended, each closure its future has started is over, or was
\* told to stop and was still given the whole timeout.
EndedActorOwnsNothing ==
  actor = "ended" =>
    \A t \in Tasks \ Shared :
      Live(t) => t \in cancel /\ expired /\ entry[t] = "abandoned"

\* A failed task of the actor whose handle was dropped is treated as a failure
\* of the actor (context.rs, spawn_blocking): the actor ends well only if each
\* failure was claimed by a wait, or its task given up at the deadline.
NoFailureIsLost ==
  actor = "ended" /\ Outcome = "ok" =>
    \A t \in Tasks \ Shared :
      Failed(t) => t \in claimed \/ entry[t] = "abandoned"

\* What run_blocking and wait promise (context.rs, blocking.rs): the failure a
\* handle has returned is handled, and does not fail the actor, too.  It holds
\* for the handles the future of the actor waits on.
HandledFailureIsNotReported ==
  \A t \in failure \ Shared : handle[t] \notin {"answered", "unavailable"}

\* What the limit counts (builder.rs, "active blocking tasks"): a call is
\* rejected for it only while so many tasks are active, and one whose wait has
\* returned is not.  The code does not keep to this.
OnlyActiveTasksCount ==
  [][\A t \in Tasks :
       call[t] # "at_capacity" /\ call'[t] = "at_capacity" =>
         Cardinality({u \in Tasks : Live(u) /\ handle[u] # "answered"})
           = Limit]_vars

\* A failure that nobody has claimed stops the actor without waiting for its
\* future, in spite of what the events, the calls and the other tasks do.
FailureStopsActor ==
  \A t \in Tasks \ Shared :
    (closure[t] = "exited" /\ Failed(t) /\ t \notin claimed)
      ~> (t \in claimed \/ actor \in {"ended", "lost"})

\* blocking_shutdown_timeout bounds the end of the actor: no closure that hangs
\* holds it.
FinishEnds == (actor = "finishing") ~> (actor \in {"ended", "lost"})

=============================================================================
