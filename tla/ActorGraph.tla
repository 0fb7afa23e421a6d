------------------------------- MODULE ActorGraph -------------------------------
(***************************************************************************)
(* The runs of one Graph (crates/tokio-actor/src/graph.rs), whose clones   *)
(* share the state and the mailbox bindings, and the supervised child that *)
(* runs a whole graph (crates/tokio-otp/src/supervised_graph.rs).          *)
(*                                                                         *)
(* Each call of run_until is a member of Runs.  Its future may be dropped  *)
(* while it waits for its actors, as the abort of a supervised child does. *)
(* The JoinSet then aborts the actors and does not wait for them: an       *)
(* aborted task is dropped by the runtime some time later.                 *)
(***************************************************************************)
EXTENDS Integers, FiniteSets

CONSTANTS
  Actors,    \* the actors of the graph
  Runs,      \* the calls of run_until
  None       \* no run

ASSUME GraphAssumption ==
  /\ IsFiniteSet(Actors) /\ Actors # {}
  /\ None \notin Runs

VARIABLES
  state,              \* the AtomicU8 of GraphInner
  phase,              \* where each call of run_until is
  bound,              \* whose mailbox the binding of each actor shows
  task,               \* the task of each actor in each run
  exit,               \* how it ended
  cancelled,          \* the shutdown token of each run
  cause,              \* why its shutdown was asked for, as it is reported
  shutdown_requested, \* the run has seen its shutdown future resolve
  failure,            \* the error each run will return
  running_actors      \* the counter the gauge is set from

taskVars == <<task, exit>>
runVars == <<cancelled, cause, shutdown_requested, failure>>
vars == <<state, phase, bound, task, exit, cancelled, cause, shutdown_requested,
          failure, running_actors>>

Init ==
  /\ state = "idle"
  /\ phase = [r \in Runs |-> "new"]
  /\ bound = [a \in Actors |-> None]
  /\ task = [r \in Runs |-> [a \in Actors |-> "none"]]
  /\ exit = [r \in Runs |-> [a \in Actors |-> "none"]]
  /\ cancelled = [r \in Runs |-> FALSE]
  /\ cause = [r \in Runs |-> "none"]
  /\ shutdown_requested = [r \in Runs |-> FALSE]
  /\ failure = [r \in Runs |-> "none"]
  /\ running_actors = 0

-----------------------------------------------------------------------------
\* bind_mailboxes: send_replace does not look at what was bound.
BindMailboxes(r) == bound' = [a \in Actors |-> r]

\* Dropping a guard clears the binding, whatever the binding shows.
DropGuard(a) == bound' = [bound EXCEPT ![a] = None]

\* spawn_actors, in the order of the graph; emit_actor_started counts each.
SpawnActors(r) ==
  /\ task' = [task EXCEPT ![r] = [a \in Actors |-> "running"]]
  /\ running_actors' = running_actors + Cardinality(Actors)

\* emit_actor_exited
CountExit == running_actors' = running_actors - 1

\* ActiveRun::start refuses: another run, or the graph is an actor set now.
Refuse(r) ==
  /\ phase[r] = "new" /\ state # "idle"
  /\ phase' = [phase EXCEPT ![r] = "refused"]
  /\ UNCHANGED <<state, bound, running_actors, taskVars, runVars>>

\* Mutation: the state is stored without a look at it.
StartUnchecked(r) ==
  /\ phase[r] = "new" /\ state # "decomposed"
  /\ state' = "running"
  /\ phase' = [phase EXCEPT ![r] = "joining"]
  /\ BindMailboxes(r)
  /\ SpawnActors(r)
  /\ UNCHANGED <<exit, runVars>>

\* Every mailbox is bound before the first actor is spawned; up to its first
\* await the run cannot be dropped.
Start(r) ==
  /\ phase[r] = "new" /\ state = "idle"
  /\ state' = "running"
  /\ phase' = [phase EXCEPT ![r] = "joining"]
  /\ BindMailboxes(r)
  /\ SpawnActors(r)
  /\ UNCHANGED <<exit, runVars>>

\* into_actor_set, on a clone: mark_decomposed.
Decompose ==
  /\ state = "idle"
  /\ state' = "decomposed"
  /\ UNCHANGED <<phase, bound, running_actors, taskVars, runVars>>

\* The task of an actor ends, after its blocking tasks, and its guard
\* goes with it.
ActorEnds(r, a) ==
  /\ task[r][a] = "running"
  /\ task' = [task EXCEPT ![r][a] = "ended"]
  /\ \E how \in {"ok", "err", "panic"} : exit' = [exit EXCEPT ![r][a] = how]
  /\ DropGuard(a)
  /\ UNCHANGED <<state, phase, running_actors, runVars>>

\* An aborted task is dropped, and its guard with it.
AbortedEnds(r, a) ==
  /\ task[r][a] = "aborted"
  /\ task' = [task EXCEPT ![r][a] = "gone"]
  /\ DropGuard(a)
  /\ UNCHANGED <<state, phase, exit, running_actors, runVars>>

\* ActorTaskExit::status, and classify_join for a panic: what is reported of an
\* actor that was joined.
ExitStatus(r, a) ==
  CASE exit[r][a] = "ok" /\ shutdown_requested[r] -> "shutdown"
    [] exit[r][a] = "ok" /\ ~shutdown_requested[r] -> "stopped"
    [] exit[r][a] = "err" -> "failed"
    [] exit[r][a] = "panic" -> "panicked"

\* Mutation: an actor that stops by itself does not fail the graph.
FailureIfBad(r, a) ==
  IF ExitStatus(r, a) \in {"shutdown", "stopped"} THEN "none" ELSE ExitStatus(r, a)

\* classify_actor_exit: the error the run owes to it.
FailureOf(r, a) ==
  IF ExitStatus(r, a) = "shutdown" THEN "none" ELSE ExitStatus(r, a)

\* ActorTaskExit::shutdown_cause, graph_shutdown_cause_for_error
ShutdownCause(r, a) ==
  IF ExitStatus(r, a) = "shutdown" THEN "external" ELSE ExitStatus(r, a)

\* Mutation: it does not look whether the shutdown was asked for before.
RequestAgain(r, why) ==
  /\ cancelled' = [cancelled EXCEPT ![r] = TRUE]
  /\ cause' = [cause EXCEPT ![r] = why]

\* request_shutdown reports the first cause and cancels the token.
RequestShutdown(r, why) ==
  /\ cancelled' = [cancelled EXCEPT ![r] = TRUE]
  /\ cause' = [cause EXCEPT ![r] = IF cancelled[r] THEN @ ELSE why]

\* Mutation: a panicked actor is reported by classify_join and by its caller.
SettleTwice(r, a) ==
  /\ phase[r] = "joining" /\ task[r][a] = "ended"
  /\ task' = [task EXCEPT ![r][a] = "joined"]
  /\ running_actors' = running_actors - (IF exit[r][a] = "panic" THEN 2 ELSE 1)
  /\ UNCHANGED <<state, phase, bound, exit, shutdown_requested>>

\* A joined actor is reported as exited, whichever way it ended.
Settle(r, a) ==
  /\ phase[r] = "joining" /\ task[r][a] = "ended"
  /\ task' = [task EXCEPT ![r][a] = "joined"]
  /\ CountExit
  /\ UNCHANGED <<state, phase, bound, exit, shutdown_requested>>

\* Mutation: a clean exit leaves the others running.
JoinGentle(r, a) ==
  /\ Settle(r, a)
  /\ IF exit[r][a] # "ok"
     THEN RequestShutdown(r, ShutdownCause(r, a))
     ELSE UNCHANGED <<cancelled, cause>>
  /\ failure' = [failure EXCEPT ![r] = IF @ = "none" THEN FailureOf(r, a) ELSE @]

\* The first failure is kept, and the others are told to stop.
Join(r, a) ==
  /\ Settle(r, a)
  /\ IF ~shutdown_requested[r] \/ exit[r][a] # "ok"
     THEN RequestShutdown(r, ShutdownCause(r, a))
     ELSE UNCHANGED <<cancelled, cause>>
  /\ failure' = [failure EXCEPT ![r] = IF @ = "none" THEN FailureOf(r, a) ELSE @]

\* The shutdown future resolves; an actor that has ended is looked at first.
ShutdownFuture(r) ==
  /\ phase[r] = "joining" /\ ~shutdown_requested[r]
  /\ \E a \in Actors : task[r][a] # "joined"
  /\ \A a \in Actors : task[r][a] # "ended"
  /\ shutdown_requested' = [shutdown_requested EXCEPT ![r] = TRUE]
  /\ RequestShutdown(r, "external")
  /\ UNCHANGED <<state, phase, bound, failure, running_actors, taskVars>>

\* Mutation: the run returns with the first failure.
ReturnEarly(r) ==
  /\ phase[r] = "joining"
  /\ failure[r] # "none" \/ \A a \in Actors : task[r][a] = "joined"
  /\ phase' = [phase EXCEPT ![r] = "returned"]
  /\ state' = "idle"
  /\ UNCHANGED <<bound, running_actors, taskVars, runVars>>

\* The JoinSet is empty; ActiveRun is dropped.
Return(r) ==
  /\ phase[r] = "joining"
  /\ \A a \in Actors : task[r][a] = "joined"
  /\ phase' = [phase EXCEPT ![r] = "returned"]
  /\ state' = "idle"
  /\ UNCHANGED <<bound, running_actors, taskVars, runVars>>

\* The future of run_until is dropped: the JoinSet with it, then ActiveRun.
\* No actor is reported as exited.
DropRun(r) ==
  /\ phase[r] = "joining"
  /\ phase' = [phase EXCEPT ![r] = "dropped"]
  /\ task' = [task EXCEPT ![r] = [a \in Actors |->
                IF @[a] = "running" THEN "aborted" ELSE @[a]]]
  /\ state' = "idle"
  /\ UNCHANGED <<bound, exit, running_actors, runVars>>

-----------------------------------------------------------------------------
RunUntil(r) ==
  \/ Refuse(r) \/ Start(r) \/ ShutdownFuture(r) \/ Return(r) \/ DropRun(r)

Actor(r, a) == ActorEnds(r, a) \/ AbortedEnds(r, a) \/ Join(r, a)

Next ==
  \/ \E r \in Runs : RunUntil(r) \/ \E a \in Actors : Actor(r, a)
  \/ Decompose

Spec == Init /\ [][Next]_vars

\* An actor looks at its token, an aborted task is dropped, and the run is
\* polled.
FairSpec ==
  /\ Spec
  /\ \A r \in Runs :
       /\ WF_vars(Return(r))
       /\ \A a \in Actors :
            /\ WF_vars(cancelled[r] /\ ActorEnds(r, a))
            /\ WF_vars(AbortedEnds(r, a)) /\ WF_vars(Join(r, a))

-----------------------------------------------------------------------------
(* Properties. *)

\* The variables hold what the program keeps in them.
TypeOK ==
  /\ state \in {"idle", "running", "decomposed"}
  /\ phase \in [Runs -> {"new", "refused", "joining", "returned", "dropped"}]
  /\ bound \in [Actors -> Runs \cup {None}]
  /\ task \in [Runs -> [Actors -> {"none", "running", "ended", "joined",
                                   "aborted", "gone"}]]
  /\ exit \in [Runs -> [Actors -> {"none", "ok", "err", "panic"}]]
  /\ cancelled \in [Runs -> BOOLEAN] /\ shutdown_requested \in [Runs -> BOOLEAN]
  /\ failure \in [Runs -> {"none", "stopped", "failed", "panicked"}]
  /\ cause \in [Runs -> {"none", "external", "stopped", "failed", "panicked"}]
  /\ running_actors \in Nat

Undisturbed(r) == \A q \in Runs \ {r} : phase[q] # "dropped"

\* What AlreadyRunning and the state promise (graph.rs): the actors of a run
\* that was not dropped are alone, and senders reach each of them while it
\* lives.
RunIsAlone ==
  \A r \in Runs : \A a \in Actors :
    phase[r] = "joining" /\ Undisturbed(r) =>
      /\ bound[a] = IF task[r][a] = "running" THEN r ELSE None
      /\ \A q \in Runs \ {r} : task[q][a] \in {"none", "joined"}

\* The same of every run, as Graph documents its bindings for reruns
\* (graph.rs:126).  The code keeps to it only while no run is dropped.
RunningActorIsBound ==
  \A r \in Runs : \A a \in Actors :
    phase[r] = "joining" /\ task[r][a] = "running" => bound[a] = r

\* A run answers Ok only if it was asked to stop and every actor then returned
\* Ok; one actor that stops by itself fails it (graph.rs, run_until).
OkMeansAskedAndClean ==
  \A r \in Runs :
    phase[r] = "returned" /\ failure[r] = "none" =>
      shutdown_requested[r] /\ \A a \in Actors : exit[r][a] = "ok"

\* The cause that is reported (observability.rs, emit_shutdown_requested) and
\* the error the run will return name the same actor's end: the run was asked to
\* stop from outside, or because of what it fails with.
CauseIsFailure ==
  \A r \in Runs : cause[r] \in {"none", "external"} \/ failure[r] = cause[r]

\* A run returns when every actor is over: it leaves no task, no binding and
\* no running actor in the gauge behind.
ReturnLeavesNothing ==
  (\A r \in Runs : phase[r] \in {"new", "refused", "returned"}) =>
    /\ running_actors = 0
    /\ \A a \in Actors : bound[a] = None
    /\ \A r \in Runs : \A a \in Actors : task[r][a] \in {"none", "joined"}

\* Nothing an actor does leaves the rest of its graph running: when one has
\* ended the run comes to an end.
OneEndEndsRun ==
  \A r \in Runs : \A a \in Actors :
    (phase[r] = "joining" /\ task[r][a] = "ended")
      ~> phase[r] \in {"returned", "dropped"}

=============================================================================
