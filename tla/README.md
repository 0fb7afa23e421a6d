# Verification of tokio-otp

TLA+ specifications of the crates of this repository, the TLC configurations
that model-check them and the proofs that TLAPS checks. Paths are relative to
the repository root; `supervision.rs` is
`crates/tokio-supervisor/src/runtime/supervision.rs`, and "the runtime's
`shutdown.rs`" is the file of that name beside it.

| file | content |
|---|---|
| `ChildTable.tla` | the supervisor's bookkeeping: slab, indexes, counters, `JoinSet` |
| `Supervisor.tla` | the supervisor task and its nested handlers, its children and its clients |
| `SupervisorMC.tla`, `OneForOne.cfg`, `OneForAll.cfg`, `Recycling.cfg`, `Panic.cfg` | small instances of `Supervisor` |
| `RestartTracker.tla`, `RestartTracker.cfg` | the restart limiter and the backoff delays |
| `Nested.tla`, `NestedMC.tla`, `Nested.cfg` | a supervisor run as a child of another one: token, watch, control path, events, coalesced snapshots |
| `SnapshotView.tla` | what the row of a nested supervisor promises; `Nested` implements it |
| `Completion.tla` | how the end of a supervisor reaches those who wait for it |
| `Runtime.tla`, `RuntimeMC.tla`, `Runtime.cfg`, `RuntimeLiveness.cfg` | actors added and removed over registry and supervisor, with `Completion` |
| `Builders.tla` | what the builders of the three crates accept and build |
| `Mailbox.tla`, `MailboxMC.tla`, `Mailbox.cfg`, `Orphan.cfg` | the mailbox of an actor over its runs, and the handles that send to it |
| `BlockingTasks.tla`, `BlockingTasks.cfg` | the blocking tasks of an actor, and the loop of its task that owns them |
| `ActorGraph.tla`, `ActorGraph.cfg` | the runs of a graph of actors |
| `ChildTable_proofs.tla`, `Supervisor_proofs.tla` | the supervisor's bookkeeping is right, and nothing is spawned after a shutdown began |
| `RestartTracker_proofs.tla` | the limiter is exact, the delay follows the policy |
| `Mailbox_proofs.tla` | the binding follows the active run, and envelopes are accepted once |
| `BlockingTasks_proofs.tla` | the limit holds, an ended actor owns nothing, failures are handled once |
| `ActorGraph_proofs.tla` | what a run answers is what its actors did, and it leaves nothing behind |
| `Nested_proofs.tla` | the path leads to its owner, no snapshot is forgotten, the row is a view |
| `Runtime_proofs.tla` | waiters agree, the registry leads to every supervised actor, what was built can be run |
| `PROJECT.json` | components, runs, mutants, the map from definitions to source lines, findings, hazards, theorems |

## The system

The repository has four crates. `tokio-supervisor` starts, restarts, adds,
removes and stops child tasks, Erlang style. `tokio-actor` runs static graphs of
actors over mailboxes that survive a restart. `tokio-otp` puts actors under
supervisors. `tokio-otp-console` shows a supervisor in a browser.

### Components, their state and what makes them correct

**Child table** (`supervision.rs`, `spawn.rs`, `child_runtime.rs`).
State: a slab of entries (id, instance, generation, state, membership, token and
abort handle), `children_by_id`, `child_order`, the counters `running_children`
and `live_tasks`, the `JoinSet` and the group token. Operations: insert, spawn,
join, record a terminal status, cancel one child or all, abort, mark for
removal, finalize. Correct if the counters never miss a child, an exit is
attributed to the child it belongs to although slots are recycled and tasks are
superseded, and the indexes agree.

**Supervisor task** (`supervision.rs`, the runtime's `shutdown.rs`,
`supervisor.rs`). One tokio task that runs a biased `select!` over the shutdown
watch, the command channel, nested snapshots and the `JoinSet`. Its handlers are
async and *nest*: while a restart waits for its backoff, commands are handled;
while a removal waits for its child, exits are handled, and such an exit can
start another restart. Correct if nothing is spawned once the shutdown began, a
group restart does not overlap two generations, a natural exit leaves no child
behind, every accepted command is answered, and a shutdown request is always
honoured.

**Restart limiter** (`intensity.rs`, `restart.rs`). A deque of restart instants
per child, a limit and a backoff policy. Correct if a restart is refused exactly
when `max_restarts + 1` of them fall into one window, and the delay follows the
policy without passing its maximum.

**Handle** (`handle.rs`). Senders to the supervisor, the shared `done` watch and
the join handle that the first `wait` takes. Correct if commands are answered
and every `wait` sees the result.

**Nested control registry** (`handle.rs`). A map from path to control endpoint;
a nested supervisor registers itself, and its registration removes the path when
dropped. Correct if the path always leads to the present generation.

**Nested supervisors** (`supervisor.rs`). A supervisor run as a child of
another: token to shutdown, result to exit status, snapshots and events
forwarded. Correct if a parent's shutdown stops the whole tree and no inner
supervisor outlives its child task unnoticed.

**Nested snapshots** (`snapshot.rs`, `supervision.rs`). A value cell, a `queued`
flag and a notification channel shared by forwarder and parent. Correct if the
parent eventually shows the last snapshot of the present generation.

**Events** (`event.rs`). A bounded broadcast; a parent forwards the events of its
nested supervisor and may lose some to a lag.

**Builders and specs** (`builder.rs`, `child.rs`, `context.rs`, `strategy.rs` of
`tokio-supervisor`; `builder.rs` of `tokio-actor`; `supervised_actors.rs`). Correct if
what they accept can be run: no later step finds it inconsistent.

**Observability** (`observability.rs`). Logging and metrics. Two counters of
`tokio-actor` are read back into the gauges they set, and their arithmetic can
overflow.

**Mailbox bindings and ingress** (`tokio-actor`: `binding.rs`, `ingress.rs`),
**actor context** (`context.rs`, `envelope.rs`, `actor.rs`). A watch that holds
the mailbox of the running actor; senders that keep an envelope over a restart
and deliver it to the next one. Correct if no accepted envelope is lost between
two bindings, none is delivered twice and a waiting sender is woken.

**Runnable actors** (`actor_set.rs`). One run of an actor under a token, with
its binding and its blocking tasks. Correct if a run has ended, and unbound its
mailbox, before the next one begins.

**Blocking tasks** (`blocking.rs`). Admission, a table of running tasks,
completion events and claims on results. Correct if every task is settled once,
a failure reaches either its claimant or its actor, and shutdown waits for all.

**Actor graph, registry, builders** (`graph.rs`, `registry.rs`, `builder.rs`). A
set of runs with fail-fast shutdown; the names of actors. Correct if the first
failure is what the graph reports and all actors are stopped.

**Otp runtime** (`tokio-otp`: `runtime.rs`, `supervised_actors.rs`,
`supervised_graph.rs`). `add_actor` and `remove_actor` change the registry and
the supervisor in two steps. Correct if both agree in the end.

**Console** (`tokio-otp-console`). HTTP and WebSocket views; input and output
only.

### How they interact, and what is hard

Clients reach a supervisor through a bounded command channel with a one-shot
reply; shutdown is a watch; children are tasks with a token and an abort handle,
and report by ending. The hard behaviours are the interleavings of exits,
commands, deadlines and shutdown requests at the awaits of nested handlers;
recycled slots and superseded tasks; cancellation that must reach some tasks and
not others; counters adjusted in six places; deadlines that race what they wait
for. Nothing is persisted and no message is lost or reordered in a channel, so
there is no crash recovery; what comes closest is the restart of a child, and
the drop of futures and handles. The list, line by line, is `hazards` in
`PROJECT.json`.

## The model of the supervisor

### ChildTable

A table is one record, and every synchronous helper of `SupervisorRuntime` is an
operator from table to table: `InsertChild`, `SpawnChildren` (`spawn_child` for
a set of keys), `JoinChild` (`consume_joined_child` with `record_exit`),
`RecordTerminal`, `MarkRemoving` (the first half of `remove_child`),
`FinalizeRemoved`, `CancelChild`, `AbortChildren`, `CancelRunningChildren`. The
arithmetic is the saturating arithmetic of the code. The slab is modelled with
its LIFO free list: a vacated key is what the next insertion gets, and this is
what several of the hazards are about.

A task keeps the key, the instance and the generation of the envelope it will
return, its status, and whether its token was cancelled and its abort handle
used. A task stays in `join_set` until the supervisor joins it, superseded or
not. `IsCurrent` is `current_child_matches`.

Left out, with no effect on what follows: the order inside `child_order` (it
decides the order of events and rows), `RuntimeChildState::Starting` (set and
replaced in one stretch of code), `task_map` (it repeats the envelope for tasks
that panicked), exit views, snapshots and events.

### Supervisor

`stack` is the chain of suspended async functions, the running one first. Its
frames are the awaits of the code:

| frame | where the code is |
|---|---|
| `start` | `run`, before the children are spawned |
| (empty) | the `select!` of `run` |
| `delay`/`yield`, `poll`, `timer` | `wait_for_restart_delay`: the yield of a zero delay, its `try_recv` loop, the `select!` with the timer |
| `remove`/`await`, `detach` | `await_child_removal`; `abort_and_detach_child` after its yield |
| `drain`/`abort`, `wait`, `final` | `drain_children`: after aborting `Abort` children, in the graceful wait, after aborting the rest |

Each action is the code from one await to the next, with every call it makes:
`HandleJoinedChild` joins the task, records the restart, asks the limiter and
pushes a frame or raises the error to the handler below, all in one step.
`ReceiveCommand` is the command arm wherever it appears. A biased `select!` is
one look at its arms in order, so a later arm has the negated readiness of the
earlier ones as its guard.

`Finish` is the end of `run` or its panic: the runtime is dropped, so the
channel closes, buffered commands lose their reply sender (`Unavailable`) and
`JoinSet` aborts its tasks. After a shutdown drain the suspended handlers unwind without another await, each by
its look at `pending_exit` (`supervision.rs:525`, `829`, `852`); `DrainOk` takes this in one step, so
that a look that was missing would be a different `DrainOk`, such as its mutation, which goes on with the
restart below. `Raise` is an `Err` that travels through the
suspended handlers: `remove_child` catches it and replies it to its client,
anything else passes it on.

The environment: a child's future may end with or without failure at any moment,
or never (it may ignore its token: only an abort, taken at a poll boundary, is
certain to be possible); clients send one command each, chosen from `Requests`;
shutdown may be requested, or the last handle dropped.

Abstractions, all of them towards more behaviours:

* Time is not measured. A deadline the code waits for (backoff, grace) may pass
  at any moment of the wait.
* Whether the limiter refuses is left open as soon as the total of restarts of
  this instance exceeds `MaxRestarts`: the window may or may not have slid. What
  the limiter itself does is `RestartTracker`. `RestartBound` ends the
  histories in which it never refuses.
* A zero delay is a constant of the id (`ZeroDelay`).
* Whether a `debug!` argument is evaluated is a constant (`DebugEnabled`): with a
  subscriber that enables debug level, the slab index in the argument of a log
  line of the group restart panics for a removed key.

## The model of the restart limiter

`RestartTracker` is `record`, `exceeded` and `backoff` of `intensity.rs` on a
discrete monotonic clock. The child fails at any time after its restart; every
recorded instant goes into the auxiliary `history`, which the code does not
have. `saturating_mul` stops at `DurationMax`; jitter is a choice from the
range.

## The model of the mailbox

`Mailbox` is one `RunnableActor` over its runs. Each call of `run_until` is a
member of `Runs`, and `phase` says where it is:

| phase | where the code is |
|---|---|
| `idle`, `refused` | not called; ended by `AlreadyRunning` |
| `started` | `running` is set, nothing is bound |
| `active` | the mailbox is bound, the task spawned, and `run_until` is in its `select!` loop |
| `unbound` | `bound_mailbox` is dropped, `_active_run` is not |
| `returned` | both guards are dropped |

`run_until` may be called from several threads, so the steps between its awaits
are separate where another call can see the difference: the flag is taken before
the binding is set, and given back after the binding is cleared. `Joined` leaves
the loop because the task has ended. `Dropped` is the drop of the future at its
one await, which is what the abort of a supervised child does: the locals go
in the reverse order of their declaration, the `JoinHandle` first, with the
future of `join` that took it, so that the task is detached.

`task` is the task that the call spawned: the actor's future runs, has ended
while `blocking.finish` waits (`finishing`), or the task has ended. The receiver
(`open`) goes with the actor's context when the future returns; after an
unclaimed failure of a blocking task, which breaks the loop around the future,
it goes only with the task.

A sender is one call of `send`, `try_send` (which `blocking_send` is) or
`send_when_ready`, of an `IngressHandle` or an `ActorRef`. It looks at the
binding and `held` is the mailbox it clones there; between the look and the
answer of the channel the actor may be restarted any number of times. A
`send_when_ready` whose mailbox was closed waits until *some* mailbox is bound.
Meanwhile it keeps the closed one, which is dropped with the arm of the `match`, after
the wait. As the binding is cleared only after the task was joined, it may find the closed one
again, and go round without a pause until then; hence no liveness is claimed for it. `Abandon` is a `send_when_ready` of an actor's context, whose own
shutdown it races. A caller that drops its own future is otherwise not in the
model.

`accepted` is the history of what entered each mailbox and `received` how far the
actor got. Envelopes are accepted into a bounded FIFO; what is buffered when a
receiver goes is lost with it, which the code accepts: `Ok` means accepted,
not received.

## The model of nested supervisors

`Nested` is a supervisor in which one child is a supervisor. An *incarnation* is one
instance and generation of its entry, and consists of the entry of the parent
(`fate`), the task of `run_as_child` (`child`) and the inner supervisor, which runs in
a task of its own (`inner`). The parent spawns, cancels, aborts, joins and detaches
the child at any moment its own protocol allows; the inner supervisor publishes,
and ends when it likes or is told.

`spawn_child` does not look for a task that is still there. `Restart` is a restart whose
delay began with an earlier occupant of the slot (`restarts` counts those that are
suspended there): it spawns whatever entry it finds, a second time if that entry has a task.
The earlier task is then `superseded`: the entry has the token, the generation and the abort
handle of the later one, its exit is of an old generation, and only its group or the
`JoinSet` can still stop it. `Lost` is what a detach and a second spawn have in common.

`run_as_child` is one action per arm of its biased `select!`, each guarded by the
negation of the arms before it. Its forwarding of a snapshot is split at the atomic
operations (`Replace`, `TryQueue`), which the parent's `Dequeue` and `ReadLatest`
(`handle_nested_snapshot`) interleave with on another thread; a full channel hands the
notification to a spawned sender (`waiting`, `WaiterSends`), which may deliver it to
the next incarnation. `Dropped` is the drop of an aborted task at an await, with its
registration and its handle; `Told` is what the inner supervisor makes of its watch, where a
dropped sender counts as a request. `Publish` and
`SendEvent` are the two steps of the inner supervisor's `send_event`. The broadcast of events is
reduced to positions: an event that was overwritten is skipped with the lag notice.

The variables of an incarnation that nobody can read any longer are reset
(`Forget`), which only merges states.

`SnapshotView` is the abstract specification of a row: an owner begins, writes and
ends; the view shows ever later states of the present owner, and in the end the last.
`ShowsInner == View!Spec`, its fairness included, is checked as a property of `Nested`
with the refinement mapping owner = the live incarnation, written = its published
version, shown = the row.

## The model of the runtime handle and of wait

`Completion` is `SupervisorHandle::wait`: the early look at the done channel, the
first caller that takes the `JoinHandle` with a sender, the others that watch, and the
drop of any of these futures. It also has its own initial state and next-state
relation, which `Runtime` implements (`ImplementsCompletion`).

`Runtime` is `RuntimeHandle` of `tokio-otp`. Each member of `Calls` is one call of
`add_actor`, `remove_actor`, `add_child`, `remove_child` (the last two stand for their
`try_` variants, too) or `wait`, of any id: nothing in the code keeps the ids of actors and
of plain children apart (`ActorIds` and `PlainIds` only name what was built). `add_actor` looks up its peers and registers its actor up to
the first await, then sends its command; a refusal takes the entry back (`Undo`).
`remove_actor` deregisters after the answer. `Drop` is the drop of a call's future at its
await: its command goes its way, and nothing is undone. The supervisor is reduced to
what the handle sees: a bounded channel that a shutdown, and a group
restart, closes; a table; an answer per command; removals that overlap; an end and a
panic. `took` is auxiliary: what a removal has found under its id, a plain child,
an actor that was built, or one that a call has added. A removal may also take away the child that got its slot meanwhile
(`RemovesOccupant`; see the finding `RunningChildrenExact`). The table has no slots here, so this
child is any one but the actors that were built: more than the code can do, never less.
`Supervisor` has it in full, and its liveness is the fairness assumed here.

`Builders` are pure operators: `BuildGraph`, `FromGraph` (`into_actor_set`),
`BuildSupervisor`, `BuildRuntime`, with their checks in the order of the code and the
first error found. `RuntimeMC` compares them with a reference definition over bounded
inputs (its two `ASSUME`s, evaluated with the runs `Runtime` and `RuntimeLiveness`).

## The model of blocking tasks

`BlockingTasks` is one run of one actor with the calls of `spawn_blocking`, by the actor's own
future or by tasks it shares its context with (`Shared`; only they interleave with
the actor's task). A call is `Admit` (the first lock and the pool), `Insert` (the
second lock, which does not look at `closing` again) and `Started` (the gauge). A
closure is queued, runs, returns, reports (result and completion event) and exits; an
abort reaches it only in the queue. The owner's loop takes completion events
(`Reap`, `Reaped`) and `finish` takes the entries one by one against its deadline
(`AwaitEntry`, `Joined`, `GiveUp`). `LoseActor` is a panic or an abort of the actor's task.
With `OverflowChecks` the gauge's arithmetic panics as a debug build's does:
`emit_blocking_task_finished` may come first.

## The model of the actor graph

`ActorGraph` is the calls of `run_until` of one graph and its clones, with the shared state and
bindings. `Join` is the arm of the `select!` with all it calls: the exit is reported, the first
failure kept, the shutdown requested with its cause. `DropRun` is the drop of the
future: the state is released at once, the aborted actors are dropped some time later
(`AbortedEnds`), each with its guard, which clears whatever is bound. `Decompose` is
`into_actor_set`. The child of `supervised_graph.rs` is such a run; its abort is `DropRun`.

## Runs

| run | question | bounds |
|---|---|---|
| `OneForOne` | the counters, the tasks, the natural exit, no spawn after the shutdown began | 3 ids, one per restart policy and per shutdown mode, all running at first; 2 interchangeable clients, each with one command of any kind about any id; a queue of 2; one granted restart per instance |
| `OneForAll` | group restarts are clean; commands are answered, shutdown completes, handlers return | OneForAll with 2 initial children, no symmetry, one client that removes, and one that removes, or inserts a new id or one that was removed |
| `Recycling` | `RunningIsUndisturbed`, in a removal that has lost its slot, too | OneForOne with the same 3 ids, all of mode Cooperative, of which only `c` is restarted; 4 clients with one fixed command each, remove `a`, remove `b`, add `a`, add `b`; a queue of 1 |
| `RestartTracker` | the limiter is exact, the delay follows the policy and its clamps | window 6, limit 3, delays 2, 5 (clamped from 6), 5 with a saturation at 7, 6 restarts within 14 ticks |
| `Mailbox` | the binding follows the active run, envelopes are accepted once or not at all | 2 calls of `run_until`, capacity 1, one sender per method: `send`, `try_send`, `send_when_ready` with an oversized envelope, `send_when_ready` of an actor |
| `BlockingTasks` | the limit holds, no failure is lost or told twice, the actor ends | 2 calls, one of them shared, a limit of 2, overflow checks on |
| `ActorGraph` | the run's answer, its cause and what it leaves | 2 actors, 2 runs |
| `Nested` | the path, the tree, the row of the child | 2 incarnations, the first with 2 snapshots after its initial one and one restart suspended at its slot, the second with its initial snapshot only; an event channel and a notification channel of one place |
| `Runtime` | registry, roll-back and waiters | 3 calls of any kind about any of 2 ids, of which one is a built actor's and one a built plain child's; a channel of one place |
| `RuntimeLiveness` | calls and waits return | the same with 2 calls |
| `Panic`, `Orphan` | one sentence of a test and of the documentation, which the code violates | see Findings |

Why this is enough: three children are one that fails, one that is removed and
one that stands by, and give each restart policy and each mode its own child;
two commands suffice for a removal and an insertion that recycles its slot, or
two removals nested in one another, with the exits and restarts that the
children contribute at any depth (the stack reaches a drain over a removal over
a removal over a delay). Two commands do not suffice for a removal that waits for a slot
with a new occupant: it takes a removal suspended over a delay, a second one that joins the
first one's child, and an insertion, which is why `Recycling` has four. `ZeroDelay = {"c"}` makes one id take the path without
a timer and the others the path with it. `MaxRestarts = 1` reaches both
answers of the limiter for one instance. Two calls of `run_until`, of an actor or a
graph, are a run and its successor, or its rival. With a capacity of 1, three of the four
senders compete for one place, so that one waits for it over the restart. Two incarnations suffice to leave a
notification, a registration or an inner supervisor behind for the next; one
place makes every second notification wait and every second event overwrite one.
Two blocking tasks are one that fails and one that is in the way, in
every place a task can be; that the limit refuses a call is a matter of the proof
(`LimitOfClosures`), as the two calls just fit. Three calls are an addition and a removal of one actor against
any third, or the three it takes to lose the entry of another's actor
(`EveryActorIsRegistered`). One suspended restart is what it takes to spawn an entry twice. The proofs cover any number of all of these.

Symmetry over the clients, and over the calls of `run_until`, is used only in runs of safety
properties. Deadlock is checked in the runs of `Supervisor`, where `Terminated` stutters after
`run` has returned, so that any other state without a successor is a supervisor
that waits for nothing. The other runs end where every call has returned or every bound is
reached.

### Properties

*Supervisor.* `TypeOK`. `CountersCover`: neither counter is below what it counts
(they may be above, see Findings). `TasksMatchEntries`: an entry has a handle
exactly if its latest task is in the `JoinSet`; tasks are unique by instance and
generation and sit under one slot. `RunningIsUndisturbed` (OneForOne): a child
that is running has a live token, and is aborted only by a removal that holds its
slot and whose deadline has passed; the slot may have been recycled under it, see
`RunningChildrenExact`. (For OneForAll the token may be dead: a child added by an
already buffered command can be spawned under the cancelled group token.) `NoSpawnAfterStopping`, `NaturalExitIsComplete`
and `GroupRestartIsClean` are about steps. Of the limiter: `LimitIsExact`,
`DelayFollowsPolicy`.

*Nested.* `EndpointLeadsToOwner`: the path never leads to an incarnation whose
`run_as_child` is over, and leads to the present one while that is attached, unless the entry has
lost an earlier task, to a detach or to a second spawn, whose registration may then hide or
remove that of its successor. `OneInnerSupervisor`: two inner supervisors overlap only if the task
of the earlier was aborted, or superseded by a second spawn (see `NeverTwoInner`). `TreeStops`: a cancelled or aborted child takes its inner supervisor with
it. `ShowsInner`: the refinement.

*Mailbox.* `ActiveIsBound`: the binding shows the mailbox of the active run
and of no other, although the guard of a run clears it without looking.
`OneDelivery`: an envelope is in exactly one mailbox, once, if its sender was told
`Ok`, and in none otherwise (a sender that gave up by `Abandon` has sent nothing).
`DeliveryFollowsBinding`: an envelope enters the bound mailbox, or that of a run whose
future was dropped; never that of an actor that was joined.

*Blocking tasks.* `LimitHolds`, `EndedActorOwnsNothing`, `NoFailureIsLost`,
`HandledFailureIsNotReported`, `FailureStopsActor`, `FinishEnds`. The second to
fourth are about the calls of the actor's own future: a task that shares its context may call
`spawn_blocking` between the two locks while the actor finishes, and its
closure is then nobody's.

*Actor graph.* `RunIsAlone` (while no other run was dropped), `OkMeansAskedAndClean`,
`CauseIsFailure`, `ReturnLeavesNothing`, `OneEndEndsRun`.

*Runtime.* `ActorsAreRegistered`: whatever calls overlap, of whatever ids, the registry leads to
every supervised actor, and the one thing that takes an entry away from it is a
`remove_actor` that has removed a plain child of the id (`EntryTaken`). `RefusedLeavesNothing`, `WaitersAgree`;
`CallsReturn`, `WaitsReturn`.

*Proved and not run*, as the theorem covers every instance: `IndexesAgree`
(slab, index, order and free list describe the same children), `WindowIsSuffix`,
`WaitTellsTheEnd`, `NoSnapshotIsForgotten`, and the supervisor's invariants for OneForAll.

*Fairness.* In `Supervisor` only `WF_vars(SupervisorStep)`: the executor polls the supervisor
task again when something it waits for is ready, and timers fire. It is weak
fairness of the disjunction, since it is one task, and nothing is assumed of
children, which may ignore their tokens forever, or of clients. It is justified by
tokio's contract for wakers and timers, with one reservation: the executor's fairness
does not help a biased `select!` whose first arm is always ready. The model's clients
send a bounded number of commands, so it does not show the starvation of a
timer by a flood of commands (listed as a hazard).

In the other modules it is weak fairness of each task that can go on: of `run_as_child` as
one task, the spawned senders, the parent's return to its `select!` and its joins, and an inner
supervisor that was told to stop (both are liveness properties of `Supervisor`);
of the calls of `Runtime` that are not dropped, and of its supervisor, which
takes commands, ends removals and ends after a shutdown request; of a graph's run, an actor
that was told to stop (an actor that ignores its token holds its run, as in the
code), and the drop of aborted tasks; of the loop of an actor's task, its deadline, and a closure that has begun to
return. Nothing makes a closure start or return, a client call, or anything be dropped.

*Mutants.* For every property of a passing run `PROJECT.json` names a mutation
of a definition, written beside it in the module with a comment "Mutation", with
which TLC finds the property violated.

## Findings

Two runs state what the repository says, and TLC shows the code doing otherwise:

* `Panic`. A child is removed during its backoff, and nobody takes its slot. When
  the delay ends, `self.children[key]` panics and the supervisor dies with
  all its children. `tests/dynamic.rs` has the removal during the backoff, but shuts
  down before the delay is over.
* `Orphan`. `AbortOnDrop` should abort the actor when `run_until` is dropped. Its
  `join` takes the handle away when it is first polled, in the first poll of
  `run_until`, so the `Drop` never finds one: the actor goes on, detached, with its
  mailbox unbound, and the next run starts beside it.

The following properties are defined in the modules and fail as well; the
configuration to see it is given with each. `Panic.cfg` with the property as its
`INVARIANT` or `PROPERTY` and the changes named does it for `Supervisor`:

* `LiveTasksExact` (`Initial <- MCInitial`). A child fails and waits for its backoff; it is removed (at once,
  it has no task) and an id is added: the slab hands out the vacated slot. The
  delay ends, finds an active entry at its key and spawns it a second time. The
  fresh child now runs twice; its first task is superseded and untracked, and
  `live_tasks` counts both.
* `RunningChildrenExact` (`Recycling.cfg`). A removal waits for the *slot* of its child. The child
  exits while another handler joins it, the slot is recycled, and the removal goes on
  waiting for the new occupant, aborts it at its own deadline and finalizes it
  while it counts as running.
* `RunningAcceptsCommands` (`Strategy = "OneForAll"`). A group restart drains through the same function as the
  shutdown, which closes `command_rx`. After the first OneForAll restart no
  command is accepted any more, although the supervisor is `Running`
  (`snapshot.rs:109`: "running and accepting commands").
* `PermanentIsRestarted` (`Initial <- MCInitial`). `abort_and_detach_child` joins whatever is ready and only records
  it. A permanent child whose exit is among it stays down.
* `StoppingReplyIsTrue`. An exit handled while a removal waits exceeds the restart
  limit. The error ends the removal with `SupervisorStopping` and goes no
  further: the supervisor runs on.

With the configuration of their own module:

* `NeverTwoInner` (`Nested.cfg`). `LiveTasksExact` for a child that is a supervisor: a nested
  supervisor is added, takes the slot of a removed child whose restart waits for its delay,
  and is spawned a second time when the delay ends. Two inner supervisors run, each with all its
  children, and nothing stops the first before its group does; when its `run_as_child` returns, its
  registration takes the endpoint of the second out of the registry, and
  `add_child_at` no longer finds a supervisor that runs.
* `EveryActorIsRegistered` (`Runtime.cfg`). `add_actor(z)` registers its actor, before its command is
  sent, under the id of a plain child; a `remove_actor(z)` removes that plain child and gets its answer; the command of
  `add_actor` is accepted, as the id is free; then `remove_actor` deregisters `z`, which by
  now is the entry of the new actor (`runtime.rs:257`). The actor is
  supervised, and no peer can find it.
* `NestedEventIsConsistent` (`Nested.cfg`). `event.rs:41` promises the snapshot before its event. Events
  of a nested supervisor are forwarded by `run_as_child` itself, its snapshots through
  a queue of the parent: the parent's row may be older than the event.
* `RunningActorIsBound` (`ActorGraph.cfg`). After a run was dropped, the next one binds its mailboxes at
  once; the aborted actors of the first are dropped later, and their guards clear the new
  bindings. The actor runs, and nobody reaches it. `graph.rs:126` says that handles
  "keep working across reruns".
* `OnlyActiveTasksCount` (`BlockingTasks.cfg` with `Limit = 1`). A permit goes with the closure, after the completion was sent:
  a call made when `wait` has just returned can still be refused at the
  limit of "active blocking tasks" (`builder.rs`).
* `NoStaleEntry` (`Runtime.cfg`). An entry stays in the registry, and its id cannot be used again, after a dropped
  `add_actor` whose command was refused, a dropped `remove_actor`, a
  `remove_child` of an actor, or a removal that answered `ShutdownTimedOut` although
  the child is gone.

Read off the code, or off the traces of the passing runs:

* Dropping the last handle closes the watch, which reads as a shutdown request
  (`shutdown_requested`), where `handle.rs` says that it "does **not** shut down the
  supervisor".
* A child that is being removed still counts for the check of the last active
  child (`active_child_count`), so that two nested removals can remove both of two
  children, where `error.rs` says there must always be one.
* The drain can return `Ok` while tasks that were aborted, or superseded, have not
  been joined (the last lines of `drain_children`; `handle.rs` says `wait` returns
  after "draining and joining").
* A `Cooperative` child is aborted at its
  deadline, in a removal as in a drain, where the crate's `shutdown.rs` describes
  the mode as one that is not.
* A removal of a plain child through `remove_actor` removes the child, then answers
  `UnknownActorId`, unless there is an entry of that id (`EveryActorIsRegistered`).
* A closure can finish before its start is counted: the gauge of blocking tasks goes
  below zero, which panics outside `catch_unwind` in a build with overflow checks. A
  queued closure that is aborted at the deadline never runs and is
  never uncounted, so that the gauge drifts up; a run of a graph that was dropped does
  the same to the gauge of running actors.
* After the deadline `finish` gives up each entry that is left without a look at it, so the failure of a
  task that had already ended is not reported; a wait that is dropped loses the failure
  it has claimed; an actor task that panics or is aborted leaves its
  blocking tasks running and not cancelled.

## Proofs

`RestartTracker_proofs` proves, for every window, limit, policy and history:

* `LimitTheorem`: `Spec => []LimitIsExact`;
* `WindowTheorem`: `Spec => []WindowIsSuffix`;
* `DelayTheorem`: `Spec => []DelayFollowsPolicy`; `TypeTheorem`: `Spec => []TypeOK`.

The inductive invariant `LimitInv` adds the types of the three variables involved
and `HistorySorted`: recorded instants are in the past and sorted. This is what
makes popping from the front sound: what has left the window is a prefix, and
never returns. `FirstKept` is a `CHOOSE`, and that it exists needs a least
element (`LeastNumber`), which the proof takes from the well-foundedness of
inclusion on finite sets, as the induction theorems with operator
parameters cannot be used. `SlidingWindow` is the arithmetic of one pop;
`RecordKeepsWindow` and `RecordKeepsLimit` apply it to the step. The assumptions
are those of the module (`IntensityAssumption`, `BackoffAssumption`); the bounds
`Horizon` and `Records` play no part.

The delay is the value of a recursive function, the loop of `exponential_backoff`, and
`DelayFollowsPolicy` compares it with another, `Power`, which says `factor^(n - 1)` in a
form the provers can open. TLAPS takes such a function as the `CHOOSE` of one that
satisfies its equation: `PowerExists` and `BackoffExists` show that there is one, and
`BackoffClosed`, that the loop computes `min(base * factor^n, max)` whatever its
saturation and early return, at the least argument where it could fail. `ClampedStep` is the arithmetic of one
turn: saturating and clamping in between is the same as clamping at the end.

`Supervisor_proofs` proves, for every set of ids, restart policies, shutdown
modes, strategy, clients, commands and bounds that satisfy `SpecAssumption` and
`ConfigAssumption`:

* `TypeTheorem`: `Spec => []TypeOK`;
* `CountersTheorem`: `Spec => []CountersCover`;
* `TasksTheorem`: `Spec => []TasksMatchEntries`;
* `IndexTheorem`: `Spec => []IndexesAgree`;
* `NoSpawnTheorem`: `Spec => NoSpawnAfterStopping`;
* `NaturalExitTheorem`: `Spec => NaturalExitIsComplete`;
* `GroupRestartTheorem`: `Spec => GroupRestartIsClean`;
* `UndisturbedTheorem`: `Spec => []RunningIsUndisturbed`, if `Strategy = "OneForOne"`.

The first four are parts or consequences of one inductive invariant, `Inv`:
`TableInv(table)` and the types of the other variables. `TableInv`
(`ChildTable_proofs`) has five parts, which depend on one another:

* `IndexOK` is `IndexesAgree` with the free list free of duplicates, instead of
  its length equal to a cardinality: a vacated key is handed out once.
* `CountersOK` is `CountersCover`. A counter may be decremented only because
  the entry that is decremented for is counted, which needs `TasksOK`.
* `InstancesOK`: instances are below `next_child_instance` and no two entries
  share one, so that the tasks of a removed child match no later occupant.
* `TasksOK` is `TasksMatchEntries`, with what a restart needs: the tasks of an
  instance are of its present generation or of an earlier one, and only of an
  earlier one while the entry has no handle. Otherwise the next generation could
  collide with a task that is still unjoined.
* the type of the table.

`ChildTable_proofs` shows for every helper of the table that it keeps
`TableInv`. Helpers that only cancel, abort, relabel or count again are dealt with by one
lemma on `Similar` tables. `Supervisor_proofs` then goes through the actions,
one lemma per handler; what it needs of the handlers is only the table they
leave and the type of the stack. That is the reason why these theorems hold in spite
of the findings: a stale key in a suspended restart or removal spawns or
removes the wrong child, but never breaks the bookkeeping.

`NoSpawnTheorem` needs `StackInv` besides: while the supervisor is Stopping and has
not returned, the running handler is the shutdown drain, so that no other
handler can take a step, and a drain only joins and aborts.

`NaturalExitTheorem` and `GroupRestartTheorem` need `CareInv` (`CareTheorem`). Its core is
`LiveCovered`: `live_tasks` is at least the number of tasks that were not aborted, or are
the latest of their entry. This is more than `CountersOK`, which counts entries: a
superseded task, as after a restart into a recycled slot, has none. Two facts keep it.
`FinalizeRemoved` takes an entry away together with its count, which is sound since
its latest task was joined, or aborted before (`AbortedUnder` the slot that a
removal detaches). A count is taken back for a task that is joined only if it is the latest
of its entry, so that each decrement has a task of its own. In the natural exit `live_tasks` is
zero, and so is the number of those tasks. OneForAll spawns over a task only after an
abort (`OrphansAborted`), and its restart waits until the counter says that the group is gone.
Both use that a suspended handler is a delay or a waiting removal (`CalmFrames`).

`UndisturbedTheorem` needs `TenderInv` besides: the token of the group is cancelled only by
the shutdown drain, in which no child counts as running, and apart from that a
running child is disturbed only by the removal that detaches its slot. Most helpers are
`Gentle`: they leave the tasks of running children as they were.

`Mailbox_proofs` proves, for any number of overlapping calls of `run_until` and of
senders, and every capacity (`MailboxAssumption`):

* `TypeTheorem`: `Spec => []TypeOK`; `BindingTheorem`: `Spec => []ActiveIsBound`;
* `DeliveryTheorem`: `Spec => []OneDelivery`;
* `FollowsTheorem`: `Spec => DeliveryFollowsBinding`.

`MailboxInv` is `TypeOK` with three parts. `RunInv`: the calls between the test of
the flag and its release exclude each other; without it the guard of one run could
clear the binding of another. `TaskInv`: a receiver exists only while its task
does, and a task only once its call was active. `DeliveryInv`: envelopes are
unique over all mailboxes and belong to senders that were told so, which is
`OneDelivery` without a cardinality.

`BlockingTasks_proofs` proves, for any calls and any limit, with and without overflow
checks (`BlockingAssumption`):

* `TypeCorrect`: `Spec => []TypeOK`; `LimitOfClosures`: `Spec => []LimitHolds`;
* `EndedActors`: `Spec => []EndedActorOwnsNothing`;
* `FailuresAreKept`: `Spec => []NoFailureIsLost`;
* `FailuresAreHandledOnce`: `Spec => []HandledFailureIsNotReported`.

`Inv` has four parts. `Calls`: the future of the actor is in one call at a time, and
only while it runs, so that none of its own closures slips past
`close_and_take_all` between the two locks. `Entries`: where the actor is tells where its
entries can be. `Failures`: a settled failure that nobody claimed is, or came after, the
failure of the actor, and the actor has one only when it stops, after which its own
handles can claim nothing. `Permits` counts: permits and closures alive add up to the limit, by
the library's facts on cardinalities.

`ActorGraph_proofs` proves, for any actors and runs (`GraphAssumption`), `TypeCorrect`,
`RunsAreAlone`, `OkIsClean`, `CausesAreFailures` and `ReturnedRunsLeaveNothing`: each is
`Spec => []P` for the `TypeOK`, `RunIsAlone`, `OkMeansAskedAndClean`, `CauseIsFailure` and
`ReturnLeavesNothing` of `ActorGraph`. `Stages` ties the tasks of a run to its phase and admits one run at a time;
`Bindings` needs that a guard is dropped only by the run that is on, or one that was
dropped; `Clean` and `Causes` carry the failure from the join of an actor to the answer.
`Gauge` says what the counter of running actors counts: the tasks that were
neither joined nor never spawned, which no dropped run gives back.

`Runtime_proofs` proves of `Completion`, for any number of waiting calls,
`CompletionAgrees` (`CompletionSpec => []WaitersAgree`) and `CompletionIsTrue`
(`CompletionSpec => []WaitTellsTheEnd`), from an invariant that says who holds which sender. `ImplementsCompletion`
(`Spec => CompletionSpec`) shows that every step of `Runtime` is a step of `Completion` or
a stutter, and `WaitersOfTheRuntimeAgree` carries both results over. For any calls, ids and
capacity (`RuntimeAssumption`):

* `TypeCorrect`: `Spec => []TypeOK`;
* `RegistryLeadsToActors`: `Spec => []ActorsAreRegistered`;
* `RefusedCallsLeaveNothing`: `Spec => []RefusedLeavesNothing`.

The inductive invariant `IInv` adds to these how far each call is (`Stages`, `Found`, `Queued`, `Leaving`), who
owns an entry (`Owned`), that an actor that was removed does not come back (`Gone`), and what makes the
steps of different calls commute, `EntriesKept`: unless it was taken (`EntryTaken`), the entry of an id
is that of the actor that is supervised under it; of the one that is being added, until its call has been answered;
and of the one that was removed for a call, until that call deregisters it, so that no
other can be registered under the id meanwhile, and the call takes away its own. A `remove_actor` that found a
plain child is the one exception, and `EntryTaken` remembers it.

Of `Builders` it proves, for any ids and any builder, `BuiltGraphDecomposes`,
`IngressesLeadToActors`, `BuiltSupervisorIsSound` and `BuiltRuntimeIsRegistered`: what was accepted is
never found inconsistent later, the registry of a runtime has the bindings of its actors, and its children are those actors and
the children of the builder, which share no id. The hypothesis `Usable` says that the constants do not collide (`None` is no id).
`BuiltRuntimeStarts` joins the two parts: with the actors of the graph as `ActorIds` and the children of the
builder as `PlainIds`, the two are disjoint, and `Init` of `Runtime` describes the registry and the
children that were built.

`Nested_proofs` proves, for any number of incarnations and of snapshots and any
capacities (`NestedAssumption`):

* `TypeCorrect`: `Spec => []TypeOK`, which bounds what each station on the way of a snapshot or an event holds;
* `EndpointTheorem`: `Spec => []EndpointLeadsToOwner`;
* `OneInnerTheorem`: `Spec => []OneInnerSupervisor`;
* `NotificationTheorem`: `Spec => []NoSnapshotIsForgotten`;
* `RefinementTheorem`: `Spec => View!Init /\ [][View!Next]_View!vars`.

`Inv` has the two properties that are inductive with the rest, and five parts. `Order`: once an incarnation is spawned,
the one before was joined, detached or superseded. `Stages`: what entry, task and inner
supervisor know of one another, such as that a task that has returned saw its inner supervisor stop; with
`Order` it gives `OneInnerSupervisor`. `Snapshots`: a snapshot goes from `version` through `carry`
and `latest`, and each is no newer than the one before it. `Row`: the row belongs to the live incarnation
and is no newer than its `latest`. `Notices`: while an incarnation is live, its `queued` flag is set exactly
if a notification of it is in the channel or with a waiting sender, and there is one
at most. From these follows what the protocol of `NestedSnapshotState` is for,
`NoSnapshotIsForgotten`: whenever `latest` and the row differ, the parent is between clearing the flag and
reading, or a notification is under way, or the forwarder has yet to look at the flag. It is the safety part of
the promise that the row ends with the last snapshot; with fairness, which TLC checks, it is the whole.
TLC has checked `Inv` as well: with two incarnations as in `Nested.cfg`, and with three that publish only
their initial snapshot, with a restart suspended at the slot of the first.

For the refinement, `Spawn` and `Restart` are `Begin`, `Publish` of the live incarnation `Write`, `ReadLatest`
`Show`, `Join` and `Detach` are `End`; everything else, the publications of a lost inner supervisor included,
leaves the view alone, as does a `ReadLatest` that finds what is shown already. `Row` and
`TypeOK` give `shown <= latest <= version`, which `Show` asks for.

Only model-checked: all liveness, with `TreeStops` and the fairness in the refinement of `SnapshotView`
(the prover has no rule for fairness that is
of use here). Every safety property of the passing runs is a theorem. The violated properties are facts
about particular behaviours and have nothing to prove.

## Not modelled

* The console (`tokio-otp-console`), and the observability of the supervisor: output that
  nothing reads back. The one effect of a log line, the panic of an argument,
  is `DebugEnabled`.
* The content of events and of snapshots but for the nested row, and receivers outside the tree: no state
  of the system depends on them. A `select!` of the console may lag, as may that of
  `run_as_child`, which is modelled.
* The refusals of `add_child` for an invalid specification: `Builders` has the check, `Supervisor` starts after it.
* A nested supervisor whose events never pause: the arm of the token comes after those of events and
  snapshots in the biased `select!` of `run_as_child`, so that they could starve a shutdown; the bound
  `Versions` hides it.
* Restarts that the zero-delay loop or a flood of commands starves (see Fairness).
* The liveness of a sender that waits for a mailbox: it may look at a closed mailbox again and again until the
  task of the actor is joined, and nothing in the code bounds when the executor
  gets there.
* Paths of nested supervisors with more than one segment: each segment is a registry of the same kind.
* The `_at` calls of `RuntimeHandle`, which pass a path to the supervisor and touch no registry.
* Addresses, ids and generations do not wrap around: the code counts them in 64 bits.
