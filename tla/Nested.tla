-------------------------------- MODULE Nested --------------------------------
(***************************************************************************)
(* A supervisor that runs as a child of another one (supervisor.rs,        *)
(* run_as_child), with what connects the two: the token and the shutdown   *)
(* watch, the path in the NestedControlRegistry (handle.rs), the forwarded *)
(* events (event.rs) and the coalesced snapshots (snapshot.rs).            *)
(*                                                                         *)
(* Each incarnation of the child, an instance of its entry with a          *)
(* generation, is a member of 1..Last, in the order they are spawned.  It  *)
(* is three things: the entry of the parent, the task of run_as_child, and *)
(* the inner supervisor, in a task of its own.  The parent may cancel and  *)
(* abort the task; a removal may give up an aborted task before it is      *)
(* dropped.  A restart that was suspended over a recycled slot spawns the  *)
(* present entry once more, and leaves its task, which nobody tracks any   *)
(* longer, to itself.  What an inner supervisor publishes when its         *)
(* run_as_child is over reaches nobody and is left out.                    *)
(***************************************************************************)
EXTENDS Integers, Sequences, FiniteSets

CONSTANTS
  Last,            \* a bound on the incarnations
  Suspended,       \* a bound on the restarts suspended at the slot of each
  Versions,        \* a bound on the snapshots each publishes after its first
  EventCapacity,   \* event_channel_capacity of the inner supervisor
  Capacity,        \* of the channel of notifications
  None             \* no incarnation, no snapshot

ASSUME NestedAssumption ==
  /\ Last \in Nat \ {0} /\ Suspended \in [1..Last -> Nat]
  /\ Versions \in [1..Last -> Nat]
  /\ EventCapacity \in Nat \ {0} /\ Capacity \in Nat \ {0}
  /\ None \notin Nat

Incarnations == 1..Last

VARIABLES
  fate,           \* what has become of the entry of each incarnation
  restarts,       \* the restarts that wait for their delay at the child's slot
  child,          \* where each run_as_child is
  inner,          \* where each inner supervisor is
  cancelled,      \* the tokens that are cancelled
  aborted,        \* the tasks that were aborted
  shutdown,       \* the shutdown watch of each inner supervisor
  version,        \* the snapshot each inner supervisor has published last
  sent,           \* the last one whose event it has sent, too
  seen,           \* the snapshot run_as_child has seen last
  heard,          \* the last event its receiver is past
  carry,          \* the snapshot it is forwarding
  latest,         \* NestedSnapshotState::latest
  queued,         \* NestedSnapshotState::queued
  notifications,  \* nested_snapshot_rx
  waiting,        \* the spawned senders that wait for its capacity
  handling,       \* the parent is inside handle_nested_snapshot
  shown,          \* ChildEntry::nested_snapshot
  registry        \* the endpoint under the path of the child

entryVars == <<fate, restarts, cancelled, aborted, shown, handling>>
innerVars == <<inner, version, sent>>
cellVars == <<latest, queued>>
queueVars == <<notifications, waiting>>
vars == <<entryVars, child, shutdown, registry, seen, carry, innerVars, heard,
          cellVars, queueVars>>

Init ==
  /\ fate = [g \in Incarnations |-> "none"] /\ restarts = 0
  /\ child = [g \in Incarnations |-> "none"]
  /\ inner = [g \in Incarnations |-> "none"]
  /\ cancelled = {} /\ aborted = {}
  /\ shutdown = [g \in Incarnations |-> "open"]
  /\ version = [g \in Incarnations |-> 0]
  /\ sent = [g \in Incarnations |-> 0]
  /\ seen = [g \in Incarnations |-> 0]
  /\ heard = [g \in Incarnations |-> 0]
  /\ carry = [g \in Incarnations |-> None]
  /\ latest = [g \in Incarnations |-> None]
  /\ queued = [g \in Incarnations |-> FALSE]
  /\ notifications = <<>> /\ waiting = <<>>
  /\ handling = None
  /\ shown = None
  /\ registry = None

\* The incarnation the entry is at, while its task has not been joined, ...
Live == {g \in Incarnations : fate[g] = "live"}

\* ... and those whose task the entry has lost, to a detach or to a later spawn.
Lost(g) == fate[g] \in {"detached", "superseded"}

\* run_as_child has registered its endpoint, and not returned.
Attached(g) == child[g] \in {"loop", "replace", "swap"}

\* NestedControlRegistry: the endpoint under the path of the child is set, over
\* what is there, or removed, whoever set it.
Register(g) == registry' = g
Deregister == registry' = None

\* What add_child_at and remove_child_at find.
EndpointForPath == registry

\* The receiver of run_as_child is past the first n events, which were forwarded
\* to the parent or lost.
Forwarded(g, n) == heard' = [heard EXCEPT ![g] = n]

-----------------------------------------------------------------------------
(* The inner supervisor.  Version 0 is its initial snapshot.               *)

\* send_event: the snapshot is published, ...
Publish(g) ==
  /\ inner[g] = "running" /\ sent[g] = version[g] /\ version[g] < Versions[g]
  /\ child[g] \notin {"returned", "gone"}
  /\ version' = [version EXCEPT ![g] = @ + 1]
  /\ UNCHANGED <<inner, sent, child, shutdown, registry, seen, carry, entryVars,
                 heard, cellVars, queueVars>>

\* ... and then the event is sent.
SendEvent(g) ==
  /\ inner[g] = "running" /\ sent[g] < version[g]
  /\ sent' = [sent EXCEPT ![g] = version[g]]
  /\ UNCHANGED <<inner, version, child, shutdown, registry, seen, carry,
                 entryVars, heard, cellVars, queueVars>>

\* Mutation: a closed watch is not a request.
ToldByRequest(g) == shutdown[g] = "requested"

\* shutdown_requested: the watch holds true, or its senders are gone.
Told(g) == shutdown[g] # "open"

\* It ends, by itself or because it was told to; its result reaches wait.
InnerEnds(g) ==
  /\ inner[g] = "running" /\ sent[g] = version[g]
  /\ inner' = [inner EXCEPT ![g] = "stopped"]
  /\ UNCHANGED <<version, sent, child, shutdown, registry, seen, carry, entryVars,
                 heard, cellVars, queueVars>>

-----------------------------------------------------------------------------
(* run_as_child.                                                           *)

\* The first poll: the inner supervisor is spawned ...
StartInner(g) ==
  /\ child[g] = "start" /\ g \notin aborted
  /\ child' = [child EXCEPT ![g] = "attach"]
  /\ inner' = [inner EXCEPT ![g] = "running"]
  /\ UNCHANGED <<version, sent, shutdown, registry, seen, carry, entryVars,
                 heard, cellVars, queueVars>>

\* ... and runs while its endpoint is registered, its events are subscribed to
\* and its snapshot is read and forwarded.
Attach(g) ==
  /\ child[g] = "attach"
  /\ child' = [child EXCEPT ![g] = "replace"]
  /\ Register(g)
  /\ Forwarded(g, sent[g])
  /\ carry' = [carry EXCEPT ![g] = version[g]]
  /\ UNCHANGED <<shutdown, seen, entryVars, innerVars, cellVars,
                 queueVars>>

\* It waits in its select.  A task that was aborted does not come back to it:
\* what it does in the poll that the abort meets counts as done before.
AtSelect(g) == child[g] = "loop" /\ g \notin aborted

\* The select of run_as_child is biased: the result of wait comes first.
\* Mutation: the token ends run_as_child.
WaitOrToken(g) ==
  /\ child[g] = "loop" /\ (inner[g] = "stopped" \/ g \in cancelled)
  /\ Forwarded(g, sent[g])
  /\ child' = [child EXCEPT ![g] = "returned"]
  /\ shutdown' = [shutdown EXCEPT ![g] = "closed"]
  /\ Deregister
  /\ UNCHANGED <<seen, carry, entryVars, innerVars, cellVars, queueVars>>

\* Mutation: the registration outlives run_as_child.
WaitRegistered(g) ==
  /\ AtSelect(g) /\ inner[g] = "stopped"
  /\ Forwarded(g, sent[g])
  /\ child' = [child EXCEPT ![g] = "returned"]
  /\ shutdown' = [shutdown EXCEPT ![g] = "closed"]
  /\ UNCHANGED <<registry, seen, carry, entryVars, innerVars, cellVars,
                 queueVars>>

\* The inner supervisor is over: drain_nested_events; then the registration and
\* the handle are dropped.
Wait(g) ==
  /\ AtSelect(g) /\ inner[g] = "stopped"
  /\ Forwarded(g, sent[g])
  /\ child' = [child EXCEPT ![g] = "returned"]
  /\ shutdown' = [shutdown EXCEPT ![g] = "closed"]
  /\ Deregister
  /\ UNCHANGED <<seen, carry, entryVars, innerVars, cellVars, queueVars>>

\* handle_nested_event: the next event, or, if the broadcast has overwritten it,
\* the notice that says how many are lost.
Event(g) ==
  /\ AtSelect(g) /\ inner[g] # "stopped" /\ heard[g] < sent[g]
  /\ Forwarded(g, IF sent[g] - heard[g] > EventCapacity
                  THEN sent[g] - EventCapacity ELSE heard[g] + 1)
  /\ UNCHANGED <<child, shutdown, registry, seen, carry, entryVars, innerVars,
                 cellVars, queueVars>>

\* forward_nested_snapshot_change
Changed(g) ==
  /\ AtSelect(g) /\ inner[g] # "stopped" /\ heard[g] = sent[g]
  /\ seen[g] < version[g]
  /\ seen' = [seen EXCEPT ![g] = version[g]]
  /\ carry' = [carry EXCEPT ![g] = version[g]]
  /\ child' = [child EXCEPT ![g] = "replace"]
  /\ UNCHANGED <<shutdown, registry, entryVars, innerVars, heard, cellVars,
                 queueVars>>

\* The parent's token: handle.shutdown().
TokenCancelled(g) ==
  /\ AtSelect(g) /\ inner[g] # "stopped" /\ heard[g] = sent[g]
  /\ seen[g] = version[g]
  /\ g \in cancelled /\ shutdown[g] = "open"
  /\ shutdown' = [shutdown EXCEPT ![g] = "requested"]
  /\ UNCHANGED <<child, registry, seen, carry, entryVars, innerVars, heard,
                 cellVars, queueVars>>

\* NestedSnapshotForwarder::forward: the snapshot is stored, ...
Replace(g) ==
  /\ child[g] = "replace"
  /\ child' = [child EXCEPT ![g] = "swap"]
  /\ latest' = [latest EXCEPT ![g] = carry[g]]
  /\ UNCHANGED <<queued, shutdown, registry, seen, carry, entryVars, innerVars,
                 heard, queueVars>>

\* Mutation: the notification is sent whatever the capacity.
TryQueueUnbounded(g) ==
  /\ child[g] = "swap"
  /\ child' = [child EXCEPT ![g] = "loop"]
  /\ queued' = [queued EXCEPT ![g] = TRUE]
  /\ notifications' = IF queued[g] THEN notifications ELSE Append(notifications, g)
  /\ UNCHANGED <<waiting, latest, shutdown, registry, seen, carry, entryVars,
                 innerVars, heard>>

\* ... and unless its notification is under way one is sent, by a task of its own
\* if the channel is full.
TryQueue(g) ==
  /\ child[g] = "swap"
  /\ child' = [child EXCEPT ![g] = "loop"]
  /\ queued' = [queued EXCEPT ![g] = TRUE]
  /\ IF queued[g] THEN UNCHANGED queueVars
     ELSE IF Len(notifications) + Len(waiting) < Capacity
     THEN /\ notifications' = Append(notifications, g)
          /\ UNCHANGED waiting
     ELSE /\ waiting' = Append(waiting, g)
          /\ UNCHANGED notifications
  /\ UNCHANGED <<latest, shutdown, registry, seen, carry, entryVars, innerVars,
                 heard>>

\* A waiting sender is given the place that was freed.
WaiterSends ==
  /\ waiting # <<>> /\ Len(notifications) < Capacity
  /\ notifications' = Append(notifications, Head(waiting))
  /\ waiting' = Tail(waiting)
  /\ UNCHANGED <<child, shutdown, registry, seen, carry, entryVars, innerVars,
                 heard, cellVars>>

\* An aborted task is dropped at an await, with the registration and the handle:
\* the inner supervisor is detached and its watch closed.
Dropped(g) ==
  /\ g \in aborted /\ child[g] \in {"start", "loop"}
  /\ child' = [child EXCEPT ![g] = "gone"]
  /\ shutdown' = [shutdown EXCEPT ![g] = "closed"]
  /\ registry' = IF child[g] = "loop" THEN None ELSE registry
  /\ UNCHANGED <<seen, carry, entryVars, innerVars, heard, cellVars,
                 queueVars>>

-----------------------------------------------------------------------------
(* The parent.                                                             *)

\* spawn_child: a new generation, or a new entry.  It does not look for a task
\* that is still there.
SpawnChild(g) ==
  /\ fate[g] = "none" /\ \A h \in 1..(g - 1) : fate[h] # "none"
  /\ handling = None
  /\ fate' = [h \in Incarnations |->
                IF h = g THEN "live"
                ELSE IF h \in Live THEN "superseded" ELSE fate[h]]
  /\ child' = [child EXCEPT ![g] = "start"]
  /\ shown' = None
  /\ UNCHANGED <<cancelled, aborted, handling, shutdown, registry, seen, carry,
                 innerVars, heard, cellVars, queueVars>>

\* add_child, or a group restart: the entry has no task.  The slot of an entry that
\* is added may be one at which restarts of earlier occupants are suspended.
Spawn(g) ==
  /\ Live = {}
  /\ SpawnChild(g)
  /\ restarts' \in 0..Suspended[g]

\* handle_one_for_one_restart, after its delay: whatever entry is in the slot now
\* is spawned, if it is not being removed.
Restart(g) ==
  /\ restarts > 0 /\ Live \cap cancelled = {}
  /\ restarts' = restarts - 1
  /\ SpawnChild(g)

\* A shutdown was requested meanwhile, or the entry is being removed.
RestartGivenUp ==
  /\ restarts > 0
  /\ restarts' = restarts - 1
  /\ UNCHANGED <<fate, cancelled, aborted, shown, handling, child, shutdown,
                 registry, seen, carry, innerVars, heard, cellVars, queueVars>>

\* A removal, a group restart or a shutdown cancels the token.  That of a task the
\* entry has lost to another is cancelled with its group only.
Cancel(g) ==
  /\ fate[g] = "live" \/ (fate[g] = "superseded" /\ Live \subseteq cancelled)
  /\ g \notin cancelled
  /\ cancelled' = cancelled \cup {g}
  /\ UNCHANGED <<fate, restarts, aborted, shown, handling, child, shutdown, registry,
                 seen, carry, innerVars, heard, cellVars, queueVars>>

\* The deadline, the Abort mode, or the end of the JoinSet.  The latter cancels
\* no token, which is the same to the task as a token it has not looked at.
AbortTask(g) ==
  /\ fate[g] \in {"live", "superseded"} /\ g \in cancelled \ aborted
  /\ aborted' = aborted \cup {g}
  /\ UNCHANGED <<fate, restarts, cancelled, shown, handling, child, shutdown, registry,
                 seen, carry, innerVars, heard, cellVars, queueVars>>

\* Nobody reads any longer what it has published: its receivers and its
\* NestedSnapshotState are gone with its task and its entry.
Forget(g) ==
  /\ version' = [version EXCEPT ![g] = 0] /\ sent' = [sent EXCEPT ![g] = 0]
  /\ seen' = [seen EXCEPT ![g] = 0] /\ heard' = [heard EXCEPT ![g] = 0]
  /\ carry' = [carry EXCEPT ![g] = None] /\ latest' = [latest EXCEPT ![g] = None]
  /\ queued' = [queued EXCEPT ![g] = FALSE]

\* record_exit, and the restart the exit may be owed.  The exit of a task that was
\* superseded is of another generation and changes nothing.
Join(g) ==
  /\ handling = None
  /\ fate[g] = "live" /\ child[g] \in {"returned", "gone"}
  /\ fate' = [fate EXCEPT ![g] = "joined"]
  /\ restarts' \in {restarts} \cup (0..Suspended[g] \cap {restarts + 1})
  /\ shown' = None
  /\ Forget(g)
  /\ UNCHANGED <<cancelled, aborted, handling, child, shutdown, registry, inner,
                 queueVars>>

\* abort_and_detach_child, when the task is still there after its yield:
\* finalize_removed_child.
Detach(g) ==
  /\ handling = None
  /\ fate[g] = "live" /\ g \in aborted
  /\ fate' = [fate EXCEPT ![g] = "detached"]
  /\ shown' = None
  /\ latest' = [latest EXCEPT ![g] = None]
  /\ queued' = [queued EXCEPT ![g] = FALSE]
  /\ UNCHANGED <<restarts, cancelled, aborted, handling, child, shutdown, registry,
                 seen, carry, innerVars, heard, queueVars>>

\* Mutation: the flag is not cleared.
DequeueUnmarked ==
  /\ handling = None /\ notifications # <<>>
  /\ notifications' = Tail(notifications)
  /\ handling' = IF fate[Head(notifications)] = "live"
                 THEN Head(notifications) ELSE None
  /\ UNCHANGED <<fate, restarts, cancelled, aborted, shown, waiting, child,
                 shutdown, registry, seen, carry, innerVars, heard, cellVars>>

\* handle_nested_snapshot: a notification of another incarnation, or of one
\* that was joined, is dropped; else the flag is cleared ...
Dequeue ==
  /\ handling = None /\ notifications # <<>>
  /\ notifications' = Tail(notifications)
  /\ IF fate[Head(notifications)] = "live"
     THEN /\ handling' = Head(notifications)
          /\ queued' = [queued EXCEPT ![Head(notifications)] = FALSE]
     ELSE UNCHANGED <<handling, queued>>
  /\ UNCHANGED <<fate, restarts, cancelled, aborted, shown, latest, waiting,
                 child, shutdown, registry, seen, carry, innerVars, heard>>

\* ... and then the snapshot is read and published.
ReadLatest ==
  /\ handling # None
  /\ handling' = None
  /\ shown' = latest[handling]
  /\ UNCHANGED <<fate, restarts, cancelled, aborted, child, shutdown, registry,
                 seen, carry, innerVars, heard, cellVars, queueVars>>

-----------------------------------------------------------------------------
InnerSupervisor(g) == Publish(g) \/ SendEvent(g) \/ InnerEnds(g)

RunAsChild(g) ==
  \/ StartInner(g) \/ Attach(g)
  \/ Wait(g) \/ Event(g) \/ Changed(g) \/ TokenCancelled(g)
  \/ Replace(g) \/ TryQueue(g)

Parent ==
  \/ \E g \in Incarnations :
       Spawn(g) \/ Restart(g) \/ Cancel(g) \/ AbortTask(g) \/ Join(g) \/ Detach(g)
  \/ RestartGivenUp \/ Dequeue \/ ReadLatest

Next ==
  \/ \E g \in Incarnations : InnerSupervisor(g) \/ RunAsChild(g) \/ Dropped(g)
  \/ WaiterSends \/ Parent

Spec == Init /\ [][Next]_vars

\* Every task is polled when it can go on; the parent comes back to its select
\* (HandlersReturn of Supervisor); an inner supervisor sends the event after its
\* snapshot, and stops when it was told to (ShutdownCompletes of Supervisor).
\* Nothing else makes it publish or end.
FairSpec ==
  /\ Spec
  /\ WF_vars(WaiterSends) /\ WF_vars(Dequeue \/ ReadLatest)
  /\ \A g \in Incarnations :
       /\ WF_vars(SendEvent(g) \/ (Told(g) /\ InnerEnds(g)))
       /\ WF_vars(RunAsChild(g) \/ Dropped(g))
       /\ WF_vars(Join(g))

-----------------------------------------------------------------------------
(* Properties. *)

\* The variables hold what the program keeps in them.
TypeOK ==
  /\ fate \in [Incarnations -> {"none", "live", "joined", "detached",
                                "superseded"}]
  /\ restarts \in Nat
  /\ child \in [Incarnations -> {"none", "start", "attach", "loop", "replace",
                                 "swap", "returned", "gone"}]
  /\ inner \in [Incarnations -> {"none", "running", "stopped"}]
  /\ cancelled \subseteq Incarnations /\ aborted \subseteq Incarnations
  /\ shutdown \in [Incarnations -> {"open", "requested", "closed"}]
  /\ version \in [Incarnations -> Nat] /\ sent \in [Incarnations -> Nat]
  /\ seen \in [Incarnations -> Nat] /\ heard \in [Incarnations -> Nat]
  /\ carry \in [Incarnations -> Nat \cup {None}]
  /\ latest \in [Incarnations -> Nat \cup {None}]
  /\ \A g \in Incarnations :
       /\ version[g] <= Versions[g] /\ sent[g] <= version[g]
       /\ seen[g] <= version[g] /\ heard[g] <= sent[g]
       /\ carry[g] # None => carry[g] <= version[g]
       /\ latest[g] # None => latest[g] <= version[g]
  /\ queued \in [Incarnations -> BOOLEAN]
  /\ notifications \in Seq(Incarnations) /\ waiting \in Seq(Incarnations)
  /\ Len(notifications) <= Capacity
  /\ handling \in Incarnations \cup {None}
  /\ shown \in Nat \cup {None}
  /\ registry \in Incarnations \cup {None}

\* What add_child_at and remove_child_at rely on (handle.rs): the path never leads
\* to an incarnation whose run_as_child is over, and while that of the present one
\* is at work it leads there, unless the entry has lost an earlier task, to a
\* detach or to a second spawn: its registration can outlast, or hide, the one
\* that came after it.
EndpointLeadsToOwner ==
  /\ EndpointForPath # None =>
       Attached(EndpointForPath)
       /\ (EndpointForPath \in Live \/ Lost(EndpointForPath))
  /\ \A g \in Live :
       Attached(g) /\ EndpointForPath # g => \E h \in 1..(g - 1) : Lost(h)

Runs(g) == inner[g] = "running"

\* Two incarnations of a supervised supervisor run at once only if the task of
\* the earlier was aborted, or if a restart that was suspended over a recycled
\* slot has spawned its entry a second time.
OneInnerSupervisor ==
  \A g, h \in Incarnations :
    g < h /\ Runs(g) /\ Runs(h) => g \in aborted \/ fate[g] = "superseded"

\* The same without the second spawn (supervisor.rs, into_child_spec: "a restartable
\* child").  The code does not keep to this.
NeverTwoInner ==
  \A g, h \in Incarnations : g < h /\ Runs(g) /\ Runs(h) => g \in aborted

\* A parent that stops or loses its nested supervisor stops what runs in it:
\* through the token, or through the watch that closes with the handle.
TreeStops ==
  \A g \in Incarnations :
    (g \in cancelled \/ g \in aborted) ~> inner[g] \in {"none", "stopped"}

Owner == IF Live = {} THEN None ELSE CHOOSE g \in Live : TRUE

View == INSTANCE SnapshotView WITH
  Owners <- Incarnations,
  owner <- Owner,
  written <- IF Live = {} THEN 0 ELSE version[Owner],
  shown <- shown

\* The row of the child is a faithful view of its present inner supervisor
\* (snapshot.rs, NestedSnapshotState): whatever is coalesced, sent late by a
\* spawned task or left over from an earlier incarnation, it never goes back,
\* never shows an earlier incarnation, and ends with the last snapshot.
ShowsInner == View!Spec

\* What event.rs:41 guarantees, of nested events: when the event of a change is
\* forwarded the parent's snapshot already shows the change.  The code does not
\* keep to this.
NestedEventIsConsistent ==
  [][\A g \in Live :
       child[g] = "loop" /\ heard'[g] = heard[g] + 1 =>
         shown # None /\ shown >= heard'[g]]_vars

=============================================================================
