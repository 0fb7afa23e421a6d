----------------------------- MODULE ChildTable -----------------------------
(***************************************************************************)
(* The bookkeeping of one supervisor: the slab of child entries with its   *)
(* indexes and counters, and the tasks in the supervisor's JoinSet         *)
(* (crates/tokio-supervisor/src/runtime/supervision.rs and spawn.rs).      *)
(*                                                                         *)
(* A table is a record.  Every operator below returns the table after one  *)
(* synchronous helper of SupervisorRuntime; the module Supervisor composes *)
(* them into the stretches of code that run between two awaits.            *)
(*                                                                         *)
(*   children            the occupied slab slots, key -> entry             *)
(*   free, slots         the slab's LIFO list of vacated keys, its length  *)
(*   children_by_id      id -> key                                         *)
(*   child_order         the listed keys (their order only decides the     *)
(*                       order of events and of snapshot rows)             *)
(*   running_children, live_tasks, next_child_instance    the counters     *)
(*   group_cancelled     whether group_token is cancelled                  *)
(*   join_set            the tasks that were spawned and not yet joined    *)
(*                                                                         *)
(* RuntimeChildState::Starting is left out: spawn_child sets it and        *)
(* replaces it by Running with no await in between.  active_token and      *)
(* abort_handle are set together by spawn_child and cleared together by    *)
(* record_exit: the Boolean "handle" is both of them.                      *)
(***************************************************************************)
EXTENDS Integers, FiniteSets, Sequences

CONSTANTS
  Ids,      \* the child ids
  Restart,  \* id -> restart policy of its spec
  Mode      \* id -> shutdown mode of its spec

Policies == {"Permanent", "Transient", "Temporary"}
Modes == {"Cooperative", "CooperativeThenAbort", "Abort"}

ASSUME SpecAssumption ==
  /\ IsFiniteSet(Ids)
  /\ Restart \in [Ids -> Policies]
  /\ Mode \in [Ids -> Modes]

Entry ==
  [id : Ids, instance : Nat, generation : Nat,
   state : {"Running", "Stopping", "Stopped"},
   membership : {"Active", "Removing"},
   has_started : BOOLEAN, handle : BOOLEAN,
   terminal : {"none", "ok", "failed"}, restarts : Nat]

Task ==
  [key : Nat, instance : Nat, generation : Nat,
   status : {"Running", "Completed", "Failed", "Aborted"},
   cancelled : BOOLEAN, aborted : BOOLEAN]

TableFields ==
  {"children", "free", "slots", "children_by_id", "child_order",
   "running_children", "live_tasks", "next_child_instance",
   "group_cancelled", "join_set"}

-----------------------------------------------------------------------------
(* Views of a table. *)

Occupied(s) == DOMAIN s.children

TableTypeOK(s) ==
  /\ DOMAIN s = TableFields
  /\ Occupied(s) \subseteq Nat
  /\ s.children \in [Occupied(s) -> Entry]
  /\ s.free \in Seq(Nat)
  /\ s.slots \in Nat
  /\ DOMAIN s.children_by_id \subseteq Ids
  /\ s.children_by_id \in [DOMAIN s.children_by_id -> Nat]
  /\ s.child_order \subseteq Nat
  /\ s.running_children \in Nat
  /\ s.live_tasks \in Nat
  /\ s.next_child_instance \in Nat
  /\ s.group_cancelled \in BOOLEAN
  /\ s.join_set \subseteq Task

CountsAsRunning(e) == e.state = "Running"
IsActive(e) == e.state # "Stopped"

RunningKeys(s) == {k \in Occupied(s) : CountsAsRunning(s.children[k])}
ActiveKeys(s) == {k \in Occupied(s) : IsActive(s.children[k])}
HandleKeys(s) == {k \in Occupied(s) : s.children[k].handle}

ModeAt(s, k) == Mode[s.children[k].id]
CooperativeKeys(s) == {k \in ActiveKeys(s) : ModeAt(s, k) = "Cooperative"}

\* Mutation: the check forgets which occupant the envelope is about.
AnyInstanceIsCurrent(s, t) ==
  /\ t.key \in Occupied(s)
  /\ s.children[t.key].generation = t.generation

\* current_child_matches: the envelope of t is about the present occupant of
\* its slot, and about its latest generation.
IsCurrent(s, t) ==
  /\ t.key \in Occupied(s)
  /\ s.children[t.key].instance = t.instance
  /\ s.children[t.key].generation = t.generation

\* The task the entry at k holds the abort handle and the token of.
HeldBy(s, t, K) ==
  /\ t.key \in K
  /\ IsCurrent(s, t)
  /\ s.children[t.key].handle

Finished(s) == {t \in s.join_set : t.status # "Running"}

SaturatingSub(m, n) == IF m > n THEN m - n ELSE 0

-----------------------------------------------------------------------------
(* Insertion and spawning. *)

NewEntry(id, n) ==
  [id |-> id, instance |-> n, generation |-> 0, state |-> "Stopped",
   membership |-> "Active", has_started |-> FALSE, handle |-> FALSE,
   terminal |-> "none", restarts |-> 0]

\* Slab::insert takes the key vacated last, or a new one at the end.
NextKey(s) == IF s.free = <<>> THEN s.slots ELSE Head(s.free)

InsertChild(s, id) ==
  LET k == NextKey(s)
  IN [s EXCEPT
       !.children = [j \in Occupied(s) \cup {k} |->
                      IF j = k THEN NewEntry(id, s.next_child_instance)
                               ELSE s.children[j]],
       !.free = IF s.free = <<>> THEN <<>> ELSE Tail(s.free),
       !.slots = IF s.free = <<>> THEN s.slots + 1 ELSE s.slots,
       !.children_by_id = [i \in DOMAIN s.children_by_id \cup {id} |->
                            IF i = id THEN k ELSE s.children_by_id[i]],
       !.child_order = s.child_order \cup {k},
       !.next_child_instance = s.next_child_instance + 1]

NextGeneration(e) == IF e.has_started THEN e.generation + 1 ELSE e.generation

SpawnedEntry(e) ==
  [e EXCEPT !.generation = NextGeneration(e), !.state = "Running",
            !.has_started = TRUE, !.handle = TRUE, !.terminal = "none"]

\* Its token is a child of group_token: born cancelled if that one is.
SpawnedTask(s, k) ==
  [key |-> k, instance |-> s.children[k].instance,
   generation |-> NextGeneration(s.children[k]), status |-> "Running",
   cancelled |-> s.group_cancelled, aborted |-> FALSE]

\* spawn_child for every key of K, in any order.
SpawnChildren(s, K) ==
  [s EXCEPT
    !.children = [k \in Occupied(s) |->
                   IF k \in K THEN SpawnedEntry(s.children[k])
                              ELSE s.children[k]],
    !.running_children =
       s.running_children
         + Cardinality({k \in K : ~CountsAsRunning(s.children[k])}),
    !.live_tasks = s.live_tasks + Cardinality(K),
    !.join_set = s.join_set \cup {SpawnedTask(s, k) : k \in K}]

-----------------------------------------------------------------------------
(* Exits. *)

ExitedEntry(e) == [e EXCEPT !.state = "Stopped", !.handle = FALSE]

\* consume_joined_child, and record_exit when the envelope is current.  The
\* envelope of a superseded or removed child is dropped.
JoinChild(s, t) ==
  IF IsCurrent(s, t)
  THEN [s EXCEPT
         !.children = [k \in Occupied(s) |->
                        IF k = t.key THEN ExitedEntry(s.children[k])
                                     ELSE s.children[k]],
         !.running_children =
            IF CountsAsRunning(s.children[t.key])
            THEN SaturatingSub(s.running_children, 1)
            ELSE s.running_children,
         !.live_tasks = SaturatingSub(s.live_tasks, 1),
         !.join_set = s.join_set \ {t}]
  ELSE [s EXCEPT !.join_set = s.join_set \ {t}]

\* record_terminal_status.  Only current generations reach it, so the status
\* it finds is never of a later generation.
RecordTerminal(s, t) ==
  [s EXCEPT !.children = [k \in Occupied(s) |->
     IF k = t.key
     THEN [s.children[k] EXCEPT
            !.terminal = IF t.status = "Completed" THEN "ok" ELSE "failed"]
     ELSE s.children[k]]]

\* RestartTracker::record, of which this module keeps the total.
RecordRestart(s, key) ==
  [s EXCEPT !.children = [k \in Occupied(s) |->
     IF k = key THEN [s.children[k] EXCEPT !.restarts = @ + 1]
                ELSE s.children[k]]]

-----------------------------------------------------------------------------
(* Removal. *)

RemovingEntry(e) ==
  [e EXCEPT !.membership = "Removing",
            !.state = IF IsActive(e) THEN "Stopping" ELSE e.state]

\* The first half of remove_child, up to ChildRemoveRequested.
MarkRemoving(s, key) ==
  [s EXCEPT
    !.children = [k \in Occupied(s) |->
                   IF k = key THEN RemovingEntry(s.children[k])
                              ELSE s.children[k]],
    !.running_children =
       IF CountsAsRunning(s.children[key])
       THEN SaturatingSub(s.running_children, 1)
       ELSE s.running_children]

\* Mutation: live_tasks is decremented for an entry without a task, too.
FinalizeAlwaysCounts(s, key) ==
  [s EXCEPT
    !.children = [k \in Occupied(s) \ {key} |-> s.children[k]],
    !.free = <<key>> \o s.free,
    !.children_by_id =
       [i \in DOMAIN s.children_by_id \ {s.children[key].id} |->
          s.children_by_id[i]],
    !.child_order = s.child_order \ {key},
    !.live_tasks = SaturatingSub(s.live_tasks, 1)]

\* finalize_removed_child: Slab::remove puts the key on the free list.
FinalizeRemoved(s, key) ==
  [s EXCEPT
    !.children = [k \in Occupied(s) \ {key} |-> s.children[k]],
    !.free = <<key>> \o s.free,
    !.children_by_id =
       [i \in DOMAIN s.children_by_id \ {s.children[key].id} |->
          s.children_by_id[i]],
    !.child_order = s.child_order \ {key},
    !.live_tasks = IF s.children[key].handle
                   THEN SaturatingSub(s.live_tasks, 1)
                   ELSE s.live_tasks]

-----------------------------------------------------------------------------
(* Cancellation and aborts.  They change what the tasks may do, and return *)
(* at once.                                                                *)

CancelTasks(s, T) ==
  [s EXCEPT !.join_set =
     {IF t \in T THEN [t EXCEPT !.cancelled = TRUE] ELSE t : t \in s.join_set}]

AbortTasks(s, T) ==
  [s EXCEPT !.join_set =
     {IF t \in T THEN [t EXCEPT !.aborted = TRUE] ELSE t : t \in s.join_set}]

\* Mutation: the group token is cancelled instead of the child's.
CancelSiblings(s, key) == CancelTasks(s, s.join_set)

\* cancel_child
CancelChild(s, key) ==
  CancelTasks(s, {t \in s.join_set : HeldBy(s, t, {key})})

\* abort_matching_children and abort_child
AbortChildren(s, K) ==
  AbortTasks(s, {t \in s.join_set : HeldBy(s, t, K)})

\* cancel_running_children.  Every token is a child of group_token or of an
\* earlier group token that was cancelled before it was replaced, so every
\* task is cancelled.
CancelRunningChildren(s) ==
  LET K == RunningKeys(s) \cap s.child_order
  IN [CancelTasks(s, s.join_set) EXCEPT
       !.children = [k \in Occupied(s) |->
                      IF k \in K
                      THEN [s.children[k] EXCEPT !.state = "Stopping"]
                      ELSE s.children[k]],
       !.running_children = SaturatingSub(s.running_children, Cardinality(K)),
       !.group_cancelled = TRUE]

RenewGroupToken(s) == [s EXCEPT !.group_cancelled = FALSE]

=============================================================================
