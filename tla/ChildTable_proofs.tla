------------------------- MODULE ChildTable_proofs -------------------------
(***************************************************************************)
(* What the operators of ChildTable preserve.  TableInv relates the slab   *)
(* of entries to its indexes, to its counters and to the tasks; every      *)
(* helper of SupervisorRuntime that changes a table keeps it, each under   *)
(* the condition that its callers establish.                               *)
(***************************************************************************)
EXTENDS ChildTable, SequenceTheorems, FiniteSetTheorems, TLAPS

FreeKeys(s) == {s.free[i] : i \in 1..Len(s.free)}

\* The slab, the id index, the order list and the free list.
IndexOK(s) ==
  /\ s.child_order = Occupied(s)
  /\ \A k \in Occupied(s) :
       /\ s.children[k].id \in DOMAIN s.children_by_id
       /\ s.children_by_id[s.children[k].id] = k
  /\ \A id \in DOMAIN s.children_by_id :
       /\ s.children_by_id[id] \in Occupied(s)
       /\ s.children[s.children_by_id[id]].id = id
  /\ FreeKeys(s) \cap Occupied(s) = {}
  /\ FreeKeys(s) \cup Occupied(s) = 0..(s.slots - 1)
  /\ \A i, j \in 1..Len(s.free) : s.free[i] = s.free[j] => i = j

CountersOK(s) ==
  /\ s.running_children >= Cardinality(RunningKeys(s))
  /\ s.live_tasks >= Cardinality(HandleKeys(s))

\* Instances are handed out once.
InstancesOK(s) ==
  /\ \A k \in Occupied(s) : s.children[k].instance < s.next_child_instance
  /\ \A j, k \in Occupied(s) :
       s.children[j].instance = s.children[k].instance => j = k
  /\ \A t \in s.join_set : t.instance < s.next_child_instance

\* The tasks of an entry sit at its slot, are of its generation or of an
\* earlier one, and the task of its generation is there exactly while the
\* entry has its handle.
TasksOK(s) ==
  /\ \A t, u \in s.join_set :
       t.instance = u.instance /\ t.generation = u.generation => t = u
  /\ \A k \in Occupied(s) : s.children[k].handle <=> IsActive(s.children[k])
  /\ \A k \in Occupied(s) :
       s.children[k].handle =>
         \E t \in s.join_set :
           /\ t.instance = s.children[k].instance
           /\ t.generation = s.children[k].generation
  /\ \A k \in Occupied(s), t \in s.join_set :
       t.instance = s.children[k].instance =>
         /\ t.key = k
         /\ s.children[k].has_started
         /\ t.generation <= s.children[k].generation
         /\ t.generation = s.children[k].generation => s.children[k].handle

TableInv(s) ==
  /\ TableTypeOK(s)
  /\ IndexOK(s)
  /\ CountersOK(s)
  /\ InstancesOK(s)
  /\ TasksOK(s)

-----------------------------------------------------------------------------
(* Types. *)

\* The helpers that change one entry return an entry.
LEMMA EntryTypes ==
  ASSUME NEW e \in Entry
  PROVE  /\ NextGeneration(e) \in Nat
         /\ SpawnedEntry(e) \in Entry
         /\ ExitedEntry(e) \in Entry
         /\ RemovingEntry(e) \in Entry
<1>1. NextGeneration(e) \in Nat
  BY DEF Entry, NextGeneration
<1>2. SpawnedEntry(e) \in Entry
  BY <1>1 DEF Entry, SpawnedEntry
<1>3. ExitedEntry(e) \in Entry
  BY DEF Entry, ExitedEntry
<1>4. RemovingEntry(e) \in Entry
  BY DEF Entry, RemovingEntry, IsActive
<1> QED
  BY <1>1, <1>2, <1>3, <1>4

\* record_exit clears the handle and changes nothing else that matters.
LEMMA ExitedEntryFields ==
  ASSUME NEW e \in Entry
  PROVE  LET f == ExitedEntry(e)
         IN /\ f \in Entry
            /\ f.id = e.id /\ f.instance = e.instance
            /\ f.generation = e.generation
            /\ f.has_started = e.has_started
            /\ f.state = "Stopped" /\ f.handle = FALSE
<1>1. ExitedEntry(e) \in Entry
  BY EntryTypes
<1> QED
  BY <1>1 DEF ExitedEntry, Entry

\* insert_child creates an entry.
LEMMA NewEntryType ==
  ASSUME NEW id \in Ids, NEW n \in Nat
  PROVE  NewEntry(id, n) \in Entry
  BY DEF Entry, NewEntry

\* The slab is finite, and so is every selection from it.
LEMMA OccupiedFinite ==
  ASSUME NEW s, TableInv(s)
  PROVE  /\ IsFiniteSet(Occupied(s))
         /\ \A K \in SUBSET Occupied(s) :
              IsFiniteSet(K) /\ Cardinality(K) \in Nat
         /\ IsFiniteSet(RunningKeys(s)) /\ Cardinality(RunningKeys(s)) \in Nat
         /\ IsFiniteSet(HandleKeys(s)) /\ Cardinality(HandleKeys(s)) \in Nat
<1>1. s.slots - 1 \in Int /\ Occupied(s) \subseteq 0..(s.slots - 1)
  BY DEF TableInv, IndexOK, TableTypeOK
<1>2. IsFiniteSet(0..(s.slots - 1))
  BY <1>1, FS_Interval
<1>3. IsFiniteSet(Occupied(s))
  BY <1>1, <1>2, FS_Subset
<1>4. \A K \in SUBSET Occupied(s) : IsFiniteSet(K) /\ Cardinality(K) \in Nat
  BY <1>3, FS_Subset, FS_CardinalityType
<1>5. RunningKeys(s) \subseteq Occupied(s) /\ HandleKeys(s) \subseteq Occupied(s)
  BY DEF RunningKeys, HandleKeys
<1> QED
  BY <1>3, <1>4, <1>5

-----------------------------------------------------------------------------
(* Tables that differ in nothing that TableInv depends on. *)

SameTask(t, u) ==
  t.key = u.key /\ t.instance = u.instance /\ t.generation = u.generation

SameChild(e, f) ==
  /\ e.id = f.id /\ e.instance = f.instance /\ e.generation = f.generation
  /\ e.has_started = f.has_started /\ e.handle = f.handle
  /\ IsActive(e) <=> IsActive(f)

Similar(s, t) ==
  /\ t.free = s.free /\ t.slots = s.slots
  /\ t.children_by_id = s.children_by_id /\ t.child_order = s.child_order
  /\ t.live_tasks = s.live_tasks
  /\ t.next_child_instance = s.next_child_instance
  /\ Occupied(t) = Occupied(s)
  /\ \A k \in Occupied(s) : SameChild(s.children[k], t.children[k])
  /\ \A u \in t.join_set : \E v \in s.join_set : SameTask(u, v)
  /\ \A v \in s.join_set : \E u \in t.join_set : SameTask(u, v)
  /\ \A u, v \in t.join_set : SameTask(u, v) => u = v

\* Such a change keeps the invariant, if running_children still covers.
LEMMA SimilarKeeps ==
  ASSUME NEW s, TableInv(s), NEW t, TableTypeOK(t), Similar(s, t),
         t.running_children >= Cardinality(RunningKeys(t))
  PROVE  TableInv(t)
<1>1. IndexOK(t)
  BY DEF TableInv, IndexOK, Similar, FreeKeys, SameChild
<1>2. HandleKeys(t) = HandleKeys(s)
  BY DEF HandleKeys, Similar, SameChild
<1>3. CountersOK(t)
  BY <1>2 DEF TableInv, CountersOK, Similar
<1>4. InstancesOK(t)
  BY DEF TableInv, InstancesOK, Similar, SameChild, SameTask
<1>5. TasksOK(t)
  <2>1. ASSUME NEW u \in t.join_set, NEW v \in t.join_set,
               u.instance = v.instance, u.generation = v.generation
        PROVE  u = v
    <3>1. PICK x \in s.join_set : SameTask(u, x)
      BY DEF Similar
    <3>2. PICK y \in s.join_set : SameTask(v, y)
      BY DEF Similar
    <3>3. x = y
      <4>1. x.instance = y.instance /\ x.generation = y.generation
        BY <2>1, <3>1, <3>2 DEF SameTask
      <4>2. TasksOK(s)
        BY DEF TableInv
      <4> QED
        BY <4>1, <4>2, <3>1, <3>2 DEF TasksOK
    <3> QED
      BY <3>1, <3>2, <3>3 DEF Similar, SameTask
  <2>2. \A k \in Occupied(t) : t.children[k].handle <=> IsActive(t.children[k])
    BY DEF TableInv, TasksOK, Similar, SameChild
  <2>3. ASSUME NEW k \in Occupied(t), t.children[k].handle
        PROVE  \E u \in t.join_set :
                 /\ u.instance = t.children[k].instance
                 /\ u.generation = t.children[k].generation
    <3>1. k \in Occupied(s) /\ SameChild(s.children[k], t.children[k])
      BY DEF Similar
    <3>2. PICK v \in s.join_set : /\ v.instance = s.children[k].instance
                                  /\ v.generation = s.children[k].generation
      BY <2>3, <3>1 DEF TableInv, TasksOK, SameChild
    <3> QED
      BY <3>1, <3>2 DEF Similar, SameChild, SameTask
  <2>4. ASSUME NEW k \in Occupied(t), NEW u \in t.join_set,
               u.instance = t.children[k].instance
        PROVE  /\ u.key = k
               /\ t.children[k].has_started
               /\ u.generation <= t.children[k].generation
               /\ u.generation = t.children[k].generation
                    => t.children[k].handle
    <3>1. k \in Occupied(s) /\ SameChild(s.children[k], t.children[k])
      BY DEF Similar
    <3>2. PICK v \in s.join_set : SameTask(u, v)
      BY DEF Similar
    <3> QED
      BY <2>4, <3>1, <3>2 DEF TableInv, TasksOK, SameChild, SameTask
  <2> QED
    BY <2>1, <2>2, <2>3, <2>4 DEF TasksOK
<1> QED
  BY <1>1, <1>3, <1>4, <1>5 DEF TableInv

\* Tokens and abort handles of any tasks may be used.
LEMMA SignalKeeps ==
  ASSUME NEW s, TableInv(s), NEW T
  PROVE  TableInv(CancelTasks(s, T)) /\ TableInv(AbortTasks(s, T))
<1>1. DOMAIN s = TableFields
  BY DEF TableInv, TableTypeOK
<1>2. \A t \in s.join_set : t \in Task
  BY DEF TableInv, TableTypeOK
<1>3. \A u, v \in s.join_set : SameTask(u, v) => u = v
  BY DEF TableInv, TasksOK, SameTask
<1>4. TableInv(CancelTasks(s, T))
  <2> DEFINE t == CancelTasks(s, T)
             C(u) == IF u \in T THEN [u EXCEPT !.cancelled = TRUE] ELSE u
  <2>1. /\ DOMAIN t = TableFields
        /\ t.free = s.free /\ t.slots = s.slots
        /\ t.children_by_id = s.children_by_id /\ t.child_order = s.child_order
        /\ t.live_tasks = s.live_tasks
        /\ t.next_child_instance = s.next_child_instance
        /\ t.children = s.children
        /\ t.running_children = s.running_children
        /\ t.group_cancelled = s.group_cancelled
    BY <1>1 DEF CancelTasks, TableFields
  <2>2. t.join_set = {C(u) : u \in s.join_set}
    BY <1>1 DEF CancelTasks, TableFields
  <2>3. \A u \in s.join_set : C(u) \in Task /\ SameTask(C(u), u)
    BY <1>2 DEF Task, SameTask
  <2> HIDE DEF t, C
  <2>4. TableTypeOK(t)
    BY <2>1, <2>2, <2>3 DEF TableInv, TableTypeOK, Occupied
  <2>5. Similar(s, t)
    BY <1>3, <2>1, <2>2, <2>3 DEF Similar, SameTask, SameChild, Occupied
  <2>6. t.running_children >= Cardinality(RunningKeys(t))
    BY <2>1 DEF TableInv, CountersOK, RunningKeys, Occupied
  <2> QED
    BY <2>4, <2>5, <2>6, SimilarKeeps DEF t
<1>5. TableInv(AbortTasks(s, T))
  <2> DEFINE t == AbortTasks(s, T)
             C(u) == IF u \in T THEN [u EXCEPT !.aborted = TRUE] ELSE u
  <2>1. /\ DOMAIN t = TableFields
        /\ t.free = s.free /\ t.slots = s.slots
        /\ t.children_by_id = s.children_by_id /\ t.child_order = s.child_order
        /\ t.live_tasks = s.live_tasks
        /\ t.next_child_instance = s.next_child_instance
        /\ t.children = s.children
        /\ t.running_children = s.running_children
        /\ t.group_cancelled = s.group_cancelled
    BY <1>1 DEF AbortTasks, TableFields
  <2>2. t.join_set = {C(u) : u \in s.join_set}
    BY <1>1 DEF AbortTasks, TableFields
  <2>3. \A u \in s.join_set : C(u) \in Task /\ SameTask(C(u), u)
    BY <1>2 DEF Task, SameTask
  <2> HIDE DEF t, C
  <2>4. TableTypeOK(t)
    BY <2>1, <2>2, <2>3 DEF TableInv, TableTypeOK, Occupied
  <2>5. Similar(s, t)
    BY <1>3, <2>1, <2>2, <2>3 DEF Similar, SameTask, SameChild, Occupied
  <2>6. t.running_children >= Cardinality(RunningKeys(t))
    BY <2>1 DEF TableInv, CountersOK, RunningKeys, Occupied
  <2> QED
    BY <2>4, <2>5, <2>6, SimilarKeeps DEF t
<1> QED
  BY <1>4, <1>5

-----------------------------------------------------------------------------
(* Insertion, spawning, exits and removal. *)

\* Slab::insert returns a vacant key.
LEMMA NextKeyIsVacant ==
  ASSUME NEW s, TableInv(s)
  PROVE  NextKey(s) \in Nat /\ NextKey(s) \notin Occupied(s)
<1>1. s.free \in Seq(Nat) /\ s.slots \in Nat
  BY DEF TableInv, TableTypeOK
<1>2. CASE s.free = <<>>
  <2>1. NextKey(s) = s.slots
    BY <1>2 DEF NextKey
  <2>2. Occupied(s) \subseteq 0..(s.slots - 1)
    BY DEF TableInv, IndexOK
  <2> QED
    BY <1>1, <2>1, <2>2
<1>3. CASE s.free # <<>>
  <2>1. NextKey(s) = s.free[1] /\ 1 \in 1..Len(s.free)
    BY <1>1, <1>3 DEF NextKey
  <2>2. NextKey(s) \in FreeKeys(s) /\ NextKey(s) \in Nat
    BY <1>1, <2>1 DEF FreeKeys
  <2> QED
    BY <2>2 DEF TableInv, IndexOK
<1> QED
  BY <1>2, <1>3

\* insert_child, for an id that is not in use.
LEMMA InsertKeeps ==
  ASSUME NEW s, TableInv(s), NEW id \in Ids, id \notin DOMAIN s.children_by_id
  PROVE  /\ TableInv(InsertChild(s, id))
         /\ NextKey(s) \in Occupied(InsertChild(s, id))
<1> DEFINE t == InsertChild(s, id)
           key == NextKey(s)
           e == NewEntry(id, s.next_child_instance)
<1>1. /\ TableTypeOK(s) /\ DOMAIN s = TableFields
      /\ s.children \in [Occupied(s) -> Entry]
      /\ s.free \in Seq(Nat) /\ s.slots \in Nat
      /\ s.next_child_instance \in Nat
  BY DEF TableInv, TableTypeOK
<1>2. /\ DOMAIN t = TableFields
      /\ t.children = [j \in Occupied(s) \cup {key} |->
                         IF j = key THEN e ELSE s.children[j]]
      /\ t.free = IF s.free = <<>> THEN <<>> ELSE Tail(s.free)
      /\ t.slots = IF s.free = <<>> THEN s.slots + 1 ELSE s.slots
      /\ t.children_by_id = [i \in DOMAIN s.children_by_id \cup {id} |->
                               IF i = id THEN key ELSE s.children_by_id[i]]
      /\ t.child_order = s.child_order \cup {key}
      /\ t.running_children = s.running_children
      /\ t.live_tasks = s.live_tasks
      /\ t.next_child_instance = s.next_child_instance + 1
      /\ t.group_cancelled = s.group_cancelled
      /\ t.join_set = s.join_set
  BY <1>1 DEF InsertChild, TableFields
<1>3. key \in Nat /\ key \notin Occupied(s)
  BY NextKeyIsVacant
<1>4. /\ e \in Entry /\ e.id = id /\ e.instance = s.next_child_instance
      /\ e.state = "Stopped" /\ e.handle = FALSE
  BY <1>1, NewEntryType DEF NewEntry
<1> HIDE DEF t, key, e
<1>5. /\ Occupied(t) = Occupied(s) \cup {key}
      /\ t.children[key] = e
      /\ \A k \in Occupied(s) : t.children[k] = s.children[k]
  BY <1>2, <1>3 DEF Occupied
<1>6. TableTypeOK(t)
  <2>1. t.children \in [Occupied(t) -> Entry]
    BY <1>1, <1>2, <1>4, <1>5
  <2>2. t.free \in Seq(Nat)
    BY <1>1, <1>2, EmptySeq
  <2>3. /\ DOMAIN t.children_by_id \subseteq Ids
        /\ t.children_by_id \in [DOMAIN t.children_by_id -> Nat]
    BY <1>1, <1>2, <1>3 DEF TableTypeOK
  <2> QED
    BY <1>1, <1>2, <1>3, <1>5, <2>1, <2>2, <2>3 DEF TableTypeOK
<1>7. IndexOK(t)
  <2>1. /\ s.child_order = Occupied(s)
        /\ \A k \in Occupied(s) :
             /\ s.children[k].id \in DOMAIN s.children_by_id
             /\ s.children_by_id[s.children[k].id] = k
        /\ \A i \in DOMAIN s.children_by_id :
             /\ s.children_by_id[i] \in Occupied(s)
             /\ s.children[s.children_by_id[i]].id = i
        /\ FreeKeys(s) \cap Occupied(s) = {}
        /\ FreeKeys(s) \cup Occupied(s) = 0..(s.slots - 1)
        /\ \A i, j \in 1..Len(s.free) : s.free[i] = s.free[j] => i = j
    BY DEF TableInv, IndexOK
  <2>2. t.child_order = Occupied(t)
    BY <1>2, <1>5, <2>1
  <2>3. \A k \in Occupied(t) :
          /\ t.children[k].id \in DOMAIN t.children_by_id
          /\ t.children_by_id[t.children[k].id] = k
    BY <1>2, <1>3, <1>4, <1>5, <2>1
  <2>4. \A i \in DOMAIN t.children_by_id :
          /\ t.children_by_id[i] \in Occupied(t)
          /\ t.children[t.children_by_id[i]].id = i
    BY <1>2, <1>3, <1>4, <1>5, <2>1
  <2>5. /\ FreeKeys(t) \cap Occupied(t) = {}
        /\ FreeKeys(t) \cup Occupied(t) = 0..(t.slots - 1)
        /\ \A i, j \in 1..Len(t.free) : t.free[i] = t.free[j] => i = j
    <3>1. CASE s.free = <<>>
      <4>1. t.free = <<>> /\ key = s.slots /\ t.slots = s.slots + 1
        BY <1>2, <3>1 DEF key, NextKey
      <4>2. FreeKeys(s) = {} /\ FreeKeys(t) = {}
        BY <3>1, <4>1 DEF FreeKeys
      <4>3. 0..(t.slots - 1) = 0..(s.slots - 1) \cup {s.slots}
        BY <1>1, <4>1
      <4> QED
        BY <1>5, <2>1, <4>1, <4>2, <4>3
    <3>2. CASE s.free # <<>>
      <4>1. /\ Len(s.free) \in Nat /\ Len(s.free) > 0
            /\ key = s.free[1] /\ t.slots = s.slots
        BY <1>1, <1>2, <3>2 DEF key, NextKey
      <4>2. /\ Len(t.free) = Len(s.free) - 1
            /\ \A i \in 1..Len(t.free) : t.free[i] = s.free[i + 1]
        BY <1>1, <1>2, <3>2, HeadTailProperties
      <4>3. \A i \in 1..Len(t.free) : i + 1 \in 1..Len(s.free) /\ i + 1 # 1
        BY <4>1, <4>2
      <4>4. \A i \in 1..Len(s.free) :
              i = 1 \/ (i - 1 \in 1..Len(t.free) /\ (i - 1) + 1 = i)
        BY <4>1, <4>2
      <4>5. 1 \in 1..Len(s.free)
        BY <4>1
      <4>6. \A i \in 1..Len(t.free) : t.free[i] \in FreeKeys(s) \ {key}
        BY <2>1, <4>1, <4>2, <4>3, <4>5 DEF FreeKeys
      <4>7. \A f \in FreeKeys(s) : f = key \/ f \in FreeKeys(t)
        <5> SUFFICES ASSUME NEW f \in FreeKeys(s), f # key
                     PROVE  f \in FreeKeys(t)
          OBVIOUS
        <5>1. PICK i \in 1..Len(s.free) : f = s.free[i]
          BY DEF FreeKeys
        <5>2. i - 1 \in 1..Len(t.free) /\ (i - 1) + 1 = i
          BY <4>1, <4>4, <5>1
        <5>3. t.free[i - 1] = f
          BY <4>2, <5>1, <5>2
        <5> QED
          BY <5>2, <5>3 DEF FreeKeys
      <4>8. FreeKeys(t) = FreeKeys(s) \ {key} /\ key \in FreeKeys(s)
        <5>1. key \in FreeKeys(s)
          BY <4>1, <4>5 DEF FreeKeys
        <5>2. \A f \in FreeKeys(t) : f \in FreeKeys(s) \ {key}
          BY <4>6 DEF FreeKeys
        <5> QED
          BY <4>7, <5>1, <5>2
      <4>9. \A i, j \in 1..Len(t.free) : t.free[i] = t.free[j] => i = j
        <5>1. \A i, j \in 1..Len(t.free) :
                s.free[i + 1] = s.free[j + 1] => i + 1 = j + 1
          BY <2>1, <4>3
        <5>2. \A i, j \in 1..Len(t.free) : i + 1 = j + 1 => i = j
          OBVIOUS
        <5> QED
          BY <4>2, <5>1, <5>2
      <4> QED
        BY <1>5, <2>1, <4>1, <4>8, <4>9
    <3> QED
      BY <3>1, <3>2
  <2> QED
    BY <2>2, <2>3, <2>4, <2>5 DEF IndexOK
<1>8. CountersOK(t)
  <2>1. RunningKeys(t) = RunningKeys(s) /\ HandleKeys(t) = HandleKeys(s)
    BY <1>3, <1>4, <1>5 DEF RunningKeys, HandleKeys, CountsAsRunning
  <2> QED
    BY <1>2, <2>1 DEF TableInv, CountersOK
<1>9. InstancesOK(t)
  <2>1. \A k \in Occupied(s) : s.children[k].instance \in Nat
    BY <1>1 DEF Entry
  <2>2. \A u \in s.join_set : u.instance \in Nat
    BY <1>1 DEF TableTypeOK, Task
  <2>3. InstancesOK(s)
    BY DEF TableInv
  <2> QED
    BY <1>1, <1>2, <1>4, <1>5, <2>1, <2>2, <2>3 DEF InstancesOK
<1>10. TasksOK(t)
  <2>1. TasksOK(s) /\ InstancesOK(s)
    BY DEF TableInv
  <2>2. \A u \in s.join_set : u.instance # e.instance
    <3>1. \A u \in s.join_set :
            u.instance \in Nat /\ u.instance < s.next_child_instance
      BY <1>1, <2>1 DEF InstancesOK, TableTypeOK, Task
    <3> QED
      BY <1>1, <1>4, <3>1
  <2>3. ~IsActive(e)
    BY <1>4 DEF IsActive
  <2> QED
    BY <1>2, <1>4, <1>5, <2>1, <2>2, <2>3 DEF TasksOK
<1> QED
  BY <1>5, <1>6, <1>7, <1>8, <1>9, <1>10 DEF TableInv, t, key

\* spawn_child, also of an entry that has a task already.
LEMMA SpawnKeeps ==
  ASSUME NEW s, TableInv(s), NEW K \in SUBSET Occupied(s)
  PROVE  TableInv(SpawnChildren(s, K))
<1> DEFINE t == SpawnChildren(s, K)
           idle == {k \in K : ~CountsAsRunning(s.children[k])}
<1>1. /\ TableTypeOK(s) /\ DOMAIN s = TableFields
      /\ s.children \in [Occupied(s) -> Entry]
      /\ InstancesOK(s) /\ TasksOK(s)
  BY DEF TableInv, TableTypeOK
<1>2. /\ DOMAIN t = TableFields
      /\ t.children = [k \in Occupied(s) |->
                         IF k \in K THEN SpawnedEntry(s.children[k])
                                    ELSE s.children[k]]
      /\ t.free = s.free /\ t.slots = s.slots
      /\ t.children_by_id = s.children_by_id /\ t.child_order = s.child_order
      /\ t.running_children = s.running_children + Cardinality(idle)
      /\ t.live_tasks = s.live_tasks + Cardinality(K)
      /\ t.next_child_instance = s.next_child_instance
      /\ t.group_cancelled = s.group_cancelled
      /\ t.join_set = s.join_set \cup {SpawnedTask(s, k) : k \in K}
  BY <1>1 DEF SpawnChildren, TableFields
<1>3. /\ IsFiniteSet(K) /\ Cardinality(K) \in Nat
      /\ IsFiniteSet(idle) /\ Cardinality(idle) \in Nat
      /\ IsFiniteSet(RunningKeys(s)) /\ Cardinality(RunningKeys(s)) \in Nat
      /\ IsFiniteSet(HandleKeys(s)) /\ Cardinality(HandleKeys(s)) \in Nat
  BY OccupiedFinite
<1> HIDE DEF t
<1>4. /\ Occupied(t) = Occupied(s)
      /\ \A k \in Occupied(s) :
           t.children[k] = IF k \in K THEN SpawnedEntry(s.children[k])
                                      ELSE s.children[k]
  BY <1>2 DEF Occupied
<1>5. \A k \in Occupied(s) :
        LET e == s.children[k]
            f == SpawnedEntry(e)
        IN /\ e.instance \in Nat /\ e.generation \in Nat
           /\ f.id = e.id /\ f.instance = e.instance
           /\ f.generation = NextGeneration(e)
           /\ f.state = "Running" /\ f.has_started = TRUE /\ f.handle = TRUE
  BY <1>1 DEF SpawnedEntry, Entry
<1>6. \A k \in K :
        LET u == SpawnedTask(s, k)
        IN /\ u \in Task /\ u.key = k
           /\ u.instance = s.children[k].instance
           /\ u.generation = NextGeneration(s.children[k])
  <2> SUFFICES ASSUME NEW k \in K
               PROVE  LET u == SpawnedTask(s, k)
                      IN /\ u \in Task /\ u.key = k
                         /\ u.instance = s.children[k].instance
                         /\ u.generation = NextGeneration(s.children[k])
    OBVIOUS
  <2>1. s.children[k] \in Entry
    BY <1>1
  <2>2. /\ NextGeneration(s.children[k]) \in Nat /\ k \in Nat
        /\ s.children[k].instance \in Nat /\ s.group_cancelled \in BOOLEAN
    BY <1>1, <2>1, EntryTypes DEF Entry, TableTypeOK
  <2> QED
    BY <2>2 DEF SpawnedTask, Task
<1>7. \A k \in Occupied(s) :
        LET e == s.children[k]
        IN /\ NextGeneration(e) >= e.generation
           /\ e.has_started => NextGeneration(e) > e.generation
  BY <1>5 DEF NextGeneration
<1>8. TableTypeOK(t)
  <2>1. t.children \in [Occupied(t) -> Entry]
    BY <1>1, <1>2, <1>4, EntryTypes
  <2>2. t.running_children \in Nat /\ t.live_tasks \in Nat
    BY <1>1, <1>2, <1>3 DEF TableTypeOK
  <2>3. t.join_set \subseteq Task
    BY <1>1, <1>2, <1>6 DEF TableTypeOK
  <2> QED
    BY <1>1, <1>2, <1>4, <2>1, <2>2, <2>3 DEF TableTypeOK
<1>9. IndexOK(t)
  <2>1. IndexOK(s)
    BY DEF TableInv
  <2>2. \A k \in Occupied(s) : t.children[k].id = s.children[k].id
    BY <1>4, <1>5
  <2> QED
    BY <1>2, <1>4, <2>1, <2>2 DEF IndexOK, FreeKeys
<1>10. CountersOK(t)
  <2>1. RunningKeys(t) = RunningKeys(s) \cup idle
    BY <1>4, <1>5 DEF RunningKeys, CountsAsRunning
  <2>2. HandleKeys(t) = HandleKeys(s) \cup K
    BY <1>4, <1>5 DEF HandleKeys
  <2>3. \A S, T : IsFiniteSet(S) /\ IsFiniteSet(T)
                    => Cardinality(S \cup T) <= Cardinality(S) + Cardinality(T)
    <3> SUFFICES ASSUME NEW S, NEW T, IsFiniteSet(S), IsFiniteSet(T)
                 PROVE  Cardinality(S \cup T) <= Cardinality(S) + Cardinality(T)
      OBVIOUS
    <3>1. Cardinality(S \cup T) =
            Cardinality(S) + Cardinality(T) - Cardinality(S \cap T)
      BY FS_Union
    <3>2. /\ Cardinality(S) \in Nat /\ Cardinality(T) \in Nat
          /\ Cardinality(S \cap T) \in Nat
      BY FS_Intersection, FS_CardinalityType
    <3> QED
      BY <3>1, <3>2
  <2>4. Cardinality(RunningKeys(t)) <= Cardinality(RunningKeys(s)) + Cardinality(idle)
    BY <1>3, <2>1, <2>3
  <2>5. Cardinality(HandleKeys(t)) <= Cardinality(HandleKeys(s)) + Cardinality(K)
    BY <1>3, <2>2, <2>3
  <2>6. /\ Cardinality(RunningKeys(t)) \in Nat
        /\ Cardinality(HandleKeys(t)) \in Nat
    BY <1>3, <2>1, <2>2, FS_Union, FS_CardinalityType
  <2>7. /\ s.running_children >= Cardinality(RunningKeys(s))
        /\ s.live_tasks >= Cardinality(HandleKeys(s))
        /\ s.running_children \in Nat /\ s.live_tasks \in Nat
    BY DEF TableInv, CountersOK, TableTypeOK
  <2> QED
    BY <1>2, <1>3, <2>4, <2>5, <2>6, <2>7 DEF CountersOK
<1>11. InstancesOK(t)
  <2>1. \A k \in Occupied(s) : t.children[k].instance = s.children[k].instance
    BY <1>4, <1>5
  <2> QED
    BY <1>1, <1>2, <1>4, <1>6, <2>1 DEF InstancesOK
<1>12. TasksOK(t)
  <2>1. ASSUME NEW u \in s.join_set, NEW k \in K,
               u.instance = s.children[k].instance
        PROVE  /\ u.key = k /\ u.generation \in Nat
               /\ u.generation < NextGeneration(s.children[k])
    <3>1. /\ k \in Occupied(s) /\ u.key = k /\ s.children[k].has_started
          /\ u.generation <= s.children[k].generation
      BY <1>1, <2>1 DEF TasksOK
    <3>2. u.generation \in Nat /\ NextGeneration(s.children[k]) \in Nat
      BY <1>1, EntryTypes DEF TableTypeOK, Task
    <3> QED
      BY <1>5, <1>7, <3>1, <3>2
  <2>2. ASSUME NEW j \in K, NEW k \in K,
               s.children[j].instance = s.children[k].instance
        PROVE  j = k
    BY <1>1, <2>2 DEF InstancesOK
  <2>3. ASSUME NEW u \in t.join_set, NEW v \in t.join_set,
               u.instance = v.instance, u.generation = v.generation
        PROVE  u = v
    <3>1. CASE u \in s.join_set /\ v \in s.join_set
      BY <1>1, <2>3, <3>1 DEF TasksOK
    <3>2. CASE u \in s.join_set /\ v \notin s.join_set
      <4>1. PICK k \in K : v = SpawnedTask(s, k)
        BY <1>2, <3>2
      <4>2. u.instance = s.children[k].instance
            /\ u.generation = NextGeneration(s.children[k])
        BY <1>6, <2>3, <4>1
      <4> QED
        BY <2>1, <3>2, <4>2
    <3>3. CASE u \notin s.join_set /\ v \in s.join_set
      <4>1. PICK k \in K : u = SpawnedTask(s, k)
        BY <1>2, <3>3
      <4>2. v.instance = s.children[k].instance
            /\ v.generation = NextGeneration(s.children[k])
        BY <1>6, <2>3, <4>1
      <4> QED
        BY <2>1, <3>3, <4>2
    <3>4. CASE u \notin s.join_set /\ v \notin s.join_set
      <4>1. PICK j \in K : u = SpawnedTask(s, j)
        BY <1>2, <3>4
      <4>2. PICK k \in K : v = SpawnedTask(s, k)
        BY <1>2, <3>4
      <4> QED
        BY <1>6, <2>2, <2>3, <4>1, <4>2
    <3> QED
      BY <3>1, <3>2, <3>3, <3>4
  <2>4. \A k \in Occupied(t) : t.children[k].handle <=> IsActive(t.children[k])
    BY <1>1, <1>4, <1>5 DEF TasksOK, IsActive
  <2>5. ASSUME NEW k \in Occupied(t), t.children[k].handle
        PROVE  \E u \in t.join_set :
                 /\ u.instance = t.children[k].instance
                 /\ u.generation = t.children[k].generation
    <3>1. CASE k \in K
      BY <1>2, <1>4, <1>5, <1>6, <3>1
    <3>2. CASE k \notin K
      BY <1>1, <1>2, <1>4, <2>5, <3>2 DEF TasksOK
    <3> QED
      BY <3>1, <3>2
  <2>6. ASSUME NEW k \in Occupied(t), NEW u \in t.join_set,
               u.instance = t.children[k].instance
        PROVE  /\ u.key = k
               /\ t.children[k].has_started
               /\ u.generation <= t.children[k].generation
               /\ u.generation = t.children[k].generation
                    => t.children[k].handle
    <3>1. k \in Occupied(s) /\ u.instance = s.children[k].instance
      BY <1>4, <1>5, <2>6
    <3>2. CASE u \in s.join_set /\ k \in K
      <4>1. /\ u.key = k /\ u.generation \in Nat
            /\ u.generation < NextGeneration(s.children[k])
        BY <2>1, <3>1, <3>2
      <4>2. NextGeneration(s.children[k]) \in Nat
        BY <1>1, <3>1, EntryTypes
      <4> QED
        BY <1>4, <1>5, <3>1, <3>2, <4>1, <4>2
    <3>3. CASE u \in s.join_set /\ k \notin K
      BY <1>1, <1>4, <3>1, <3>3 DEF TasksOK
    <3>4. CASE u \notin s.join_set
      <4>1. PICK j \in K : u = SpawnedTask(s, j)
        BY <1>2, <3>4
      <4>2. j = k /\ u.key = j /\ u.generation = NextGeneration(s.children[j])
        BY <1>1, <1>6, <3>1, <4>1 DEF InstancesOK
      <4>3. NextGeneration(s.children[k]) \in Nat
        BY <1>1, <3>1, EntryTypes
      <4> QED
        BY <1>4, <1>5, <3>1, <4>2, <4>3
    <3> QED
      BY <3>2, <3>3, <3>4
  <2> QED
    BY <2>3, <2>4, <2>5, <2>6 DEF TasksOK
<1> QED
  BY <1>8, <1>9, <1>10, <1>11, <1>12 DEF TableInv, t

\* consume_joined_child of a task that was joined.
LEMMA JoinKeeps ==
  ASSUME NEW s, TableInv(s), NEW t \in s.join_set
  PROVE  TableInv(JoinChild(s, t))
<1> DEFINE r == JoinChild(s, t)
           key == t.key
           e == s.children[key]
<1>1. /\ TableTypeOK(s) /\ DOMAIN s = TableFields
      /\ s.children \in [Occupied(s) -> Entry]
      /\ IndexOK(s) /\ CountersOK(s) /\ InstancesOK(s) /\ TasksOK(s)
      /\ s.running_children \in Nat /\ s.live_tasks \in Nat
  BY DEF TableInv, TableTypeOK
<1>2. /\ DOMAIN r = TableFields
      /\ r.join_set = s.join_set \ {t}
      /\ r.free = s.free /\ r.slots = s.slots
      /\ r.children_by_id = s.children_by_id /\ r.child_order = s.child_order
      /\ r.next_child_instance = s.next_child_instance
      /\ r.group_cancelled = s.group_cancelled
  BY <1>1 DEF JoinChild, TableFields
<1>3. CASE IsCurrent(s, t)
  <2>1. /\ r.children = [k \in Occupied(s) |->
                           IF k = key THEN ExitedEntry(s.children[k])
                                      ELSE s.children[k]]
        /\ r.running_children = IF CountsAsRunning(e)
                                THEN SaturatingSub(s.running_children, 1)
                                ELSE s.running_children
        /\ r.live_tasks = SaturatingSub(s.live_tasks, 1)
    BY <1>1, <1>3 DEF JoinChild, TableFields
  <2>2. /\ key \in Occupied(s) /\ e \in Entry
        /\ e.instance = t.instance /\ e.generation = t.generation
    BY <1>1, <1>3 DEF IsCurrent
  <2>3. e.handle = TRUE
    BY <1>1, <2>2 DEF TasksOK, Entry
  <2> HIDE DEF r
  <2>4. /\ Occupied(r) = Occupied(s)
        /\ \A k \in Occupied(s) : k # key => r.children[k] = s.children[k]
        /\ r.children[key] = ExitedEntry(e)
    BY <2>1, <2>2 DEF Occupied
  <2>5. /\ r.children[key] \in Entry
        /\ r.children[key].id = e.id
        /\ r.children[key].instance = e.instance
        /\ r.children[key].generation = e.generation
        /\ r.children[key].has_started = e.has_started
        /\ r.children[key].state = "Stopped"
        /\ r.children[key].handle = FALSE
    <3> DEFINE f == ExitedEntry(e)
    <3>1. /\ f \in Entry
          /\ f.id = e.id /\ f.instance = e.instance
          /\ f.generation = e.generation
          /\ f.has_started = e.has_started
          /\ f.state = "Stopped" /\ f.handle = FALSE
      BY <2>2, ExitedEntryFields
    <3>2. r.children[key] = f
      BY <2>4
    <3> HIDE DEF f
    <3> QED
      BY <3>1, <3>2
  <2> HIDE DEF key, e
  <2>6. TableTypeOK(r)
    <3>1. r.children \in [Occupied(r) -> Entry]
      BY <1>1, <2>1, <2>2, <2>4, EntryTypes
    <3>2. r.running_children \in Nat /\ r.live_tasks \in Nat
      BY <1>1, <2>1 DEF SaturatingSub
    <3> QED
      BY <1>1, <1>2, <2>4, <3>1, <3>2 DEF TableTypeOK
  <2>7. IndexOK(r)
    <3>1. \A k \in Occupied(s) : r.children[k].id = s.children[k].id
      BY <2>4, <2>5 DEF e
    <3>2. FreeKeys(r) = FreeKeys(s)
      BY <1>2 DEF FreeKeys
    <3> QED
      BY <1>1, <1>2, <2>4, <3>1, <3>2 DEF IndexOK
  <2>8. CountersOK(r)
    <3>1. RunningKeys(r) = RunningKeys(s) \ {key}
      BY <2>2, <2>4, <2>5 DEF RunningKeys, CountsAsRunning
    <3>2. key \in RunningKeys(s) <=> CountsAsRunning(e)
      BY <2>2 DEF RunningKeys, e
    <3>3. HandleKeys(r) = HandleKeys(s) \ {key} /\ key \in HandleKeys(s)
      BY <2>2, <2>3, <2>4, <2>5 DEF HandleKeys, e
    <3>4. /\ Cardinality(RunningKeys(r)) =
               IF key \in RunningKeys(s) THEN Cardinality(RunningKeys(s)) - 1
                                         ELSE Cardinality(RunningKeys(s))
          /\ Cardinality(HandleKeys(r)) = Cardinality(HandleKeys(s)) - 1
          /\ Cardinality(RunningKeys(s)) \in Nat
          /\ Cardinality(HandleKeys(s)) \in Nat
      BY <3>1, <3>3, OccupiedFinite, FS_RemoveElement
    <3> QED
      BY <1>1, <2>1, <3>2, <3>4 DEF CountersOK, SaturatingSub
  <2>9. InstancesOK(r)
    <3>1. \A k \in Occupied(s) : r.children[k].instance = s.children[k].instance
      BY <2>4, <2>5 DEF e
    <3> QED
      BY <1>1, <1>2, <2>4, <3>1 DEF InstancesOK
  <2>10. TasksOK(r)
    <3>1. \A u \in r.join_set : u \in s.join_set /\ u # t
      BY <1>2
    <3>2. \A u \in r.join_set : ~(/\ u.instance = e.instance
                                  /\ u.generation = e.generation)
      BY <1>1, <2>2, <3>1 DEF TasksOK
    <3>3. \A u, v \in r.join_set :
            u.instance = v.instance /\ u.generation = v.generation => u = v
      BY <1>1, <3>1 DEF TasksOK
    <3>4. \A k \in Occupied(r) :
            r.children[k].handle <=> IsActive(r.children[k])
      BY <1>1, <2>4, <2>5 DEF TasksOK, IsActive
    <3>5. ASSUME NEW k \in Occupied(r), r.children[k].handle
          PROVE  \E u \in r.join_set :
                   /\ u.instance = r.children[k].instance
                   /\ u.generation = r.children[k].generation
      <4>1. k # key /\ k \in Occupied(s) /\ r.children[k] = s.children[k]
        BY <2>4, <2>5, <3>5
      <4>2. PICK u \in s.join_set : /\ u.instance = s.children[k].instance
                                    /\ u.generation = s.children[k].generation
        BY <1>1, <3>5, <4>1 DEF TasksOK
      <4>3. u # t
        BY <1>1, <2>2, <4>1, <4>2 DEF InstancesOK, e
      <4> QED
        BY <1>2, <4>1, <4>2, <4>3
    <3>6. ASSUME NEW k \in Occupied(r), NEW u \in r.join_set,
                 u.instance = r.children[k].instance
          PROVE  /\ u.key = k
                 /\ r.children[k].has_started
                 /\ u.generation <= r.children[k].generation
                 /\ u.generation = r.children[k].generation
                      => r.children[k].handle
      <4>1. CASE k = key
        BY <1>1, <2>2, <2>5, <3>1, <3>2, <3>6, <4>1 DEF TasksOK, e
      <4>2. CASE k # key
        BY <1>1, <2>4, <3>1, <3>6, <4>2 DEF TasksOK
      <4> QED
        BY <4>1, <4>2
    <3> QED
      BY <3>3, <3>4, <3>5, <3>6 DEF TasksOK
  <2> QED
    BY <2>6, <2>7, <2>8, <2>9, <2>10 DEF TableInv, r
<1>4. CASE ~IsCurrent(s, t)
  <2>1. /\ r.children = s.children
        /\ r.running_children = s.running_children
        /\ r.live_tasks = s.live_tasks
    BY <1>1, <1>4 DEF JoinChild, TableFields
  <2> HIDE DEF r
  <2>2. Occupied(r) = Occupied(s)
    BY <2>1 DEF Occupied
  <2>3. TableTypeOK(r)
    BY <1>1, <1>2, <2>1, <2>2 DEF TableTypeOK
  <2>4. IndexOK(r) /\ CountersOK(r) /\ InstancesOK(r)
    BY <1>1, <1>2, <2>1, <2>2
       DEF IndexOK, CountersOK, InstancesOK, RunningKeys, HandleKeys, FreeKeys
  <2>5. ASSUME NEW k \in Occupied(s),
               t.instance = s.children[k].instance
        PROVE  t.generation # s.children[k].generation
    BY <1>1, <1>4, <2>5 DEF TasksOK, IsCurrent
  <2>6. TasksOK(r)
    <3>1. ASSUME NEW k \in Occupied(r), r.children[k].handle
          PROVE  \E u \in r.join_set :
                   /\ u.instance = r.children[k].instance
                   /\ u.generation = r.children[k].generation
      <4>1. PICK u \in s.join_set : /\ u.instance = s.children[k].instance
                                    /\ u.generation = s.children[k].generation
        BY <1>1, <2>1, <2>2, <3>1 DEF TasksOK
      <4>2. u # t
        BY <2>2, <2>5, <4>1
      <4> QED
        BY <1>2, <2>1, <4>1, <4>2
    <3> QED
      BY <1>1, <1>2, <2>1, <2>2, <3>1 DEF TasksOK
  <2> QED
    BY <2>3, <2>4, <2>6 DEF TableInv, r
<1> QED
  BY <1>3, <1>4

\* finalize_removed_child, whatever state the child is in.
LEMMA FinalizeKeeps ==
  ASSUME NEW s, TableInv(s), NEW key \in Occupied(s)
  PROVE  TableInv(FinalizeRemoved(s, key))
<1> DEFINE r == FinalizeRemoved(s, key)
           e == s.children[key]
<1>1. /\ TableTypeOK(s) /\ DOMAIN s = TableFields
      /\ s.children \in [Occupied(s) -> Entry]
      /\ IndexOK(s) /\ CountersOK(s) /\ InstancesOK(s) /\ TasksOK(s)
      /\ s.free \in Seq(Nat) /\ key \in Nat
      /\ s.running_children \in Nat /\ s.live_tasks \in Nat
  BY DEF TableInv, TableTypeOK
<1>2. /\ DOMAIN r = TableFields
      /\ r.children = [k \in Occupied(s) \ {key} |-> s.children[k]]
      /\ r.free = <<key>> \o s.free
      /\ r.children_by_id = [i \in DOMAIN s.children_by_id \ {e.id} |->
                               s.children_by_id[i]]
      /\ r.child_order = s.child_order \ {key}
      /\ r.live_tasks = IF e.handle THEN SaturatingSub(s.live_tasks, 1)
                                    ELSE s.live_tasks
      /\ r.slots = s.slots
      /\ r.running_children = s.running_children
      /\ r.next_child_instance = s.next_child_instance
      /\ r.group_cancelled = s.group_cancelled
      /\ r.join_set = s.join_set
  BY <1>1 DEF FinalizeRemoved, TableFields
<1> HIDE DEF r
<1>3. /\ Occupied(r) = Occupied(s) \ {key}
      /\ \A k \in Occupied(r) : r.children[k] = s.children[k]
  BY <1>2 DEF Occupied
<1>4. /\ <<key>> \in Seq(Nat) /\ Len(<<key>>) = 1 /\ <<key>>[1] = key
      /\ Len(s.free) \in Nat
  BY <1>1
<1>5. /\ r.free \in Seq(Nat) /\ Len(r.free) = Len(s.free) + 1
      /\ r.free[1] = key
      /\ \A i \in 1..Len(s.free) : r.free[i + 1] = s.free[i]
  <2>1. /\ r.free \in Seq(Nat) /\ Len(r.free) = 1 + Len(s.free)
        /\ \A i \in 1..(1 + Len(s.free)) :
             r.free[i] = IF i <= 1 THEN <<key>>[i] ELSE s.free[i - 1]
    BY <1>1, <1>2, <1>4, ConcatProperties
  <2>2. \A i \in 1..Len(s.free) :
          /\ i + 1 \in 1..(1 + Len(s.free))
          /\ ~(i + 1 <= 1) /\ (i + 1) - 1 = i
    BY <1>4
  <2>3. 1 \in 1..(1 + Len(s.free)) /\ 1 <= 1
    BY <1>4
  <2> QED
    BY <1>4, <2>1, <2>2, <2>3
<1>6. TableTypeOK(r)
  <2>1. r.children \in [Occupied(r) -> Entry]
    BY <1>1, <1>2, <1>3
  <2>2. r.live_tasks \in Nat
    BY <1>1, <1>2 DEF SaturatingSub
  <2>3. /\ DOMAIN r.children_by_id \subseteq Ids
        /\ r.children_by_id \in [DOMAIN r.children_by_id -> Nat]
    BY <1>1, <1>2 DEF TableTypeOK
  <2> QED
    BY <1>1, <1>2, <1>3, <1>5, <2>1, <2>2, <2>3 DEF TableTypeOK
<1>7. IndexOK(r)
  <2>1. /\ s.child_order = Occupied(s)
        /\ \A k \in Occupied(s) :
             /\ s.children[k].id \in DOMAIN s.children_by_id
             /\ s.children_by_id[s.children[k].id] = k
        /\ \A i \in DOMAIN s.children_by_id :
             /\ s.children_by_id[i] \in Occupied(s)
             /\ s.children[s.children_by_id[i]].id = i
        /\ FreeKeys(s) \cap Occupied(s) = {}
        /\ FreeKeys(s) \cup Occupied(s) = 0..(s.slots - 1)
        /\ \A i, j \in 1..Len(s.free) : s.free[i] = s.free[j] => i = j
    BY <1>1 DEF IndexOK
  <2>2. r.child_order = Occupied(r)
    BY <1>2, <1>3, <2>1
  <2>3. \A k \in Occupied(r) :
          /\ r.children[k].id \in DOMAIN r.children_by_id
          /\ r.children_by_id[r.children[k].id] = k
    BY <1>2, <1>3, <2>1
  <2>4. \A i \in DOMAIN r.children_by_id :
          /\ r.children_by_id[i] \in Occupied(r)
          /\ r.children[r.children_by_id[i]].id = i
    <3> SUFFICES ASSUME NEW i \in DOMAIN r.children_by_id
                 PROVE  /\ r.children_by_id[i] \in Occupied(r)
                        /\ r.children[r.children_by_id[i]].id = i
      OBVIOUS
    <3>1. /\ i \in DOMAIN s.children_by_id /\ i # e.id
          /\ r.children_by_id[i] = s.children_by_id[i]
      BY <1>2
    <3>2. s.children_by_id[i] \in Occupied(s) /\ s.children_by_id[i] # key
      BY <2>1, <3>1
    <3>3. r.children[s.children_by_id[i]] = s.children[s.children_by_id[i]]
      BY <1>3, <3>2
    <3> QED
      <4>1. r.children_by_id[i] \in Occupied(r)
        BY <1>3, <3>1, <3>2
      <4>2. s.children[s.children_by_id[i]].id = i
        BY <2>1, <3>1
      <4> QED
        BY <3>1, <3>3, <4>1, <4>2, Zenon
  <2>5. \A i \in 1..Len(r.free) :
          i = 1 \/ (i - 1 \in 1..Len(s.free) /\ (i - 1) + 1 = i)
    BY <1>4, <1>5
  <2>6. FreeKeys(r) = FreeKeys(s) \cup {key}
    <3>1. 1 \in 1..Len(r.free)
          /\ \A i \in 1..Len(s.free) : i + 1 \in 1..Len(r.free)
      BY <1>4, <1>5
    <3>2. FreeKeys(s) \cup {key} \subseteq FreeKeys(r)
      BY <1>5, <3>1 DEF FreeKeys
    <3>3. FreeKeys(r) \subseteq FreeKeys(s) \cup {key}
      <4> SUFFICES ASSUME NEW f \in FreeKeys(r), f # key
                   PROVE  f \in FreeKeys(s)
        OBVIOUS
      <4>1. PICK i \in 1..Len(r.free) : f = r.free[i]
        BY DEF FreeKeys
      <4>2. i - 1 \in 1..Len(s.free) /\ (i - 1) + 1 = i
        BY <1>5, <2>5, <4>1
      <4>3. s.free[i - 1] = f
        BY <1>5, <4>1, <4>2
      <4> QED
        BY <4>2, <4>3 DEF FreeKeys
    <3> QED
      BY <3>2, <3>3
  <2>7. ASSUME NEW i \in 1..Len(r.free), NEW j \in 1..Len(r.free),
               r.free[i] = r.free[j]
        PROVE  i = j
    <3>1. \A m \in 1..Len(s.free) : s.free[m] # key
      BY <2>1 DEF FreeKeys
    <3>2. CASE i = 1 /\ j = 1
      BY <3>2
    <3>3. CASE i = 1 /\ j # 1
      <4>1. j - 1 \in 1..Len(s.free) /\ r.free[j] = s.free[j - 1]
        BY <1>5, <2>5, <3>3
      <4> QED
        BY <1>5, <2>7, <3>1, <3>3, <4>1
    <3>4. CASE i # 1 /\ j = 1
      <4>1. i - 1 \in 1..Len(s.free) /\ r.free[i] = s.free[i - 1]
        BY <1>5, <2>5, <3>4
      <4> QED
        BY <1>5, <2>7, <3>1, <3>4, <4>1
    <3>5. CASE i # 1 /\ j # 1
      <4>1. /\ i - 1 \in 1..Len(s.free) /\ r.free[i] = s.free[i - 1]
            /\ j - 1 \in 1..Len(s.free) /\ r.free[j] = s.free[j - 1]
        BY <1>5, <2>5, <3>5
      <4>2. s.free[i - 1] = s.free[j - 1]
        BY <2>7, <4>1
      <4>3. i - 1 = j - 1
        BY <2>1, <4>1, <4>2
      <4>4. i \in Nat /\ j \in Nat
        BY <1>5
      <4> QED
        BY <4>3, <4>4
    <3> QED
      BY <3>2, <3>3, <3>4, <3>5
  <2> QED
    <3>1. r.slots = s.slots /\ key \in Occupied(s)
      BY <1>2
    <3>2. /\ FreeKeys(r) \cap Occupied(r) = {}
          /\ FreeKeys(r) \cup Occupied(r) = 0..(r.slots - 1)
      BY <1>3, <2>1, <2>6, <3>1
    <3> QED
      BY <2>2, <2>3, <2>4, <2>7, <3>2 DEF IndexOK
<1>8. CountersOK(r)
  <2>1. RunningKeys(r) = RunningKeys(s) \ {key}
        /\ HandleKeys(r) = HandleKeys(s) \ {key}
    BY <1>3 DEF RunningKeys, HandleKeys
  <2>2. key \in HandleKeys(s) <=> e.handle
    BY DEF HandleKeys
  <2>3. /\ Cardinality(RunningKeys(r)) <= Cardinality(RunningKeys(s))
        /\ Cardinality(RunningKeys(r)) \in Nat
        /\ Cardinality(RunningKeys(s)) \in Nat
        /\ Cardinality(HandleKeys(r)) =
             IF key \in HandleKeys(s) THEN Cardinality(HandleKeys(s)) - 1
                                      ELSE Cardinality(HandleKeys(s))
        /\ Cardinality(HandleKeys(s)) \in Nat
    BY <2>1, OccupiedFinite, FS_RemoveElement, FS_CardinalityType
  <2> QED
    BY <1>1, <1>2, <2>2, <2>3 DEF CountersOK, SaturatingSub
<1>9. InstancesOK(r)
  BY <1>1, <1>2, <1>3 DEF InstancesOK
<1>10. TasksOK(r)
  BY <1>1, <1>2, <1>3 DEF TasksOK
<1> QED
  BY <1>6, <1>7, <1>8, <1>9, <1>10 DEF TableInv, r

-----------------------------------------------------------------------------
(* Changes of entries in place. *)

\* An entry may change its state among the active ones, its membership, its
\* terminal status and its restarts.
LEMMA EntriesKeep ==
  ASSUME NEW s, TableInv(s), NEW t,
         DOMAIN t = TableFields,
         t.free = s.free, t.slots = s.slots,
         t.children_by_id = s.children_by_id, t.child_order = s.child_order,
         t.live_tasks = s.live_tasks,
         t.next_child_instance = s.next_child_instance,
         t.join_set = s.join_set,
         t.group_cancelled \in BOOLEAN,
         t.children \in [Occupied(s) -> Entry],
         \A k \in Occupied(s) : SameChild(s.children[k], t.children[k]),
         t.running_children \in Nat,
         t.running_children >= Cardinality(RunningKeys(t))
  PROVE  TableInv(t)
<1>1. Occupied(t) = Occupied(s)
  BY DEF Occupied
<1>2. TableTypeOK(t)
  BY <1>1 DEF TableInv, TableTypeOK
<1>3. Similar(s, t)
  <2>1. \A u, v \in s.join_set : SameTask(u, v) => u = v
    BY DEF TableInv, TasksOK, SameTask
  <2>2. \A u \in s.join_set : SameTask(u, u)
    BY DEF SameTask
  <2> QED
    BY <1>1, <2>1, <2>2 DEF Similar
<1> QED
  BY <1>2, <1>3, SimilarKeeps

\* record_terminal_status and RestartTracker::record.
LEMMA RecordKeeps ==
  ASSUME NEW s, TableInv(s)
  PROVE  /\ \A t : TableInv(RecordTerminal(s, t))
         /\ \A key : TableInv(RecordRestart(s, key))
<1>1. /\ DOMAIN s = TableFields /\ s.children \in [Occupied(s) -> Entry]
      /\ s.running_children \in Nat /\ s.group_cancelled \in BOOLEAN
      /\ s.running_children >= Cardinality(RunningKeys(s))
  BY DEF TableInv, TableTypeOK, CountersOK
<1>2. ASSUME NEW t
      PROVE  TableInv(RecordTerminal(s, t))
  <2> DEFINE r == RecordTerminal(s, t)
             status == IF t.status = "Completed" THEN "ok" ELSE "failed"
             E(e) == [e EXCEPT !.terminal = status]
  <2>1. /\ DOMAIN r = TableFields
        /\ r.children = [k \in Occupied(s) |->
                           IF k = t.key THEN E(s.children[k])
                                        ELSE s.children[k]]
        /\ r.free = s.free /\ r.slots = s.slots
        /\ r.children_by_id = s.children_by_id /\ r.child_order = s.child_order
        /\ r.running_children = s.running_children
        /\ r.live_tasks = s.live_tasks
        /\ r.next_child_instance = s.next_child_instance
        /\ r.group_cancelled = s.group_cancelled
        /\ r.join_set = s.join_set
    BY <1>1 DEF RecordTerminal, TableFields
  <2>2. \A e \in Entry : E(e) \in Entry /\ SameChild(e, E(e))
                         /\ E(e).state = e.state
    BY DEF Entry, SameChild, IsActive
  <2> HIDE DEF r, E
  <2>3. \A k \in Occupied(s) :
          /\ r.children[k] \in Entry
          /\ SameChild(s.children[k], r.children[k])
          /\ r.children[k].state = s.children[k].state
    BY <1>1, <2>1, <2>2 DEF SameChild
  <2>4. RunningKeys(r) = RunningKeys(s)
    BY <2>1, <2>3 DEF RunningKeys, CountsAsRunning, Occupied
  <2>5. r.children \in [Occupied(s) -> Entry]
    BY <2>1, <2>3
  <2> QED
    BY <1>1, <2>1, <2>3, <2>4, <2>5, EntriesKeep DEF r
<1>3. ASSUME NEW key
      PROVE  TableInv(RecordRestart(s, key))
  <2> DEFINE r == RecordRestart(s, key)
             E(e) == [e EXCEPT !.restarts = @ + 1]
  <2>1. /\ DOMAIN r = TableFields
        /\ r.children = [k \in Occupied(s) |->
                           IF k = key THEN E(s.children[k])
                                      ELSE s.children[k]]
        /\ r.free = s.free /\ r.slots = s.slots
        /\ r.children_by_id = s.children_by_id /\ r.child_order = s.child_order
        /\ r.running_children = s.running_children
        /\ r.live_tasks = s.live_tasks
        /\ r.next_child_instance = s.next_child_instance
        /\ r.group_cancelled = s.group_cancelled
        /\ r.join_set = s.join_set
    BY <1>1 DEF RecordRestart, TableFields
  <2>2. \A e \in Entry : E(e) \in Entry /\ SameChild(e, E(e))
                         /\ E(e).state = e.state
    BY DEF Entry, SameChild, IsActive
  <2> HIDE DEF r, E
  <2>3. \A k \in Occupied(s) :
          /\ r.children[k] \in Entry
          /\ SameChild(s.children[k], r.children[k])
          /\ r.children[k].state = s.children[k].state
    BY <1>1, <2>1, <2>2 DEF SameChild
  <2>4. RunningKeys(r) = RunningKeys(s)
    BY <2>1, <2>3 DEF RunningKeys, CountsAsRunning, Occupied
  <2>5. r.children \in [Occupied(s) -> Entry]
    BY <2>1, <2>3
  <2> QED
    BY <1>1, <2>1, <2>3, <2>4, <2>5, EntriesKeep DEF r
<1> QED
  BY <1>2, <1>3

\* The first half of remove_child.
LEMMA MarkRemovingKeeps ==
  ASSUME NEW s, TableInv(s), NEW key \in Occupied(s)
  PROVE  /\ TableInv(MarkRemoving(s, key))
         /\ Occupied(MarkRemoving(s, key)) = Occupied(s)
<1> DEFINE r == MarkRemoving(s, key)
           e == s.children[key]
<1>1. /\ DOMAIN s = TableFields /\ s.children \in [Occupied(s) -> Entry]
      /\ s.running_children \in Nat /\ s.group_cancelled \in BOOLEAN
      /\ s.running_children >= Cardinality(RunningKeys(s))
  BY DEF TableInv, TableTypeOK, CountersOK
<1>2. /\ DOMAIN r = TableFields
      /\ r.children = [k \in Occupied(s) |->
                         IF k = key THEN RemovingEntry(s.children[k])
                                    ELSE s.children[k]]
      /\ r.running_children = IF CountsAsRunning(e)
                              THEN SaturatingSub(s.running_children, 1)
                              ELSE s.running_children
      /\ r.free = s.free /\ r.slots = s.slots
      /\ r.children_by_id = s.children_by_id /\ r.child_order = s.child_order
      /\ r.live_tasks = s.live_tasks
      /\ r.next_child_instance = s.next_child_instance
      /\ r.group_cancelled = s.group_cancelled
      /\ r.join_set = s.join_set
  BY <1>1 DEF MarkRemoving, TableFields
<1>3. \A f \in Entry : /\ RemovingEntry(f) \in Entry
                       /\ SameChild(f, RemovingEntry(f))
                       /\ RemovingEntry(f).state # "Running"
  <2> SUFFICES ASSUME NEW f \in Entry
               PROVE  /\ RemovingEntry(f) \in Entry
                      /\ SameChild(f, RemovingEntry(f))
                      /\ RemovingEntry(f).state # "Running"
    OBVIOUS
  <2>1. RemovingEntry(f) \in Entry
    BY EntryTypes
  <2>2. /\ RemovingEntry(f).id = f.id
        /\ RemovingEntry(f).instance = f.instance
        /\ RemovingEntry(f).generation = f.generation
        /\ RemovingEntry(f).has_started = f.has_started
        /\ RemovingEntry(f).handle = f.handle
        /\ RemovingEntry(f).state =
             IF IsActive(f) THEN "Stopping" ELSE f.state
    BY DEF Entry, RemovingEntry
  <2> QED
    BY <2>1, <2>2 DEF SameChild, IsActive
<1> HIDE DEF r
<1>4. Occupied(r) = Occupied(s)
  BY <1>2 DEF Occupied
<1>5. \A k \in Occupied(s) :
        /\ r.children[k] \in Entry
        /\ SameChild(s.children[k], r.children[k])
        /\ k # key => r.children[k] = s.children[k]
  BY <1>1, <1>2, <1>3 DEF SameChild
<1>6. RunningKeys(r) = RunningKeys(s) \ {key}
  BY <1>1, <1>2, <1>3, <1>4, <1>5 DEF RunningKeys, CountsAsRunning
<1>7. key \in RunningKeys(s) <=> CountsAsRunning(e)
  BY DEF RunningKeys
<1>8. /\ r.running_children \in Nat
      /\ r.running_children >= Cardinality(RunningKeys(r))
  <2>1. /\ Cardinality(RunningKeys(r)) =
             IF key \in RunningKeys(s) THEN Cardinality(RunningKeys(s)) - 1
                                       ELSE Cardinality(RunningKeys(s))
        /\ Cardinality(RunningKeys(s)) \in Nat
    BY <1>6, OccupiedFinite, FS_RemoveElement
  <2> QED
    BY <1>1, <1>2, <1>7, <2>1 DEF SaturatingSub
<1>9. r.children \in [Occupied(s) -> Entry]
  BY <1>2, <1>5
<1> QED
  BY <1>1, <1>2, <1>4, <1>5, <1>8, <1>9, EntriesKeep DEF r

\* A fresh group token.
LEMMA RenewKeeps ==
  ASSUME NEW s, TableInv(s)
  PROVE  /\ TableInv(RenewGroupToken(s))
         /\ Occupied(RenewGroupToken(s)) = Occupied(s)
         /\ RenewGroupToken(s).child_order = s.child_order
<1> DEFINE r == RenewGroupToken(s)
<1>1. /\ DOMAIN s = TableFields /\ s.children \in [Occupied(s) -> Entry]
      /\ s.running_children \in Nat
      /\ s.running_children >= Cardinality(RunningKeys(s))
  BY DEF TableInv, TableTypeOK, CountersOK
<1>2. /\ DOMAIN r = TableFields /\ r.children = s.children
      /\ r.free = s.free /\ r.slots = s.slots
      /\ r.children_by_id = s.children_by_id /\ r.child_order = s.child_order
      /\ r.running_children = s.running_children
      /\ r.live_tasks = s.live_tasks
      /\ r.next_child_instance = s.next_child_instance
      /\ r.group_cancelled = FALSE
      /\ r.join_set = s.join_set
  BY <1>1 DEF RenewGroupToken, TableFields
<1> HIDE DEF r
<1>3. Occupied(r) = Occupied(s) /\ RunningKeys(r) = RunningKeys(s)
  BY <1>2 DEF RunningKeys, Occupied
<1>4. \A k \in Occupied(s) : SameChild(s.children[k], r.children[k])
  BY <1>2 DEF SameChild
<1> QED
  BY <1>1, <1>2, <1>3, <1>4, EntriesKeep DEF r

\* cancel_running_children.
LEMMA CancelRunningKeeps ==
  ASSUME NEW s, TableInv(s)
  PROVE  /\ TableInv(CancelRunningChildren(s))
         /\ Occupied(CancelRunningChildren(s)) = Occupied(s)
<1> DEFINE c == CancelTasks(s, s.join_set)
           r == CancelRunningChildren(s)
           K == RunningKeys(s) \cap s.child_order
           E(e) == [e EXCEPT !.state = "Stopping"]
<1>1. TableInv(c)
  BY SignalKeeps
<1>2. /\ DOMAIN c = TableFields /\ c.children = s.children
      /\ c.running_children = s.running_children
  BY DEF CancelTasks, TableFields, TableInv, TableTypeOK
<1>3. /\ s.children \in [Occupied(s) -> Entry]
      /\ s.running_children \in Nat /\ s.child_order = Occupied(s)
  BY DEF TableInv, TableTypeOK, IndexOK
<1> HIDE DEF c
<1>4. /\ DOMAIN r = TableFields
      /\ r.children = [k \in Occupied(s) |-> IF k \in K THEN E(s.children[k])
                                                        ELSE s.children[k]]
      /\ r.running_children =
           SaturatingSub(s.running_children, Cardinality(K))
      /\ r.free = c.free /\ r.slots = c.slots
      /\ r.children_by_id = c.children_by_id /\ r.child_order = c.child_order
      /\ r.live_tasks = c.live_tasks
      /\ r.next_child_instance = c.next_child_instance
      /\ r.group_cancelled = TRUE
      /\ r.join_set = c.join_set
  BY <1>2 DEF CancelRunningChildren, TableFields, c
<1>5. \A e \in Entry : E(e) \in Entry /\ E(e).state = "Stopping"
                       /\ (CountsAsRunning(e) => SameChild(e, E(e)))
  BY DEF Entry, SameChild, IsActive, CountsAsRunning
<1> HIDE DEF r, E
<1>6. K = RunningKeys(s) /\ \A k \in K : CountsAsRunning(s.children[k])
  BY <1>3 DEF RunningKeys
<1> HIDE DEF K
<1>7. Occupied(c) = Occupied(s) /\ Occupied(r) = Occupied(s)
  BY <1>2, <1>4 DEF Occupied
<1>8. \A k \in Occupied(s) :
        /\ r.children[k] \in Entry
        /\ SameChild(c.children[k], r.children[k])
        /\ r.children[k].state = IF k \in K THEN "Stopping"
                                            ELSE s.children[k].state
  BY <1>2, <1>3, <1>4, <1>5, <1>6 DEF SameChild
<1>9. RunningKeys(r) = {}
  BY <1>6, <1>7, <1>8 DEF RunningKeys, CountsAsRunning
<1>10. Cardinality(K) \in Nat
  BY <1>6, OccupiedFinite
<1>11. /\ r.running_children \in Nat
       /\ r.running_children >= Cardinality(RunningKeys(r))
  BY <1>3, <1>4, <1>9, <1>10, FS_EmptySet DEF SaturatingSub
<1>12. r.children \in [Occupied(c) -> Entry]
  BY <1>4, <1>7, <1>8
<1> QED
  BY <1>1, <1>4, <1>7, <1>8, <1>11, <1>12, EntriesKeep DEF r

\* A task ends.
LEMMA StatusKeeps ==
  ASSUME NEW s, TableInv(s), NEW t \in s.join_set,
         NEW status \in {"Completed", "Failed", "Aborted"}
  PROVE  TableInv([s EXCEPT !.join_set =
                     (@ \ {t}) \cup {[t EXCEPT !.status = status]}])
<1> DEFINE u == [t EXCEPT !.status = status]
           r == [s EXCEPT !.join_set = (@ \ {t}) \cup {u}]
<1>1. /\ DOMAIN s = TableFields /\ s.join_set \subseteq Task
      /\ \A x, y \in s.join_set : SameTask(x, y) => x = y
  BY DEF TableInv, TableTypeOK, TasksOK, SameTask
<1>2. u \in Task /\ SameTask(u, t)
  BY <1>1 DEF Task, SameTask
<1>3. /\ DOMAIN r = TableFields
      /\ r.join_set = (s.join_set \ {t}) \cup {u}
      /\ r.children = s.children
      /\ r.free = s.free /\ r.slots = s.slots
      /\ r.children_by_id = s.children_by_id /\ r.child_order = s.child_order
      /\ r.running_children = s.running_children
      /\ r.live_tasks = s.live_tasks
      /\ r.next_child_instance = s.next_child_instance
      /\ r.group_cancelled = s.group_cancelled
  BY <1>1 DEF TableFields
<1> HIDE DEF r, u
<1>4. TableTypeOK(r)
  BY <1>1, <1>2, <1>3 DEF TableInv, TableTypeOK, Occupied
<1>5. Similar(s, r)
  <2>1. \A x \in r.join_set : \E y \in s.join_set : SameTask(x, y)
    BY <1>2, <1>3 DEF SameTask
  <2>2. \A y \in s.join_set : \E x \in r.join_set : SameTask(x, y)
    BY <1>2, <1>3 DEF SameTask
  <2>3. \A x, y \in r.join_set : SameTask(x, y) => x = y
    BY <1>1, <1>2, <1>3 DEF SameTask
  <2> QED
    BY <1>3, <2>1, <2>2, <2>3 DEF Similar, SameChild, Occupied
<1>6. r.running_children >= Cardinality(RunningKeys(r))
  BY <1>3 DEF TableInv, CountersOK, RunningKeys, Occupied
<1> QED
  BY <1>4, <1>5, <1>6, SimilarKeeps DEF r, u

-----------------------------------------------------------------------------
(* Tasks that nobody waits for, and children that are disturbed.           *)

TaskId(t) == <<t.instance, t.generation>>

\* The tasks that are the latest of their entry, or were not aborted.
Counted(s) == {t \in s.join_set : ~t.aborted \/ IsCurrent(s, t)}
CountedIds(s) == {TaskId(t) : t \in Counted(s)}

\* live_tasks counts each of them.
LiveCovered(s) ==
  /\ IsFiniteSet(CountedIds(s))
  /\ s.live_tasks >= Cardinality(CountedIds(s))

\* A task that is not the latest of its entry was aborted.
OrphansAborted(s) == \A t \in s.join_set : IsCurrent(s, t) \/ t.aborted

\* The latest task of every entry under a key of X was aborted.
AbortedUnder(s, X) ==
  \A t \in s.join_set : IsCurrent(s, t) /\ t.key \in X => t.aborted

\* The task of a child that counts as running.
Runs(s, t) == IsCurrent(s, t) /\ CountsAsRunning(s.children[t.key])

\* It has a live token, and is aborted only under a key of X.
Undisturbed(s, X) ==
  \A t \in s.join_set :
    Runs(s, t) => ~t.cancelled /\ (t.aborted => t.key \in X)

\* What every operator but spawn_child and finalize_removed_child does: each
\* task of r is one of s, aborted if it was, and the latest if it was.
Follows(s, r) ==
  \A t \in r.join_set : \E u \in s.join_set :
    /\ SameTask(t, u)
    /\ u.aborted => t.aborted
    /\ IsCurrent(r, t) <=> IsCurrent(s, u)

\* The tasks that run in r ran in s, as undisturbed.
Gentle(s, r) ==
  \A t \in r.join_set : Runs(r, t) =>
    \E u \in s.join_set :
      /\ SameTask(t, u) /\ Runs(s, u)
      /\ t.cancelled = u.cancelled /\ t.aborted = u.aborted

\* A table that follows another counts no more children, and keeps what the
\* supervisor's invariant says of aborted tasks.
LEMMA FollowsKeeps ==
  ASSUME NEW s, NEW r, Follows(s, r)
  PROVE  /\ CountedIds(r) \subseteq CountedIds(s)
         /\ OrphansAborted(s) => OrphansAborted(r)
         /\ \A X : AbortedUnder(s, X) => AbortedUnder(r, X)
<1>1. ASSUME NEW t \in Counted(r)
      PROVE  TaskId(t) \in CountedIds(s)
  <2>1. t \in r.join_set /\ (~t.aborted \/ IsCurrent(r, t))
    BY DEF Counted
  <2>2. PICK u \in s.join_set : /\ SameTask(t, u)
                                /\ u.aborted => t.aborted
                                /\ IsCurrent(r, t) <=> IsCurrent(s, u)
    BY <2>1 DEF Follows
  <2>3. u \in Counted(s) /\ TaskId(u) = TaskId(t)
    BY <2>1, <2>2 DEF Counted, TaskId, SameTask
  <2> QED
    BY <2>3 DEF CountedIds
<1>2. CountedIds(r) \subseteq CountedIds(s)
  BY <1>1 DEF CountedIds
<1>3. OrphansAborted(s) => OrphansAborted(r)
  BY DEF Follows, OrphansAborted
<1>4. \A X : AbortedUnder(s, X) => AbortedUnder(r, X)
  BY DEF Follows, AbortedUnder, SameTask
<1> QED
  BY <1>2, <1>3, <1>4

\* A gentle step disturbs nobody.
LEMMA GentleKeeps ==
  ASSUME NEW s, NEW r, Gentle(s, r)
  PROVE  \A X : Undisturbed(s, X) => Undisturbed(r, X)
  BY DEF Gentle, Undisturbed, SameTask

\* Fewer tasks to count, and live_tasks as before ...
LEMMA FewerCounted ==
  ASSUME NEW s, NEW r, LiveCovered(s), r.live_tasks = s.live_tasks,
         s.live_tasks \in Nat, CountedIds(r) \subseteq CountedIds(s)
  PROVE  LiveCovered(r)
<1>1. IsFiniteSet(CountedIds(s))
  BY DEF LiveCovered
<1>2. /\ IsFiniteSet(CountedIds(r))
      /\ Cardinality(CountedIds(r)) <= Cardinality(CountedIds(s))
  BY <1>1, FS_Subset
<1>3. Cardinality(CountedIds(r)) \in Nat /\ Cardinality(CountedIds(s)) \in Nat
  BY <1>1, <1>2, FS_CardinalityType
<1> QED
  BY <1>2, <1>3 DEF LiveCovered

\* ... or one task less to count, and live_tasks decremented.
LEMMA OneCountedLess ==
  ASSUME NEW s, NEW r, LiveCovered(s),
         r.live_tasks = SaturatingSub(s.live_tasks, 1), s.live_tasks \in Nat,
         NEW id \in CountedIds(s), CountedIds(r) \subseteq CountedIds(s) \ {id}
  PROVE  LiveCovered(r)
<1> DEFINE C == CountedIds(s) \ {id}
<1>1. IsFiniteSet(CountedIds(s))
  BY DEF LiveCovered
<1>2. IsFiniteSet(C) /\ Cardinality(C) = Cardinality(CountedIds(s)) - 1
  BY <1>1, FS_RemoveElement
<1>3. /\ IsFiniteSet(CountedIds(r))
      /\ Cardinality(CountedIds(r)) <= Cardinality(C)
  BY <1>2, FS_Subset
<1>4. /\ Cardinality(CountedIds(r)) \in Nat
      /\ Cardinality(CountedIds(s)) \in Nat /\ Cardinality(C) \in Nat
  BY <1>1, <1>2, <1>3, FS_CardinalityType
<1> QED
  BY <1>2, <1>3, <1>4 DEF LiveCovered, SaturatingSub

\* The operators that change entries in place, or the group token.
LEMMA InPlace ==
  ASSUME NEW s, NEW r, r.join_set = s.join_set, Occupied(r) = Occupied(s),
         \A k \in Occupied(s) :
           /\ r.children[k].instance = s.children[k].instance
           /\ r.children[k].generation = s.children[k].generation
           /\ CountsAsRunning(r.children[k]) => CountsAsRunning(s.children[k])
  PROVE  /\ Follows(s, r) /\ Gentle(s, r)
         /\ RunningKeys(r) \subseteq RunningKeys(s)
<1>1. \A t \in r.join_set : IsCurrent(r, t) <=> IsCurrent(s, t)
  BY DEF IsCurrent
<1>2. \A t \in r.join_set : Runs(r, t) => Runs(s, t)
  BY <1>1 DEF Runs, IsCurrent
<1> QED
  BY <1>1, <1>2 DEF Follows, Gentle, SameTask, RunningKeys

\* The helpers that write one entry and touch no task.
LEMMA InPlaceSteps ==
  ASSUME NEW s, TableInv(s)
  PROVE  /\ \A t : LET r == RecordTerminal(s, t)
                   IN /\ Follows(s, r) /\ Gentle(s, r)
                      /\ RunningKeys(r) \subseteq RunningKeys(s)
                      /\ r.live_tasks = s.live_tasks
                      /\ r.group_cancelled = s.group_cancelled
         /\ \A key : LET r == RecordRestart(s, key)
                     IN /\ Follows(s, r) /\ Gentle(s, r)
                        /\ r.live_tasks = s.live_tasks
                        /\ r.group_cancelled = s.group_cancelled
         /\ \A key : LET r == MarkRemoving(s, key)
                     IN /\ Follows(s, r) /\ Gentle(s, r)
                        /\ r.live_tasks = s.live_tasks
                        /\ r.group_cancelled = s.group_cancelled
                        /\ key \notin RunningKeys(r)
         /\ LET r == RenewGroupToken(s)
            IN /\ r.join_set = s.join_set /\ r.children = s.children
               /\ r.live_tasks = s.live_tasks
               /\ ~r.group_cancelled
<1>1. /\ DOMAIN s = TableFields
      /\ \A k \in Occupied(s) : s.children[k] \in Entry
  BY DEF TableInv, TableTypeOK
<1>2. ASSUME NEW t
      PROVE  LET r == RecordTerminal(s, t)
             IN /\ Follows(s, r) /\ Gentle(s, r)
                /\ RunningKeys(r) \subseteq RunningKeys(s)
                /\ r.live_tasks = s.live_tasks
                /\ r.group_cancelled = s.group_cancelled
  <2> DEFINE r == RecordTerminal(s, t)
  <2>1. /\ r.join_set = s.join_set /\ r.live_tasks = s.live_tasks
        /\ r.group_cancelled = s.group_cancelled
        /\ r.children = [k \in Occupied(s) |->
             IF k = t.key
             THEN [s.children[k] EXCEPT !.terminal =
                     IF t.status = "Completed" THEN "ok" ELSE "failed"]
             ELSE s.children[k]]
    BY <1>1 DEF RecordTerminal, TableFields
  <2> HIDE DEF r
  <2>2. Occupied(r) = Occupied(s)
    BY <2>1 DEF Occupied
  <2>3. \A k \in Occupied(s) :
          /\ r.children[k].instance = s.children[k].instance
          /\ r.children[k].generation = s.children[k].generation
          /\ r.children[k].state = s.children[k].state
    BY <1>1, <2>1 DEF Entry
  <2> QED
    BY <2>1, <2>2, <2>3, InPlace DEF CountsAsRunning, r
<1>3. ASSUME NEW key
      PROVE  LET r == RecordRestart(s, key)
             IN /\ Follows(s, r) /\ Gentle(s, r)
                /\ r.live_tasks = s.live_tasks
                /\ r.group_cancelled = s.group_cancelled
  <2> DEFINE r == RecordRestart(s, key)
  <2>1. /\ r.join_set = s.join_set /\ r.live_tasks = s.live_tasks
        /\ r.group_cancelled = s.group_cancelled
        /\ r.children = [k \in Occupied(s) |->
             IF k = key THEN [s.children[k] EXCEPT !.restarts = @ + 1]
                        ELSE s.children[k]]
    BY <1>1 DEF RecordRestart, TableFields
  <2> HIDE DEF r
  <2>2. Occupied(r) = Occupied(s)
    BY <2>1 DEF Occupied
  <2>3. \A k \in Occupied(s) :
          /\ r.children[k].instance = s.children[k].instance
          /\ r.children[k].generation = s.children[k].generation
          /\ r.children[k].state = s.children[k].state
    BY <1>1, <2>1 DEF Entry
  <2> QED
    BY <2>1, <2>2, <2>3, InPlace DEF CountsAsRunning, r
<1>4. ASSUME NEW key
      PROVE  LET r == MarkRemoving(s, key)
             IN /\ Follows(s, r) /\ Gentle(s, r)
                /\ r.live_tasks = s.live_tasks
                /\ r.group_cancelled = s.group_cancelled
                /\ key \notin RunningKeys(r)
  <2> DEFINE r == MarkRemoving(s, key)
  <2>1. /\ r.join_set = s.join_set /\ r.live_tasks = s.live_tasks
        /\ r.group_cancelled = s.group_cancelled
        /\ r.children = [k \in Occupied(s) |->
             IF k = key THEN RemovingEntry(s.children[k]) ELSE s.children[k]]
    BY <1>1 DEF MarkRemoving, TableFields
  <2> HIDE DEF r
  <2>2. Occupied(r) = Occupied(s)
    BY <2>1 DEF Occupied
  <2>3. \A e \in Entry : LET f == RemovingEntry(e)
                         IN /\ f.instance = e.instance
                            /\ f.generation = e.generation
                            /\ f.state # "Running"
    BY DEF Entry, RemovingEntry, IsActive
  <2>4. \A k \in Occupied(s) :
          /\ r.children[k].instance = s.children[k].instance
          /\ r.children[k].generation = s.children[k].generation
          /\ k # key => r.children[k].state = s.children[k].state
          /\ k = key => r.children[k].state # "Running"
    BY <1>1, <2>1, <2>3
  <2>5. key \notin RunningKeys(r)
    BY <2>2, <2>4 DEF RunningKeys, CountsAsRunning
  <2> QED
    BY <2>1, <2>2, <2>4, <2>5, InPlace DEF CountsAsRunning, r
<1>5. LET r == RenewGroupToken(s)
      IN /\ r.join_set = s.join_set /\ r.children = s.children
         /\ r.live_tasks = s.live_tasks
         /\ ~r.group_cancelled
  BY <1>1 DEF RenewGroupToken, TableFields
<1> QED
  BY <1>2, <1>3, <1>4, <1>5

\* Tokens and abort handles.  They disturb nobody if nobody they reach runs.
LEMMA SignalSteps ==
  ASSUME NEW s, TableInv(s), NEW T
  PROVE  /\ LET r == CancelTasks(s, T)
            IN /\ Follows(s, r) /\ r.children = s.children
               /\ r.live_tasks = s.live_tasks
               /\ r.group_cancelled = s.group_cancelled
               /\ (\A t \in T : ~Runs(s, t)) => Gentle(s, r)
         /\ LET r == AbortTasks(s, T)
            IN /\ Follows(s, r) /\ r.children = s.children
               /\ r.live_tasks = s.live_tasks
               /\ r.group_cancelled = s.group_cancelled
               /\ (\A t \in T : ~Runs(s, t)) => Gentle(s, r)
<1>1. DOMAIN s = TableFields /\ \A t \in s.join_set : t \in Task
  BY DEF TableInv, TableTypeOK
<1>2. ASSUME NEW r, r.children = s.children,
             \A t \in r.join_set : \E u \in s.join_set :
               /\ SameTask(t, u)
               /\ u.aborted => t.aborted
               /\ u \notin T => t = u
      PROVE  /\ Follows(s, r)
             /\ (\A t \in T : ~Runs(s, t)) => Gentle(s, r)
  <2>1. \A t, u : SameTask(t, u) =>
          /\ IsCurrent(r, t) <=> IsCurrent(s, u)
          /\ Runs(r, t) <=> Runs(s, u)
    BY <1>2 DEF IsCurrent, Runs, SameTask, Occupied
  <2>2. Follows(s, r)
    BY <1>2, <2>1 DEF Follows
  <2>3. ASSUME \A t \in T : ~Runs(s, t)
        PROVE  Gentle(s, r)
    <3> SUFFICES ASSUME NEW t \in r.join_set, Runs(r, t)
                 PROVE  \E u \in s.join_set :
                          /\ SameTask(t, u) /\ Runs(s, u)
                          /\ t.cancelled = u.cancelled
                          /\ t.aborted = u.aborted
      BY DEF Gentle
    <3>1. PICK u \in s.join_set : /\ SameTask(t, u)
                                  /\ u \notin T => t = u
      BY <1>2
    <3> QED
      BY <2>1, <2>3, <3>1
  <2> QED
    BY <2>2, <2>3
<1>3. LET r == CancelTasks(s, T)
      IN /\ Follows(s, r) /\ r.children = s.children
         /\ r.live_tasks = s.live_tasks
         /\ r.group_cancelled = s.group_cancelled
         /\ (\A t \in T : ~Runs(s, t)) => Gentle(s, r)
  <2> DEFINE r == CancelTasks(s, T)
             C(u) == IF u \in T THEN [u EXCEPT !.cancelled = TRUE] ELSE u
  <2>1. /\ r.children = s.children /\ r.live_tasks = s.live_tasks
        /\ r.group_cancelled = s.group_cancelled
        /\ r.join_set = {C(u) : u \in s.join_set}
    BY <1>1 DEF CancelTasks, TableFields
  <2>2. \A u \in s.join_set : /\ SameTask(C(u), u)
                              /\ u.aborted => C(u).aborted
                              /\ u \notin T => C(u) = u
    BY <1>1 DEF Task, SameTask
  <2> HIDE DEF r, C
  <2>3. \A t \in r.join_set : \E u \in s.join_set :
          /\ SameTask(t, u)
          /\ u.aborted => t.aborted
          /\ u \notin T => t = u
    BY <2>1, <2>2
  <2>4. /\ Follows(s, r)
        /\ (\A t \in T : ~Runs(s, t)) => Gentle(s, r)
    BY <1>2, <2>1, <2>3
  <2> QED
    BY <2>1, <2>4 DEF r
<1>4. LET r == AbortTasks(s, T)
      IN /\ Follows(s, r) /\ r.children = s.children
         /\ r.live_tasks = s.live_tasks
         /\ r.group_cancelled = s.group_cancelled
         /\ (\A t \in T : ~Runs(s, t)) => Gentle(s, r)
  <2> DEFINE r == AbortTasks(s, T)
             C(u) == IF u \in T THEN [u EXCEPT !.aborted = TRUE] ELSE u
  <2>1. /\ r.children = s.children /\ r.live_tasks = s.live_tasks
        /\ r.group_cancelled = s.group_cancelled
        /\ r.join_set = {C(u) : u \in s.join_set}
    BY <1>1 DEF AbortTasks, TableFields
  <2>2. \A u \in s.join_set : /\ SameTask(C(u), u)
                              /\ u.aborted => C(u).aborted
                              /\ u \notin T => C(u) = u
    BY <1>1 DEF Task, SameTask
  <2> HIDE DEF r, C
  <2>3. \A t \in r.join_set : \E u \in s.join_set :
          /\ SameTask(t, u)
          /\ u.aborted => t.aborted
          /\ u \notin T => t = u
    BY <2>1, <2>2
  <2>4. /\ Follows(s, r)
        /\ (\A t \in T : ~Runs(s, t)) => Gentle(s, r)
    BY <1>2, <2>1, <2>3
  <2> QED
    BY <2>1, <2>4 DEF r
<1> QED
  BY <1>3, <1>4

\* abort_child: the latest tasks of K are aborted, and no other.
LEMMA AbortChildrenSteps ==
  ASSUME NEW s, TableInv(s), NEW K
  PROVE  LET r == AbortChildren(s, K)
         IN /\ Follows(s, r) /\ r.children = s.children
            /\ r.live_tasks = s.live_tasks
            /\ r.group_cancelled = s.group_cancelled
            /\ AbortedUnder(r, K)
            /\ K \cap RunningKeys(s) = {} => Gentle(s, r)
            /\ Undisturbed(s, {}) => Undisturbed(r, K)
<1> DEFINE T == {t \in s.join_set : HeldBy(s, t, K)}
           r == AbortTasks(s, T)
           C(u) == IF u \in T THEN [u EXCEPT !.aborted = TRUE] ELSE u
<1>1. /\ DOMAIN s = TableFields /\ \A t \in s.join_set : t \in Task
      /\ TasksOK(s)
  BY DEF TableInv, TableTypeOK
<1>2. /\ Follows(s, r) /\ r.children = s.children
      /\ r.live_tasks = s.live_tasks
      /\ r.group_cancelled = s.group_cancelled
      /\ (\A t \in T : ~Runs(s, t)) => Gentle(s, r)
  BY SignalSteps
<1>3. r.join_set = {C(u) : u \in s.join_set}
  BY <1>1 DEF AbortTasks, TableFields
<1>4. \A u \in s.join_set : /\ SameTask(C(u), u)
                            /\ C(u).cancelled = u.cancelled
                            /\ u \in T => C(u).aborted
                            /\ u \notin T => C(u) = u
  BY <1>1 DEF Task, SameTask
<1>5. \A u \in s.join_set : IsCurrent(s, u) /\ u.key \in K => u \in T
  BY <1>1 DEF TasksOK, IsCurrent, HeldBy
<1>6. \A t \in T : t.key \in K
  BY DEF HeldBy
<1> HIDE DEF r, C, T
<1>7. \A u \in s.join_set :
        /\ IsCurrent(r, C(u)) <=> IsCurrent(s, u)
        /\ Runs(r, C(u)) <=> Runs(s, u)
  BY <1>2, <1>4 DEF IsCurrent, Runs, SameTask, Occupied
<1>8. AbortedUnder(r, K)
  BY <1>3, <1>4, <1>5, <1>7 DEF AbortedUnder, SameTask
<1>9. ASSUME K \cap RunningKeys(s) = {}
      PROVE  Gentle(s, r)
  BY <1>2, <1>6, <1>9 DEF Runs, RunningKeys, IsCurrent
<1>10. ASSUME Undisturbed(s, {})
       PROVE  Undisturbed(r, K)
  <2> SUFFICES ASSUME NEW u \in s.join_set, Runs(r, C(u))
               PROVE  ~C(u).cancelled /\ (C(u).aborted => C(u).key \in K)
    BY <1>3 DEF Undisturbed
  <2>1. ~u.cancelled /\ ~u.aborted
    BY <1>7, <1>10 DEF Undisturbed
  <2> QED
    BY <1>4, <1>6, <2>1 DEF SameTask
<1> QED
  BY <1>2, <1>8, <1>9, <1>10 DEF AbortChildren, T, r

\* cancel_running_children leaves no child that counts as running.
LEMMA CancelRunningSteps ==
  ASSUME NEW s, TableInv(s)
  PROVE  LET r == CancelRunningChildren(s)
         IN /\ Follows(s, r) /\ RunningKeys(r) = {}
            /\ r.live_tasks = s.live_tasks
            /\ r.group_cancelled
<1> DEFINE c == CancelTasks(s, s.join_set)
           r == CancelRunningChildren(s)
           K == RunningKeys(s) \cap s.child_order
<1>1. /\ TableInv(c) /\ Follows(s, c) /\ c.children = s.children
      /\ c.live_tasks = s.live_tasks
  BY SignalKeeps, SignalSteps
<1>2. /\ DOMAIN c = TableFields /\ s.child_order = Occupied(s)
      /\ \A k \in Occupied(s) : s.children[k] \in Entry
  BY <1>1 DEF TableInv, TableTypeOK, IndexOK
<1> HIDE DEF c
<1>3. /\ r.children = [k \in Occupied(s) |->
                         IF k \in K
                         THEN [s.children[k] EXCEPT !.state = "Stopping"]
                         ELSE s.children[k]]
      /\ r.live_tasks = c.live_tasks
      /\ r.group_cancelled = TRUE
      /\ r.join_set = c.join_set
  BY <1>2 DEF CancelRunningChildren, TableFields, c
<1> HIDE DEF r
<1>4. Occupied(r) = Occupied(s) /\ Occupied(c) = Occupied(s)
  BY <1>1, <1>3 DEF Occupied
<1>5. \A k \in Occupied(s) :
        /\ r.children[k].instance = s.children[k].instance
        /\ r.children[k].generation = s.children[k].generation
        /\ k \in K => r.children[k].state = "Stopping"
        /\ k \notin K => r.children[k].state = s.children[k].state
  BY <1>2, <1>3 DEF Entry
<1>6. RunningKeys(r) = {}
  BY <1>2, <1>4, <1>5 DEF RunningKeys, CountsAsRunning
<1>7. \A t : IsCurrent(r, t) <=> IsCurrent(c, t)
  BY <1>1, <1>4, <1>5 DEF IsCurrent
<1>8. Follows(s, r)
  BY <1>1, <1>3, <1>7 DEF Follows
<1> QED
  BY <1>1, <1>3, <1>6, <1>8 DEF r

\* A task ends.
LEMMA StatusSteps ==
  ASSUME NEW s, TableInv(s), NEW t \in s.join_set, NEW status
  PROVE  LET r == [s EXCEPT !.join_set =
                     (@ \ {t}) \cup {[t EXCEPT !.status = status]}]
         IN /\ Follows(s, r) /\ Gentle(s, r) /\ r.children = s.children
            /\ r.live_tasks = s.live_tasks
            /\ r.group_cancelled = s.group_cancelled
<1> DEFINE u == [t EXCEPT !.status = status]
           r == [s EXCEPT !.join_set = (@ \ {t}) \cup {u}]
<1>1. DOMAIN s = TableFields /\ t \in Task
  BY DEF TableInv, TableTypeOK
<1>2. /\ SameTask(u, t) /\ u.aborted = t.aborted /\ u.cancelled = t.cancelled
  BY <1>1 DEF Task, SameTask
<1>3. /\ r.join_set = (s.join_set \ {t}) \cup {u}
      /\ r.children = s.children /\ r.live_tasks = s.live_tasks
      /\ r.group_cancelled = s.group_cancelled
  BY <1>1 DEF TableFields
<1> HIDE DEF r, u
<1>4. \A v : /\ IsCurrent(r, v) <=> IsCurrent(s, v)
             /\ Runs(r, v) <=> Runs(s, v)
  BY <1>3 DEF IsCurrent, Runs, Occupied
<1>5. /\ IsCurrent(s, u) <=> IsCurrent(s, t)
      /\ Runs(s, u) <=> Runs(s, t)
  BY <1>2 DEF IsCurrent, Runs, SameTask
<1>6. Follows(s, r)
  BY <1>2, <1>3, <1>4, <1>5 DEF Follows, SameTask
<1>7. Gentle(s, r)
  BY <1>2, <1>3, <1>4, <1>5 DEF Gentle, SameTask
<1> QED
  BY <1>3, <1>6, <1>7 DEF r, u

\* insert_child: no task is the latest of the new entry.
LEMMA InsertSteps ==
  ASSUME NEW s, TableInv(s), NEW id
  PROVE  LET r == InsertChild(s, id)
         IN /\ Follows(s, r) /\ Gentle(s, r)
            /\ r.live_tasks = s.live_tasks
            /\ r.group_cancelled = s.group_cancelled
            /\ AbortedUnder(r, {NextKey(s)})
<1> DEFINE r == InsertChild(s, id)
           key == NextKey(s)
           e == NewEntry(id, s.next_child_instance)
<1>1. /\ DOMAIN s = TableFields /\ InstancesOK(s)
      /\ s.next_child_instance \in Nat
      /\ \A t \in s.join_set : t.instance \in Nat
  BY DEF TableInv, TableTypeOK, Task
<1>2. /\ r.children = [j \in Occupied(s) \cup {key} |->
                         IF j = key THEN e ELSE s.children[j]]
      /\ r.join_set = s.join_set /\ r.live_tasks = s.live_tasks
      /\ r.group_cancelled = s.group_cancelled
  BY <1>1 DEF InsertChild, TableFields
<1>3. key \notin Occupied(s)
  BY NextKeyIsVacant
<1>4. e.instance = s.next_child_instance
  BY DEF NewEntry
<1> HIDE DEF r, key, e
<1>5. /\ Occupied(r) = Occupied(s) \cup {key}
      /\ r.children[key] = e
      /\ \A k \in Occupied(s) : r.children[k] = s.children[k]
  BY <1>2, <1>3 DEF Occupied
<1>6. \A t \in s.join_set : t.instance # e.instance
  BY <1>1, <1>4 DEF InstancesOK
<1>7. \A t \in s.join_set : /\ IsCurrent(r, t) <=> IsCurrent(s, t)
                            /\ IsCurrent(r, t) => t.key # key
                            /\ Runs(r, t) => Runs(s, t)
  BY <1>3, <1>5, <1>6 DEF IsCurrent, Runs
<1>8. Follows(s, r) /\ Gentle(s, r)
  BY <1>2, <1>7 DEF Follows, Gentle, SameTask
<1>9. AbortedUnder(r, {key})
  BY <1>2, <1>7 DEF AbortedUnder
<1> QED
  BY <1>2, <1>8, <1>9 DEF r, key

\* consume_joined_child: the entry keeps its generation, and with it the
\* tasks keep their places.
LEMMA JoinSteps ==
  ASSUME NEW s, TableInv(s), NEW t \in s.join_set
  PROVE  LET r == JoinChild(s, t)
         IN /\ Gentle(s, r) /\ Follows(s, r)
            /\ LiveCovered(s) => LiveCovered(r)
            /\ RunningKeys(r) \subseteq RunningKeys(s)
            /\ r.group_cancelled = s.group_cancelled
            /\ IsCurrent(s, t) => AbortedUnder(r, {t.key})
<1> DEFINE r == JoinChild(s, t)
           e == s.children[t.key]
<1>1. /\ DOMAIN s = TableFields /\ TasksOK(s) /\ s.live_tasks \in Nat
      /\ \A k \in Occupied(s) : s.children[k] \in Entry
  BY DEF TableInv, TableTypeOK
<1>2. r.join_set = s.join_set \ {t} /\ r.group_cancelled = s.group_cancelled
  BY <1>1 DEF JoinChild, TableFields
<1>3. CASE IsCurrent(s, t)
  <2>1. /\ r.children = [k \in Occupied(s) |->
                           IF k = t.key THEN ExitedEntry(s.children[k])
                                        ELSE s.children[k]]
        /\ r.live_tasks = SaturatingSub(s.live_tasks, 1)
    BY <1>1, <1>3 DEF JoinChild, TableFields
  <2> HIDE DEF r
  <2>2. Occupied(r) = Occupied(s)
    BY <2>1 DEF Occupied
  <2>3. \A k \in Occupied(s) :
          /\ r.children[k].instance = s.children[k].instance
          /\ r.children[k].generation = s.children[k].generation
          /\ CountsAsRunning(r.children[k]) => CountsAsRunning(s.children[k])
    BY <1>1, <2>1, ExitedEntryFields DEF CountsAsRunning
  <2>4. \A u : /\ IsCurrent(r, u) <=> IsCurrent(s, u)
               /\ Runs(r, u) => Runs(s, u)
    BY <2>2, <2>3 DEF IsCurrent, Runs
  <2>5. Gentle(s, r) /\ Follows(s, r) /\ RunningKeys(r) \subseteq RunningKeys(s)
    BY <1>2, <2>2, <2>3, <2>4 DEF Gentle, Follows, SameTask, RunningKeys
  <2>6. \A u \in r.join_set : TaskId(u) # TaskId(t)
    BY <1>1, <1>2 DEF TasksOK, TaskId
  <2>7. TaskId(t) \in CountedIds(s)
    BY <1>3 DEF CountedIds, Counted
  <2>8. CountedIds(r) \subseteq CountedIds(s) \ {TaskId(t)}
    BY <2>5, <2>6, FollowsKeeps DEF CountedIds, Counted
  <2>9. LiveCovered(s) => LiveCovered(r)
    BY <1>1, <2>1, <2>7, <2>8, OneCountedLess
  <2>10. \A u \in r.join_set : IsCurrent(r, u) => u.key # t.key
    BY <1>3, <2>4, <2>6 DEF IsCurrent, TaskId
  <2> QED
    BY <1>2, <2>5, <2>9, <2>10 DEF AbortedUnder, r
<1>4. CASE ~IsCurrent(s, t)
  <2>1. r.children = s.children /\ r.live_tasks = s.live_tasks
    BY <1>1, <1>4 DEF JoinChild, TableFields
  <2> HIDE DEF r
  <2>2. \A u : /\ IsCurrent(r, u) <=> IsCurrent(s, u)
               /\ Runs(r, u) <=> Runs(s, u)
    BY <2>1 DEF IsCurrent, Runs, Occupied
  <2>3. Gentle(s, r) /\ Follows(s, r)
    BY <1>2, <2>2 DEF Gentle, Follows, SameTask
  <2>4. LiveCovered(s) => LiveCovered(r)
    BY <1>1, <2>1, <2>3, FollowsKeeps, FewerCounted
  <2>5. RunningKeys(r) = RunningKeys(s)
    BY <2>1 DEF RunningKeys, Occupied
  <2> QED
    BY <1>2, <1>4, <2>3, <2>4, <2>5 DEF r
<1> QED
  BY <1>3, <1>4

\* finalize_removed_child forgets a task only if it was aborted.
LEMMA FinalizeSteps ==
  ASSUME NEW s, TableInv(s), NEW key \in Occupied(s), AbortedUnder(s, {key})
  PROVE  LET r == FinalizeRemoved(s, key)
         IN /\ Gentle(s, r)
            /\ LiveCovered(s) => LiveCovered(r)
            /\ OrphansAborted(s) => OrphansAborted(r)
            /\ r.group_cancelled = s.group_cancelled
<1> DEFINE r == FinalizeRemoved(s, key)
           e == s.children[key]
<1>1. /\ DOMAIN s = TableFields /\ TasksOK(s) /\ s.live_tasks \in Nat
      /\ e \in Entry
  BY DEF TableInv, TableTypeOK
<1>2. /\ r.children = [k \in Occupied(s) \ {key} |-> s.children[k]]
      /\ r.live_tasks = IF e.handle THEN SaturatingSub(s.live_tasks, 1)
                                    ELSE s.live_tasks
      /\ r.group_cancelled = s.group_cancelled
      /\ r.join_set = s.join_set
  BY <1>1 DEF FinalizeRemoved, TableFields
<1> HIDE DEF r
<1>3. /\ Occupied(r) = Occupied(s) \ {key}
      /\ \A k \in Occupied(r) : r.children[k] = s.children[k]
  BY <1>2 DEF Occupied
<1>4. \A t : /\ IsCurrent(r, t) <=> IsCurrent(s, t) /\ t.key # key
             /\ Runs(r, t) => Runs(s, t)
  BY <1>3 DEF IsCurrent, Runs
<1>5. Gentle(s, r)
  BY <1>2, <1>4 DEF Gentle, SameTask
<1>6. OrphansAborted(s) => OrphansAborted(r)
  BY <1>2, <1>4 DEF OrphansAborted, AbortedUnder
<1>7. CountedIds(r) \subseteq CountedIds(s)
  BY <1>2, <1>4 DEF CountedIds, Counted
<1>8. ASSUME LiveCovered(s)
      PROVE  LiveCovered(r)
  <2>1. CASE e.handle
    <3>1. PICK t \in s.join_set :
            t.instance = e.instance /\ t.generation = e.generation
      BY <1>1, <2>1 DEF TasksOK
    <3>2. IsCurrent(s, t) /\ t.key = key /\ t.aborted
      BY <1>1, <3>1 DEF TasksOK, IsCurrent, AbortedUnder
    <3>3. TaskId(t) \in CountedIds(s)
      BY <3>2 DEF CountedIds, Counted
    <3>4. \A u \in Counted(r) : TaskId(u) # TaskId(t)
      <4>1. ASSUME NEW u \in Counted(r), TaskId(u) = TaskId(t)
            PROVE  FALSE
        <5>1. u = t
          BY <1>1, <1>2, <4>1 DEF Counted, TasksOK, TaskId
        <5> QED
          BY <1>4, <3>2, <4>1, <5>1 DEF Counted
      <4> QED
        BY <4>1
    <3>5. CountedIds(r) \subseteq CountedIds(s) \ {TaskId(t)}
      BY <1>7, <3>4 DEF CountedIds
    <3> QED
      BY <1>1, <1>2, <1>8, <2>1, <3>3, <3>5, OneCountedLess
  <2>2. CASE ~e.handle
    BY <1>1, <1>2, <1>7, <1>8, <2>2, FewerCounted
  <2> QED
    BY <2>1, <2>2
<1> QED
  BY <1>2, <1>5, <1>6, <1>8 DEF r

\* spawn_child, possibly over a task that it supersedes.
LEMMA SpawnSteps ==
  ASSUME NEW s, TableInv(s), NEW K \in SUBSET Occupied(s)
  PROVE  LET r == SpawnChildren(s, K)
         IN /\ LiveCovered(s) => LiveCovered(r)
            /\ OrphansAborted(s) /\ AbortedUnder(s, K) => OrphansAborted(r)
            /\ Undisturbed(s, {}) /\ ~s.group_cancelled => Undisturbed(r, {})
            /\ r.group_cancelled = s.group_cancelled
<1> DEFINE r == SpawnChildren(s, K)
           N == {SpawnedTask(s, k) : k \in K}
           I == {TaskId(SpawnedTask(s, k)) : k \in K}
<1>1. /\ DOMAIN s = TableFields /\ TasksOK(s) /\ s.live_tasks \in Nat
      /\ s.group_cancelled \in BOOLEAN
      /\ \A k \in Occupied(s) : s.children[k] \in Entry
      /\ \A t \in s.join_set : t \in Task
  BY DEF TableInv, TableTypeOK
<1>2. /\ r.children = [k \in Occupied(s) |->
                         IF k \in K THEN SpawnedEntry(s.children[k])
                                    ELSE s.children[k]]
      /\ r.live_tasks = s.live_tasks + Cardinality(K)
      /\ r.group_cancelled = s.group_cancelled
      /\ r.join_set = s.join_set \cup N
  BY <1>1 DEF SpawnChildren, TableFields
<1> HIDE DEF r
<1>3. Occupied(r) = Occupied(s)
  BY <1>2 DEF Occupied
<1>4. \A k \in K :
        /\ r.children[k].instance = s.children[k].instance
        /\ r.children[k].generation = NextGeneration(s.children[k])
  <2>1. \A e \in Entry : /\ SpawnedEntry(e).instance = e.instance
                         /\ SpawnedEntry(e).generation = NextGeneration(e)
    BY DEF SpawnedEntry, Entry
  <2>2. \A k \in K : r.children[k] = SpawnedEntry(s.children[k])
    BY <1>2
  <2> QED
    BY <1>1, <2>1, <2>2
<1>5. \A k \in Occupied(s) \ K : r.children[k] = s.children[k]
  BY <1>2
<1>6. ASSUME NEW t \in s.join_set
      PROVE  /\ IsCurrent(r, t) <=> IsCurrent(s, t) /\ t.key \notin K
             /\ Runs(r, t) => Runs(s, t)
  <2>1. ASSUME t.key \in K, IsCurrent(r, t)
        PROVE  FALSE
    <3> DEFINE e == s.children[t.key]
    <3>1. e \in Entry /\ t.instance = e.instance
          /\ t.generation = NextGeneration(e)
      BY <1>1, <1>4, <2>1 DEF IsCurrent
    <3>2. e.has_started /\ t.generation <= e.generation
      BY <1>1, <2>1, <3>1 DEF TasksOK
    <3> QED
      BY <3>1, <3>2 DEF Entry, NextGeneration
  <2>2. ASSUME t.key \notin K
        PROVE  /\ IsCurrent(r, t) <=> IsCurrent(s, t)
               /\ Runs(r, t) <=> Runs(s, t)
    BY <1>3, <1>5, <2>2 DEF IsCurrent, Runs
  <2> QED
    BY <2>1, <2>2 DEF Runs
<1>7. \A t \in N : IsCurrent(r, t) /\ t.cancelled = s.group_cancelled
                   /\ t.aborted = FALSE
  BY <1>3, <1>4 DEF SpawnedTask, IsCurrent
<1>8. ASSUME LiveCovered(s)
      PROVE  LiveCovered(r)
  <2>1. CountedIds(r) \subseteq CountedIds(s) \cup I
    <3>1. ASSUME NEW t \in Counted(r)
          PROVE  TaskId(t) \in CountedIds(s) \cup I
      <4>1. CASE t \in s.join_set
        BY <1>6, <4>1 DEF Counted, CountedIds
      <4>2. CASE t \in N
        BY <4>2
      <4> QED
        BY <1>2, <4>1, <4>2 DEF Counted
    <3> QED
      BY <3>1 DEF CountedIds
  <2>2. IsFiniteSet(K) /\ Cardinality(K) \in Nat
    BY OccupiedFinite
  <2>3. IsFiniteSet(I) /\ Cardinality(I) <= Cardinality(K)
    <3> DEFINE f == [k \in K |-> TaskId(SpawnedTask(s, k))]
    <3>1. f \in Surjection(K, I)
      BY DEF Surjection
    <3> QED
      BY <2>2, <3>1, FS_Surjection
  <2>4. IsFiniteSet(CountedIds(s))
    BY <1>8 DEF LiveCovered
  <2>5. /\ IsFiniteSet(CountedIds(s) \cup I)
        /\ Cardinality(CountedIds(s) \cup I)
             <= Cardinality(CountedIds(s)) + Cardinality(I)
    <3>1. /\ IsFiniteSet(CountedIds(s) \cup I)
          /\ Cardinality(CountedIds(s) \cup I) =
               Cardinality(CountedIds(s)) + Cardinality(I)
                 - Cardinality(CountedIds(s) \cap I)
      BY <2>3, <2>4, FS_Union
    <3>2. /\ Cardinality(CountedIds(s)) \in Nat /\ Cardinality(I) \in Nat
          /\ Cardinality(CountedIds(s) \cap I) \in Nat
      BY <2>3, <2>4, FS_Intersection, FS_CardinalityType
    <3> QED
      BY <3>1, <3>2
  <2>6. /\ IsFiniteSet(CountedIds(r))
        /\ Cardinality(CountedIds(r)) <= Cardinality(CountedIds(s) \cup I)
    BY <2>1, <2>5, FS_Subset
  <2>7. /\ Cardinality(CountedIds(r)) \in Nat
        /\ Cardinality(CountedIds(s)) \in Nat /\ Cardinality(I) \in Nat
        /\ Cardinality(CountedIds(s) \cup I) \in Nat
    BY <2>3, <2>4, <2>5, <2>6, FS_CardinalityType
  <2> HIDE DEF I
  <2> QED
    BY <1>1, <1>2, <1>8, <2>2, <2>3, <2>5, <2>6, <2>7 DEF LiveCovered
<1>9. ASSUME OrphansAborted(s), AbortedUnder(s, K)
      PROVE  OrphansAborted(r)
  BY <1>2, <1>6, <1>7, <1>9 DEF OrphansAborted, AbortedUnder
<1>10. ASSUME Undisturbed(s, {}), ~s.group_cancelled
       PROVE  Undisturbed(r, {})
  BY <1>1, <1>2, <1>6, <1>7, <1>10 DEF Undisturbed
<1> QED
  BY <1>2, <1>8, <1>9, <1>10 DEF r

\* What nobody counts is an aborted task of an entry that forgot it.
LEMMA NothingCounted ==
  ASSUME NEW s, TableInv(s), LiveCovered(s), s.live_tasks = 0
  PROVE  \A t \in s.join_set : t.aborted /\ ~IsCurrent(s, t)
<1>1. IsFiniteSet(CountedIds(s)) /\ Cardinality(CountedIds(s)) \in Nat
      /\ 0 >= Cardinality(CountedIds(s))
  BY FS_CardinalityType DEF LiveCovered
<1>2. CountedIds(s) = {}
  BY <1>1, FS_EmptySet
<1> QED
  BY <1>2 DEF CountedIds, Counted

\* Without an active entry no task is the latest of its entry.
LEMMA NothingActive ==
  ASSUME NEW s, TableInv(s), ActiveKeys(s) = {}
  PROVE  \A t \in s.join_set : ~IsCurrent(s, t)
  BY DEF TableInv, TasksOK, ActiveKeys, IsCurrent

=============================================================================
