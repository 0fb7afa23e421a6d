------------------------- MODULE BlockingTasks_proofs -------------------------
(***************************************************************************)
(* For any number of blocking tasks and any limit, with and without        *)
(* overflow checks: the limit holds, an actor that has ended owns no task, *)
(* and a failure is handled once, by a wait or by the actor.               *)
(***************************************************************************)
EXTENDS BlockingTasks, FiniteSetTheorems, TLAPS

\* TypeOK without the bound of the permits, which takes counting.
DataOK ==
  /\ call \in [Tasks -> {"idle", "admitted", "inserted", "returned", "panicked",
                         "shutting_down", "at_capacity"}]
  /\ closure \in [Tasks -> {"none", "queued", "running", "returned", "reported",
                            "exited", "panicked", "dropped"}]
  /\ result \in [Tasks -> Results]
  /\ permits \in Int
  /\ entry \in [Tasks -> {"none", "kept", "reaping", "draining", "awaiting",
                          "settled", "abandoned", "lost"}]
  /\ cancel \subseteq Tasks /\ claimed \subseteq Tasks
  /\ handle \in [Tasks -> {"none", "held", "waiting", "answered",
                           "unavailable", "dropped"}]
  /\ events \in Seq(Tasks)
  /\ running_blocking_tasks \in Int
  /\ actor \in {"running", "reaping", "finishing", "ended", "lost"}
  /\ closing \in BOOLEAN /\ actor_shutdown \in BOOLEAN /\ expired \in BOOLEAN
  /\ own \in {"none", "ok", "err"}
  /\ failure = {} \/ \E t \in Tasks : failure = {t}

\* A call that was admitted has its closure, and after the second lock its entry;
\* the future of the actor is in one call at a time, and in one only while it runs.
Calls ==
  /\ \A t \in Tasks :
       /\ closure[t] = "none" <=> call[t] \in {"idle", "shutting_down", "at_capacity"}
       /\ entry[t] = "none" <=> call[t] \in {"idle", "shutting_down", "at_capacity", "admitted"}
  /\ InCall => actor = "running"
  /\ \A t, u \in Tasks \ Shared :
       call[t] \in {"admitted", "inserted"} /\ call[u] \in {"admitted", "inserted"} => t = u

\* Where the actor is tells where its entries can be: none of its own calls has an
\* entry that close_and_take_all has not taken, and one that is given up was told to
\* stop before the deadline.  One entry is reaped at a time.
Entries ==
  /\ \A t \in Tasks :
       /\ entry[t] = "reaping" => actor = "reaping"
       /\ entry[t] \in {"draining", "awaiting"} => actor = "finishing" /\ t \in cancel
       /\ entry[t] = "abandoned" => expired /\ t \in cancel
       /\ entry[t] = "lost" => actor = "lost"
       /\ entry[t] = "kept" /\ t \notin Shared => actor \notin {"finishing", "ended"}
       /\ entry[t] = "settled" => Over(t)
  /\ \A t, u \in Tasks : entry[t] = "reaping" /\ entry[u] = "reaping" => t = u

\* A failure that was settled without a claim is the failure of the actor, or came
\* after it; the actor has one only when it stops.
Failures ==
  /\ \A t \in Tasks : entry[t] = "settled" /\ Failed(t) /\ t \notin claimed => failure # {}
  /\ failure # {} => actor \notin {"running", "reaping"}
  /\ \A t \in Tasks : handle[t] \in {"waiting", "answered", "unavailable"} => t \in claimed
  /\ \A t \in failure \ Shared : t \notin claimed

Inv == DataOK /\ Calls /\ Entries /\ Failures

\* Nothing has been called.
LEMMA Initially == Init => Inv
<1> SUFFICES ASSUME Init PROVE Inv
  OBVIOUS
<1>1. DataOK
  <2>1. events \in Seq(Tasks)
    BY DEF Init
  <2>2. permits \in Int /\ running_blocking_tasks \in Int
    BY BlockingAssumption DEF Init
  <2>3. closing \in BOOLEAN /\ actor_shutdown \in BOOLEAN /\ expired \in BOOLEAN
    BY DEF Init
  <2>4. /\ call \in [Tasks -> {"idle"}] /\ closure \in [Tasks -> {"none"}]
        /\ result \in [Tasks -> {"none"}] /\ entry \in [Tasks -> {"none"}]
        /\ handle \in [Tasks -> {"none"}]
    BY DEF Init
  <2>5. cancel = {} /\ claimed = {} /\ actor = "running" /\ own = "none" /\ failure = {}
    BY DEF Init
  <2> QED BY <2>1, <2>2, <2>3, <2>4, <2>5 DEF DataOK, Results
<1>2. Calls /\ Entries /\ Failures
  BY DEF Init, Calls, Entries, Failures, InCall
<1> QED BY <1>1, <1>2 DEF Inv

\* A call of spawn_blocking is admitted or refused, under the first lock.
LEMMA AdmitStep ==
  ASSUME Inv, NEW t \in Tasks, Admit(t)
  PROVE  Inv'
<1> USE DEF Inv, DataOK, Admit, AtCapacity, Polled, actorVars
<1>1. DataOK'
  BY DEF Results
<1>2. Calls'
  BY DEF Calls, InCall
<1>3. Entries'
  BY DEF Entries, Calls, InCall, Over
<1>4. Failures'
  BY DEF Failures, Entries, Calls, InCall, Over, Failed
<1> QED BY <1>1, <1>2, <1>3, <1>4

\* Its task is entered into the table, under the second lock.
LEMMA InsertStep ==
  ASSUME Inv, NEW t \in Tasks, Insert(t)
  PROVE  Inv'
<1> USE DEF Inv, DataOK, Insert, actorVars
<1>1. DataOK'
  BY DEF Results
<1>2. Calls'
  BY DEF Calls, InCall
<1>3. Entries'
  BY DEF Entries, Calls, InCall, Over
<1>4. Failures'
  BY DEF Failures, Entries, Calls, InCall, Over, Failed
<1> QED BY <1>1, <1>2, <1>3, <1>4

\* Its start is counted, and its handle returned.
LEMMA StartedStep ==
  ASSUME Inv, NEW t \in Tasks, Started(t)
  PROVE  Inv'
<1> USE DEF Inv, DataOK, Started, StartPanics, Lose, actorVars
<1>1. DataOK'
  <2>1. /\ call' \in [Tasks -> {"idle", "admitted", "inserted", "returned", "panicked",
                              "shutting_down", "at_capacity"}]
        /\ handle' \in [Tasks -> {"none", "held", "waiting", "answered",
                                "unavailable", "dropped"}]
        /\ running_blocking_tasks' \in Int
    OBVIOUS
  <2>2. /\ entry' \in [Tasks -> {"none", "kept", "reaping", "draining", "awaiting",
                               "settled", "abandoned", "lost"}]
        /\ actor' \in {"running", "reaping", "finishing", "ended", "lost"}
        /\ UNCHANGED <<closing, own, expired, failure>>
    OBVIOUS
  <2> QED BY <2>1, <2>2
<1>2. Calls'
  BY DEF Calls, InCall
<1>3. Entries'
  BY DEF Entries, Calls, InCall, Over
<1>4. Failures'
  BY DEF Failures, Entries, Calls, InCall, Over, Failed
<1> QED BY <1>1, <1>2, <1>3, <1>4

\* The owner of a handle cancels, drops or waits, is dropped while it waits, or
\* gets its answer.
LEMMA HandleStep ==
  ASSUME Inv, NEW t \in Tasks, CancelHandle(t) \/ DropHandle(t) \/ Wait(t) \/ DropWait(t) \/ Answer(t)
  PROVE  Inv'
<1> USE DEF Inv, DataOK, CancelHandle, DropHandle, Wait, DropWait, Answer, Handles, Polled, callVars, actorVars
<1>1. DataOK'
  BY DEF Results
<1>2. Calls'
  BY DEF Calls, InCall
<1>3. Entries'
  BY DEF Entries, Calls, InCall, Over
<1>4. Failures'
  BY DEF Failures, Entries, Calls, InCall, Over, Failed
<1> QED BY <1>1, <1>2, <1>3, <1>4

\* A closure runs, returns, reports and exits.
LEMMA ClosureStep ==
  ASSUME Inv, NEW t \in Tasks, Closure(t)
  PROVE  Inv'
<1> USE DEF Inv, DataOK, Closure, Run, Return, Report, Exit, Moves, FinishPanics, actorVars
<1>1. DataOK'
  <2>1. CASE Run(t)
    BY <2>1
  <2>2. CASE Return(t)
    BY <2>2 DEF Results
  <2>3. CASE Report(t)
    BY <2>3
  <2>4. CASE Exit(t)
    BY <2>4
  <2> QED BY <2>1, <2>2, <2>3, <2>4
<1>2. Calls'
  BY DEF Calls, InCall
<1>3. Entries'
  BY DEF Entries, Calls, InCall, Over
<1>4. Failures'
  BY DEF Failures, Entries, Calls, InCall, Over, Failed
<1> QED BY <1>1, <1>2, <1>3, <1>4

\* The loop of the actor takes a completion ...
LEMMA ReapStep ==
  ASSUME Inv, Reap
  PROVE  Inv'
<1> USE DEF Inv, DataOK, Reap, callVars
<1>1. DataOK'
  BY DEF Results
<1>2. Calls'
  BY DEF Calls, InCall
<1>3. Entries'
  BY DEF Entries, Calls, InCall, Over
<1>4. Failures'
  BY DEF Failures, Entries, Calls, InCall, Over, Failed
<1> QED BY <1>1, <1>2, <1>3, <1>4

\* ... and settles its task.
LEMMA ReapedStep ==
  ASSUME Inv, NEW t \in Tasks, Reaped(t)
  PROVE  Inv'
<1> USE DEF Inv, DataOK, Reaped, callVars
<1> DEFINE others == [entry EXCEPT ![t] = "settled"]
<1>1. CASE Failed(t) /\ ~Claimed(t)
  <2>1. /\ failure' = {t} /\ actor_shutdown' = TRUE
        /\ actor' = "finishing" /\ closing' = TRUE
        /\ cancel' = cancel \cup {u \in Tasks : others[u] = "kept"}
        /\ entry' = [u \in Tasks |-> IF others[u] = "kept" THEN "draining" ELSE others[u]]
    BY <1>1 DEF CloseAndTakeAll
  <2>2. DataOK'
    BY <2>1
  <2>3. Calls'
    BY <2>1 DEF Calls, InCall, Entries
  <2>4. Entries'
    BY <2>1 DEF Entries, Calls, InCall, Over
  <2>5. Failures'
    BY <1>1, <2>1 DEF Failures, Claimed
  <2> QED BY <2>2, <2>3, <2>4, <2>5
<1>2. CASE ~(Failed(t) /\ ~Claimed(t))
  <2>1. /\ entry' = others /\ actor' = "running"
        /\ UNCHANGED <<failure, closing, actor_shutdown, cancel>>
    BY <1>2
  <2>2. DataOK'
    BY <2>1
  <2>3. Calls'
    BY <2>1 DEF Calls, InCall, Entries
  <2>4. Entries'
    BY <2>1 DEF Entries, Calls, InCall, Over
  <2>5. Failures'
    BY <1>2, <2>1 DEF Failures, Claimed, Failed, Entries
  <2> QED BY <2>2, <2>3, <2>4, <2>5
<1> QED BY <1>1, <1>2

\* finish takes the next entry, ...
LEMMA AwaitEntryStep ==
  ASSUME Inv, NEW t \in Tasks, AwaitEntry(t)
  PROVE  Inv'
<1> USE DEF Inv, DataOK, AwaitEntry, Abort, actorVars
<1>1. DataOK'
  BY DEF Results
<1>2. Calls'
  BY DEF Calls, InCall
<1>3. Entries'
  BY DEF Entries, Calls, InCall, Over
<1>4. Failures'
  BY DEF Failures, Entries, Calls, InCall, Over, Failed
<1> QED BY <1>1, <1>2, <1>3, <1>4

\* ... joins its task, ...
LEMMA JoinedStep ==
  ASSUME Inv, NEW t \in Tasks, Joined(t)
  PROVE  Inv'
<1> USE DEF Inv, DataOK, Joined, RecordFailure, Claimed, callVars
<1>1. DataOK'
  BY DEF Results
<1>2. Calls'
  BY DEF Calls, InCall
<1>3. Entries'
  BY DEF Entries, Calls, InCall, Over
<1>4. actor = "finishing"
  BY DEF Entries
<1>5. CASE failure = {} /\ Failed(t) /\ ~Claimed(t)
  <2>1. failure' = {t}
    BY <1>5
  <2> QED BY <1>4, <1>5, <2>1, <1>1, <1>2, <1>3 DEF Failures, Failed
<1>6. CASE ~(failure = {} /\ Failed(t) /\ ~Claimed(t))
  <2>1. failure' = failure
    BY <1>6
  <2> QED BY <1>4, <1>6, <2>1, <1>1, <1>2, <1>3 DEF Failures, Failed
<1> QED BY <1>5, <1>6

\* ... or gives it up at the deadline.
LEMMA GiveUpStep ==
  ASSUME Inv, NEW t \in Tasks, GiveUp(t)
  PROVE  Inv'
<1> USE DEF Inv, DataOK, GiveUp, Abort, actorVars
<1>1. DataOK'
  BY DEF Results
<1>2. Calls'
  BY DEF Calls, InCall
<1>3. Entries'
  BY DEF Entries, Calls, InCall, Over
<1>4. Failures'
  BY DEF Failures, Entries, Calls, InCall, Over, Failed
<1> QED BY <1>1, <1>2, <1>3, <1>4

\* The actor's future returns, and the table is closed and taken.
LEMMA ActorReturnsStep ==
  ASSUME Inv, ActorReturns
  PROVE  Inv'
<1> USE DEF Inv, DataOK, ActorReturns, CloseAndTakeAll, callVars
<1>1. DataOK'
  BY DEF Results
<1>2. Calls'
  BY DEF Calls, InCall
<1>3. Entries'
  BY DEF Entries, Calls, InCall, Over
<1>4. Failures'
  BY DEF Failures, Entries, Calls, InCall, Over, Failed
<1> QED BY <1>1, <1>2, <1>3, <1>4

\* The actor is told to stop, its deadline passes, its task ends or is lost.
LEMMA EndingStep ==
  ASSUME Inv, ShutdownActor \/ Deadline \/ End \/ LoseActor
  PROVE  Inv'
<1> USE DEF Inv, DataOK, ShutdownActor, Deadline, End, LoseActor, Lose, callVars, actorVars
<1>1. DataOK'
  BY DEF Results
<1>2. Calls'
  BY DEF Calls, InCall
<1>3. Entries'
  BY DEF Entries, Calls, InCall, Over
<1>4. Failures'
  BY DEF Failures, Entries, Calls, InCall, Over, Failed
<1> QED BY <1>1, <1>2, <1>3, <1>4

\* Every step keeps the invariant.
LEMMA Inductive == Inv /\ [Next]_vars => Inv'
<1> SUFFICES ASSUME Inv, [Next]_vars PROVE Inv'
  OBVIOUS
<1>1. ASSUME NEW t \in Tasks, Caller(t) PROVE Inv'
  BY <1>1, AdmitStep, InsertStep, StartedStep, HandleStep DEF Caller
<1>2. ASSUME NEW t \in Tasks, Closure(t) PROVE Inv'
  BY <1>2, ClosureStep
<1>3. ASSUME NEW t \in Tasks, Loop(t) PROVE Inv'
  BY <1>3, ReapedStep, AwaitEntryStep, JoinedStep, GiveUpStep DEF Loop
<1>4. CASE Reap
  BY <1>4, ReapStep
<1>5. CASE ActorReturns
  BY <1>5, ActorReturnsStep
<1>6. CASE ShutdownActor \/ Deadline \/ End \/ LoseActor
  BY <1>6, EndingStep
<1>7. CASE UNCHANGED vars
  BY <1>7 DEF vars, Inv, DataOK, Calls, Entries, Failures, InCall, Over, Failed
<1> QED BY <1>1, <1>2, <1>3, <1>4, <1>5, <1>6, <1>7 DEF Next

\* The invariant of the calls, the entries and the failures (blocking.rs).
THEOREM Invariance == Spec => []Inv
BY Initially, Inductive, PTL DEF Spec


\* An actor that has ended had an entry for each closure of its future, and has none
\* that it was still waiting for.
LEMMA EndedEntries ==
  ASSUME Inv, actor = "ended", NEW t \in Tasks \ Shared, closure[t] # "none"
  PROVE  entry[t] \in {"settled", "abandoned"}
<1>1. call[t] \in {"inserted", "returned", "panicked"} \cup {"admitted"}
  BY DEF Inv, DataOK, Calls
<1>2. call[t] \in {"returned", "panicked"}
  BY <1>1 DEF Inv, DataOK, Calls, InCall
<1>3. entry[t] # "none"
  BY <1>2 DEF Inv, Calls
<1> QED BY <1>3 DEF Inv, DataOK, Entries

\* When the task of the actor has ended, each closure of its future is over, or was
\* told to stop and given the whole timeout (BlockingRuntime::finish).
THEOREM EndedActors == Spec => []EndedActorOwnsNothing
<1>1. Inv => EndedActorOwnsNothing
  <2> SUFFICES ASSUME Inv, actor = "ended", NEW t \in Tasks \ Shared, Live(t)
               PROVE  t \in cancel /\ expired /\ entry[t] = "abandoned"
    BY DEF EndedActorOwnsNothing
  <2>1. entry[t] \in {"settled", "abandoned"}
    BY EndedEntries DEF Live
  <2> QED BY <2>1 DEF Inv, Entries, Live
<1> QED BY <1>1, Invariance, PTL

\* The actor ends well only if each failed task was claimed by a wait, or given up
\* at the deadline (BlockingRuntime::complete_entry, finish).
THEOREM FailuresAreKept == Spec => []NoFailureIsLost
<1>1. Inv => NoFailureIsLost
  <2> SUFFICES ASSUME Inv, actor = "ended", Outcome = "ok", NEW t \in Tasks \ Shared, Failed(t)
               PROVE  t \in claimed \/ entry[t] = "abandoned"
    BY DEF NoFailureIsLost
  <2>1. entry[t] \in {"settled", "abandoned"}
    BY EndedEntries DEF Failed
  <2>2. failure = {}
    BY DEF Outcome
  <2> QED BY <2>1, <2>2 DEF Inv, Failures
<1> QED BY <1>1, Invariance, PTL

\* The failure that a wait of the actor has returned is not the failure the actor
\* ends with (BlockingHandle::wait, claim_for_wait).
THEOREM FailuresAreHandledOnce == Spec => []HandledFailureIsNotReported
<1>1. Inv => HandledFailureIsNotReported
  BY DEF Inv, DataOK, Failures, HandledFailureIsNotReported
<1> QED BY <1>1, Invariance, PTL

-----------------------------------------------------------------------------
(* The limit. *)

LiveTasks == {t \in Tasks : Live(t)}

Permits ==
  /\ IsFiniteSet(LiveTasks)
  /\ permits \in Nat
  /\ permits + Cardinality(LiveTasks) = Limit

\* A step that begins or ends no closure keeps the permits.
LEMMA SamePermits ==
  ASSUME Permits, LiveTasks' = LiveTasks, permits' = permits
  PROVE  Permits'
BY DEF Permits

\* One that ends a closure gives its permit back.
LEMMA PermitReleased ==
  ASSUME Permits, NEW t \in LiveTasks, LiveTasks' = LiveTasks \ {t}, permits' = permits + 1
  PROVE  Permits'
<1>1. IsFiniteSet(LiveTasks') /\ Cardinality(LiveTasks') = Cardinality(LiveTasks) - 1
  BY FS_RemoveElement DEF Permits
<1>2. Cardinality(LiveTasks) \in Nat
  BY FS_CardinalityType DEF Permits
<1> QED BY <1>1, <1>2 DEF Permits

\* A call that is admitted takes a permit for its closure.
LEMMA AdmitPermits ==
  ASSUME Inv, Permits, NEW t \in Tasks, Admit(t)
  PROVE  Permits'
<1> USE DEF Inv, DataOK
<1>1. CASE closing \/ actor_shutdown \/ AtCapacity
  <2>1. LiveTasks' = LiveTasks /\ permits' = permits
    BY <1>1 DEF Admit, LiveTasks, Live, Over
  <2> QED BY <2>1, SamePermits
<1>2. CASE ~(closing \/ actor_shutdown \/ AtCapacity)
  <2>1. permits' = permits - 1 /\ permits # 0
    BY <1>2 DEF Admit, AtCapacity
  <2>2. closure[t] = "none" /\ closure' = [closure EXCEPT ![t] = "queued"]
    BY <1>2 DEF Admit, Calls
  <2>3. LiveTasks' = LiveTasks \cup {t} /\ t \notin LiveTasks
    BY <2>2 DEF LiveTasks, Live, Over
  <2>4. IsFiniteSet(LiveTasks') /\ Cardinality(LiveTasks') = Cardinality(LiveTasks) + 1
    BY <2>3, FS_AddElement DEF Permits
  <2>5. Cardinality(LiveTasks) \in Nat
    BY FS_CardinalityType DEF Permits
  <2> QED BY <2>1, <2>4, <2>5 DEF Permits
<1> QED BY <1>1, <1>2

\* A closure gives its permit back when it exits, and not before.
LEMMA ClosurePermits ==
  ASSUME Inv, Permits, NEW t \in Tasks, Closure(t)
  PROVE  Permits'
<1> USE DEF Inv, DataOK, LiveTasks, Live, Over, Moves
<1>1. CASE Run(t) \/ Report(t)
  <2>1. LiveTasks' = LiveTasks /\ permits' = permits
    BY <1>1 DEF Run, Report
  <2> QED BY <2>1, SamePermits
<1>2. CASE Return(t) /\ ~FinishPanics
  <2>1. LiveTasks' = LiveTasks /\ permits' = permits
    BY <1>2 DEF Return
  <2> QED BY <2>1, SamePermits
<1>3. CASE Return(t) /\ FinishPanics
  <2>1. t \in LiveTasks /\ LiveTasks' = LiveTasks \ {t} /\ permits' = permits + 1
    BY <1>3 DEF Return
  <2> QED BY <2>1, PermitReleased
<1>4. CASE Exit(t)
  <2>1. t \in LiveTasks /\ LiveTasks' = LiveTasks \ {t} /\ permits' = permits + 1
    BY <1>4 DEF Exit
  <2> QED BY <2>1, PermitReleased
<1> QED BY <1>1, <1>2, <1>3, <1>4 DEF Closure

\* An abort gives back the permit of a closure that is queued, and of no other.
LEMMA AbortPermits ==
  ASSUME Inv, Permits, NEW t \in Tasks, Abort(t)
  PROVE  Permits'
<1> USE DEF Inv, DataOK, LiveTasks, Live, Over, Abort
<1>1. CASE closure[t] = "queued"
  <2>1. t \in LiveTasks /\ LiveTasks' = LiveTasks \ {t} /\ permits' = permits + 1
    BY <1>1
  <2> QED BY <2>1, PermitReleased
<1>2. CASE closure[t] # "queued"
  <2>1. LiveTasks' = LiveTasks /\ permits' = permits
    BY <1>2
  <2> QED BY <2>1, SamePermits
<1> QED BY <1>1, <1>2

\* The other steps leave the closures alone.
LEMMA OthersPermits ==
  ASSUME Permits, UNCHANGED <<closure, permits>>
  PROVE  Permits'
BY SamePermits DEF LiveTasks, Live, Over

\* Every step keeps the permits.
LEMMA PermitsStep == Inv /\ Permits /\ [Next]_vars => Permits'
<1> SUFFICES ASSUME Inv, Permits, [Next]_vars PROVE Permits'
  OBVIOUS
<1>1. ASSUME NEW t \in Tasks, Caller(t) PROVE Permits'
  <2>1. CASE Admit(t)
    BY <2>1, AdmitPermits
  <2>2. CASE Insert(t) \/ Started(t)
    BY <2>2, OthersPermits DEF Insert, Started
  <2>3. CASE CancelHandle(t) \/ DropHandle(t) \/ Wait(t) \/ DropWait(t) \/ Answer(t)
    BY <2>3, OthersPermits DEF CancelHandle, DropHandle, Wait, DropWait, Answer, Handles, callVars
  <2> QED BY <1>1, <2>1, <2>2, <2>3 DEF Caller
<1>2. ASSUME NEW t \in Tasks, Closure(t) PROVE Permits'
  BY <1>2, ClosurePermits
<1>3. ASSUME NEW t \in Tasks, Loop(t) PROVE Permits'
  <2>1. CASE Reaped(t) \/ Joined(t)
    BY <2>1, OthersPermits DEF Reaped, Joined, callVars
  <2>2. CASE AwaitEntry(t)
    BY <2>2, AbortPermits, OthersPermits DEF AwaitEntry
  <2>3. CASE GiveUp(t)
    BY <2>3, AbortPermits DEF GiveUp
  <2> QED BY <1>3, <2>1, <2>2, <2>3 DEF Loop
<1>4. CASE Reap \/ ActorReturns \/ ShutdownActor \/ Deadline \/ End \/ LoseActor
  BY <1>4, OthersPermits
  DEF Reap, ActorReturns, ShutdownActor, Deadline, End, LoseActor, callVars
<1>5. CASE UNCHANGED vars
  BY <1>5, OthersPermits DEF vars
<1> QED BY <1>1, <1>2, <1>3, <1>4, <1>5 DEF Next

\* Permits and closures that exist add up to the limit (blocking.rs).
THEOREM PermitsAreCounted == Spec => []Permits
<1>1. Init => Permits
  <2> SUFFICES ASSUME Init PROVE Permits
    OBVIOUS
  <2>1. LiveTasks = {}
    BY DEF Init, LiveTasks, Live
  <2> QED BY <2>1, FS_EmptySet, BlockingAssumption DEF Init, Permits
<1> QED BY <1>1, PermitsStep, Invariance, PTL DEF Spec

\* The closures that exist, those a lost actor or the deadline has left behind
\* included, never exceed the limit (BlockingAdmission).
THEOREM LimitOfClosures == Spec => []LimitHolds
<1>1. Permits => LimitHolds
  BY DEF Permits, LimitHolds, LiveTasks
<1> QED BY <1>1, PermitsAreCounted, PTL

\* The variables hold what the program keeps in them.
THEOREM TypeCorrect == Spec => []TypeOK
<1>1. Inv /\ Permits => TypeOK
  <2> SUFFICES ASSUME Inv, Permits PROVE TypeOK
    OBVIOUS
  <2>1. permits \in 0..Limit
    BY FS_CardinalityType, BlockingAssumption DEF Permits
  <2>2. failure \subseteq Tasks /\ Cardinality(failure) <= 1
    <3>1. CASE failure = {}
      BY <3>1, FS_EmptySet
    <3>2. ASSUME NEW t \in Tasks, failure = {t}
          PROVE  failure \subseteq Tasks /\ Cardinality(failure) <= 1
      <4>1. Cardinality({t}) = 1
        BY FS_Singleton
      <4> QED BY <3>2, <4>1
    <3> QED BY <3>1, <3>2 DEF Inv, DataOK
  <2> QED BY <2>1, <2>2 DEF Inv, DataOK, TypeOK
<1> QED BY <1>1, Invariance, PermitsAreCounted, PTL
===============================================================================
