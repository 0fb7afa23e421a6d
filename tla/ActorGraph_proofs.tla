--------------------------- MODULE ActorGraph_proofs ---------------------------
(***************************************************************************)
(* For any actors and any number of runs of one graph: the runs that were  *)
(* not disturbed are alone, what a run answers is what its actors did, and *)
(* the gauge comes back to zero.                                           *)
(***************************************************************************)
EXTENDS ActorGraph, FiniteSetTheorems, TLAPS

\* TypeOK without the gauge, which takes counting.
DataOK ==
  /\ state \in {"idle", "running", "decomposed"}
  /\ phase \in [Runs -> {"new", "refused", "joining", "returned", "dropped"}]
  /\ bound \in [Actors -> Runs \cup {None}]
  /\ task \in [Runs -> [Actors -> {"none", "running", "ended", "joined",
                                   "aborted", "gone"}]]
  /\ exit \in [Runs -> [Actors -> {"none", "ok", "err", "panic"}]]
  /\ cancelled \in [Runs -> BOOLEAN] /\ shutdown_requested \in [Runs -> BOOLEAN]
  /\ failure \in [Runs -> {"none", "stopped", "failed", "panicked"}]
  /\ cause \in [Runs -> {"none", "external", "stopped", "failed", "panicked"}]

\* The state admits one run at a time, and the tasks of a run follow its phase.
Stages ==
  /\ \A r \in Runs : phase[r] = "joining" => state = "running"
  /\ \A r, q \in Runs : phase[r] = "joining" /\ phase[q] = "joining" => r = q
  /\ \A r \in Runs : \A a \in Actors :
       /\ phase[r] \in {"new", "refused"} => task[r][a] = "none"
       /\ phase[r] = "joining" => task[r][a] \in {"running", "ended", "joined"}
       /\ phase[r] = "returned" => task[r][a] = "joined"
       /\ phase[r] = "dropped" => task[r][a] \in {"ended", "joined", "aborted", "gone"}

\* Who is over has a result.
Results ==
  \A r \in Runs : \A a \in Actors :
    task[r][a] \in {"ended", "joined"} => exit[r][a] \in {"ok", "err", "panic"}

\* While no run was dropped, a binding shows the actor that runs, and none else.
Bindings ==
  /\ \A r \in Runs : \A a \in Actors :
       phase[r] = "joining" /\ Undisturbed(r) =>
         bound[a] = IF task[r][a] = "running" THEN r ELSE None
  /\ (\A r \in Runs : phase[r] \in {"new", "refused", "returned"}) =>
       \A a \in Actors : bound[a] = None

\* A run without a failure has joined only actors that it had told to stop and
\* that returned Ok.
Clean ==
  \A r \in Runs : \A a \in Actors :
    task[r][a] = "joined" /\ failure[r] = "none" =>
      shutdown_requested[r] /\ exit[r][a] = "ok"

\* A failure has cancelled the run before anything else names another cause.
Causes ==
  /\ \A r \in Runs : failure[r] # "none" => cancelled[r]
  /\ CauseIsFailure

Inv == DataOK /\ Stages /\ Results /\ Bindings /\ Clean /\ Causes

\* What is reported of an actor that is over (ActorTaskExit::status).
LEMMA StatusOfEnded ==
  ASSUME NEW r \in Runs, NEW a \in Actors,
         exit[r][a] \in {"ok", "err", "panic"}, shutdown_requested[r] \in BOOLEAN
  PROVE  /\ ExitStatus(r, a) \in {"shutdown", "stopped", "failed", "panicked"}
         /\ ExitStatus(r, a) = "shutdown" <=> exit[r][a] = "ok" /\ shutdown_requested[r]
BY DEF ExitStatus

\* No run has begun.
LEMMA Initially == Init => Inv
BY DEF Init, Inv, DataOK, Stages, Results, Bindings, Clean, Causes, CauseIsFailure

\* A run finds the graph running, or decomposed.
LEMMA RefuseStep ==
  ASSUME Inv, NEW r \in Runs, Refuse(r)
  PROVE  Inv'
BY DEF Inv, DataOK, Stages, Results, Bindings, Clean, Causes, CauseIsFailure, Undisturbed,
   Refuse, taskVars, runVars

\* A run takes the state, binds every mailbox and spawns every actor; it is the
\* only one.
LEMMA StartStep ==
  ASSUME Inv, NEW r \in Runs, Start(r)
  PROVE  Inv'
<1> USE DEF Inv, DataOK, Start, BindMailboxes, SpawnActors, runVars
<1>1. \A q \in Runs : phase[q] # "joining"
  BY DEF Stages
<1>2. DataOK'
  OBVIOUS
<1>3. Stages'
  BY <1>1 DEF Stages
<1>4. Results'
  BY DEF Results
<1>5. Bindings'
  BY <1>1 DEF Bindings, Undisturbed
<1>6. Clean'
  BY DEF Clean
<1>7. Causes'
  BY DEF Causes, CauseIsFailure
<1> QED BY <1>2, <1>3, <1>4, <1>5, <1>6, <1>7

\* An actor ends, and its guard clears the binding, whichever it is.
LEMMA ActorEndsStep ==
  ASSUME Inv, NEW r \in Runs, NEW a \in Actors, ActorEnds(r, a)
  PROVE  Inv'
<1> USE DEF Inv, DataOK, ActorEnds, DropGuard, runVars
<1>1. phase[r] = "joining"
  BY DEF Stages
<1>2. DataOK'
  OBVIOUS
<1>3. Stages'
  BY DEF Stages
<1>4. Results'
  BY DEF Results
<1>5. Bindings'
  BY <1>1 DEF Bindings, Undisturbed, Stages
<1>6. Clean'
  BY DEF Clean
<1>7. Causes'
  BY DEF Causes, CauseIsFailure
<1> QED BY <1>2, <1>3, <1>4, <1>5, <1>6, <1>7

\* An aborted actor of a dropped run goes: its guard clears whatever is bound.
LEMMA AbortedEndsStep ==
  ASSUME Inv, NEW r \in Runs, NEW a \in Actors, AbortedEnds(r, a)
  PROVE  Inv'
<1> USE DEF Inv, DataOK, AbortedEnds, DropGuard, runVars
<1>1. phase[r] = "dropped"
  BY DEF Stages
<1>2. DataOK'
  OBVIOUS
<1>3. Stages'
  BY DEF Stages
<1>4. Results'
  BY DEF Results
<1>5. Bindings'
  BY <1>1 DEF Bindings, Undisturbed, Stages
<1>6. Clean'
  BY DEF Clean
<1>7. Causes'
  BY DEF Causes, CauseIsFailure
<1> QED BY <1>2, <1>3, <1>4, <1>5, <1>6, <1>7

\* A run joins an actor: the first failure is kept, and becomes the cause if
\* none is known.
LEMMA JoinStep ==
  ASSUME Inv, NEW r \in Runs, NEW a \in Actors, Join(r, a)
  PROVE  Inv'
<1> USE DEF Inv, DataOK, Join, Settle, RequestShutdown, CountExit
<1>1. /\ ExitStatus(r, a) \in {"shutdown", "stopped", "failed", "panicked"}
      /\ ExitStatus(r, a) = "shutdown" <=> exit[r][a] = "ok" /\ shutdown_requested[r]
  BY StatusOfEnded DEF Results
<1>2. DataOK'
  BY <1>1 DEF FailureOf, ShutdownCause
<1>3. Stages'
  BY DEF Stages
<1>4. Results'
  BY DEF Results
<1>5. Bindings'
  BY DEF Bindings, Undisturbed
<1>6. Clean'
  BY <1>1 DEF Clean, FailureOf
<1>7. Causes'
  BY <1>1 DEF Causes, CauseIsFailure, FailureOf, ShutdownCause
<1> QED BY <1>2, <1>3, <1>4, <1>5, <1>6, <1>7

\* The shutdown of a run is requested from outside.
LEMMA ShutdownFutureStep ==
  ASSUME Inv, NEW r \in Runs, ShutdownFuture(r)
  PROVE  Inv'
BY DEF Inv, DataOK, Stages, Results, Bindings, Clean, Causes, CauseIsFailure, Undisturbed,
   ShutdownFuture, RequestShutdown, taskVars

\* A run has joined every actor, gives the state back and answers.
LEMMA ReturnStep ==
  ASSUME Inv, NEW r \in Runs, Return(r)
  PROVE  Inv'
<1> USE DEF Inv, DataOK, Return, taskVars, runVars
<1>1. DataOK' /\ Results' /\ Clean' /\ Causes'
  BY DEF Results, Clean, Causes, CauseIsFailure
<1>2. Stages'
  BY DEF Stages
<1>3. \A q \in Runs : phase'[q] # "joining"
  BY DEF Stages
<1>4. ASSUME \A q \in Runs : phase'[q] \in {"new", "refused", "returned"}, NEW a \in Actors
      PROVE  bound'[a] = None
  <2>1. Undisturbed(r)
    BY <1>4 DEF Undisturbed
  <2> QED BY <2>1 DEF Bindings
<1>5. Bindings'
  BY <1>3, <1>4 DEF Bindings
<1> QED BY <1>1, <1>2, <1>5

\* A run is dropped: its tasks are aborted, and the state is given back at once.
LEMMA DropRunStep ==
  ASSUME Inv, NEW r \in Runs, DropRun(r)
  PROVE  Inv'
<1> USE DEF Inv, DataOK, DropRun, runVars
<1>1. DataOK' /\ Results' /\ Clean' /\ Causes'
  BY DEF Results, Clean, Causes, CauseIsFailure
<1>2. Stages'
  BY DEF Stages
<1>3. Bindings'
  BY DEF Bindings, Undisturbed, Stages
<1> QED BY <1>1, <1>2, <1>3

\* The graph is taken apart, which no run does.
LEMMA DecomposeStep ==
  ASSUME Inv, Decompose
  PROVE  Inv'
BY DEF Inv, DataOK, Stages, Results, Bindings, Clean, Causes, CauseIsFailure, Undisturbed,
   Decompose, taskVars, runVars

\* Every step keeps the invariant.
LEMMA Inductive == Inv /\ [Next]_vars => Inv'
<1> SUFFICES ASSUME Inv, [Next]_vars PROVE Inv'
  OBVIOUS
<1>1. ASSUME NEW r \in Runs, RunUntil(r) PROVE Inv'
  BY <1>1, RefuseStep, StartStep, ShutdownFutureStep, ReturnStep, DropRunStep DEF RunUntil
<1>2. ASSUME NEW r \in Runs, NEW a \in Actors, Actor(r, a) PROVE Inv'
  BY <1>2, ActorEndsStep, AbortedEndsStep, JoinStep DEF Actor
<1>3. CASE Decompose
  BY <1>3, DecomposeStep
<1>4. CASE UNCHANGED vars
  BY <1>4 DEF vars, Inv, DataOK, Stages, Results, Bindings, Clean, Causes, CauseIsFailure,
     Undisturbed
<1> QED BY <1>1, <1>2, <1>3, <1>4 DEF Next

\* The invariant of the runs, their tasks, the bindings and the answers
\* (graph.rs).
THEOREM Invariance == Spec => []Inv
BY Initially, Inductive, PTL DEF Spec

\* The actors of a run are alone and reachable as long as no other run was dropped
\* (ActiveRun::start, bind_mailboxes).
THEOREM RunsAreAlone == Spec => []RunIsAlone
<1>1. Inv => RunIsAlone
  <2> SUFFICES ASSUME Inv, NEW r \in Runs, NEW a \in Actors,
                      phase[r] = "joining", Undisturbed(r)
               PROVE  /\ bound[a] = IF task[r][a] = "running" THEN r ELSE None
                      /\ \A q \in Runs \ {r} : task[q][a] \in {"none", "joined"}
    BY DEF RunIsAlone
  <2>1. bound[a] = IF task[r][a] = "running" THEN r ELSE None
    BY DEF Inv, Bindings
  <2>2. ASSUME NEW q \in Runs \ {r} PROVE task[q][a] \in {"none", "joined"}
    <3>1. phase[q] \in {"new", "refused", "returned"}
      BY DEF Inv, DataOK, Stages, Undisturbed
    <3> QED BY <3>1 DEF Inv, Stages
  <2> QED BY <2>1, <2>2
<1> QED BY <1>1, Invariance, PTL

\* A run that answers Ok was asked to stop, and every actor returned Ok after it
\* had been told (Graph::run_until).
THEOREM OkIsClean == Spec => []OkMeansAskedAndClean
<1>1. Inv => OkMeansAskedAndClean
  BY GraphAssumption DEF Inv, Stages, Clean, OkMeansAskedAndClean
<1> QED BY <1>1, Invariance, PTL

\* The cause that is reported is the error that is returned, or the request from
\* outside (graph_shutdown_cause_for_error).
THEOREM CausesAreFailures == Spec => []CauseIsFailure
<1>1. Inv => CauseIsFailure
  BY DEF Inv, Causes
<1> QED BY <1>1, Invariance, PTL

-----------------------------------------------------------------------------
(* The gauge. *)

\* The actors that were reported as started and not as exited.
Counted == {p \in Runs \X Actors : task[p[1]][p[2]] \notin {"none", "joined"}}

Gauge == IsFiniteSet(Counted) /\ running_actors = Cardinality(Counted)

\* A step that leaves the counted actors alone keeps the gauge.
LEMMA SameCount ==
  ASSUME Gauge, Counted' = Counted, running_actors' = running_actors
  PROVE  Gauge'
BY DEF Gauge

\* A run that starts counts all its actors ...
LEMMA StartCounts ==
  ASSUME Inv, Gauge, NEW r \in Runs, Start(r)
  PROVE  Gauge'
<1> DEFINE New == {r} \X Actors
<1>1. Counted' = Counted \cup New /\ Counted \cap New = {}
  BY DEF Counted, Start, SpawnActors, Inv, DataOK, Stages
<1>2. IsFiniteSet(New) /\ Cardinality(New) = Cardinality(Actors)
  <2>1. IsFiniteSet({r}) /\ Cardinality({r}) = 1
    BY FS_Singleton
  <2>2. IsFiniteSet(Actors) /\ Cardinality(Actors) \in Nat
    BY GraphAssumption, FS_CardinalityType
  <2>3. IsFiniteSet({r} \X Actors) /\ Cardinality({r} \X Actors) = 1 * Cardinality(Actors)
    BY <2>1, <2>2, FS_Product
  <2> QED BY <2>2, <2>3
<1>3. /\ IsFiniteSet(Counted \cup New)
      /\ Cardinality(Counted \cup New)
           = Cardinality(Counted) + Cardinality(New) - Cardinality(Counted \cap New)
  BY <1>2, FS_Union DEF Gauge
<1>4. Cardinality(Counted \cap New) = 0
  BY <1>1, FS_EmptySet
<1>5. Cardinality(Counted) \in Nat /\ Cardinality(New) \in Nat
  BY <1>2, FS_CardinalityType DEF Gauge
<1> HIDE DEF New
<1>6. running_actors' = running_actors + Cardinality(Actors)
  BY DEF Start, SpawnActors
<1> QED BY <1>1, <1>2, <1>3, <1>4, <1>5, <1>6 DEF Gauge

\* ... and uncounts each when it joins it.
LEMMA JoinCounts ==
  ASSUME Inv, Gauge, NEW r \in Runs, NEW a \in Actors, Join(r, a)
  PROVE  Gauge'
<1>1. Counted' = Counted \ {<<r, a>>} /\ <<r, a>> \in Counted
  BY DEF Counted, Join, Settle, Inv, DataOK
<1>2. IsFiniteSet(Counted') /\ Cardinality(Counted') = Cardinality(Counted) - 1
  BY <1>1, FS_RemoveElement DEF Gauge
<1> QED BY <1>2 DEF Gauge, Join, Settle, CountExit

\* No other step counts: what a dropped run has counted stays.
LEMMA OthersCount ==
  ASSUME Inv, Gauge, NEW r \in Runs, NEW a \in Actors,
         Refuse(r) \/ ShutdownFuture(r) \/ Return(r) \/ DropRun(r) \/ Decompose
           \/ ActorEnds(r, a) \/ AbortedEnds(r, a)
  PROVE  Gauge'
<1> USE DEF Inv, DataOK, Counted
<1>1. CASE Refuse(r) \/ ShutdownFuture(r) \/ Return(r) \/ Decompose
  BY <1>1, SameCount DEF Refuse, ShutdownFuture, Return, Decompose, taskVars
<1>2. CASE DropRun(r)
  BY <1>2, SameCount DEF DropRun
<1>3. CASE ActorEnds(r, a)
  BY <1>3, SameCount DEF ActorEnds
<1>4. CASE AbortedEnds(r, a)
  BY <1>4, SameCount DEF AbortedEnds
<1> QED BY <1>1, <1>2, <1>3, <1>4

\* Every step keeps the gauge.
LEMMA GaugeStep == Inv /\ Gauge /\ [Next]_vars => Gauge'
<1> SUFFICES ASSUME Inv, Gauge, [Next]_vars PROVE Gauge'
  OBVIOUS
<1>1. PICK b \in Actors : TRUE
  BY GraphAssumption
<1>2. ASSUME NEW r \in Runs, RunUntil(r) PROVE Gauge'
  BY <1>1, <1>2, StartCounts, OthersCount DEF RunUntil
<1>3. ASSUME NEW r \in Runs, NEW a \in Actors, Actor(r, a) PROVE Gauge'
  BY <1>3, JoinCounts, OthersCount DEF Actor
<1>4. CASE Decompose
  BY <1>4, SameCount DEF Decompose, taskVars, Counted
<1>5. CASE UNCHANGED vars
  BY <1>5, SameCount DEF vars, Counted
<1> QED BY <1>2, <1>3, <1>4, <1>5 DEF Next

\* The gauge of running actors (observability.rs) is the number of actors that
\* were spawned and not joined.
THEOREM GaugeCounts == Spec => []Gauge
<1>1. Init => Gauge
  <2> SUFFICES ASSUME Init PROVE Gauge
    OBVIOUS
  <2>1. Counted = {}
    BY DEF Init, Counted
  <2> QED BY <2>1, FS_EmptySet DEF Init, Gauge
<1> QED BY <1>1, GaugeStep, Invariance, PTL DEF Spec

\* The variables hold what the program keeps in them: the gauge of running actors
\* never goes below zero, although a dropped run is never taken from it.
THEOREM TypeCorrect == Spec => []TypeOK
<1>1. Inv /\ Gauge => TypeOK
  BY FS_CardinalityType DEF Inv, DataOK, Gauge, TypeOK
<1> QED BY <1>1, Invariance, GaugeCounts, PTL

\* When every run that began has returned, nothing of the graph is left: no task,
\* no binding, and no running actor in the gauge (Graph::run_until).
THEOREM ReturnedRunsLeaveNothing == Spec => []ReturnLeavesNothing
<1>1. Inv /\ Gauge => ReturnLeavesNothing
  <2> SUFFICES ASSUME Inv, Gauge, \A r \in Runs : phase[r] \in {"new", "refused", "returned"}
               PROVE  /\ running_actors = 0
                      /\ \A a \in Actors : bound[a] = None
                      /\ \A r \in Runs : \A a \in Actors : task[r][a] \in {"none", "joined"}
    BY DEF ReturnLeavesNothing
  <2>1. \A r \in Runs : \A a \in Actors : task[r][a] \in {"none", "joined"}
    BY DEF Inv, Stages
  <2>2. Counted = {}
    BY <2>1 DEF Counted
  <2>3. running_actors = 0
    BY <2>2, FS_EmptySet DEF Gauge
  <2> QED BY <2>1, <2>3 DEF Inv, Bindings
<1> QED BY <1>1, Invariance, GaugeCounts, PTL
===============================================================================
