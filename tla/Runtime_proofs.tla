---------------------------- MODULE Runtime_proofs ----------------------------
(***************************************************************************)
(* For any builder: what it accepts can be relied on, the errors that the  *)
(* later steps have for an inconsistent graph do not occur, and a runtime  *)
(* that was built is in the state Runtime starts from.                     *)
(*                                                                         *)
(* For any number of calls and ids: those who wait for a supervisor agree  *)
(* on how it ended, and the registry leads to every supervised actor whose *)
(* entry no remove_actor of a plain child has deleted.                     *)
(***************************************************************************)
EXTENDS Runtime, TLAPS

\* What the builders have besides the ids of the runtime.
CONSTANTS Empty, Limits, Shutdowns

INSTANCE Builders

-----------------------------------------------------------------------------
(* Completion. *)

\* The done channel has a value only when the task is over, and the right one;
\* one call at most has the JoinHandle; who saw the channel close without a value
\* saw the end of both senders, and who returned a panic has passed it on.
CompletionInv ==
  /\ CompletionTypeOK
  /\ done = "exit" <=> task = "ended"
  /\ done = "crash" => task = "panicked"
  /\ \A c \in Calls : wait[c] = "join" => join = "taken"
  /\ \A c, d \in Calls : wait[c] = "join" /\ wait[d] = "join" => c = d
  /\ \A c \in Calls : wait[c] = "exit" => done = "exit"
  /\ \A c \in Calls : wait[c] = "crash" => done = "crash"
  /\ \A c \in Calls :
       wait[c] = "closed" => done = "nothing" /\ join = "gone" /\ task = "panicked"

\* Nobody waits.
LEMMA CompletionInitially == CompletionInit => CompletionInv
BY DEF CompletionInit, CompletionInv, CompletionTypeOK, WaitStates, Returned

\* Every step of Completion keeps its invariant.
LEMMA CompletionStep ==
  CompletionInv /\ [CompletionNext]_completionVars => CompletionInv'
<1> SUFFICES ASSUME CompletionInv, [CompletionNext]_completionVars
             PROVE  CompletionInv'
  OBVIOUS
<1> USE DEF CompletionInv, CompletionTypeOK, WaitStates, Returned
<1>1. CASE TaskEnds
  BY <1>1 DEF TaskEnds
<1>2. CASE TaskPanics
  BY <1>2 DEF TaskPanics
<1>3. ASSUME NEW c \in Calls, Read(c) PROVE CompletionInv'
  BY <1>3 DEF Read
<1>4. ASSUME NEW c \in Calls, Take(c) PROVE CompletionInv'
  BY <1>4 DEF Take
<1>5. ASSUME NEW c \in Calls, Joined(c) PROVE CompletionInv'
  BY <1>5 DEF Joined
<1>6. ASSUME NEW c \in Calls, Watched(c) PROVE CompletionInv'
  BY <1>6 DEF Watched
<1>7. ASSUME NEW c \in Calls, DropWait(c) PROVE CompletionInv'
  BY <1>7 DEF DropWait
<1>8. CASE UNCHANGED completionVars
  BY <1>8 DEF completionVars
<1> QED BY <1>1, <1>2, <1>3, <1>4, <1>5, <1>6, <1>7, <1>8 DEF CompletionNext, WaitPoll

\* No two calls of wait return different results, whichever calls are dropped and
\* however the task ends (SupervisorHandle::wait).
THEOREM CompletionAgrees == CompletionSpec => []WaitersAgree
<1>1. CompletionInv => WaitersAgree
  BY DEF CompletionInv, CompletionTypeOK, WaitersAgree, Returned
<1> QED BY <1>1, CompletionInitially, CompletionStep, PTL DEF CompletionSpec

\* A call of wait returns only when the task is over, and says how it ended.
THEOREM CompletionIsTrue == CompletionSpec => []WaitTellsTheEnd
<1>1. CompletionInv => WaitTellsTheEnd
  BY DEF CompletionInv, CompletionTypeOK, WaitTellsTheEnd, Returned
<1> QED BY <1>1, CompletionInitially, CompletionStep, PTL DEF CompletionSpec

-----------------------------------------------------------------------------
(* Runtime. *)

\* A call of add_actor that its entry in the registry still belongs to: it is not
\* answered yet, and if it is refused it takes the entry back.
Adding(c) ==
  /\ kind[c] = "addActor"
  /\ at[c] = "send" \/ cmd[c] = "queued" \/ (at[c] = "reply" /\ cmd[c] = "err")

\* A call of remove_actor that removes an actor, and has not deregistered it.
Removing(c) ==
  /\ kind[c] = "removeActor" /\ at[c] = "reply"
  /\ cmd[c] \in {"removing", "removed", "ok"}
  /\ took[c] \in Actors

\* How far a call is limits what its command can be.
Stages ==
  \A c \in Calls :
    /\ kind[c] = "none" => at[c] = "none"
    /\ kind[c] = "wait" => at[c] = "wait"
    /\ at[c] \in {"none", "wait", "send"} => cmd[c] = "none"
    /\ at[c] = "ok" => cmd[c] = "ok"
    /\ at[c] = "err" => cmd[c] # "queued" /\ (kind[c] = "addActor" => cmd[c] # "ok")
    /\ kind[c] \in {"addActor", "addChild", "removeActor", "removeChild"} => id[c] \in Ids
    /\ cmd[c] \in {"removing", "removed"} => kind[c] \in {"removeActor", "removeChild"}
    /\ cmd[c] = "queued" => kind[c] \in {"addActor", "addChild", "removeActor", "removeChild"}

\* What a removal has found is known once its command is accepted.
Found ==
  \A c \in Calls :
    /\ cmd[c] \in {"none", "queued"} => took[c] = None
    /\ kind[c] = "removeActor" /\ cmd[c] \in {"removing", "removed", "ok"} => took[c] # None
    /\ took[c] # None => kind[c] \in {"removeActor", "removeChild"}

\* Each command that is queued is queued once.
Queued ==
  /\ \A i \in 1..Len(queue) : cmd[queue[i]] = "queued"
  /\ \A i, j \in 1..Len(queue) : queue[i] = queue[j] => i = j

\* A child is removed by one command.
Leaving ==
  /\ \A x \in leaving : children[x] # None
  /\ \A c \in Calls : cmd[c] = "removing" => id[c] \in leaving
  /\ \A c, d \in Calls :
       cmd[c] = "removing" /\ cmd[d] = "removing" /\ id[c] = id[d] => c = d

\* An actor that was added is named after the call that added it.
Owned ==
  /\ \A x \in Ids, c \in Calls : children[x] = c =>
       kind[c] = "addActor" /\ id[c] = x /\ cmd[c] = "ok"
  /\ \A x \in Ids, c \in Calls : registry[x] = c =>
       kind[c] = "addActor" /\ id[c] = x /\ at[c] # "err"

\* An actor that was removed had been added, and does not come back.
Gone ==
  \A c \in Calls :
    /\ took[c] \in Calls => cmd[took[c]] = "ok"
    /\ cmd[c] \in {"removed", "ok"} /\ took[c] \in Actors => children[id[c]] # took[c]

\* The entry of an id is that of its actor: of the one that is supervised, of the
\* one that an add_actor has registered and may have to take back, and of the one
\* that a remove_actor, one at a time, is to take away.
Kept(x) ==
  /\ children[x] \in Actors => registry[x] = children[x]
  /\ \A c \in Calls : Adding(c) /\ id[c] = x => registry[x] = c
  /\ \A c \in Calls : Removing(c) /\ id[c] = x => registry[x] = took[c]
  /\ \A c, d \in Calls : Removing(c) /\ Removing(d) /\ id[c] = x /\ id[d] = x => c = d

EntriesKept == \A x \in Ids : EntryTaken(x) \/ Kept(x)

Parts == Stages /\ Found /\ Queued /\ Leaving /\ Owned /\ Gone

IInv == TypeOK /\ Parts /\ EntriesKept

\* Nothing has been called, and every actor that was built is registered.
LEMMA Initially == Init => IInv
<1> SUFFICES ASSUME Init PROVE IInv
  OBVIOUS
<1> USE RuntimeAssumption DEF Init
<1>1. TypeOK
  BY CompletionInitially DEF CompletionInv, TypeOK, Kinds, Ids
<1>2. Stages /\ Found
  BY DEF Stages, Found
<1>3. Queued
  BY DEF Queued
<1>4. Leaving
  BY DEF Leaving
<1>5. Owned /\ Gone
  BY DEF Owned, Gone, Actors
<1>6. EntriesKept
  BY DEF EntriesKept, Kept, Adding, Removing, Actors
<1> QED BY <1>1, <1>2, <1>3, <1>4, <1>5, <1>6 DEF IInv, Parts

\* Calls of wait, and the steps of the task they wait for, are steps of Completion.
LEMMA StepsOfCompletion ==
  [Next]_vars => [CompletionNext]_completionVars
<1> SUFFICES ASSUME [Next]_vars PROVE [CompletionNext]_completionVars
  OBVIOUS
<1>1. ASSUME NEW c \in Calls, Client(c) PROVE [CompletionNext]_completionVars
  BY <1>1 DEF Client, AddActor, Call, Wait, WaitDropped, Send, Refused, Answered, Drop,
              CompletionNext
<1>2. CASE Supervisor
  BY <1>2 DEF Supervisor, Handle, HandleAdd, HandleRemove, Taken, RemovalReturns,
              RemovesOccupant, Leaves, Shutdown, CloseChannel, End, Crash, CompletionNext
<1>3. CASE UNCHANGED vars
  BY <1>3 DEF vars
<1> QED BY <1>1, <1>2, <1>3 DEF Next

\* wait behaves in the runtime as it does on its own.
THEOREM ImplementsCompletion == Spec => CompletionSpec
<1>1. Init => CompletionInit
  BY DEF Init
<1> QED BY <1>1, StepsOfCompletion, PTL DEF Spec, CompletionSpec

\* The command that the supervisor takes.
LEMMA TakenIsQueued ==
  ASSUME IInv, NEW c \in Calls, NEW answer \in {"ok", "err", "removing"}, Taken(c, answer)
  PROVE  /\ cmd[c] = "queued" /\ cmd' = [cmd EXCEPT ![c] = answer]
         /\ TypeOK' <=> children' \in [Ids -> Calls \cup {Built, Plain, None}]
                         /\ leaving' \subseteq Ids
                         /\ took' \in [Calls -> Calls \cup {Built, Plain, None}]
         /\ Queued'
         /\ UNCHANGED <<kind, id, at, registry>>
<1> USE RuntimeAssumption DEF IInv, Parts, Taken, callVars, completionVars
<1>1. queue \in Seq(Calls) /\ queue # <<>> /\ Len(queue) \in Nat /\ Len(queue) # 0
  BY DEF TypeOK
<1>2. /\ c = queue[1] /\ Len(queue') = Len(queue) - 1 /\ queue' \in Seq(Calls)
      /\ \A i \in 1..Len(queue') : queue'[i] = queue[i + 1] /\ i + 1 \in 1..Len(queue)
  BY <1>1
<1>3. cmd[c] = "queued" /\ cmd' = [cmd EXCEPT ![c] = answer]
  BY <1>1, <1>2 DEF Queued
<1>4. cmd' \in [Calls -> {"none", "queued", "removing", "removed", "ok", "err"}]
  BY <1>3 DEF TypeOK
<1>5. queue' \in Seq(Calls) /\ Len(queue') <= Capacity
  BY <1>1, <1>2 DEF TypeOK
<1>6. CompletionTypeOK'
  BY DEF TypeOK, CompletionTypeOK
<1>7. TypeOK' <=> children' \in [Ids -> Calls \cup {Built, Plain, None}]
                  /\ leaving' \subseteq Ids
                  /\ took' \in [Calls -> Calls \cup {Built, Plain, None}]
  BY <1>4, <1>5, <1>6 DEF TypeOK
<1>8. Queued'
  <2>1. \A i, j \in 1..Len(queue') : queue'[i] = queue'[j] => i = j
    BY <1>1, <1>2 DEF Queued
  <2>2. \A i \in 1..Len(queue') : cmd[queue'[i]] = "queued" /\ queue'[i] # c /\ queue'[i] \in Calls
    BY <1>1, <1>2 DEF Queued
  <2>3. \A i \in 1..Len(queue') : cmd'[queue'[i]] = "queued"
    BY <1>3, <2>2 DEF TypeOK
  <2> QED BY <2>1, <2>3 DEF Queued
<1> QED BY <1>3, <1>7, <1>8

\* What a call has done when it has returned Ok does not change.
LEMMA StaysTaken ==
  ASSUME NEW x \in Ids, EntryTaken(x),
         \A c \in Calls :
           at[c] = "ok" => /\ kind'[c] = kind[c] /\ id'[c] = id[c]
                           /\ took'[c] = took[c] /\ at'[c] = at[c]
  PROVE  EntryTaken(x)'
BY DEF EntryTaken

\* A step that leaves the registry alone, adds no actor and begins no call of
\* add_actor, nor the removal of an actor, keeps the entries.
LEMMA QuietStep ==
  ASSUME EntriesKept, registry' = registry,
         \A x \in Ids : children'[x] \in Actors => children'[x] = children[x],
         \A c \in Calls :
           /\ Adding(c)' => Adding(c) /\ id'[c] = id[c]
           /\ Removing(c)' => Removing(c) /\ id'[c] = id[c] /\ took'[c] = took[c],
         \A c \in Calls :
           at[c] = "ok" => /\ kind'[c] = kind[c] /\ id'[c] = id[c]
                           /\ took'[c] = took[c] /\ at'[c] = at[c]
  PROVE  EntriesKept'
<1> SUFFICES ASSUME NEW x \in Ids, ~EntryTaken(x)' PROVE Kept(x)'
  BY DEF EntriesKept
<1>1. Kept(x)
  BY StaysTaken DEF EntriesKept
<1> QED BY <1>1 DEF Kept, Actors

\* A call of add_actor.
LEMMA AddActorStep ==
  ASSUME IInv, CompletionTypeOK',
         NEW c \in Calls, NEW x \in Ids, NEW peers, AddActor(c, x, peers)
  PROVE  IInv'
<1> USE RuntimeAssumption DEF IInv, Parts, TypeOK, Kinds, AddActor, Register, Begin, Unused, removalVars
<1>1. TypeOK'
  <2>1. /\ kind' \in [Calls -> Kinds]
        /\ id' \in [Calls -> Ids \cup {None}]
        /\ at' \in [Calls -> {"none", "send", "reply", "wait", "ok", "err", "dropped"}]
    OBVIOUS
  <2>2. registry' \in [Ids -> Calls \cup {Built, None}]
    OBVIOUS
  <2>3. TypeOK /\ UNCHANGED <<cmd, queue, state, children, leaving, took>>
    OBVIOUS
  <2> HIDE DEF IInv, Parts, AddActor, Register, Begin, Unused, Kinds
  <2> QED BY <2>1, <2>2, <2>3
<1>2. Stages'
  BY DEF Stages
<1>3. Found'
  BY DEF Stages, Found
<1>4. Queued'
  BY DEF Stages, Queued
<1>5. Leaving'
  BY DEF Stages, Queued, Leaving
<1>6. Owned'
  BY DEF Stages, Queued, Owned
<1>7. Gone'
  BY DEF Stages, Queued, Leaving, Owned, Found, Gone, Actors
<1>8. EntriesKept'
  <2>1. \A d \in Calls :
          at[d] = "ok" => /\ kind'[d] = kind[d] /\ id'[d] = id[d]
                          /\ took'[d] = took[d] /\ at'[d] = at[d]
    BY DEF Stages
  <2>2. SUFFICES ASSUME NEW y \in Ids, ~EntryTaken(y)' PROVE Kept(y)'
    BY DEF EntriesKept
  <2>3. Kept(y)
    BY <2>1, <2>2, StaysTaken DEF EntriesKept
  <2>4. /\ kind'[c] = "addActor" /\ id'[c] = x /\ ~Removing(c)'
        /\ \A d \in Calls \ {c} : /\ Adding(d)' <=> Adding(d)
                                  /\ Removing(d)' <=> Removing(d)
                                  /\ id'[d] = id[d]
        /\ took' = took /\ children' = children
    BY DEF Adding, Removing
  <2>5. CASE at'[c] = "err" \/ y # x
    <3>1. registry'[y] = registry[y] /\ (Adding(c)' => id'[c] # y)
      BY <2>4, <2>5 DEF Adding, Stages
    <3> HIDE DEF IInv, Parts, TypeOK, AddActor
    <3> QED BY <2>3, <2>4, <3>1 DEF Kept, Actors
  <2>6. CASE at'[c] # "err" /\ y = x
    <3>1. registry[x] = None /\ registry'[x] = c
      BY <2>6
    <3>2. None \notin Actors
      BY DEF Actors
    <3> HIDE DEF IInv, Parts, TypeOK, AddActor
    <3>3. children[x] \notin Actors
      BY <2>3, <2>6, <3>1, <3>2 DEF Kept
    <3>4. \A d \in Calls \ {c} : id[d] = x => ~Adding(d)
      BY <2>3, <2>6, <3>1, <3>2 DEF Kept, Actors
    <3>5. \A d \in Calls \ {c} : id[d] = x => ~Removing(d)
      BY <2>3, <2>6, <3>1, <3>2 DEF Kept, Removing
    <3> QED BY <2>4, <2>6, <3>1, <3>3, <3>4, <3>5 DEF Kept
  <2> QED BY <2>5, <2>6
<1> QED BY <1>1, <1>2, <1>3, <1>4, <1>5, <1>6, <1>7, <1>8

\* The calls that only send a command.
LEMMA CallStep ==
  ASSUME IInv, CompletionTypeOK',
         NEW c \in Calls, NEW k \in {"addChild", "removeActor", "removeChild"},
         NEW x \in Ids, Call(c, k, x)
  PROVE  IInv'
<1> USE RuntimeAssumption DEF IInv, Parts, TypeOK, Kinds, Call, Begin, Unused, removalVars
<1>1. TypeOK'
  OBVIOUS
<1>2. Stages'
  BY DEF Stages
<1>3. Found'
  BY DEF Stages, Found
<1>4. Queued'
  BY DEF Stages, Queued
<1>5. Leaving'
  BY DEF Stages, Queued, Leaving
<1>6. Owned'
  BY DEF Stages, Queued, Owned
<1>7. Gone'
  BY DEF Stages, Queued, Leaving, Owned, Found, Gone, Actors
<1>8. EntriesKept'
  <2>1. /\ registry' = registry
        /\ \A y \in Ids : children'[y] \in Actors => children'[y] = children[y]
    BY DEF Actors
  <2>2. \A e \in Calls :
          /\ Adding(e)' => Adding(e) /\ id'[e] = id[e]
          /\ Removing(e)' => Removing(e) /\ id'[e] = id[e] /\ took'[e] = took[e]
    BY DEF Adding, Removing, Actors, Stages
  <2>3. \A e \in Calls :
          at[e] = "ok" => /\ kind'[e] = kind[e] /\ id'[e] = id[e]
                          /\ took'[e] = took[e] /\ at'[e] = at[e]
    BY DEF Stages
  <2> QED BY <2>1, <2>2, <2>3, QuietStep
<1> QED BY <1>1, <1>2, <1>3, <1>4, <1>5, <1>6, <1>7, <1>8

\* The command is accepted.
LEMMA SendStep ==
  ASSUME IInv, CompletionTypeOK',
         NEW c \in Calls, Send(c)
  PROVE  IInv'
<1> USE RuntimeAssumption DEF IInv, Parts, TypeOK, Kinds, Send, callVars, removalVars
<1>1. TypeOK'
  OBVIOUS
<1>2. Stages'
  BY DEF Stages
<1>3. Found'
  BY DEF Stages, Found
<1>4. Queued'
  BY DEF Stages, Queued
<1>5. Leaving'
  BY DEF Stages, Queued, Leaving
<1>6. Owned'
  BY DEF Stages, Queued, Owned
<1>7. Gone'
  BY DEF Stages, Queued, Leaving, Owned, Found, Gone, Actors
<1>8. EntriesKept'
  <2>1. /\ registry' = registry
        /\ \A x \in Ids : children'[x] \in Actors => children'[x] = children[x]
    BY DEF Actors
  <2>2. \A e \in Calls :
          /\ Adding(e)' => Adding(e) /\ id'[e] = id[e]
          /\ Removing(e)' => Removing(e) /\ id'[e] = id[e] /\ took'[e] = took[e]
    BY DEF Adding, Removing, Actors, Stages
  <2>3. \A e \in Calls :
          at[e] = "ok" => /\ kind'[e] = kind[e] /\ id'[e] = id[e]
                          /\ took'[e] = took[e] /\ at'[e] = at[e]
    BY DEF Stages
  <2> QED BY <2>1, <2>2, <2>3, QuietStep
<1> QED BY <1>1, <1>2, <1>3, <1>4, <1>5, <1>6, <1>7, <1>8

\* The command is refused.
LEMMA RefusedStep ==
  ASSUME IInv, CompletionTypeOK',
         NEW c \in Calls, Refused(c)
  PROVE  IInv'
<1> USE RuntimeAssumption DEF IInv, Parts, TypeOK, Kinds, Refused, Undo, Deregister, callVars, removalVars
<1>1. TypeOK'
  <2>1. /\ kind' \in [Calls -> Kinds]
        /\ id' \in [Calls -> Ids \cup {None}]
        /\ at' \in [Calls -> {"none", "send", "reply", "wait", "ok", "err", "dropped"}]
    OBVIOUS
  <2>2. registry' \in [Ids -> Calls \cup {Built, None}]
    OBVIOUS
  <2>3. TypeOK /\ UNCHANGED <<cmd, queue, state, children, leaving, took>>
    OBVIOUS
  <2> HIDE DEF IInv, Parts, Refused, Undo, Deregister, Kinds
  <2> QED BY <2>1, <2>2, <2>3
<1>2. Stages'
  BY DEF Stages
<1>3. Found'
  BY DEF Stages, Found
<1>4. Queued'
  BY DEF Stages, Queued
<1>5. Leaving'
  BY DEF Stages, Queued, Leaving
<1>6. Owned'
  BY DEF Stages, Queued, Owned
<1>7. Gone'
  BY DEF Stages, Queued, Leaving, Owned, Found, Gone, Actors
<1>8. EntriesKept'
  <2>1. \A d \in Calls :
          at[d] = "ok" => /\ kind'[d] = kind[d] /\ id'[d] = id[d]
                          /\ took'[d] = took[d] /\ at'[d] = at[d]
    BY DEF Stages
  <2>2. SUFFICES ASSUME NEW y \in Ids, ~EntryTaken(y)' PROVE Kept(y)'
    BY DEF EntriesKept
  <2>3. Kept(y)
    BY <2>1, <2>2, StaysTaken DEF EntriesKept
  <2>4. /\ \A d \in Calls : /\ Adding(d)' => Adding(d) /\ (d = c => kind[c] # "addActor")
                            /\ Removing(d)' => Removing(d) /\ (d = c => kind[c] # "removeActor")
        /\ took' = took /\ children' = children /\ id' = id
    BY DEF Adding, Removing, Stages
  <2>5. CASE registry'[y] = registry[y]
    <3> HIDE DEF IInv, Parts, TypeOK, Refused, Undo, Deregister
    <3> QED BY <2>3, <2>4, <2>5 DEF Kept, Actors
  <2>6. CASE registry'[y] # registry[y]
    <3>1. kind[c] = "addActor" /\ id[c] = y /\ Adding(c) /\ cmd[c] # "ok"
      BY <2>6 DEF Adding, Stages
    <3>2. registry[y] = c /\ c \notin {Built, Plain, None}
      BY <2>3, <3>1 DEF Kept
    <3>3. children[y] \notin Actors
      BY <2>3, <3>1, <3>2 DEF Kept, Owned
    <3>4. \A d \in Calls : Adding(d) /\ id[d] = y => d = c
      BY <2>3, <3>2 DEF Kept
    <3>5. \A d \in Calls : Removing(d) => id[d] # y
      BY <2>3, <3>1, <3>2 DEF Kept, Gone
    <3> HIDE DEF IInv, Parts, TypeOK, Refused, Undo, Deregister
    <3> QED BY <2>4, <3>1, <3>3, <3>4, <3>5 DEF Kept
  <2> QED BY <2>5, <2>6
<1> QED BY <1>1, <1>2, <1>3, <1>4, <1>5, <1>6, <1>7, <1>8

\* The answer has come.
LEMMA AnsweredStep ==
  ASSUME IInv, CompletionTypeOK',
         NEW c \in Calls, Answered(c)
  PROVE  IInv'
<1> USE RuntimeAssumption DEF IInv, Parts, TypeOK, Kinds, Answered, Undo, Deregister, callVars, removalVars
<1>1. TypeOK'
  <2>1. /\ kind' \in [Calls -> Kinds]
        /\ id' \in [Calls -> Ids \cup {None}]
        /\ at' \in [Calls -> {"none", "send", "reply", "wait", "ok", "err", "dropped"}]
    OBVIOUS
  <2>2. registry' \in [Ids -> Calls \cup {Built, None}]
    OBVIOUS
  <2>3. TypeOK /\ UNCHANGED <<cmd, queue, state, children, leaving, took>>
    OBVIOUS
  <2> HIDE DEF IInv, Parts, Answered, Undo, Deregister, Kinds
  <2> QED BY <2>1, <2>2, <2>3
<1>2. Stages'
  BY DEF Stages
<1>3. Found'
  BY DEF Stages, Found
<1>4. Queued'
  BY DEF Stages, Queued
<1>5. Leaving'
  BY DEF Stages, Queued, Leaving
<1>6. Owned'
  <2>1. CASE cmd[c] = "err" /\ kind[c] = "addActor"
    BY <2>1 DEF Owned
  <2>2. CASE cmd[c] = "err" /\ kind[c] # "addActor"
    BY <2>2 DEF Owned
  <2>3. CASE cmd[c] = "ok" /\ kind[c] # "removeActor"
    BY <2>3 DEF Owned
  <2>4. CASE cmd[c] = "ok" /\ kind[c] = "removeActor"
    BY <2>4 DEF Owned, Stages
  <2> QED BY <2>1, <2>2, <2>3, <2>4
<1>7. Gone'
  BY DEF Stages, Queued, Leaving, Owned, Found, Gone, Actors
<1>8. EntriesKept'
  <2>1. \A d \in Calls :
          at[d] = "ok" => /\ kind'[d] = kind[d] /\ id'[d] = id[d]
                          /\ took'[d] = took[d] /\ at'[d] = at[d]
    BY DEF Stages
  <2>2. SUFFICES ASSUME NEW y \in Ids, ~EntryTaken(y)' PROVE Kept(y)'
    BY DEF EntriesKept
  <2>3. Kept(y)
    BY <2>1, <2>2, StaysTaken DEF EntriesKept
  <2>4. /\ \A d \in Calls : /\ Adding(d)' => Adding(d) /\ (d = c => kind[c] # "addActor")
                            /\ Removing(d)' => Removing(d) /\ (d = c => kind[c] # "removeActor")
        /\ took' = took /\ children' = children /\ id' = id
    BY DEF Adding, Removing
  <2>5. CASE registry'[y] = registry[y]
    <3> HIDE DEF IInv, Parts, TypeOK, Answered, Undo, Deregister
    <3> QED BY <2>3, <2>4, <2>5 DEF Kept, Actors
  <2>6. CASE registry'[y] # registry[y]
    <3>1. CASE kind[c] = "addActor"
      <4>1. kind[c] = "addActor" /\ id[c] = y /\ Adding(c) /\ cmd[c] # "ok"
        BY <2>6, <3>1 DEF Adding, Stages
      <4>2. registry[y] = c /\ c \notin {Built, Plain, None}
        BY <2>3, <4>1 DEF Kept
      <4>3. children[y] \notin Actors
        BY <2>3, <4>1, <4>2 DEF Kept, Owned
      <4>4. \A d \in Calls : Adding(d) /\ id[d] = y => d = c
        BY <2>3, <4>2 DEF Kept
      <4>5. \A d \in Calls : Removing(d) => id[d] # y
        BY <2>3, <4>1, <4>2 DEF Kept, Gone
      <4> HIDE DEF IInv, Parts, TypeOK, Answered, Undo, Deregister
      <4> QED BY <2>4, <4>1, <4>3, <4>4, <4>5 DEF Kept
    <3>2. CASE kind[c] # "addActor"
      <4>1. /\ kind[c] = "removeActor" /\ cmd[c] = "ok" /\ id[c] = y
            /\ registry[y] # None /\ at'[c] = "ok" /\ took[c] # None
        BY <2>6, <3>2 DEF Found
      <4>2. took[c] # Plain
        BY <2>2, <2>4, <4>1 DEF EntryTaken
      <4>3. Removing(c) /\ registry[y] = took[c]
        BY <2>3, <4>1, <4>2 DEF Removing, Kept, Actors
      <4>4. children[y] \notin Actors
        BY <2>3, <4>1, <4>3 DEF Kept, Gone, Removing
      <4>5. \A d \in Calls : Adding(d) => id[d] # y
        BY <2>3, <4>1, <4>3 DEF Kept, Gone, Adding, Stages
      <4>6. \A d \in Calls : Removing(d) /\ id[d] = y => d = c
        BY <2>3, <4>1, <4>3 DEF Kept
      <4> HIDE DEF IInv, Parts, TypeOK, Answered, Undo, Deregister
      <4> QED BY <2>4, <4>1, <4>4, <4>5, <4>6 DEF Kept
    <3> QED BY <3>1, <3>2
  <2> QED BY <2>5, <2>6
<1> QED BY <1>1, <1>2, <1>3, <1>4, <1>5, <1>6, <1>7, <1>8

\* The future of a call is dropped.
LEMMA DropStep ==
  ASSUME IInv, CompletionTypeOK',
         NEW c \in Calls, Drop(c)
  PROVE  IInv'
<1> USE RuntimeAssumption DEF IInv, Parts, TypeOK, Kinds, Drop, callVars, removalVars
<1>1. TypeOK'
  OBVIOUS
<1>2. Stages'
  BY DEF Stages
<1>3. Found'
  BY DEF Stages, Found
<1>4. Queued'
  BY DEF Stages, Queued
<1>5. Leaving'
  BY DEF Stages, Queued, Leaving
<1>6. Owned'
  BY DEF Stages, Queued, Owned
<1>7. Gone'
  BY DEF Stages, Queued, Leaving, Owned, Found, Gone, Actors
<1>8. EntriesKept'
  <2>1. /\ registry' = registry
        /\ \A x \in Ids : children'[x] \in Actors => children'[x] = children[x]
    BY DEF Actors
  <2>2. \A e \in Calls :
          /\ Adding(e)' => Adding(e) /\ id'[e] = id[e]
          /\ Removing(e)' => Removing(e) /\ id'[e] = id[e] /\ took'[e] = took[e]
    BY DEF Adding, Removing, Actors, Stages
  <2>3. \A e \in Calls :
          at[e] = "ok" => /\ kind'[e] = kind[e] /\ id'[e] = id[e]
                          /\ took'[e] = took[e] /\ at'[e] = at[e]
    BY DEF Stages
  <2> QED BY <2>1, <2>2, <2>3, QuietStep
<1> QED BY <1>1, <1>2, <1>3, <1>4, <1>5, <1>6, <1>7, <1>8

\* The supervisor adds a child.
LEMMA AddStep ==
  ASSUME IInv, CompletionTypeOK', NEW c \in Calls, HandleAdd(c)
  PROVE  IInv'
<1>0. /\ cmd[c] = "queued" /\ Queued'
      /\ \E answer \in {"ok", "err", "removing"} : cmd' = [cmd EXCEPT ![c] = answer]
      /\ TypeOK' <=> children' \in [Ids -> Calls \cup {Built, Plain, None}]
                      /\ leaving' \subseteq Ids
                      /\ took' \in [Calls -> Calls \cup {Built, Plain, None}]
      /\ UNCHANGED <<kind, id, at, registry, leaving, took>>
  BY TakenIsQueued DEF HandleAdd, removalVars
<1>1. TypeOK'
  <2>1. children' \in [Ids -> Calls \cup {Built, Plain, None}]
    BY DEF HandleAdd, IInv, TypeOK
  <2> QED BY <1>0, <2>1 DEF IInv, TypeOK
<1>2. kind[c] \in {"addActor", "addChild"} /\ id[c] \in Ids
  BY DEF HandleAdd, IInv, Parts, Stages
<1>3. /\ cmd' \in [Calls -> {"none", "queued", "removing", "removed", "ok", "err"}]
      /\ cmd'[c] \in {"ok", "err"} /\ \A d \in Calls \ {c} : cmd'[d] = cmd[d]
  BY <1>0, <1>1 DEF HandleAdd, Taken, IInv, TypeOK
<1>4. \/ /\ cmd'[c] = "ok" /\ children[id[c]] = None
         /\ children' = [children EXCEPT ![id[c]] = IF kind[c] = "addActor" THEN c ELSE Plain]
      \/ cmd'[c] = "err" /\ children' = children
  BY <1>0, <1>3 DEF HandleAdd, Taken, IInv, TypeOK
<1>5. /\ \A y \in Ids : \/ children'[y] = children[y]
                        \/ /\ y = id[c] /\ cmd'[c] = "ok" /\ children[y] = None
                           /\ children'[y] = IF kind[c] = "addActor" THEN c ELSE Plain
      /\ c \notin {Built, Plain, None} /\ Plain # None
      /\ Built # Plain /\ Plain \notin Calls
  BY <1>2, <1>4, RuntimeAssumption DEF IInv, TypeOK
<1>6. Stages' /\ Found'
  BY <1>0, <1>2, <1>3 DEF IInv, Parts, Stages, Found
<1>7. Leaving'
  BY <1>0, <1>3, <1>5 DEF IInv, Parts, TypeOK, Leaving
<1>8. Owned'
  <2>1. ASSUME NEW y \in Ids, NEW d \in Calls, children'[y] = d
        PROVE  kind[d] = "addActor" /\ id[d] = y /\ cmd'[d] = "ok"
    BY <1>0, <1>3, <1>5, <2>1 DEF IInv, Parts, Owned
  <2> QED BY <1>0, <2>1 DEF IInv, Parts, Owned
<1>9. Gone'
  <2>1. ASSUME NEW d \in Calls, took[d] \in Calls
        PROVE  took[d] # c /\ cmd'[took[d]] = "ok"
    BY <1>0, <1>3, <2>1 DEF IInv, Parts, Gone
  <2>2. ASSUME NEW d \in Calls, cmd'[d] \in {"removed", "ok"}, took[d] \in Actors
        PROVE  children'[id[d]] # took[d]
    <3>1. d # c /\ cmd[d] = cmd'[d] /\ id[d] \in Ids
      BY <1>0, <1>2, <1>3, <2>2, RuntimeAssumption DEF IInv, Parts, Stages, Found, Actors
    <3> QED BY <1>5, <2>1, <2>2, <3>1 DEF IInv, Parts, Gone, Actors
  <2> QED BY <1>0, <2>1, <2>2 DEF Gone
<1>10. EntriesKept'
  <2>1. SUFFICES ASSUME NEW y \in Ids, ~EntryTaken(y)' PROVE Kept(y)'
    BY DEF EntriesKept
  <2>2. Kept(y)
    BY <1>0, <2>1, StaysTaken DEF IInv, EntriesKept
  <2>3. \A d \in Calls : Adding(d)' => Adding(d)
    BY <1>0, <1>3 DEF Adding
  <2>4. \A d \in Calls : Removing(d)' => Removing(d)
    BY <1>0, <1>2, <1>3 DEF Removing
  <2>5. children'[y] \in Actors => registry[y] = children'[y]
    <3>1. kind[c] = "addActor" => Adding(c)
      BY <1>0 DEF Adding
    <3> QED BY <1>5, <2>2, <3>1 DEF Kept, Actors
  <2> QED BY <1>0, <2>2, <2>3, <2>4, <2>5 DEF Kept
<1> QED BY <1>0, <1>1, <1>6, <1>7, <1>8, <1>9, <1>10 DEF IInv, Parts

\* The supervisor begins to remove a child.
LEMMA RemoveStep ==
  ASSUME IInv, CompletionTypeOK', NEW c \in Calls, HandleRemove(c)
  PROVE  IInv'
<1>0. /\ cmd[c] = "queued" /\ Queued'
      /\ \E answer \in {"ok", "err", "removing"} : cmd' = [cmd EXCEPT ![c] = answer]
      /\ TypeOK' <=> children' \in [Ids -> Calls \cup {Built, Plain, None}]
                      /\ leaving' \subseteq Ids
                      /\ took' \in [Calls -> Calls \cup {Built, Plain, None}]
      /\ UNCHANGED <<kind, id, at, registry, children>>
  BY TakenIsQueued DEF HandleRemove
<1>1. TypeOK'
  <2>1. leaving' \subseteq Ids /\ took' \in [Calls -> Calls \cup {Built, Plain, None}]
    BY DEF HandleRemove, removalVars, IInv, Parts, TypeOK, Stages
  <2> QED BY <1>0, <2>1 DEF IInv, TypeOK
<1>2. kind[c] \in {"removeActor", "removeChild"} /\ id[c] \in Ids /\ took[c] = None
  BY <1>0 DEF HandleRemove, IInv, Parts, Stages, Found
<1>3. /\ cmd'[c] \in {"removing", "err"} /\ \A d \in Calls \ {c} : cmd'[d] = cmd[d]
      /\ cmd'[c] = "err" => leaving' = leaving /\ took' = took
      /\ cmd'[c] = "removing" =>
           /\ children[id[c]] # None /\ id[c] \notin leaving
           /\ leaving' = leaving \cup {id[c]} /\ took'[c] = children[id[c]]
           /\ \A d \in Calls \ {c} : took'[d] = took[d]
  BY <1>0 DEF HandleRemove, Taken, removalVars, IInv, TypeOK
<1>4. \A d \in Calls \ {c} : took'[d] = took[d]
  BY <1>3
<1>5. Stages' /\ Found'
  BY <1>0, <1>2, <1>3, <1>4 DEF IInv, Parts, Stages, Found
<1>6. Leaving'
  BY <1>0, <1>2, <1>3 DEF IInv, Parts, Leaving
<1>7. Owned'
  BY <1>0, <1>3 DEF IInv, Parts, Owned
<1>8. Gone'
  <2>1. ASSUME NEW d \in Calls, took'[d] \in Calls PROVE cmd'[took'[d]] = "ok"
    <3>1. CASE d # c
      BY <1>0, <1>3, <1>4, <2>1, <3>1 DEF IInv, Parts, Gone
    <3>2. CASE d = c
      BY <1>0, <1>2, <1>3, <2>1, <3>2, RuntimeAssumption DEF IInv, Parts, Owned
    <3> QED BY <3>1, <3>2
  <2>2. ASSUME NEW d \in Calls, cmd'[d] \in {"removed", "ok"}, took'[d] \in Actors
        PROVE  children'[id'[d]] # took'[d]
    <3>1. d # c
      BY <1>3, <2>2
    <3> QED BY <1>0, <1>3, <1>4, <2>2, <3>1 DEF IInv, Parts, Gone
  <2> QED BY <2>1, <2>2 DEF Gone
<1>9. EntriesKept'
  <2>1. SUFFICES ASSUME NEW y \in Ids, ~EntryTaken(y)' PROVE Kept(y)'
    BY DEF EntriesKept
  <2>2. \A d \in Calls : at[d] = "ok" => d # c
    BY <1>0 DEF IInv, Parts, Stages
  <2>3. Kept(y)
    BY <1>0, <1>4, <2>1, <2>2, StaysTaken DEF IInv, EntriesKept
  <2>4. \A d \in Calls : Adding(d)' => Adding(d)
    BY <1>0, <1>2, <1>3 DEF Adding
  <2>5. ASSUME NEW d \in Calls, Removing(d)', d # c PROVE Removing(d) /\ took'[d] = took[d]
    BY <1>0, <1>3, <1>4, <2>5 DEF Removing
  <2>6. ASSUME Removing(c)', id[c] = y
        PROVE  /\ took'[c] = children[y] /\ registry[y] = children[y]
               /\ \A d \in Calls : Removing(d) => id[d] # y
    <3>1. cmd'[c] = "removing" /\ took'[c] = children[y] /\ children[y] \in Actors
      BY <1>2, <1>3, <2>6 DEF Removing
    <3>2. registry[y] = children[y]
      BY <2>3, <3>1 DEF Kept
    <3>3. ASSUME NEW d \in Calls, Removing(d), id[d] = y PROVE FALSE
      <4>1. took[d] = children[y]
        BY <2>3, <3>2, <3>3 DEF Kept
      <4>2. CASE cmd[d] = "removing"
        BY <1>3, <2>6, <3>1, <3>3, <4>2 DEF IInv, Parts, Leaving
      <4>3. CASE cmd[d] \in {"removed", "ok"}
        BY <3>1, <3>3, <4>1, <4>3 DEF IInv, Parts, Gone
      <4> QED BY <3>3, <4>2, <4>3 DEF Removing
    <3> QED BY <3>1, <3>2, <3>3
  <2>7. \A d \in Calls : Removing(d)' /\ id[d] = y => registry[y] = took'[d]
    <3>1. ASSUME NEW d \in Calls, Removing(d)', id[d] = y PROVE registry[y] = took'[d]
      <4>1. CASE d = c
        BY <2>6, <3>1, <4>1
      <4>2. CASE d # c
        BY <2>3, <2>5, <3>1, <4>2 DEF Kept
      <4> QED BY <4>1, <4>2
    <3> QED BY <3>1
  <2>8. ASSUME NEW d \in Calls, NEW e \in Calls, Removing(d)', Removing(e)',
               id[d] = y, id[e] = y
        PROVE  d = e
    <3>1. CASE d = c \/ e = c
      BY <2>5, <2>6, <2>8, <3>1
    <3>2. CASE d # c /\ e # c
      BY <2>3, <2>5, <2>8, <3>2 DEF Kept
    <3> QED BY <3>1, <3>2
  <2> QED BY <1>0, <2>3, <2>4, <2>7, <2>8 DEF Kept
<1> QED BY <1>0, <1>1, <1>5, <1>6, <1>7, <1>8, <1>9 DEF IInv, Parts

\* A child is removed.
LEMMA LeavesStep ==
  ASSUME IInv, CompletionTypeOK',
         NEW x \in Ids, Leaves(x)
  PROVE  IInv'
<1> USE RuntimeAssumption DEF IInv, Parts, TypeOK, Kinds, Leaves, callVars, removalVars
<1>1. TypeOK'
  OBVIOUS
<1>2. Stages'
  BY DEF Stages
<1>3. Found'
  BY DEF Stages, Found
<1>4. Queued'
  BY DEF Stages, Queued
<1>5. Leaving'
  BY DEF Stages, Queued, Leaving
<1>6. Owned'
  <2>1. ASSUME NEW y \in Ids, NEW c \in Calls, children'[y] = c
        PROVE  children[y] = c /\ cmd[c] = "ok" /\ cmd'[c] = "ok"
    BY <2>1 DEF Owned
  <2> QED BY <2>1 DEF Owned
<1>7. Gone'
  BY DEF Stages, Queued, Leaving, Owned, Found, Gone, Actors
<1>8. EntriesKept'
  <2>1. /\ registry' = registry
        /\ \A y \in Ids : children'[y] \in Actors => children'[y] = children[y]
    BY DEF Actors
  <2>2. \A c \in Calls :
          /\ Adding(c)' => Adding(c) /\ id'[c] = id[c]
          /\ Removing(c)' => Removing(c) /\ id'[c] = id[c] /\ took'[c] = took[c]
    BY DEF Adding, Removing, Actors, Stages
  <2>3. \A c \in Calls :
          at[c] = "ok" => /\ kind'[c] = kind[c] /\ id'[c] = id[c]
                          /\ took'[c] = took[c] /\ at'[c] = at[c]
    BY DEF Stages
  <2> QED BY <2>1, <2>2, <2>3, QuietStep
<1> QED BY <1>1, <1>2, <1>3, <1>4, <1>5, <1>6, <1>7, <1>8

\* The removal returns.
LEMMA ReturnsStep ==
  ASSUME IInv, CompletionTypeOK',
         NEW c \in Calls, RemovalReturns(c)
  PROVE  IInv'
<1> USE RuntimeAssumption DEF IInv, Parts, TypeOK, Kinds, RemovalReturns, callVars, removalVars
<1>1. TypeOK'
  OBVIOUS
<1>2. Stages'
  BY DEF Stages
<1>3. Found'
  BY DEF Stages, Found
<1>4. Queued'
  BY DEF Stages, Queued
<1>5. Leaving'
  BY DEF Stages, Queued, Leaving
<1>6. Owned'
  BY DEF Stages, Queued, Owned
<1>7. Gone'
  BY DEF Stages, Queued, Leaving, Owned, Found, Gone, Actors
<1>8. EntriesKept'
  <2>1. /\ registry' = registry
        /\ \A x \in Ids : children'[x] \in Actors => children'[x] = children[x]
    BY DEF Actors
  <2>2. \A e \in Calls :
          /\ Adding(e)' => Adding(e) /\ id'[e] = id[e]
          /\ Removing(e)' => Removing(e) /\ id'[e] = id[e] /\ took'[e] = took[e]
    BY DEF Adding, Removing, Actors, Stages
  <2>3. \A e \in Calls :
          at[e] = "ok" => /\ kind'[e] = kind[e] /\ id'[e] = id[e]
                          /\ took'[e] = took[e] /\ at'[e] = at[e]
    BY DEF Stages
  <2> QED BY <2>1, <2>2, <2>3, QuietStep
<1> QED BY <1>1, <1>2, <1>3, <1>4, <1>5, <1>6, <1>7, <1>8

\* It takes away the child that has got the slot of its own.
LEMMA OccupantStep ==
  ASSUME IInv, CompletionTypeOK',
         NEW c \in Calls, NEW x \in Ids, RemovesOccupant(c, x)
  PROVE  IInv'
<1> USE RuntimeAssumption DEF IInv, Parts, TypeOK, Kinds, RemovesOccupant, callVars, removalVars
<1>1. TypeOK'
  OBVIOUS
<1>2. Stages'
  BY DEF Stages
<1>3. Found'
  BY DEF Stages, Found
<1>4. Queued'
  <2>1. queue' = queue /\ \A i \in 1..Len(queue) : queue[i] \in Calls
    OBVIOUS
  <2>2. \A d \in Calls : cmd[d] = "queued" => cmd'[d] = "queued"
    OBVIOUS
  <2> QED BY <2>1, <2>2 DEF Queued
<1>5. Leaving'
  BY DEF Stages, Queued, Leaving
<1>6. Owned'
  BY DEF Stages, Queued, Owned
<1>7. Gone'
  BY DEF Stages, Queued, Leaving, Owned, Found, Gone, Actors
<1>8. EntriesKept'
  <2>1. /\ registry' = registry
        /\ \A y \in Ids : children'[y] \in Actors => children'[y] = children[y]
    BY DEF Actors
  <2>2. \A e \in Calls :
          /\ Adding(e)' => Adding(e) /\ id'[e] = id[e]
          /\ Removing(e)' => Removing(e) /\ id'[e] = id[e] /\ took'[e] = took[e]
    BY DEF Adding, Removing, Actors, Stages
  <2>3. \A e \in Calls :
          at[e] = "ok" => /\ kind'[e] = kind[e] /\ id'[e] = id[e]
                          /\ took'[e] = took[e] /\ at'[e] = at[e]
    BY DEF Stages
  <2> QED BY <2>1, <2>2, <2>3, QuietStep
<1> QED BY <1>1, <1>2, <1>3, <1>4, <1>5, <1>6, <1>7, <1>8

\* Calls of wait.
LEMMA WaitStep ==
  ASSUME IInv, CompletionTypeOK',
         NEW c \in Calls, Wait(c) \/ WaitDropped(c)
  PROVE  IInv'
<1> USE RuntimeAssumption DEF IInv, Parts, TypeOK, Kinds, Wait, WaitDropped, Begin, Unused,
           commandVars, removalVars
<1>1. TypeOK'
  OBVIOUS
<1>2. Stages'
  BY DEF Stages
<1>3. Found'
  BY DEF Stages, Found
<1>4. Queued'
  BY DEF Stages, Queued
<1>5. Leaving'
  BY DEF Stages, Queued, Leaving
<1>6. Owned'
  BY DEF Stages, Queued, Owned
<1>7. Gone'
  BY DEF Stages, Queued, Leaving, Owned, Found, Gone, Actors
<1>8. EntriesKept'
  <2>1. /\ registry' = registry
        /\ \A x \in Ids : children'[x] \in Actors => children'[x] = children[x]
    BY DEF Actors
  <2>2. \A e \in Calls :
          /\ Adding(e)' => Adding(e) /\ id'[e] = id[e]
          /\ Removing(e)' => Removing(e) /\ id'[e] = id[e] /\ took'[e] = took[e]
    BY DEF Adding, Removing, Actors, Stages
  <2>3. \A e \in Calls :
          at[e] = "ok" => /\ kind'[e] = kind[e] /\ id'[e] = id[e]
                          /\ took'[e] = took[e] /\ at'[e] = at[e]
    BY DEF Stages
  <2> QED BY <2>1, <2>2, <2>3, QuietStep
<1> QED BY <1>1, <1>2, <1>3, <1>4, <1>5, <1>6, <1>7, <1>8

\* The task is over.
LEMMA OverStep ==
  ASSUME IInv, CompletionTypeOK',
         End \/ Crash
  PROVE  IInv'
<1>0. Over /\ UNCHANGED <<kind, id, at, took, registry>>
  BY DEF End, Crash, Over, callVars
<1>1. TypeOK'
  <2>1. cmd' \in [Calls -> {"none", "queued", "removing", "removed", "ok", "err"}]
    BY <1>0 DEF IInv, TypeOK, Over
  <2>2. queue' \in Seq(Calls) /\ Len(queue') <= Capacity
    BY <1>0, RuntimeAssumption DEF Over
  <2>3. /\ state' \in {"open", "closed", "stopping"}
        /\ children' \in [Ids -> Calls \cup {Built, Plain, None}] /\ leaving' \subseteq Ids
    BY <1>0 DEF Over
  <2> QED BY <1>0, <2>1, <2>2, <2>3 DEF IInv, TypeOK
<1>7. Gone'
  <2>1. \A c \in Calls : /\ cmd'[c] = "ok" <=> cmd[c] = "ok"
                         /\ cmd'[c] # "removed"
    BY <1>0 DEF IInv, TypeOK, Over
  <2>2. \A c \in Calls : took[c] \in Actors => id[c] \in Ids
    BY RuntimeAssumption DEF IInv, Parts, Found, Stages, Actors
  <2>3. \A x \in Ids : children'[x] \notin Actors
    BY <1>0, RuntimeAssumption DEF Over, Actors
  <2> QED BY <1>0, <2>1, <2>2, <2>3 DEF IInv, Parts, Gone
<1> USE RuntimeAssumption DEF IInv, Parts, TypeOK, Kinds, End, Crash, Over, callVars
<1>2. Stages'
  BY DEF Stages
<1>3. Found'
  BY DEF Stages, Found
<1>4. Queued'
  BY DEF Stages, Queued
<1>5. Leaving'
  BY DEF Stages, Queued, Leaving
<1>6. Owned'
  BY DEF Stages, Queued, Owned
<1>8. EntriesKept'
  <2>1. /\ registry' = registry
        /\ \A x \in Ids : children'[x] \in Actors => children'[x] = children[x]
    BY DEF Actors
  <2>2. \A c \in Calls :
          /\ Adding(c)' => Adding(c) /\ id'[c] = id[c]
          /\ Removing(c)' => Removing(c) /\ id'[c] = id[c] /\ took'[c] = took[c]
    BY DEF Adding, Removing, Actors, Stages
  <2>3. \A c \in Calls :
          at[c] = "ok" => /\ kind'[c] = kind[c] /\ id'[c] = id[c]
                          /\ took'[c] = took[c] /\ at'[c] = at[c]
    BY DEF Stages
  <2> QED BY <2>1, <2>2, <2>3, QuietStep
<1> QED BY <1>1, <1>2, <1>3, <1>4, <1>5, <1>6, <1>7, <1>8

\* The channel is closed.
LEMMA StateStep ==
  ASSUME IInv, CompletionTypeOK',
         Shutdown \/ CloseChannel
  PROVE  IInv'
<1> USE RuntimeAssumption DEF IInv, Parts, TypeOK, Kinds, Shutdown, CloseChannel, commandVars, removalVars
<1>1. TypeOK'
  OBVIOUS
<1>2. Stages'
  BY DEF Stages
<1>3. Found'
  BY DEF Stages, Found
<1>4. Queued'
  BY DEF Stages, Queued
<1>5. Leaving'
  BY DEF Stages, Queued, Leaving
<1>6. Owned'
  BY DEF Stages, Queued, Owned
<1>7. Gone'
  BY DEF Stages, Queued, Leaving, Owned, Found, Gone, Actors
<1>8. EntriesKept'
  <2>1. /\ registry' = registry
        /\ \A x \in Ids : children'[x] \in Actors => children'[x] = children[x]
    BY DEF Actors
  <2>2. \A c \in Calls :
          /\ Adding(c)' => Adding(c) /\ id'[c] = id[c]
          /\ Removing(c)' => Removing(c) /\ id'[c] = id[c] /\ took'[c] = took[c]
    BY DEF Adding, Removing, Actors, Stages
  <2>3. \A c \in Calls :
          at[c] = "ok" => /\ kind'[c] = kind[c] /\ id'[c] = id[c]
                          /\ took'[c] = took[c] /\ at'[c] = at[c]
    BY DEF Stages
  <2> QED BY <2>1, <2>2, <2>3, QuietStep
<1> QED BY <1>1, <1>2, <1>3, <1>4, <1>5, <1>6, <1>7, <1>8

\* Every step keeps the invariant.
LEMMA Inductive == IInv /\ CompletionTypeOK' /\ [Next]_vars => IInv'
<1> SUFFICES ASSUME IInv, CompletionTypeOK', [Next]_vars PROVE IInv'
  OBVIOUS
<1>1. ASSUME NEW c \in Calls, Client(c) PROVE IInv'
  <2>1. ASSUME NEW x \in Ids, NEW peers, AddActor(c, x, peers) PROVE IInv'
    BY <2>1, AddActorStep
  <2>2. ASSUME NEW x \in Ids, NEW k \in {"addChild", "removeActor", "removeChild"},
               Call(c, k, x)
        PROVE  IInv'
    BY <2>2, CallStep
  <2>4. CASE Wait(c) \/ WaitDropped(c)
    BY <2>4, WaitStep
  <2>5. CASE Send(c)
    BY <2>5, SendStep
  <2>6. CASE Refused(c)
    BY <2>6, RefusedStep
  <2>7. CASE Answered(c)
    BY <2>7, AnsweredStep
  <2>8. CASE Drop(c)
    BY <2>8, DropStep
  <2> QED BY <1>1, <2>1, <2>2, <2>4, <2>5, <2>6, <2>7, <2>8 DEF Client
<1>2. CASE Supervisor
  <2>1. ASSUME NEW c \in Calls, Handle(c) \/ RemovalReturns(c) PROVE IInv'
    BY <2>1, AddStep, RemoveStep, ReturnsStep DEF Handle
  <2>2. ASSUME NEW x \in Ids, Leaves(x) PROVE IInv'
    BY <2>2, LeavesStep
  <2>3. ASSUME NEW c \in Calls, NEW x \in Ids, RemovesOccupant(c, x) PROVE IInv'
    BY <2>3, OccupantStep
  <2>4. CASE Shutdown \/ CloseChannel
    BY <2>4, StateStep
  <2>5. CASE End \/ Crash
    BY <2>5, OverStep
  <2> QED BY <1>2, <2>1, <2>2, <2>3, <2>4, <2>5 DEF Supervisor
<1>3. CASE UNCHANGED vars
  BY <1>3 DEF vars, commandVars, completionVars, removalVars, IInv, Parts, TypeOK,
     CompletionTypeOK, Stages, Found, Queued, Leaving, Owned, Gone, EntriesKept,
     EntryTaken, Kept, Adding, Removing
<1> QED BY <1>1, <1>2, <1>3 DEF Next

\* The invariant, of the calls, the registry, the children and those who wait.
THEOREM Invariance == Spec => []IInv
<1>1. CompletionInv => CompletionTypeOK
  BY DEF CompletionInv
<1>2. Init => CompletionInit
  BY DEF Init
<1> QED BY <1>1, <1>2, CompletionInitially, CompletionStep, StepsOfCompletion,
           Initially, Inductive, PTL DEF Spec

\* The variables hold what the program keeps in them, for any calls and ids; the
\* control channel never holds more than its capacity.
THEOREM TypeCorrect == Spec => []TypeOK
<1>1. IInv => TypeOK
  BY DEF IInv
<1> QED BY <1>1, Invariance, PTL

\* The registry leads to every supervised actor: of any number of calls that
\* overlap or are dropped between their two steps, with any ids, only a
\* remove_actor that has removed a plain child takes away the entry of another's
\* actor (RuntimeHandle::add_actor and remove_actor).
THEOREM RegistryLeadsToActors == Spec => []ActorsAreRegistered
<1>1. IInv => ActorsAreRegistered
  BY DEF IInv, EntriesKept, Kept, ActorsAreRegistered
<1> QED BY <1>1, Invariance, PTL

\* An add_actor that returned an error has left neither an entry nor a child: that
\* of another actor or of a plain child with its id may be why it was refused.
THEOREM RefusedCallsLeaveNothing == Spec => []RefusedLeavesNothing
<1>1. IInv => RefusedLeavesNothing
  <2>1. SUFFICES ASSUME IInv, NEW c \in Calls, kind[c] = "addActor", at[c] = "err", NEW x \in Ids
                 PROVE  registry[x] # c /\ children[x] # c
    BY DEF RefusedLeavesNothing
  <2>2. registry[x] # c
    BY <2>1 DEF IInv, Parts, Owned
  <2>3. children[x] # c
    BY <2>1 DEF IInv, Parts, Owned, Stages
  <2> QED BY <2>2, <2>3
<1> QED BY <1>1, Invariance, PTL

\* What holds of wait alone holds of wait in the runtime.
THEOREM WaitersOfTheRuntimeAgree == Spec => [](WaitersAgree /\ WaitTellsTheEnd)
BY ImplementsCompletion, CompletionAgrees, CompletionIsTrue, PTL

-----------------------------------------------------------------------------
(* The builders. *)

Errors ==
  {"InvalidConfig", "EmptyActors", "DuplicateActorId", "UnknownLinkSource",
   "UnknownLinkTarget", "DuplicateIngressName", "UnknownIngressTarget",
   "EmptyChildren", "DuplicateChildId", "UnknownActor"}

\* Nothing that is built, and no error, is mistaken for the lack of it.
Usable ==
  /\ None \notin Ids /\ None \notin Errors /\ None \notin Intensities
  /\ Empty \in Ids
  /\ \A a \in Ids : Binding(a) # None

\* What is built was accepted in every stage.
LEMMA BuiltIsAccepted ==
  ASSUME NEW stages, NEW v, Outcome(stages, v).ok
  PROVE  Accepted(stages) /\ Outcome(stages, v).value = v
<1>1. CASE Accepted(stages)
  BY <1>1 DEF Outcome, Ok
<1>2. CASE ~Accepted(stages)
  BY <1>2 DEF Outcome, Error
<1> QED BY <1>1, <1>2

\* The stages of a graph, one by one.
LEMMA AcceptedGraph ==
  ASSUME Usable, NEW d \in GraphBuilders, Accepted(GraphStages(d))
  PROVE  /\ d.actors # <<>> /\ d.mailbox_capacity # 0
         /\ \A i \in DOMAIN d.actors : ActorError(d.actors, i) = None
         /\ \A i \in DOMAIN d.links : LinkError(Members(d.actors), d.links[i]) = None
         /\ \A i \in DOMAIN d.ingresses :
              IngressError(Members(d.actors), d.ingresses, i) = None
<1> DEFINE st == GraphStages(d)
           first == << Unless(d.name # Empty, "InvalidConfig"),
                       Unless(d.actors # <<>>, "EmptyActors"),
                       Unless(d.mailbox_capacity # 0, "InvalidConfig") >>
           second == [i \in DOMAIN d.actors |-> ActorError(d.actors, i)]
           third == [i \in DOMAIN d.links |-> LinkError(Members(d.actors), d.links[i])]
           fourth == [i \in DOMAIN d.ingresses |->
                        IngressError(Members(d.actors), d.ingresses, i)]
<1>1. st = <<first, second, third, fourth>>
  BY DEF GraphStages
<1> HIDE DEF first, second, third, fourth
<1>2. /\ DOMAIN st = 1..4
      /\ st[1] = first /\ st[2] = second /\ st[3] = third /\ st[4] = fourth
  BY <1>1
<1> HIDE DEF st
<1>3. \A s \in 1..4 : \A i \in DOMAIN st[s] : st[s][i] = None
  BY <1>2 DEF Accepted, st
<1>4. /\ \A i \in DOMAIN first : first[i] = None
      /\ \A i \in DOMAIN second : second[i] = None
      /\ \A i \in DOMAIN third : third[i] = None
      /\ \A i \in DOMAIN fourth : fourth[i] = None
  BY <1>2, <1>3
<1>5. d.actors # <<>> /\ d.mailbox_capacity # 0
  <2>1. first[2] = None /\ first[3] = None /\ first[2] = Unless(d.actors # <<>>, "EmptyActors")
        /\ first[3] = Unless(d.mailbox_capacity # 0, "InvalidConfig")
    BY <1>4 DEF first
  <2> QED BY <2>1 DEF Unless, Usable, Errors
<1>6. \A i \in DOMAIN d.actors : ActorError(d.actors, i) = None
  BY <1>4 DEF second
<1>7. \A i \in DOMAIN d.links : LinkError(Members(d.actors), d.links[i]) = None
  BY <1>4 DEF third
<1>8. \A i \in DOMAIN d.ingresses : IngressError(Members(d.actors), d.ingresses, i) = None
  BY <1>4 DEF fourth
<1> QED BY <1>5, <1>6, <1>7, <1>8

\* The names of actors are their own, and links and ingresses lead to actors.
LEMMA SoundGraph ==
  ASSUME Usable, NEW d \in GraphBuilders, BuildGraph(d).ok
  PROVE  /\ BuildGraph(d).value = Graph(d)
         /\ Members(d.actors) \subseteq Ids
         /\ d.actors # <<>>
         /\ \A i, j \in DOMAIN d.actors : d.actors[i] = d.actors[j] => i = j
         /\ \A l \in Members(d.links) :
              l[1] \in Members(d.actors) /\ l[2] \in Members(d.actors)
         /\ \A l \in Members(d.ingresses) : l[2] \in Members(d.actors)
         /\ \A l, k \in Members(d.ingresses) : l[1] = k[1] => l = k
<1>1. Accepted(GraphStages(d)) /\ BuildGraph(d).value = Graph(d)
  BY BuiltIsAccepted DEF BuildGraph
<1>2. /\ d.actors # <<>>
      /\ \A i \in DOMAIN d.actors : ActorError(d.actors, i) = None
      /\ \A i \in DOMAIN d.links : LinkError(Members(d.actors), d.links[i]) = None
      /\ \A i \in DOMAIN d.ingresses :
           IngressError(Members(d.actors), d.ingresses, i) = None
  BY <1>1, AcceptedGraph
<1>3. /\ d.actors \in Seq(Ids) /\ d.links \in Seq(Ids \X Ids)
      /\ d.ingresses \in Seq(Ids \X Ids)
  BY DEF GraphBuilders
<1>4. Members(d.actors) \subseteq Ids
  BY <1>3 DEF Members
<1>5. \A i, j \in DOMAIN d.actors : d.actors[i] = d.actors[j] => i = j
  <2>1. SUFFICES ASSUME NEW i \in DOMAIN d.actors, NEW j \in DOMAIN d.actors,
                        d.actors[i] = d.actors[j], i < j
                 PROVE  FALSE
    BY <1>3
  <2>2. ActorError(d.actors, j) = None
    BY <1>2
  <2>3. i \in 1..(j - 1)
    BY <1>3, <2>1
  <2> QED BY <2>1, <2>2, <2>3 DEF ActorError, Unless, Usable, Errors
<1>6. \A l \in Members(d.links) :
        l[1] \in Members(d.actors) /\ l[2] \in Members(d.actors)
  BY <1>2 DEF Members, LinkError, Unless, Usable, Errors
<1>7. \A l \in Members(d.ingresses) : l[2] \in Members(d.actors)
  BY <1>2 DEF Members, IngressError, Unless, Usable, Errors
<1>8. \A l, k \in Members(d.ingresses) : l[1] = k[1] => l = k
  <2>1. SUFFICES ASSUME NEW i \in DOMAIN d.ingresses, NEW j \in DOMAIN d.ingresses,
                        d.ingresses[i][1] = d.ingresses[j][1], i < j
                 PROVE  FALSE
    <3>1. \A i, j \in DOMAIN d.ingresses : d.ingresses[i][1] = d.ingresses[j][1] => i = j
      BY <1>3, <2>1
    <3> QED BY <3>1 DEF Members
  <2>2. IngressError(Members(d.actors), d.ingresses, j) = None
    BY <1>2
  <2>3. i \in 1..(j - 1)
    BY <1>3, <2>1
  <2> QED BY <2>1, <2>2, <2>3 DEF IngressError, Unless, Usable, Errors
<1> QED BY <1>1, <1>2, <1>4, <1>5, <1>6, <1>7, <1>8

\* What a graph that was built offers: every actor, and a binding of each.
LEMMA GraphOffers ==
  ASSUME Usable, NEW g, NEW d \in GraphBuilders, BuildGraph(d) = Ok(g)
  PROVE  /\ g.actors = d.actors
         /\ \A a \in Members(g.actors) :
              ActorBinding(g, a) = Binding(a) /\ ActorBinding(g, a) # None
         /\ DOMAIN g.links = Members(g.actors)
         /\ \A a \in Members(g.actors) : g.links[a] \subseteq Members(g.actors)
         /\ DOMAIN g.ingresses = {p[1] : p \in Members(d.ingresses)}
         /\ \A p \in Members(d.ingresses) : g.ingresses[p[1]] = p[2]
         /\ \A n \in DOMAIN g.ingresses : g.ingresses[n] \in Members(g.actors)
<1>0. BuildGraph(d).ok /\ BuildGraph(d).value = g
  BY DEF Ok
<1>1. /\ g = Graph(d) /\ Members(d.actors) \subseteq Ids
      /\ \A l \in Members(d.links) : l[2] \in Members(d.actors)
      /\ \A l \in Members(d.ingresses) : l[2] \in Members(d.actors)
      /\ \A l, k \in Members(d.ingresses) : l[1] = k[1] => l = k
  BY <1>0, SoundGraph
<1>2. /\ g.actors = d.actors
      /\ g.links = [a \in Members(d.actors) |->
                     {b \in Ids : <<a, b>> \in Members(d.links)}]
      /\ g.bindings = [a \in Members(d.actors) |-> Binding(a)]
      /\ g.ingresses = [n \in {p[1] : p \in Members(d.ingresses)} |->
                         CHOOSE a \in Ids : <<n, a>> \in Members(d.ingresses)]
  BY <1>1 DEF Graph
<1>3. \A a \in Members(g.actors) :
        ActorBinding(g, a) = Binding(a) /\ ActorBinding(g, a) # None
  <2>1. SUFFICES ASSUME NEW a \in Members(g.actors)
                 PROVE  ActorBinding(g, a) = Binding(a) /\ Binding(a) # None
    OBVIOUS
  <2>2. a \in DOMAIN g.bindings /\ g.bindings[a] = Binding(a) /\ a \in Ids
    BY <1>1, <1>2
  <2> QED BY <2>2 DEF ActorBinding, Usable
<1>4. \A a \in Members(g.actors) : g.links[a] \subseteq Members(g.actors)
  BY <1>1, <1>2
<1>5. \A p \in Members(d.ingresses) : g.ingresses[p[1]] = p[2]
  <2>1. SUFFICES ASSUME NEW p \in Members(d.ingresses)
                 PROVE  g.ingresses[p[1]] = p[2]
    OBVIOUS
  <2>2. p \in Ids \X Ids
    BY DEF GraphBuilders, Members
  <2>3. p = <<p[1], p[2]>> /\ p[2] \in Ids
    BY <2>2
  <2>4. PICK a \in Ids : /\ <<p[1], a>> \in Members(d.ingresses)
                         /\ g.ingresses[p[1]] = a
    <3>1. p[1] \in {q[1] : q \in Members(d.ingresses)}
      OBVIOUS
    <3>2. g.ingresses[p[1]] = CHOOSE a \in Ids : <<p[1], a>> \in Members(d.ingresses)
      BY <1>2, <3>1
    <3>3. \E a \in Ids : <<p[1], a>> \in Members(d.ingresses)
      BY <2>3
    <3> QED BY <3>2, <3>3
  <2>5. <<p[1], a>> = p
    BY <1>1, <2>4
  <2>6. <<p[1], a>> = <<p[1], p[2]>>
    BY <2>3, <2>5
  <2>7. a = p[2]
    BY <2>6
  <2> QED BY <2>4, <2>7
<1>6. \A n \in DOMAIN g.ingresses : g.ingresses[n] \in Members(g.actors)
  <2>1. SUFFICES ASSUME NEW n \in DOMAIN g.ingresses
                 PROVE  g.ingresses[n] \in Members(g.actors)
    OBVIOUS
  <2>2. PICK p \in Members(d.ingresses) : n = p[1]
    BY <1>2
  <2> QED BY <1>1, <1>2, <1>5, <2>2
<1> QED BY <1>2, <1>3, <1>4, <1>5, <1>6

\* A graph that build accepted is never found inconsistent: into_actor_set has a
\* binding for every actor and for all its peers (the InvalidState errors of
\* GraphDecomposition, peer_refs and actor_refs), so that a peer of an actor can
\* be sent to, and the supervised actor is reached through it.
THEOREM BuiltGraphDecomposes ==
  ASSUME Usable, NEW g, NEW d \in GraphBuilders, BuildGraph(d) = Ok(g)
  PROVE  /\ FromGraph(g).ok
         /\ \A i \in DOMAIN d.actors : \A l \in Members(d.links) :
              l[1] = d.actors[i] =>
                Peer(FromGraph(g).value.actors[i], l[2]) = Binding(l[2])
<1>1. /\ g.actors = d.actors
      /\ \A a \in Members(g.actors) :
           ActorBinding(g, a) = Binding(a) /\ ActorBinding(g, a) # None
      /\ DOMAIN g.links = Members(g.actors)
      /\ \A a \in Members(g.actors) : g.links[a] \subseteq Members(g.actors)
  BY GraphOffers
<1>2. \A a \in Members(g.actors) : HasPeers(g, a) /\ ActorBinding(g, a) # None
  BY <1>1 DEF HasPeers
<1>3. /\ FromGraph(g).ok
      /\ FromGraph(g).value.actors =
           [i \in DOMAIN g.actors |-> RunnableActor(g, g.actors[i])]
  BY <1>2 DEF FromGraph, Ok
<1>4. SUFFICES ASSUME NEW i \in DOMAIN d.actors, NEW l \in Members(d.links),
                      l[1] = d.actors[i]
               PROVE  Peer(FromGraph(g).value.actors[i], l[2]) = Binding(l[2])
  BY <1>3
<1>5. d.actors[i] \in Members(g.actors)
  BY <1>1 DEF Members
<1>6. l[2] \in g.links[d.actors[i]]
  <2>1. l = <<l[1], l[2]>> /\ l[2] \in Ids
    BY DEF GraphBuilders, Members
  <2>2. g.links = [a \in Members(d.actors) |->
                    {b \in Ids : <<a, b>> \in Members(d.links)}]
    <3>1. BuildGraph(d).ok /\ BuildGraph(d).value = g
      BY DEF Ok
    <3>2. g = Graph(d)
      BY <3>1, SoundGraph
    <3> QED BY <3>2 DEF Graph
  <2> QED BY <1>1, <1>4, <1>5, <2>1, <2>2
<1>7. FromGraph(g).value.actors[i].peers = PeerRefs(g, d.actors[i])
  BY <1>1, <1>3 DEF RunnableActor
<1> QED BY <1>1, <1>5, <1>6, <1>7 DEF Peer, PeerRefs

\* An ingress is never lost: every ingress of a graph that was built has a handle,
\* and the handle leads to the actor that the builder was given for it.
THEOREM IngressesLeadToActors ==
  ASSUME Usable, NEW g, NEW d \in GraphBuilders, BuildGraph(d) = Ok(g)
  PROVE  \A p \in Members(d.ingresses) :
           /\ p[1] \in DOMAIN IngressHandles(g)
           /\ IngressHandles(g)[p[1]] = [target |-> p[2], binding |-> Binding(p[2])]
           /\ p[1] \in IngressNames(g, p[2])
<1>1. /\ \A a \in Members(g.actors) :
           ActorBinding(g, a) = Binding(a) /\ ActorBinding(g, a) # None
      /\ DOMAIN g.ingresses = {p[1] : p \in Members(d.ingresses)}
      /\ \A p \in Members(d.ingresses) : g.ingresses[p[1]] = p[2]
      /\ \A n \in DOMAIN g.ingresses : g.ingresses[n] \in Members(g.actors)
  BY GraphOffers
<1> QED BY <1>1 DEF IngressHandles, IngressNames

\* A sequence of stages is accepted if each of them is.
LEMMA AcceptedInParts ==
  ASSUME NEW T, NEW s \in Seq(T), NEW t \in Seq(T), Accepted(s \o t)
  PROVE  Accepted(s) /\ Accepted(t)
<1>1. Accepted(s)
  <2>1. \A k \in DOMAIN s : k \in DOMAIN (s \o t) /\ (s \o t)[k] = s[k]
    OBVIOUS
  <2> QED BY <2>1 DEF Accepted
<1>2. Accepted(t)
  <2>1. \A k \in DOMAIN t : Len(s) + k \in DOMAIN (s \o t) /\ (s \o t)[Len(s) + k] = t[k]
    OBVIOUS
  <2> QED BY <2>1 DEF Accepted
<1> QED BY <1>1, <1>2

\* The restart limits that pass the check.
SoundIntensity(r) ==
  /\ r.within # 0
  /\ \/ r.backoff.policy = "None"
     \/ r.backoff.base # 0 /\ (r.backoff.policy # "Fixed" =>
                                 r.backoff.factor # 0 /\ r.backoff.max # 0)

\* The validation of RestartIntensity looks at all of it.
LEMMA IntensityIsSound ==
  ASSUME Usable, NEW r, IntensityError(r) = None
  PROVE  SoundIntensity(r)
BY DEF IntensityError, BackoffError, Unless, Usable, Errors, SoundIntensity

\* What SupervisorBuilder has accepted.
SoundSupervisor(b) ==
  /\ b.children # <<>>
  /\ b.control_channel_capacity # 0 /\ b.event_channel_capacity # 0
  /\ SoundIntensity(b.restart_intensity)
  /\ \A i \in DOMAIN b.children :
       /\ b.children[i].id # Empty
       /\ b.children[i].intensity # None => SoundIntensity(b.children[i].intensity)
  /\ \A i, j \in DOMAIN b.children :
       b.children[i].id = b.children[j].id => i = j

\* The validation of SupervisorBuilder looks at all of it.
LEMMA AcceptedSupervisor ==
  ASSUME Usable, NEW b, NEW n \in Nat, DOMAIN b.children = 1..n,
         Accepted(SupervisorStages(b))
  PROVE  SoundSupervisor(b)
<1> DEFINE st == SupervisorStages(b)
           first == << Unless(b.children # <<>>, "EmptyChildren"),
                       IntensityError(b.restart_intensity),
                       Unless(b.control_channel_capacity # 0, "InvalidConfig"),
                       Unless(b.event_channel_capacity # 0, "InvalidConfig") >>
           second == [i \in DOMAIN b.children |-> ChildError(b.children, i)]
<1>1. st = <<first, second>>
  BY DEF SupervisorStages
<1> HIDE DEF first, second
<1>2. DOMAIN st = 1..2 /\ st[1] = first /\ st[2] = second
  BY <1>1
<1> HIDE DEF st
<1>3. /\ \A i \in DOMAIN first : first[i] = None
      /\ \A i \in DOMAIN second : second[i] = None
  BY <1>2 DEF Accepted, st
<1>4. /\ b.children # <<>>
      /\ b.control_channel_capacity # 0 /\ b.event_channel_capacity # 0
      /\ SoundIntensity(b.restart_intensity)
  <2>1. /\ first[1] = Unless(b.children # <<>>, "EmptyChildren")
        /\ first[2] = IntensityError(b.restart_intensity)
        /\ first[3] = Unless(b.control_channel_capacity # 0, "InvalidConfig")
        /\ first[4] = Unless(b.event_channel_capacity # 0, "InvalidConfig")
        /\ \A i \in 1..4 : first[i] = None
    BY <1>3 DEF first
  <2>2. SoundIntensity(b.restart_intensity)
    BY <2>1, IntensityIsSound
  <2> QED BY <2>1, <2>2 DEF Unless, Usable, Errors
<1>5. \A i \in DOMAIN b.children : ChildError(b.children, i) = None
  BY <1>3 DEF second
<1>6. \A i \in DOMAIN b.children :
        /\ b.children[i].id # Empty
        /\ b.children[i].intensity # None => IntensityError(b.children[i].intensity) = None
        /\ \A j \in 1..(i - 1) : b.children[j].id # b.children[i].id
  BY <1>5 DEF ChildError, Unless, Usable, Errors
<1>7. \A i \in DOMAIN b.children :
        b.children[i].intensity # None => SoundIntensity(b.children[i].intensity)
  BY <1>6, IntensityIsSound
<1>8. \A i, j \in DOMAIN b.children : b.children[i].id = b.children[j].id => i = j
  <2>1. \A i, j \in 1..n : i < j => i \in 1..(j - 1)
    OBVIOUS
  <2> QED BY <1>6, <2>1
<1> QED BY <1>4, <1>6, <1>7, <1>8 DEF SoundSupervisor

\* A supervisor that was built can start: it has children, no two of them with the
\* same id, room for a command and an event, and restart limits that the tracker of
\* each child can count with.
THEOREM BuiltSupervisorIsSound ==
  ASSUME Usable, NEW b \in SupervisorBuilders, BuildSupervisor(b).ok
  PROVE  SoundSupervisor(BuildSupervisor(b).value)
<1>1. Accepted(SupervisorStages(b)) /\ BuildSupervisor(b).value = b
  BY BuiltIsAccepted DEF BuildSupervisor
<1>2. DOMAIN b.children = 1..Len(b.children) /\ Len(b.children) \in Nat
  BY DEF SupervisorBuilders
<1> QED BY <1>1, <1>2, AcceptedSupervisor

\* Two sequences in a row.
LEMMA Concatenation ==
  ASSUME NEW T, NEW s \in Seq(T), NEW t \in Seq(T)
  PROVE  /\ Len(s) \in Nat /\ Len(t) \in Nat
         /\ DOMAIN (s \o t) = 1..(Len(s) + Len(t))
         /\ \A i \in 1..Len(s) : (s \o t)[i] = s[i]
         /\ \A i \in 1..Len(t) : (s \o t)[Len(s) + i] = t[i]
OBVIOUS

\* Two elements make a sequence ...
LEMMA Pair ==
  ASSUME NEW T, NEW x \in T, NEW y \in T
  PROVE  <<x, y>> \in Seq(T)
OBVIOUS

\* ... and so does a function on the first numbers.
LEMMA Enumeration ==
  ASSUME NEW T, NEW n \in Nat, NEW f \in [1..n -> T]
  PROVE  f \in Seq(T) /\ Len(f) = n
OBVIOUS

\* The ids of the children of a builder or of a built supervisor.
ChildIds(b) == {b.children[i].id : i \in DOMAIN b.children}

\* What build_runtime makes: every actor of the graph is registered with the
\* binding that its ingresses and peers have; the children are the actors and
\* those of the builder, which share no id; the supervisor is sound.
THEOREM BuiltRuntimeIsRegistered ==
  ASSUME Usable, NEW g, NEW d \in GraphBuilders, BuildGraph(d) = Ok(g),
         NEW b \in SupervisorBuilders,
         NEW s, s.set = FromGraph(g).value, BuildRuntime(s, b).ok,
         NEW r, r = BuildRuntime(s, b).value
  PROVE  /\ SoundSupervisor(r.supervisor)
         /\ r.registry = [a \in Members(d.actors) |-> Binding(a)]
         /\ ChildIds(r.supervisor) = Members(d.actors) \cup ChildIds(b)
         /\ Members(d.actors) \cap ChildIds(b) = {}
<1> DEFINE w == WithActors(s, b)
           overrides == << Unless(DOMAIN s.overrides \subseteq ActorIdsOf(s), "UnknownActor") >>
           again == [i \in DOMAIN s.set.graph.actors |-> ActorError(s.set.graph.actors, i)]
           added == ActorChildren(s)
<1>1. /\ Accepted(RuntimeStages(s, b))
      /\ r = [supervisor |-> w, ingresses |-> IngressHandles(s.set.graph),
              registry |-> [a \in ActorIdsOf(s) |-> ActorBinding(s.set.graph, a)],
              factory |-> DynamicFactory(s.set)]
  BY BuiltIsAccepted DEF BuildRuntime
<1>2. /\ g.actors = d.actors
      /\ \A a \in Members(g.actors) :
           ActorBinding(g, a) = Binding(a) /\ ActorBinding(g, a) # None
      /\ DOMAIN g.links = Members(g.actors)
      /\ \A a \in Members(g.actors) : g.links[a] \subseteq Members(g.actors)
  BY GraphOffers
<1>3. s.set = [graph |-> g,
               actors |-> [i \in DOMAIN g.actors |-> RunnableActor(g, g.actors[i])]]
  <2>1. \A a \in Members(g.actors) : HasPeers(g, a) /\ ActorBinding(g, a) # None
    BY <1>2 DEF HasPeers
  <2> QED BY <2>1 DEF FromGraph, Ok
<1>4. /\ s.set.graph = g /\ ActorIdsOf(s) = Members(d.actors)
      /\ DOMAIN s.set.actors = DOMAIN d.actors
      /\ \A i \in DOMAIN d.actors : s.set.actors[i].id = d.actors[i]
  BY <1>2, <1>3 DEF ActorIdsOf, RunnableActor
<1>5. r.supervisor = w /\ r.registry = [a \in Members(d.actors) |-> Binding(a)]
  BY <1>1, <1>2, <1>4
<1>6. /\ DOMAIN added = DOMAIN d.actors
      /\ \A i \in DOMAIN d.actors : added[i].id = d.actors[i]
  BY <1>4 DEF ActorChildren, ActorChild
<1>7. /\ b.children \in Seq(ChildSpecs)
      /\ d.actors \in Seq(Ids)
      /\ w.children = b.children \o added
  BY DEF SupervisorBuilders, GraphBuilders, WithActors
<1>8. /\ Len(b.children) \in Nat /\ Len(d.actors) \in Nat
      /\ DOMAIN b.children = 1..Len(b.children)
      /\ DOMAIN d.actors = 1..Len(d.actors)
  BY <1>7
<1> DEFINE m == Len(b.children)
           n == Len(d.actors)
           T == {b.children[i] : i \in 1..m} \cup {added[i] : i \in 1..n}
<1>9. added \in Seq(T) /\ Len(added) = n
  <2>1. added = [i \in 1..n |-> added[i]]
    BY <1>6, <1>8 DEF ActorChildren
  <2>2. added \in [1..n -> T]
    BY <2>1
  <2> QED BY <2>2, <1>8, Enumeration
<1>10. b.children \in Seq(T) /\ Len(b.children) = m
  <2>1. b.children \in [1..m -> T]
    BY <1>7, <1>8
  <2> QED BY <2>1, <1>8, Enumeration
<1> HIDE DEF added, T, w, m, n
<1>12. /\ DOMAIN w.children = 1..(m + n)
       /\ \A i \in 1..m : w.children[i] = b.children[i]
       /\ \A i \in 1..n : w.children[m + i] = added[i]
       /\ m \in Nat /\ n \in Nat
  <2>1. w.children = b.children \o added
    BY <1>7
  <2> QED BY <2>1, <1>9, <1>10, Concatenation
<1>13. Accepted(SupervisorStages(w))
  <2> DEFINE S == SupervisorStages(w)
             A == <<overrides, again>>
             U == {overrides, again, S[1], S[2]}
  <2>1. RuntimeStages(s, b) = A \o S
    BY DEF RuntimeStages, w
  <2>2. S = <<S[1], S[2]>>
    BY DEF SupervisorStages
  <2> HIDE DEF S, overrides, again
  <2>3. A \in Seq(U) /\ S \in Seq(U)
    BY <2>2, Pair
  <2> QED BY <1>1, <2>1, <2>3, AcceptedInParts DEF S
<1>14. SoundSupervisor(w)
  BY <1>12, <1>13, AcceptedSupervisor
<1>15. ChildIds(w) = Members(d.actors) \cup ChildIds(b)
  <2>1. \A i \in 1..m : w.children[i].id = b.children[i].id
    BY <1>12
  <2>2. \A i \in 1..n : w.children[m + i].id = d.actors[i]
    BY <1>6, <1>8, <1>12 DEF n
  <2>3. /\ DOMAIN b.children = 1..m /\ DOMAIN d.actors = 1..n
        /\ DOMAIN w.children = 1..(m + n) /\ m \in Nat /\ n \in Nat
    BY <1>8, <1>12 DEF m, n
  <2>4. ASSUME NEW x \in ChildIds(w)
        PROVE  x \in Members(d.actors) \cup ChildIds(b)
    <3>1. PICK i \in 1..(m + n) : x = w.children[i].id
      BY <2>3, <2>4 DEF ChildIds
    <3>2. CASE i \in 1..m
      BY <2>1, <2>3, <3>1, <3>2 DEF ChildIds
    <3>3. CASE i \notin 1..m
      <4>1. i - m \in 1..n /\ i = m + (i - m)
        BY <2>3, <3>1, <3>3
      <4>2. PICK k \in 1..n : i = m + k
        BY <4>1
      <4> QED BY <2>2, <2>3, <3>1, <4>2 DEF Members
    <3> QED BY <3>2, <3>3
  <2>5. Members(d.actors) \subseteq ChildIds(w)
    <3>1. SUFFICES ASSUME NEW k \in 1..n PROVE d.actors[k] \in ChildIds(w)
      BY <2>3 DEF Members
    <3>2. m + k \in DOMAIN w.children
      BY <2>3
    <3> QED BY <2>2, <3>2 DEF ChildIds
  <2>6. ChildIds(b) \subseteq ChildIds(w)
    <3>1. SUFFICES ASSUME NEW k \in 1..m PROVE b.children[k].id \in ChildIds(w)
      BY <2>3 DEF ChildIds
    <3>2. k \in DOMAIN w.children
      BY <2>3
    <3> QED BY <2>1, <3>2 DEF ChildIds
  <2> QED BY <2>4, <2>5, <2>6
<1>16. \A i \in DOMAIN b.children : b.children[i].id \notin Members(d.actors)
  <2>1. SUFFICES ASSUME NEW i \in 1..m, NEW j \in 1..n,
                        b.children[i].id = d.actors[j]
                 PROVE  FALSE
    BY <1>8 DEF Members, m, n
  <2>2. i \in DOMAIN w.children /\ m + j \in DOMAIN w.children /\ i # m + j
    BY <1>12
  <2>3. w.children[i].id = w.children[m + j].id
    BY <1>6, <1>8, <1>12, <2>1 DEF n
  <2> QED BY <1>14, <2>2, <2>3 DEF SoundSupervisor
<1>17. Members(d.actors) \cap ChildIds(b) = {}
  BY <1>16 DEF ChildIds
<1> QED BY <1>5, <1>14, <1>15, <1>17

\* The runtime that build_runtime returns is in the state Runtime starts from,
\* whose actors are those of the graph and whose other children are those of the
\* builder and share no id with them: an entry of the registry is built for the
\* actors and for nobody else, and every id has a child.
THEOREM BuiltRuntimeStarts ==
  ASSUME Usable, NEW g, NEW d \in GraphBuilders, BuildGraph(d) = Ok(g),
         NEW b \in SupervisorBuilders,
         NEW s, s.set = FromGraph(g).value, BuildRuntime(s, b).ok,
         NEW r, r = BuildRuntime(s, b).value,
         ActorIds = Members(d.actors), PlainIds = ChildIds(b)
  PROVE  /\ ActorIds \cap PlainIds = {}
         /\ Init => /\ {x \in Ids : registry[x] = Built} = DOMAIN r.registry
                    /\ \A x \in Ids : registry[x] \in {Built, None}
                    /\ {x \in Ids : children[x] # None} = ChildIds(r.supervisor)
<1>1. /\ DOMAIN r.registry = ActorIds
      /\ ChildIds(r.supervisor) = Ids /\ ActorIds \cap PlainIds = {}
  <2>1. /\ r.registry = [a \in Members(d.actors) |-> Binding(a)]
        /\ ChildIds(r.supervisor) = Members(d.actors) \cup ChildIds(b)
        /\ Members(d.actors) \cap ChildIds(b) = {}
    BY BuiltRuntimeIsRegistered
  <2> QED BY <2>1 DEF Ids
<1>2. Built # None /\ Plain # None
  BY RuntimeAssumption
<1>3. ASSUME Init
      PROVE  /\ {x \in Ids : registry[x] = Built} = ActorIds
             /\ \A x \in Ids : registry[x] \in {Built, None}
             /\ {x \in Ids : children[x] # None} = Ids
  <2>1. /\ \A x \in Ids : registry[x] = IF x \in ActorIds THEN Built ELSE None
        /\ \A x \in Ids : children[x] = IF x \in ActorIds THEN Built ELSE Plain
    BY <1>3 DEF Init
  <2> QED BY <1>2, <2>1 DEF Ids
<1> QED BY <1>1, <1>3
===============================================================================
