------------------------------- MODULE Runtime -------------------------------
(***************************************************************************)
(* RuntimeHandle of tokio-otp (runtime.rs): actors are added and removed   *)
(* in two steps, one in the ActorRegistry and one at the supervisor, which *)
(* other calls interleave with.  Plain children are added and removed at   *)
(* the supervisor alone, under any id, that of an actor, too, if it is     *)
(* free there.  Any future may be dropped while it awaits.                 *)
(*                                                                         *)
(* The supervisor is what the handle sees of it: a bounded channel that is *)
(* closed for a shutdown, and by the code also for a group restart; a      *)
(* table of children; an answer to each command it takes.  Supervisor.tla  *)
(* has it in full.  wait is in Completion.                                 *)
(***************************************************************************)
EXTENDS Completion, Sequences, FiniteSets

CONSTANTS
  ActorIds,   \* ids of the actors of the graph
  PlainIds,   \* ids of other children
  Capacity,   \* control_channel_capacity
  Built,      \* an actor of the graph: build_runtime registers it
  Plain,      \* a child that is not an actor
  None

Ids == ActorIds \cup PlainIds

\* An actor that is added at run time is named after the call that adds it.
ASSUME RuntimeAssumption ==
  /\ Capacity \in Nat \ {0}
  /\ Built # Plain /\ Built # None /\ Plain # None
  /\ {Built, Plain, None} \cap Calls = {}
  /\ Calls \subseteq Nat

VARIABLES
  kind,       \* what each call is
  id,         \* the id it is about
  at,         \* where its future is
  cmd,        \* what has become of its command
  queue,      \* the control channel
  state,      \* of the supervisor, as its commands see it
  children,   \* children_by_id
  leaving,    \* the children whose membership is Removing
  took,       \* the child each removal has found under its id
  registry    \* ActorRegistry::entries

callVars == <<kind, id>>
commandVars == <<kind, id, at, cmd, queue>>
removalVars == <<leaving, took>>
vars == <<commandVars, state, children, removalVars, registry, completionVars>>

\* SupervisedActors::build_runtime: every actor of the graph is registered and
\* is a child.
Init ==
  /\ kind = [c \in Calls |-> "none"]
  /\ id = [c \in Calls |-> None]
  /\ at = [c \in Calls |-> "none"]
  /\ cmd = [c \in Calls |-> "none"]
  /\ queue = <<>>
  /\ state = "open"
  /\ children = [x \in Ids |-> IF x \in ActorIds THEN Built ELSE Plain]
  /\ leaving = {}
  /\ took = [c \in Calls |-> None]
  /\ registry = [x \in Ids |-> IF x \in ActorIds THEN Built ELSE None]
  /\ CompletionInit

-----------------------------------------------------------------------------
(* The calls. *)

Unused(c) == kind[c] = "none"

Begin(c, k, x, place) ==
  /\ Unused(c)
  /\ kind' = [kind EXCEPT ![c] = k]
  /\ id' = [id EXCEPT ![c] = x]
  /\ at' = [at EXCEPT ![c] = place]

\* ActorRegistry::deregister
Deregister(x) == registry' = [registry EXCEPT ![x] = None]

\* build_actor: each peer is looked up in the registry.
PeersAreKnown(peers) == \A p \in peers : registry[p] # None

\* ActorRegistry::register_entry
Register(c, x) ==
  /\ registry[x] = None
  /\ registry' = [registry EXCEPT ![x] = c]

\* add_actor, up to its await: the peers are looked up and the new actor is
\* registered.
AddActor(c, x, peers) ==
  /\ \/ /\ PeersAreKnown(peers) /\ Register(c, x)
        /\ Begin(c, "addActor", x, "send")
     \/ /\ ~PeersAreKnown(peers) \/ registry[x] # None
        /\ Begin(c, "addActor", x, "err")
        /\ UNCHANGED registry
  /\ UNCHANGED <<cmd, queue, state, children, removalVars,
                 completionVars>>

\* remove_actor, and the calls that only send a command.
Call(c, k, x) ==
  /\ Begin(c, k, x, "send")
  /\ UNCHANGED <<cmd, queue, state, children, removalVars, registry,
                 completionVars>>

\* Mutation: the channel has no bound.
SendUnbounded(c) ==
  /\ at[c] = "send" /\ state = "open"
  /\ at' = [at EXCEPT ![c] = "reply"]
  /\ cmd' = [cmd EXCEPT ![c] = "queued"]
  /\ queue' = Append(queue, c)
  /\ UNCHANGED <<callVars, state, children, removalVars, registry,
                 completionVars>>

\* The command is accepted, ...
Send(c) ==
  /\ at[c] = "send" /\ state = "open" /\ Len(queue) < Capacity
  /\ at' = [at EXCEPT ![c] = "reply"]
  /\ cmd' = [cmd EXCEPT ![c] = "queued"]
  /\ queue' = Append(queue, c)
  /\ UNCHANGED <<callVars, state, children, removalVars, registry,
                 completionVars>>

\* Mutation: the entry of a refused actor is left in the registry.
Keep(c) == UNCHANGED registry

\* A refused add_actor takes its entry back.
Undo(c) ==
  IF kind[c] = "addActor" THEN Deregister(id[c]) ELSE UNCHANGED registry

\* ... or the channel is closed, or full for a try_ call.
Refused(c) ==
  /\ at[c] = "send"
  /\ \/ state # "open"
     \/ Len(queue) = Capacity /\ kind[c] \in {"addChild", "removeChild"}
  /\ at' = [at EXCEPT ![c] = "err"]
  /\ Undo(c)
  /\ UNCHANGED <<callVars, cmd, queue, state, children, removalVars,
                 completionVars>>

\* The answer has come.
Answered(c) ==
  /\ at[c] = "reply" /\ cmd[c] \in {"ok", "err"}
  /\ \/ /\ cmd[c] = "err"
        /\ at' = [at EXCEPT ![c] = "err"]
        /\ Undo(c)
     \/ /\ cmd[c] = "ok" /\ kind[c] # "removeActor"
        /\ at' = [at EXCEPT ![c] = "ok"]
        /\ UNCHANGED registry
     \/ /\ cmd[c] = "ok" /\ kind[c] = "removeActor"
        /\ at' = [at EXCEPT ![c] = IF registry[id[c]] = None THEN "err" ELSE "ok"]
        /\ Deregister(id[c])
  /\ UNCHANGED <<callVars, cmd, queue, state, children, removalVars,
                 completionVars>>

\* The future is dropped at its await.  Its command goes its way.
Drop(c) ==
  /\ at[c] \in {"send", "reply"}
  /\ at' = [at EXCEPT ![c] = "dropped"]
  /\ UNCHANGED <<callVars, cmd, queue, state, children, removalVars, registry,
                 completionVars>>

\* shutdown, shutdown_and_wait or the drop of the handles.
Shutdown ==
  /\ task = "running" /\ state # "stopping"
  /\ state' = "stopping"
  /\ UNCHANGED <<commandVars, children, removalVars, registry, completionVars>>

-----------------------------------------------------------------------------
(* The supervisor.  Other commands are handled while a removal waits, when *)
(* the exit of a child has made it restart that child within the removal.  *)

Taken(c, answer) ==
  /\ task = "running" /\ state # "stopping"
  /\ queue # <<>> /\ c = Head(queue)
  /\ queue' = Tail(queue)
  /\ cmd' = [cmd EXCEPT ![c] = answer]
  /\ UNCHANGED <<callVars, at, state, registry, completionVars>>

HandleAdd(c) ==
  /\ kind[c] \in {"addActor", "addChild"}
  /\ UNCHANGED removalVars
  /\ IF children[id[c]] = None
     THEN /\ Taken(c, "ok")
          /\ children' = [children EXCEPT ![id[c]] =
                            IF kind[c] = "addActor" THEN c ELSE Plain]
     ELSE /\ Taken(c, "err")
          /\ UNCHANGED children

Present == {x \in Ids : children[x] # None}

\* Mutation: a second removal of the same child is accepted.
HandleRemoveAgain(c) ==
  /\ kind[c] \in {"removeActor", "removeChild"}
  /\ UNCHANGED children
  /\ IF children[id[c]] = None \/ Cardinality(Present) <= 1
     THEN Taken(c, "err") /\ UNCHANGED removalVars
     ELSE /\ Taken(c, "removing")
          /\ leaving' = leaving \cup {id[c]}
          /\ took' = [took EXCEPT ![c] = children[id[c]]]

HandleRemove(c) ==
  /\ kind[c] \in {"removeActor", "removeChild"}
  /\ UNCHANGED children
  /\ IF children[id[c]] = None \/ id[c] \in leaving \/ Cardinality(Present) <= 1
     THEN Taken(c, "err") /\ UNCHANGED removalVars
     ELSE /\ Taken(c, "removing")
          /\ leaving' = leaving \cup {id[c]}
          /\ took' = [took EXCEPT ![c] = children[id[c]]]

\* finalize_removed_child: the child has stopped, or is detached.
Leaves(x) ==
  /\ task = "running" /\ x \in leaving
  /\ children' = [children EXCEPT ![x] = None]
  /\ leaving' = leaving \ {x}
  /\ cmd' = [c \in Calls |-> IF cmd[c] = "removing" /\ id[c] = x
                             THEN "removed" ELSE cmd[c]]
  /\ UNCHANGED <<callVars, at, queue, state, took, registry, completionVars>>

\* The end of remove_child: an error, although the child is gone, if it had to be
\* aborted in the Cooperative mode; an error, too, if the removal is given up for
\* a shutdown or for the failure of another child.
RemovalReturns(c) ==
  /\ task = "running" /\ cmd[c] \in {"removing", "removed"}
  /\ \E answer \in IF cmd[c] = "removed" THEN {"ok", "err"} ELSE {"err"} :
       cmd' = [cmd EXCEPT ![c] = answer]
  /\ UNCHANGED <<callVars, at, queue, state, children, removalVars, registry,
                 completionVars>>

\* The slot of a child that is gone can be recycled while its removal waits: at its
\* deadline that removal takes away the new occupant (RunningChildrenExact of
\* Supervisor).  Any child but those of the beginning may be in the slot.
RemovesOccupant(c, x) ==
  /\ task = "running" /\ cmd[c] = "removed"
  /\ children[x] \notin {Built, None} /\ x \notin leaving
  /\ children' = [children EXCEPT ![x] = None]
  /\ \E answer \in {"ok", "err"} : cmd' = [cmd EXCEPT ![c] = answer]
  /\ UNCHANGED <<callVars, at, queue, state, removalVars, registry, completionVars>>

\* A group restart closes the control channel, and goes on.
CloseChannel ==
  /\ task = "running" /\ state = "open"
  /\ state' = "closed"
  /\ UNCHANGED <<commandVars, children, removalVars, registry, completionVars>>

\* Mutation: the commands that are left are not given up.
OverQuietly ==
  /\ state' = "stopping"
  /\ children' = [x \in Ids |-> None]
  /\ leaving' = {} /\ queue' = <<>>
  /\ UNCHANGED <<callVars, at, cmd, took, registry>>

\* The task is over, with its receiver: those who wait for an answer learn that
\* there will be none.
Over ==
  /\ state' = "stopping"
  /\ children' = [x \in Ids |-> None]
  /\ leaving' = {} /\ queue' = <<>>
  /\ cmd' = [c \in Calls |-> IF cmd[c] \in {"queued", "removing", "removed"}
                             THEN "err" ELSE cmd[c]]
  /\ UNCHANGED <<callVars, at, took, registry>>

End == TaskEnds /\ Over
Crash == TaskPanics /\ Over

-----------------------------------------------------------------------------
(* wait *)

Wait(c) ==
  /\ IF Unused(c) THEN Begin(c, "wait", None, "wait")
                  ELSE kind[c] = "wait" /\ UNCHANGED <<kind, id, at>>
  /\ WaitPoll(c)
  /\ UNCHANGED <<cmd, queue, state, children, removalVars, registry>>

WaitDropped(c) ==
  /\ DropWait(c)
  /\ UNCHANGED <<commandVars, state, children, removalVars, registry>>

\* Calls are taken in order.
First(c) == \A d \in Calls : Unused(d) => c <= d

Client(c) ==
  \/ /\ First(c)
     /\ \E x \in Ids :
          \/ \E peers \in {{}} \cup {{p} : p \in Ids} : AddActor(c, x, peers)
          \/ \E k \in {"addChild", "removeActor", "removeChild"} : Call(c, k, x)
  \/ (Unused(c) => First(c)) /\ Wait(c)
  \/ WaitDropped(c)
  \/ Send(c) \/ Refused(c) \/ Answered(c) \/ Drop(c)

Handle(c) == HandleAdd(c) \/ HandleRemove(c)

Supervisor ==
  \/ \E c \in Calls : Handle(c) \/ RemovalReturns(c)
  \/ \E x \in Ids : Leaves(x)
  \/ \E c \in Calls, x \in Ids : RemovesOccupant(c, x)
  \/ Shutdown \/ CloseChannel \/ End \/ Crash

Next == Supervisor \/ \E c \in Calls : Client(c)

Spec == Init /\ [][Next]_vars

\* Futures that are not dropped are polled; the supervisor takes its commands,
\* ends its removals (HandlersReturn of Supervisor) and its shutdown
\* (ShutdownCompletes).  Nobody has to make a call, or to shut down.
FairSpec ==
  /\ Spec
  /\ \A c \in Calls :
       /\ WF_vars(Send(c) \/ Refused(c)) /\ WF_vars(Answered(c))
       /\ WF_vars(~Unused(c) /\ Wait(c))
       /\ WF_vars(Handle(c)) /\ WF_vars(RemovalReturns(c))
  /\ \A x \in Ids : WF_vars(Leaves(x))
  /\ WF_vars(state = "stopping" /\ End)

-----------------------------------------------------------------------------
(* Properties. *)

Kinds == {"none", "addActor", "addChild", "removeActor", "removeChild", "wait"}

\* The variables hold what the program keeps in them.
TypeOK ==
  /\ CompletionTypeOK
  /\ kind \in [Calls -> Kinds]
  /\ id \in [Calls -> Ids \cup {None}]
  /\ at \in [Calls -> {"none", "send", "reply", "wait", "ok", "err", "dropped"}]
  /\ cmd \in [Calls -> {"none", "queued", "removing", "removed", "ok", "err"}]
  /\ queue \in Seq(Calls) /\ Len(queue) <= Capacity
  /\ state \in {"open", "closed", "stopping"}
  /\ children \in [Ids -> Calls \cup {Built, Plain, None}]
  /\ leaving \subseteq Ids
  /\ took \in [Calls -> Calls \cup {Built, Plain, None}]
  /\ registry \in [Ids -> Calls \cup {Built, None}]

\* Actors, those of the graph and those that were added.
Actors == Calls \cup {Built}

\* A remove_actor has removed a plain child of the id x, and then an entry of that
\* id from the registry: deregister goes by the id alone.
EntryTaken(x) ==
  \E c \in Calls :
    kind[c] = "removeActor" /\ id[c] = x /\ took[c] = Plain /\ at[c] = "ok"

\* The registry leads to every supervised actor: of whatever calls that overlap or
\* are dropped between their two steps, with whatever ids, only a remove_actor
\* that has removed a plain child takes away the entry of an actor that is not its
\* own (runtime.rs, add_actor and remove_actor).
ActorsAreRegistered ==
  \A x \in Ids :
    children[x] \in Actors => registry[x] = children[x] \/ EntryTaken(x)

\* The same without the exception.  The code does not keep to this.
EveryActorIsRegistered ==
  \A x \in Ids : children[x] \in Actors => registry[x] = children[x]

\* An add_actor that returned an error has left nothing behind.
RefusedLeavesNothing ==
  \A c \in Calls : kind[c] = "addActor" /\ at[c] = "err" =>
    \A x \in Ids : registry[x] # c /\ children[x] # c

\* Every call is answered, whatever the supervisor is doing when its command
\* arrives and however it ends.
CallsReturn ==
  \A c \in Calls : at[c] \in {"send", "reply"} ~> at[c] \notin {"send", "reply"}

\* Every wait returns once a shutdown is under way.
WaitsReturn ==
  \A c \in Calls :
    state = "stopping" /\ wait[c] \in {"read", "join", "watch"}
      ~> wait[c] \notin {"read", "join", "watch"}

\* An id whose actor is gone can be used again: nothing is left in the registry
\* once every call has returned.  The code does not keep to this: a dropped call,
\* remove_child and a removal that timed out leave the entry.
NoStaleEntry ==
  (\A c \in Calls : at[c] \notin {"send", "reply"}) /\ task = "running" =>
    \A x \in Ids : registry[x] # None => children[x] \in Actors

=============================================================================
