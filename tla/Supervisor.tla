----------------------------- MODULE Supervisor -----------------------------
(***************************************************************************)
(* The supervisor task: SupervisorRuntime::run, its command handlers, the  *)
(* restarts, the removals and the drains                                   *)
(* (crates/tokio-supervisor/src/runtime/supervision.rs and shutdown.rs),   *)
(* with the children it spawns and the clients that send it commands.      *)
(*                                                                         *)
(* The handlers are async and call each other: while a restart waits for   *)
(* its delay, commands are handled; while a removal waits for its child,   *)
(* exits are handled, and an exit can start another restart.  "stack" is   *)
(* that chain of suspended handlers, the running one first; the empty      *)
(* stack is the select loop of run.  Each action is the code that runs     *)
(* from one await to the next.  A biased select is one look at its arms,   *)
(* in their order: an arm is taken when no earlier arm is ready.           *)
(*                                                                         *)
(* Time is not measured: a deadline that a handler waits for may pass at   *)
(* any moment.  pending_exit is set and taken in one stretch of code, so   *)
(* it has no variable: the end of the shutdown drain unwinds the stack.    *)
(***************************************************************************)
EXTENDS ChildTable

CONSTANTS
  Initial,       \* the sequence of ids the builder was given
  Strategy,      \* "OneForOne" or "OneForAll"
  ZeroDelay,     \* the ids whose backoff policy gives a zero delay
  MaxRestarts,   \* id -> the max_restarts of its restart intensity
  RestartBound,  \* id -> bound: no restart is granted after so many
  Clients,       \* each sends one command
  Requests,      \* client -> the commands it may choose from
  QueueCapacity, \* control_channel_capacity
  DebugEnabled   \* whether a tracing subscriber evaluates debug! arguments

ASSUME ConfigAssumption ==
  /\ Initial \in Seq(Ids) /\ Initial # <<>>
  /\ \A i, j \in 1..Len(Initial) : Initial[i] = Initial[j] => i = j
  /\ Strategy \in {"OneForOne", "OneForAll"}
  /\ ZeroDelay \subseteq Ids
  /\ MaxRestarts \in [Ids -> Nat]
  /\ RestartBound \in [Ids -> Nat]
  /\ Requests \in [Clients -> SUBSET [op : {"AddChild", "RemoveChild"}, id : Ids]]
  /\ QueueCapacity \in Nat \ {0}
  /\ DebugEnabled \in BOOLEAN

VARIABLES
  table,          \* see ChildTable
  state,          \* SupervisorState
  stack,          \* the suspended handlers
  queue,          \* command_rx: the clients whose command is buffered
  rx_closed,      \* command_rx was closed, or dropped with the runtime
  commands_open,  \* the select loops still poll command_rx
  commands,       \* what each client asked, and what it was answered
  shutdown,       \* the shutdown watch: "no", "requested", or its senders
                  \* were "dropped" with the last handle
  result          \* what run returned, "none" before

vars == <<table, state, stack, queue, rx_closed, commands_open, commands,
          shutdown, result>>

control == <<state, queue, rx_closed, commands_open, shutdown, result>>

Refusals ==
  {"DuplicateChildId", "UnknownChildId", "ChildRemovalInProgress",
   "LastChildRemovalUnsupported", "SupervisorStopping"}
Answers ==
  {"Ok", "ShutdownTimedOut", "Internal", "Unavailable"} \cup Refusals
Commands ==
  [op : {"none", "AddChild", "RemoveChild"}, id : Ids,
   reply : {"none", "queued", "handling"} \cup Answers]
Results ==
  {"none", "Shutdown", "Completed", "Failed", "RestartIntensityExceeded",
   "ShutdownTimedOut", "Panicked"}

StartFrame == [kind |-> "start", phase |-> "spawn"]
DelayFrame(key, phase) == [kind |-> "delay", phase |-> phase, key |-> key]
RemoveFrame(key, c, phase) ==
  [kind |-> "remove", phase |-> phase, key |-> key, client |-> c]
DrainFrame(reason, phase, grace, timed_out) ==
  [kind |-> "drain", phase |-> phase, reason |-> reason, grace |-> grace,
   timed_out |-> timed_out]

Frames ==
  {StartFrame}
  \cup [kind : {"delay"}, phase : {"yield", "poll", "timer"}, key : Nat]
  \cup [kind : {"remove"}, phase : {"await", "detach"}, key : Nat,
        client : Clients]
  \cup [kind : {"drain"}, phase : {"abort", "wait", "final"},
        reason : {"Shutdown", "GroupRestart"}, grace : BOOLEAN,
        timed_out : BOOLEAN]

Top == Head(stack)
Below == Tail(stack)
At(kind, phase) ==
  /\ result = "none"
  /\ stack # <<>>
  /\ Top.kind = kind
  /\ Top.phase = phase

-----------------------------------------------------------------------------
(* Readiness of what the select loops wait for. *)

ShutdownReady == shutdown # "no"
ChannelClosed == rx_closed \/ shutdown = "dropped"
CommandReady == commands_open /\ (queue # <<>> \/ ChannelClosed)

\* The run loop is about to select: nothing is suspended, and the natural
\* exit at the top of the loop does not apply.
\* Mutation: the natural exit only looks at running_children.
ExhaustedByRunning == table.running_children = 0

Exhausted == table.live_tasks = 0 /\ table.running_children = 0
Idle == result = "none" /\ stack = <<>>
AtSelect == Idle /\ ~Exhausted

-----------------------------------------------------------------------------
(* Leaving run. *)

Answered(c, answer) == [commands EXCEPT ![c].reply = answer]

\* run returns or panics, and the runtime is dropped: command_rx closes, the
\* buffered commands lose their reply channel, and JoinSet aborts its tasks.
\* frame_answer is what the suspended remove_child calls reply on the way.
Finish(r, st, s, frame_answer) ==
  /\ result' = r
  /\ state' = st
  /\ table' = AbortTasks(s, s.join_set)
  /\ stack' = <<>>
  /\ queue' = <<>>
  /\ rx_closed' = TRUE
  /\ commands' =
       [c \in Clients |->
          CASE commands[c].reply = "handling" ->
                 [commands[c] EXCEPT !.reply = frame_answer]
            [] commands[c].reply = "queued" ->
                 [commands[c] EXCEPT !.reply = "Unavailable"]
            [] OTHER -> commands[c]]
  /\ UNCHANGED <<commands_open, shutdown>>

Panic(s) == Finish("Panicked", state, s, "Unavailable")

\* An Err of handle_joined_child goes to the nearest suspended remove_child,
\* which replies it as a ControlError, or out of run.
\* (Mutation: without the conversion.)
ControlErrorUnmapped(err) == err

ControlErrorOf(err) ==
  IF err = "RestartIntensityExceeded" THEN "SupervisorStopping" ELSE err

Raise(err, s, frames) ==
  IF frames = <<>>
  THEN Finish(err, state, s, "Unavailable")
  ELSE /\ table' = s
       /\ stack' = Tail(frames)
       /\ commands' = Answered(Head(frames).client, ControlErrorOf(err))
       /\ UNCHANGED control

-----------------------------------------------------------------------------
(* shutdown_all and drain_for_group_restart, up to the first await of      *)
(* drain_children: cancel everything, close the command channel, compute   *)
(* whether there is a grace deadline, abort the children in Abort mode.    *)

AbortModeKeys(s) == {k \in ActiveKeys(s) : ModeAt(s, k) = "Abort"}

BeginDrain(reason, frames) ==
  LET s == CancelRunningChildren(table)
      grace == ActiveKeys(s) \ AbortModeKeys(s) # {}
  IN /\ table' = AbortChildren(s, AbortModeKeys(s))
     /\ rx_closed' = TRUE
     /\ stack' = <<DrainFrame(reason, "abort", grace, FALSE)>> \o frames
     /\ UNCHANGED <<queue, commands_open, commands, shutdown, result>>

ShutdownAll ==
  /\ state' = "Stopping"
  /\ BeginDrain("Shutdown", stack)

-----------------------------------------------------------------------------
(* handle_joined_child, called with the handlers of "stack" suspended.     *)

ShouldRestart(id, failure) ==
  CASE Restart[id] = "Permanent" -> TRUE
    [] Restart[id] = "Transient" -> failure
    [] Restart[id] = "Temporary" -> FALSE

\* RestartTracker::exceeded after a record.  The sliding window holds at most
\* the restarts of this instance, so the limit can be exceeded only when they
\* are more than max_restarts; how many of them are still in the window is
\* left open.  RestartBound ends the histories that never exceed it.
Exceeds(e, exceeded) ==
  IF exceeded THEN e.restarts > MaxRestarts[e.id]
              ELSE e.restarts <= RestartBound[e.id]

\* schedule_restart, and the first await of wait_for_restart_delay.  (A
\* shutdown that is requested between the select and the zero-delay check is
\* seen by the check after the yield.)
ScheduleRestart(s, key) ==
  LET recorded == RecordRestart(s, key)
      e == recorded.children[key]
      phase == IF e.id \in ZeroDelay THEN "yield" ELSE "timer"
  IN \/ /\ Exceeds(e, FALSE)
        /\ table' = recorded
        /\ stack' = <<DelayFrame(key, phase)>> \o stack
        /\ UNCHANGED <<control, commands>>
     \/ /\ Exceeds(e, TRUE)
        /\ Raise("RestartIntensityExceeded", recorded, stack)

HandleJoinedChild(t) ==
  LET s == JoinChild(table, t)
      e == table.children[t.key]
      restart == ShouldRestart(e.id, t.status # "Completed")
  IN \/ /\ ~IsCurrent(table, t) \/ state = "Stopping"
        /\ table' = s
        /\ UNCHANGED <<control, commands, stack>>
     \/ /\ IsCurrent(table, t) /\ state # "Stopping"
        /\ e.membership = "Removing"
        /\ table' = FinalizeRemoved(s, t.key)
        /\ UNCHANGED <<control, commands, stack>>
     \/ /\ IsCurrent(table, t) /\ state # "Stopping"
        /\ e.membership = "Active" /\ ~restart
        /\ table' = RecordTerminal(s, t)
        /\ UNCHANGED <<control, commands, stack>>
     \/ /\ IsCurrent(table, t) /\ state # "Stopping"
        /\ e.membership = "Active" /\ restart
        /\ ScheduleRestart(s, t.key)

-----------------------------------------------------------------------------
(* handle_command, with the handlers of "stack" suspended.                 *)

AddReply(id) ==
  CASE state = "Stopping" -> "SupervisorStopping"
    [] id \in DOMAIN table.children_by_id -> "DuplicateChildId"
    [] OTHER -> "Ok"

AddChild(c) ==
  LET id == commands[c].id
      inserted == InsertChild(table, id)
  IN /\ commands[c].op = "AddChild"
     /\ commands' = Answered(c, AddReply(id))
     /\ table' = IF AddReply(id) = "Ok"
                 THEN SpawnChildren(inserted, {NextKey(table)})
                 ELSE table
     /\ UNCHANGED stack

\* The early returns of remove_child, in their order.
RemoveRefusal(id) ==
  CASE state = "Stopping" -> "SupervisorStopping"
    [] id \notin DOMAIN table.children_by_id -> "UnknownChildId"
    [] table.children[table.children_by_id[id]].membership = "Removing" ->
         "ChildRemovalInProgress"
    [] Cardinality(DOMAIN table.children_by_id) <= 1 ->
         "LastChildRemovalUnsupported"
    [] OTHER -> "none"

RemoveChild(c) ==
  LET id == commands[c].id
      key == table.children_by_id[id]
      marked == MarkRemoving(table, key)
  IN /\ commands[c].op = "RemoveChild"
     /\ \/ /\ RemoveRefusal(id) # "none"
           /\ commands' = Answered(c, RemoveRefusal(id))
           /\ UNCHANGED <<table, stack>>
        \/ /\ RemoveRefusal(id) = "none"
           /\ ~IsActive(table.children[key])
           /\ table' = FinalizeRemoved(marked, key)
           /\ commands' = Answered(c, "Ok")
           /\ UNCHANGED stack
        \/ /\ RemoveRefusal(id) = "none"
           /\ IsActive(table.children[key])
           /\ Mode[id] = "Abort"
           /\ table' = AbortChildren(marked, {key})
           /\ commands' = Answered(c, "handling")
           /\ stack' = <<RemoveFrame(key, c, "detach")>> \o stack
        \/ /\ RemoveRefusal(id) = "none"
           /\ IsActive(table.children[key])
           /\ Mode[id] # "Abort"
           /\ table' = CancelChild(marked, key)
           /\ commands' = Answered(c, "handling")
           /\ stack' = <<RemoveFrame(key, c, "await")>> \o stack

\* The command arm of the select loops.
ReceiveCommand ==
  /\ commands_open
  /\ \/ /\ queue # <<>>
        /\ queue' = Tail(queue)
        /\ AddChild(Head(queue)) \/ RemoveChild(Head(queue))
        /\ UNCHANGED <<state, rx_closed, commands_open, shutdown, result>>
     \/ /\ queue = <<>> /\ ChannelClosed
        /\ commands_open' = FALSE
        /\ UNCHANGED <<table, state, stack, queue, rx_closed, commands,
                       shutdown, result>>

-----------------------------------------------------------------------------
(* run: its start and its select loop.                                     *)

RunStart ==
  /\ At("start", "spawn")
  /\ table' = SpawnChildren(table, table.child_order)
  /\ stack' = Below
  /\ UNCHANGED <<control, commands>>

\* finish_natural_exit, at the top of the loop or because the JoinSet is
\* empty.
NaturalExit ==
  /\ \/ Idle /\ Exhausted
     \/ AtSelect /\ ~ShutdownReady /\ ~CommandReady /\ table.join_set = {}
  /\ LET failed == \E k \in table.child_order \cap Occupied(table) :
                     table.children[k].terminal = "failed"
     IN Finish(IF failed THEN "Failed" ELSE "Completed", "Stopped", table,
               "Unavailable")

RunShutdown ==
  /\ AtSelect /\ ShutdownReady
  /\ ShutdownAll

RunCommand ==
  /\ AtSelect /\ ~ShutdownReady
  /\ ReceiveCommand

RunJoin ==
  /\ AtSelect /\ ~ShutdownReady /\ ~CommandReady
  /\ \E t \in Finished(table) : HandleJoinedChild(t)

-----------------------------------------------------------------------------
(* wait_for_restart_delay, and what handle_one_for_one_restart and         *)
(* handle_one_for_all_restart do when it returns true.                     *)

Restartable(s) ==
  {k \in s.child_order :
     /\ s.children[k].membership = "Active"
     /\ Restart[s.children[k].id] # "Temporary"}

OneForOneRestart(key) ==
  \/ /\ key \notin Occupied(table)       \* the slab index panics
     /\ Panic(table)
  \/ /\ key \in Occupied(table)
     /\ table' = IF table.children[key].membership = "Active"
                 THEN SpawnChildren(table, {key})
                 ELSE table
     /\ stack' = Below
     /\ UNCHANGED <<control, commands>>

OneForAllRestart(key) ==
  \/ /\ key \notin Occupied(table) /\ DebugEnabled
     /\ Panic(table)
  \/ /\ key \in Occupied(table) \/ ~DebugEnabled
     /\ UNCHANGED state
     /\ BeginDrain("GroupRestart", Below)

DelayOver ==
  \/ Strategy = "OneForOne" /\ OneForOneRestart(Top.key)
  \/ Strategy = "OneForAll" /\ OneForAllRestart(Top.key)

\* After the yield of a zero delay only a requested shutdown is looked at: a
\* closed watch still reads false.
YieldShutdown ==
  /\ At("delay", "yield") /\ shutdown = "requested"
  /\ ShutdownAll

YieldChecked ==
  /\ At("delay", "yield") /\ shutdown # "requested"
  /\ stack' = <<DelayFrame(Top.key, "poll")>> \o Below
  /\ UNCHANGED <<control, table, commands>>

\* try_recv: the buffered commands are handled, then the restart goes on,
\* with no further look at the shutdown watch.
PollCommand ==
  /\ At("delay", "poll")
  /\ ReceiveCommand

PollDrained ==
  /\ At("delay", "poll") /\ ~CommandReady
  /\ DelayOver

DelayShutdown ==
  /\ At("delay", "timer") /\ ShutdownReady
  /\ ShutdownAll

DelayCommand ==
  /\ At("delay", "timer") /\ ~ShutdownReady
  /\ ReceiveCommand

DelayElapsed ==
  /\ At("delay", "timer") /\ ~ShutdownReady /\ ~CommandReady
  /\ DelayOver

-----------------------------------------------------------------------------
(* await_child_removal and abort_and_detach_child.                         *)

TimeoutIsError(frame) == Mode[commands[frame.client].id] = "Cooperative"

ReplyToTop(answer) ==
  /\ commands' = Answered(Top.client, answer)
  /\ stack' = Below

\* The top of the loop: the slot is vacant.
RemovalDone ==
  /\ At("remove", "await") /\ Top.key \notin Occupied(table)
  /\ ReplyToTop("Ok")
  /\ UNCHANGED <<control, table>>

AwaitingRemoval == At("remove", "await") /\ Top.key \in Occupied(table)

RemovalShutdown ==
  /\ AwaitingRemoval /\ ShutdownReady
  /\ ShutdownAll

RemovalJoin ==
  /\ AwaitingRemoval /\ ~ShutdownReady
  /\ \E t \in Finished(table) : HandleJoinedChild(t)

RemovalNoTasks ==
  /\ AwaitingRemoval /\ ~ShutdownReady /\ table.join_set = {}
  /\ ReplyToTop("Internal")
  /\ UNCHANGED <<control, table>>

\* Mutation: a Cooperative child is waited for without a deadline.
RemovalDeadlineForAbortOnly ==
  /\ AwaitingRemoval /\ ~ShutdownReady /\ Finished(table) = {}
  /\ table.join_set # {} /\ ~TimeoutIsError(Top)
  /\ table' = AbortChildren(table, {Top.key})
  /\ stack' = <<[Top EXCEPT !.phase = "detach"]>> \o Below
  /\ UNCHANGED <<control, commands>>

RemovalDeadline ==
  /\ AwaitingRemoval /\ ~ShutdownReady /\ Finished(table) = {}
  /\ table.join_set # {}
  /\ table' = AbortChildren(table, {Top.key})
  /\ stack' = <<[Top EXCEPT !.phase = "detach"]>> \o Below
  /\ UNCHANGED <<control, commands>>

\* drain_ready_joins(Shutdown), one exit at a time, after the yield.
DetachJoin ==
  /\ At("remove", "detach")
  /\ \E t \in Finished(table) : table' = JoinChild(table, t)
  /\ UNCHANGED <<control, stack, commands>>

Detached ==
  /\ At("remove", "detach") /\ Finished(table) = {}
  /\ table' = IF Top.key \in Occupied(table)
              THEN FinalizeRemoved(table, Top.key)
              ELSE table
  /\ ReplyToTop(IF TimeoutIsError(Top) THEN "ShutdownTimedOut" ELSE "Ok")
  /\ UNCHANGED control

-----------------------------------------------------------------------------
(* drain_children.                                                         *)

\* handle_drained_join
DrainedJoin(s, t, reason) ==
  IF /\ IsCurrent(s, t) /\ reason = "GroupRestart"
     /\ Restart[s.children[t.key].id] = "Temporary"
  THEN RecordTerminal(JoinChild(s, t), t)
  ELSE JoinChild(s, t)

\* Mutation: wait_for_restart_delay answers true after its shutdown, too.
DrainOkRestarts ==
  \/ /\ Top.reason = "Shutdown"
     /\ Below # <<>> => Head(Below).kind # "delay"
     /\ Finish("Shutdown", "Stopped", table, "SupervisorStopping")
  \/ /\ Top.reason = "Shutdown"
     /\ Below # <<>> /\ Head(Below).kind = "delay"
     /\ state' = "Stopped"
     /\ table' = SpawnChildren(table, {Head(Below).key} \cap Occupied(table))
     /\ stack' = Tail(Below)
     /\ UNCHANGED <<queue, rx_closed, commands_open, commands, shutdown,
                    result>>
  \/ /\ Top.reason = "GroupRestart"
     /\ table' = LET s == RenewGroupToken(table)
                 IN SpawnChildren(s, Restartable(s))
     /\ stack' = Below
     /\ UNCHANGED <<control, commands>>

\* What the callers of drain_children do with Ok ...
DrainOk ==
  \/ /\ Top.reason = "Shutdown"
     /\ Finish("Shutdown", "Stopped", table, "SupervisorStopping")
  \/ /\ Top.reason = "GroupRestart"
     /\ table' = LET s == RenewGroupToken(table)
                 IN SpawnChildren(s, Restartable(s))
     /\ stack' = Below
     /\ UNCHANGED <<control, commands>>

\* ... and with ShutdownTimedOut.
DrainErr ==
  \/ /\ Top.reason = "Shutdown"
     /\ Finish("ShutdownTimedOut", state, table, "SupervisorStopping")
  \/ /\ Top.reason = "GroupRestart"
     /\ Raise("ShutdownTimedOut", table, Below)

\* After the graceful wait: abort what is still active and yield once more.
DrainRest ==
  IF ActiveKeys(table) = {}
  THEN DrainOk
  ELSE /\ table' = AbortChildren(table, ActiveKeys(table))
       /\ stack' = <<[Top EXCEPT !.phase = "final",
                        !.timed_out = CooperativeKeys(table) # {}]>> \o Below
       /\ UNCHANGED <<control, commands>>

DrainReadyJoin ==
  /\ At("drain", "abort") \/ At("drain", "final")
  /\ \E t \in Finished(table) : table' = DrainedJoin(table, t, Top.reason)
  /\ UNCHANGED <<control, stack, commands>>

DrainAborted ==
  /\ At("drain", "abort") /\ Finished(table) = {}
  /\ \/ table.live_tasks = 0 /\ DrainOk
     \/ /\ table.live_tasks # 0 /\ Top.grace
        /\ stack' = <<[Top EXCEPT !.phase = "wait"]>> \o Below
        /\ UNCHANGED <<control, table, commands>>
     \/ table.live_tasks # 0 /\ ~Top.grace /\ DrainRest

DrainWaitJoin ==
  /\ At("drain", "wait") /\ table.live_tasks # 0
  /\ \E t \in Finished(table) : table' = DrainedJoin(table, t, Top.reason)
  /\ UNCHANGED <<control, stack, commands>>

\* Mutation: the drain has no deadline.
DrainWaitForever ==
  /\ At("drain", "wait")
  /\ table.live_tasks = 0 \/ table.join_set = {}
  /\ DrainRest

\* Every task was joined, the JoinSet is empty, or the deadline passed.
DrainWaitOver ==
  /\ At("drain", "wait")
  /\ DrainRest

\* Mutation: a group restart goes on with children that are still active.
DrainFinalIgnoresLate ==
  /\ At("drain", "final") /\ Finished(table) = {}
  /\ \/ Top.timed_out /\ DrainErr
     \/ ~Top.timed_out /\ DrainOk

DrainFinal ==
  /\ At("drain", "final") /\ Finished(table) = {}
  /\ LET late == Top.reason = "GroupRestart" /\ ActiveKeys(table) # {}
     IN \/ (Top.timed_out \/ late) /\ DrainErr
        \/ ~(Top.timed_out \/ late) /\ DrainOk

-----------------------------------------------------------------------------
(* The children and the clients. *)

SetStatus(t, status) ==
  /\ result = "none"
  /\ t.status = "Running"
  /\ table' = [table EXCEPT !.join_set =
                 (@ \ {t}) \cup {[t EXCEPT !.status = status]}]
  /\ UNCHANGED <<control, stack, commands>>

\* A child's future returns, or panics, whenever it likes.
ChildExits ==
  \E t \in table.join_set, status \in {"Completed", "Failed"} :
    SetStatus(t, status)

\* An abort takes effect when the task is next at a poll boundary.
ChildAborted ==
  \E t \in table.join_set : t.aborted /\ SetStatus(t, "Aborted")

\* ControlEndpoint::send of one command; a full channel makes it wait.
Send(c) ==
  /\ commands[c].reply = "none"
  /\ shutdown # "dropped"
  /\ \E r \in Requests[c] :
       \/ /\ ~rx_closed /\ Len(queue) < QueueCapacity
          /\ queue' = Append(queue, c)
          /\ commands' = [commands EXCEPT
               ![c] = [op |-> r.op, id |-> r.id, reply |-> "queued"]]
       \/ /\ rx_closed
          /\ commands' = [commands EXCEPT
               ![c] = [op |-> r.op, id |-> r.id, reply |-> "Unavailable"]]
          /\ UNCHANGED queue
  /\ UNCHANGED <<table, state, stack, rx_closed, commands_open, shutdown,
                 result>>

RequestShutdown ==
  /\ shutdown = "no" /\ result = "none"
  /\ shutdown' = "requested"
  /\ UNCHANGED <<table, state, stack, queue, rx_closed, commands_open,
                 commands, result>>

\* The last SupervisorHandle goes away, and with it the watch sender and the
\* command sender; a call that was waiting on it is dropped, its command stays.
DropHandles ==
  /\ shutdown = "no" /\ result = "none"
  /\ shutdown' = "dropped"
  /\ UNCHANGED <<table, state, stack, queue, rx_closed, commands_open,
                 commands, result>>

-----------------------------------------------------------------------------
InitialTable ==
  LET keys == 0..(Len(Initial) - 1)
  IN [children |-> [k \in keys |-> NewEntry(Initial[k + 1], k)],
      free |-> <<>>,
      slots |-> Len(Initial),
      children_by_id |->
        [id \in {Initial[i] : i \in 1..Len(Initial)} |->
           CHOOSE k \in keys : Initial[k + 1] = id],
      child_order |-> keys,
      running_children |-> 0,
      live_tasks |-> 0,
      next_child_instance |-> Len(Initial),
      group_cancelled |-> FALSE,
      join_set |-> {}]

Init ==
  /\ table = InitialTable
  /\ state = "Running"
  /\ stack = <<StartFrame>>
  /\ queue = <<>>
  /\ rx_closed = FALSE
  /\ commands_open = TRUE
  /\ commands = [c \in Clients |->
                   [op |-> "none", id |-> Initial[1], reply |-> "none"]]
  /\ shutdown = "no"
  /\ result = "none"

Run == RunStart \/ NaturalExit \/ RunShutdown \/ RunCommand \/ RunJoin

Delay ==
  \/ YieldShutdown \/ YieldChecked \/ PollCommand \/ PollDrained
  \/ DelayShutdown \/ DelayCommand \/ DelayElapsed

Removal ==
  \/ RemovalDone \/ RemovalShutdown \/ RemovalJoin \/ RemovalNoTasks
  \/ RemovalDeadline \/ DetachJoin \/ Detached

Drain ==
  \/ DrainReadyJoin \/ DrainAborted \/ DrainWaitJoin \/ DrainWaitOver
  \/ DrainFinal

SupervisorStep == Run \/ Delay \/ Removal \/ Drain

Environment ==
  \/ ChildExits \/ ChildAborted \/ RequestShutdown \/ DropHandles
  \/ \E c \in Clients : Send(c)

\* run has returned: nothing is left to do.
Terminated == result # "none" /\ UNCHANGED vars

Next == SupervisorStep \/ Environment \/ Terminated

Spec == Init /\ [][Next]_vars

\* The executor polls the supervisor task again when what it waits for is
\* ready, and timers fire.  Nothing is assumed of children and clients.
FairSpec == Spec /\ WF_vars(SupervisorStep)

-----------------------------------------------------------------------------
(* Properties. *)

\* The variables hold what the program keeps in them.
TypeOK ==
  /\ TableTypeOK(table)
  /\ state \in {"Running", "Stopping", "Stopped"}
  /\ stack \in Seq(Frames)
  /\ queue \in Seq(Clients)
  /\ rx_closed \in BOOLEAN
  /\ commands_open \in BOOLEAN
  /\ commands \in [Clients -> Commands]
  /\ shutdown \in {"no", "requested", "dropped"}
  /\ result \in Results

\* The counters never miss a child: run does not take its natural exit, and a
\* drain does not stop waiting, while a child still runs or is still tracked.
\* Neither counter is recomputed; spawn_child, record_exit,
\* cancel_running_children, remove_child and finalize_removed_child each add
\* or subtract what they believe to have changed.
CountersCover ==
  /\ table.running_children >= Cardinality(RunningKeys(table))
  /\ table.live_tasks >= Cardinality(HandleKeys(table))

\* Entries and tasks agree: the entry that holds an abort handle is exactly
\* the one whose latest task is still in the JoinSet, under one slot, so that
\* an exit is never attributed to the next occupant of a recycled slot, and
\* an exit of a tracked child is never lost or consumed twice.
TasksMatchEntries ==
  /\ \A k \in Occupied(table) :
       LET e == table.children[k]
       IN /\ e.handle <=> \E t \in table.join_set :
                            /\ t.instance = e.instance
                            /\ t.generation = e.generation
          /\ e.handle <=> IsActive(e)
  /\ \A t, u \in table.join_set :
       t.instance = u.instance /\ t.generation = u.generation => t = u
  /\ \A t \in table.join_set, k \in Occupied(table) :
       table.children[k].instance = t.instance => k = t.key

\* The slab, the id index and the order list describe the same children, and
\* the free list holds exactly the vacated slots, through any number of
\* removals and insertions that recycle keys.
IndexesAgree ==
  LET freeKeys == {table.free[i] : i \in 1..Len(table.free)}
  IN /\ table.child_order = Occupied(table)
     /\ \A k \in Occupied(table) :
          /\ table.children[k].id \in DOMAIN table.children_by_id
          /\ table.children_by_id[table.children[k].id] = k
     /\ \A id \in DOMAIN table.children_by_id :
          /\ table.children_by_id[id] \in Occupied(table)
          /\ table.children[table.children_by_id[id]].id = id
     /\ freeKeys \cap Occupied(table) = {}
     /\ freeKeys \cup Occupied(table) = 0..(table.slots - 1)
     /\ Len(table.free) = Cardinality(freeKeys)

Spawned == {t \in table'.join_set :
              \A u \in table.join_set : <<t.instance, t.generation>>
                                          # <<u.instance, u.generation>>}

\* From the moment shutdown_all begins, no task is spawned: no restart that
\* was waiting for its delay, no group restart and no queued AddChild gets
\* through, whatever handlers were suspended.
NoSpawnAfterStopping == [][state # "Running" => Spawned = {}]_vars

\* A natural exit leaves no child behind: whatever task has not been joined
\* by then has finished, or was aborted when its child was removed.
NaturalExitIsComplete ==
  [][result = "none" /\ result' \in {"Completed", "Failed"} =>
       \A t \in table.join_set : t.status # "Running" \/ t.aborted]_vars

\* OneForAll restarts never overlap old and new tasks: when the fresh group
\* token is created, every earlier task was joined, or aborted with the
\* removal of its child.
GroupRestartIsClean ==
  [][table.group_cancelled /\ ~table'.group_cancelled =>
       \A t \in table.join_set : t.aborted /\ ~IsCurrent(table, t)]_vars

\* Nobody is told to stop by mistake: a child that the supervisor believes to
\* be running has a live token, and is aborted only by a removal whose deadline
\* passed and that still holds its slot.  (The slot may have been recycled while
\* that removal was suspended; see RunningChildrenExact.)
RunningIsUndisturbed ==
  result = "none" =>
    \A t \in table.join_set :
      IsCurrent(table, t) /\ table.children[t.key].state = "Running" =>
        /\ ~t.cancelled
        /\ t.aborted => At("remove", "detach") /\ Top.key = t.key

\* Every command that was accepted is answered, even if the supervisor exits
\* while it is queued or in the middle of a removal.
CommandsAreAnswered ==
  \A c \in Clients :
    commands[c].reply = "queued" ~> commands[c].reply \in Answers

\* A shutdown request ends the supervisor, whatever it is waiting for: a
\* restart delay, a removal, a group restart.
ShutdownCompletes == shutdown = "requested" ~> result # "none"

\* A restart that was scheduled is decided: it happens, is abandoned, or the
\* supervisor exits; the handlers it suspended continue.
HandlersReturn == stack # <<>> ~> stack = <<>>

-----------------------------------------------------------------------------
(* What the documentation says and the code does not do.  Each of these is *)
(* violated; the README describes the behaviours.                          *)

\* "live_tasks tracks children that have a live Tokio task" (supervision.rs).
LiveTasksExact == table.live_tasks = Cardinality(HandleKeys(table))

\* "running_children tracks children in Starting or Running state"
\* (supervision.rs).
RunningChildrenExact ==
  table.running_children = Cardinality(RunningKeys(table))

\* "child removal should succeed during backoff", and the supervisor goes on
\* after it (dynamic.rs, remove_child_completes_promptly_during_restart_backoff):
\* the restart that was waiting for the removed child is given up.
RemovalDuringBackoffIsHarmless == result # "Panicked"

\* "The supervisor is running and accepting commands" (snapshot.rs, of the
\* state Running).
RunningAcceptsCommands == Idle /\ state = "Running" => ~rx_closed

\* "Permanent - always restarted, regardless of exit status" (lib.rs): when
\* the supervisor is back in its loop, no permanent child is down.
PermanentIsRestarted ==
  AtSelect /\ state = "Running" =>
    \A k \in Occupied(table) :
      /\ Restart[table.children[k].id] = "Permanent"
      /\ table.children[k].membership = "Active"
      => IsActive(table.children[k])

\* SupervisorStopping: "The supervisor is in the process of shutting down"
\* (error.rs); RestartIntensityExceeded: "The supervisor will exit"
\* (event.rs).
StoppingReplyIsTrue ==
  (\E c \in Clients : commands[c].reply = "SupervisorStopping") =>
    state # "Running" \/ result # "none"

=============================================================================
