------------------------- MODULE Supervisor_proofs -------------------------
(***************************************************************************)
(* The bookkeeping of the supervisor is right in every reachable state, of *)
(* every supervisor: any number of children, commands and restarts.        *)
(***************************************************************************)
EXTENDS Supervisor, ChildTable_proofs

\* The types of the other variables.
ControlTypes ==
  /\ state \in {"Running", "Stopping", "Stopped"}
  /\ stack \in Seq(Frames)
  /\ queue \in Seq(Clients)
  /\ rx_closed \in BOOLEAN
  /\ commands_open \in BOOLEAN
  /\ commands \in [Clients -> Commands]
  /\ shutdown \in {"no", "requested", "dropped"}
  /\ result \in Results

Inv == TableInv(table) /\ ControlTypes

-----------------------------------------------------------------------------
(* Frames and answers. *)

\* The frame of the running handler and the frames below it.
LEMMA StackTypes ==
  ASSUME ControlTypes, stack # <<>>
  PROVE  Top \in Frames /\ Below \in Seq(Frames)
  BY DEF ControlTypes, Top, Below

\* Each kind of frame has its fields.
LEMMA FrameTypes ==
  ASSUME NEW f \in Frames
  PROVE  /\ f.kind = "delay" => f.key \in Nat
         /\ f.kind = "remove" =>
              /\ f.key \in Nat /\ f.client \in Clients
              /\ \A phase \in {"await", "detach"} :
                   [f EXCEPT !.phase = phase] \in Frames
         /\ f.kind = "drain" =>
              \A phase \in {"abort", "wait", "final"} :
                /\ [f EXCEPT !.phase = phase] \in Frames
                /\ \A b \in BOOLEAN :
                     [f EXCEPT !.phase = phase, !.timed_out = b] \in Frames
<1> DEFINE Delays == [kind : {"delay"}, phase : {"yield", "poll", "timer"},
                      key : Nat]
           Removes == [kind : {"remove"}, phase : {"await", "detach"},
                       key : Nat, client : Clients]
           Drains == [kind : {"drain"}, phase : {"abort", "wait", "final"},
                      reason : {"Shutdown", "GroupRestart"}, grace : BOOLEAN,
                      timed_out : BOOLEAN]
<1>1. /\ StartFrame.kind = "start"
      /\ \A g \in Delays : g.kind = "delay"
      /\ \A g \in Removes : g.kind = "remove"
      /\ \A g \in Drains : g.kind = "drain"
  BY DEF StartFrame
<1>2. Frames = {StartFrame} \cup Delays \cup Removes \cup Drains
  BY DEF Frames
<1>3. \A g \in Delays : g.key \in Nat
  OBVIOUS
<1>4. \A g \in Removes :
        /\ g.key \in Nat /\ g.client \in Clients
        /\ \A phase \in {"await", "detach"} :
             [g EXCEPT !.phase = phase] \in Removes
  OBVIOUS
<1>5. \A g \in Drains :
        \A phase \in {"abort", "wait", "final"} :
          /\ [g EXCEPT !.phase = phase] \in Drains
          /\ \A b \in BOOLEAN :
               [g EXCEPT !.phase = phase, !.timed_out = b] \in Drains
  OBVIOUS
<1> HIDE DEF Delays, Removes, Drains
<1>6. \/ f = StartFrame \/ f \in Delays \/ f \in Removes \/ f \in Drains
  BY <1>2
<1>7. f.kind = "delay" => f \in Delays
  BY <1>1, <1>6
<1>8. f.kind = "remove" => f \in Removes
  BY <1>1, <1>6
<1>9. f.kind = "drain" => f \in Drains
  BY <1>1, <1>6
<1> QED
  BY <1>2, <1>3, <1>4, <1>5, <1>7, <1>8, <1>9

\* The frames the handlers push.
LEMMA NewFrameTypes ==
  /\ \A key \in Nat, phase \in {"yield", "poll", "timer"} :
       DelayFrame(key, phase) \in Frames
  /\ \A key \in Nat, c \in Clients, phase \in {"await", "detach"} :
       RemoveFrame(key, c, phase) \in Frames
  /\ \A reason \in {"Shutdown", "GroupRestart"},
        phase \in {"abort", "wait", "final"}, g, b \in BOOLEAN :
       DrainFrame(reason, phase, g, b) \in Frames
  BY DEF Frames, DelayFrame, RemoveFrame, DrainFrame

\* A handler called by another one, and a handler that goes on.
LEMMA PushTypes ==
  ASSUME NEW f \in Frames, NEW frames \in Seq(Frames)
  PROVE  <<f>> \o frames \in Seq(Frames)
<1>1. <<f>> \in Seq(Frames)
  OBVIOUS
<1> QED
  BY <1>1, ConcatProperties

\* A reply keeps the shape of the commands.
LEMMA AnsweredTypes ==
  ASSUME ControlTypes, NEW c, NEW a \in Answers \cup {"handling"}
  PROVE  Answered(c, a) \in [Clients -> Commands]
<1>1. commands \in [Clients -> Commands]
  BY DEF ControlTypes
<1>2. \A d \in Clients : [commands[d] EXCEPT !.reply = a] \in Commands
  BY <1>1 DEF Commands
<1> QED
  BY <1>1, <1>2 DEF Answered

-----------------------------------------------------------------------------
(* The ways out of run, and the pieces that several actions share. *)

\* run returns or panics.
LEMMA FinishKeeps ==
  ASSUME Inv, NEW r \in Results, NEW st \in {"Running", "Stopping", "Stopped"},
         NEW s, TableInv(s), NEW answer \in Answers,
         Finish(r, st, s, answer)
  PROVE  Inv'
<1>1. TableInv(table')
  BY SignalKeeps DEF Finish
<1>2. commands' \in [Clients -> Commands]
  <2>1. \A c \in Clients : commands[c] \in Commands
    BY DEF Inv, ControlTypes
  <2>2. \A c \in Clients, a \in Answers :
          [commands[c] EXCEPT !.reply = a] \in Commands
    BY <2>1 DEF Commands
  <2>3. answer \in Answers /\ "Unavailable" \in Answers
    BY DEF Answers
  <2> QED
    BY <2>1, <2>2, <2>3 DEF Finish
<1>3. stack' = <<>> /\ queue' = <<>>
  BY DEF Finish
<1>4. ControlTypes'
  BY <1>2, <1>3, EmptySeq DEF Finish, Inv, ControlTypes
<1> QED
  BY <1>1, <1>4 DEF Inv

\* An error of handle_joined_child or of a group restart's drain reaches the
\* nearest suspended removal, or ends run.
LEMMA RaiseKeeps ==
  ASSUME Inv, NEW err \in {"RestartIntensityExceeded", "ShutdownTimedOut"},
         NEW s, TableInv(s), NEW frames \in Seq(Frames),
         Raise(err, s, frames)
  PROVE  Inv'
<1>1. CASE frames = <<>>
  <2>1. /\ err \in Results /\ "Unavailable" \in Answers
        /\ state \in {"Running", "Stopping", "Stopped"}
    BY DEF Results, Answers, Inv, ControlTypes
  <2>2. Finish(err, state, s, "Unavailable")
    BY <1>1 DEF Raise
  <2> QED
    BY <2>1, <2>2, FinishKeeps
<1>2. CASE frames # <<>>
  <2>1. ControlErrorOf(err) \in Answers \cup {"handling"}
    BY DEF ControlErrorOf, Answers, Refusals
  <2>2. /\ table' = s /\ stack' = Tail(frames)
        /\ commands' = Answered(Head(frames).client, ControlErrorOf(err))
        /\ UNCHANGED control
    BY <1>2 DEF Raise
  <2>3. Tail(frames) \in Seq(Frames)
    BY <1>2
  <2>4. commands' \in [Clients -> Commands]
    BY <2>1, <2>2, AnsweredTypes DEF Inv
  <2> QED
    BY <2>2, <2>3, <2>4 DEF Inv, ControlTypes, control
<1> QED
  BY <1>1, <1>2

\* shutdown_all and drain_for_group_restart, up to their first await.
LEMMA BeginDrainKeeps ==
  ASSUME Inv, NEW reason \in {"Shutdown", "GroupRestart"},
         NEW frames \in Seq(Frames),
         state' \in {"Running", "Stopping", "Stopped"},
         BeginDrain(reason, frames)
  PROVE  Inv'
<1> DEFINE s == CancelRunningChildren(table)
           grace == ActiveKeys(s) \ AbortModeKeys(s) # {}
<1>1. TableInv(s)
  BY CancelRunningKeeps DEF Inv
<1>2. TableInv(table')
  BY <1>1, SignalKeeps DEF BeginDrain, AbortChildren
<1>3. DrainFrame(reason, "abort", grace, FALSE) \in Frames
  BY NewFrameTypes
<1>4. stack' \in Seq(Frames)
  BY <1>3, PushTypes DEF BeginDrain
<1> QED
  BY <1>2, <1>4 DEF BeginDrain, Inv, ControlTypes

\* A handler that was suspended ends, answering its client.
LEMMA ReplyKeeps ==
  ASSUME Inv, stack # <<>>, NEW a \in Answers,
         ReplyToTop(a), UNCHANGED control, TableInv(table')
  PROVE  Inv'
<1>1. commands' \in [Clients -> Commands]
  BY AnsweredTypes DEF ReplyToTop, Inv
<1>2. stack' \in Seq(Frames)
  BY StackTypes DEF ReplyToTop, Inv
<1> QED
  BY <1>1, <1>2 DEF Inv, ControlTypes, control

\* Steps that change the table and the stack only.
LEMMA TableStepKeeps ==
  ASSUME Inv, TableInv(table'), stack' \in Seq(Frames),
         UNCHANGED <<control, commands>>
  PROVE  Inv'
  BY DEF Inv, ControlTypes, control

\* handle_joined_child, whichever of its returns it takes.
LEMMA HandleJoinedChildKeeps ==
  ASSUME Inv, NEW t \in table.join_set, HandleJoinedChild(t)
  PROVE  Inv'
<1> DEFINE s == JoinChild(table, t)
           e == table.children[t.key]
<1>1. TableInv(table) /\ stack \in Seq(Frames) /\ t \in Task
  BY DEF Inv, ControlTypes, TableInv, TableTypeOK
<1>2. TableInv(s) /\ Occupied(s) = Occupied(table)
  <2>1. TableInv(s)
    BY <1>1, JoinKeeps
  <2>2. Occupied(s) = Occupied(table)
    BY <1>1 DEF JoinChild, Occupied, TableInv, TableTypeOK, TableFields
  <2> QED
    BY <2>1, <2>2
<1>3. CASE /\ ~IsCurrent(table, t) \/ state = "Stopping"
           /\ table' = s
           /\ UNCHANGED <<control, commands, stack>>
  BY <1>1, <1>2, <1>3, TableStepKeeps
<1>4. CASE /\ IsCurrent(table, t) /\ table' = FinalizeRemoved(s, t.key)
           /\ UNCHANGED <<control, commands, stack>>
  <2>1. t.key \in Occupied(s)
    BY <1>2, <1>4 DEF IsCurrent
  <2> QED
    BY <1>1, <1>2, <1>4, <2>1, FinalizeKeeps, TableStepKeeps
<1>5. CASE /\ table' = RecordTerminal(s, t)
           /\ UNCHANGED <<control, commands, stack>>
  BY <1>1, <1>2, <1>5, RecordKeeps, TableStepKeeps
<1>6. CASE ScheduleRestart(s, t.key)
  <2> DEFINE recorded == RecordRestart(s, t.key)
             f == recorded.children[t.key]
  <2>1. TableInv(recorded)
    BY <1>2, RecordKeeps
  <2>2. CASE /\ table' = recorded
             /\ stack' = <<DelayFrame(t.key, IF f.id \in ZeroDelay THEN "yield"
                                                              ELSE "timer")>>
                           \o stack
             /\ UNCHANGED <<control, commands>>
    <3>1. t.key \in Nat
      BY <1>1 DEF Task
    <3>2. DelayFrame(t.key, IF f.id \in ZeroDelay THEN "yield" ELSE "timer")
            \in Frames
      BY <3>1, NewFrameTypes
    <3>3. stack' \in Seq(Frames)
      BY <1>1, <2>2, <3>2, PushTypes
    <3> QED
      BY <2>1, <2>2, <3>3, TableStepKeeps
  <2>3. CASE Raise("RestartIntensityExceeded", recorded, stack)
    BY <1>1, <2>1, <2>3, RaiseKeeps
  <2> QED
    BY <1>6, <2>2, <2>3 DEF ScheduleRestart
<1> QED
  BY <1>3, <1>4, <1>5, <1>6 DEF HandleJoinedChild

\* insert_child and the spawn that follows it, or the refusal.
LEMMA AddChildKeeps ==
  ASSUME Inv, NEW c \in Clients, AddChild(c)
  PROVE  /\ TableInv(table') /\ stack' \in Seq(Frames)
         /\ commands' \in [Clients -> Commands]
<1> DEFINE id == commands[c].id
<1>1. id \in Ids /\ TableInv(table) /\ stack \in Seq(Frames)
  BY DEF Inv, ControlTypes, Commands
<1>2. AddReply(id) \in Answers
  BY DEF AddReply, Answers, Refusals
<1>3. commands' \in [Clients -> Commands]
  BY <1>2, AnsweredTypes DEF AddChild, Inv
<1>4. CASE AddReply(id) = "Ok"
  <2>1. id \notin DOMAIN table.children_by_id
    BY <1>4 DEF AddReply
  <2>2. /\ TableInv(InsertChild(table, id))
        /\ NextKey(table) \in Occupied(InsertChild(table, id))
    BY <1>1, <2>1, InsertKeeps
  <2>3. table' = SpawnChildren(InsertChild(table, id), {NextKey(table)})
    BY <1>4 DEF AddChild
  <2> QED
    BY <1>1, <1>3, <2>2, <2>3, SpawnKeeps DEF AddChild
<1>5. CASE AddReply(id) # "Ok"
  BY <1>1, <1>3, <1>5 DEF AddChild
<1> QED
  BY <1>4, <1>5

\* remove_child up to its first await, or one of its early returns.
LEMMA RemoveChildKeeps ==
  ASSUME Inv, NEW c \in Clients, RemoveChild(c)
  PROVE  /\ TableInv(table') /\ stack' \in Seq(Frames)
         /\ commands' \in [Clients -> Commands]
<1> DEFINE id == commands[c].id
           key == table.children_by_id[id]
           marked == MarkRemoving(table, key)
<1>1. id \in Ids /\ TableInv(table) /\ stack \in Seq(Frames)
  BY DEF Inv, ControlTypes, Commands
<1>2. CASE /\ RemoveRefusal(id) # "none"
           /\ commands' = Answered(c, RemoveRefusal(id))
           /\ UNCHANGED <<table, stack>>
  <2>1. RemoveRefusal(id) \in Answers
    BY <1>2 DEF RemoveRefusal, Answers, Refusals
  <2> QED
    BY <1>1, <1>2, <2>1, AnsweredTypes DEF Inv
<1>3. ASSUME RemoveRefusal(id) = "none"
      PROVE  /\ key \in Occupied(table) /\ key \in Nat
             /\ TableInv(marked) /\ key \in Occupied(marked)
  <2>1. id \in DOMAIN table.children_by_id
    BY <1>3 DEF RemoveRefusal
  <2>2. key \in Occupied(table) /\ key \in Nat
    BY <1>1, <2>1 DEF TableInv, IndexOK, TableTypeOK
  <2> QED
    BY <1>1, <2>2, MarkRemovingKeeps
<1>4. CASE /\ RemoveRefusal(id) = "none"
           /\ table' = FinalizeRemoved(marked, key)
           /\ commands' = Answered(c, "Ok")
           /\ UNCHANGED stack
  <2>1. "Ok" \in Answers
    BY DEF Answers
  <2> QED
    BY <1>1, <1>3, <1>4, <2>1, FinalizeKeeps, AnsweredTypes DEF Inv
<1>5. CASE /\ RemoveRefusal(id) = "none"
           /\ table' = AbortChildren(marked, {key})
           /\ commands' = Answered(c, "handling")
           /\ stack' = <<RemoveFrame(key, c, "detach")>> \o stack
  <2>1. RemoveFrame(key, c, "detach") \in Frames
    BY <1>3, <1>5, NewFrameTypes
  <2>2. stack' \in Seq(Frames)
    BY <1>1, <1>5, <2>1, PushTypes
  <2>3. TableInv(table')
    BY <1>3, <1>5, SignalKeeps DEF AbortChildren
  <2> QED
    BY <1>5, <2>2, <2>3, AnsweredTypes DEF Inv
<1>6. CASE /\ RemoveRefusal(id) = "none"
           /\ table' = CancelChild(marked, key)
           /\ commands' = Answered(c, "handling")
           /\ stack' = <<RemoveFrame(key, c, "await")>> \o stack
  <2>1. RemoveFrame(key, c, "await") \in Frames
    BY <1>3, <1>6, NewFrameTypes
  <2>2. stack' \in Seq(Frames)
    BY <1>1, <1>6, <2>1, PushTypes
  <2>3. TableInv(table')
    BY <1>3, <1>6, SignalKeeps DEF CancelChild
  <2> QED
    BY <1>6, <2>2, <2>3, AnsweredTypes DEF Inv
<1> QED
  BY <1>2, <1>4, <1>5, <1>6 DEF RemoveChild

\* The command arm of the select loops.
LEMMA ReceiveCommandKeeps ==
  ASSUME Inv, ReceiveCommand
  PROVE  Inv'
<1>1. CASE /\ queue # <<>>
           /\ queue' = Tail(queue)
           /\ AddChild(Head(queue)) \/ RemoveChild(Head(queue))
           /\ UNCHANGED <<state, rx_closed, commands_open, shutdown, result>>
  <2>1. Head(queue) \in Clients /\ Tail(queue) \in Seq(Clients)
    BY <1>1 DEF Inv, ControlTypes
  <2>2. /\ TableInv(table') /\ stack' \in Seq(Frames)
        /\ commands' \in [Clients -> Commands]
    BY <1>1, <2>1, AddChildKeeps, RemoveChildKeeps
  <2> QED
    BY <1>1, <2>1, <2>2 DEF Inv, ControlTypes
<1>2. CASE /\ commands_open' = FALSE
           /\ UNCHANGED <<table, state, stack, queue, rx_closed, commands,
                          shutdown, result>>
  BY <1>2 DEF Inv, ControlTypes
<1> QED
  BY <1>1, <1>2 DEF ReceiveCommand

\* A restart whose delay is over: the spawn of one child, the start of a
\* group restart's drain, or the panic on a vacated slot.
LEMMA DelayOverKeeps ==
  ASSUME Inv, stack # <<>>, DelayOver
  PROVE  Inv'
<1> DEFINE key == Top.key
<1>1. TableInv(table) /\ Below \in Seq(Frames)
  BY StackTypes DEF Inv
<1>2. CASE Panic(table)
  <2>1. /\ "Panicked" \in Results /\ "Unavailable" \in Answers
        /\ state \in {"Running", "Stopping", "Stopped"}
    BY DEF Results, Answers, Inv, ControlTypes
  <2> QED
    BY <1>1, <1>2, <2>1, FinishKeeps DEF Panic
<1>3. CASE OneForOneRestart(key) /\ ~Panic(table)
  <2>1. /\ key \in Occupied(table) /\ stack' = Below
        /\ table' = SpawnChildren(table, {key}) \/ table' = table
        /\ UNCHANGED <<control, commands>>
    BY <1>3 DEF OneForOneRestart
  <2> QED
    BY <1>1, <2>1, SpawnKeeps, TableStepKeeps
<1>4. CASE OneForAllRestart(key) /\ ~Panic(table)
  <2>1. UNCHANGED state /\ BeginDrain("GroupRestart", Below)
    BY <1>4 DEF OneForAllRestart
  <2>2. state' \in {"Running", "Stopping", "Stopped"}
    BY <2>1 DEF Inv, ControlTypes
  <2> QED
    BY <1>1, <2>1, <2>2, BeginDrainKeeps
<1> QED
  BY <1>2, <1>3, <1>4 DEF DelayOver

\* The end of a drain: run returns, or the group is spawned again.
LEMMA DrainOkKeeps ==
  ASSUME Inv, stack # <<>>, DrainOk
  PROVE  Inv'
<1>1. TableInv(table) /\ Below \in Seq(Frames)
  BY StackTypes DEF Inv
<1>2. CASE Finish("Shutdown", "Stopped", table, "SupervisorStopping")
  <2>1. "Shutdown" \in Results /\ "SupervisorStopping" \in Answers
    BY DEF Results, Answers, Refusals
  <2> QED
    BY <1>1, <1>2, <2>1, FinishKeeps
<1>3. CASE /\ table' = LET s == RenewGroupToken(table)
                       IN SpawnChildren(s, Restartable(s))
           /\ stack' = Below
           /\ UNCHANGED <<control, commands>>
  <2> DEFINE s == RenewGroupToken(table)
  <2>1. TableInv(s)
    BY <1>1, RenewKeeps
  <2>2. Restartable(s) \in SUBSET Occupied(s)
    BY <2>1 DEF Restartable, TableInv, IndexOK
  <2>3. TableInv(table')
    BY <1>3, <2>1, <2>2, SpawnKeeps
  <2> QED
    BY <1>1, <1>3, <2>3, TableStepKeeps
<1> QED
  BY <1>2, <1>3 DEF DrainOk

\* The end of a drain that timed out.
LEMMA DrainErrKeeps ==
  ASSUME Inv, stack # <<>>, DrainErr
  PROVE  Inv'
<1>1. TableInv(table) /\ Below \in Seq(Frames)
  BY StackTypes DEF Inv
<1>2. CASE Finish("ShutdownTimedOut", state, table, "SupervisorStopping")
  <2>1. /\ "ShutdownTimedOut" \in Results /\ "SupervisorStopping" \in Answers
        /\ state \in {"Running", "Stopping", "Stopped"}
    BY DEF Results, Answers, Refusals, Inv, ControlTypes
  <2> QED
    BY <1>1, <1>2, <2>1, FinishKeeps
<1>3. CASE Raise("ShutdownTimedOut", table, Below)
  BY <1>1, <1>3, RaiseKeeps
<1> QED
  BY <1>2, <1>3 DEF DrainErr

\* What drain_children does once it no longer waits.
LEMMA DrainRestKeeps ==
  ASSUME Inv, stack # <<>>, Top.kind = "drain", DrainRest
  PROVE  Inv'
<1>1. TableInv(table) /\ Top \in Frames /\ Below \in Seq(Frames)
  BY StackTypes DEF Inv
<1>2. CASE ActiveKeys(table) = {}
  BY <1>2, DrainOkKeeps DEF DrainRest
<1>3. CASE ActiveKeys(table) # {}
  <2> DEFINE f == [Top EXCEPT !.phase = "final",
                              !.timed_out = CooperativeKeys(table) # {}]
  <2>1. f \in Frames
    BY <1>1, FrameTypes
  <2>2. TableInv(table')
    BY <1>1, <1>3, SignalKeeps DEF DrainRest, AbortChildren
  <2>3. stack' = <<f>> \o Below /\ UNCHANGED <<control, commands>>
    BY <1>3 DEF DrainRest
  <2> HIDE DEF f
  <2>4. stack' \in Seq(Frames)
    BY <1>1, <2>1, <2>3, PushTypes
  <2> QED
    BY <2>2, <2>3, <2>4, TableStepKeeps
<1> QED
  BY <1>2, <1>3

\* handle_drained_join, in the loops of drain_children.
LEMMA DrainedJoinKeeps ==
  ASSUME Inv, NEW t \in table.join_set, NEW reason
  PROVE  TableInv(DrainedJoin(table, t, reason))
<1>1. TableInv(JoinChild(table, t))
  BY JoinKeeps DEF Inv
<1>2. TableInv(RecordTerminal(JoinChild(table, t), t))
  BY <1>1, RecordKeeps
<1> QED
  BY <1>1, <1>2 DEF DrainedJoin

-----------------------------------------------------------------------------
(* The invariant is inductive.                                             *)

\* The table the builder's children are inserted into.
LEMMA InitialTableInv == TableInv(InitialTable)
<1> DEFINE T == InitialTable
           n == Len(Initial)
           keys == 0..(n - 1)
           names == {Initial[i] : i \in 1..n}
<1>1. /\ Initial \in Seq(Ids) /\ n \in Nat
      /\ \A i \in 1..n : Initial[i] \in Ids
      /\ \A i, j \in 1..n : Initial[i] = Initial[j] => i = j
  BY ConfigAssumption
<1>2. /\ DOMAIN T = TableFields
      /\ T.children = [k \in keys |-> NewEntry(Initial[k + 1], k)]
      /\ T.free = <<>> /\ T.slots = n
      /\ T.children_by_id =
           [id \in names |-> CHOOSE k \in keys : Initial[k + 1] = id]
      /\ T.child_order = keys
      /\ T.running_children = 0 /\ T.live_tasks = 0
      /\ T.next_child_instance = n
      /\ T.group_cancelled = FALSE /\ T.join_set = {}
  BY DEF InitialTable, TableFields
<1> HIDE DEF T
<1>3. Occupied(T) = keys /\ keys \subseteq Nat
  BY <1>1, <1>2 DEF Occupied
<1>4. \A k \in keys :
        LET e == T.children[k]
        IN /\ e \in Entry
           /\ e.id = Initial[k + 1] /\ e.instance = k
           /\ e.state = "Stopped" /\ e.handle = FALSE
           /\ Initial[k + 1] \in names
  <2> SUFFICES ASSUME NEW k \in keys
               PROVE  LET e == T.children[k]
                      IN /\ e \in Entry
                         /\ e.id = Initial[k + 1] /\ e.instance = k
                         /\ e.state = "Stopped" /\ e.handle = FALSE
                         /\ Initial[k + 1] \in names
    OBVIOUS
  <2>1. k + 1 \in 1..n /\ k \in Nat
    BY <1>1
  <2>2. Initial[k + 1] \in Ids /\ Initial[k + 1] \in names
    BY <1>1, <2>1
  <2>3. NewEntry(Initial[k + 1], k) \in Entry
    BY <2>1, <2>2, NewEntryType
  <2>4. T.children[k] = NewEntry(Initial[k + 1], k)
    BY <1>2
  <2> QED
    BY <2>2, <2>3, <2>4 DEF NewEntry
<1>5. \A k \in keys : T.children_by_id[Initial[k + 1]] = k
  <2> SUFFICES ASSUME NEW k \in keys
               PROVE  (CHOOSE j \in keys : Initial[j + 1] = Initial[k + 1]) = k
    BY <1>2, <1>4
  <2>1. \A j \in keys : Initial[j + 1] = Initial[k + 1] => j = k
    <3> SUFFICES ASSUME NEW j \in keys, Initial[j + 1] = Initial[k + 1]
                 PROVE  j = k
      OBVIOUS
    <3>1. j + 1 \in 1..n /\ k + 1 \in 1..n /\ j \in Int /\ k \in Int
      BY <1>1
    <3>2. j + 1 = k + 1
      BY <1>1, <3>1
    <3> QED
      BY <3>1, <3>2
  <2> QED
    BY <2>1
<1>6. \A id \in names : \E k \in keys : Initial[k + 1] = id
  <2> SUFFICES ASSUME NEW i \in 1..n
               PROVE  \E k \in keys : Initial[k + 1] = Initial[i]
    OBVIOUS
  <2>1. i - 1 \in keys /\ (i - 1) + 1 = i
    BY <1>1
  <2> QED
    BY <2>1
<1>7. \A id \in names :
        /\ T.children_by_id[id] \in keys
        /\ T.children[T.children_by_id[id]].id = id
  <2> SUFFICES ASSUME NEW id \in names
               PROVE  /\ T.children_by_id[id] \in keys
                      /\ T.children[T.children_by_id[id]].id = id
    OBVIOUS
  <2>1. PICK k \in keys : Initial[k + 1] = id
    BY <1>6
  <2>2. T.children_by_id[id] = k /\ T.children[k].id = id
    BY <1>4, <1>5, <2>1
  <2> QED
    BY <2>2
<1>8. TableTypeOK(T)
  <2>1. names \subseteq Ids /\ DOMAIN T.children_by_id = names
    BY <1>1, <1>2
  <2>2. T.children_by_id \in [names -> Nat]
    BY <1>2, <1>3, <1>7
  <2>3. T.children \in [Occupied(T) -> Entry]
    BY <1>2, <1>3, <1>4
  <2>4. /\ T.free \in Seq(Nat) /\ T.slots \in Nat
        /\ T.running_children \in Nat /\ T.live_tasks \in Nat
        /\ T.next_child_instance \in Nat
        /\ T.group_cancelled \in BOOLEAN /\ T.join_set \subseteq Task
        /\ Occupied(T) \subseteq Nat /\ T.child_order \subseteq Nat
    <3>1. T.free \in Seq(Nat)
      BY <1>2
    <3>2. Occupied(T) \subseteq Nat /\ T.child_order \subseteq Nat
      BY <1>2, <1>3
    <3>3. T.join_set \subseteq Task
      BY <1>2
    <3>4. T.group_cancelled \in BOOLEAN
      BY <1>2
    <3>5. /\ T.slots \in Nat /\ T.next_child_instance \in Nat
          /\ T.running_children \in Nat /\ T.live_tasks \in Nat
      BY <1>1, <1>2
    <3> QED
      BY <3>1, <3>2, <3>3, <3>4, <3>5
  <2> HIDE DEF names, keys
  <2> QED
    BY <1>2, <2>1, <2>2, <2>3, <2>4 DEF TableTypeOK
<1>9. IndexOK(T)
  <2>1. FreeKeys(T) = {} /\ Len(T.free) = 0
    BY <1>2 DEF FreeKeys
  <2>2. DOMAIN T.children_by_id = names
    BY <1>2
  <2>3. FreeKeys(T) \cup Occupied(T) = 0..(T.slots - 1)
    BY <1>2, <1>3, <2>1
  <2>4. \A k \in keys :
          /\ T.children[k].id \in names
          /\ T.children_by_id[T.children[k].id] = k
    BY <1>4, <1>5
  <2>5. \A i, j \in 1..Len(T.free) : T.free[i] = T.free[j] => i = j
    BY <2>1
  <2> HIDE DEF names, keys
  <2> QED
    BY <1>2, <1>3, <1>7, <2>1, <2>2, <2>3, <2>4, <2>5 DEF IndexOK
<1>10. CountersOK(T)
  <2>1. RunningKeys(T) = {} /\ HandleKeys(T) = {}
    BY <1>3, <1>4 DEF RunningKeys, HandleKeys, CountsAsRunning
  <2> QED
    BY <1>2, <2>1, FS_EmptySet DEF CountersOK
<1>11. InstancesOK(T)
  <2>1. \A k \in Occupied(T) : T.children[k].instance = k
    BY <1>3, <1>4
  <2>2. \A k \in Occupied(T) : k < T.next_child_instance
    BY <1>1, <1>2, <1>3
  <2> QED
    BY <1>2, <2>1, <2>2 DEF InstancesOK
<1>12. TasksOK(T)
  BY <1>2, <1>3, <1>4 DEF TasksOK, IsActive
<1> QED
  BY <1>8, <1>9, <1>10, <1>11, <1>12 DEF TableInv, T

\* The supervisor starts with it.
LEMMA InitKeeps == Init => Inv
<1> SUFFICES ASSUME Init PROVE Inv
  OBVIOUS
<1>1. TableInv(table)
  BY InitialTableInv DEF Init
<1>2. Initial[1] \in Ids
  BY ConfigAssumption
<1>3. commands \in [Clients -> Commands]
  BY <1>2 DEF Init, Commands
<1>4. StartFrame \in Frames /\ "none" \in Results
  BY DEF Frames, Results
<1>5. stack \in Seq(Frames) /\ queue \in Seq(Clients)
  BY <1>4 DEF Init
<1> QED
  BY <1>1, <1>3, <1>4, <1>5 DEF Init, Inv, ControlTypes

\* shutdown_all, from whichever handler noticed the request.
LEMMA ShutdownAllKeeps ==
  ASSUME Inv, ShutdownAll
  PROVE  Inv'
<1>1. stack \in Seq(Frames)
  BY DEF Inv, ControlTypes
<1> QED
  BY <1>1, BeginDrainKeeps DEF ShutdownAll

\* The start of run and its select loop.
LEMMA RunKeeps ==
  ASSUME Inv, Run
  PROVE  Inv'
<1>1. TableInv(table)
  BY DEF Inv
<1>2. CASE RunStart
  <2>1. stack # <<>>
    BY <1>2 DEF RunStart, At
  <2>2. table.child_order \in SUBSET Occupied(table)
    BY <1>1 DEF TableInv, IndexOK
  <2>3. Below \in Seq(Frames)
    BY <2>1, StackTypes DEF Inv
  <2> QED
    BY <1>1, <1>2, <2>2, <2>3, SpawnKeeps, TableStepKeeps DEF RunStart
<1>3. CASE NaturalExit
  <2>1. PICK r \in {"Failed", "Completed"} :
          Finish(r, "Stopped", table, "Unavailable")
    BY <1>3 DEF NaturalExit
  <2>2. r \in Results /\ "Unavailable" \in Answers
    BY DEF Results, Answers
  <2> QED
    BY <1>1, <2>1, <2>2, FinishKeeps
<1>4. CASE RunShutdown
  BY <1>4, ShutdownAllKeeps DEF RunShutdown
<1>5. CASE RunCommand
  BY <1>5, ReceiveCommandKeeps DEF RunCommand
<1>6. CASE RunJoin
  BY <1>6, HandleJoinedChildKeeps DEF RunJoin, Finished
<1> QED
  BY <1>2, <1>3, <1>4, <1>5, <1>6 DEF Run

\* wait_for_restart_delay.
LEMMA DelayKeeps ==
  ASSUME Inv, Delay
  PROVE  Inv'
<1>1. CASE YieldShutdown \/ DelayShutdown
  BY <1>1, ShutdownAllKeeps DEF YieldShutdown, DelayShutdown
<1>2. CASE PollCommand \/ DelayCommand
  BY <1>2, ReceiveCommandKeeps DEF PollCommand, DelayCommand
<1>3. CASE PollDrained \/ DelayElapsed
  BY <1>3, DelayOverKeeps DEF PollDrained, DelayElapsed, At
<1>4. CASE YieldChecked
  <2>1. stack # <<>> /\ Top.kind = "delay"
    BY <1>4 DEF YieldChecked, At
  <2>2. Top.key \in Nat /\ Below \in Seq(Frames)
    BY <2>1, StackTypes, FrameTypes DEF Inv
  <2>3. DelayFrame(Top.key, "poll") \in Frames
    BY <2>2, NewFrameTypes
  <2>4. stack' \in Seq(Frames)
    BY <1>4, <2>2, <2>3, PushTypes DEF YieldChecked
  <2> QED
    BY <1>4, <2>4, TableStepKeeps DEF YieldChecked, Inv
<1> QED
  BY <1>1, <1>2, <1>3, <1>4 DEF Delay

\* await_child_removal and abort_and_detach_child.
LEMMA RemovalKeeps ==
  ASSUME Inv, Removal
  PROVE  Inv'
<1>1. TableInv(table) /\ stack \in Seq(Frames)
  BY DEF Inv, ControlTypes
<1>2. {"Ok", "Internal", "ShutdownTimedOut"} \subseteq Answers
  BY DEF Answers
<1>3. CASE RemovalDone
  BY <1>1, <1>2, <1>3, ReplyKeeps DEF RemovalDone, At
<1>4. CASE RemovalShutdown
  BY <1>4, ShutdownAllKeeps DEF RemovalShutdown
<1>5. CASE RemovalJoin
  BY <1>5, HandleJoinedChildKeeps DEF RemovalJoin, Finished
<1>6. CASE RemovalNoTasks
  BY <1>1, <1>2, <1>6, ReplyKeeps DEF RemovalNoTasks, AwaitingRemoval, At
<1>7. CASE RemovalDeadline
  <2> DEFINE f == [Top EXCEPT !.phase = "detach"]
  <2>1. stack # <<>> /\ Top.kind = "remove"
    BY <1>7 DEF RemovalDeadline, AwaitingRemoval, At
  <2>2. f \in Frames /\ Below \in Seq(Frames)
    BY <2>1, StackTypes, FrameTypes DEF Inv
  <2>3. stack' = <<f>> \o Below
    BY <1>7 DEF RemovalDeadline
  <2> HIDE DEF f
  <2>4. stack' \in Seq(Frames)
    BY <2>2, <2>3, PushTypes
  <2>5. TableInv(table')
    BY <1>1, <1>7, SignalKeeps DEF RemovalDeadline, AbortChildren
  <2> QED
    BY <1>7, <2>4, <2>5, TableStepKeeps DEF RemovalDeadline
<1>8. CASE DetachJoin
  BY <1>1, <1>8, JoinKeeps, TableStepKeeps DEF DetachJoin, Finished
<1>9. CASE Detached
  <2>1. stack # <<>>
    BY <1>9 DEF Detached, At
  <2>2. TableInv(table')
    BY <1>1, <1>9, FinalizeKeeps DEF Detached
  <2>3. PICK a \in Answers : ReplyToTop(a)
    BY <1>2, <1>9 DEF Detached
  <2> QED
    BY <1>9, <2>1, <2>2, <2>3, ReplyKeeps DEF Detached
<1> QED
  BY <1>3, <1>4, <1>5, <1>6, <1>7, <1>8, <1>9 DEF Removal

\* drain_children and its callers.
LEMMA DrainKeeps ==
  ASSUME Inv, Drain
  PROVE  Inv'
<1>1. TableInv(table) /\ stack \in Seq(Frames)
  BY DEF Inv, ControlTypes
<1>2. stack # <<>> /\ Top.kind = "drain"
  BY DEF Drain, DrainReadyJoin, DrainAborted, DrainWaitJoin, DrainWaitOver,
         DrainFinal, At
<1>3. CASE DrainReadyJoin \/ DrainWaitJoin
  BY <1>1, <1>3, DrainedJoinKeeps, TableStepKeeps
     DEF DrainReadyJoin, DrainWaitJoin, Finished
<1>4. CASE DrainAborted
  <2>1. CASE DrainOk
    BY <1>2, <2>1, DrainOkKeeps
  <2>2. CASE DrainRest
    BY <1>2, <2>2, DrainRestKeeps
  <2>3. CASE /\ stack' = <<[Top EXCEPT !.phase = "wait"]>> \o Below
             /\ UNCHANGED <<control, table, commands>>
    <3> DEFINE f == [Top EXCEPT !.phase = "wait"]
    <3>1. f \in Frames /\ Below \in Seq(Frames)
      BY <1>2, StackTypes, FrameTypes DEF Inv
    <3>2. stack' = <<f>> \o Below
      BY <2>3
    <3> HIDE DEF f
    <3>3. stack' \in Seq(Frames)
      BY <3>1, <3>2, PushTypes
    <3> QED
      BY <1>1, <2>3, <3>3, TableStepKeeps
  <2> QED
    BY <1>4, <2>1, <2>2, <2>3 DEF DrainAborted
<1>5. CASE DrainWaitOver
  BY <1>2, <1>5, DrainRestKeeps DEF DrainWaitOver
<1>6. CASE DrainFinal
  <2>1. DrainErr \/ DrainOk
    BY <1>6 DEF DrainFinal
  <2> QED
    BY <1>2, <2>1, DrainErrKeeps, DrainOkKeeps
<1> QED
  BY <1>3, <1>4, <1>5, <1>6 DEF Drain

\* The children and the clients.
LEMMA EnvironmentKeeps ==
  ASSUME Inv, Environment
  PROVE  Inv'
<1>1. TableInv(table) /\ stack \in Seq(Frames)
  BY DEF Inv, ControlTypes
<1>2. CASE ChildExits \/ ChildAborted
  <2>1. PICK t \in table.join_set, status \in {"Completed", "Failed", "Aborted"} :
          SetStatus(t, status)
    BY <1>2 DEF ChildExits, ChildAborted
  <2>2. TableInv(table')
    BY <1>1, <2>1, StatusKeeps DEF SetStatus
  <2> QED
    BY <1>1, <2>1, <2>2, TableStepKeeps DEF SetStatus
<1>3. CASE RequestShutdown
  BY <1>3 DEF RequestShutdown, Inv, ControlTypes
<1>4. CASE DropHandles
  BY <1>4 DEF DropHandles, Inv, ControlTypes
<1>5. ASSUME NEW c \in Clients, Send(c)
      PROVE  Inv'
  <2>1. PICK r \in Requests[c] :
          \/ /\ queue' = Append(queue, c)
             /\ commands' = [commands EXCEPT
                  ![c] = [op |-> r.op, id |-> r.id, reply |-> "queued"]]
          \/ /\ commands' = [commands EXCEPT
                  ![c] = [op |-> r.op, id |-> r.id, reply |-> "Unavailable"]]
             /\ UNCHANGED queue
    BY <1>5 DEF Send
  <2>2. r \in [op : {"AddChild", "RemoveChild"}, id : Ids]
    BY ConfigAssumption
  <2>3. \A a \in {"queued", "Unavailable"} :
          [op |-> r.op, id |-> r.id, reply |-> a] \in Commands
    BY <2>2 DEF Commands, Answers
  <2>4. commands' \in [Clients -> Commands]
    BY <2>1, <2>3 DEF Inv, ControlTypes
  <2>5. queue' \in Seq(Clients)
    BY <2>1 DEF Inv, ControlTypes
  <2> QED
    BY <1>1, <1>5, <2>4, <2>5 DEF Send, Inv, ControlTypes
<1> QED
  BY <1>2, <1>3, <1>4, <1>5 DEF Environment

\* Every step of the supervisor, its children and its clients keeps it.
LEMMA NextKeeps == Inv /\ [Next]_vars => Inv'
<1> SUFFICES ASSUME Inv, [Next]_vars PROVE Inv'
  OBVIOUS
<1>1. CASE SupervisorStep
  BY <1>1, RunKeeps, DelayKeeps, RemovalKeeps, DrainKeeps DEF SupervisorStep
<1>2. CASE Environment
  BY <1>2, EnvironmentKeeps
<1>3. CASE UNCHANGED vars
  BY <1>3 DEF vars, Inv, ControlTypes
<1> QED
  BY <1>1, <1>2, <1>3 DEF Next, Terminated

\* The inductive invariant holds in every reachable state.
THEOREM InvTheorem == Spec => []Inv
  BY InitKeeps, NextKeeps, PTL DEF Spec

-----------------------------------------------------------------------------
(* What follows from it.                                                   *)

\* Every variable holds what the program keeps in it.
THEOREM TypeTheorem == Spec => []TypeOK
<1>1. Inv => TypeOK
  BY DEF Inv, ControlTypes, TableInv, TypeOK
<1> QED
  BY <1>1, InvTheorem, PTL

\* The counters never fall below what they count, so the natural exit and the
\* drains never overlook a running child or a child with a live task.
THEOREM CountersTheorem == Spec => []CountersCover
<1>1. Inv => CountersCover
  BY DEF Inv, TableInv, CountersOK, CountersCover
<1> QED
  BY <1>1, InvTheorem, PTL

\* An exit is attributed to the child that exited, however often slots are
\* recycled and children restarted, and the exit of a tracked child is
\* neither lost nor consumed twice.
THEOREM TasksTheorem == Spec => []TasksMatchEntries
<1>1. Inv => TasksMatchEntries
  BY DEF Inv, TableInv, TasksOK, TasksMatchEntries
<1> QED
  BY <1>1, InvTheorem, PTL

\* The slab, its free list, the id index and the order list describe the
\* same children.
THEOREM IndexTheorem == Spec => []IndexesAgree
<1>1. ASSUME Inv
      PROVE  Len(table.free) = Cardinality(FreeKeys(table))
  <2> DEFINE n == Len(table.free)
             f == [i \in 1..n |-> table.free[i]]
  <2>1. /\ n \in Nat
        /\ \A i, j \in 1..n : table.free[i] = table.free[j] => i = j
    <3>1. IndexOK(table) /\ table.free \in Seq(Nat)
      BY <1>1 DEF Inv, TableInv, TableTypeOK
    <3> QED
      BY <3>1 DEF IndexOK
  <2>2. /\ f \in [1..n -> FreeKeys(table)]
        /\ \A i, j \in 1..n : f[i] = f[j] => i = j
        /\ \A k \in FreeKeys(table) : \E i \in 1..n : f[i] = k
    BY <2>1 DEF FreeKeys
  <2> HIDE DEF f
  <2>3. ExistsBijection(1..n, FreeKeys(table))
    BY <2>2 DEF ExistsBijection, Bijection, Injection, Surjection, IsInjective
  <2> QED
    BY <2>1, <2>3, FS_CountingElements
<1>2. Inv => IndexesAgree
  BY <1>1 DEF Inv, TableInv, IndexOK, IndexesAgree, FreeKeys
<1> QED
  BY <1>2, InvTheorem, PTL

-----------------------------------------------------------------------------
(* Nothing is spawned once shutdown_all has begun.                         *)

\* While the supervisor is Stopping its running handler is the shutdown drain,
\* and it is Stopped only when run has returned.
StackInv ==
  /\ state = "Stopping" /\ result = "none" =>
       /\ stack # <<>>
       /\ Top.kind = "drain" /\ Top.reason = "Shutdown"
  /\ state = "Stopped" => result # "none"

\* A drain that goes on to its next phase keeps its reason.
LEMMA NextPhase ==
  ASSUME NEW f \in Frames, f.kind = "drain", f.reason = "Shutdown"
  PROVE  /\ \A phase \in {"abort", "wait", "final"} :
              [f EXCEPT !.phase = phase].kind = "drain"
              /\ [f EXCEPT !.phase = phase].reason = "Shutdown"
         /\ \A phase \in {"abort", "wait", "final"}, b \in BOOLEAN :
              [f EXCEPT !.phase = phase, !.timed_out = b].kind = "drain"
              /\ [f EXCEPT !.phase = phase, !.timed_out = b].reason = "Shutdown"
<1>1. f \in [kind : {"drain"}, phase : {"abort", "wait", "final"},
             reason : {"Shutdown", "GroupRestart"}, grace : BOOLEAN,
             timed_out : BOOLEAN]
  BY DEF Frames, StartFrame
<1> QED
  BY <1>1

\* The supervisor is not in a select loop after run has returned, nor, while
\* it is Stopping, in any handler but the shutdown drain.
LEMMA OnlyDrainIsLeft ==
  ASSUME Inv, StackInv, state # "Running", SupervisorStep
  PROVE  /\ result = "none" /\ stack # <<>> /\ Drain
         /\ Top.kind = "drain" /\ Top.reason = "Shutdown"
<1>1. result = "none"
  BY DEF SupervisorStep, Run, Delay, Removal, Drain, RunStart, NaturalExit,
         RunShutdown, RunCommand, RunJoin, YieldShutdown, YieldChecked,
         PollCommand, PollDrained, DelayShutdown, DelayCommand, DelayElapsed,
         RemovalDone, RemovalShutdown, RemovalJoin, RemovalNoTasks,
         RemovalDeadline, DetachJoin, Detached, DrainReadyJoin, DrainAborted,
         DrainWaitJoin, DrainWaitOver, DrainFinal, AwaitingRemoval, AtSelect,
         Idle, At
<1>2. /\ stack # <<>>
      /\ Top.kind = "drain" /\ Top.reason = "Shutdown"
  BY <1>1 DEF StackInv, Inv, ControlTypes
<1>3. ~Run
  BY <1>2 DEF Run, RunStart, NaturalExit, RunShutdown, RunCommand, RunJoin,
              AtSelect, Idle, At
<1>4. ~Delay
  BY <1>2 DEF Delay, YieldShutdown, YieldChecked, PollCommand, PollDrained,
              DelayShutdown, DelayCommand, DelayElapsed, At
<1>5. ~Removal
  BY <1>2 DEF Removal, RemovalDone, RemovalShutdown, RemovalJoin,
              RemovalNoTasks, RemovalDeadline, DetachJoin, Detached,
              AwaitingRemoval, At
<1> QED
  BY <1>1, <1>2, <1>3, <1>4, <1>5 DEF SupervisorStep

\* What a step of the shutdown drain does to the table, and where it leaves
\* the drain.
LEMMA DrainStep ==
  ASSUME Inv, stack # <<>>, Top.kind = "drain", Top.reason = "Shutdown", Drain
  PROVE  /\ \A t \in table'.join_set : \E u \in table.join_set : SameTask(t, u)
         /\ \/ result' # "none"
            \/ /\ UNCHANGED <<state, result>>
               /\ stack' # <<>>
               /\ Head(stack').kind = "drain"
               /\ Head(stack').reason = "Shutdown"
<1>1. /\ DOMAIN table = TableFields /\ \A t \in table.join_set : t \in Task
      /\ Top \in Frames /\ Below \in Seq(Frames) /\ stack \in Seq(Frames)
  BY StackTypes DEF Inv, TableInv, TableTypeOK, ControlTypes
<1>2. \A T : \A t \in AbortTasks(table, T).join_set :
        \E u \in table.join_set : SameTask(t, u)
  <2> SUFFICES ASSUME NEW T, NEW t \in AbortTasks(table, T).join_set
               PROVE  \E u \in table.join_set : SameTask(t, u)
    OBVIOUS
  <2>1. AbortTasks(table, T).join_set =
          {IF u \in T THEN [u EXCEPT !.aborted = TRUE] ELSE u :
             u \in table.join_set}
    BY <1>1 DEF AbortTasks, TableFields
  <2>2. PICK u \in table.join_set :
          t = IF u \in T THEN [u EXCEPT !.aborted = TRUE] ELSE u
    BY <2>1
  <2> QED
    BY <1>1, <2>2 DEF SameTask, Task
<1>3. ASSUME DrainOk \/ DrainErr
      PROVE  /\ table' = AbortTasks(table, table.join_set)
             /\ result' # "none"
  BY <1>3 DEF DrainOk, DrainErr, Finish
<1>4. ASSUME DrainRest, ~DrainOk
      PROVE  /\ table' = AbortChildren(table, ActiveKeys(table))
             /\ UNCHANGED <<state, result>>
             /\ stack' # <<>>
             /\ Head(stack').kind = "drain"
             /\ Head(stack').reason = "Shutdown"
  <2> DEFINE f == [Top EXCEPT !.phase = "final",
                              !.timed_out = CooperativeKeys(table) # {}]
  <2>1. f.kind = "drain" /\ f.reason = "Shutdown"
    BY <1>1, NextPhase
  <2>2. /\ table' = AbortChildren(table, ActiveKeys(table))
        /\ stack' = <<f>> \o Below /\ UNCHANGED control
    BY <1>4 DEF DrainRest
  <2> HIDE DEF f
  <2>3. stack' # <<>> /\ Head(stack') = f
    BY <1>1, <2>2
  <2> QED
    BY <2>1, <2>2, <2>3 DEF control
<1>5. CASE DrainReadyJoin \/ DrainWaitJoin
  <2>1. PICK t \in table.join_set : table' = DrainedJoin(table, t, Top.reason)
    BY <1>5 DEF DrainReadyJoin, DrainWaitJoin, Finished
  <2>2. table' = JoinChild(table, t)
    BY <2>1 DEF DrainedJoin
  <2>3. table'.join_set = table.join_set \ {t}
    BY <1>1, <2>2 DEF JoinChild, TableFields
  <2>4. UNCHANGED <<state, result, stack>>
    BY <1>5 DEF DrainReadyJoin, DrainWaitJoin, control
  <2> QED
    BY <2>3, <2>4 DEF SameTask, Top
<1>6. CASE DrainAborted
  <2>1. CASE /\ stack' = <<[Top EXCEPT !.phase = "wait"]>> \o Below
             /\ UNCHANGED <<control, table, commands>>
    <3> DEFINE f == [Top EXCEPT !.phase = "wait"]
    <3>1. f.kind = "drain" /\ f.reason = "Shutdown"
      BY <1>1, NextPhase
    <3>2. stack' = <<f>> \o Below /\ UNCHANGED <<control, table>>
      BY <2>1
    <3> HIDE DEF f
    <3>3. stack' # <<>> /\ Head(stack') = f
      BY <1>1, <3>2
    <3> QED
      BY <3>1, <3>2, <3>3 DEF control, SameTask
  <2> QED
    BY <1>2, <1>3, <1>4, <1>6, <2>1 DEF DrainAborted, AbortChildren
<1>7. CASE DrainWaitOver
  BY <1>2, <1>3, <1>4, <1>7 DEF DrainWaitOver, AbortChildren
<1>8. CASE DrainFinal
  <2>1. DrainErr \/ DrainOk
    BY <1>8 DEF DrainFinal
  <2> QED
    BY <1>2, <1>3, <2>1
<1> QED
  BY <1>5, <1>6, <1>7, <1>8 DEF Drain

\* Only shutdown_all and the end of run change the state.
LEMMA StateSteps ==
  ASSUME SupervisorStep
  PROVE  UNCHANGED state \/ ShutdownAll \/ result' # "none"
<1>1. \A r, st, s, a : Finish(r, st, s, a) => result' = r
  BY DEF Finish
<1>2. \A s : Panic(s) => result' # "none"
  BY <1>1 DEF Panic
<1>3. \A err, s, frames : Raise(err, s, frames) => UNCHANGED state \/ result' = err
  BY <1>1 DEF Raise, control
<1>4. \A t : HandleJoinedChild(t) => UNCHANGED state \/ result' # "none"
  BY <1>3 DEF HandleJoinedChild, ScheduleRestart, control
<1>5. ReceiveCommand => UNCHANGED state
  BY DEF ReceiveCommand
<1>6. DelayOver => UNCHANGED state \/ result' # "none"
  BY <1>2 DEF DelayOver, OneForOneRestart, OneForAllRestart, control
<1>7. DrainOk \/ DrainErr => UNCHANGED state \/ result' # "none"
  BY <1>1, <1>3 DEF DrainOk, DrainErr, control
<1>8. DrainRest => UNCHANGED state \/ result' # "none"
  BY <1>7 DEF DrainRest, control
<1>9. CASE Run
  BY <1>1, <1>4, <1>5, <1>9
     DEF Run, RunStart, NaturalExit, RunShutdown, RunCommand, RunJoin, control
<1>10. CASE Delay
  BY <1>5, <1>6, <1>10
     DEF Delay, YieldShutdown, YieldChecked, PollCommand, PollDrained,
         DelayShutdown, DelayCommand, DelayElapsed, control
<1>11. CASE Removal
  BY <1>4, <1>11
     DEF Removal, RemovalDone, RemovalShutdown, RemovalJoin, RemovalNoTasks,
         RemovalDeadline, DetachJoin, Detached, control
<1>12. CASE Drain
  BY <1>7, <1>8, <1>12
     DEF Drain, DrainReadyJoin, DrainAborted, DrainWaitJoin, DrainWaitOver,
         DrainFinal, control
<1> QED
  BY <1>9, <1>10, <1>11, <1>12 DEF SupervisorStep

\* shutdown_all makes its drain the running handler.
LEMMA ShutdownAllPushes ==
  ASSUME Inv, ShutdownAll
  PROVE  /\ stack' # <<>> /\ state' = "Stopping"
         /\ Head(stack').kind = "drain" /\ Head(stack').reason = "Shutdown"
<1>1. PICK grace \in BOOLEAN :
        stack' = <<DrainFrame("Shutdown", "abort", grace, FALSE)>> \o stack
  BY DEF ShutdownAll, BeginDrain
<1>2. Head(stack') = DrainFrame("Shutdown", "abort", grace, FALSE)
  BY <1>1 DEF Inv, ControlTypes
<1> QED
  BY <1>1, <1>2 DEF ShutdownAll, DrainFrame, Inv, ControlTypes

\* The children and the clients leave the handlers alone.
LEMMA EnvironmentKeepsStack ==
  ASSUME Environment
  PROVE  UNCHANGED <<state, stack, result>>
  BY DEF Environment, ChildExits, ChildAborted, SetStatus, RequestShutdown,
         DropHandles, Send, control

\* StackInv is inductive, given Inv.
LEMMA StackKeeps == Inv /\ StackInv /\ [Next]_vars => StackInv'
<1> SUFFICES ASSUME Inv, StackInv, [Next]_vars PROVE StackInv'
  OBVIOUS
<1>1. CASE SupervisorStep /\ state = "Running"
  BY <1>1, StateSteps, ShutdownAllPushes DEF StackInv, Top
<1>2. CASE SupervisorStep /\ state # "Running"
  BY <1>2, OnlyDrainIsLeft, DrainStep DEF StackInv, Top
<1>3. CASE Environment
  BY <1>3, EnvironmentKeepsStack DEF StackInv, Top
<1>4. CASE UNCHANGED vars
  BY <1>4 DEF vars, StackInv, Top
<1> QED
  BY <1>1, <1>2, <1>3, <1>4 DEF Next, Terminated

\* Children and clients spawn no supervised task.
LEMMA EnvironmentSpawnsNothing ==
  ASSUME Inv, Environment
  PROVE  \A t \in table'.join_set : \E u \in table.join_set : SameTask(t, u)
<1>1. /\ DOMAIN table = TableFields /\ \A t \in table.join_set : t \in Task
  BY DEF Inv, TableInv, TableTypeOK
<1>2. ASSUME NEW t \in table.join_set, NEW status, SetStatus(t, status)
      PROVE  \A v \in table'.join_set : \E u \in table.join_set : SameTask(v, u)
  <2>1. table'.join_set =
          (table.join_set \ {t}) \cup {[t EXCEPT !.status = status]}
    BY <1>1, <1>2 DEF SetStatus, TableFields
  <2>2. SameTask([t EXCEPT !.status = status], t)
    BY <1>1 DEF Task, SameTask
  <2> QED
    BY <2>1, <2>2 DEF SameTask
<1>3. CASE UNCHANGED table
  BY <1>3 DEF SameTask
<1> QED
  BY <1>2, <1>3 DEF Environment, ChildExits, ChildAborted, RequestShutdown,
                    DropHandles, Send

\* From the moment shutdown_all begins no task is spawned, whatever restart
\* delays, removals, group restarts and commands it interrupted.
THEOREM NoSpawnTheorem == Spec => NoSpawnAfterStopping
<1>1. Init => StackInv
  BY DEF Init, StackInv
<1>2. Inv /\ StackInv /\ [Next]_vars =>
        [state # "Running" => Spawned = {}]_vars
  <2> SUFFICES ASSUME Inv, StackInv, Next, state # "Running"
               PROVE  Spawned = {}
    OBVIOUS
  <2>1. \A t \in table'.join_set : \E u \in table.join_set : SameTask(t, u)
    <3>1. CASE SupervisorStep
      BY <3>1, OnlyDrainIsLeft, DrainStep
    <3>2. CASE Environment
      BY <3>2, EnvironmentSpawnsNothing
    <3>3. CASE Terminated
      BY <3>3 DEF Terminated, vars, SameTask
    <3> QED
      BY <3>1, <3>2, <3>3 DEF Next
  <2> QED
    BY <2>1 DEF Spawned, SameTask
<1> QED
  BY <1>1, <1>2, InvTheorem, StackKeeps, PTL DEF Spec, NoSpawnAfterStopping

-----------------------------------------------------------------------------
(* No task is forgotten.                                                   *)

\* The handlers that other handlers are called from.
CalmFrames ==
  {f \in Frames :
     f.kind = "delay" \/ (f.kind = "remove" /\ f.phase = "await")}

\* The slot whose child the running handler detaches.
Detaching ==
  IF stack # <<>> /\ Top.kind = "remove" /\ Top.phase = "detach"
  THEN {Top.key} ELSE {}

Careful(s) ==
  LiveCovered(s) /\ (Strategy = "OneForAll" => OrphansAborted(s))

\* live_tasks counts every task but those that were aborted for good, a child
\* is finalized only after its task was aborted, and OneForAll never spawns
\* over a task.
CareInv ==
  /\ Careful(table)
  /\ AbortedUnder(table, Detaching)
  /\ stack # <<>> =>
       /\ Below \in Seq(CalmFrames)
       /\ Top.kind = "start" => table.join_set = {}
       /\ Top.kind = "drain" /\ Top.reason = "GroupRestart"
            => Strategy = "OneForAll"

\* A fresh group token, only over tasks that are gone.
GroupSafe ==
  table.group_cancelled /\ ~table'.group_cancelled =>
    \A t \in table.join_set : t.aborted /\ ~IsCurrent(table, t)

\* A table that follows a careful one is careful.
LEMMA CarefulFollows ==
  ASSUME NEW s, TableInv(s), Careful(s), NEW r, Follows(s, r),
         r.live_tasks = s.live_tasks
  PROVE  Careful(r)
<1>1. s.live_tasks \in Nat
  BY DEF TableInv, TableTypeOK
<1> QED
  BY <1>1, FollowsKeeps, FewerCounted DEF Careful

\* The stack after a step: handlers that are all calm, ...
LEMMA CalmStack ==
  ASSUME Careful(table'), stack' \in Seq(CalmFrames)
  PROVE  CareInv'
<1>1. CASE stack' = <<>>
  BY <1>1 DEF CareInv, Detaching, AbortedUnder
<1>2. CASE stack' # <<>>
  <2>1. Top' \in CalmFrames /\ Below' \in Seq(CalmFrames)
    BY <1>2 DEF Top, Below
  <2>2. /\ Top'.kind # "start" /\ Top'.kind # "drain"
        /\ Top'.kind = "remove" => Top'.phase = "await"
    BY <2>1 DEF CalmFrames
  <2> QED
    BY <2>1, <2>2 DEF CareInv, Detaching, AbortedUnder
<1> QED
  BY <1>1, <1>2

\* ... a running handler over calm ones, ...
LEMMA PushedFrame ==
  ASSUME Careful(table'), NEW f \in Frames, NEW frames \in Seq(CalmFrames),
         stack' = <<f>> \o frames, f.kind # "start",
         f.kind = "remove" /\ f.phase = "detach"
           => AbortedUnder(table', {f.key}),
         f.kind = "drain" /\ f.reason = "GroupRestart"
           => Strategy = "OneForAll"
  PROVE  CareInv'
<1>1. stack' # <<>> /\ Head(stack') = f /\ Tail(stack') = frames
  OBVIOUS
<1> QED
  BY <1>1 DEF CareInv, Detaching, AbortedUnder, Top, Below

\* ... or the same handlers, over a table that follows.
LEMMA SameStack ==
  ASSUME CareInv, Careful(table'), stack' = stack, Follows(table, table')
  PROVE  CareInv'
<1>1. AbortedUnder(table', Detaching)
  BY FollowsKeeps DEF CareInv
<1>2. table.join_set = {} => table'.join_set = {}
  BY DEF Follows
<1>3. Top' = Top /\ Below' = Below /\ Detaching' = Detaching
  BY DEF Top, Below, Detaching
<1> QED
  BY <1>1, <1>2, <1>3 DEF CareInv

\* A handler that calls others is calm, and so are those below it.
LEMMA CalmHere ==
  ASSUME Inv, CareInv,
         \/ stack = <<>>
         \/ stack # <<>> /\ Top.kind = "delay"
         \/ stack # <<>> /\ Top.kind = "remove" /\ Top.phase = "await"
  PROVE  stack \in Seq(CalmFrames)
<1>1. CASE stack = <<>>
  BY <1>1
<1>2. CASE stack # <<>>
  <2>1. Top \in CalmFrames /\ Below \in Seq(CalmFrames)
    BY <1>2, StackTypes DEF CareInv, CalmFrames, Inv
  <2>2. stack = <<Top>> \o Below
    BY <1>2 DEF Top, Below, Inv, ControlTypes
  <2>3. <<Top>> \in Seq(CalmFrames)
    BY <2>1
  <2> HIDE DEF CalmFrames
  <2> QED
    BY <2>1, <2>2, <2>3, ConcatProperties
<1> QED
  BY <1>1, <1>2

\* run returns or panics.
LEMMA FinishCares ==
  ASSUME NEW r, NEW st, NEW s, TableInv(s), Careful(s), NEW answer,
         Finish(r, st, s, answer)
  PROVE  CareInv' /\ table'.group_cancelled = s.group_cancelled
<1>1. table' = AbortTasks(s, s.join_set) /\ stack' = <<>>
  BY DEF Finish
<1>2. Careful(table') /\ table'.group_cancelled = s.group_cancelled
  BY <1>1, SignalSteps, CarefulFollows
<1> QED
  BY <1>1, <1>2, CalmStack

\* An error ends a suspended removal, or run.
LEMMA RaiseCares ==
  ASSUME NEW err, NEW s, TableInv(s), Careful(s),
         NEW frames \in Seq(CalmFrames), Raise(err, s, frames)
  PROVE  CareInv' /\ table'.group_cancelled = s.group_cancelled
<1>1. CASE frames = <<>>
  BY <1>1, FinishCares DEF Raise
<1>2. CASE frames # <<>>
  <2>1. table' = s /\ stack' = Tail(frames) /\ Tail(frames) \in Seq(CalmFrames)
    BY <1>2 DEF Raise
  <2> QED
    BY <2>1, CalmStack
<1> QED
  BY <1>1, <1>2

\* The start of a drain.
LEMMA BeginDrainCares ==
  ASSUME Inv, Careful(table), NEW reason \in {"Shutdown", "GroupRestart"},
         NEW frames \in Seq(CalmFrames),
         reason = "GroupRestart" => Strategy = "OneForAll",
         BeginDrain(reason, frames)
  PROVE  CareInv' /\ table'.group_cancelled
<1> DEFINE s == CancelRunningChildren(table)
           grace == ActiveKeys(s) \ AbortModeKeys(s) # {}
           f == DrainFrame(reason, "abort", grace, FALSE)
<1>1. TableInv(table) /\ TableInv(s)
  BY CancelRunningKeeps DEF Inv
<1>2. Careful(s) /\ s.group_cancelled
  BY <1>1, CancelRunningSteps, CarefulFollows
<1>3. table' = AbortChildren(s, AbortModeKeys(s)) /\ stack' = <<f>> \o frames
  BY DEF BeginDrain
<1>4. f \in Frames /\ f.kind = "drain" /\ f.reason = reason
  BY NewFrameTypes DEF DrainFrame
<1> HIDE DEF s, f
<1>5. Careful(table') /\ table'.group_cancelled
  BY <1>1, <1>2, <1>3, AbortChildrenSteps, CarefulFollows
<1> QED
  BY <1>3, <1>4, <1>5, PushedFrame

\* shutdown_all, over calm handlers.
LEMMA ShutdownAllCares ==
  ASSUME Inv, CareInv, stack \in Seq(CalmFrames), ShutdownAll
  PROVE  CareInv' /\ table'.group_cancelled
  BY BeginDrainCares DEF ShutdownAll, CareInv

\* handle_joined_child.
LEMMA HandleJoinedChildCares ==
  ASSUME Inv, CareInv, stack \in Seq(CalmFrames), NEW t \in table.join_set,
         HandleJoinedChild(t)
  PROVE  CareInv' /\ table'.group_cancelled = table.group_cancelled
<1> DEFINE s == JoinChild(table, t)
<1>1. TableInv(table) /\ Careful(table) /\ t \in Task
  BY DEF Inv, CareInv, TableInv, TableTypeOK
<1>2. /\ TableInv(s) /\ Occupied(s) = Occupied(table)
      /\ s.group_cancelled = table.group_cancelled
      /\ IsCurrent(table, t) => AbortedUnder(s, {t.key})
  BY <1>1, JoinKeeps, JoinSteps
     DEF JoinChild, Occupied, TableInv, TableTypeOK, TableFields
<1>3. Careful(s)
  BY <1>1, JoinSteps, FollowsKeeps DEF Careful
<1> HIDE DEF s
<1>4. CASE table' = s /\ UNCHANGED stack
  BY <1>2, <1>3, <1>4, CalmStack
<1>5. CASE /\ IsCurrent(table, t) /\ table' = FinalizeRemoved(s, t.key)
           /\ UNCHANGED stack
  <2>1. t.key \in Occupied(s)
    BY <1>2, <1>5 DEF IsCurrent
  <2>2. Careful(table') /\ table'.group_cancelled = table.group_cancelled
    BY <1>2, <1>3, <1>5, <2>1, FinalizeSteps DEF Careful
  <2> QED
    BY <1>5, <2>2, CalmStack
<1>6. CASE table' = RecordTerminal(s, t) /\ UNCHANGED stack
  <2>1. Careful(table') /\ table'.group_cancelled = table.group_cancelled
    BY <1>2, <1>3, <1>6, InPlaceSteps, CarefulFollows
  <2> QED
    BY <1>6, <2>1, CalmStack
<1>7. CASE ScheduleRestart(s, t.key)
  <2> DEFINE recorded == RecordRestart(s, t.key)
             phase == IF recorded.children[t.key].id \in ZeroDelay
                      THEN "yield" ELSE "timer"
             f == DelayFrame(t.key, phase)
  <2>1. /\ TableInv(recorded) /\ Careful(recorded)
        /\ recorded.group_cancelled = table.group_cancelled
    BY <1>2, <1>3, RecordKeeps, InPlaceSteps, CarefulFollows
  <2>2. f \in Frames /\ f.kind = "delay"
    <3>1. t.key \in Nat
      BY <1>1 DEF Task
    <3> QED
      BY <3>1, NewFrameTypes DEF DelayFrame
  <2>3. \/ table' = recorded /\ stack' = <<f>> \o stack
        \/ Raise("RestartIntensityExceeded", recorded, stack)
    BY <1>7 DEF ScheduleRestart
  <2> HIDE DEF recorded, f
  <2> QED
    BY <2>1, <2>2, <2>3, PushedFrame, RaiseCares
<1> QED
  BY <1>4, <1>5, <1>6, <1>7 DEF HandleJoinedChild, s

\* add_child.
LEMMA AddChildCares ==
  ASSUME Inv, CareInv, stack \in Seq(CalmFrames), NEW c \in Clients,
         AddChild(c)
  PROVE  CareInv' /\ table'.group_cancelled = table.group_cancelled
<1> DEFINE id == commands[c].id
           s == InsertChild(table, id)
           k == NextKey(table)
<1>1. id \in Ids /\ TableInv(table) /\ Careful(table)
  BY DEF Inv, CareInv, ControlTypes, Commands
<1>2. CASE AddReply(id) = "Ok"
  <2>1. id \notin DOMAIN table.children_by_id
    BY <1>2 DEF AddReply
  <2>2. TableInv(s) /\ k \in Occupied(s)
    BY <1>1, <2>1, InsertKeeps
  <2>3. /\ Careful(s) /\ AbortedUnder(s, {k})
        /\ s.group_cancelled = table.group_cancelled
    BY <1>1, InsertSteps, CarefulFollows
  <2>4. table' = SpawnChildren(s, {k}) /\ UNCHANGED stack
    BY <1>2 DEF AddChild
  <2> HIDE DEF s, k
  <2>5. Careful(table') /\ table'.group_cancelled = table.group_cancelled
    <3>1. {k} \in SUBSET Occupied(s)
      BY <2>2
    <3> QED
      BY <2>2, <2>3, <2>4, <3>1, SpawnSteps DEF Careful
  <2> QED
    BY <2>4, <2>5, CalmStack
<1>3. CASE AddReply(id) # "Ok"
  BY <1>1, <1>3, CalmStack DEF AddChild
<1> QED
  BY <1>2, <1>3

\* remove_child, up to its first await.
LEMMA RemoveChildCares ==
  ASSUME Inv, CareInv, stack \in Seq(CalmFrames), NEW c \in Clients,
         RemoveChild(c)
  PROVE  CareInv' /\ table'.group_cancelled = table.group_cancelled
<1> DEFINE id == commands[c].id
           key == table.children_by_id[id]
           marked == MarkRemoving(table, key)
<1>1. TableInv(table) /\ Careful(table)
  BY DEF Inv, CareInv
<1>2. CASE UNCHANGED <<table, stack>>
  BY <1>1, <1>2, CalmStack
<1>3. ASSUME RemoveRefusal(id) = "none"
      PROVE  /\ key \in Occupied(table) /\ key \in Nat
             /\ TableInv(marked) /\ key \in Occupied(marked)
             /\ Careful(marked)
             /\ marked.group_cancelled = table.group_cancelled
  <2>1. id \in DOMAIN table.children_by_id
    BY <1>3 DEF RemoveRefusal
  <2>2. key \in Occupied(table) /\ key \in Nat
    BY <1>1, <2>1 DEF TableInv, IndexOK, TableTypeOK
  <2> HIDE DEF key
  <2> QED
    BY <1>1, <2>2, MarkRemovingKeeps, InPlaceSteps, CarefulFollows
<1>4. CASE /\ RemoveRefusal(id) = "none" /\ ~IsActive(table.children[key])
           /\ table' = FinalizeRemoved(marked, key)
           /\ UNCHANGED stack
  <2>1. AbortedUnder(table, {key})
    <3> DEFINE e == table.children[key]
    <3>1. key \in Occupied(table) /\ TasksOK(table)
      BY <1>1, <1>3, <1>4 DEF TableInv
    <3>2. ~e.handle
      BY <1>4, <3>1 DEF TasksOK
    <3> HIDE DEF key
    <3>3. \A t \in table.join_set : t.key = key => ~IsCurrent(table, t)
      BY <3>1, <3>2 DEF TasksOK, IsCurrent
    <3> QED
      BY <3>3 DEF AbortedUnder
  <2>2. AbortedUnder(marked, {key})
    BY <1>1, <2>1, InPlaceSteps, FollowsKeeps
  <2> HIDE DEF key, marked
  <2>3. Careful(table') /\ table'.group_cancelled = table.group_cancelled
    BY <1>3, <1>4, <2>2, FinalizeSteps DEF Careful
  <2> QED
    BY <1>4, <2>3, CalmStack
<1>5. CASE /\ RemoveRefusal(id) = "none"
           /\ table' = AbortChildren(marked, {key})
           /\ stack' = <<RemoveFrame(key, c, "detach")>> \o stack
  <2> DEFINE f == RemoveFrame(key, c, "detach")
  <2>1. f \in Frames /\ f.kind = "remove" /\ f.key = key
    BY <1>3, <1>5, NewFrameTypes DEF RemoveFrame
  <2> HIDE DEF key, marked
  <2>2. /\ Careful(table') /\ table'.group_cancelled = table.group_cancelled
        /\ AbortedUnder(table', {key})
    BY <1>3, <1>5, AbortChildrenSteps, CarefulFollows
  <2> HIDE DEF f
  <2> QED
    BY <1>5, <2>1, <2>2, PushedFrame DEF f
<1>6. CASE /\ RemoveRefusal(id) = "none"
           /\ table' = CancelChild(marked, key)
           /\ stack' = <<RemoveFrame(key, c, "await")>> \o stack
  <2> DEFINE f == RemoveFrame(key, c, "await")
  <2>1. f \in Frames /\ f.kind = "remove" /\ f.phase = "await"
    BY <1>3, <1>6, NewFrameTypes DEF RemoveFrame
  <2> HIDE DEF key, marked
  <2>2. Careful(table') /\ table'.group_cancelled = table.group_cancelled
    BY <1>3, <1>6, SignalSteps, CarefulFollows DEF CancelChild
  <2> HIDE DEF f
  <2> QED
    BY <1>6, <2>1, <2>2, PushedFrame DEF f
<1> QED
  BY <1>2, <1>4, <1>5, <1>6 DEF RemoveChild

\* The command arm of the select loops.
LEMMA ReceiveCommandCares ==
  ASSUME Inv, CareInv, stack \in Seq(CalmFrames), ReceiveCommand
  PROVE  CareInv' /\ table'.group_cancelled = table.group_cancelled
<1>1. CASE queue # <<>> /\ (AddChild(Head(queue)) \/ RemoveChild(Head(queue)))
  <2>1. Head(queue) \in Clients
    BY <1>1 DEF Inv, ControlTypes
  <2> QED
    BY <1>1, <2>1, AddChildCares, RemoveChildCares
<1>2. CASE UNCHANGED <<table, stack>>
  BY <1>2, CalmStack DEF CareInv
<1> QED
  BY <1>1, <1>2 DEF ReceiveCommand

\* A restart whose delay is over.
LEMMA DelayOverCares ==
  ASSUME Inv, CareInv, stack # <<>>, DelayOver
  PROVE  CareInv' /\ GroupSafe
<1>1. /\ TableInv(table) /\ Careful(table) /\ Below \in Seq(CalmFrames)
      /\ table.group_cancelled \in BOOLEAN
  BY DEF Inv, CareInv, TableInv, TableTypeOK
<1>2. CASE Panic(table)
  BY <1>1, <1>2, FinishCares DEF Panic, GroupSafe
<1>3. CASE /\ Strategy = "OneForOne"
           /\ OneForOneRestart(Top.key) /\ ~Panic(table)
  <2>1. /\ {Top.key} \in SUBSET Occupied(table) /\ stack' = Below
        /\ table' = SpawnChildren(table, {Top.key}) \/ table' = table
    BY <1>3 DEF OneForOneRestart
  <2>2. Careful(table') /\ table'.group_cancelled = table.group_cancelled
    BY <1>1, <1>3, <2>1, SpawnSteps DEF Careful
  <2> QED
    BY <1>1, <2>1, <2>2, CalmStack DEF GroupSafe
<1>4. CASE /\ Strategy = "OneForAll"
           /\ OneForAllRestart(Top.key) /\ ~Panic(table)
  BY <1>1, <1>4, BeginDrainCares DEF OneForAllRestart, GroupSafe
<1> QED
  BY <1>2, <1>3, <1>4 DEF DelayOver

\* A drain that ends well: of the group only aborted tasks are left.
LEMMA DrainOkCares ==
  ASSUME Inv, CareInv, stack # <<>>, Top.kind = "drain",
         Top.reason = "Shutdown" \/ table.live_tasks = 0
           \/ ActiveKeys(table) = {},
         DrainOk
  PROVE  CareInv' /\ GroupSafe
<1>1. TableInv(table) /\ Careful(table) /\ Below \in Seq(CalmFrames)
  BY DEF Inv, CareInv
<1>2. CASE Finish("Shutdown", "Stopped", table, "SupervisorStopping")
  BY <1>1, <1>2, FinishCares DEF GroupSafe
<1>3. CASE /\ Top.reason = "GroupRestart"
           /\ table' = LET s == RenewGroupToken(table)
                       IN SpawnChildren(s, Restartable(s))
           /\ stack' = Below
  <2> DEFINE s == RenewGroupToken(table)
             K == Restartable(s)
  <2>1. Strategy = "OneForAll" /\ OrphansAborted(table)
    BY <1>1, <1>3 DEF CareInv, Careful
  <2>2. \A t \in table.join_set : t.aborted /\ ~IsCurrent(table, t)
    <3>1. CASE table.live_tasks = 0
      BY <1>1, <3>1, NothingCounted DEF Careful
    <3>2. CASE ActiveKeys(table) = {}
      BY <1>1, <2>1, <3>2, NothingActive DEF OrphansAborted
    <3> QED
      BY <1>3, <3>1, <3>2
  <2>3. /\ TableInv(s) /\ s.join_set = table.join_set
        /\ s.children = table.children /\ s.live_tasks = table.live_tasks
    BY <1>1, RenewKeeps, InPlaceSteps
  <2>4. K \in SUBSET Occupied(s)
    BY <2>3 DEF Restartable, TableInv, IndexOK
  <2> HIDE DEF s
  <2>5. \A t : IsCurrent(s, t) <=> IsCurrent(table, t)
    BY <2>3 DEF IsCurrent, Occupied
  <2>6. Careful(s) /\ AbortedUnder(s, K)
    BY <1>1, <2>2, <2>3, <2>5
       DEF Careful, LiveCovered, CountedIds, Counted, OrphansAborted,
           AbortedUnder
  <2> HIDE DEF K
  <2>7. Careful(table')
    BY <1>3, <2>3, <2>4, <2>6, SpawnSteps DEF Careful, s, K
  <2> QED
    BY <1>1, <1>3, <2>2, <2>7, CalmStack DEF GroupSafe
<1> QED
  BY <1>2, <1>3 DEF DrainOk

\* A drain that timed out.
LEMMA DrainErrCares ==
  ASSUME Inv, CareInv, stack # <<>>, DrainErr
  PROVE  CareInv' /\ GroupSafe
<1>1. TableInv(table) /\ Careful(table) /\ Below \in Seq(CalmFrames)
  BY DEF Inv, CareInv
<1> QED
  BY <1>1, FinishCares, RaiseCares DEF DrainErr, GroupSafe

\* A drain that goes on to its next phase.
LEMMA DrainFrameSame ==
  ASSUME NEW f \in Frames, f.kind = "drain",
         NEW phase \in {"abort", "wait", "final"}, NEW b \in BOOLEAN
  PROVE  /\ LET g == [f EXCEPT !.phase = phase]
            IN g \in Frames /\ g.kind = "drain" /\ g.reason = f.reason
         /\ LET g == [f EXCEPT !.phase = phase, !.timed_out = b]
            IN g \in Frames /\ g.kind = "drain" /\ g.reason = f.reason
<1>1. f \in [kind : {"drain"}, phase : {"abort", "wait", "final"},
             reason : {"Shutdown", "GroupRestart"}, grace : BOOLEAN,
             timed_out : BOOLEAN]
  BY DEF Frames, StartFrame
<1>2. /\ LET g == [f EXCEPT !.phase = phase]
         IN g.kind = "drain" /\ g.reason = f.reason
      /\ LET g == [f EXCEPT !.phase = phase, !.timed_out = b]
         IN g.kind = "drain" /\ g.reason = f.reason
  BY <1>1
<1> QED
  BY <1>2, FrameTypes

\* The running drain goes on to another phase.
LEMMA DrainPhaseCares ==
  ASSUME Inv, CareInv, stack # <<>>, Top.kind = "drain",
         NEW f, f \in Frames, f.kind = "drain", f.reason = Top.reason,
         stack' = <<f>> \o Below, Careful(table')
  PROVE  CareInv'
<1>1. Below \in Seq(CalmFrames)
  BY DEF CareInv
<1>2. f.reason = "GroupRestart" => Strategy = "OneForAll"
  BY DEF CareInv
<1> QED
  BY <1>1, <1>2, PushedFrame

\* What drain_children does once it no longer waits.
LEMMA DrainRestCares ==
  ASSUME Inv, CareInv, stack # <<>>, Top.kind = "drain", DrainRest
  PROVE  CareInv' /\ GroupSafe
<1>1. TableInv(table) /\ Careful(table) /\ Top \in Frames
  BY StackTypes DEF Inv, CareInv
<1>2. CASE ActiveKeys(table) = {}
  BY <1>2, DrainOkCares DEF DrainRest
<1>3. CASE ActiveKeys(table) # {}
  <2> DEFINE b == CooperativeKeys(table) # {}
             f == [Top EXCEPT !.phase = "final", !.timed_out = b]
  <2>1. f \in Frames /\ f.kind = "drain" /\ f.reason = Top.reason
    BY <1>1, DrainFrameSame
  <2>2. stack' = <<f>> \o Below
        /\ table' = AbortChildren(table, ActiveKeys(table))
    BY <1>3 DEF DrainRest
  <2> HIDE DEF f
  <2>3. Careful(table') /\ table'.group_cancelled = table.group_cancelled
    BY <1>1, <2>2, AbortChildrenSteps, CarefulFollows
  <2> QED
    BY <2>1, <2>2, <2>3, DrainPhaseCares DEF GroupSafe
<1> QED
  BY <1>2, <1>3

\* The start of run and its select loop.
LEMMA RunCares ==
  ASSUME Inv, CareInv, Run
  PROVE  CareInv' /\ GroupSafe
<1>1. TableInv(table) /\ Careful(table)
  BY DEF Inv, CareInv
<1>2. CASE RunStart
  <2>1. stack # <<>> /\ Top.kind = "start"
    BY <1>2 DEF RunStart, At
  <2>2. table.join_set = {} /\ Below \in Seq(CalmFrames)
    BY <2>1 DEF CareInv
  <2>3. table.child_order \in SUBSET Occupied(table)
    BY <1>1 DEF TableInv, IndexOK
  <2>4. AbortedUnder(table, table.child_order)
    BY <2>2 DEF AbortedUnder
  <2>5. /\ table' = SpawnChildren(table, table.child_order)
        /\ stack' = Below
    BY <1>2 DEF RunStart
  <2>6. Careful(table') /\ table'.group_cancelled = table.group_cancelled
    BY <1>1, <2>3, <2>4, <2>5, SpawnSteps DEF Careful
  <2> QED
    BY <2>2, <2>5, <2>6, CalmStack DEF GroupSafe
<1>3. CASE NaturalExit
  BY <1>1, <1>3, FinishCares DEF NaturalExit, GroupSafe
<1>4. CASE RunShutdown \/ RunCommand \/ RunJoin
  <2>1. stack \in Seq(CalmFrames)
    BY <1>4, CalmHere DEF RunShutdown, RunCommand, RunJoin, AtSelect, Idle
  <2> QED
    BY <1>4, <2>1, ShutdownAllCares, ReceiveCommandCares,
       HandleJoinedChildCares
       DEF RunShutdown, RunCommand, RunJoin, Finished, GroupSafe
<1> QED
  BY <1>2, <1>3, <1>4 DEF Run

\* wait_for_restart_delay.
LEMMA DelayCares ==
  ASSUME Inv, CareInv, Delay
  PROVE  CareInv' /\ GroupSafe
<1>1. stack # <<>> /\ Top.kind = "delay"
  BY DEF Delay, YieldShutdown, YieldChecked, PollCommand, PollDrained,
         DelayShutdown, DelayCommand, DelayElapsed, At
<1>2. stack \in Seq(CalmFrames) /\ Below \in Seq(CalmFrames)
  BY <1>1, CalmHere DEF CareInv
<1>3. CASE YieldShutdown \/ DelayShutdown
  BY <1>2, <1>3, ShutdownAllCares DEF YieldShutdown, DelayShutdown, GroupSafe
<1>4. CASE PollCommand \/ DelayCommand
  BY <1>2, <1>4, ReceiveCommandCares DEF PollCommand, DelayCommand, GroupSafe
<1>5. CASE PollDrained \/ DelayElapsed
  BY <1>1, <1>5, DelayOverCares DEF PollDrained, DelayElapsed
<1>6. CASE YieldChecked
  <2> DEFINE f == DelayFrame(Top.key, "poll")
  <2>1. f \in Frames /\ f.kind = "delay"
    <3>1. Top.key \in Nat
      BY <1>1, StackTypes, FrameTypes DEF Inv
    <3> QED
      BY <3>1, NewFrameTypes DEF DelayFrame
  <2>2. stack' = <<f>> \o Below /\ table' = table /\ Careful(table)
    BY <1>6 DEF YieldChecked, CareInv
  <2> HIDE DEF f
  <2> QED
    BY <1>2, <2>1, <2>2, PushedFrame DEF GroupSafe
<1> QED
  BY <1>3, <1>4, <1>5, <1>6 DEF Delay

\* await_child_removal and abort_and_detach_child.
LEMMA RemovalCares ==
  ASSUME Inv, CareInv, Removal
  PROVE  CareInv' /\ GroupSafe
<1>1. TableInv(table) /\ Careful(table)
  BY DEF Inv, CareInv
<1>2. /\ stack # <<>> /\ Top.kind = "remove"
      /\ Below \in Seq(CalmFrames) /\ Top \in Frames
  BY StackTypes
     DEF Removal, RemovalDone, RemovalShutdown, RemovalJoin, RemovalNoTasks,
         RemovalDeadline, DetachJoin, Detached, AwaitingRemoval, At, CareInv,
         Inv
<1>3. CASE RemovalDone \/ RemovalNoTasks
  <2>1. table' = table /\ stack' = Below
    BY <1>3 DEF RemovalDone, RemovalNoTasks, ReplyToTop
  <2> QED
    BY <1>1, <1>2, <2>1, CalmStack DEF GroupSafe
<1>4. CASE RemovalShutdown \/ RemovalJoin
  <2>1. stack \in Seq(CalmFrames)
    BY <1>4, CalmHere DEF RemovalShutdown, RemovalJoin, AwaitingRemoval, At
  <2> QED
    BY <1>4, <2>1, ShutdownAllCares, HandleJoinedChildCares
       DEF RemovalShutdown, RemovalJoin, Finished, GroupSafe
<1>5. CASE RemovalDeadline
  <2> DEFINE f == [Top EXCEPT !.phase = "detach"]
  <2>1. f \in Frames /\ f.kind = "remove" /\ f.key = Top.key
    <3>1. Top \in [kind : {"remove"}, phase : {"await", "detach"}, key : Nat,
                   client : Clients]
      BY <1>2 DEF Frames, StartFrame
    <3>2. f.kind = "remove" /\ f.key = Top.key
      BY <3>1
    <3> QED
      BY <1>2, <3>2, FrameTypes
  <2>2. stack' = <<f>> \o Below /\ table' = AbortChildren(table, {Top.key})
    BY <1>5 DEF RemovalDeadline
  <2> HIDE DEF f
  <2>3. /\ Careful(table') /\ table'.group_cancelled = table.group_cancelled
        /\ AbortedUnder(table', {f.key})
    BY <1>1, <2>1, <2>2, AbortChildrenSteps, CarefulFollows
  <2> QED
    BY <1>2, <2>1, <2>2, <2>3, PushedFrame DEF GroupSafe
<1>6. CASE DetachJoin
  <2>1. PICK t \in table.join_set : table' = JoinChild(table, t)
    BY <1>6 DEF DetachJoin, Finished
  <2>2. /\ Follows(table, table') /\ Careful(table')
        /\ table'.group_cancelled = table.group_cancelled
    BY <1>1, <2>1, JoinSteps, FollowsKeeps DEF Careful
  <2>3. stack' = stack
    BY <1>6 DEF DetachJoin
  <2> QED
    BY <2>2, <2>3, SameStack DEF GroupSafe
<1>7. CASE Detached
  <2>1. stack' = Below
    BY <1>7 DEF Detached, ReplyToTop
  <2>2. CASE Top.key \in Occupied(table)
    <3>1. AbortedUnder(table, {Top.key})
      BY <1>7 DEF CareInv, Detaching, Detached, At
    <3>2. table' = FinalizeRemoved(table, Top.key)
      BY <1>7, <2>2 DEF Detached
    <3>3. Careful(table') /\ table'.group_cancelled = table.group_cancelled
      BY <1>1, <2>2, <3>1, <3>2, FinalizeSteps DEF Careful
    <3> QED
      BY <1>2, <2>1, <3>3, CalmStack DEF GroupSafe
  <2>3. CASE Top.key \notin Occupied(table)
    <3>1. table' = table
      BY <1>7, <2>3 DEF Detached
    <3> QED
      BY <1>1, <1>2, <2>1, <3>1, CalmStack DEF GroupSafe
  <2> QED
    BY <2>2, <2>3
<1> QED
  BY <1>3, <1>4, <1>5, <1>6, <1>7 DEF Removal

\* drain_children and its callers.
LEMMA DrainCares ==
  ASSUME Inv, CareInv, Drain
  PROVE  CareInv' /\ GroupSafe
<1>1. TableInv(table) /\ Careful(table)
  BY DEF Inv, CareInv
<1>2. stack # <<>> /\ Top.kind = "drain" /\ Top \in Frames
  BY StackTypes
     DEF Drain, DrainReadyJoin, DrainAborted, DrainWaitJoin, DrainWaitOver,
         DrainFinal, At, Inv
<1>3. CASE DrainReadyJoin \/ DrainWaitJoin
  <2>1. PICK t \in table.join_set : table' = DrainedJoin(table, t, Top.reason)
    BY <1>3 DEF DrainReadyJoin, DrainWaitJoin, Finished
  <2> DEFINE s == JoinChild(table, t)
  <2>2. /\ TableInv(s) /\ Follows(table, s) /\ Careful(s)
        /\ s.group_cancelled = table.group_cancelled
    BY <1>1, JoinKeeps, JoinSteps, FollowsKeeps DEF Careful
  <2>3. table' = s \/ table' = RecordTerminal(s, t)
    BY <2>1 DEF DrainedJoin
  <2> HIDE DEF s
  <2>4. Careful(table') /\ table'.group_cancelled = table.group_cancelled
    BY <2>2, <2>3, InPlaceSteps, CarefulFollows
  <2>5. stack' = stack
    BY <1>3 DEF DrainReadyJoin, DrainWaitJoin
  <2>6. stack' = <<Top>> \o Below
    BY <1>2, <2>5 DEF Top, Below, Inv, ControlTypes
  <2> QED
    BY <1>2, <2>4, <2>6, DrainPhaseCares DEF GroupSafe
<1>4. CASE DrainAborted
  <2>1. CASE table.live_tasks = 0 /\ DrainOk
    BY <1>2, <2>1, DrainOkCares
  <2>2. CASE DrainRest
    BY <1>2, <2>2, DrainRestCares
  <2>3. CASE /\ stack' = <<[Top EXCEPT !.phase = "wait"]>> \o Below
             /\ UNCHANGED table
    <3> DEFINE f == [Top EXCEPT !.phase = "wait"]
    <3>1. f \in Frames /\ f.kind = "drain" /\ f.reason = Top.reason
      BY <1>2, DrainFrameSame
    <3>2. stack' = <<f>> \o Below
      BY <2>3
    <3> HIDE DEF f
    <3> QED
      BY <1>1, <1>2, <2>3, <3>1, <3>2, DrainPhaseCares DEF GroupSafe
  <2> QED
    BY <1>4, <2>1, <2>2, <2>3 DEF DrainAborted
<1>5. CASE DrainWaitOver
  BY <1>2, <1>5, DrainRestCares DEF DrainWaitOver
<1>6. CASE DrainFinal
  <2>1. CASE DrainErr
    BY <1>2, <2>1, DrainErrCares
  <2>2. CASE DrainOk /\ ~DrainErr
    <3>1. ~(Top.reason = "GroupRestart" /\ ActiveKeys(table) # {})
      BY <1>6, <2>2 DEF DrainFinal
    <3>2. Top.reason = "Shutdown" \/ ActiveKeys(table) = {}
      BY <2>2, <3>1 DEF DrainOk
    <3> QED
      BY <1>2, <2>2, <3>2, DrainOkCares
  <2> QED
    BY <1>6, <2>1, <2>2 DEF DrainFinal
<1> QED
  BY <1>3, <1>4, <1>5, <1>6 DEF Drain

\* The children and the clients.
LEMMA EnvironmentCares ==
  ASSUME Inv, CareInv, Environment
  PROVE  CareInv' /\ GroupSafe
<1>1. TableInv(table) /\ Careful(table) /\ stack' = stack
  BY EnvironmentKeepsStack DEF Inv, CareInv
<1>2. ASSUME NEW t \in table.join_set, NEW status, SetStatus(t, status)
      PROVE  CareInv' /\ GroupSafe
  <2>1. /\ Follows(table, table') /\ Careful(table')
        /\ table'.group_cancelled = table.group_cancelled
    BY <1>1, <1>2, StatusSteps, CarefulFollows DEF SetStatus
  <2> QED
    BY <1>1, <2>1, SameStack DEF GroupSafe
<1>3. CASE table' = table
  <2>1. Follows(table, table')
    BY <1>3 DEF Follows, SameTask
  <2> QED
    BY <1>1, <1>3, <2>1, SameStack DEF GroupSafe
<1> QED
  BY <1>2, <1>3 DEF Environment, ChildExits, ChildAborted, RequestShutdown,
                    DropHandles, Send

\* Every step is careful.
LEMMA NextCares == Inv /\ CareInv /\ [Next]_vars => CareInv' /\ GroupSafe
<1> SUFFICES ASSUME Inv, CareInv, [Next]_vars PROVE CareInv' /\ GroupSafe
  OBVIOUS
<1>1. CASE SupervisorStep
  BY <1>1, RunCares, DelayCares, RemovalCares, DrainCares DEF SupervisorStep
<1>2. CASE Environment
  BY <1>2, EnvironmentCares
<1>3. CASE UNCHANGED vars
  <2>1. table' = table /\ stack' = stack
    BY <1>3 DEF vars
  <2>2. Follows(table, table')
    BY <2>1 DEF Follows, SameTask
  <2> QED
    BY <2>1, <2>2, SameStack DEF CareInv, GroupSafe
<1> QED
  BY <1>1, <1>2, <1>3 DEF Next, Terminated

\* The supervisor starts carefully.
LEMMA InitCares == Init => CareInv
<1> SUFFICES ASSUME Init PROVE CareInv
  OBVIOUS
<1>1. /\ table.join_set = {} /\ table.live_tasks = 0
      /\ stack = <<StartFrame>>
  BY DEF Init, InitialTable
<1>2. CountedIds(table) = {}
  BY <1>1 DEF CountedIds, Counted
<1>3. Careful(table)
  BY <1>1, <1>2, FS_EmptySet DEF Careful, LiveCovered, OrphansAborted
<1>4. Top = StartFrame /\ Below = <<>>
  BY <1>1 DEF Top, Below
<1> QED
  BY <1>1, <1>3, <1>4 DEF CareInv, AbortedUnder, StartFrame

\* The invariant holds in every reachable state.
THEOREM CareTheorem == Spec => []CareInv
  BY InitCares, NextCares, InvTheorem, PTL DEF Spec

\* OneForAll restarts never overlap old and new tasks.
THEOREM GroupRestartTheorem == Spec => GroupRestartIsClean
<1>1. Inv /\ CareInv /\ [Next]_vars =>
        [table.group_cancelled /\ ~table'.group_cancelled =>
           \A t \in table.join_set : t.aborted /\ ~IsCurrent(table, t)]_vars
  BY NextCares DEF GroupSafe
<1> QED
  BY <1>1, CareTheorem, InvTheorem, PTL DEF Spec, GroupRestartIsClean

\* Only the natural exit of run returns Completed or Failed.
LEMMA NaturalExitOnly ==
  ASSUME result = "none", result' \in {"Completed", "Failed"}, Next
  PROVE  NaturalExit
<1>1. \A r, st, s, a : Finish(r, st, s, a) => result' = r
  BY DEF Finish
<1>2. \A s : Panic(s) => result' = "Panicked"
  BY <1>1 DEF Panic
<1>3. \A err, s, frames :
        Raise(err, s, frames) => UNCHANGED result \/ result' = err
  BY <1>1 DEF Raise, control
<1>4. \A t : HandleJoinedChild(t) =>
               UNCHANGED result \/ result' = "RestartIntensityExceeded"
  BY <1>3 DEF HandleJoinedChild, ScheduleRestart, control
<1>5. ReceiveCommand \/ ShutdownAll => UNCHANGED result
  BY DEF ReceiveCommand, ShutdownAll, BeginDrain
<1>6. DelayOver => UNCHANGED result \/ result' = "Panicked"
  BY <1>2 DEF DelayOver, OneForOneRestart, OneForAllRestart, BeginDrain,
              control
<1>7. DrainOk \/ DrainErr =>
        UNCHANGED result \/ result' \in {"Shutdown", "ShutdownTimedOut"}
  BY <1>1, <1>3 DEF DrainOk, DrainErr, control
<1>8. DrainRest =>
        UNCHANGED result \/ result' \in {"Shutdown", "ShutdownTimedOut"}
  BY <1>7 DEF DrainRest, control
<1>9. ~Delay
  BY <1>5, <1>6
     DEF Delay, YieldShutdown, YieldChecked, PollCommand, PollDrained,
         DelayShutdown, DelayCommand, DelayElapsed, control
<1>10. ~Removal
  BY <1>4, <1>5
     DEF Removal, RemovalDone, RemovalShutdown, RemovalJoin, RemovalNoTasks,
         RemovalDeadline, DetachJoin, Detached, control
<1>11. ~Drain
  BY <1>7, <1>8
     DEF Drain, DrainReadyJoin, DrainAborted, DrainWaitJoin, DrainWaitOver,
         DrainFinal, control
<1>12. ~Environment /\ ~Terminated
  BY EnvironmentKeepsStack DEF Terminated, vars
<1>13. Run => NaturalExit
  BY <1>4, <1>5
     DEF Run, RunStart, RunShutdown, RunCommand, RunJoin, control
<1> QED
  BY <1>9, <1>10, <1>11, <1>12, <1>13 DEF Next, SupervisorStep

\* A natural exit leaves no child behind.
THEOREM NaturalExitTheorem == Spec => NaturalExitIsComplete
<1>1. ASSUME Inv, CareInv, NaturalExit
      PROVE  \A t \in table.join_set : t.status # "Running" \/ t.aborted
  <2>1. CASE Exhausted
    BY <1>1, <2>1, NothingCounted DEF Exhausted, Inv, CareInv, Careful
  <2>2. CASE table.join_set = {}
    BY <2>2
  <2> QED
    BY <1>1, <2>1, <2>2 DEF NaturalExit
<1>2. Inv /\ CareInv /\ [Next]_vars =>
        [result = "none" /\ result' \in {"Completed", "Failed"} =>
           \A t \in table.join_set : t.status # "Running" \/ t.aborted]_vars
  BY <1>1, NaturalExitOnly
<1> QED
  BY <1>2, CareTheorem, InvTheorem, PTL DEF Spec, NaturalExitIsComplete

-----------------------------------------------------------------------------
(* OneForOne: nobody is told to stop by mistake.                           *)

\* No running child is disturbed, and a task that is spawned is not, either.
Tender(s) == Undisturbed(s, {}) /\ ~s.group_cancelled

\* While run goes on, a running child is disturbed only by the removal that
\* detaches it, the group token is cancelled only by the shutdown, and no
\* child counts as running in its drain.
TenderInv ==
  result = "none" =>
    /\ Undisturbed(table, Detaching)
    /\ table.group_cancelled => stack # <<>> /\ Top.kind = "drain"
    /\ stack # <<>> /\ Top.kind = "drain" => RunningKeys(table) = {}

\* The stack after a step: handlers that are all calm, ...
LEMMA TenderCalm ==
  ASSUME Tender(table'), stack' \in Seq(CalmFrames)
  PROVE  TenderInv'
<1>1. CASE stack' = <<>>
  BY <1>1 DEF TenderInv, Tender, Detaching
<1>2. CASE stack' # <<>>
  <2>1. Top' \in CalmFrames
    BY <1>2 DEF Top
  <2>2. /\ Top'.kind # "drain"
        /\ Top'.kind = "remove" => Top'.phase = "await"
    BY <2>1 DEF CalmFrames
  <2> QED
    BY <2>2 DEF TenderInv, Tender, Detaching
<1> QED
  BY <1>1, <1>2

\* ... a delay or a removal over them, ...
LEMMA TenderPushed ==
  ASSUME ~table'.group_cancelled, NEW f \in Frames,
         NEW frames \in Seq(CalmFrames), stack' = <<f>> \o frames,
         f.kind # "drain",
         IF f.kind = "remove" /\ f.phase = "detach"
         THEN Undisturbed(table', {f.key}) ELSE Undisturbed(table', {})
  PROVE  TenderInv'
<1>1. stack' # <<>> /\ Head(stack') = f
  OBVIOUS
<1> QED
  BY <1>1 DEF TenderInv, Detaching, Top

\* ... or a drain.
LEMMA TenderDrain ==
  ASSUME RunningKeys(table') = {}, NEW f, NEW frames \in Seq(CalmFrames),
         stack' = <<f>> \o frames, f.kind = "drain"
  PROVE  TenderInv'
<1>1. stack' # <<>> /\ Head(stack') = f
  OBVIOUS
<1>2. \A X : Undisturbed(table', X)
  BY DEF Undisturbed, Runs, IsCurrent, RunningKeys
<1> QED
  BY <1>1, <1>2 DEF TenderInv, Top

\* A calm handler finds a tender table.
LEMMA TenderHere ==
  ASSUME Inv, TenderInv, result = "none",
         \/ stack = <<>>
         \/ stack # <<>> /\ Top.kind \in {"start", "delay"}
         \/ stack # <<>> /\ Top.kind = "remove" /\ Top.phase = "await"
  PROVE  Tender(table)
  BY DEF TenderInv, Tender, Detaching

\* A table that gently follows a tender one is tender.
LEMMA TenderGentle ==
  ASSUME NEW s, Tender(s), NEW r, Gentle(s, r),
         r.group_cancelled = s.group_cancelled
  PROVE  Tender(r)
  BY GentleKeeps DEF Tender

\* run returns, or an error ends a suspended removal.
LEMMA FinishTender ==
  ASSUME NEW r, r # "none", NEW st, NEW s, NEW answer,
         Finish(r, st, s, answer)
  PROVE  TenderInv'
  BY DEF Finish, TenderInv

\* An error of a handler goes to the removal below it, or ends run.
LEMMA RaiseTender ==
  ASSUME NEW err, err # "none", NEW s, Tender(s),
         NEW frames \in Seq(CalmFrames), Raise(err, s, frames)
  PROVE  TenderInv'
<1>1. CASE frames = <<>>
  BY <1>1, FinishTender DEF Raise
<1>2. CASE frames # <<>>
  <2>1. table' = s /\ stack' = Tail(frames) /\ Tail(frames) \in Seq(CalmFrames)
    BY <1>2 DEF Raise
  <2> QED
    BY <2>1, TenderCalm
<1> QED
  BY <1>1, <1>2

\* shutdown_all.
LEMMA ShutdownAllTender ==
  ASSUME Inv, stack \in Seq(CalmFrames), ShutdownAll
  PROVE  TenderInv'
<1> DEFINE s == CancelRunningChildren(table)
           grace == ActiveKeys(s) \ AbortModeKeys(s) # {}
           f == DrainFrame("Shutdown", "abort", grace, FALSE)
<1>1. TableInv(s) /\ RunningKeys(s) = {}
  BY CancelRunningKeeps, CancelRunningSteps DEF Inv
<1>2. table' = AbortChildren(s, AbortModeKeys(s)) /\ stack' = <<f>> \o stack
  BY DEF ShutdownAll, BeginDrain
<1>3. f.kind = "drain"
  BY DEF DrainFrame
<1> HIDE DEF s, f
<1>4. table'.children = s.children
  BY <1>1, <1>2, AbortChildrenSteps
<1>5. RunningKeys(table') = {}
  BY <1>1, <1>4 DEF RunningKeys, Occupied
<1> QED
  BY <1>2, <1>3, <1>5, TenderDrain

\* handle_joined_child.
LEMMA HandleJoinedChildTender ==
  ASSUME Inv, Tender(table), stack \in Seq(CalmFrames),
         NEW t \in table.join_set, HandleJoinedChild(t)
  PROVE  TenderInv'
<1> DEFINE s == JoinChild(table, t)
<1>1. TableInv(table) /\ t \in Task
  BY DEF Inv, TableInv, TableTypeOK
<1>2. /\ TableInv(s) /\ Occupied(s) = Occupied(table) /\ Tender(s)
      /\ IsCurrent(table, t) => AbortedUnder(s, {t.key})
  BY <1>1, JoinKeeps, JoinSteps, TenderGentle
     DEF JoinChild, Occupied, TableInv, TableTypeOK, TableFields
<1> HIDE DEF s
<1>3. CASE table' = s /\ UNCHANGED stack
  BY <1>2, <1>3, TenderCalm
<1>4. CASE /\ IsCurrent(table, t) /\ table' = FinalizeRemoved(s, t.key)
           /\ UNCHANGED stack
  <2>1. t.key \in Occupied(s)
    BY <1>2, <1>4 DEF IsCurrent
  <2>2. Tender(table')
    BY <1>2, <1>4, <2>1, FinalizeSteps, TenderGentle
  <2> QED
    BY <1>4, <2>2, TenderCalm
<1>5. CASE table' = RecordTerminal(s, t) /\ UNCHANGED stack
  <2>1. Tender(table')
    BY <1>2, <1>5, InPlaceSteps, TenderGentle
  <2> QED
    BY <1>5, <2>1, TenderCalm
<1>6. CASE ScheduleRestart(s, t.key)
  <2> DEFINE recorded == RecordRestart(s, t.key)
             phase == IF recorded.children[t.key].id \in ZeroDelay
                      THEN "yield" ELSE "timer"
             f == DelayFrame(t.key, phase)
  <2>1. Tender(recorded)
    BY <1>2, InPlaceSteps, TenderGentle
  <2>2. f \in Frames /\ f.kind = "delay"
    <3>1. t.key \in Nat
      BY <1>1 DEF Task
    <3> QED
      BY <3>1, NewFrameTypes DEF DelayFrame
  <2>3. \/ table' = recorded /\ stack' = <<f>> \o stack
        \/ Raise("RestartIntensityExceeded", recorded, stack)
    BY <1>6 DEF ScheduleRestart
  <2> HIDE DEF recorded, f
  <2>4. CASE table' = recorded /\ stack' = <<f>> \o stack
    BY <2>1, <2>2, <2>4, TenderPushed DEF Tender
  <2> QED
    BY <2>1, <2>3, <2>4, RaiseTender
<1> QED
  BY <1>3, <1>4, <1>5, <1>6 DEF HandleJoinedChild, s

\* The command arm of the select loops.
LEMMA ReceiveCommandTender ==
  ASSUME Inv, Tender(table), stack \in Seq(CalmFrames), ReceiveCommand
  PROVE  TenderInv'
<1>1. TableInv(table)
  BY DEF Inv
<1>2. CASE UNCHANGED <<table, stack>>
  BY <1>2, TenderCalm
<1>3. ASSUME NEW c \in Clients, AddChild(c)
      PROVE  TenderInv'
  <2> DEFINE id == commands[c].id
             s == InsertChild(table, id)
             k == NextKey(table)
  <2>1. id \in Ids
    BY DEF Inv, ControlTypes, Commands
  <2>2. CASE AddReply(id) = "Ok"
    <3>1. id \notin DOMAIN table.children_by_id
      BY <2>2 DEF AddReply
    <3>2. TableInv(s) /\ {k} \in SUBSET Occupied(s) /\ Tender(s)
      BY <1>1, <2>1, <3>1, InsertKeeps, InsertSteps, TenderGentle
    <3>3. table' = SpawnChildren(s, {k}) /\ UNCHANGED stack
      BY <1>3, <2>2 DEF AddChild
    <3> HIDE DEF s, k
    <3>4. Tender(table')
      BY <3>2, <3>3, SpawnSteps DEF Tender
    <3> QED
      BY <3>3, <3>4, TenderCalm
  <2>3. CASE AddReply(id) # "Ok"
    BY <1>2, <1>3, <2>3 DEF AddChild
  <2> QED
    BY <2>2, <2>3
<1>4. ASSUME NEW c \in Clients, RemoveChild(c)
      PROVE  TenderInv'
  <2> DEFINE id == commands[c].id
             key == table.children_by_id[id]
             marked == MarkRemoving(table, key)
  <2>1. ASSUME RemoveRefusal(id) = "none"
        PROVE  /\ key \in Occupied(table) /\ key \in Nat
               /\ TableInv(marked) /\ key \in Occupied(marked)
               /\ Tender(marked) /\ {key} \cap RunningKeys(marked) = {}
    <3>1. id \in DOMAIN table.children_by_id
      BY <2>1 DEF RemoveRefusal
    <3>2. key \in Occupied(table) /\ key \in Nat
      BY <1>1, <3>1 DEF TableInv, IndexOK, TableTypeOK
    <3> HIDE DEF key
    <3> QED
      BY <1>1, <3>2, MarkRemovingKeeps, InPlaceSteps, TenderGentle
  <2>2. CASE /\ RemoveRefusal(id) = "none" /\ ~IsActive(table.children[key])
             /\ table' = FinalizeRemoved(marked, key)
             /\ UNCHANGED stack
    <3>1. AbortedUnder(marked, {key})
      <4> DEFINE e == table.children[key]
      <4>1. key \in Occupied(table) /\ TasksOK(table)
        BY <1>1, <2>1, <2>2 DEF TableInv
      <4>2. ~e.handle
        BY <2>2, <4>1 DEF TasksOK
      <4> HIDE DEF key
      <4>3. \A t \in table.join_set : t.key = key => ~IsCurrent(table, t)
        BY <4>1, <4>2 DEF TasksOK, IsCurrent
      <4>4. AbortedUnder(table, {key})
        BY <4>3 DEF AbortedUnder
      <4> QED
        BY <1>1, <4>4, InPlaceSteps, FollowsKeeps
    <3> HIDE DEF key, marked
    <3>2. Tender(table')
      BY <2>1, <2>2, <3>1, FinalizeSteps, TenderGentle
    <3> QED
      BY <2>2, <3>2, TenderCalm
  <2>3. CASE /\ RemoveRefusal(id) = "none"
             /\ table' = AbortChildren(marked, {key})
             /\ stack' = <<RemoveFrame(key, c, "detach")>> \o stack
    <3> DEFINE f == RemoveFrame(key, c, "detach")
    <3>1. /\ f \in Frames /\ f.kind = "remove" /\ f.phase = "detach"
          /\ f.key = key
      BY <2>1, <2>3, NewFrameTypes DEF RemoveFrame
    <3> HIDE DEF key, marked
    <3>2. Undisturbed(table', {key}) /\ ~table'.group_cancelled
      BY <2>1, <2>3, AbortChildrenSteps DEF Tender
    <3> HIDE DEF f
    <3> QED
      BY <2>3, <3>1, <3>2, TenderPushed DEF f
  <2>4. CASE /\ RemoveRefusal(id) = "none"
             /\ table' = CancelChild(marked, key)
             /\ stack' = <<RemoveFrame(key, c, "await")>> \o stack
    <3> DEFINE f == RemoveFrame(key, c, "await")
    <3>1. /\ f \in Frames /\ f.kind = "remove" /\ f.phase = "await"
      BY <2>1, <2>4, NewFrameTypes DEF RemoveFrame
    <3> HIDE DEF key, marked
    <3> DEFINE T == {t \in marked.join_set : HeldBy(marked, t, {key})}
    <3>2. \A t \in T : ~Runs(marked, t)
      BY <2>1, <2>4 DEF HeldBy, Runs, RunningKeys, IsCurrent
    <3>3. table' = CancelTasks(marked, T)
      BY <2>4 DEF CancelChild
    <3> HIDE DEF T
    <3>4. Tender(table')
      BY <2>1, <2>4, <3>2, <3>3, SignalSteps, TenderGentle
    <3> HIDE DEF f
    <3> QED
      BY <2>4, <3>1, <3>4, TenderPushed DEF f, Tender
  <2> QED
    BY <1>2, <1>4, <2>2, <2>3, <2>4 DEF RemoveChild
<1>5. queue # <<>> => Head(queue) \in Clients
  BY DEF Inv, ControlTypes
<1> QED
  BY <1>2, <1>3, <1>4, <1>5 DEF ReceiveCommand

\* The start of run and its select loop.
LEMMA RunTender ==
  ASSUME Inv, CareInv, TenderInv, Run
  PROVE  TenderInv'
<1>1. TableInv(table)
  BY DEF Inv
<1>2. CASE RunStart
  <2>1. result = "none" /\ stack # <<>> /\ Top.kind = "start"
    BY <1>2 DEF RunStart, At
  <2>2. Tender(table) /\ Below \in Seq(CalmFrames)
    BY <2>1, TenderHere DEF CareInv
  <2>3. table.child_order \in SUBSET Occupied(table)
    BY <1>1 DEF TableInv, IndexOK
  <2>4. /\ table' = SpawnChildren(table, table.child_order)
        /\ stack' = Below
    BY <1>2 DEF RunStart
  <2>5. Tender(table')
    BY <1>1, <2>2, <2>3, <2>4, SpawnSteps DEF Tender
  <2> QED
    BY <2>2, <2>4, <2>5, TenderCalm
<1>3. CASE NaturalExit
  BY <1>3, FinishTender DEF NaturalExit
<1>4. CASE RunShutdown \/ RunCommand \/ RunJoin
  <2>1. stack = <<>> /\ result = "none"
    BY <1>4 DEF RunShutdown, RunCommand, RunJoin, AtSelect, Idle
  <2>2. Tender(table) /\ stack \in Seq(CalmFrames)
    BY <2>1, TenderHere, CalmHere
  <2> QED
    BY <1>4, <2>2, ShutdownAllTender, ReceiveCommandTender,
       HandleJoinedChildTender
       DEF RunShutdown, RunCommand, RunJoin, Finished
<1> QED
  BY <1>2, <1>3, <1>4 DEF Run

\* wait_for_restart_delay, and the restart of one child.
LEMMA DelayTender ==
  ASSUME Strategy = "OneForOne", Inv, CareInv, TenderInv, Delay
  PROVE  TenderInv'
<1>1. result = "none" /\ stack # <<>> /\ Top.kind = "delay"
  BY DEF Delay, YieldShutdown, YieldChecked, PollCommand, PollDrained,
         DelayShutdown, DelayCommand, DelayElapsed, At
<1>2. /\ stack \in Seq(CalmFrames) /\ Below \in Seq(CalmFrames)
      /\ Tender(table) /\ TableInv(table)
  BY <1>1, CalmHere, TenderHere DEF CareInv, Inv
<1>3. CASE YieldShutdown \/ DelayShutdown
  BY <1>2, <1>3, ShutdownAllTender DEF YieldShutdown, DelayShutdown
<1>4. CASE PollCommand \/ DelayCommand
  BY <1>2, <1>4, ReceiveCommandTender DEF PollCommand, DelayCommand
<1>5. CASE PollDrained \/ DelayElapsed
  <2>1. OneForOneRestart(Top.key)
    BY <1>5 DEF PollDrained, DelayElapsed, DelayOver
  <2>2. CASE Panic(table)
    BY <2>2, FinishTender DEF Panic
  <2>3. CASE ~Panic(table)
    <3>1. /\ {Top.key} \in SUBSET Occupied(table) /\ stack' = Below
          /\ table' = SpawnChildren(table, {Top.key}) \/ table' = table
      BY <2>1, <2>3 DEF OneForOneRestart
    <3>2. Tender(table')
      BY <1>2, <3>1, SpawnSteps DEF Tender
    <3> QED
      BY <1>2, <3>1, <3>2, TenderCalm
  <2> QED
    BY <2>2, <2>3
<1>6. CASE YieldChecked
  <2> DEFINE f == DelayFrame(Top.key, "poll")
  <2>1. f \in Frames /\ f.kind = "delay"
    <3>1. Top.key \in Nat
      BY <1>1, StackTypes, FrameTypes DEF Inv
    <3> QED
      BY <3>1, NewFrameTypes DEF DelayFrame
  <2>2. stack' = <<f>> \o Below /\ table' = table
    BY <1>6 DEF YieldChecked
  <2> HIDE DEF f
  <2> QED
    BY <1>2, <2>1, <2>2, TenderPushed DEF Tender
<1> QED
  BY <1>3, <1>4, <1>5, <1>6 DEF Delay

\* await_child_removal and abort_and_detach_child.
LEMMA RemovalTender ==
  ASSUME Inv, CareInv, TenderInv, Removal
  PROVE  TenderInv'
<1>1. TableInv(table)
  BY DEF Inv
<1>2. /\ result = "none" /\ stack # <<>> /\ Top.kind = "remove"
      /\ Below \in Seq(CalmFrames) /\ Top \in Frames
  BY StackTypes
     DEF Removal, RemovalDone, RemovalShutdown, RemovalJoin, RemovalNoTasks,
         RemovalDeadline, DetachJoin, Detached, AwaitingRemoval, At, CareInv,
         Inv
<1>3. ASSUME Top.phase = "await"
      PROVE  Tender(table) /\ stack \in Seq(CalmFrames)
  BY <1>2, <1>3, TenderHere, CalmHere
<1>4. ASSUME Top.phase = "detach"
      PROVE  Undisturbed(table, {Top.key}) /\ ~table.group_cancelled
  BY <1>2, <1>4 DEF TenderInv, Detaching
<1>5. CASE RemovalDone \/ RemovalNoTasks
  <2>1. table' = table /\ stack' = Below /\ Top.phase = "await"
    BY <1>5 DEF RemovalDone, RemovalNoTasks, ReplyToTop, AwaitingRemoval, At
  <2> QED
    BY <1>2, <1>3, <2>1, TenderCalm
<1>6. CASE RemovalShutdown \/ RemovalJoin
  <2>1. Top.phase = "await"
    BY <1>6 DEF RemovalShutdown, RemovalJoin, AwaitingRemoval, At
  <2> QED
    BY <1>3, <1>6, <2>1, ShutdownAllTender, HandleJoinedChildTender
       DEF RemovalShutdown, RemovalJoin, Finished
<1>7. CASE RemovalDeadline
  <2> DEFINE f == [Top EXCEPT !.phase = "detach"]
  <2>1. /\ f \in Frames /\ f.kind = "remove" /\ f.phase = "detach"
        /\ f.key = Top.key
    <3>1. Top \in [kind : {"remove"}, phase : {"await", "detach"}, key : Nat,
                   client : Clients]
      BY <1>2 DEF Frames, StartFrame
    <3>2. f.kind = "remove" /\ f.phase = "detach" /\ f.key = Top.key
      BY <3>1
    <3> QED
      BY <1>2, <3>2, FrameTypes
  <2>2. /\ stack' = <<f>> \o Below /\ Top.phase = "await"
        /\ table' = AbortChildren(table, {Top.key})
    BY <1>7 DEF RemovalDeadline, AwaitingRemoval, At
  <2> HIDE DEF f
  <2>3. Undisturbed(table', {f.key}) /\ ~table'.group_cancelled
    BY <1>1, <1>3, <2>1, <2>2, AbortChildrenSteps DEF Tender
  <2> QED
    BY <1>2, <2>1, <2>2, <2>3, TenderPushed
<1>8. CASE DetachJoin
  <2>1. PICK t \in table.join_set : table' = JoinChild(table, t)
    BY <1>8 DEF DetachJoin, Finished
  <2>2. stack' = stack /\ Top.phase = "detach"
    BY <1>8 DEF DetachJoin, At
  <2>3. Undisturbed(table', {Top.key}) /\ ~table'.group_cancelled
    BY <1>1, <1>4, <2>1, <2>2, JoinSteps, GentleKeeps
  <2> QED
    BY <1>2, <2>2, <2>3 DEF TenderInv, Detaching, Top
<1>9. CASE Detached
  <2>1. stack' = Below /\ Top.phase = "detach"
    BY <1>9 DEF Detached, ReplyToTop, At
  <2>2. Undisturbed(table', {Top.key}) /\ ~table'.group_cancelled
    <3>1. CASE Top.key \in Occupied(table)
      <4>1. AbortedUnder(table, {Top.key})
        BY <1>2, <2>1 DEF CareInv, Detaching
      <4>2. table' = FinalizeRemoved(table, Top.key)
        BY <1>9, <3>1 DEF Detached
      <4> QED
        BY <1>1, <1>4, <2>1, <3>1, <4>1, <4>2, FinalizeSteps, GentleKeeps
    <3>2. CASE Top.key \notin Occupied(table)
      <4>1. table' = table
        BY <1>9, <3>2 DEF Detached
      <4> QED
        BY <1>4, <2>1, <4>1
    <3> QED
      BY <3>1, <3>2
  <2>3. Top.key \notin Occupied(table')
    <3>1. CASE Top.key \in Occupied(table)
      <4>1. table' = FinalizeRemoved(table, Top.key)
        BY <1>9, <3>1 DEF Detached
      <4>2. table'.children =
              [k \in Occupied(table) \ {Top.key} |-> table.children[k]]
        BY <1>1, <4>1
           DEF FinalizeRemoved, TableInv, TableTypeOK, TableFields
      <4> QED
        BY <4>2 DEF Occupied
    <3>2. CASE Top.key \notin Occupied(table)
      BY <1>9, <3>2 DEF Detached
    <3> QED
      BY <3>1, <3>2
  <2>4. Tender(table')
    BY <2>2, <2>3 DEF Tender, Undisturbed, Runs, IsCurrent
  <2> QED
    BY <1>2, <2>1, <2>4, TenderCalm
<1> QED
  BY <1>5, <1>6, <1>7, <1>8, <1>9 DEF Removal

\* The shutdown drain, the only one of a OneForOne supervisor.
LEMMA DrainTender ==
  ASSUME Strategy = "OneForOne", Inv, CareInv, TenderInv, Drain
  PROVE  TenderInv'
<1>1. /\ result = "none" /\ stack # <<>> /\ Top.kind = "drain"
      /\ Top \in Frames
  BY StackTypes
     DEF Drain, DrainReadyJoin, DrainAborted, DrainWaitJoin, DrainWaitOver,
         DrainFinal, At, Inv
<1>2. /\ TableInv(table) /\ RunningKeys(table) = {}
      /\ Below \in Seq(CalmFrames) /\ Top.reason # "GroupRestart"
      /\ stack = <<Top>> \o Below
  BY <1>1 DEF Inv, CareInv, TenderInv, Top, Below, ControlTypes
<1>3. ASSUME DrainOk \/ DrainErr
      PROVE  TenderInv'
  BY <1>2, <1>3, FinishTender DEF DrainOk, DrainErr
<1>4. ASSUME DrainRest
      PROVE  TenderInv'
  <2>1. CASE ActiveKeys(table) = {}
    BY <1>3, <1>4, <2>1 DEF DrainRest
  <2>2. CASE ActiveKeys(table) # {}
    <3> DEFINE b == CooperativeKeys(table) # {}
               f == [Top EXCEPT !.phase = "final", !.timed_out = b]
    <3>1. f.kind = "drain"
      BY <1>1, DrainFrameSame
    <3>2. stack' = <<f>> \o Below
          /\ table' = AbortChildren(table, ActiveKeys(table))
      BY <1>4, <2>2 DEF DrainRest
    <3> HIDE DEF f
    <3>3. table'.children = table.children
      BY <1>2, <3>2, AbortChildrenSteps
    <3>4. RunningKeys(table') = {}
      BY <1>2, <3>3 DEF RunningKeys, Occupied
    <3> QED
      BY <1>2, <3>1, <3>2, <3>4, TenderDrain
  <2> QED
    BY <2>1, <2>2
<1>5. CASE DrainReadyJoin \/ DrainWaitJoin
  <2>1. PICK t \in table.join_set : table' = DrainedJoin(table, t, Top.reason)
    BY <1>5 DEF DrainReadyJoin, DrainWaitJoin, Finished
  <2>2. table' = JoinChild(table, t)
    BY <1>2, <2>1 DEF DrainedJoin
  <2>3. RunningKeys(table') = {}
    BY <1>2, <2>2, JoinSteps
  <2>4. stack' = <<Top>> \o Below
    BY <1>2, <1>5 DEF DrainReadyJoin, DrainWaitJoin
  <2> QED
    BY <1>1, <1>2, <2>3, <2>4, TenderDrain
<1>6. CASE DrainAborted
  <2>1. CASE /\ stack' = <<[Top EXCEPT !.phase = "wait"]>> \o Below
             /\ UNCHANGED table
    <3> DEFINE f == [Top EXCEPT !.phase = "wait"]
    <3>1. f.kind = "drain"
      BY <1>1, DrainFrameSame
    <3>2. stack' = <<f>> \o Below
      BY <2>1
    <3> HIDE DEF f
    <3> QED
      BY <1>2, <2>1, <3>1, <3>2, TenderDrain
  <2> QED
    BY <1>3, <1>4, <1>6, <2>1 DEF DrainAborted
<1>7. CASE DrainWaitOver
  BY <1>4, <1>7 DEF DrainWaitOver
<1>8. CASE DrainFinal
  BY <1>3, <1>8 DEF DrainFinal
<1> QED
  BY <1>5, <1>6, <1>7, <1>8 DEF Drain

\* The children and the clients.
LEMMA EnvironmentTender ==
  ASSUME Inv, TenderInv, Environment
  PROVE  TenderInv'
<1>1. TableInv(table) /\ stack' = stack /\ result' = result
  BY EnvironmentKeepsStack DEF Inv
<1>2. Top' = Top /\ Detaching' = Detaching
  BY <1>1 DEF Top, Detaching
<1>3. ASSUME NEW t \in table.join_set, NEW status, SetStatus(t, status)
      PROVE  TenderInv'
  <2>1. /\ Gentle(table, table') /\ table'.children = table.children
        /\ table'.group_cancelled = table.group_cancelled
    BY <1>1, <1>3, StatusSteps DEF SetStatus
  <2>2. RunningKeys(table') = RunningKeys(table)
    BY <2>1 DEF RunningKeys, Occupied
  <2> QED
    BY <1>1, <1>2, <2>1, <2>2, GentleKeeps DEF TenderInv
<1>4. CASE table' = table
  BY <1>1, <1>2, <1>4 DEF TenderInv
<1> QED
  BY <1>3, <1>4 DEF Environment, ChildExits, ChildAborted, RequestShutdown,
                    DropHandles, Send

\* Nobody is told to stop by mistake: a child that a OneForOne supervisor
\* believes to be running has a live token, and is aborted only by a removal
\* that still holds its slot.
THEOREM UndisturbedTheorem ==
  ASSUME Strategy = "OneForOne"
  PROVE  Spec => []RunningIsUndisturbed
<1>1. Init => TenderInv
  <2> SUFFICES ASSUME Init PROVE TenderInv
    OBVIOUS
  <2>1. /\ table.join_set = {} /\ ~table.group_cancelled
        /\ stack = <<StartFrame>>
    BY DEF Init, InitialTable
  <2>2. Top.kind = "start"
    BY <2>1 DEF Top, StartFrame
  <2> QED
    BY <2>1, <2>2 DEF TenderInv, Undisturbed
<1>2. Inv /\ CareInv /\ TenderInv /\ [Next]_vars => TenderInv'
  <2> SUFFICES ASSUME Inv, CareInv, TenderInv, [Next]_vars PROVE TenderInv'
    OBVIOUS
  <2>1. CASE SupervisorStep
    BY <2>1, RunTender, DelayTender, RemovalTender, DrainTender
       DEF SupervisorStep
  <2>2. CASE Environment
    BY <2>2, EnvironmentTender
  <2>3. CASE UNCHANGED vars
    BY <2>3 DEF vars, TenderInv, Detaching, Top
  <2> QED
    BY <2>1, <2>2, <2>3 DEF Next, Terminated
<1>3. TenderInv => RunningIsUndisturbed
  BY DEF TenderInv, RunningIsUndisturbed, Undisturbed, Runs, CountsAsRunning,
         Detaching, At
<1> QED
  BY <1>1, <1>2, <1>3, CareTheorem, InvTheorem, PTL DEF Spec

=============================================================================
