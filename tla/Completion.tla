------------------------------ MODULE Completion ------------------------------
(***************************************************************************)
(* How the end of a supervisor task reaches those who wait for it          *)
(* (crates/tokio-supervisor/src/handle.rs, SupervisorHandle::wait).  The   *)
(* first call takes the JoinHandle of the task and a sender of the done    *)
(* channel out of join_state, the others wait for the channel; the task    *)
(* holds the other sender.  The future of any call may be dropped.         *)
(***************************************************************************)
EXTENDS Naturals

CONSTANT Calls   \* calls of wait; each is made once

VARIABLES
  task,   \* the task spawned by spawn_with_control
  done,   \* the value of the done channel
  join,   \* join_state: the handle and the sender are kept, taken or dropped
  wait    \* where each call is, and what it has returned

completionVars == <<task, done, join, wait>>

Returned == {"exit", "crash", "closed"}
WaitStates == {"none", "read", "join", "watch", "dropped"} \cup Returned

CompletionInit ==
  /\ task = "running"
  /\ done = "nothing"
  /\ join = "kept"
  /\ wait = [c \in Calls |-> "none"]

\* The run is over: its result is sent, then returned to the JoinHandle.
TaskEnds ==
  /\ task = "running"
  /\ task' = "ended"
  /\ done' = "exit"
  /\ UNCHANGED <<join, wait>>

\* The task panics, and drops its sender.
TaskPanics ==
  /\ task = "running"
  /\ task' = "panicked"
  /\ UNCHANGED <<done, join, wait>>

\* The value that is there at once is returned ...
Read(c) ==
  /\ wait[c] = "none"
  /\ wait' = [wait EXCEPT ![c] = IF done = "nothing" THEN "read" ELSE done]
  /\ UNCHANGED <<task, done, join>>

\* ... else the call takes what is in join_state.
Take(c) ==
  /\ wait[c] = "read"
  /\ wait' = [wait EXCEPT ![c] = IF join = "kept" THEN "join" ELSE "watch"]
  /\ join' = IF join = "kept" THEN "taken" ELSE join
  /\ UNCHANGED <<task, done>>

\* Mutation: the result of the join is not passed on.
JoinedQuietly(c) ==
  /\ wait[c] = "join" /\ task # "running"
  /\ wait' = [wait EXCEPT ![c] = IF task = "ended" THEN "exit" ELSE "crash"]
  /\ join' = "gone"
  /\ UNCHANGED <<task, done>>

\* The first call has joined the task and passes its result, or its panic, on.
Joined(c) ==
  /\ wait[c] = "join" /\ task # "running"
  /\ LET result == IF task = "ended" THEN "exit" ELSE "crash"
     IN  wait' = [wait EXCEPT ![c] = result] /\ done' = result
  /\ join' = "gone"
  /\ UNCHANGED task

\* Mutation: the end of the channel is not noticed.
WatchedValue(c) ==
  /\ wait[c] = "watch" /\ done # "nothing"
  /\ wait' = [wait EXCEPT ![c] = done]
  /\ UNCHANGED <<task, done, join>>

\* The others see the value, or that both senders are gone without one.
Watched(c) ==
  /\ wait[c] = "watch"
  /\ done # "nothing" \/ (task # "running" /\ join = "gone")
  /\ wait' = [wait EXCEPT ![c] = IF done = "nothing" THEN "closed" ELSE done]
  /\ UNCHANGED <<task, done, join>>

\* The future of a call is dropped, with what it has taken.
DropWait(c) ==
  /\ wait[c] \in {"join", "watch"}
  /\ wait' = [wait EXCEPT ![c] = "dropped"]
  /\ join' = IF wait[c] = "join" THEN "gone" ELSE join
  /\ UNCHANGED <<task, done>>

WaitPoll(c) == Read(c) \/ Take(c) \/ Joined(c) \/ Watched(c)

CompletionNext ==
  TaskEnds \/ TaskPanics \/ \E c \in Calls : WaitPoll(c) \/ DropWait(c)

CompletionSpec == CompletionInit /\ [][CompletionNext]_completionVars

-----------------------------------------------------------------------------

CompletionTypeOK ==
  /\ task \in {"running", "ended", "panicked"}
  /\ done \in {"nothing", "exit", "crash"}
  /\ join \in {"kept", "taken", "gone"}
  /\ wait \in [Calls -> WaitStates]

\* "Subsequent callers (including concurrent ones from cloned handles) receive
\* the same result" (handle.rs): whichever calls are dropped and however the task
\* ends, no two calls return different results.
WaitersAgree ==
  \A c, d \in Calls : {wait[c], wait[d]} \subseteq Returned => wait[c] = wait[d]

\* A call returns only when the task is over, and says how it ended: an exit
\* exactly if it did not panic.
WaitTellsTheEnd ==
  \A c \in Calls :
    wait[c] \in Returned => task = IF wait[c] = "exit" THEN "ended" ELSE "panicked"

=============================================================================
