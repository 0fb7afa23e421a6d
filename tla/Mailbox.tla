------------------------------- MODULE Mailbox -------------------------------
(***************************************************************************)
(* The mailbox of one RunnableActor over its runs                          *)
(* (crates/tokio-actor/src/actor_set.rs, binding.rs), and the handles that *)
(* send to it (ingress.rs, context.rs).                                    *)
(*                                                                         *)
(* Each call of run_until is a member of Runs.  It creates a mailbox,      *)
(* binds it, and spawns the task of the actor, which it then joins.  Calls *)
(* may overlap, and the future of a call may be dropped at its await, as   *)
(* the abort of a supervised child does: AbortOnDrop gives its JoinHandle  *)
(* away when join is first polled, so the drop detaches the task.          *)
(*                                                                         *)
(* Each sender is one call of a handle.  A sender holds the MailboxRef it  *)
(* cloned from the binding while it waits for capacity, and, if it finds   *)
(* that mailbox closed, while it waits for the next binding.               *)
(***************************************************************************)
EXTENDS Integers, Sequences, FiniteSets

CONSTANTS
  Runs,        \* the calls of run_until
  None,        \* no run
  Senders,     \* the calls of a handle
  Op,          \* sender -> the method it calls
  Oversized,   \* the senders whose envelope is above max_envelope_bytes
  FromActor,   \* the senders that are actors, with a shutdown token
  Capacity     \* mailbox_capacity

ASSUME MailboxAssumption ==
  /\ None \notin Runs
  /\ Op \in [Senders -> {"send", "send_when_ready", "try_send", "blocking_send"}]
  /\ Oversized \subseteq Senders
  /\ FromActor \subseteq Senders
  /\ Capacity \in Nat \ {0}

VARIABLES
  running,        \* the AtomicBool of the actor
  bound,          \* whose mailbox the binding shows
  source_dropped, \* no RunnableActor is left, and with it no watch sender
  phase,          \* where each call of run_until is
  task,           \* the task each call has spawned
  open,           \* whether the receiver of each mailbox exists
  cancelled,      \* actor_shutdown of each call
  accepted,       \* the envelopes that entered each mailbox, in order
  received,       \* how many of them the actor has taken out
  sender,         \* where each sender is
  held            \* the mailbox each sender holds

runVars == <<running, phase>>
mailboxVars == <<open, accepted, received>>
senderVars == <<sender, held>>
vars == <<running, bound, source_dropped, phase, task, open, cancelled,
          accepted, received, sender, held>>

Init ==
  /\ running = FALSE
  /\ bound = None
  /\ source_dropped = FALSE
  /\ phase = [r \in Runs |-> "idle"]
  /\ task = [r \in Runs |-> "none"]
  /\ open = [r \in Runs |-> FALSE]
  /\ cancelled = [r \in Runs |-> FALSE]
  /\ accepted = [r \in Runs |-> <<>>]
  /\ received = [r \in Runs |-> 0]
  /\ sender = [s \in Senders |-> "new"]
  /\ held = [s \in Senders |-> None]

-----------------------------------------------------------------------------
(* run_until.                                                              *)

\* Mutation: the flag is not looked at.
StartUnchecked(r) ==
  /\ phase[r] = "idle" /\ ~source_dropped
  /\ running' = TRUE
  /\ phase' = [phase EXCEPT ![r] = "started"]
  /\ UNCHANGED <<bound, source_dropped, task, cancelled, mailboxVars,
                 senderVars>>

\* ActiveActorRun::start: compare_exchange.
Start(r) ==
  /\ phase[r] = "idle" /\ ~source_dropped
  /\ running' = TRUE
  /\ phase' = [phase EXCEPT ![r] = IF running THEN "refused" ELSE "started"]
  /\ UNCHANGED <<bound, source_dropped, task, cancelled, mailboxVars,
                 senderVars>>

\* The mailbox is created and bound, and the actor spawned.
Bind(r) ==
  /\ phase[r] = "started"
  /\ bound' = r
  /\ open' = [open EXCEPT ![r] = TRUE]
  /\ task' = [task EXCEPT ![r] = "running"]
  /\ phase' = [phase EXCEPT ![r] = "active"]
  /\ UNCHANGED <<running, source_dropped, cancelled, accepted, received,
                 senderVars>>

\* The shutdown future given to run_until resolves.
Shutdown(r) ==
  /\ phase[r] = "active" /\ task[r] # "ended" /\ ~cancelled[r]
  /\ cancelled' = [cancelled EXCEPT ![r] = TRUE]
  /\ UNCHANGED <<bound, source_dropped, task, runVars, mailboxVars, senderVars>>

\* The guard of the binding is dropped ...
Unbind(r) ==
  /\ phase[r] = "active"
  /\ bound' = None
  /\ phase' = [phase EXCEPT ![r] = "unbound"]
  /\ UNCHANGED <<running, source_dropped, task, cancelled, mailboxVars,
                 senderVars>>

\* ... when the task was joined,
Joined(r) == task[r] = "ended" /\ Unbind(r)

\* or when the future of the call is dropped.
Dropped(r) == task[r] # "ended" /\ Unbind(r)

\* ActiveActorRun is dropped last.
Release(r) ==
  /\ phase[r] = "unbound"
  /\ running' = FALSE
  /\ phase' = [phase EXCEPT ![r] = "returned"]
  /\ UNCHANGED <<bound, source_dropped, task, cancelled, mailboxVars,
                 senderVars>>

\* The last RunnableActor goes away.
DropSource ==
  /\ ~source_dropped
  /\ \A r \in Runs : phase[r] \in {"idle", "refused", "returned"}
  /\ source_dropped' = TRUE
  /\ UNCHANGED <<bound, task, cancelled, runVars, mailboxVars, senderVars>>

-----------------------------------------------------------------------------
(* The task of the actor.                                                  *)

\* recv looks at the token first.
Recv(r) ==
  /\ task[r] = "running" /\ ~cancelled[r]
  /\ received[r] < Len(accepted[r])
  /\ received' = [received EXCEPT ![r] = @ + 1]
  /\ UNCHANGED <<bound, source_dropped, task, cancelled, runVars, open,
                 accepted, senderVars>>

\* The future of the actor ends, and its context is dropped with the receiver
\* and what is buffered; the blocking tasks are then waited for.
ActorReturns(r) ==
  /\ task[r] = "running"
  /\ task' = [task EXCEPT ![r] = "finishing"]
  /\ open' = [open EXCEPT ![r] = FALSE]
  /\ UNCHANGED <<bound, source_dropped, cancelled, runVars, accepted, received,
                 senderVars>>

\* An unclaimed failure of a blocking task: the future of the actor is not
\* polled again, but lives, with the receiver, until the task ends.
BlockingFails(r) ==
  /\ task[r] = "running"
  /\ task' = [task EXCEPT ![r] = "finishing"]
  /\ cancelled' = [cancelled EXCEPT ![r] = TRUE]
  /\ UNCHANGED <<bound, source_dropped, runVars, mailboxVars, senderVars>>

\* Mutation: the receiver outlives the task.
TaskEndsOpen(r) ==
  /\ task[r] = "finishing"
  /\ task' = [task EXCEPT ![r] = "ended"]
  /\ UNCHANGED <<bound, source_dropped, cancelled, runVars, mailboxVars,
                 senderVars>>

TaskEnds(r) ==
  /\ task[r] = "finishing"
  /\ task' = [task EXCEPT ![r] = "ended"]
  /\ open' = [open EXCEPT ![r] = FALSE]
  /\ UNCHANGED <<bound, source_dropped, cancelled, runVars, accepted, received,
                 senderVars>>

-----------------------------------------------------------------------------
(* The handles: IngressHandle and ActorRef.                                *)

Goes(s, where) ==
  /\ sender' = [sender EXCEPT ![s] = where]
  /\ UNCHANGED <<bound, source_dropped, task, cancelled, runVars, open,
                 received>>

\* send_when_ready waits where the others fail.
Unavailable(s) == IF Op[s] = "send_when_ready" THEN "waiting" ELSE "failed"

\* current_mailbox: a clone of what the watch shows.
Look(s) ==
  /\ sender[s] = "new"
  /\ held' = [held EXCEPT ![s] = bound]
  /\ Goes(s, IF bound = None THEN Unavailable(s) ELSE "holding")
  /\ UNCHANGED accepted

Reject(s) ==
  /\ sender[s] = "holding" /\ s \in Oversized
  /\ held' = [held EXCEPT ![s] = None]
  /\ Goes(s, "failed")
  /\ UNCHANGED accepted

Sendable(s) == sender[s] = "holding" /\ s \notin Oversized

\* Mutation: one envelope more.
RoomForOneMore(r) == Len(accepted[r]) - received[r] <= Capacity

HasRoom(r) == Len(accepted[r]) - received[r] < Capacity

\* Mutation: a retrying sender that finds the actor restarted sends again.
DeliverToSuccessor(s) ==
  /\ Sendable(s) /\ open[held[s]] /\ HasRoom(held[s])
  /\ accepted' = [accepted EXCEPT ![held[s]] = Append(@, s)]
  /\ held' = [held EXCEPT ![s] = None]
  /\ Goes(s, IF bound # held[s] THEN Unavailable(s) ELSE "ok")

\* The channel takes the envelope.
Deliver(s) ==
  /\ Sendable(s) /\ open[held[s]] /\ HasRoom(held[s])
  /\ accepted' = [accepted EXCEPT ![held[s]] = Append(@, s)]
  /\ held' = [held EXCEPT ![s] = None]
  /\ Goes(s, "ok")

\* try_send and blocking_send do not wait for capacity.
Full(s) ==
  /\ Sendable(s) /\ open[held[s]] /\ ~HasRoom(held[s])
  /\ Op[s] \in {"try_send", "blocking_send"}
  /\ held' = [held EXCEPT ![s] = None]
  /\ Goes(s, "failed")
  /\ UNCHANGED accepted

\* The receiver is gone: the channel hands the envelope back.  The closed mailbox
\* is dropped with the arm of the match, after the wait for the next binding.
Closed(s) ==
  /\ Sendable(s) /\ ~open[held[s]]
  /\ held' = IF Unavailable(s) = "waiting" THEN held ELSE [held EXCEPT ![s] = None]
  /\ Goes(s, Unavailable(s))
  /\ UNCHANGED accepted

\* wait_for_next_binding: any bound mailbox will do, the closed one, too.
WaitOver(s) ==
  /\ sender[s] = "waiting"
  /\ \/ bound # None /\ Goes(s, "new")
     \/ bound = None /\ source_dropped /\ Goes(s, "failed")
  /\ held' = [held EXCEPT ![s] = None]
  /\ UNCHANGED accepted

\* ActorContext::send_when_ready gives up when its own actor is told to stop,
\* and answers Ok.
Abandon(s) ==
  /\ s \in FromActor /\ Op[s] = "send_when_ready"
  /\ sender[s] \in {"holding", "waiting"}
  /\ held' = [held EXCEPT ![s] = None]
  /\ Goes(s, "abandoned")
  /\ UNCHANGED accepted

-----------------------------------------------------------------------------
RunUntil(r) ==
  Start(r) \/ Bind(r) \/ Shutdown(r) \/ Joined(r) \/ Dropped(r) \/ Release(r)

Actor(r) == Recv(r) \/ ActorReturns(r) \/ BlockingFails(r) \/ TaskEnds(r)

Handle(s) ==
  Look(s) \/ Reject(s) \/ Deliver(s) \/ Full(s) \/ Closed(s) \/ WaitOver(s)

Send(s) == Handle(s) \/ Abandon(s)

Next ==
  \/ \E r \in Runs : RunUntil(r) \/ Actor(r)
  \/ \E s \in Senders : Send(s)
  \/ DropSource

Spec == Init /\ [][Next]_vars

-----------------------------------------------------------------------------
(* Properties. *)

\* The variables hold what the program keeps in them, and no mailbox more than
\* its capacity, however many hold a MailboxRef; who offers an envelope holds one.
TypeOK ==
  /\ running \in BOOLEAN
  /\ bound \in Runs \cup {None}
  /\ source_dropped \in BOOLEAN
  /\ phase \in [Runs -> {"idle", "refused", "started", "active", "unbound",
                         "returned"}]
  /\ task \in [Runs -> {"none", "running", "finishing", "ended"}]
  /\ open \in [Runs -> BOOLEAN]
  /\ cancelled \in [Runs -> BOOLEAN]
  /\ accepted \in [Runs -> Seq(Senders)]
  /\ received \in [Runs -> Nat]
  /\ sender \in [Senders -> {"new", "holding", "waiting", "ok", "failed",
                             "abandoned"}]
  /\ held \in [Senders -> Runs \cup {None}]
  /\ \A r \in Runs : received[r] <= Len(accepted[r])
  /\ \A r \in Runs : Len(accepted[r]) - received[r] <= Capacity
  /\ \A s \in Senders :
       /\ sender[s] = "holding" => held[s] # None
       /\ held[s] # None => sender[s] \in {"holding", "waiting"}

\* The binding shows the mailbox of the active run, and of no other: the guard
\* of an earlier run, which clears the binding without looking at it, never
\* clears the binding of its successor.
ActiveIsBound == \A r \in Runs : phase[r] = "active" <=> bound = r

Deliveries(s) ==
  {d \in UNION {{r} \X (1..Len(accepted[r])) : r \in Runs} :
     accepted[d[1]][d[2]] = s}

\* An envelope enters one mailbox, once, if its sender is told so, and none if
\* its sender is not, over whatever restarts the sender carried it.
OneDelivery ==
  \A s \in Senders :
    Cardinality(Deliveries(s)) = IF sender[s] = "ok" THEN 1 ELSE 0

\* An envelope enters the mailbox of the run that is bound, or of one whose
\* run_until was dropped; a sender that looked at the binding earlier does not
\* reach an actor that has been joined.
DeliveryFollowsBinding ==
  [][\A r \in Runs :
       accepted'[r] # accepted[r] =>
         bound = r \/ (phase[r] \in {"unbound", "returned"}
                       /\ task[r] # "ended")]_vars

\* What AlreadyRunning says (actor_set.rs) and AbortOnDrop is for: there are
\* never two instances of one runnable actor.
OneInstance ==
  \A r, q \in Runs :
    task[r] \in {"running", "finishing"} /\ task[q] \in {"running", "finishing"}
      => r = q

=============================================================================
