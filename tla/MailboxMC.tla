----------------------------- MODULE MailboxMC -----------------------------
(* Small instances of Mailbox for TLC: one sender per method. *)
EXTENDS Mailbox, TLC

CONSTANTS r1, r2, plain, ready, actor, try

Operations ==
  [s \in Senders |-> CASE s \in {ready, actor} -> "send_when_ready"
                       [] s = try -> "try_send"
                       [] OTHER -> "send"]

Calls == Permutations(Runs)

=============================================================================
