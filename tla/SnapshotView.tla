----------------------------- MODULE SnapshotView -----------------------------
(***************************************************************************)
(* What a view of a restarted source promises: it shows a state of the     *)
(* present owner, never an older one than it showed before, and in the end *)
(* the last one.  Nothing of an owner is shown after its end.  The view    *)
(* may skip states.                                                        *)
(*                                                                         *)
(* The nested snapshot in the row of a supervised supervisor is meant to   *)
(* be such a view (crates/tokio-supervisor/src/snapshot.rs); Nested        *)
(* implements it.                                                          *)
(***************************************************************************)
EXTENDS Integers

CONSTANTS
  Owners,   \* what can be shown, one after the other
  None      \* nothing; neither an owner nor a number

VARIABLES
  owner,    \* whose states are shown
  written,  \* the number of the last state the owner was in
  shown     \* the number of the state in view

vars == <<owner, written, shown>>

Init == owner = None /\ written = 0 /\ shown = None

\* A new owner, whether or not the one before has ended.
Begin(o) ==
  /\ owner # o
  /\ owner' = o /\ written' = 0 /\ shown' = None

Write ==
  /\ owner # None
  /\ written' = written + 1
  /\ UNCHANGED <<owner, shown>>

Show ==
  /\ owner # None /\ shown # written
  /\ shown' \in (IF shown = None THEN 0 ELSE shown + 1)..written
  /\ UNCHANGED <<owner, written>>

End ==
  /\ owner # None
  /\ owner' = None /\ written' = 0 /\ shown' = None

Next == (\E o \in Owners : Begin(o)) \/ Write \/ Show \/ End

Spec == Init /\ [][Next]_vars /\ WF_vars(Show)

=============================================================================
