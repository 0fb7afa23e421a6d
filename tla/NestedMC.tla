------------------------------- MODULE NestedMC -------------------------------
(* The instance of Nested that TLC checks. *)
EXTENDS Nested

\* The first incarnation overflows its event channel of one place; the second
\* publishes only its initial snapshot, over what the first has left behind.
MCVersions == <<2, 0>>

\* A restart may be suspended at the slot of the first, and spawn the second over it.
MCSuspended == <<1, 0>>

===============================================================================
