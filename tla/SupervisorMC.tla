---------------------------- MODULE SupervisorMC ----------------------------
(***************************************************************************)
(* Instances of Supervisor for TLC: three children of different policies   *)
(* and shutdown modes, and a few clients with one command each.            *)
(***************************************************************************)
EXTENDS Supervisor, TLC

MCIds == {"a", "b", "c"}

MCInitial == <<"a", "b", "c">>
MCInitialTwo == <<"a", "c">>

\* a is always restarted, b never, c only after a failure.
MCRestart == [id \in MCIds |->
  CASE id = "a" -> "Permanent" [] id = "b" -> "Temporary"
    [] id = "c" -> "Transient"]

MCMode == [id \in MCIds |->
  CASE id = "a" -> "Cooperative" [] id = "b" -> "Abort"
    [] id = "c" -> "CooperativeThenAbort"]

\* The first failure is restarted, the second one exceeds the limit.
MCMaxRestarts == [id \in MCIds |-> 1]

\* Any command about any child ...
AnyRequest ==
  [c \in Clients |-> [op : {"AddChild", "RemoveChild"}, id : MCIds]]

\* ... or a removal by one client, and by another a removal or the insertion of
\* a new id or of one that was just removed ...
FewRequest ==
  [c \in {"c1", "c2"} |->
     IF c = "c1" THEN [op : {"RemoveChild"}, id : {"a", "c"}]
     ELSE [op : {"AddChild"}, id : {"a", "b"}]
          \union [op : {"RemoveChild"}, id : {"a", "c"}]]

\* ... or the four commands that recycle the slot a removal waits for.
Recycling == {"remove a", "remove b", "add a", "add b"}
RecyclingRequest ==
  [c \in Recycling |->
     {[op |-> IF c \in {"remove a", "remove b"} THEN "RemoveChild"
                                               ELSE "AddChild",
       id |-> IF c \in {"remove a", "add a"} THEN "a" ELSE "b"]}]
MCModeCooperative == [id \in MCIds |-> "Cooperative"]

\* Only c is restarted: its delay is when the slot of a or b is recycled.
MCRestartOne == [id \in MCIds |->
  IF id = "c" THEN "Transient" ELSE "Temporary"]

\* The clients are interchangeable.
ClientSymmetry == Permutations(Clients)
=============================================================================
