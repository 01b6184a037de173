------------------------------ MODULE MCMapHub ------------------------------
(* MapHub on two agents and two rooms.  Agents are interchangeable, and so *)
(* are rooms.                                                              *)
EXTENDS MapHub, TLC

TwoEach   == [e \in Agents |-> 2]

(* HubSpec when no agent is Watched: the observer never starts and its     *)
(* actions, which move no body, are left out.                              *)
UnwatchedSpec ==
  /\ HubInit
  /\ [][\/ Loop
        \/ \E e \in Agents : (\E v \in Rooms \cup {"exit"} : Submit(e, v)) \/ Asking(e)
        \/ \E e \in Agents : Teardown(e)]_hubAllVars

Interchangeable == Permutations(Agents) \cup Permutations(Rooms)
=============================================================================
