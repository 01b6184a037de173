------------------------- MODULE MCPortalOccupancy -------------------------
(* A small instance of PortalOccupancy: a corridor with a door at its end. *)
(* The bodies are agents, all alike.                                       *)
EXTENDS PortalOccupancy, TLC

Strip  == {<<1, 1>>, <<2, 1>>, <<3, 1>>}
Door   == {<<1, 1>>}
Inside == AllVerbs \ {"wait"}

Interchangeable == Permutations(Ids)
=============================================================================
