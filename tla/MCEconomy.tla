----------------------------- MODULE MCEconomy -----------------------------
(* Economy with bodies and things up to permutation and two coin values.   *)
EXTENDS Economy, TLC

Coins == <<2, 1>>
Interchangeable == Permutations(Agents) \cup Permutations(Things) \cup Permutations(Slots)
=============================================================================
