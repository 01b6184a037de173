------------------------------ MODULE BodyPlace ------------------------------
(***************************************************************************)
(* What the multi-map hub promises about bodies, with no maps, ticks or    *)
(* requests in sight: a body is in one place; it passes between the        *)
(* overworld and a room only through a door, taking some time; and it      *)
(* leaves the simulation only from the overworld, for good.  MapHub        *)
(* implements it.                                                          *)
(***************************************************************************)
CONSTANTS Bodies, Over, Rooms

VARIABLE place

Init == place = [b \in Bodies |-> Over]

GoIn(b) == place[b] = Over /\ place' = [place EXCEPT ![b] = "entering"]

ComeIn(b) ==
  /\ place[b] = "entering"
  /\ \E r \in Rooms : place' = [place EXCEPT ![b] = r]

GoOut(b) == place[b] \in Rooms /\ place' = [place EXCEPT ![b] = "leaving"]

ComeOut(b) == place[b] = "leaving" /\ place' = [place EXCEPT ![b] = Over]

Vanish(gone) ==
  /\ \A b \in gone : place[b] = Over
  /\ place' = [b \in Bodies |-> IF b \in gone THEN "gone" ELSE place[b]]

Next ==
  \/ \E b \in Bodies : GoIn(b) \/ ComeIn(b) \/ GoOut(b) \/ ComeOut(b)
  \/ \E gone \in SUBSET Bodies : Vanish(gone)

Spec == Init /\ [][Next]_place
=============================================================================
