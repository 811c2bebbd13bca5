------------------------------ MODULE PackStore ------------------------------
(***************************************************************************)
(* What the pack commands promise, without files, clones or write order: a *)
(* store of pins.  A pin is a release that passed validation.  A pack is   *)
(* intact while the project holds exactly the content of its pin.  Pins    *)
(* change one at a time: a new pin is intact from the start, and a pin is  *)
(* given up only for a pack that is already gone from the project.         *)
(***************************************************************************)
CONSTANTS
  Names,        \* pack names
  None,         \* no pin
  Releases      \* what may be pinned: [name, version, hash], validated

VARIABLES
  pins,         \* the pin of each name, or None
  intact        \* the names whose installed content is that of their pin

storeVars == <<pins, intact>>

Init == pins = [n \in Names |-> None] /\ intact = {}

Pin(n) ==
  \E r \in Releases :
    /\ r.name = n
    /\ pins' = [pins EXCEPT ![n] = r]
    /\ intact' = intact \union {n}

Unpin(n) ==
  /\ n \notin intact
  /\ pins' = [pins EXCEPT ![n] = None]
  /\ UNCHANGED intact

(* Content goes missing: a new clone of the project, a pack that is being   *)
(* replaced, restored or removed.                                          *)
Lose ==
  /\ UNCHANGED pins
  /\ intact' \subseteq intact

(* Content comes back, and only for what is pinned. *)
Restore ==
  /\ UNCHANGED pins
  /\ intact \subseteq intact'
  /\ intact' \subseteq {n \in Names : pins[n] # None}

Next == Lose \/ Restore \/ \E n \in Names : Pin(n) \/ Unpin(n)

Spec == Init /\ [][Next]_storeVars
=============================================================================
