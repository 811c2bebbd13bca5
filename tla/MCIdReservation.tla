--------------------------- MODULE MCIdReservation ---------------------------
(* Developer A with two terminals in one clone, and developer B. *)
EXTENDS IdReservation

MCCloneOf == [p \in Procs |-> IF p = "b" THEN "B" ELSE "A"]
MCSlugOf == [p \in Procs |-> IF p = "a2" THEN "t" ELSE "s"]
=============================================================================
