------------------------ MODULE MCReservationBudget ------------------------
(* TLC instances of ReservationBudget. *)
EXTENDS ReservationBudget, TLC

RequestSymmetry == Permutations(ApiRequest)
=============================================================================
