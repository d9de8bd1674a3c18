------------------------ MODULE MCObservationRecord ------------------------
(* Instances of ObservationRecord for TLC. *)
EXTENDS ObservationRecord, TLC

(* Users, flags and saves are told apart by nothing but their identity. *)
Symmetry == Permutations(Users) \cup Permutations(Flags) \cup Permutations(Saves)
=============================================================================
