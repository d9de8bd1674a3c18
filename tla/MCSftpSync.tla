----------------------------- MODULE MCSftpSync -----------------------------
(* Instances of SftpSync for TLC. *)
EXTENDS SftpSync, TLC

(* Observations, and loops, are told apart by nothing but their identity. *)
Symmetry == Permutations(Observations) \cup Permutations(Loops)

UntilOverlap == ~overlapped
=============================================================================
