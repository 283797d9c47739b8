----------------------------- MODULE MCIosCalls -----------------------------
(* IosCalls for TLC. *)
EXTENDS IosCalls, TLC

MCSymmetry == Permutations(Ids)

=============================================================================
