--------------------------- MODULE MCAndroidCalls ---------------------------
(* AndroidCalls for TLC. *)
EXTENDS AndroidCalls, TLC

MCSymmetry == Permutations(Ids)

=============================================================================
