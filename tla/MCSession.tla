----------------------------- MODULE MCSession -----------------------------
(* Session for TLC. *)
EXTENDS Session, TLC

MCSymmetry == Permutations(Users)

=============================================================================
