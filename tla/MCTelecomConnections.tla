------------------------ MODULE MCTelecomConnections ------------------------
(* TelecomConnections for TLC. *)
EXTENDS TelecomConnections, TLC

MCSymmetry == Permutations(Calls)

=============================================================================
