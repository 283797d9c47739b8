------------------------ MODULE MCCallNotifications ------------------------
(* CallNotifications for TLC. *)
EXTENDS CallNotifications, TLC

MCSymmetry == Permutations(Calls)

=============================================================================
