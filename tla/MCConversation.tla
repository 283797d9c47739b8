--------------------------- MODULE MCConversation ---------------------------
(* Conversation for TLC. *)
EXTENDS Conversation, TLC

MCSymmetry == Permutations(Typists)

=============================================================================
