------------------------------ MODULE MCInbox -------------------------------
(* Small instances of the inbox for TLC. *)
EXTENDS Inbox, TLC

CONSTANT stranger   \* a consumer whose handler matches no message

SupportedPairs == Messages \X (Consumers \ {stranger})

Symmetry == Permutations(Workers)
=============================================================================
