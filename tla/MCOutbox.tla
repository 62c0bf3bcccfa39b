------------------------------ MODULE MCOutbox ------------------------------
(* Small instances of the outbox for TLC. *)
EXTENDS Outbox, TLC

\* Messages, payloads and publishers are interchangeable.
Symmetry ==
  Permutations(Messages) \cup Permutations(Payloads) \cup Permutations(Publishers)
=============================================================================
