---------------------------- MODULE MCFileCenter ----------------------------
(* A small instance of the file center for TLC. *)
EXTENDS FileCenter, TLC

CONSTANTS
  v1,                                       \* the version
  create, complete1, complete2, scan1, scan2, cleanup1, cleanup2,
  reconcile, linking, unlinking,            \* the operations
  good, other                               \* contents

Asked == create :> "create"
  @@ complete1 :> "complete" @@ complete2 :> "complete"
  @@ scan1 :> "scan" @@ scan2 :> "scan"
  @@ cleanup1 :> "cleanup" @@ cleanup2 :> "cleanup"
  @@ reconcile :> "reconcile" @@ linking :> "link" @@ unlinking :> "unlink"

AllOperations == DOMAIN Asked
Commands == [o \in AllOperations |-> [kind |-> Asked[o], version |-> v1]]

Symmetry == Permutations(Requests) \cup Permutations({complete1, complete2})
  \cup Permutations({scan1, scan2}) \cup Permutations({cleanup1, cleanup2})
=============================================================================
