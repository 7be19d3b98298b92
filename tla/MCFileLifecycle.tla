--------------------------- MODULE MCFileLifecycle ---------------------------
(* Instances of FileLifecycle, its proofs and its refinement for TLC. *)
EXTENDS FileLifecycleProofs, FileLifecycleRefinement, TLC

\* requests, ids and replicas are interchangeable
Symmetry ==
    Permutations(Requests) \cup Permutations(Ids) \cup Permutations(Replicas)

\* a host an hour or more to the west of UTC
West == {-1}
=============================================================================
