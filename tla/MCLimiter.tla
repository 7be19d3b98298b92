------------------------------ MODULE MCLimiter ------------------------------
(* Instances of Limiter for TLC. *)
EXTENDS LimiterProofs, TLC

\* requests, clients and replicas are interchangeable
Symmetry ==
    Permutations(Requests) \cup Permutations(Clients) \cup Permutations(Replicas)
=============================================================================
