------------------------------ MODULE MCH1Pool ------------------------------
(* Small instances of H1Pool for TLC.                                      *)
EXTENDS H1Pool, TLC

\* Requests are interchangeable.
Symmetry == Permutations(Requests)
=============================================================================
