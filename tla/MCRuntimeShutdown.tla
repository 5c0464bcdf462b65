------------------------- MODULE MCRuntimeShutdown -------------------------
(* Small instances of RuntimeShutdown for TLC. *)
EXTENDS RuntimeShutdown, TLC

\* Handlers, sessions and jobs are interchangeable (safety runs only).
Symmetry == Permutations(Handlers) \cup Permutations(Sessions) \cup Permutations(Jobs)
=============================================================================
