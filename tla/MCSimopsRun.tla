----------------------------- MODULE MCSimopsRun -----------------------------
(* Symmetric sets for TLC: requests of one kind and the workers are        *)
(* interchangeable.                                                        *)
EXTENDS SimopsRun, TLC

Symmetry == Permutations(Creates) \cup Permutations(Stops)
              \cup Permutations(Gets \ Pollers) \cup Permutations(Ingests)
              \cup Permutations(Workers)
=============================================================================
