-------------------------- MODULE MCTaskLifecycle ---------------------------
(* Symmetry for the safety runs of TaskLifecycle: handlers, workers and      *)
(* deliveries are interchangeable (created_at is a value, not an identity).  *)
EXTENDS TaskLifecycle, TLC

Symmetry == Permutations(Tasks) \cup Permutations(Handlers) \cup Permutations(Workers)

=============================================================================
