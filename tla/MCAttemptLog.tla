--------------------------- MODULE MCAttemptLog ---------------------------
(* AttemptLog on a small instance for TLC. *)
EXTENDS AttemptLog, TLC

\* A success, and a plan limit.
MCOutcomes ==
  {[logged |-> "2xx", told |-> "2xx", retry |-> FALSE],
   [logged |-> "4xx", told |-> "429", retry |-> TRUE]}

Symmetries == Permutations(Requests)
===========================================================================
