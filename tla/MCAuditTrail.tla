--------------------------- MODULE MCAuditTrail ---------------------------
(* AuditTrail on a small instance for TLC. *)
EXTENDS AuditTrail, TLC

Symmetries == Permutations(Operators)
===========================================================================
