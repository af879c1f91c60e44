--------------------------- MODULE MCProxyForward ---------------------------
(* Small instances of ProxyForward for TLC. *)
EXTENDS ProxyForward, TLC

\* Requests are interchangeable.
RequestSymmetry == Permutations(Requests)

=============================================================================
