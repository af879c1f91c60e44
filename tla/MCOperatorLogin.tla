--------------------------- MODULE MCOperatorLogin ---------------------------
EXTENDS OperatorLogin, TLC

Symmetries ==
  Permutations(Handlers) \cup Permutations(Users) \cup Permutations(Browsers)
    \cup Permutations(Forms) \cup Permutations(Admins)

============================================================================
