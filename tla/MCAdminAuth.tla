----------------------------- MODULE MCAdminAuth -----------------------------
EXTENDS AdminAuth, TLC

NothingSetUp == <<>>

Symmetries == Permutations(Commands) \cup Permutations(Logins) \cup Permutations(Secrets)

============================================================================
