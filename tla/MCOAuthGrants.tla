--------------------------- MODULE MCOAuthGrants ---------------------------
(* OAuthGrants on small instances for TLC. *)
EXTENDS OAuthGrants

\* "mcp" is in every normalised scope and is left out.
MCScopes == {{}, {"offline_access"}, {"offline_access", "config:write"}}
MCOffline == {{"offline_access"}}
============================================================================
