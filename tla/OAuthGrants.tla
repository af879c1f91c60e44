---------------------------- MODULE OAuthGrants ----------------------------
(***************************************************************************)
(* The OAuth side of the gateway: authorization codes, gateway keys minted *)
(* from them, refresh grants, the refresh history and the verification     *)
(* endpoint the MCP resource server calls.                                 *)
(*                                                                         *)
(* One mint inserts one gateway_keys row, one oauth_grants row and one     *)
(* oauth_refresh_history row under fresh random secrets, so a mint is      *)
(* identified by its key id and the three tables are sets of key ids; the  *)
(* columns that no statement rewrites are the record mint[k].              *)
(*                                                                         *)
(* Definitions named Bug... are no part of Next: each is the definition     *)
(* that follows it with one plausible mistake, kept to show which property *)
(* notices it.                                                             *)
(*                                                                         *)
(* SQLite runs with one connection: a statement or a transaction is one    *)
(* step, and handlers interleave between them.                             *)
(***************************************************************************)
EXTENDS Naturals, FiniteSets

CONSTANTS
  Clients,       \* registered client ids
  NoClient,      \* the client_id parameter left out of a refresh request
  Issuers,       \* values GUDA_OAUTH_ISSUER takes over the runs
  Unbound,       \* the blank resource of a row written before migration 0012
  Scopes,        \* normalised scope values that are requested
  Verifiers,     \* concurrent calls of the verification endpoint
  LegacyGrants,  \* how many grant rows the previous release left behind
  LegacyCodes,   \* how many code rows it left behind
  MaxKeys,       \* bound on gateway keys ever minted
  MaxCodes,      \* bound on authorization codes ever issued
  MaxTime,       \* bound on the clock
  CodeTTL, AccessTTL, RefreshTTL

KeyId == 1..MaxKeys
CodeId == 1..MaxCodes
Time == 0..(MaxTime + CodeTTL + AccessTTL + RefreshTTL)
Via == {"operator", "open_register", "ref_code"}
Resources == Issuers \cup {Unbound}

OAuthAssumption ==
  /\ MaxKeys \in Nat
  /\ MaxCodes \in Nat
  /\ MaxTime \in Nat
  /\ CodeTTL \in Nat
  /\ AccessTTL \in Nat
  /\ RefreshTTL \in Nat
  /\ LegacyGrants \in 0..MaxKeys
  /\ LegacyCodes \in 0..MaxCodes
  /\ Issuers # {}
  /\ Unbound \notin Issuers
  /\ NoClient \notin Clients
  /\ Clients # {}
  /\ {"offline_access"} \in Scopes
  /\ \A s \in Scopes : s \subseteq {"offline_access", "config:write"}

ASSUME OAuthAssumption

VARIABLES
  now,        \* wall clock
  up,         \* the gateway process is serving
  issuer,     \* s.issuer of the running process; its /mcp is the one resource
  codeState,  \* per code: not issued, an oauth_codes row, read and deleted by
              \* a handler that has not minted yet, or consumed
  code,       \* the columns of each code
  lastKey,    \* AUTOINCREMENT counter of gateway_keys
  mint,       \* the columns a mint writes for each key
  keyRows,    \* gateway_keys rows
  enabled,    \* rows with enabled = 1
  revoked,    \* rows with revoked_at set
  grants,     \* oauth_grants rows
  history,    \* oauth_refresh_history rows
  delivered,  \* refresh tokens that reached a client in a response
  verify,     \* the verification calls in flight
  killed      \* history variable: families a replay has revoked

tables == <<codeState, code, lastKey, mint, keyRows, enabled, revoked, grants, history>>
vars == <<now, up, issuer, tables, delivered, verify, killed>>

CodeRow == [client: Clients, scope: Scopes, via: Via, resource: Resources, expires: Time]

MintRow == [oauth: BOOLEAN, family: 0..MaxKeys, client: Clients \cup {NoClient},
            scope: Scopes, via: Via, resource: Resources,
            accessExp: Time, refreshExp: Time,
            parent: 0..MaxKeys,   \* history: the key this one was refreshed from
            code: 0..MaxCodes]    \* history: the code this family began with

\* wasUsable is a history field: the key's standing at the first statement.
Call == [pc: {"idle", "looked", "bound", "valid", "accepted"},
         key: 0..MaxKeys, wasUsable: BOOLEAN]

Blank == [oauth |-> FALSE, family |-> 0, client |-> NoClient,
          scope |-> {"offline_access"}, via |-> "operator", resource |-> Unbound,
          accessExp |-> 0, refreshExp |-> 0, parent |-> 0, code |-> 0]

NoCode == [client |-> CHOOSE cl \in Clients : TRUE, scope |-> {"offline_access"},
           via |-> "operator", resource |-> Unbound, expires |-> CodeTTL]

NoCall == [pc |-> "idle", key |-> 0, wasUsable |-> FALSE]

TypeOK ==
  /\ now \in 0..MaxTime
  /\ up \in BOOLEAN
  /\ issuer \in Issuers
  /\ codeState \in [CodeId -> {"none", "row", "taken", "spent"}]
  /\ code \in [CodeId -> CodeRow]
  /\ lastKey \in 0..MaxKeys
  /\ mint \in [KeyId -> MintRow]
  /\ keyRows \subseteq 1..lastKey
  /\ enabled \subseteq keyRows
  /\ revoked \subseteq keyRows
  /\ grants \subseteq 1..lastKey
  /\ history \subseteq 1..lastKey
  /\ delivered \subseteq 1..lastKey
  /\ verify \in [Verifiers -> Call]
  /\ killed \subseteq 0..MaxKeys

----------------------------------------------------------------------------
(* What the tables say of a key. *)

\* The rows of a family, and the family's most recent mint.
Members(f) == {k \in 1..lastKey : mint[k].oauth /\ mint[k].family = f}
IsNewest(k) == \A j \in 1..lastKey : (mint[j].oauth /\ mint[j].family = mint[k].family) => j <= k

\* gatewaykeys.Lookup finds the row enabled and not revoked.
LookupOk(k) == k \in enabled /\ k \notin revoked

\* CheckOAuthGrant: a row exists and access_expires_at has not passed.
OAuthValid(k) == k \in grants /\ now <= mint[k].accessExp

\* Everything handleInternalKeysVerify asks of an OAuth key, read at once.
Usable(k) == LookupOk(k) /\ mint[k].oauth /\ mint[k].resource = issuer /\ OAuthValid(k)

----------------------------------------------------------------------------
(* Migrations are applied and no process is serving yet. Until it stopped, *)
(* the previous release went on issuing on the migrated schema: grants     *)
(* with blank resource and family, absent from the history, and codes with *)
(* a blank resource.                                                       *)
Init ==
  /\ now = 0
  /\ up = FALSE
  /\ issuer \in Issuers
  /\ codeState = [c \in CodeId |-> IF c <= LegacyCodes THEN "row" ELSE "none"]
  /\ code = [c \in CodeId |-> NoCode]
  /\ lastKey = LegacyGrants
  /\ \E cl \in Clients :
       mint = [k \in KeyId |-> IF k <= LegacyGrants
                 THEN [Blank EXCEPT !.oauth = TRUE, !.client = cl,
                                    !.accessExp = AccessTTL, !.refreshExp = RefreshTTL]
                 ELSE Blank]
  /\ keyRows = 1..LegacyGrants
  /\ enabled = 1..LegacyGrants
  /\ revoked = {}
  /\ grants = 1..LegacyGrants
  /\ history = {}
  /\ delivered = 1..LegacyGrants
  /\ verify = [v \in Verifiers |-> NoCall]
  /\ killed = {}

\* bindLegacyGrants binds a blank resource to the issuer, and names the family of
\* a row without one after the row's key.
BoundResource(k, i) ==
  IF mint[k].resource = Unbound /\ k \in keyRows /\ mint[k].oauth THEN i ELSE mint[k].resource

\* Mistake: one family for all that had none.
BugBoundFamily(k) ==
  IF mint[k].family # 0 THEN mint[k].family ELSE CHOOSE j \in grants : \A i \in grants : j <= i
BoundFamily(k) == IF mint[k].family = 0 THEN k ELSE mint[k].family

\* The same for the resource of a code.
BoundCode(c, i) ==
  IF codeState[c] = "row" /\ code[c].resource = Unbound
    THEN [code[c] EXCEPT !.resource = i] ELSE code[c]

\* NewServer with bindLegacyGrants: blank resources and families are bound,
\* the history is completed and pruned, all before anything is served.
Restart(i) ==
  /\ up' = TRUE
  /\ issuer' = i
  /\ mint' = [k \in KeyId |->
       IF k \in grants
         THEN [mint[k] EXCEPT !.resource = BoundResource(k, i), !.family = BoundFamily(k)]
         ELSE mint[k]]
  /\ history' = {k \in history \cup grants : mint[k].refreshExp >= now}
  \* What the old process held in memory is gone.
  /\ codeState' = [c \in CodeId |-> IF codeState[c] = "taken" THEN "spent" ELSE codeState[c]]
  /\ verify' = [v \in Verifiers |-> NoCall]
  /\ code' = [c \in CodeId |-> BoundCode(c, i)]
  /\ UNCHANGED <<now, lastKey, keyRows, enabled, revoked, grants, delivered, killed>>

----------------------------------------------------------------------------
(* Authorization codes. *)

\* Configuration permission needs the operator's approval.
BugMayApprove(s, via) == TRUE
MayApprove(s, via) == "config:write" \in s => via = "operator"

\* handleAuthorizePost once the issuance is decided: an approved request is issued
\* as "operator" whatever the mode. InviteIssuance has the steps that redeem an
\* invite before this insert.
HandleAuthorizePost(c, cl, s, via) ==
  /\ up
  /\ codeState[c] = "none"
  /\ \A d \in CodeId : d < c => codeState[d] # "none"
  /\ MayApprove(s, via)
  /\ codeState' = [codeState EXCEPT ![c] = "row"]
  /\ code' = [code EXCEPT ![c] = [client |-> cl, scope |-> s, via |-> via,
                                  resource |-> issuer, expires |-> now + CodeTTL]]
  /\ UNCHANGED <<now, up, issuer, lastKey, mint, keyRows, enabled, revoked, grants,
                 history, delivered, verify, killed>>

\* handleTokenAuthCode, first transaction and the checks after it: the row is
\* read and deleted, whoever asks; only then are expiry, resource, client,
\* redirect and PKCE verifier examined. proof says whether the last three match.
TakeCode(c, proof) ==
  /\ up
  /\ codeState[c] = "row"
  /\ codeState' = [codeState EXCEPT ![c] =
       IF proof /\ now <= code[c].expires /\ code[c].resource = issuer
         THEN "taken" ELSE "spent"]
  /\ UNCHANGED <<now, up, issuer, code, lastKey, mint, keyRows, enabled, revoked, grants,
                 history, delivered, verify, killed>>

\* The three inserts of a mint. The response may be lost on its way, and carries
\* no refresh token without offline_access.
InsertMint(row, received) ==
  LET k == lastKey + 1
  IN /\ k \in KeyId
     /\ lastKey' = k
     /\ mint' = [mint EXCEPT ![k] = row]
     /\ keyRows' = keyRows \cup {k}
     /\ history' = history \cup {k}
     /\ delivered' = IF received /\ "offline_access" \in row.scope
                       THEN delivered \cup {k} ELSE delivered

\* Mistake: a code that was redeemed is found again.
BugMintLeavesCode(c, received) ==
  /\ up
  /\ codeState[c] = "taken"
  /\ codeState' = [codeState EXCEPT ![c] = "row"]
  /\ InsertMint([oauth |-> TRUE, family |-> lastKey + 1, client |-> code[c].client,
                 scope |-> code[c].scope, via |-> code[c].via,
                 resource |-> code[c].resource,
                 accessExp |-> now + AccessTTL, refreshExp |-> now + RefreshTTL,
                 parent |-> 0, code |-> c], received)
  /\ enabled' = enabled \cup {lastKey + 1}
  /\ grants' = grants \cup {lastKey + 1}
  /\ UNCHANGED <<now, up, issuer, code, revoked, verify, killed>>

\* handleTokenAuthCode, second transaction: the key begins a family of its own.
MintFromCode(c, received) ==
  /\ up
  /\ codeState[c] = "taken"
  /\ codeState' = [codeState EXCEPT ![c] = "spent"]
  /\ InsertMint([oauth |-> TRUE, family |-> lastKey + 1, client |-> code[c].client,
                 scope |-> code[c].scope, via |-> code[c].via,
                 resource |-> code[c].resource,
                 accessExp |-> now + AccessTTL, refreshExp |-> now + RefreshTTL,
                 parent |-> 0, code |-> c], received)
  /\ enabled' = enabled \cup {lastKey + 1}
  /\ grants' = grants \cup {lastKey + 1}
  /\ UNCHANGED <<now, up, issuer, code, revoked, verify, killed>>

\* The second transaction fails and rolls back: the code stays deleted.
FailMint(c) ==
  /\ up
  /\ codeState[c] = "taken"
  /\ codeState' = [codeState EXCEPT ![c] = "spent"]
  /\ UNCHANGED <<now, up, issuer, code, lastKey, mint, keyRows, enabled, revoked, grants,
                 history, delivered, verify, killed>>

----------------------------------------------------------------------------
(* Refresh. *)

\* Not after the absolute expiry of the family.
Unexpired(k) == now <= mint[k].refreshExp

\* The conditions of handleTokenRefreshToken on the grant and on the key it is
\* for; when one fails the transaction is rolled back and nothing changes.
MayRefresh(k, cl) ==
  /\ mint[k].resource = issuer
  /\ "offline_access" \in mint[k].scope
  /\ cl # NoClient => cl = mint[k].client
  /\ Unexpired(k)
  /\ LookupOk(k)

\* The grant rows left when the token of k is consumed, and when family f is revoked.
BugUnconsumed(k) == grants
Unconsumed(k) == grants \ {k}

BugUnrevoked(f) == grants
Unrevoked(f) == {j \in grants : mint[j].family # f}

\* handleTokenRefreshToken, one transaction: the grant is deleted, its key
\* disabled, and a successor minted in the same family with the same expiry.
RefreshGrant(k, cl, received) ==
  /\ up
  /\ k \in delivered \cap grants
  /\ MayRefresh(k, cl)
  /\ InsertMint([mint[k] EXCEPT !.accessExp = now + AccessTTL, !.parent = k], received)
  /\ enabled' = (enabled \ {k}) \cup {lastKey + 1}
  /\ grants' = Unconsumed(k) \cup {lastKey + 1}
  /\ UNCHANGED <<now, up, issuer, codeState, code, revoked, verify, killed>>

\* handleTokenRefreshToken, no grant row for the token: a token the history
\* still knows and that is unexpired was consumed before, so its whole family
\* is disabled and loses its grants.
ReplayRefresh(k) ==
  /\ up
  /\ k \in delivered \ grants
  /\ k \in history
  /\ now < mint[k].refreshExp
  /\ enabled' = enabled \ {j \in history : mint[j].family = mint[k].family}
  /\ grants' = Unrevoked(mint[k].family)
  /\ killed' = killed \cup {mint[k].family}
  /\ UNCHANGED <<now, up, issuer, codeState, code, lastKey, mint, keyRows, revoked,
                 history, delivered, verify>>

----------------------------------------------------------------------------
(* Operator's key management (admin API, and the CLI in a process of its own, *)
(* which works while the gateway is down).                                    *)

CreateKey ==
  /\ lastKey + 1 \in KeyId
  /\ lastKey' = lastKey + 1
  /\ mint' = [mint EXCEPT ![lastKey + 1] = Blank]
  /\ keyRows' = keyRows \cup {lastKey + 1}
  /\ enabled' = enabled \cup {lastKey + 1}
  /\ UNCHANGED <<now, up, issuer, codeState, code, revoked, grants, history, delivered,
                 verify, killed>>

DisableKey(k) ==
  /\ enabled' = enabled \ {k}
  /\ UNCHANGED <<now, up, issuer, codeState, code, lastKey, mint, keyRows, revoked, grants,
                 history, delivered, verify, killed>>

\* Mistake: enabling a key takes its revocation back.
BugEnableUnrevokes(k) ==
  /\ enabled' = enabled \cup ({k} \cap keyRows)
  /\ revoked' = revoked \ {k}
  /\ UNCHANGED <<now, up, issuer, codeState, code, lastKey, mint, keyRows, grants,
                 history, delivered, verify, killed>>

\* Enable does not clear revoked_at and does not look at the grants.
EnableKey(k) ==
  /\ enabled' = enabled \cup ({k} \cap keyRows)
  /\ UNCHANGED <<now, up, issuer, codeState, code, lastKey, mint, keyRows, revoked, grants,
                 history, delivered, verify, killed>>

\* Revoke one key, or by RevokeUnused those of S: the ages RevokeUnused
\* compares are not kept here, so any set of live keys may be the unused one.
RevokeKeys(S) ==
  /\ enabled' = enabled \ S
  /\ revoked' = revoked \cup (S \cap keyRows)
  /\ UNCHANGED <<now, up, issuer, codeState, code, lastKey, mint, keyRows, grants,
                 history, delivered, verify, killed>>

Revoke(k) == RevokeKeys({k})
RevokeUnused(S) == S \subseteq enabled \ revoked /\ RevokeKeys(S)

\* Mistake: the row goes and its enabled mark stays.
BugDeleteLeavesEnabled(k) ==
  /\ keyRows' = keyRows \ {k}
  /\ revoked' = revoked \ {k}
  /\ UNCHANGED <<now, up, issuer, codeState, code, lastKey, mint, enabled, grants, history,
                 delivered, verify, killed>>

\* Only the gateway_keys row goes; the grant and the history keep the id.
DeleteKey(k) ==
  /\ keyRows' = keyRows \ {k}
  /\ enabled' = enabled \ {k}
  /\ revoked' = revoked \ {k}
  /\ UNCHANGED <<now, up, issuer, codeState, code, lastKey, mint, grants, history,
                 delivered, verify, killed>>

----------------------------------------------------------------------------
(* handleInternalKeysVerify: four statements, other handlers in between. A *)
(* check that fails answers 401 and ends the call.                         *)

Step(v, from, ok, to) ==
  /\ verify[v].pc = from
  /\ verify' = [verify EXCEPT ![v] = IF ok THEN [@ EXCEPT !.pc = to] ELSE NoCall]
  /\ UNCHANGED <<now, up, issuer, tables, delivered, killed>>

VerifyLookup(v, k) ==
  /\ up
  /\ verify[v].pc = "idle"
  /\ LookupOk(k)
  /\ verify' = [verify EXCEPT ![v] = [pc |-> "looked", key |-> k,
                                      wasUsable |-> Usable(k) \/ ~mint[k].oauth]]
  /\ UNCHANGED <<now, up, issuer, tables, delivered, killed>>

\* The grant row is read for its resource; a manual key skips both grant checks.
VerifyGrant(v) ==
  LET k == verify[v].key
  IN /\ verify[v].pc = "looked"
     /\ IF mint[k].oauth
          THEN Step(v, "looked", k \in grants /\ mint[k].resource = issuer, "bound")
          ELSE Step(v, "looked", TRUE, "valid")

\* Mistake: any grant row will do, expired or not.
BugVerifyNoExpiry(v) ==
  /\ verify[v].pc = "bound"
  /\ Step(v, "bound", verify[v].key \in grants, "valid")

VerifyExpiry(v) ==
  /\ verify[v].pc = "bound"
  /\ Step(v, "bound", OAuthValid(verify[v].key), "valid")

\* Touch updates zero or one rows and the call answers 200.
VerifyTouch(v) == Step(v, "valid", TRUE, "accepted")

VerifyDone(v) == Step(v, "accepted", FALSE, "idle")

Tick ==
  /\ now < MaxTime
  /\ now' = now + 1
  /\ UNCHANGED <<up, issuer, tables, delivered, verify, killed>>

----------------------------------------------------------------------------

AdminNext ==
  \/ CreateKey
  \/ \E k \in keyRows : DisableKey(k) \/ EnableKey(k) \/ Revoke(k) \/ DeleteKey(k)
  \/ \E S \in SUBSET enabled : RevokeUnused(S)

CodeNext ==
  \E c \in CodeId :
    \/ \E cl \in Clients, s \in Scopes, via \in Via : HandleAuthorizePost(c, cl, s, via)
    \/ \E proof \in BOOLEAN : TakeCode(c, proof)
    \/ \E received \in BOOLEAN : MintFromCode(c, received)
    \/ FailMint(c)

RefreshNext ==
  \E k \in 1..lastKey :
    \/ \E cl \in Clients \cup {NoClient}, received \in BOOLEAN : RefreshGrant(k, cl, received)
    \/ ReplayRefresh(k)

VerifyNext ==
  \E v \in Verifiers :
    \/ \E k \in keyRows : VerifyLookup(v, k)
    \/ VerifyGrant(v)
    \/ VerifyExpiry(v)
    \/ VerifyTouch(v)
    \/ VerifyDone(v)

Next ==
  \/ AdminNext
  \/ CodeNext
  \/ RefreshNext
  \/ VerifyNext
  \/ \E i \in Issuers : Restart(i)
  \/ Tick

Spec == Init /\ [][Next]_vars

----------------------------------------------------------------------------
(* Safety. *)

\* The shape of families the properties rest on: a family is named after its
\* first key, which is the oldest; only OAuth keys are in one, and what the
\* running server finds in its tables is in one.
FamilyShape ==
  /\ \A k \in 1..lastKey :
       /\ mint[k].family <= k
       /\ mint[k].family # 0 =>
            /\ mint[k].oauth
            /\ mint[mint[k].family].family = mint[k].family
  /\ \A k \in grants : mint[k].oauth
  /\ \A k \in history : mint[k].family # 0
  /\ up => \A k \in grants : mint[k].family # 0
  /\ \A f \in killed : f \in 1..lastKey /\ mint[f].family = f

\* A refresh grant belongs to the newest key of its family: rotation in
\* handleTokenRefreshToken leaves no older member of the family with a grant,
\* so a family never has two live tokens, whatever operators enable again.
GrantIsNewest == \A k \in grants : mint[k].family # 0 => IsNewest(k)

\* The keys of a family are one chain: each but the first was refreshed from the one
\* minted in it just before, so no refresh token ever has two successors, though it
\* may be presented by many requests at once or again after its response was lost,
\* and a code or a row of the previous release begins each family
\* (handleTokenRefreshToken, bindLegacyGrants).
FamilyIsChain ==
  \A k \in 1..lastKey :
    LET f == mint[k].family
        p == mint[k].parent
    IN /\ f \notin {0, k} =>
            /\ p \in Members(f) /\ p < k
            /\ \A j \in Members(f) : j <= p \/ k <= j
       /\ f = k => p = 0 /\ (mint[k].code = 0 => k <= LegacyGrants)

\* A family revoked by the replay of a consumed refresh token stays revoked:
\* no later enable, refresh, restart or issuer change gives it a usable key.
ReplayKillsFamily ==
  \A k \in 1..lastKey : (mint[k].oauth /\ mint[k].family \in killed) => k \notin grants

\* Scope, client, issuance and absolute refresh expiry of a family are those its
\* code was approved with, however often it was refreshed, so that no access
\* outlives that expiry by more than one access lifetime; and configuration
\* permission traces back to an operator's approval.
FamilyKeepsApproval ==
  \A k \in 1..lastKey :
    /\ mint[k].parent # 0 =>
         LET p == mint[mint[k].parent]
         IN /\ mint[k].scope = p.scope /\ mint[k].client = p.client
            /\ mint[k].via = p.via /\ mint[k].resource = p.resource
            /\ mint[k].refreshExp = p.refreshExp
    /\ "config:write" \in mint[k].scope => mint[k].via = "operator"
    /\ mint[k].oauth => mint[k].accessExp <= mint[k].refreshExp + AccessTTL

\* An authorization code yields at most one family, with two handlers racing
\* for it, a failed second transaction or a restart between the two.
CodeRedeemedOnce ==
  \A j, k \in 1..lastKey :
    (mint[j].code # 0 /\ mint[j].code = mint[k].code) => mint[j].family = mint[k].family

\* A verification that answers 200 saw, at its first statement, a key that was
\* valid in every respect, though the four statements interleave with refresh,
\* replay, revocation and the clock.
VerifyLinearizes == \A v \in Verifiers : verify[v].pc = "accepted" => verify[v].wasUsable

\* What is bound stays as it is, across restarts with a changed issuer and rows the
\* previous release went on writing: a row bound to a resource is never bound to
\* another, and two keys are never brought into one family after they were minted,
\* so that a replay or a revocation of one never ends the other (bindLegacyGrants).
BindingKept ==
  [][\A k \in 1..lastKey :
       /\ mint[k].resource # Unbound => mint'[k].resource = mint[k].resource
       /\ \A j \in 1..lastKey \ {k} :
            mint'[j].family = mint'[k].family /\ mint'[k].family # 0 =>
              mint[j].family = mint[k].family /\ mint[k].family # 0]_vars

\* Revoked or deleted, the newest key of a family takes the family with it: the
\* family gets no further key, and none of its keys is usable again.
Ended(f) == \E k \in Members(f) : IsNewest(k) /\ (k \in revoked \/ k \notin keyRows)

RevocationEndsFamily ==
  [][\A f \in 1..lastKey :
       Ended(f) => /\ Ended(f)'
                   /\ \A k \in Members(f)' : ~Usable(k)']_vars

\* The grants implement the abstract families: the current keys of a family are
\* those with a grant row.
FamilyOf(k) == mint[k].family
CurrentKeys(f) == {k \in grants : FamilyOf(k) = f}

Families == INSTANCE TokenFamilies WITH
  issued <- lastKey,
  legacy <- CurrentKeys(0),
  current <- [f \in KeyId |-> CurrentKeys(f)]

\* Every step of the server is a step of TokenFamilies or leaves it unchanged.
ImplementsFamilies == Families!Spec

============================================================================
