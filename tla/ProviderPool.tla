---------------------------- MODULE ProviderPool ----------------------------
(***************************************************************************)
(* The provider_keys rows of one provider as routing sees them, and what   *)
(* each statement of KeyRepo does to them. A row is an endpoint pair, of a  *)
(* base URL that may be missing and an API key.                            *)
(*                                                                         *)
(* The operators are formulas over pool and lastEndpoint only;             *)
(* ProxyForward joins them to the requests that run them. Columns that     *)
(* routing never reads (counters, last error, last use, names) are left    *)
(* out. Every operation is one SQL statement keyed by id, so on a row that *)
(* is gone it changes nothing.                                             *)
(***************************************************************************)
EXTENDS Timestamps, FiniteSets

CONSTANTS
  InitialEndpoints,  \* rows at the start
  BlankRows,         \* those without base URL, inserted by a pre-0008 process
  MaxEndpoints,      \* bound on rows ever inserted
  MaxTime,           \* bound on the clock
  MaxCooldown        \* longest cooldown any policy or Retry-After asks for

Endpoint == 1..MaxEndpoints
Stamp == 0..(MaxTime + MaxCooldown)

PoolAssumption ==
  /\ MaxEndpoints \in Nat
  /\ InitialEndpoints \in 0..MaxEndpoints
  /\ BlankRows \subseteq 1..InitialEndpoints
  /\ MaxTime \in Nat \ {0}
  /\ MaxCooldown \in Nat

ASSUME PoolAssumption

VARIABLES
  now,           \* wall clock, from 1: the stamp 0 is SQL's NULL
  lastEndpoint,  \* AUTOINCREMENT counter: ids are never reused
  pool           \* the row of each id

Row == [exists: BOOLEAN, enabled: BOOLEAN, archived: BOOLEAN, url: BOOLEAN,
        cooldownUntil: Stamp, lastFailed: Stamp]

NoRow == [exists |-> FALSE, enabled |-> FALSE, archived |-> FALSE, url |-> FALSE,
          cooldownUntil |-> 0, lastFailed |-> 0]

NewRow == [NoRow EXCEPT !.exists = TRUE, !.enabled = TRUE, !.url = TRUE]

PoolTypeOK ==
  /\ now \in 1..MaxTime
  /\ lastEndpoint \in 0..MaxEndpoints
  /\ pool \in [Endpoint -> Row]
  /\ \A e \in Endpoint : pool[e].exists => e <= lastEndpoint

PoolInit ==
  /\ now = 1
  /\ lastEndpoint = InitialEndpoints
  /\ pool = [e \in Endpoint |->
       IF e > InitialEndpoints THEN NoRow
       ELSE [NewRow EXCEPT !.url = e \notin BlankRows]]

----------------------------------------------------------------------------
(* SelectEndpoint. *)

\* Mistake: the cooldown is not looked at.
BugEligible(e) == pool[e].exists /\ pool[e].enabled /\ ~pool[e].archived

Eligible(e) ==
  /\ pool[e].exists /\ pool[e].enabled /\ ~pool[e].archived
  /\ pool[e].cooldownUntil = 0 \/ Before(pool[e].cooldownUntil, now)

\* Mistake: failed endpoints first.
BugPrecedes(e, d) ==
  \/ pool[e].lastFailed # 0 /\ pool[d].lastFailed = 0
  \/ pool[e].lastFailed # 0 /\ pool[d].lastFailed # 0 /\ Before(pool[e].lastFailed, pool[d].lastFailed)
  \/ pool[e].lastFailed = pool[d].lastFailed /\ e < d

\* ORDER BY last_failed_at IS NOT NULL, last_failed_at, id.
Precedes(e, d) ==
  \/ pool[e].lastFailed = 0 /\ pool[d].lastFailed # 0
  \/ pool[e].lastFailed # 0 /\ pool[d].lastFailed # 0 /\ Before(pool[e].lastFailed, pool[d].lastFailed)
  \/ pool[e].lastFailed = pool[d].lastFailed /\ e < d

Selected(e) == Eligible(e) /\ \A d \in Endpoint \ {e} : Eligible(d) => Precedes(e, d)

NoneEligible == \A e \in Endpoint : ~Eligible(e)

----------------------------------------------------------------------------
(* Statements. *)

Update(e, row) ==
  /\ pool' = IF pool[e].exists THEN [pool EXCEPT ![e] = row] ELSE pool
  /\ UNCHANGED lastEndpoint

\* The name is checked and the row inserted in two statements; the unique
\* index refuses the second of two equal names, so names are left out.
AddEndpoint ==
  /\ lastEndpoint < MaxEndpoints
  /\ lastEndpoint' = lastEndpoint + 1
  /\ pool' = [pool EXCEPT ![lastEndpoint + 1] = NewRow]

Disable(e) == Update(e, [pool[e] EXCEPT !.enabled = FALSE])
Enable(e) == Update(e, [pool[e] EXCEPT !.enabled = TRUE])
Archive(e) == Update(e, [pool[e] EXCEPT !.enabled = FALSE, !.archived = TRUE])
RestoreArchived(e) == Update(e, [pool[e] EXCEPT !.enabled = FALSE, !.archived = FALSE])
Delete(e) == Update(e, NoRow)
DemoteToEnd(e) == Update(e, [pool[e] EXCEPT !.lastFailed = now])
ResetSelection(e) == Update(e, [pool[e] EXCEPT !.lastFailed = 0])
ResetCooldown(e) == Update(e, [pool[e] EXCEPT !.cooldownUntil = 0, !.lastFailed = 0])

\* A new pair starts without the failure state of the old one; a rotated key
\* leaves a missing base URL missing.
UpdateBaseURL(e) ==
  Update(e, [pool[e] EXCEPT !.url = TRUE, !.cooldownUntil = 0, !.lastFailed = 0])

RotateKey(e) == Update(e, [pool[e] EXCEPT !.cooldownUntil = 0, !.lastFailed = 0])

\* Mistake: a success lifts the cooldown as well.
BugMarkSuccess(e) == Update(e, [pool[e] EXCEPT !.cooldownUntil = 0, !.lastFailed = 0])
MarkSuccess(e) == Update(e, [pool[e] EXCEPT !.lastFailed = 0])

\* MarkFailureWithCooldown with a cooldown overwrites the one in force, with an
\* earlier end as with a later one.
MarkCool(e, until) == Update(e, [pool[e] EXCEPT !.cooldownUntil = until, !.lastFailed = now])

\* MarkFailureWithCooldown without one writes NULL over the cooldown and, by
\* COALESCE, keeps the demotion.
MarkSoft(e) == Update(e, [pool[e] EXCEPT !.cooldownUntil = 0])

----------------------------------------------------------------------------
(* BuildHealth, over the parsed times of the rows that are not archived. *)

\* Mistake: archived rows count.
BugKept == {e \in Endpoint : pool[e].exists}
Kept == {e \in Endpoint : pool[e].exists /\ ~pool[e].archived}

EnabledRows == {e \in Kept : pool[e].enabled}

CooldownActive(e) == pool[e].cooldownUntil > now

\* Rows in cooldown are counted, enabled or not. "in_service" is degraded, unused
\* or healthy, which last events and last uses tell apart.
HealthStatus ==
  CASE Kept = {} -> "missing_key"
    [] Kept # {} /\ EnabledRows = {} -> "disabled"
    [] /\ EnabledRows # {}
       /\ Cardinality(EnabledRows) = Cardinality({e \in Kept : CooldownActive(e)}) -> "cooldown"
    [] OTHER -> "in_service"

============================================================================
