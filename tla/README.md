# Code Guda Gateway: the verification project

The gateway is one Go process in front of a SQLite file. It forwards requests to
search providers over pools of API keys, issues and verifies gateway keys (by hand
and through OAuth for MCP clients), and has an admin web interface. A second
program, `guda-gateway-admin`, works on the same file. This directory holds TLA+
models of the parts whose correctness depends on what happens *between* statements,
the TLC runs that check them, and the proofs.

The models are written from the code. Where the repository's documents say something
else, the difference is a finding (see "Disagreements").

## 1. Inventory

### How the parts interact

- **One database, many handlers.** `store.Open` sets `SetMaxOpenConns(1)`
  (`internal/store/store.go:41`): inside the gateway a statement, or a transaction,
  runs alone. An HTTP handler is a sequence of them, with those of other handlers in
  between. The CLI is a second process with a connection of its own; SQLite's locks
  make its statements atomic too. So one action of a model is one statement or one
  transaction, and every action may be followed by that of any other actor.
- **No shared memory worth modelling.** Handlers keep what they have read in local
  variables. It is gone after a restart, and stale as soon as somebody else writes.
- **Time** is the wall clock, read at different moments of one handler and stored as
  RFC3339Nano text that SQLite compares as text (module `Timestamps`).
- **External**: provider upstreams, GitHub, MCP clients, operators. Each is modelled
  by all it can answer or do.

### Components

| Component | Source (`src/`) | State | What makes it correct | Modules |
|---|---|---|---|---|
| OAuth grants and token families | `internal/mcpoauth/{server,grants,decision}.go`, `internal/gatewaykeys/keys.go` | `oauth_codes`, `oauth_grants`, `oauth_refresh_history`, `gateway_keys` | one live refresh token to a family, none after a replay or a revocation; a code opens one family; what was approved is what is granted | `OAuthGrants`, `TokenFamilies` |
| Gateway key verification | `internal/server/server.go` | reads the same tables in four statements | an answer 200 is explained by one moment | `OAuthGrants` |
| Public issuance and invites | `internal/gatewaykeys/invite.go`, `internal/mcpoauth/server.go` | `invite_codes`, setting `public_issuance` | never more redemptions than allowed, none after revocation or expiry, one for every code | `InviteIssuance` |
| Provider endpoint pool | `internal/providers/{keys,endpoints,providers}.go` | `provider_keys` rows: enabled, archived, cooldown, demotion, pair | failed endpoints go to the end; cooldowns are lifted for a reason | `ProviderPool` |
| Proxy retry loop | `internal/proxy/proxy.go`, `internal/cooldown/cooldown.go` | local: attempt, start time, last response | one answer after at most MaxRetries attempts; retries go across keys | `ProxyForward`, `RetryContract` |
| Provider health | `internal/providers/health.go` | none (judges the rows) | agrees with routing on who is eligible | `ProviderPool` |
| Attempt log | `internal/proxy/attemptlog.go` | `proxy_attempt_logs` | keeps the newest rows, tells each request's attempts in order | `AttemptLog` |
| Usage counters | `internal/usage/usage.go`, `internal/server/server.go` | `usage_daily` | count every answer once, under the class the client was told | `AttemptLog` |
| Quota sidecars and refresh | `internal/providers/{endpoint_quota,key_quota,quota,quota_refresh}.go` | `quota_*` columns of `provider_keys`, `provider_key_quota_cache` | a row's columns agree; a credential goes only where it belongs; a quota shown is the row's own | `EndpointQuota` (partly) |
| Admin token and sessions | `internal/adminauth` | `admin_tokens`, `admin_sessions` | one token; a rotation takes effect and ends sessions | `AdminAuth` |
| Operator sign-in with GitHub | `internal/operatorlogin/github.go` | setting `oauth_github_operator`, `operator_login_flows` | one approval per sign-in, of what it was started for, under the settings in force | `OperatorLogin` |
| Audit log | `internal/audit/audit.go` | `audit_events` | what stands in a row is explained by the trail | `AuditTrail` |
| Admin web API | `internal/adminweb` | none of its own | its handlers of several statements leave the tables and the trail in agreement | partly, in `AuditTrail`, `AttemptLog`, `EndpointQuota` |
| Admin command line | `cmd/guda-gateway-admin` | none of its own | interleaves with the gateway | partly, in `AdminAuth`, `AuditTrail` |
| Settings | `internal/providers/settings.go` | `settings` rows | each is one upsert; readers see one of the values written | partly: the debug setting in `AttemptLog` |
| Store and migrations | `internal/store` | schema | data migrations keep families apart | partly, in several modules |
| Client registration, secrets, process | see `PROJECT.json` | one-statement tables, or none | | not modelled |

`PROJECT.json` lists the components with a status and a note each, and 40 hazards with
the lines where they bite and the properties that would notice.

### What is hard here

*Interleaving.* Two refreshes with one token; many handlers at the last redemption of
an invite; marks of several requests on one endpoint; one sign-in state presented
twice; two `token init`; writers of the attempt log that prune what others have just
inserted, under a reader who turns pages. *Stale reads.* Verification reads a key and
its grant apart; `RedeemTx` reads the row it updates later; `Forward` reads the clock
and the debug setting once; marks go by row id to a pair that may have changed; a
sign-in spends seconds at GitHub while settings are saved; a refresh works through a
list of rows that operators edit; an audit event tells what a row says after the edit,
not what the edit wrote. *Partial failure.* A code is deleted in one transaction and
minted from in another; an invite is redeemed and the code's insert fails; a rotation
stops before it clears the sessions; an insert, a prune, a counter or an audit event
fails and nobody looks. *Loss.* The response to a refresh is lost, and the retry looks
like a replay. *Restart.* Legacy rows are bound to an issuer that may have changed.
*Boundaries.* Text order of stamps around whole seconds; a table of flows that is full;
a retry at the limit; a log at its retention.

## 2. Modules, and how they correspond to the code

A definition's lines in the code are in `PROJECT.json` under `map`. Definitions named
`Bug...` are no part of any specification: each is the definition below it with one
plausible mistake, and is used to show that a property notices it. Variables and fields
called history in their comments record what no column holds; no guard reads them.

**`OAuthGrants`.** A mint inserts one row each in `gateway_keys`, `oauth_grants` and
`oauth_refresh_history` under fresh random secrets, so a mint is its key id, the tables
are sets of ids (`keyRows`, `enabled`, `revoked`, `grants`, `history`) and the columns
no statement rewrites are the record `mint[k]`. Actions: `HandleAuthorizePost` (the
insert of a code), `TakeCode` and `MintFromCode`/`FailMint` (the two transactions of
`handleTokenAuthCode`), `RefreshGrant` and `ReplayRefresh` (the two branches of
`handleTokenRefreshToken`), the operator's `CreateKey`, `DisableKey`, `EnableKey`,
`Revoke`, `RevokeUnused`, `DeleteKey`, the four statements of
`handleInternalKeysVerify`, and `Restart` (`NewServer` with `bindLegacyGrants`, which
also loses what handlers held). `delivered` are tokens that reached a client, since a
response may be lost. PKCE, redirect URI and client checks of a code are one Boolean.

**`TokenFamilies`** is the abstract specification of refresh families: a chain of keys
with at most one current, which rotates, closes, and stays closed. `OAuthGrants`
defines the mapping (`Families == INSTANCE TokenFamilies WITH ...`).

**`Timestamps`** is the order of RFC3339Nano text, for any clock whose tick is a whole number
of nanoseconds. Trailing zeros of the fraction are dropped, and a point or a digit sorts
before the final Z: so of two stamps whose texts part at a digit the earlier comes first, but
one whose text goes on where another's ends (`Extends`) comes before it, though it is later.
`TicksPerSecond = 1` makes it the order of time.

**`ProviderPool`** has the columns routing reads, one formula per statement of `KeyRepo`,
and `BuildHealth`'s judgement of the rows (`HealthStatus`); **`ProxyForward`** joins it to
the requests of `Proxy.Forward` and to operators; **`RetryContract`** is what a client may
rely on. Which status leads to which policy (`PolicyForStatus`, Tavily's and Firecrawl's
bodies) is abstracted to the policy: cool with a duration, soft, unreadable, network
error. `burnt` is history: the rows a request has failed on.

**`AttemptLog`** follows a request through `Forward` for what it writes down. `Record` is
two statements, `Insert` and `Prune`, each of which may fail with its error ignored; the
server's `recordUsage` comes after the answer (`Count`). The debug setting is read by
`Begin` and changed by `SetDebug` at any time. The console's reader is `Open`, `ListCount`
and `ListPage` (the two statements of `List`) and `Turn`. `Restart` loses requests in the
middle. `leftover` (inserts whose prune did not run), `missed` (attempts whose insert
failed), and the reader's `newest` and `seen` are history.

**`InviteIssuance`** is `handleAuthorizePost` up to the insert, with `RedeemTx` in its two
steps: the check of the row read, and the conditional UPDATE. Its time comparisons
differ (parsed in the first, text in the second), and so do the model's.

**`AdminAuth`** runs `token init`, `sync-env` and `rotate` statement by statement beside
logins, each of which verifies and then inserts. `SetUpAlone` says whether operators wait
for the first token before they start a second command. `survivors` is a history variable:
the sessions a replacement left behind, for want of a clearing or because their login
had verified but not inserted.

**`OperatorLogin`** has `Save` in its two statements, the tables' `put` and `take`, and
the handlers `Start`, `Finish` (with the exchange at GitHub and the second look at the
settings) and `Consume`. Tokens are numbers any browser may present at any time. What a save
has loaded, and another may change before it writes, is `saving[a]`. A stored secret is the
app it was given for, a client ID an app. `began`, `approvals` and a flow's
`origin` are history.

**`EndpointQuota`** has the quota columns of one provider's rows, with the two that routing
decides summed up in `skip`. An edit is two statements (`BeginUpdate`/`FinishUpdate`,
`BeginRotate`/`FinishRotate`): what the first one read is in `edit[a]`. A refresh of one
row or of all is `job[j]`, a loop over the rows it listed: `SkipNext` or `AttemptNext`,
`Resolve` (one statement), the requests of the flow (`FetchTokens`; `Login` and a
`FetchPage` for each page), and `Store`, the upsert by id. Between any two of them
anything may happen to the row. `born`, `of` and `inserted` are history: which insertion
made a row, and whose credentials an upstream was asked with. So are `overtaken`, of an edit
that read a row which another update has written since, and `crossed`, of a row whose key
such an edit wrote or kept. The upstream is external: it
refuses, or has any of `Accounts`, which it does or does not declare. The provider is Grok;
Tavily and Firecrawl do with their only flow what Grok does with `admin`.

**`AuditTrail`** has the changes of provider endpoints that operators make in the console
and at the command line, with the events they leave. An edit of the console is `Enter` (the
row is read), `Update`, `ReadAgain` and `Record`, four statements of
`adminweb/handlers.go`; `Create`, `SwitchCommand` and `DeleteCommand` have fewer. The value
of a column *is* the number of the change that wrote it, so what an event tells can be
compared with what stands. `Sanitized` is the limit of 80 bytes on a detail: one that does
not fit is told as no value. `WebChange` and `WebDelete` are the console's endpoints that
write no event. `silent` (changes whose event nobody will write) and `began` are history.

The modules are not composed into one: they share the tables at single points, which
each module has on its own side. `InviteIssuance` ends where
`OAuthGrants!HandleAuthorizePost` begins, `OperatorLogin!Consume` is the Boolean
`approved` of `InviteIssuance!Submit`, and `AttemptLog` sees of an attempt only the class
of its outcome, which `ProxyForward` leads up to.

## 3. Runs

All runs exhaust their state space. Deadlock is checked in all but `audit_trail`: in every
other model an operator, the clock or a client can still act, so none has to stop. In
`AuditTrail` every action of consequence is a change, and once `MaxChanges` of them are
made and told the operators may stop.

| Run | Distinct states | Question | Checked |
|---|---|---|---|
| `oauth_families` | 455,138 | Does a code redeemed in two transactions open one family with exactly what was approved, does it stay one family with one live refresh token, dead once replayed or revoked, whatever operators, clients and the clock do in between; and is the table-level server a correct implementation of the abstract families? | `TypeOK`, `GrantIsNewest`, `ReplayKillsFamily`, `CodeRedeemedOnce`, `FamilyKeepsApproval`, `RevocationEndsFamily`, `ImplementsFamilies` |
| `oauth_restart` | 821,020 | Over restarts with two issuers and two rows of the previous release: is a verification in four statements explained by one moment at which the key was good, is a bound row never retargeted, and are two families never merged? | `VerifyLinearizes`, `BindingKept` |
| `proxy_routing` | 832,230 | Two requests and an operator share a pool of two endpoints: do retries go across keys, and are cooldowns lifted only for a reason, whatever the order of the marks? | `TypeOK`, `RetryAcrossKeys`, `CooldownEndsForAReason` |
| `proxy_contract` | 288,340 | With a row without base URL, an operator who empties the pool and stamps finer than a second: is every request that was begun answered once, after at most MaxRetries attempts, by how much can text order misjudge a cooldown, and when does the health page tell whether there is an endpoint to select? | `SelectionWithinASecond`, `HealthTellsService`, `EveryRequestAnswered`, `ImplementsContract` |
| `invites` | 81,468 | Two authorization requests race for one invite with revocation, expiry, failures and restarts in between: is it redeemed within its limit, only while good, and once for every code? | `TypeOK`, `RedemptionsBounded`, `CodesArePaidFor`, `DeadNeverRedeemed` |
| `admin_tokens` | 28,873 | From an empty database, where a second token command waits for the first token and from then on they race each other and two logins, any of them cut short: does a rotated token log in, and which sessions outlive a rotation? | `TypeOK`, `StaleSessionsExplained`, `RotateReplacesActive` |
| `found_two_tokens` | violation found | Two initialisations of an empty database leave two rows, of which rotation replaces the one that does not log in. | `RotateReplacesActive` |
| `operator_consent` | 1,780,836 | Two handlers and two admins interleave, with every token open to every browser and a table that one flow fills: does a consent approve once, only what it was given for and only under the settings in force at that instant, and can a save that overtakes another keep the secret of one app for another? | `TypeOK`, `OneApprovalPerSignIn`, `SecretOfItsApp`, `ApprovedAsStarted` |
| `endpoint_quota` | 833,213 | Two operators edit, add and delete rows, their edits of one row crossing, while a refresh lists them, resolves their credentials, pages through an upstream and stores what it got by row id: do a row's columns agree and is every upstream asked in the flow its credential is for, wherever no edits crossed, is a quota shown with the row it was asked for, and does a refresh end? | `TypeOK`, `SidecarExplained`, `CredentialExplained`, `ShownQuotaIsOwn`, `RefreshEnds` |
| `attempt_log` | 3,835,594 | Two requests insert and prune in a log of two rows while the operator switches the debug setting and turns pages, inserts and prunes fail and the process restarts: does the log keep the newest rows, tell each request's attempts in order, agree with the usage counters, and does paging pass over no row? | `TypeOK`, `KeepsTheNewest`, `RowsTellTheStory`, `CountsAgreeWithLog`, `PagingPassesOverNone` |
| `audit_trail` | 4,170,385 | Two operators at a time change an endpoint in the console and at the command line, each in several statements and each of which may fail: is every value that stands in a row explained by the trail, and does the trail move forward? | `TypeOK`, `ChangesAccounted`, `TrailMovesForward` |
| `found_quota_kept` | violation found | A row is switched away from separate_credentials between the read and the write of a rotation, and has a quota key again. | `OnlySeparateModeKeepsKey` |

### Bounds, and why they are enough

- *oauth_families*: three keys are the least in which a token is consumed, its successor is
  consumed too, and the first is replayed, or a manual key and a family stand side by side;
  the clock passes the access expiry, the family's expiry and one tick more. One code,
  presented any number of times, taken, minted from, failed, or cut by a restart. One client
  is enough, as a client id is only compared, and the missing one (`NoClient`) is there too.
  Scopes come with and without `offline_access` and `config:write`.
- *oauth_restart*: two legacy grants and one legacy code, so that a start may bring two
  families into one, two issuers, one key to mint and one code to issue, and a verification,
  between whose four statements all of this happens. One suffices, as verifications do not
  write.
- *proxy_routing*: two requests and two endpoints are the least in which a mark arrives
  late and a retry has somewhere to go; cooldown 0 is a `Retry-After: 0`.
- *proxy_contract*: one request, as the contract is about each; a row without URL, an
  operator who may add and empty, three attempts, and two ticks to the second, so that
  stamps come with and without a fraction. That a text may end after any of nine digits
  takes a clock too fine for a run; the proofs are of every granularity.
- *invites*: two handlers, limits of one and two redemptions, two ticks to the second.
- *admin_tokens*: two commands, two logins, three secrets (one old, two new).
- *operator_consent*: two handlers, users, browsers and forms; one app, beside which the empty
  client ID is the other one a secret may be given for; two flows ever, which is one sign-in
  with its consent or two that were only begun; a table of one row, so that a second sign-in
  meets the limit; a clock that lets a flow expire; two admins, one of whom may save between
  the load and the write of the other, and two saves.
- *endpoint_quota*: two operators and one refresh at a time, two rows, one of them there at
  the start, so that the second is inserted during a refresh or after a deletion; three
  edits, which are an update, a rotation that it crosses and one more; pages of two accounts,
  at most two, of upstreams with one account less than they hold, as many, and one more.
- *attempt_log*: two requests of two attempts each write up to four rows into a log that
  keeps two, so that each prune has something to remove and a page of two has a successor;
  the outcomes are a success and a plan limit, which is logged under another class than it
  is told, beside the network errors and refusals that are always there.
- *audit_trail*: two operators, so that an edit falls between the update and the second read
  of another; one row, which can be deleted under an edit; four changes, which are the
  creation, two edits that overlap and one after them.

Every bound is a CONSTANT that guards the action it limits: `MaxKeys`, `MaxCodes`,
`MaxTime`, `MaxEndpoints`, `MaxEdits`, `MaxInvites`, `MaxRedemptions`, `MaxTokens`,
`MaxRevisions`, `MaxRows`, `MaxChanges`. `MaxFlows` is no bound but the code's limit of
1000, `Retention` its 1000 rows, `MaxRetries` the setting, `PageSize` what a page asks for
(100 accounts in a refresh), and `MaxPages` stands for its 50.
Symmetry is used for interchangeable actors, with safety properties only.

### Fairness

Liveness is asked of the two loops, the proxy's and the refresh's. `ProxyForward!FairSpec`
gives each request weak fairness of `Forward(r)`, which leaves out the step
`SelectFails(r)`: no request relies on the database failing to be answered. A request runs
on a goroutine of its own, which the Go scheduler does not starve; its statements return;
and a send ends because the upstream answers, the connection breaks, or the client's
context is cancelled. Nothing is assumed of operators, the clock, or which way a send ends.

`EndpointQuota!FairSpec` gives each refresh weak fairness of `Progress(j)`, for the same
reasons: a refresh runs within one HTTP request, and each request it makes has a timeout of
15 seconds. `StoreFails` is left out of it, as `SelectFails` is.

## 4. Proofs

TLAPS checks these for every value of the constants that meets the modules' assumptions.

| Theorem | Property | What it establishes |
|---|---|---|
| `OAuthGrants_proofs!TypeCorrect` | `TypeOK` | The tables keep their shape in every reachable state, for every number of keys, codes, clients, issuers and verification calls. |
| `OAuthGrants_proofs!FamiliesCorrect` | `GrantIsNewest` | In every reachable state only the newest key of a family has a grant. |
| `OAuthGrants_proofs!ReplayFinal` | `ReplayKillsFamily` | A family revoked by a replay never has a grant again, whatever operators enable and however often the server restarts with whatever issuer. |
| `OAuthGrants_proofs!Refinement` | `ImplementsFamilies` | The tables implement TokenFamilies: every step of the server, the operators and the clients opens, rotates, closes or adopts families as it allows, or leaves them alone. |
| `AdminAuth_proofs!TypeCorrect` | `TypeOK` | Rows, sessions and the local states of commands and logins keep their shape, and a command that replaces or clears found a row to replace. |
| `AdminAuth_proofs!SoleTokenKept` |  | Where there is one token at the start, or none and a second command waits for the first, there is never a second row, for any number of commands and wherever they are cut short. |
| `AdminAuth_proofs!RotationTakesEffect` | `RotateReplacesActive` | From such a start, a rotated token is the one that logs in, for any number of concurrent commands. |
| `AdminAuth_proofs!StaleSessionsSafe` | `StaleSessionsExplained` | From the same start, no session outlives a rotation but in the windows the property names, for any number of commands and logins. |
| `InviteIssuance_proofs!TypeCorrect` | `TypeOK` | Invites, handlers and the ghost count of codes keep their shape and bounds. |
| `InviteIssuance_proofs!NeverOverRedeemed` | `RedemptionsBounded` | No invite is redeemed more often than it allows, for any number of handlers. |
| `InviteIssuance_proofs!EveryCodePaidFor` | `CodesArePaidFor` | Every code that names an invite has a redemption of its own, through failures and restarts. |
| `InviteIssuance_proofs!RevocationFinal` | `DeadNeverRedeemed` | A revoked invite is never redeemed, also by a handler that found it good before, and no handler redeems one that was past its expiry when it read the clock. |
| `EndpointQuota_proofs!TypeCorrect` | `TypeOK` | Rows, snapshots, edits and refreshes keep their types, for any number of rows, operators and refreshes. |
| `EndpointQuota_proofs!ShownQuotaAlwaysOwn` | `ShownQuotaIsOwn` | No row is shown with a quota asked for with another row's credentials, whatever is added, deleted and refreshed meanwhile. |
| `EndpointQuota_proofs!SidecarAlwaysExplained` | `SidecarExplained` | The columns of each row's quota sidecar agree, whatever operators, refreshes and deletions do, but where an update was written between the read and the write of the edit that wrote or kept the key; of a password no prefix or fingerprint is stored even then. |
| `EndpointQuota_proofs!CredentialAlwaysExplained` | `CredentialExplained` | Any number of refreshes ask in the flow that their credential is for, and never log in with an inference key; a separate key goes the wrong way only where edits of its row crossed. |
| `EndpointQuota_proofs!NextRowAlwaysDecided` |  | A refresh of all rows never waits for its next row: while any is left exactly one of them is next. |
| `EndpointQuota_proofs!RefreshesAlwaysMoveOn` |  | Each step of a refresh brings it closer to its end, and no step of an operator or of another refresh sends it back, whatever becomes of the rows it listed. |
| `EndpointQuota_proofs!TallyAlwaysTells` |  | The totals of a refresh-all are those of its results, and in the end each row it listed has one result and no other row has any. |
| `EndpointQuota_proofs!QuotaAlwaysCountsAccounts` |  | A v3 quota stored as available sums every account once, or else comes from an upstream that never declared its total and fills all the pages that are asked for. |
| `AttemptLog_proofs!TypeCorrect` | `TypeOK` | Log, counters, requests and the reader keep their shape, for any number of requests, retries and rows. |
| `AttemptLog_proofs!NewestKept` | `KeepsTheNewest` | Whatever inserts and prunes overlap or fail, the log is the newest rows without a gap, as many as retention allows and no more than one for each unpruned insert beyond that. |
| `AttemptLog_proofs!StoryTold` | `RowsTellTheStory` | The rows of a request are its latest attempts in order, none left out but those whose insert failed. |
| `AttemptLog_proofs!CountsAgree` | `CountsAgreeWithLog` | The counters are the answers counted, and agree with the terminal rows still kept. |
| `AttemptLog_proofs!PagingComplete` | `PagingPassesOverNone` | Turning pages passes over no row that is still kept, for any page size and any inserts and prunes in between. |
| `OAuthGrants_proofs!RedeemedOnce` | `CodeRedeemedOnce` | A code yields at most one family, for any number of codes, keys and handlers, also where the mint fails or the process restarts between the two transactions. |
| `OAuthGrants_proofs!ApprovalKept` | `FamilyKeepsApproval` | However often a family is refreshed, scope, client, issuance, resource and absolute expiry are those its code was approved with, no access outlives that expiry by more than one access lifetime, and config:write traces back to an operator. |
| `OAuthGrants_proofs!RevocationFinal` | `RevocationEndsFamily` | Once the newest key of a family is revoked or deleted no key joins the family and none of its keys is usable, whatever is enabled, refreshed or restarted afterwards. |
| `OAuthGrants_proofs!VerificationLinear` | `VerifyLinearizes` | Every verification that answers 200 saw a key valid in every respect at its first statement, for any number of calls and any interleaving with refresh, replay, revocation, restart and the clock. |
| `OAuthGrants_proofs!BindingAlwaysKept` | `BindingKept` | No restart and no change of the issuer retargets a row that is bound to a resource, and two keys of different families are never brought into one. |
| `OAuthGrants_proofs!FamiliesAreChains` |  | No refresh token ever has two successors: the keys of a family are one chain, each refreshed from the one minted in it just before, for any number of refreshes, replays, lost responses and restarts. |
| `OperatorLogin_proofs!TypeCorrect` | `TypeOK` | Settings, flows, consent forms and the handlers' local states keep their shape, for any number of users, browsers, apps, handlers and admins. |
| `OperatorLogin_proofs!ApprovedOnce` | `OneApprovalPerSignIn` | One completed sign-in approves at most one consent: what it came from is in one place at a time, the table of flows, a handler or the table of approvals. |
| `OperatorLogin_proofs!SecretKept` | `SecretOfItsApp` | The stored client secret is never that of another app than the stored client id, however saves interleave. |
| `OperatorLogin_proofs!ConsentAsStarted` | `ApprovedAsStarted` | An approval is given only to the consent its sign-in was started for, under the settings in force at that instant. |
| `OperatorLogin_proofs!TableStaysBounded` |  | The table of sign-ins and consents never holds more rows than its limit, expired ones counted, however many handlers put into it at once. |
| `AuditTrail_proofs!TypeCorrect` | `TypeOK` | Rows, events and the local states of the operators keep their shape, for any number of rows, operators and changes. |
| `AuditTrail_proofs!EveryChangeAccounted` | `ChangesAccounted` | Every value that stands in a row is explained by an event, or by an operator that has not recorded it yet, or by one of the failures the code lets pass. |
| `AuditTrail_proofs!TrailForward` | `TrailMovesForward` | An event whose edit began after another was in the trail never tells an older value of the same column, and none tells a value older than its own change, for any number of operators, columns and changes. |
| `ProxyForward_proofs!TypeCorrect` | `TypeOK` | Pool and requests keep their shape, and a request that is under way holds an endpoint that was inserted once. |
| `ProxyForward_proofs!RetriesGoAcrossKeys` | `RetryAcrossKeys` | A request comes back to an endpoint it failed on only when every eligible endpoint is demoted, for any number of requests, endpoints and operators. |
| `ProxyForward_proofs!CooldownsEndForAReason` | `CooldownEndsForAReason` | Only an operator or a later failure lifts or moves a cooldown. |
| `ProxyForward_proofs!SelectionIsPunctual` | `SelectionWithinASecond` | Text order of stamps misjudges the end of a cooldown by less than a second, for every clock whose ticks are a whole number of nanoseconds, up to the nine digits a stamp may have. |
| `ProxyForward_proofs!HealthIsTold` | `HealthTellsService` | The health page is right about whether a request would be answered exactly where no disabled row cools, none is enabled, or some rows serve and not as many as disabled ones cool, but for that second, for any number of rows. |
| `ProxyForward_proofs!ContractImplemented` | `ImplementsContract` | The retry loop implements RetryContract: one answer and at most MaxRetries sends for each request, and a network error told only when the attempts are used up. |
| `ProxyForward_proofs!SelectionDecided` |  | Whatever demotions and cooldowns a pool has and however fine its stamps, SelectEndpoint's order gives exactly one endpoint, or none is eligible and the request has its answer. |
| `ProxyForward_proofs!EveryTurnCounts` |  | Each step of a request brings it closer to its answer, and no step of an operator, the clock or another request takes it away: Forward ends within 2 * MaxRetries steps of its own. |
| `ProxyForward_proofs!CooldownsAreBounded` |  | No endpoint is out for longer than the longest cooldown there is, however often late failures move it. |

- **Families** (`OAuthGrants_proofs`). `GrantIsNewest` is not inductive: that the new key
  of a refresh is the newest needs that its grant's key had a family and an OAuth mint,
  that families are named for their oldest key, and that a killed family has no grants.
  The invariant is `TypeOK /\ FamilyShape /\ GrantIsNewest /\ ReplayKillsFamily`;
  `FamilyShape` says what rows of a family look like before and after binding. Under it
  - `Refinement`: a row in `grants` is a current key of its family. `MintFromCode` opens a
    family no row is in yet (its name is the number of the new key); `RefreshGrant` replaces
    the one current key; `ReplayRefresh` closes the family; `Restart` adopts the unnamed
    rows, whose names are free. All else is a stutter.
  - `RevocationFinal`: a key joins a family only by a refresh of the newest key, which is
    the one that is revoked or gone; so the members stay, and none of them but that one
    could have a grant.
- **Rows of a mint** (`OAuthGrants_proofs`). No step rewrites a row but the binding at a
  start, which touches blank columns only (`OldKey`, `BoundStays`), and a new row comes from
  a code that was taken or from a grant (`NewRow`). For `BindingKept`, a family is named for
  its oldest key, and a blank row gets its own name, which no other bears (`FamiliesApart`).
  `RedeemedOnce` adds that a row with a code stands on a code that is spent (`CodeInv`);
  `ApprovalKept` that a refreshed row is bound, so that binding never parts it from the row
  it came from (`ApprovalInv`); `VerificationLinear` that what was wrong with a key when a
  call saw it stays wrong until a check finds it (`CallInv`): a grant that is gone or has
  expired does not come back, and a resource changes only where no call survives.
- **Chains** (`OAuthGrants_proofs`). A refresh is of the one key that has a grant, by
  `GrantIsNewest` the newest of its family, so the new key follows it and no other
  (`Linked`). A start names families for the rows of the previous release, whose parents
  are none (`ChainInv`), and renames no other (`KeepsFamily`).
- **Invites** (`InviteIssuance_proofs`). What was issued, plus the handlers about to
  insert, is at most what was redeemed, which is at most the limit. The three hold each
  other up: the type of `issued` needs the other two. The steps that matter are the
  redemption (one handler more, one redemption more) and the insert (one handler less,
  one code more), with cardinalities from `FiniteSetTheorems`.
- **Admin token** (`AdminAuth_proofs`). `GoodStart` is one row at the start, and then any
  number of commands may start at any time, or none and `SetUpAlone`. From there on there
  is one row and no command between its count and its insert, or no row and a single
  command that runs. So the lowest row, which the UPDATE writes, is the highest, which
  `Verify` reads. `GoodStart` is an assumption of the three theorems, stated in them:
  without it the property fails (`found_two_tokens`), and the repository's deployment
  meets it by running `token sync-env` or `token init` once, before the gateway starts
  (`scripts/docker-entrypoint.sh:50-66`). For
  `StaleSessionsExplained` the invariant also speaks of logins that have yet to insert.
- **Quota** (`EndpointQuota_proofs`). For `ShownQuotaIsOwn`: ids are not reused
  (`RowsNumbered`), and everything a refresh carries is of the row it stores by
  (`AsksOwn`), so a snapshot found under an id was asked for with that row or with none.
  For `SidecarExplained` and `CredentialExplained`, what an editor read of a row is still
  true of it when it writes, or an update was written there in between and the edit is
  `overtaken` (`EditsAgree`); nothing else changes a row's mode or flow, and a deleted row does
  not come back. So a row's columns agree, or the row is `crossed` (`RowsExplained`), which
  is what `Resolve` finds and takes along. Both theorems are of every behaviour of the
  specification: what happens when edits do cross is part of what they say.
- **Refreshes** (`EndpointQuota_proofs`). `RefreshesMoveOn` counts the rows left, each
  worth all the steps one row may take, plus what is left of the row at hand
  (`StepsLeft`); that the next row exists and is one is the least element of a set of
  ids, by well-founded induction. For `TallyTells`, the rows without a result yet are
  those left to do and the one at hand (`Turns`, `Listing`, `Recorded`), so that each
  result adds one to a set and to the total that counts it (`Totals`). For
  `QuotaCountsAccounts`, before page n all n - 1 pages were full, so what was fetched is
  their sum (`Summed`); the last page falls short, or completes what was declared, or is
  the last one asked for. In that case an upstream that declares no total is summed up
  to the limit and stored as available, which the property says and does not excuse.
- **Operator sign-in** (`OperatorLogin_proofs`). Each sign-in has an origin, the token of
  its `Start`. The origin is in one place at a time: a flow, a handler between the flow it
  took and the consent it puts, or the approved (`Alone`). With it come the browser, form
  and revision of the start (`Traced`), and what a handler read of the settings is what
  they are while their revision stands. `SecretOfItsApp` holds because a save keeps the
  secret it loaded only with the client ID it loaded (`SecretsOK`). `FlowsBounded` is
  inductive: `put` is the only insert, and counts the rows in the same transaction.
- **Pool and proxy** (`ProxyForward_proofs`). An endpoint a request has burnt is demoted as
  long as it stays burnt (`Demoted`), so it is selected only if no eligible endpoint is
  not; and a request that is to send has an attempt left and no verdict (`Unanswered`),
  which is what `RetryContract` asks of a step. The bound of a second rests on one lemma on
  text order (`TextOrder`): stamps that compare one way as text and the other as times are
  of the same second. For `HealthTellsService`, the enabled rows are those that serve and
  those that cool, the cooling ones these and the disabled that cool: so the two numbers the
  page compares are equal when as many serve as disabled rows cool.
  For `SelectionIsDecided`, the eligible rows that never failed come before the others, and
  among either the text of the last failure decides, then the id: stamps are ranked by
  numbers that order as their text does (`Rank`: where the text ends, then what its last
  digit counts; `Nested` has that texts which go on where others end nest), a set of numbers has a least one by
  well-founded induction, and ids are unique. `CooldownsBounded` needs that no request
  starts in the future, as its failure counts the cooldown from its start (`Started`).
- **Attempt log** (`AttemptLog_proofs`). The log is an interval of ids, of a length that
  retention, the writers and `leftover` bound (`LogOK`); then a page is an interval too,
  and what a reader must have seen is said by the distance of a row from the newest
  (`ReaderOK`). Each request's rows are related to its handler by `Story`.
- **Audit trail** (`AuditTrail_proofs`). The columns of a row only move on, to the number
  of the newest change, and a change stands in the columns of one row at most; so what an
  event or a job has read bounds what the column says from then on (`EventOK`, `JobOK`).

Model-checked only is the liveness, `EveryRequestAnswered` and `RefreshEnds`, for the
installed provers handle neither fairness nor ENABLED. What remains to them is that steps
are taken at all: that each step leads on (`RequestsMoveOn`, `RefreshesMoveOn`) and that
the choice of the next one is made (`SelectionIsDecided`, `NextRowIsDecided`) is proved.

The theorems without a property in the table are of formulas no run lists. TLC found them
to hold on the instances of section 3 before they were proved.

## 5. Disagreements

Each is a run that checks what a document or comment says and finds it violated.

1. `found_two_tokens`. token.go:61 and 104 say there is a sole token and that `Rotate`
   replaces it. Two initialisations at once leave two rows, after which `Rotate` replaces
   the one that does not log in.
2. `found_quota_kept`. README.md:739-740 says "Switching away from `separate_credentials`
   deletes quota ciphertext and identity metadata. Switching back requires entering a new
   quota key." `RotateEndpointQuotaKey` reads the mode in one statement (`keys.go:281`) and
   writes key, prefix and fingerprint in another (`keys.go:304`), `WHERE id = ?`. An update
   in between switches away and deletes; the rotation then stores a key in a row of another
   mode, and a switch back in the same flow finds it there.

Other things the code does that a reader may not expect:

- health.go:95 says of a provider in cooldown that "enabled keys are cooling down", but
  lines 69-73 count disabled rows in cooldown with them. Where as many of these cool as
  enabled rows serve, the page says so of a provider that answers; where every enabled row
  cools and a disabled one too, it calls one in service that does not. `HealthTellsService`
  says that these are all the cases in which it is wrong.
- Where two quota edits of one row cross, a password may be left in a row whose flow is
  `admin` and go out as a bearer token. `CredentialExplained` and `SidecarExplained` say
  that nothing else leads there.
- The overview page titles a panel "Recent audit"
  (`web/admin/src/features/overview/OverviewPage.tsx:49`) and asks for five events (line 9);
  `handleAuditList` answers with `List`, which orders by id ascending (`audit.go:129`), so
  the panel shows the first five events ever recorded. Only the command line's tail calls
  `ListRecent`.
- A cooldown which ends on a whole second is judged past up to a second late, because
  `...:00Z` sorts after `...:00.5Z`, and one that ends on a tenth up to a tenth late, and so
  on (`SelectionWithinASecond` is the bound of all of them).
- A failure without a cooldown of its own clears the one another request has just set
  (`keys.go:776`), and disabling or enabling a row that is gone at the command line is
  recorded as `result=ok` (`keys.go:811`).
- A `Retry-After` of centuries overflows the duration (`cooldown.go:44`) into a cooldown
  that is over when it is written; for routing this is the duration 0 of the runs.

## 6. Not modelled

Text: hashing, encryption, PKCE, JSON, redaction, formatting and HTML are identity on
model values. Display columns are written and never read by what is modelled. Secrets and
identifiers are taken as unique. Time does not go back. A process of the previous release
that runs *while* the new one binds its rows is left out: the deployment replaces the
container. The columns that `RevokeUnused` compares are left out of `OAuthGrants`, where any
set of live keys may be the unused one. In `EndpointQuota`, the numbers of a quota and the
provider-wide snapshot (`Refresh`, `quota.go`), the name check of an insert, and an upstream
whose accounts change while it is paged through.

What these behaviours do is in the models, and no property says they should not:

- marks go by row id, to a row whose URL or key was changed while the request was under
  way (`keys.go:754`), and a cooldown counts from the start of the request (`proxy.go:102`);
- of two refreshes of one row the one that stores last wins, were it the older
  (`key_quota.go:140`), and a refresh fails at its page limit (`quota_refresh.go:487`),
  unless the upstream does not declare its total: then what the pages held is stored as
  the whole;
- a request refused for want of an endpoint leaves no terminal row in the attempt log
  (`proxy.go:108`), and a client that goes away marks the endpoint as a network error does
  (`proxy.go:130`);
- expired flows are cleared before the table is counted (`github.go:211`).

Requests that share an `X-Request-ID` are told apart in `AttemptLog` and not in the table
(`proxy.go:92`). Events of components other than provider endpoints are recorded by one call
after the change, like those of `AuditTrail`'s commands. Settings but the debug one, client
registration, static files and rendering, the configuration and the start of the process are
single statements, or none, without an interleaving of their own.

## 7. Plan

Done: `OAuthGrants` with `TokenFamilies`, the pool and the proxy, invites, the admin token,
operator sign-in, quota sidecars and their refresh, health, the attempt log with the usage
counters, the audit trail, and proofs of every safety property a passing run checks, and of
the variants by which the two loops end.

Left, in this order:

1. `CooldownPolicy`: `PolicyForStatus`, `ParseRetryAfter` and the provider-specific rules
   as operators, with 64-bit durations, over bounded inputs, against a reference
   definition; `ProxyForward` then takes its durations from it.
2. `QuotaNumbers`: the normalisations of `quota_refresh.go`, and `ProviderPool`'s sums,
   where a budget shared by several keys counts once.
3. `GatewayKeys`: hygiene by age (`RevokeUnused`) against verification's `Touch`.
