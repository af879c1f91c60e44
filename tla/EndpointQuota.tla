--------------------------- MODULE EndpointQuota ---------------------------
(***************************************************************************)
(* Quota sidecars of one provider's endpoints: the columns that say how a  *)
(* row's quota is asked for, the operators who edit them, the refreshes    *)
(* that ask upstream with them, and the snapshots these leave in           *)
(* provider_key_quota_cache.                                               *)
(*                                                                         *)
(* The provider is Grok, the one with two flows: "admin" lists tokens in   *)
(* one request, "v3" logs in with a user's password and pages through      *)
(* accounts. Every SQL statement is a step, and a request to the upstream  *)
(* lies between two of them. Numbers of a quota, redaction, times and      *)
(* last_event columns, which nothing here reads, are left out. A quota URL *)
(* is there in separate mode and in no other, so mode stands for it.       *)
(*                                                                         *)
(* Definitions named Bug... are no part of Next: each is the definition     *)
(* that follows it with one plausible mistake.                             *)
(***************************************************************************)
EXTENDS Integers, FiniteSets

CONSTANTS
  InitialEndpoints,  \* rows at the start, with the defaults of migration 0009
  MaxEndpoints,      \* bound on rows ever inserted
  MaxEdits,          \* bound on what operators and routing do to the rows
  Editors,           \* operators who edit quota sidecars
  Refreshers,        \* refresh requests at a time
  PageSize,          \* accounts on a page
  MaxPages,          \* pages a refresh asks for
  Accounts           \* numbers of accounts an upstream may have

Endpoint == 1..MaxEndpoints

QuotaAssumption ==
  /\ MaxEndpoints \in Nat
  /\ InitialEndpoints \in 0..MaxEndpoints
  /\ MaxEdits \in Nat
  /\ PageSize \in Nat \ {0}
  /\ MaxPages \in Nat \ {0}
  /\ Accounts \subseteq Nat

ASSUME QuotaAssumption

VARIABLES
  lastEndpoint,  \* AUTOINCREMENT counter
  inserted,      \* history: rows inserted so far
  rows,          \* provider_keys
  cache,         \* provider_key_quota_cache
  edit,          \* quota edits under way
  job,           \* refreshes under way
  edits          \* edits so far

vars == <<lastEndpoint, inserted, rows, cache, edit, job, edits>>

Mode == {"disabled", "endpoint_credentials", "separate_credentials"}
Flow == {"admin", "v3"}
Skip == {"", "archived", "disabled", "cooldown"}

\* skip is why refresh-all passes the row over. key is the flow a separate key
\* was given for, shown whether its prefix and fingerprint are stored. Two history
\* fields: born is the insertion that made the row, and crossed that the key was
\* written or kept by an edit that another one overtook.
Row == [exists: BOOLEAN, born: 0..MaxEndpoints, skip: Skip, mode: Mode, flow: Flow,
        key: Flow \cup {"none"}, shown: BOOLEAN, crossed: BOOLEAN]

NoRow == [exists |-> FALSE, born |-> 0, skip |-> "", mode |-> "disabled", flow |-> "admin",
          key |-> "none", shown |-> FALSE, crossed |-> FALSE]

\* of is a history field: the row whose credentials the upstream was asked with.
Snapshot == [of: 0..MaxEndpoints, available: BOOLEAN]
NoSnapshot == [of |-> 0, available |-> FALSE]

\* What an editor knows between the two statements of an edit. overtaken is a
\* history field: since it read the row, another update was written there.
Edit == [pc: {"idle", "update", "rotate"}, id: 0..MaxEndpoints, current: Flow, mode: Mode, flow: Flow,
         overtaken: BOOLEAN]
NoEdit == [pc |-> "idle", id |-> 0, current |-> "admin", mode |-> "disabled", flow |-> "admin",
           overtaken |-> FALSE]

\* What Get and List read of a row.
Display == [id: 0..MaxEndpoints, of: 0..MaxEndpoints, skip: Skip, mode: Mode, configured: BOOLEAN]
NoDisplay == [id |-> 0, of |-> 0, skip |-> "", mode |-> "disabled", configured |-> FALSE]

\* ResolvedEndpointQuota; "inference" is the row's own key. crossed is the row's.
Credential == [of: 0..MaxEndpoints, flow: Flow, key: Flow \cup {"none", "inference"},
               crossed: BOOLEAN]
NoCredential == [of |-> 0, flow |-> "admin", key |-> "none", crossed |-> FALSE]

Outcome == {"none", "archived", "disabled", "cooldown", "quota_disabled", "quota_not_configured",
            "available", "unavailable"}

Tally == [attempted: Nat, succeeded: Nat, failed: Nat, cooldown: Nat, disabled: Nat,
          archived: Nat, notConfigured: Nat]
NoTally == [attempted |-> 0, succeeded |-> 0, failed |-> 0, cooldown |-> 0, disabled |-> 0,
            archived |-> 0, notConfigured |-> 0]

Job == [pc: {"idle", "next", "resolve", "login", "tokens", "pages", "store", "done", "failed"},
        all: BOOLEAN, listed: SUBSET Endpoint, todo: SUBSET Display, row: Display,
        tally: Tally, results: [Endpoint -> Outcome],
        cred: Credential, accounts: Nat, declared: BOOLEAN, page: 0..MaxPages, fetched: Nat,
        available: BOOLEAN]

NoJob == [pc |-> "idle", all |-> FALSE, listed |-> {}, todo |-> {}, row |-> NoDisplay,
          tally |-> NoTally, results |-> [e \in Endpoint |-> "none"],
          cred |-> NoCredential, accounts |-> 0, declared |-> FALSE, page |-> 0, fetched |-> 0,
          available |-> FALSE]

TypeOK ==
  /\ lastEndpoint \in 0..MaxEndpoints
  /\ inserted \in 0..MaxEndpoints
  /\ rows \in [Endpoint -> Row]
  /\ cache \in [Endpoint -> Snapshot]
  /\ edit \in [Editors -> Edit]
  /\ job \in [Refreshers -> Job]
  /\ edits \in 0..MaxEdits
  /\ \A a \in Editors : edit[a].pc # "idle" => edit[a].id \in Endpoint

Init ==
  /\ lastEndpoint = InitialEndpoints
  /\ inserted = InitialEndpoints
  /\ rows = [e \in Endpoint |->
       IF e > InitialEndpoints THEN NoRow ELSE [NoRow EXCEPT !.exists = TRUE, !.born = e]]
  /\ cache = [e \in Endpoint |-> NoSnapshot]
  /\ edit = [a \in Editors |-> NoEdit]
  /\ job = [j \in Refreshers |-> NoJob]
  /\ edits = 0

----------------------------------------------------------------------------
(* Rows. *)

Counted == edits < MaxEdits /\ edits' = edits + 1

\* ValidateQuotaConfig: v3 logs in with a password, which no inference key is.
ValidConfig(mode, flow) == ~(flow = "v3" /\ mode = "endpoint_credentials")

\* quotaKeyIdentity: a short fingerprint would give a password away.
Identified(flow) == flow # "v3"

\* Mistake: one more than the greatest id in use, as INTEGER PRIMARY KEY gives
\* without AUTOINCREMENT.
BugNewId == CHOOSE n \in 1..(MaxEndpoints + 1) :
  /\ \A e \in Endpoint : rows[e].exists => e < n
  /\ n = 1 \/ rows[n - 1].exists
NewId == lastEndpoint + 1

\* A separate key is required on creation, in every other mode there is none.
AddEndpointWithQuota(mode, flow) ==
  /\ inserted < MaxEndpoints
  /\ NewId \in Endpoint
  /\ ValidConfig(mode, flow)
  /\ LET separate == mode = "separate_credentials"
     IN rows' = [rows EXCEPT ![NewId] =
          [exists |-> TRUE, born |-> inserted + 1, skip |-> "", mode |-> mode, flow |-> flow,
           key |-> IF separate THEN flow ELSE "none", shown |-> separate /\ Identified(flow),
           crossed |-> FALSE]]
  /\ lastEndpoint' = NewId
  /\ inserted' = inserted + 1
  /\ Counted
  /\ UNCHANGED <<cache, edit, job>>

\* The snapshot of a deleted row stays in the cache.
DeleteEndpoint(e) ==
  /\ rows[e].exists
  /\ rows' = [rows EXCEPT ![e] = NoRow]
  /\ Counted
  /\ UNCHANGED <<lastEndpoint, inserted, cache, edit, job>>

\* What ProviderPool does to a row, as far as poolKeySkipReason tells: it looks
\* at archived_at first, and a restored row is disabled.
RoutingChange(e, skip) ==
  /\ rows[e].exists /\ skip # rows[e].skip
  /\ rows[e].skip = "archived" => skip = "disabled"
  /\ rows' = [rows EXCEPT ![e].skip = skip]
  /\ Counted
  /\ UNCHANGED <<lastEndpoint, inserted, cache, edit, job>>

----------------------------------------------------------------------------
(* Quota edits: a row is read, and then updated by id. *)

BeginUpdate(a, e, mode, flow) ==
  /\ edit[a].pc = "idle"
  /\ rows[e].exists /\ ValidConfig(mode, flow)
  /\ edit' = [edit EXCEPT ![a] = [pc |-> "update", id |-> e, current |-> rows[e].flow,
                                  mode |-> mode, flow |-> flow, overtaken |-> FALSE]]
  /\ Counted
  /\ UNCHANGED <<lastEndpoint, inserted, rows, cache, job>>

\* Mistake: a password kept for the other flow's login is kept.
BugClearsCredential(q) == FALSE
ClearsCredential(q) == q.current # q.flow

Updated(row, q) ==
  LET keep == q.mode = "separate_credentials" /\ ~ClearsCredential(q)
  IN [row EXCEPT !.mode = q.mode, !.flow = q.flow,
       !.key = IF keep THEN @ ELSE "none",
       !.shown = @ /\ keep /\ Identified(q.flow),
       !.crossed = keep /\ (@ \/ q.overtaken)]

Overtaken(q, id) == [q EXCEPT !.overtaken = @ \/ q.id = id]

FinishUpdate(a) ==
  LET q == edit[a] IN
  /\ q.pc = "update"
  /\ rows' = IF rows[q.id].exists THEN [rows EXCEPT ![q.id] = Updated(@, q)] ELSE rows
  /\ edit' = [b \in Editors |-> IF b = a THEN NoEdit ELSE Overtaken(edit[b], q.id)]
  /\ UNCHANGED <<lastEndpoint, inserted, cache, job, edits>>

\* The operator gives a key for the flow the row has.
BeginRotate(a, e) ==
  /\ edit[a].pc = "idle"
  /\ rows[e].exists /\ rows[e].mode = "separate_credentials"
  /\ edit' = [edit EXCEPT ![a] = [NoEdit EXCEPT !.pc = "rotate", !.id = e, !.current = rows[e].flow]]
  /\ Counted
  /\ UNCHANGED <<lastEndpoint, inserted, rows, cache, job>>

FinishRotate(a) ==
  LET q == edit[a] IN
  /\ q.pc = "rotate"
  /\ rows' = IF rows[q.id].exists
       THEN [rows EXCEPT ![q.id].key = q.current, ![q.id].shown = Identified(q.current),
                         ![q.id].crossed = q.overtaken]
       ELSE rows
  /\ edit' = [edit EXCEPT ![a] = NoEdit]
  /\ UNCHANGED <<lastEndpoint, inserted, cache, job, edits>>

\* The second statement fails, or the key cannot be encrypted.
AbandonEdit(a) ==
  /\ edit[a].pc # "idle"
  /\ edit' = [edit EXCEPT ![a] = NoEdit]
  /\ UNCHANGED <<lastEndpoint, inserted, rows, cache, job, edits>>

----------------------------------------------------------------------------
(* Refreshes. *)

DisplayOf(e) ==
  [id |-> e, of |-> rows[e].born, skip |-> rows[e].skip, mode |-> rows[e].mode,
   configured |-> rows[e].key # "none"]

Ended(j) == job[j].pc \in {"idle", "done", "failed"}

RefreshKey(j, e) ==
  /\ Ended(j) /\ rows[e].exists
  /\ job' = [job EXCEPT ![j] = [NoJob EXCEPT !.pc = "resolve", !.row = DisplayOf(e)]]
  /\ UNCHANGED <<lastEndpoint, inserted, rows, cache, edit, edits>>

\* The rows are listed once; what becomes of them meanwhile is not looked at.
RefreshAllKeys(j) ==
  /\ Ended(j)
  /\ LET ids == {e \in Endpoint : rows[e].exists}
     IN job' = [job EXCEPT ![j] = [NoJob EXCEPT !.pc = "next", !.all = TRUE, !.listed = ids,
                                                !.todo = {DisplayOf(e) : e \in ids}]]
  /\ UNCHANGED <<lastEndpoint, inserted, rows, cache, edit, edits>>

SkipReason(d) ==
  CASE d.skip # "" -> d.skip
    [] d.skip = "" /\ d.mode = "disabled" -> "quota_disabled"
    [] d.skip = "" /\ d.mode = "separate_credentials" /\ ~d.configured -> "quota_not_configured"
    [] OTHER -> "none"

Skipped(tally, reason) ==
  CASE reason = "archived" -> [tally EXCEPT !.archived = @ + 1]
    [] reason = "cooldown" -> [tally EXCEPT !.cooldown = @ + 1]
    [] reason = "quota_not_configured" -> [tally EXCEPT !.notConfigured = @ + 1]
    [] OTHER -> [tally EXCEPT !.disabled = @ + 1]

IsNext(j, d) == /\ job[j].pc = "next" /\ d \in job[j].todo
                /\ \A c \in job[j].todo : d.id <= c.id

SkipNext(j, d) ==
  /\ IsNext(j, d) /\ SkipReason(d) # "none"
  /\ job' = [job EXCEPT ![j].todo = @ \ {d}, ![j].tally = Skipped(@, SkipReason(d)),
                        ![j].results[d.id] = SkipReason(d)]
  /\ UNCHANGED <<lastEndpoint, inserted, rows, cache, edit, edits>>

AttemptNext(j, d) ==
  /\ IsNext(j, d) /\ SkipReason(d) = "none"
  /\ job' = [job EXCEPT ![j].pc = "resolve", ![j].todo = @ \ {d}, ![j].row = d,
                        ![j].tally.attempted = @ + 1]
  /\ UNCHANGED <<lastEndpoint, inserted, rows, cache, edit, edits>>

\* What is to be stored for the row, found without asking or by asking.
Answer(j, available) ==
  /\ job' = [job EXCEPT ![j].pc = "store", ![j].available = available]
  /\ UNCHANGED <<lastEndpoint, inserted, rows, cache, edit, edits>>

\* ResolveEndpointQuota has credentials to give.
Resolvable(e) ==
  /\ rows[e].exists
  /\ rows[e].mode # "disabled"
  /\ rows[e].mode = "separate_credentials" => rows[e].key # "none"

\* Mistake: the display row's mode decides, and the row's key is sent as it is.
BugCredentialOf(j) ==
  LET r == rows[job[j].row.id] IN
  [of |-> r.born, flow |-> r.flow,
   key |-> IF job[j].row.mode = "endpoint_credentials" THEN "inference" ELSE r.key,
   crossed |-> r.crossed]

CredentialOf(j) ==
  LET r == rows[job[j].row.id] IN
  [of |-> r.born, flow |-> r.flow,
   key |-> IF r.mode = "endpoint_credentials" THEN "inference" ELSE r.key,
   crossed |-> r.crossed]

\* One statement reads flow, URL and key together.
Resolve(j) ==
  /\ job[j].pc = "resolve" /\ Resolvable(job[j].row.id)
  /\ LET cred == CredentialOf(j)
     IN job' = [job EXCEPT ![j].cred = cred, ![j].pc = IF cred.flow = "v3" THEN "login" ELSE "tokens"]
  /\ UNCHANGED <<lastEndpoint, inserted, rows, cache, edit, edits>>

\* The quota is disabled or not configured, the row is gone, or its key cannot
\* be decrypted.
ResolveNothing(j) ==
  /\ job[j].pc = "resolve"
  /\ job' = [job EXCEPT ![j].pc = "store", ![j].available = FALSE,
                        ![j].cred = [NoCredential EXCEPT !.of = job[j].row.of]]
  /\ UNCHANGED <<lastEndpoint, inserted, rows, cache, edit, edits>>

FetchTokens(j) ==
  /\ job[j].pc = "tokens"
  /\ \E available \in BOOLEAN : Answer(j, available)

\* The key is no password, or the login is refused.
LoginFails(j) == job[j].pc = "login" /\ Answer(j, FALSE)

\* An upstream with n accounts, which says so on every page or never.
Login(j, n, declared) ==
  /\ job[j].pc = "login"
  /\ job' = [job EXCEPT ![j].pc = "pages", ![j].page = 1, ![j].accounts = n, ![j].declared = declared]
  /\ UNCHANGED <<lastEndpoint, inserted, rows, cache, edit, edits>>

PageFails(j) == job[j].pc = "pages" /\ Answer(j, FALSE)

OnPage(j) ==
  LET left == job[j].accounts - (job[j].page - 1) * PageSize
  IN IF left < 0 THEN 0 ELSE IF left < PageSize THEN left ELSE PageSize

\* Mistake: one page too many.
BugLastPage(j) ==
  \/ OnPage(j) < PageSize
  \/ job[j].declared /\ job[j].fetched + OnPage(j) >= job[j].accounts
  \/ job[j].page > MaxPages

LastPage(j) ==
  \/ OnPage(j) < PageSize
  \/ job[j].declared /\ job[j].fetched + OnPage(j) >= job[j].accounts
  \/ job[j].page = MaxPages

Complete(j, fetched) == ~(job[j].declared /\ job[j].accounts > fetched)

FetchPage(j) ==
  /\ job[j].pc = "pages"
  /\ LET fetched == job[j].fetched + OnPage(j)
     IN job' = [job EXCEPT ![j] =
          IF LastPage(j)
            THEN [job[j] EXCEPT !.pc = "store", !.fetched = fetched,
                                !.available = Complete(j, fetched)]
            ELSE [job[j] EXCEPT !.page = @ + 1, !.fetched = fetched]]
  /\ UNCHANGED <<lastEndpoint, inserted, rows, cache, edit, edits>>

\* Upsert, by id: whether the row is still there does not matter.
Store(j) ==
  /\ job[j].pc = "store"
  /\ cache' = [cache EXCEPT ![job[j].row.id] =
                [of |-> job[j].cred.of, available |-> job[j].available]]
  /\ job' = [job EXCEPT ![j] =
       IF ~job[j].all THEN [NoJob EXCEPT !.pc = "done"]
       ELSE [NoJob EXCEPT !.pc = "next", !.all = TRUE, !.listed = job[j].listed,
              !.todo = job[j].todo,
              !.tally = IF job[j].available
                THEN [job[j].tally EXCEPT !.succeeded = @ + 1]
                ELSE [job[j].tally EXCEPT !.failed = @ + 1],
              !.results = [job[j].results EXCEPT ![job[j].row.id] =
                             IF job[j].available THEN "available" ELSE "unavailable"]]]
  /\ UNCHANGED <<lastEndpoint, inserted, rows, edit, edits>>

\* The refresh ends with an error; rows stored before stay stored.
StoreFails(j) ==
  /\ job[j].pc = "store"
  /\ job' = [job EXCEPT ![j] = [NoJob EXCEPT !.pc = "failed"]]
  /\ UNCHANGED <<lastEndpoint, inserted, rows, cache, edit, edits>>

\* Mistake: where no row was listed, it waits for one.
BugFinish(j) ==
  /\ job[j].pc = "next" /\ job[j].todo = {}
  /\ job' = [job EXCEPT ![j].pc = IF job[j].listed = {} THEN "next" ELSE "done"]
  /\ UNCHANGED <<lastEndpoint, inserted, rows, cache, edit, edits>>

Finish(j) ==
  /\ job[j].pc = "next" /\ job[j].todo = {}
  /\ job' = [job EXCEPT ![j].pc = "done"]
  /\ UNCHANGED <<lastEndpoint, inserted, rows, cache, edit, edits>>

\* The pool lists the rows there are, each with the snapshot of its id, if any.
Shown(e) == rows[e].exists /\ cache[e].of # 0

----------------------------------------------------------------------------

\* What a refresh does where the database does what it is asked.
Progress(j) ==
  \/ \E d \in job[j].todo : SkipNext(j, d) \/ AttemptNext(j, d)
  \/ Resolve(j)
  \/ ResolveNothing(j)
  \/ FetchTokens(j)
  \/ LoginFails(j)
  \/ \E n \in Accounts, declared \in BOOLEAN : Login(j, n, declared)
  \/ PageFails(j)
  \/ FetchPage(j)
  \/ Store(j)
  \/ Finish(j)

Refresh(j) ==
  \/ \E e \in Endpoint : RefreshKey(j, e)
  \/ RefreshAllKeys(j)
  \/ Progress(j)
  \/ StoreFails(j)

EditQuota(a) ==
  \/ \E e \in Endpoint, mode \in Mode, flow \in Flow : BeginUpdate(a, e, mode, flow)
  \/ FinishUpdate(a)
  \/ \E e \in Endpoint : BeginRotate(a, e)
  \/ FinishRotate(a)
  \/ AbandonEdit(a)

EditRows ==
  \/ \E mode \in Mode, flow \in Flow : AddEndpointWithQuota(mode, flow)
  \/ \E e \in Endpoint : DeleteEndpoint(e)
  \/ \E e \in Endpoint, skip \in Skip : RoutingChange(e, skip)

Next ==
  \/ EditRows
  \/ \E a \in Editors : EditQuota(a)
  \/ \E j \in Refreshers : Refresh(j)

Spec == Init /\ [][Next]_vars

\* A refresh is one HTTP request to the gateway, on a goroutine of its own, and
\* its requests to the upstream end: the client gives each 15 seconds.
FairSpec == Spec /\ \A j \in Refreshers : WF_vars(Progress(j))

----------------------------------------------------------------------------
(* Properties. *)

\* The sidecar's columns agree, and where they do not two operators crossed: a
\* separate key is in a row in separate mode only and for the flow it was given
\* for, with its prefix and fingerprint beside it, unless an update was written
\* between the read and the write of the edit that wrote or kept the key. Even then
\* prefix and fingerprint are those of an admin key: of a password neither is ever
\* stored (UpdateEndpointQuota, RotateEndpointQuotaKey, quotaKeyIdentity).
SidecarExplained ==
  \A e \in Endpoint :
    /\ rows[e].shown => rows[e].key = "admin"
    /\ ~rows[e].crossed =>
         /\ rows[e].key # "none" =>
              rows[e].mode = "separate_credentials" /\ rows[e].key = rows[e].flow
         /\ rows[e].key = "admin" => rows[e].shown

\* An inference key is never sent as a password, whatever edits cross and fall
\* between the listing of a row and the request. A separate key is sent in the flow
\* it was given for, a password never as a bearer token, unless the row it was read
\* from had its edits crossed (ResolveEndpointQuota, refreshKeyFromSidecar).
CredentialExplained ==
  \A j \in Refreshers :
    job[j].pc \in {"login", "tokens", "pages"} =>
      \/ job[j].cred.key = "inference" /\ job[j].cred.flow # "v3"
      \/ job[j].cred.key = job[j].cred.flow
      \/ job[j].cred.key \in Flow /\ job[j].cred.crossed

\* What src/README.md says of quota keys: switching away from separate_credentials
\* deletes ciphertext and identity, so that no row in another mode has either. The
\* rotation that read the mode before the switch writes them after it.
OnlySeparateModeKeepsKey ==
  \A e \in Endpoint :
    rows[e].key # "none" \/ rows[e].shown => rows[e].mode = "separate_credentials"

\* The quota the pool shows for a row was asked for with that row's credentials,
\* though snapshots outlive their rows and refreshes store by id what they asked
\* for before the row was deleted (ProviderPool, Upsert, Delete).
ShownQuotaIsOwn ==
  \A e \in Endpoint : Shown(e) => cache[e].of = rows[e].born

\* Every refresh that begins ends, whatever is done to the rows it listed.
RefreshEnds ==
  \A j \in Refreshers : ~Ended(j) ~> Ended(j)

\* What of that holds without fairness: one row is next while any is left, and each
\* step brings the refresh closer to its end, from which nobody else takes it away.
NextRowIsDecided ==
  \A j \in Refreshers :
    job[j].pc = "next" /\ job[j].todo # {} =>
      \E d \in job[j].todo : \A c \in job[j].todo : IsNext(j, c) <=> c = d

Stage(j) ==
  CASE Ended(j) -> 0
    [] job[j].pc = "next" -> 1
    [] job[j].pc = "store" -> 2
    [] job[j].pc = "tokens" -> 3
    [] job[j].pc = "pages" -> MaxPages - job[j].page + 3
    [] job[j].pc = "login" -> MaxPages + 3
    [] job[j].pc = "resolve" -> MaxPages + 4

StepsLeft(j) == Cardinality(job[j].todo) * (MaxPages + 5) + Stage(j)

RefreshesMoveOn ==
  [][\A j \in Refreshers :
       /\ Progress(j) => StepsLeft(j)' < StepsLeft(j)
       /\ ~Ended(j) => StepsLeft(j)' <= StepsLeft(j)]_vars

Working(j) == job[j].pc \in {"resolve", "login", "tokens", "pages", "store"}

\* The tally of a refresh-all agrees with the results it is returned with, and in
\* the end every row that was listed has one result and no other row has any,
\* whatever has become of the rows (RefreshAll).
TallyTells ==
  \A j \in Refreshers : job[j].all =>
    LET tally == job[j].tally
        With(outcomes) == Cardinality({e \in Endpoint : job[j].results[e] \in outcomes})
    IN /\ tally.succeeded = With({"available"})
       /\ tally.failed = With({"unavailable"})
       /\ tally.archived = With({"archived"})
       /\ tally.cooldown = With({"cooldown"})
       /\ tally.disabled = With({"disabled", "quota_disabled"})
       /\ tally.notConfigured = With({"quota_not_configured"})
       /\ tally.attempted = tally.succeeded + tally.failed + IF Working(j) THEN 1 ELSE 0
       /\ job[j].pc = "done" =>
            \A e \in Endpoint : job[j].results[e] # "none" <=> e \in job[j].listed

\* A v3 quota that is stored as available sums every account once, or those of
\* all the pages there are from an upstream that never says how many it has.
QuotaCountsAccounts ==
  \A j \in Refreshers :
    (job[j].pc = "store" /\ job[j].available /\ job[j].cred.flow = "v3") =>
      \/ job[j].fetched = job[j].accounts
      \/ /\ ~job[j].declared
         /\ job[j].fetched = MaxPages * PageSize /\ job[j].accounts > job[j].fetched

============================================================================
