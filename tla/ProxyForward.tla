---------------------------- MODULE ProxyForward ----------------------------
(***************************************************************************)
(* Proxy.Forward: requests that pick an endpoint from the pool, send, mark *)
(* the outcome on the row they picked and, while the outcome is worth a    *)
(* retry, pick again; several at a time, with operators changing the pool  *)
(* between any two statements of theirs.                                   *)
(*                                                                         *)
(* The upstream is external: it answers in any of the ways Forward tells   *)
(* apart. A client that goes away cancels the request's context, and the   *)
(* send then ends like any other network error.                            *)
(*                                                                         *)
(* Definitions named Bug... are no part of Next: each is the definition     *)
(* that follows it with one plausible mistake.                             *)
(***************************************************************************)
EXTENDS ProviderPool

CONSTANTS
  Requests,    \* requests for the provider
  MaxRetries,  \* cooldown.Settings.MaxRetries, or its default
  Durations,   \* cooldowns of retryable statuses: settings and Retry-After
  Transient    \* cooldown of a network error

ProxyAssumption ==
  /\ MaxRetries \in Nat \ {0}
  /\ Durations \subseteq 0..MaxCooldown
  /\ Transient \in 0..MaxCooldown

ASSUME ProxyAssumption

VARIABLES req

vars == <<now, lastEndpoint, pool, req>>

Verdict == {"ok", "soft", "unreadable", "bad_request", "unconfigured", "no_url",
            "internal", "cool", "network"}

\* last is lastStatus: a retryable response is kept for the client. burnt is a
\* history field: rows the request marked as failed and nobody has cleared since.
Request == [pc: {"idle", "select", "sent", "answered"},
            startedAt: 0..MaxTime, attempt: 0..MaxRetries,
            endpoint: 0..MaxEndpoints,
            last: {"none", "cool"}, verdict: Verdict \cup {"none"},
            burnt: SUBSET Endpoint]

NoRequest == [pc |-> "idle", startedAt |-> 0, attempt |-> 0, endpoint |-> 0,
              last |-> "none", verdict |-> "none", burnt |-> {}]

TypeOK ==
  /\ PoolTypeOK
  /\ req \in [Requests -> Request]
  /\ \A r \in Requests : req[r].pc = "sent" => req[r].endpoint \in 1..lastEndpoint

Init == PoolInit /\ req = [r \in Requests |-> NoRequest]

----------------------------------------------------------------------------
(* One request. *)

\* The handler's local state goes with it; the number of attempts is kept.
Answered(row, v) == [NoRequest EXCEPT !.pc = "answered", !.verdict = v, !.attempt = row.attempt]

\* The clock is read once, before the first attempt.
Begin(r) ==
  /\ req[r].pc = "idle"
  /\ req' = [req EXCEPT ![r] = [@ EXCEPT !.pc = "select", !.startedAt = now]]
  /\ UNCHANGED <<now, lastEndpoint, pool>>

\* The body of the client's request cannot be read.
Refuse(r) ==
  /\ req[r].pc = "idle"
  /\ req' = [req EXCEPT ![r] = Answered(@, "bad_request")]
  /\ UNCHANGED <<now, lastEndpoint, pool>>

\* SelectEndpoint finds a row: the pair is used as it was read. A row without
\* base URL ends the request.
Select(r, e) ==
  /\ req[r].pc = "select"
  /\ Selected(e)
  /\ req' = [req EXCEPT ![r] =
       IF pool[e].url
         THEN [@ EXCEPT !.pc = "sent", !.endpoint = e]
         ELSE Answered(@, "no_url")]
  /\ UNCHANGED <<now, lastEndpoint, pool>>

\* Mistake: a request waits for an endpoint to become eligible.
BugSelectNone(r) == FALSE

\* ErrNoEnabledKey: the last upstream response, if there was one, is the answer.
SelectNone(r) ==
  /\ req[r].pc = "select"
  /\ NoneEligible
  /\ req' = [req EXCEPT ![r] =
       Answered(@, IF @.last = "none" THEN "unconfigured" ELSE @.last)]
  /\ UNCHANGED <<now, lastEndpoint, pool>>

\* The database or the decryption of the key fails.
SelectFails(r) ==
  /\ req[r].pc = "select"
  /\ req' = [req EXCEPT ![r] = Answered(@, "internal")]
  /\ UNCHANGED <<now, lastEndpoint, pool>>

\* Whoever clears an endpoint's demotion clears it for every request.
Forgiven(e) == [q \in Requests |-> [req[q] EXCEPT !.burnt = @ \ {e}]]

\* The request at the end of an attempt.
Attempted(r) == [req[r] EXCEPT !.attempt = req[r].attempt + 1]

Succeed(r) ==
  /\ req[r].pc = "sent"
  /\ MarkSuccess(req[r].endpoint)
  /\ req' = [Forgiven(req[r].endpoint) EXCEPT ![r] = Answered(Attempted(r), "ok")]
  /\ UNCHANGED now

\* Mistake: one attempt too many.
BugLastAttempt(r) == req[r].attempt = MaxRetries
LastAttempt(r) == req[r].attempt + 1 = MaxRetries

\* A failed attempt that is worth another, unless it was the last.
Burn(r, last, verdict) ==
  LET burnt == req[r].burnt \cup {e \in {req[r].endpoint} : pool[e].exists}
  IN req' = [req EXCEPT ![r] =
       IF LastAttempt(r)
         THEN Answered(Attempted(r), verdict)
         ELSE [Attempted(r) EXCEPT !.pc = "select", !.last = last, !.burnt = burnt]]

\* A status cooldown.PolicyForStatus retries, Tavily's plan limit, or Firecrawl
\* out of credit. The cooldown is counted from the start of the request.
CoolFailure(r, d) ==
  /\ req[r].pc = "sent"
  /\ MarkCool(req[r].endpoint, req[r].startedAt + d)
  /\ Burn(r, "cool", "cool")
  /\ UNCHANGED now

NetworkError(r) ==
  /\ req[r].pc = "sent"
  /\ MarkCool(req[r].endpoint, req[r].startedAt + Transient)
  /\ Burn(r, req[r].last, "network")
  /\ UNCHANGED now

\* Any other status is the client's to handle.
SoftFailure(r) ==
  /\ req[r].pc = "sent"
  /\ MarkSoft(req[r].endpoint)
  /\ req' = [req EXCEPT ![r] = Answered(Attempted(r), "soft")]
  /\ UNCHANGED now

\* The response breaks off: nothing is marked.
Unreadable(r) ==
  /\ req[r].pc = "sent"
  /\ req' = [req EXCEPT ![r] = Answered(Attempted(r), "unreadable")]
  /\ UNCHANGED <<now, lastEndpoint, pool>>

----------------------------------------------------------------------------
(* Operators, through the admin API or the CLI. *)

Administer(e) ==
  /\ Disable(e) \/ Enable(e) \/ Archive(e) \/ RestoreArchived(e) \/ DemoteToEnd(e)
  /\ UNCHANGED <<now, req>>

Clear(e) ==
  /\ ResetCooldown(e) \/ UpdateBaseURL(e) \/ RotateKey(e) \/ Delete(e) \/ ResetSelection(e)
  /\ req' = Forgiven(e)
  /\ UNCHANGED now

Add == AddEndpoint /\ UNCHANGED <<now, req>>

Tick ==
  /\ now < MaxTime
  /\ now' = now + 1
  /\ UNCHANGED <<lastEndpoint, pool, req>>

----------------------------------------------------------------------------

Respond(r) ==
  \/ Succeed(r)
  \/ \E d \in Durations : CoolFailure(r, d)
  \/ NetworkError(r)
  \/ SoftFailure(r)
  \/ Unreadable(r)

\* What a request does where the database does what it is asked.
Forward(r) ==
  \/ \E e \in Endpoint : Select(r, e)
  \/ SelectNone(r)
  \/ Respond(r)

AdminNext == Add \/ \E e \in 1..lastEndpoint : Administer(e) \/ Clear(e)

Next ==
  \/ \E r \in Requests : Begin(r) \/ Refuse(r) \/ Forward(r) \/ SelectFails(r)
  \/ AdminNext
  \/ Tick

Spec == Init /\ [][Next]_vars

\* Forward runs on a goroutine of its own, and a send ends: the upstream
\* answers, the connection breaks or the client's context is cancelled. No
\* request relies on the database failing.
FairSpec == Spec /\ \A r \in Requests : WF_vars(Forward(r))

----------------------------------------------------------------------------
(* Properties. *)

\* A request comes back to an endpoint it failed on only when every eligible
\* endpoint has failed: retries go across keys first.
RetryAcrossKeys ==
  [][\A r \in Requests :
       (req[r].pc = "select" /\ req'[r].pc = "sent" /\ req'[r].endpoint \in req[r].burnt)
         => \A d \in Endpoint : Eligible(d) => pool[d].lastFailed # 0]_vars

\* A cooldown is lifted or moved only by an operator or by a later failure:
\* the late success of a request that was under way when it began does not.
CooldownEndsForAReason ==
  [][\A e \in Endpoint :
       (pool[e].cooldownUntil # 0 /\ pool'[e].cooldownUntil # pool[e].cooldownUntil) =>
         \/ Clear(e)
         \/ \E r \in Requests : /\ req[r].pc = "sent" /\ req[r].endpoint = e
                                /\ req'[r].pc # "sent" /\ req'[r].verdict # "ok"]_vars

\* Text order of stamps is off by less than a second, both ways: an endpoint is
\* passed over for less than a second after its cooldown, and taken up less than
\* a second before its end.
SelectionWithinASecond ==
  \A e \in Endpoint :
    (pool[e].exists /\ pool[e].enabled /\ ~pool[e].archived /\ pool[e].cooldownUntil # 0) =>
      /\ Eligible(e) => pool[e].cooldownUntil < now + TicksPerSecond
      /\ ~Eligible(e) => now < pool[e].cooldownUntil + TicksPerSecond

\* What the health page makes of a pool, beside what SelectEndpoint finds in it.
\* BuildHealth counts the disabled endpoints that cool among the cooling ones it
\* compares with the enabled: so it tells whether a request would be answered
\* exactly where no disabled endpoint cools, or none is enabled, or some serve and
\* not as many as disabled ones cool; else it calls a provider that answers
\* cooling, or one that does not in service. Within a second of a cooldown's end
\* text order and parsed times may disagree as well.
HealthTellsService ==
  LET serving == {e \in Endpoint : Eligible(e)}
      resting == {e \in Kept \ EnabledRows : CooldownActive(e)}
      told == HealthStatus = "in_service" <=> serving # {}
  IN \/ told <=> \/ resting = {} \/ EnabledRows = {}
                 \/ serving # {} /\ Cardinality(serving) # Cardinality(resting)
     \/ \E e \in EnabledRows :
          /\ pool[e].cooldownUntil # 0
          /\ pool[e].cooldownUntil < now + TicksPerSecond
          /\ now < pool[e].cooldownUntil + TicksPerSecond

\* Every request that was begun is answered, by whatever pool operators and
\* failures leave it: an empty pool is an answer and not a wait.
EveryRequestAnswered ==
  \A r \in Requests : req[r].pc = "select" ~> req[r].pc = "answered"

\* What of that holds without fairness. SelectEndpoint's order leaves no doubt: some
\* endpoint is eligible and exactly one is first, or none is and there is an answer.
SelectionIsDecided ==
  IF NoneEligible THEN \A e \in Endpoint : ~Selected(e)
  ELSE \E e \in Endpoint : \A d \in Endpoint : Selected(d) <=> d = e

\* And each statement and each send of a request brings it closer to its answer,
\* from which nothing else takes it away: neither an operator, nor the clock, nor
\* another request that marks the endpoint it was sent to.
StepsLeft(r) ==
  LET left == 2 * (MaxRetries - req[r].attempt)
  IN CASE req[r].pc = "idle" -> left + 1
       [] req[r].pc = "select" -> left
       [] req[r].pc = "sent" -> left - 1
       [] req[r].pc = "answered" -> 0

RequestsMoveOn ==
  [][\A r \in Requests :
       /\ Forward(r) => StepsLeft(r)' < StepsLeft(r)
       /\ StepsLeft(r)' <= StepsLeft(r)]_vars

\* No endpoint is out for longer than the longest cooldown there is, though a
\* cooldown counts from the start of a request and any number of late failures
\* may move it.
CooldownsBounded ==
  \A e \in Endpoint : pool[e].cooldownUntil <= now + MaxCooldown

\* The retry loop implements RetryContract.
Contract == INSTANCE RetryContract WITH
  sends <- [r \in Requests |-> IF req[r].pc = "sent" THEN req[r].attempt + 1 ELSE req[r].attempt],
  verdict <- [r \in Requests |-> req[r].verdict]

\* Every step of the proxy is a step of the contract or leaves it unchanged.
ImplementsContract == Contract!Spec

============================================================================
