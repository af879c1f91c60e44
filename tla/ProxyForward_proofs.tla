------------------------ MODULE ProxyForward_proofs ------------------------
(***************************************************************************)
(* Proofs about ProxyForward, for any number of requests, endpoints and    *)
(* attempts and any cooldowns.                                             *)
(*                                                                         *)
(* Two facts about a request carry them. An endpoint it has burnt is       *)
(* demoted for as long as it stays burnt, because whoever clears the       *)
(* demotion clears the mark with it (Demoted). And a request that is to    *)
(* send again has an attempt left and no answer yet (Unanswered).          *)
(***************************************************************************)
EXTENDS ProxyForward, FiniteSetTheorems, WellFoundedInduction, TLAPS

\* What a request has burnt stays at the end of the order of selection.
Demoted(row) == \A e \in row.burnt : pool[e].exists /\ pool[e].lastFailed # 0

\* What the answer rests on before there is one.
Unanswered(row) ==
  /\ row.pc # "answered" => row.attempt < MaxRetries /\ row.verdict = "none"
  /\ row.last = "cool" => row.attempt > 0

IInv ==
  /\ TypeOK
  /\ \A r \in Requests : Demoted(req[r])
  /\ \A r \in Requests : Unanswered(req[r])

USE PoolAssumption, ProxyAssumption, TimestampsAssumption
USE DEF PoolAssumption, ProxyAssumption, Endpoint, Stamp

----------------------------------------------------------------------------
(* Rows and requests. *)

LEMMA FreshRows ==
  /\ NoRow \in Row /\ ~NoRow.exists
  /\ NewRow \in Row /\ NewRow.exists
  /\ \A url \in BOOLEAN : [NewRow EXCEPT !.url = url] \in Row
<1>1. NoRow \in Row /\ ~NoRow.exists
  BY DEF NoRow, Row
<1>2. NewRow \in Row /\ NewRow.exists
  BY <1>1 DEF NewRow, Row
<1> QED
  BY <1>1, <1>2 DEF Row

LEMMA FreshRequest ==
  /\ NoRequest \in Request
  /\ NoRequest.pc = "idle" /\ NoRequest.attempt = 0 /\ NoRequest.burnt = {}
  /\ NoRequest.last = "none" /\ NoRequest.verdict = "none"
BY DEF NoRequest, Request

LEMMA AnsweredRequest ==
  ASSUME NEW row \in Request, NEW v \in Verdict
  PROVE  /\ Answered(row, v) \in Request
         /\ Answered(row, v).pc = "answered" /\ Answered(row, v).verdict = v
         /\ Answered(row, v).attempt = row.attempt
         /\ Answered(row, v).burnt = {} /\ Answered(row, v).last = "none"
         /\ Demoted(Answered(row, v)) /\ Unanswered(Answered(row, v))
<1>1. row.attempt \in 0..MaxRetries
  BY DEF Request
<1>2. /\ Answered(row, v) \in Request
      /\ Answered(row, v).pc = "answered" /\ Answered(row, v).verdict = v
      /\ Answered(row, v).attempt = row.attempt
      /\ Answered(row, v).burnt = {} /\ Answered(row, v).last = "none"
  BY <1>1, FreshRequest DEF Answered, Request
<1> HIDE DEF Answered
<1> QED
  BY <1>2 DEF Demoted, Unanswered

LEMMA InitHolds == Init => IInv
<1> SUFFICES ASSUME Init PROVE IInv
  OBVIOUS
<1>1. PoolTypeOK
  <2>1. \A e \in Endpoint :
          pool[e] = IF e > InitialEndpoints THEN NoRow ELSE [NewRow EXCEPT !.url = e \notin BlankRows]
    BY DEF Init, PoolInit
  <2>2. \A e \in Endpoint : (e \notin BlankRows) \in BOOLEAN
    OBVIOUS
  <2>3. \A e \in Endpoint : pool[e] \in Row
    BY <2>1, <2>2, FreshRows
  <2>4. \A e \in Endpoint : pool[e].exists => e <= InitialEndpoints
    <3>1. \A e \in Endpoint : e > InitialEndpoints => pool[e] = NoRow
      BY <2>1
    <3>2. InitialEndpoints \in Int
      OBVIOUS
    <3> QED
      BY <3>1, <3>2, FreshRows
  <2>5. pool \in [Endpoint -> Row]
    BY <2>3 DEF Init, PoolInit
  <2>6. now \in 1..MaxTime /\ lastEndpoint \in 0..MaxEndpoints /\ lastEndpoint = InitialEndpoints
    BY DEF Init, PoolInit
  <2> QED
    BY <2>4, <2>5, <2>6 DEF PoolTypeOK
<1>2. \A r \in Requests : req[r] = NoRequest
  BY DEF Init
<1> QED
  BY <1>1, <1>2, FreshRequest DEF Init, IInv, TypeOK, Demoted, Unanswered

----------------------------------------------------------------------------
(* Steps on the pool. *)

\* A statement keyed by id: nothing but the row it names changes.
LEMMA UpdateOne ==
  ASSUME PoolTypeOK, NEW e \in 1..lastEndpoint, NEW row \in Row, Update(e, row), now' = now
  PROVE  /\ PoolTypeOK'
         /\ lastEndpoint' = lastEndpoint
         /\ \A d \in Endpoint : pool'[d] = IF d = e /\ pool[e].exists THEN row ELSE pool[d]
<1>1. e \in Endpoint
  BY DEF PoolTypeOK
<1> QED
  BY <1>1 DEF PoolTypeOK, Update

LEMMA RowChanges ==
  ASSUME NEW row \in Row, NEW s \in Stamp, NEW t \in Stamp
  PROVE  /\ [row EXCEPT !.enabled = FALSE] \in Row /\ [row EXCEPT !.enabled = TRUE] \in Row
         /\ [row EXCEPT !.enabled = FALSE, !.archived = TRUE] \in Row
         /\ [row EXCEPT !.enabled = FALSE, !.archived = FALSE] \in Row
         /\ [row EXCEPT !.lastFailed = t] \in Row
         /\ [row EXCEPT !.cooldownUntil = s] \in Row
         /\ [row EXCEPT !.cooldownUntil = s, !.lastFailed = t] \in Row
         /\ [row EXCEPT !.url = TRUE, !.cooldownUntil = s, !.lastFailed = t] \in Row
BY DEF Row

LEMMA ClockStamp ==
  ASSUME PoolTypeOK
  PROVE  now \in Stamp /\ 0 \in Stamp /\ now # 0
BY DEF PoolTypeOK

\* What every statement leaves of the facts about requests: a row that stays
\* demoted, or whose mark is lifted.
LEMMA DemotedStays ==
  ASSUME NEW row, Demoted(row),
         \A e \in row.burnt : pool[e].exists /\ pool[e].lastFailed # 0 =>
                                pool'[e].exists /\ pool'[e].lastFailed # 0
  PROVE  Demoted(row)'
BY DEF Demoted

\* The request of one r changes, in a pool that stays as it is.
LEMMA TurnKeeps ==
  ASSUME IInv, NEW r \in Requests, NEW row \in Request, req' = [req EXCEPT ![r] = row],
         UNCHANGED <<now, lastEndpoint, pool>>, Demoted(row), Unanswered(row),
         row.pc = "sent" => row.endpoint \in 1..lastEndpoint
  PROVE  IInv'
<1>1. \A q \in Requests : req'[q] = IF q = r THEN row ELSE req[q]
  BY DEF IInv, TypeOK
<1>2. PoolTypeOK'
  BY DEF IInv, TypeOK, PoolTypeOK
<1>3. req' \in [Requests -> Request]
  BY DEF IInv, TypeOK
<1>4. \A q \in Requests : req'[q].pc = "sent" => req'[q].endpoint \in 1..lastEndpoint'
  BY <1>1 DEF IInv, TypeOK
<1>5. \A q \in Requests : Demoted(req'[q]) /\ Unanswered(req'[q])
  BY <1>1 DEF IInv
<1>6. \A q \in Requests : Demoted(req[q])' /\ Unanswered(req[q])'
  BY <1>5 DEF Demoted, Unanswered
<1> QED
  BY <1>2, <1>3, <1>4, <1>6 DEF IInv, TypeOK

LEMMA BeginKeeps ==
  ASSUME IInv, NEW r \in Requests, Begin(r)
  PROVE  IInv'
<1>1. /\ req[r].pc = "idle" /\ req[r] \in Request /\ Unanswered(req[r]) /\ Demoted(req[r])
      /\ UNCHANGED <<now, lastEndpoint, pool>>
      /\ req' = [req EXCEPT ![r] = [req[r] EXCEPT !.pc = "select", !.startedAt = now]]
  BY DEF Begin, IInv, TypeOK
<1>2. now \in 0..MaxTime
  BY DEF IInv, TypeOK, PoolTypeOK
<1>3. PICK row \in Request : row = [req[r] EXCEPT !.pc = "select", !.startedAt = now]
  BY <1>1, <1>2 DEF Request
<1>4. /\ row.pc = "select" /\ row.attempt = req[r].attempt /\ row.last = req[r].last
      /\ row.verdict = req[r].verdict /\ row.burnt = req[r].burnt
  BY <1>1, <1>3 DEF Request
<1>5. Demoted(row) /\ Unanswered(row)
  BY <1>1, <1>4 DEF Demoted, Unanswered
<1> QED
  BY <1>1, <1>3, <1>4, <1>5, TurnKeeps

\* A request is answered, and the pool stays as it is.
LEMMA AnswerKeeps ==
  ASSUME IInv, NEW r \in Requests, NEW v \in Verdict, NEW row \in Request,
         req' = [req EXCEPT ![r] = Answered(row, v)], UNCHANGED <<now, lastEndpoint, pool>>
  PROVE  IInv'
<1>1. /\ Answered(row, v) \in Request /\ Answered(row, v).pc = "answered"
      /\ Demoted(Answered(row, v)) /\ Unanswered(Answered(row, v))
  BY AnsweredRequest
<1> QED
  BY <1>1, TurnKeeps

LEMMA SelectKeeps ==
  ASSUME IInv, NEW r \in Requests, NEW e \in Endpoint, Select(r, e)
  PROVE  IInv'
<1>1. /\ req[r].pc = "select" /\ req[r] \in Request /\ Unanswered(req[r]) /\ Demoted(req[r])
      /\ UNCHANGED <<now, lastEndpoint, pool>>
      /\ req' = [req EXCEPT ![r] = IF pool[e].url THEN [req[r] EXCEPT !.pc = "sent", !.endpoint = e]
                                   ELSE Answered(req[r], "no_url")]
  BY DEF Select, IInv, TypeOK
<1>2. CASE ~pool[e].url
  <2>1. req' = [req EXCEPT ![r] = Answered(req[r], "no_url")] /\ "no_url" \in Verdict
    BY <1>1, <1>2 DEF Verdict
  <2> QED
    BY <1>1, <2>1, AnswerKeeps
<1>3. CASE pool[e].url
  <2>1. PICK row \in Request : row = [req[r] EXCEPT !.pc = "sent", !.endpoint = e]
    <3>1. e \in 0..MaxEndpoints
      OBVIOUS
    <3> HIDE DEF Endpoint
    <3>2. [req[r] EXCEPT !.pc = "sent", !.endpoint = e] \in Request
      BY <1>1, <3>1 DEF Request
    <3> QED
      BY <3>2
  <2>2. /\ row.pc = "sent" /\ row.attempt = req[r].attempt /\ row.last = req[r].last
        /\ row.verdict = req[r].verdict /\ row.burnt = req[r].burnt /\ row.endpoint = e
    BY <1>1, <2>1 DEF Request
  <2>3. Demoted(row) /\ Unanswered(row)
    BY <1>1, <2>2 DEF Demoted, Unanswered
  <2>4. e \in 1..lastEndpoint
    <3>1. pool[e].exists
      BY DEF Select, Selected, Eligible
    <3> QED
      BY <3>1 DEF IInv, TypeOK, PoolTypeOK
  <2> QED
    BY <1>1, <1>3, <2>1, <2>2, <2>3, <2>4, TurnKeeps
<1> QED
  BY <1>2, <1>3

LEMMA LocalKeeps ==
  ASSUME IInv, NEW r \in Requests, Refuse(r) \/ SelectNone(r) \/ SelectFails(r)
  PROVE  IInv'
<1>1. req[r] \in Request /\ UNCHANGED <<now, lastEndpoint, pool>>
  BY DEF Refuse, SelectNone, SelectFails, IInv, TypeOK
<1>2. PICK v \in Verdict : req' = [req EXCEPT ![r] = Answered(req[r], v)]
  BY <1>1 DEF Refuse, SelectNone, SelectFails, Verdict, Request
<1> QED
  BY <1>1, <1>2, AnswerKeeps

LEMMA AttemptedRequest ==
  ASSUME IInv, NEW r \in Requests, req[r].pc = "sent"
  PROVE  /\ Attempted(r) \in Request
         /\ Attempted(r).attempt = req[r].attempt + 1 /\ Attempted(r).attempt \in 1..MaxRetries
         /\ Attempted(r).verdict = "none"
         /\ Attempted(r).last = req[r].last /\ Attempted(r).burnt = req[r].burnt
         /\ req[r].endpoint \in 1..lastEndpoint /\ req[r].endpoint \in Endpoint
<1>1. req[r] \in Request /\ Unanswered(req[r]) /\ req[r].endpoint \in 1..lastEndpoint
  BY DEF IInv, TypeOK
<1>2. req[r].attempt \in Nat /\ req[r].attempt < MaxRetries /\ req[r].verdict = "none"
  BY <1>1 DEF Unanswered, Request
<1>3. req[r].attempt + 1 \in 0..MaxRetries /\ req[r].attempt + 1 \in 1..MaxRetries
  BY <1>2
<1>4. Attempted(r) \in Request
  BY <1>1, <1>3 DEF Attempted, Request
<1>5. /\ Attempted(r).attempt = req[r].attempt + 1
      /\ Attempted(r).verdict = req[r].verdict
      /\ Attempted(r).last = req[r].last /\ Attempted(r).burnt = req[r].burnt
  BY <1>1 DEF Attempted, Request
<1>6. req[r].endpoint \in Endpoint
  BY <1>1 DEF IInv, TypeOK, PoolTypeOK
<1> QED
  BY <1>1, <1>2, <1>3, <1>4, <1>5, <1>6

LEMMA UnreadableKeeps ==
  ASSUME IInv, NEW r \in Requests, Unreadable(r)
  PROVE  IInv'
<1>1. /\ req[r].pc = "sent" /\ UNCHANGED <<now, lastEndpoint, pool>>
      /\ req' = [req EXCEPT ![r] = Answered(Attempted(r), "unreadable")]
  BY DEF Unreadable
<1>2. Attempted(r) \in Request /\ "unreadable" \in Verdict
  BY <1>1, AttemptedRequest DEF Verdict
<1> QED
  BY <1>1, <1>2, AnswerKeeps

----------------------------------------------------------------------------
(* Requests whose outcome is marked on the pool. *)

\* Both change: the pool by one statement, and each request into one of which
\* the facts hold.
LEMMA MarkKeeps ==
  ASSUME IInv, PoolTypeOK', lastEndpoint' = lastEndpoint, req' \in [Requests -> Request],
         \A q \in Requests :
           /\ Demoted(req[q])'
           /\ Unanswered(req'[q])
           /\ req'[q].pc = "sent" => req'[q].endpoint \in 1..lastEndpoint
  PROVE  IInv'
BY DEF IInv, TypeOK, Unanswered

\* Requests after the demotion of one endpoint has been cleared.
LEMMA ForgivenRequests ==
  ASSUME IInv, NEW e \in Endpoint
  PROVE  Forgiven(e) \in [Requests -> Request]
<1>1. \A p \in Requests : req[p] \in Request
  BY DEF IInv, TypeOK
<1>2. \A p \in Requests : [req[p] EXCEPT !.burnt = req[p].burnt \ {e}] \in Request
  BY <1>1 DEF Request
<1> QED
  BY <1>2 DEF Forgiven

LEMMA Forgiving ==
  ASSUME IInv, NEW e \in Endpoint, NEW q \in Requests
  PROVE  /\ Forgiven(e)[q].pc = req[q].pc /\ Forgiven(e)[q].endpoint = req[q].endpoint
         /\ Forgiven(e)[q].attempt = req[q].attempt /\ Forgiven(e)[q].last = req[q].last
         /\ Forgiven(e)[q].verdict = req[q].verdict /\ Forgiven(e)[q].startedAt = req[q].startedAt
         /\ Forgiven(e)[q].burnt = req[q].burnt \ {e}
<1>1. req[q] \in Request
  BY DEF IInv, TypeOK
<1> QED
  BY <1>1 DEF Forgiven, Request

\* After a statement on row e, by which other requests' marks on e go or stay.
LEMMA OthersDemoted ==
  ASSUME IInv, NEW e \in Endpoint, NEW q \in Requests, NEW row,
         \A d \in Endpoint : d # e => pool'[d] = pool[d],
         row.burnt \subseteq req[q].burnt,
         e \in row.burnt => pool'[e].exists /\ pool'[e].lastFailed # 0
  PROVE  Demoted(row)'
<1>1. Demoted(req[q]) /\ req[q].burnt \subseteq Endpoint
  BY DEF IInv, TypeOK, Request
<1> QED
  BY <1>1 DEF Demoted

LEMMA SucceedKeeps ==
  ASSUME IInv, NEW r \in Requests, Succeed(r)
  PROVE  IInv'
<1> DEFINE e == req[r].endpoint
           row == Answered(Attempted(r), "ok")
<1>1. /\ req[r].pc = "sent" /\ MarkSuccess(e) /\ now' = now
      /\ req' = [Forgiven(e) EXCEPT ![r] = row]
  BY DEF Succeed
<1>2. e \in 1..lastEndpoint /\ e \in Endpoint /\ Attempted(r) \in Request /\ "ok" \in Verdict
  BY <1>1, AttemptedRequest DEF Verdict
<1>3. row \in Request /\ row.pc = "answered" /\ row.burnt = {} /\ Unanswered(row)
  BY <1>2, AnsweredRequest
<1>4. PoolTypeOK /\ pool[e] \in Row /\ 0 \in Stamp
  BY <1>2 DEF IInv, TypeOK, PoolTypeOK
<1>5. [pool[e] EXCEPT !.lastFailed = 0] \in Row
  BY <1>4, RowChanges
<1>6. PoolTypeOK' /\ lastEndpoint' = lastEndpoint /\ \A d \in Endpoint : d # e => pool'[d] = pool[d]
  BY <1>1, <1>2, <1>4, <1>5, UpdateOne DEF MarkSuccess
<1> HIDE DEF row, e
<1>7. Forgiven(e) \in [Requests -> Request]
  BY <1>2, ForgivenRequests
<1>8. \A q \in Requests : req'[q] = IF q = r THEN row ELSE Forgiven(e)[q]
  BY <1>1, <1>7
<1>9. req' \in [Requests -> Request]
  BY <1>1, <1>3, <1>7
<1>10. ASSUME NEW q \in Requests
       PROVE  /\ Demoted(req[q])'
              /\ Unanswered(req'[q])
              /\ req'[q].pc = "sent" => req'[q].endpoint \in 1..lastEndpoint
  <2>1. CASE q = r
    BY <1>3, <1>8, <2>1 DEF Demoted
  <2>2. CASE q # r
    <3>1. PICK other : other = req'[q]
      OBVIOUS
    <3>2. /\ other.burnt = req[q].burnt \ {e} /\ other.pc = req[q].pc
          /\ other.endpoint = req[q].endpoint /\ other.attempt = req[q].attempt
          /\ other.last = req[q].last /\ other.verdict = req[q].verdict
      BY <1>2, <1>8, <2>2, <3>1, Forgiving
    <3>3. Demoted(other)'
      BY <1>2, <1>6, <3>2, OthersDemoted
    <3>4. Unanswered(other) /\ (other.pc = "sent" => other.endpoint \in 1..lastEndpoint)
      BY <3>2 DEF IInv, TypeOK, Unanswered
    <3> QED
      BY <3>1, <3>3, <3>4 DEF Demoted
  <2> QED
    BY <2>1, <2>2
<1> QED
  BY <1>6, <1>9, <1>10, MarkKeeps

LEMMA SoftFailureKeeps ==
  ASSUME IInv, NEW r \in Requests, SoftFailure(r)
  PROVE  IInv'
<1> DEFINE e == req[r].endpoint
           row == Answered(Attempted(r), "soft")
<1>1. /\ req[r].pc = "sent" /\ MarkSoft(e) /\ now' = now
      /\ req' = [req EXCEPT ![r] = row]
  BY DEF SoftFailure
<1>2. e \in 1..lastEndpoint /\ e \in Endpoint /\ Attempted(r) \in Request /\ "soft" \in Verdict
  BY <1>1, AttemptedRequest DEF Verdict
<1>3. row \in Request /\ row.pc = "answered" /\ row.burnt = {} /\ Unanswered(row)
  BY <1>2, AnsweredRequest
<1>4. PoolTypeOK /\ pool[e] \in Row /\ 0 \in Stamp
  BY <1>2 DEF IInv, TypeOK, PoolTypeOK
<1>5. [pool[e] EXCEPT !.cooldownUntil = 0] \in Row
  BY <1>4, RowChanges
<1>6. /\ PoolTypeOK' /\ lastEndpoint' = lastEndpoint
      /\ \A d \in Endpoint :
           pool'[d] = IF d = e /\ pool[e].exists THEN [pool[e] EXCEPT !.cooldownUntil = 0] ELSE pool[d]
  BY <1>1, <1>2, <1>4, <1>5, UpdateOne DEF MarkSoft
<1>7. pool'[e].exists = pool[e].exists /\ pool'[e].lastFailed = pool[e].lastFailed
  BY <1>2, <1>4, <1>6 DEF Row
<1> HIDE DEF row, e
<1>8. \A q \in Requests : req'[q] = IF q = r THEN row ELSE req[q]
  BY <1>1 DEF IInv, TypeOK
<1>9. req' \in [Requests -> Request]
  BY <1>1, <1>3 DEF IInv, TypeOK
<1>10. ASSUME NEW q \in Requests
       PROVE  /\ Demoted(req[q])'
              /\ Unanswered(req'[q])
              /\ req'[q].pc = "sent" => req'[q].endpoint \in 1..lastEndpoint
  <2>1. CASE q = r
    BY <1>3, <1>8, <2>1 DEF Demoted
  <2>2. CASE q # r
    <3>1. PICK other : other = req'[q] /\ other = req[q]
      BY <1>8, <2>2
    <3>2. Demoted(other) /\ Unanswered(other) /\ (other.pc = "sent" => other.endpoint \in 1..lastEndpoint)
      BY <3>1 DEF IInv, TypeOK
    <3>3. Demoted(other)'
      BY <1>2, <1>6, <1>7, <3>1, <3>2, OthersDemoted DEF Demoted
    <3> QED
      BY <3>1, <3>2, <3>3 DEF Demoted
  <2> QED
    BY <2>1, <2>2
<1> QED
  BY <1>6, <1>9, <1>10, MarkKeeps

LEMMA BurnKeeps ==
  ASSUME IInv, NEW r \in Requests, NEW until \in Stamp, NEW last \in {"none", "cool"},
         NEW verdict \in Verdict, req[r].pc = "sent", MarkCool(req[r].endpoint, until),
         Burn(r, last, verdict), now' = now
  PROVE  IInv'
<1> DEFINE e == req[r].endpoint
           cooled == [pool[e] EXCEPT !.cooldownUntil = until, !.lastFailed = now]
           burnt == req[r].burnt \cup {d \in {e} : pool[d].exists}
           again == [Attempted(r) EXCEPT !.pc = "select", !.last = last, !.burnt = burnt]
           row == IF LastAttempt(r) THEN Answered(Attempted(r), verdict) ELSE again
<1>1. req' = [req EXCEPT ![r] = row]
  BY DEF Burn
<1>2. /\ e \in 1..lastEndpoint /\ e \in Endpoint /\ Attempted(r) \in Request
      /\ Attempted(r).attempt = req[r].attempt + 1 /\ Attempted(r).attempt \in 1..MaxRetries
      /\ Attempted(r).verdict = "none"
  BY AttemptedRequest
<1>3. PoolTypeOK /\ pool[e] \in Row /\ now \in Stamp /\ now # 0
  BY <1>2, ClockStamp DEF IInv, TypeOK, PoolTypeOK
<1>4. cooled \in Row
  BY <1>3, RowChanges
<1>5. cooled.exists = pool[e].exists /\ cooled.lastFailed = now
  BY <1>3 DEF Row
<1>6. /\ PoolTypeOK' /\ lastEndpoint' = lastEndpoint
      /\ \A d \in Endpoint : pool'[d] = IF d = e /\ pool[e].exists THEN cooled ELSE pool[d]
  BY <1>2, <1>3, <1>4, UpdateOne DEF MarkCool
<1>7. pool[e].exists => pool'[e].exists /\ pool'[e].lastFailed # 0
  BY <1>2, <1>3, <1>5, <1>6
<1>8. req[r].burnt \subseteq Endpoint /\ Demoted(req[r])
  BY DEF IInv, TypeOK, Request
<1>9. burnt \subseteq Endpoint /\ \A d \in burnt : d # e => d \in req[r].burnt
  BY <1>2, <1>8
<1>10. ASSUME e \in burnt PROVE pool'[e].exists /\ pool'[e].lastFailed # 0
  BY <1>7, <1>8, <1>10 DEF Demoted
<1> HIDE DEF cooled, burnt, e
<1>11. again \in Request
  BY <1>2, <1>9 DEF Request
<1>12. /\ again.pc = "select" /\ again.last = last /\ again.burnt = burnt
       /\ again.attempt = req[r].attempt + 1 /\ again.verdict = "none"
  BY <1>2 DEF Request
<1> HIDE DEF again
<1>13. /\ row \in Request /\ row.pc # "sent" /\ Unanswered(row)
       /\ row.burnt \subseteq burnt
  <2>1. CASE LastAttempt(r)
    BY <1>2, <2>1, AnsweredRequest
  <2>2. CASE ~LastAttempt(r)
    <3>1. again.attempt < MaxRetries /\ again.attempt > 0
      BY <1>2, <1>12, <2>2 DEF LastAttempt
    <3> QED
      BY <1>11, <1>12, <2>2, <3>1 DEF Unanswered
  <2> QED
    BY <2>1, <2>2
<1> HIDE DEF row
<1>14. \A q \in Requests : req'[q] = IF q = r THEN row ELSE req[q]
  BY <1>1 DEF IInv, TypeOK
<1>15. req' \in [Requests -> Request]
  BY <1>1, <1>13 DEF IInv, TypeOK
<1>16. \A d \in Endpoint : d # e => pool'[d] = pool[d]
  BY <1>6
<1>17. ASSUME NEW q \in Requests
       PROVE  /\ Demoted(req[q])'
              /\ Unanswered(req'[q])
              /\ req'[q].pc = "sent" => req'[q].endpoint \in 1..lastEndpoint
  <2>1. CASE q = r
    <3>1. \A d \in row.burnt : pool'[d].exists /\ pool'[d].lastFailed # 0
      BY <1>8, <1>9, <1>10, <1>13, <1>16 DEF Demoted
    <3> QED
      BY <1>13, <1>14, <2>1, <3>1 DEF Demoted
  <2>2. CASE q # r
    <3>1. PICK other : other = req'[q] /\ other = req[q]
      BY <1>14, <2>2
    <3>2. Demoted(other) /\ Unanswered(other) /\ (other.pc = "sent" => other.endpoint \in 1..lastEndpoint)
      BY <3>1 DEF IInv, TypeOK
    <3>3. Demoted(other)'
      BY <1>2, <1>7, <1>16, <3>1, <3>2, OthersDemoted DEF Demoted
    <3> QED
      BY <3>1, <3>2, <3>3 DEF Demoted
  <2> QED
    BY <2>1, <2>2
<1> QED
  BY <1>6, <1>15, <1>17, MarkKeeps

LEMMA RespondKeeps ==
  ASSUME IInv, NEW r \in Requests, Respond(r)
  PROVE  IInv'
<1>1. req[r] \in Request /\ req[r].startedAt \in 0..MaxTime /\ req[r].last \in {"none", "cool"}
  BY DEF IInv, TypeOK, Request
<1>2. \A d \in 0..MaxCooldown : req[r].startedAt + d \in Stamp
  BY <1>1
<1>3. "cool" \in Verdict /\ "network" \in Verdict
  BY DEF Verdict
<1>4. ASSUME NEW d \in Durations, CoolFailure(r, d) PROVE IInv'
  <2>1. req[r].startedAt + d \in Stamp
    BY <1>2
  <2> QED
    BY <1>3, <1>4, <2>1, BurnKeeps DEF CoolFailure
<1>5. ASSUME NetworkError(r) PROVE IInv'
  <2>1. req[r].startedAt + Transient \in Stamp
    BY <1>2
  <2> QED
    BY <1>1, <1>3, <1>5, <2>1, BurnKeeps DEF NetworkError
<1> QED
  BY <1>4, <1>5, SucceedKeeps, SoftFailureKeeps, UnreadableKeeps DEF Respond

----------------------------------------------------------------------------
(* Operators and the clock. *)

LEMMA AdministerKeeps ==
  ASSUME IInv, NEW e \in 1..lastEndpoint, Administer(e)
  PROVE  IInv'
<1>1. PoolTypeOK /\ e \in Endpoint /\ pool[e] \in Row /\ now \in Stamp /\ now # 0
  BY ClockStamp DEF IInv, TypeOK, PoolTypeOK
<1>2. PICK row \in Row :
        /\ Update(e, row)
        /\ row.exists = pool[e].exists /\ row.lastFailed \in {pool[e].lastFailed, now}
  <2>1. CASE Disable(e) \/ Enable(e)
    <3>1. PICK on \in BOOLEAN : Update(e, [pool[e] EXCEPT !.enabled = on])
      BY <2>1 DEF Disable, Enable
    <3>2. /\ [pool[e] EXCEPT !.enabled = on] \in Row
          /\ [pool[e] EXCEPT !.enabled = on].exists = pool[e].exists
          /\ [pool[e] EXCEPT !.enabled = on].lastFailed = pool[e].lastFailed
      BY <1>1 DEF Row
    <3> QED
      BY <3>1, <3>2
  <2>2. CASE Archive(e) \/ RestoreArchived(e)
    <3>1. PICK away \in BOOLEAN : Update(e, [pool[e] EXCEPT !.enabled = FALSE, !.archived = away])
      BY <2>2 DEF Archive, RestoreArchived
    <3> DEFINE row == [pool[e] EXCEPT !.enabled = FALSE, !.archived = away]
    <3>2. row \in Row /\ row.exists = pool[e].exists /\ row.lastFailed = pool[e].lastFailed
      BY <1>1 DEF Row
    <3> QED
      BY <3>1, <3>2
  <2>3. CASE DemoteToEnd(e)
    <3> DEFINE row == [pool[e] EXCEPT !.lastFailed = now]
    <3>1. row \in Row /\ row.exists = pool[e].exists /\ row.lastFailed = now
      BY <1>1 DEF Row
    <3> QED
      BY <2>3, <3>1 DEF DemoteToEnd
  <2> QED
    BY <2>1, <2>2, <2>3 DEF Administer
<1>3. now' = now /\ req' = req
  BY DEF Administer
<1>4. /\ PoolTypeOK' /\ lastEndpoint' = lastEndpoint
      /\ \A d \in Endpoint : pool'[d] = IF d = e /\ pool[e].exists THEN row ELSE pool[d]
  BY <1>1, <1>2, <1>3, UpdateOne
<1>5. ASSUME NEW q \in Requests
      PROVE  /\ Demoted(req[q])'
             /\ Unanswered(req'[q])
             /\ req'[q].pc = "sent" => req'[q].endpoint \in 1..lastEndpoint
  <2>1. Demoted(req[q]) /\ Unanswered(req[q]) /\ (req[q].pc = "sent" => req[q].endpoint \in 1..lastEndpoint)
    BY DEF IInv, TypeOK
  <2>2. req[q].burnt \subseteq Endpoint
    BY DEF IInv, TypeOK, Request
  <2>3. \A d \in req[q].burnt : pool'[d].exists /\ pool'[d].lastFailed # 0
    BY <1>1, <1>2, <1>4, <2>1, <2>2 DEF Demoted
  <2> QED
    BY <1>3, <2>1, <2>3 DEF Demoted
<1>6. req' \in [Requests -> Request]
  BY <1>3 DEF IInv, TypeOK
<1> QED
  BY <1>4, <1>5, <1>6, MarkKeeps

LEMMA ClearKeeps ==
  ASSUME IInv, NEW e \in 1..lastEndpoint, Clear(e)
  PROVE  IInv'
<1>1. PoolTypeOK /\ e \in Endpoint /\ pool[e] \in Row /\ 0 \in Stamp
  BY DEF IInv, TypeOK, PoolTypeOK
<1>2. PICK row \in Row : Update(e, row)
  BY <1>1, RowChanges, FreshRows
     DEF Clear, ResetCooldown, UpdateBaseURL, RotateKey, Delete, ResetSelection
<1>3. now' = now /\ req' = Forgiven(e)
  BY DEF Clear
<1>4. /\ PoolTypeOK' /\ lastEndpoint' = lastEndpoint
      /\ \A d \in Endpoint : pool'[d] = IF d = e /\ pool[e].exists THEN row ELSE pool[d]
  BY <1>1, <1>2, <1>3, UpdateOne
<1>5. \A d \in Endpoint : d # e => pool'[d] = pool[d]
  BY <1>4
<1>6. req' \in [Requests -> Request]
  BY <1>1, <1>3, ForgivenRequests
<1>7. ASSUME NEW q \in Requests
      PROVE  /\ Demoted(req[q])'
             /\ Unanswered(req'[q])
             /\ req'[q].pc = "sent" => req'[q].endpoint \in 1..lastEndpoint
  <2>1. PICK other : other = req'[q]
    OBVIOUS
  <2>2. /\ other.burnt = req[q].burnt \ {e} /\ other.pc = req[q].pc
        /\ other.endpoint = req[q].endpoint /\ other.attempt = req[q].attempt
        /\ other.last = req[q].last /\ other.verdict = req[q].verdict
    BY <1>1, <1>3, <2>1, Forgiving
  <2>3. Demoted(other)'
    BY <1>1, <1>5, <2>2, OthersDemoted
  <2>4. Unanswered(other) /\ (other.pc = "sent" => other.endpoint \in 1..lastEndpoint)
    BY <2>2 DEF IInv, TypeOK, Unanswered
  <2> QED
    BY <2>1, <2>3, <2>4 DEF Demoted
<1> QED
  BY <1>4, <1>6, <1>7, MarkKeeps

LEMMA AddKeeps ==
  ASSUME IInv, Add
  PROVE  IInv'
<1> DEFINE e == lastEndpoint + 1
<1>1. /\ lastEndpoint < MaxEndpoints /\ lastEndpoint' = e /\ pool' = [pool EXCEPT ![e] = NewRow]
      /\ now' = now /\ req' = req
  BY DEF Add, AddEndpoint
<1>2. PoolTypeOK /\ lastEndpoint \in Nat
  BY DEF IInv, TypeOK, PoolTypeOK
<1>3. e \in Endpoint /\ e \in 0..MaxEndpoints /\ ~pool[e].exists
  BY <1>1, <1>2 DEF PoolTypeOK
<1>4. \A d \in Endpoint : pool'[d] = IF d = e THEN NewRow ELSE pool[d]
  BY <1>1, <1>2 DEF PoolTypeOK
<1>5. PoolTypeOK'
  BY <1>1, <1>2, <1>3, <1>4, FreshRows DEF PoolTypeOK
<1>6. ASSUME NEW q \in Requests
      PROVE  /\ Demoted(req[q])'
             /\ Unanswered(req[q])
             /\ req[q].pc = "sent" => req[q].endpoint \in 1..lastEndpoint'
  <2>1. Demoted(req[q]) /\ Unanswered(req[q]) /\ (req[q].pc = "sent" => req[q].endpoint \in 1..lastEndpoint)
    BY DEF IInv, TypeOK
  <2>2. req[q].burnt \subseteq Endpoint
    BY DEF IInv, TypeOK, Request
  <2>3. \A d \in req[q].burnt : pool'[d].exists /\ pool'[d].lastFailed # 0
    BY <1>3, <1>4, <2>1, <2>2 DEF Demoted
  <2>4. req[q].pc = "sent" => req[q].endpoint \in 1..lastEndpoint'
    BY <1>1, <1>2, <2>1
  <2> QED
    BY <1>1, <2>1, <2>3, <2>4 DEF Demoted
<1> QED
  BY <1>1, <1>5, <1>6 DEF IInv, TypeOK, Unanswered

LEMMA TickKeeps ==
  ASSUME IInv, Tick
  PROVE  IInv'
<1>1. now' \in 1..MaxTime
  BY DEF Tick, IInv, TypeOK, PoolTypeOK
<1> QED
  BY <1>1 DEF Tick, IInv, TypeOK, PoolTypeOK, Demoted, Unanswered

----------------------------------------------------------------------------
(* The invariant. *)

LEMMA StepKeeps == IInv /\ [Next]_vars => IInv'
<1> SUFFICES ASSUME IInv, [Next]_vars PROVE IInv'
  OBVIOUS
<1>1. ASSUME NEW r \in Requests, Begin(r) \/ Refuse(r) \/ Forward(r) \/ SelectFails(r)
      PROVE  IInv'
  BY <1>1, BeginKeeps, LocalKeeps, SelectKeeps, RespondKeeps DEF Forward
<1>2. CASE AdminNext
  BY <1>2, AddKeeps, AdministerKeeps, ClearKeeps DEF AdminNext
<1>3. CASE UNCHANGED vars
  BY <1>3 DEF vars, IInv, TypeOK, PoolTypeOK, Demoted, Unanswered
<1> QED
  BY <1>1, <1>2, <1>3, TickKeeps DEF Next

\* The inductive invariant holds throughout.
LEMMA Invariance == Spec => []IInv
BY InitHolds, StepKeeps, PTL DEF Spec

\* Rows, stamps and requests stay well formed, and a request that has been sent
\* holds an endpoint that was once in the pool (proxy.Forward, KeyRepo).
THEOREM TypeCorrect == Spec => []TypeOK
<1>1. IInv => TypeOK
  BY DEF IInv
<1> QED
  BY <1>1, Invariance, PTL

----------------------------------------------------------------------------
(* What a step does to one request and to one row. *)

\* A request turns by its own step only.
LEMMA OneTurns ==
  ASSUME IInv, NEW q \in Requests, NEW r \in Requests, q # r,
         Begin(q) \/ Refuse(q) \/ Forward(q) \/ SelectFails(q)
  PROVE  /\ req'[r].pc = req[r].pc
         /\ req'[r].attempt = req[r].attempt /\ req'[r].verdict = req[r].verdict
<1>1. CASE Succeed(q)
  <2>1. req[q].endpoint \in Endpoint
    BY <1>1, AttemptedRequest DEF Succeed
  <2>2. Forgiven(req[q].endpoint) \in [Requests -> Request]
    BY <2>1, ForgivenRequests
  <2>3. req'[r] = Forgiven(req[q].endpoint)[r]
    BY <1>1, <2>2 DEF Succeed
  <2> QED
    BY <2>1, <2>3, Forgiving
<1>2. CASE ~Succeed(q)
  <2>1. \E row : req' = [req EXCEPT ![q] = row]
    BY <1>2 DEF Begin, Refuse, Forward, SelectFails, Select, SelectNone, Respond,
                CoolFailure, NetworkError, Burn, SoftFailure, Unreadable
  <2> QED
    BY <2>1 DEF IInv, TypeOK
<1> QED
  BY <1>1, <1>2

LEMMA SendsBySelecting ==
  ASSUME IInv, [Next]_vars, NEW r \in Requests, req[r].pc = "select", req'[r].pc = "sent"
  PROVE  \E e \in Endpoint : Select(r, e)
<1>1. req'[r] # req[r] /\ req[r] \in Request /\ req \in [Requests -> Request]
  BY DEF IInv, TypeOK
<1>2. ASSUME AdminNext PROVE FALSE
  <2>1. PICK e \in 1..lastEndpoint : Clear(e)
    BY <1>1, <1>2 DEF AdminNext, Add, Administer
  <2>2. e \in Endpoint /\ req' = Forgiven(e)
    BY <2>1 DEF Clear, IInv, TypeOK, PoolTypeOK
  <2> QED
    BY <2>2, Forgiving
<1>3. PICK q \in Requests : Begin(q) \/ Refuse(q) \/ Forward(q) \/ SelectFails(q)
  BY <1>1, <1>2 DEF Next, Tick, vars
<1>4. q = r
  BY <1>3, OneTurns
<1>5. ~Begin(r) /\ ~Refuse(r) /\ ~Respond(r)
  BY DEF Begin, Refuse, Respond, Succeed, CoolFailure, NetworkError, SoftFailure, Unreadable
<1>6. ASSUME NEW v \in Verdict, req' = [req EXCEPT ![r] = Answered(req[r], v)] PROVE FALSE
  <2>1. Answered(req[r], v).pc = "answered"
    BY <1>1, AnsweredRequest
  <2> QED
    BY <1>1, <1>6, <2>1
<1>7. ~SelectNone(r) /\ ~SelectFails(r)
  BY <1>1, <1>6 DEF SelectNone, SelectFails, Verdict, Request
<1> QED
  BY <1>3, <1>4, <1>5, <1>7 DEF Forward

\* A request stops waiting for its answer with another verdict than ok.
LEMMA FailureTurns ==
  ASSUME IInv, NEW r \in Requests, req[r].pc = "sent",
         NEW last \in {"none", "cool"}, NEW verdict \in {"cool", "network"},
         Burn(r, last, verdict) \/ SoftFailure(r)
  PROVE  req'[r].pc # "sent" /\ req'[r].verdict # "ok"
<1>1. /\ Attempted(r) \in Request /\ Attempted(r).verdict = "none"
      /\ req \in [Requests -> Request]
  BY AttemptedRequest DEF IInv, TypeOK
<1>2. CASE SoftFailure(r)
  <2>1. req'[r] = Answered(Attempted(r), "soft") /\ "soft" \in Verdict
    BY <1>1, <1>2 DEF SoftFailure, Verdict
  <2> QED
    BY <1>1, <2>1, AnsweredRequest
<1>3. CASE Burn(r, last, verdict)
  <2>1. CASE LastAttempt(r)
    <3>1. req'[r] = Answered(Attempted(r), verdict) /\ verdict \in Verdict
      BY <1>1, <1>3, <2>1 DEF Burn, Verdict
    <3> QED
      BY <1>1, <3>1, AnsweredRequest
  <2>2. CASE ~LastAttempt(r)
    <3>1. PICK burnt : req'[r] = [Attempted(r) EXCEPT !.pc = "select", !.last = last, !.burnt = burnt]
      BY <1>1, <1>3, <2>2 DEF Burn
    <3> QED
      BY <1>1, <3>1 DEF Request
  <2> QED
    BY <2>1, <2>2
<1> QED
  BY <1>2, <1>3

----------------------------------------------------------------------------
(* Routing. *)

\* Retries go across keys: a request comes back to an endpoint it failed on
\* only when every eligible endpoint has failed (SelectEndpoint's order, and
\* MarkFailureWithCooldown in the retry loop of Forward).
THEOREM RetriesGoAcrossKeys == Spec => RetryAcrossKeys
<1> DEFINE Across ==
      \A r \in Requests :
        (req[r].pc = "select" /\ req'[r].pc = "sent" /\ req'[r].endpoint \in req[r].burnt)
          => \A d \in Endpoint : Eligible(d) => pool[d].lastFailed # 0
<1>1. IInv /\ [Next]_vars => Across
  <2> SUFFICES ASSUME IInv, [Next]_vars, NEW r \in Requests, req[r].pc = "select",
                      req'[r].pc = "sent", req'[r].endpoint \in req[r].burnt,
                      NEW d \in Endpoint, Eligible(d)
               PROVE  pool[d].lastFailed # 0
    OBVIOUS
  <2>1. PICK e \in Endpoint : Select(r, e)
    BY SendsBySelecting
  <2>2. req[r] \in Request /\ req \in [Requests -> Request]
    BY DEF IInv, TypeOK
  <2>3. pool[e].url
    <3>1. "no_url" \in Verdict
      BY DEF Verdict
    <3>2. ~pool[e].url => req'[r] = Answered(req[r], "no_url")
      BY <2>1, <2>2 DEF Select
    <3> QED
      BY <2>2, <3>1, <3>2, AnsweredRequest
  <2>4. req'[r].endpoint = e
    BY <2>1, <2>2, <2>3 DEF Select, Request
  <2>5. pool[e].lastFailed # 0
    BY <2>4 DEF IInv, Demoted
  <2>6. d = e \/ Precedes(e, d)
    BY <2>1 DEF Select, Selected
  <2> QED
    BY <2>5, <2>6 DEF Precedes
<1> QED
  BY <1>1, Invariance, PTL DEF Spec, RetryAcrossKeys

\* What happens to a row: it is inserted, it changes without its cooldown, an
\* operator clears it, or a request that was sent to it fails.
Failed(e) ==
  \E r \in Requests : /\ req[r].pc = "sent" /\ req[r].endpoint = e
                      /\ req'[r].pc # "sent" /\ req'[r].verdict # "ok"

Touched(e) ==
  \/ ~pool[e].exists /\ pool'[e] = NewRow
  \/ pool[e].exists /\ pool'[e].exists /\ pool'[e].cooldownUntil = pool[e].cooldownUntil
  \/ pool[e].exists /\ Clear(e) /\ (pool'[e].exists \/ pool'[e] = NoRow)
  \/ pool[e].exists /\ pool'[e].exists /\ Failed(e)

LEMMA RowKept ==
  ASSUME NEW row \in Row, NEW s, NEW t
  PROVE  /\ \A away \in BOOLEAN :
              /\ [row EXCEPT !.enabled = FALSE, !.archived = away].exists = row.exists
              /\ [row EXCEPT !.enabled = FALSE, !.archived = away].cooldownUntil = row.cooldownUntil
         /\ [row EXCEPT !.cooldownUntil = s].exists = row.exists
         /\ [row EXCEPT !.cooldownUntil = s, !.lastFailed = t].exists = row.exists
         /\ [row EXCEPT !.url = TRUE, !.cooldownUntil = s, !.lastFailed = t].exists = row.exists
BY DEF Row

LEMMA MarksTouch ==
  ASSUME IInv, NEW r \in Requests, Respond(r), NEW e \in Endpoint, pool'[e] # pool[e]
  PROVE  Touched(e)
<1> DEFINE d == req[r].endpoint
<1>1. req[r].pc = "sent"
  BY DEF Respond, Succeed, CoolFailure, NetworkError, SoftFailure, Unreadable
<1>2. d \in 1..lastEndpoint /\ d \in Endpoint
  BY <1>1, AttemptedRequest
<1>3. PoolTypeOK /\ pool[d] \in Row /\ pool \in [Endpoint -> Row]
  BY <1>2 DEF IInv, TypeOK, PoolTypeOK
<1> HIDE DEF d
<1>4. CASE Succeed(r)
  <2>1. Update(d, [pool[d] EXCEPT !.lastFailed = 0])
    BY <1>4 DEF Succeed, MarkSuccess, d
  <2>2. /\ [pool[d] EXCEPT !.lastFailed = 0].exists = pool[d].exists
        /\ [pool[d] EXCEPT !.lastFailed = 0].cooldownUntil = pool[d].cooldownUntil
    BY <1>3 DEF Row
  <2>3. e = d /\ pool[d].exists /\ pool'[d] = [pool[d] EXCEPT !.lastFailed = 0]
    BY <1>2, <1>3, <2>1 DEF Update
  <2> QED
    BY <2>2, <2>3 DEF Touched
<1>5. ASSUME NEW until, MarkCool(d, until) \/ MarkSoft(d), req'[r].pc # "sent", req'[r].verdict # "ok"
      PROVE  Touched(e)
  <2>1. PICK row : Update(d, row) /\ row.exists = pool[d].exists
    <3>1. CASE MarkCool(d, until)
      <4>1. [pool[d] EXCEPT !.cooldownUntil = until, !.lastFailed = now].exists = pool[d].exists
        BY <1>3, RowKept
      <4> QED
        BY <3>1, <4>1 DEF MarkCool
    <3>2. CASE MarkSoft(d)
      <4>1. [pool[d] EXCEPT !.cooldownUntil = 0].exists = pool[d].exists
        BY <1>3, RowKept
      <4> QED
        BY <3>2, <4>1 DEF MarkSoft
    <3> QED
      BY <1>5, <3>1, <3>2
  <2>2. e = d /\ pool[d].exists /\ pool'[d] = row
    BY <1>2, <1>3, <2>1 DEF Update
  <2> QED
    BY <1>1, <1>5, <2>1, <2>2 DEF Touched, Failed, d
<1>6. ~Unreadable(r)
  BY DEF Unreadable
<1>7. req[r].last \in {"none", "cool"}
  BY DEF IInv, TypeOK, Request
<1>8. CASE SoftFailure(r)
  <2>1. req'[r].pc # "sent" /\ req'[r].verdict # "ok"
    BY <1>1, <1>8, FailureTurns
  <2> QED
    BY <1>5, <1>8, <2>1 DEF SoftFailure, d
<1>9. CASE NetworkError(r) \/ \E k \in Durations : CoolFailure(r, k)
  <2>1. PICK until : MarkCool(d, until)
    BY <1>9 DEF NetworkError, CoolFailure, d
  <2>2. req'[r].pc # "sent" /\ req'[r].verdict # "ok"
    BY <1>1, <1>7, <1>9, FailureTurns DEF NetworkError, CoolFailure
  <2> QED
    BY <1>5, <2>1, <2>2
<1> QED
  BY <1>4, <1>6, <1>8, <1>9 DEF Respond

LEMMA StepsTouch ==
  ASSUME IInv, [Next]_vars, NEW e \in Endpoint, pool'[e] # pool[e]
  PROVE  Touched(e)
<1>1. pool \in [Endpoint -> Row] /\ pool[e] \in Row /\ lastEndpoint \in Nat
  BY DEF IInv, TypeOK, PoolTypeOK
<1>2. ASSUME NEW r \in Requests, Begin(r) \/ Refuse(r) \/ Forward(r) \/ SelectFails(r)
      PROVE  Touched(e)
  BY <1>2, MarksTouch DEF Begin, Refuse, Forward, Select, SelectNone, SelectFails
<1>3. ASSUME Add PROVE Touched(e)
  <2>1. ~pool[lastEndpoint + 1].exists
    BY <1>1, <1>3 DEF Add, AddEndpoint, IInv, TypeOK, PoolTypeOK
  <2>2. e = lastEndpoint + 1 /\ pool'[e] = NewRow
    BY <1>1, <1>3 DEF Add, AddEndpoint
  <2> QED
    BY <2>1, <2>2 DEF Touched
<1>4. ASSUME NEW d \in 1..lastEndpoint, Administer(d) PROVE Touched(e)
  <2>1. d \in Endpoint /\ pool[d] \in Row
    BY DEF IInv, TypeOK, PoolTypeOK
  <2>2. PICK row : /\ Update(d, row) /\ row.exists = pool[d].exists
                   /\ row.cooldownUntil = pool[d].cooldownUntil
    <3>1. CASE Disable(d)
      BY <2>1, <3>1 DEF Disable, Row
    <3>2. CASE Enable(d)
      BY <2>1, <3>2 DEF Enable, Row
    <3>3. CASE Archive(d)
      <4>1. /\ [pool[d] EXCEPT !.enabled = FALSE, !.archived = TRUE].exists = pool[d].exists
            /\ [pool[d] EXCEPT !.enabled = FALSE, !.archived = TRUE].cooldownUntil = pool[d].cooldownUntil
        BY <2>1, RowKept
      <4> QED
        BY <3>3, <4>1 DEF Archive
    <3>4. CASE RestoreArchived(d)
      <4>1. /\ [pool[d] EXCEPT !.enabled = FALSE, !.archived = FALSE].exists = pool[d].exists
            /\ [pool[d] EXCEPT !.enabled = FALSE, !.archived = FALSE].cooldownUntil = pool[d].cooldownUntil
        BY <2>1, RowKept
      <4> QED
        BY <3>4, <4>1 DEF RestoreArchived
    <3>5. CASE DemoteToEnd(d)
      BY <2>1, <3>5 DEF DemoteToEnd, Row
    <3> QED
      BY <1>4, <3>1, <3>2, <3>3, <3>4, <3>5 DEF Administer
  <2>3. e = d /\ pool[d].exists /\ pool'[d] = row
    BY <1>1, <2>1, <2>2 DEF Update
  <2> QED
    BY <2>2, <2>3 DEF Touched
<1>5. ASSUME NEW d \in 1..lastEndpoint, Clear(d) PROVE Touched(e)
  <2>1. d \in Endpoint /\ pool[d] \in Row
    BY DEF IInv, TypeOK, PoolTypeOK
  <2>2. PICK row : Update(d, row) /\ (row = NoRow \/ row.exists = pool[d].exists)
    <3>1. CASE ResetCooldown(d)
      <4>1. [pool[d] EXCEPT !.cooldownUntil = 0, !.lastFailed = 0].exists = pool[d].exists
        BY <2>1, RowKept
      <4> QED
        BY <3>1, <4>1 DEF ResetCooldown
    <3>2. CASE UpdateBaseURL(d)
      <4>1. [pool[d] EXCEPT !.url = TRUE, !.cooldownUntil = 0, !.lastFailed = 0].exists = pool[d].exists
        BY <2>1, RowKept
      <4> QED
        BY <3>2, <4>1 DEF UpdateBaseURL
    <3>3. CASE RotateKey(d)
      <4>1. [pool[d] EXCEPT !.cooldownUntil = 0, !.lastFailed = 0].exists = pool[d].exists
        BY <2>1, RowKept
      <4> QED
        BY <3>3, <4>1 DEF RotateKey
    <3>4. CASE Delete(d)
      BY <3>4 DEF Delete
    <3>5. CASE ResetSelection(d)
      BY <2>1, <3>5 DEF ResetSelection, Row
    <3> QED
      BY <1>5, <3>1, <3>2, <3>3, <3>4, <3>5 DEF Clear
  <2>3. e = d /\ pool[d].exists /\ pool'[d] = row
    BY <1>1, <2>1, <2>2 DEF Update
  <2> QED
    BY <1>5, <2>2, <2>3 DEF Touched
<1> QED
  BY <1>2, <1>3, <1>4, <1>5 DEF Next, AdminNext, Tick, vars

\* A row that is not there is in no cooldown.
BareRows == \A e \in Endpoint : ~pool[e].exists => pool[e].cooldownUntil = 0

LEMMA BareRow == NoRow.cooldownUntil = 0 /\ NewRow.exists
BY FreshRows DEF NoRow

LEMMA BareRowsStay == Spec => []BareRows
<1>1. Init => BareRows
  <2> SUFFICES ASSUME Init, NEW e \in Endpoint, ~pool[e].exists PROVE pool[e].cooldownUntil = 0
    BY DEF BareRows
  <2>1. e > InitialEndpoints => pool[e] = NoRow
    BY DEF Init, PoolInit
  <2>2. e <= InitialEndpoints => pool[e] = [NewRow EXCEPT !.url = e \notin BlankRows]
    BY DEF Init, PoolInit
  <2>3. pool[e] = [NewRow EXCEPT !.url = e \notin BlankRows] => pool[e].exists
    BY FreshRows DEF Row
  <2> QED
    BY <2>1, <2>2, <2>3, BareRow
<1>2. IInv /\ BareRows /\ [Next]_vars => BareRows'
  <2> SUFFICES ASSUME IInv, BareRows, [Next]_vars, NEW e \in Endpoint, ~pool'[e].exists
               PROVE  pool'[e].cooldownUntil = 0
    BY DEF BareRows
  <2>1. CASE pool'[e] = pool[e]
    BY <2>1 DEF BareRows
  <2>2. CASE pool'[e] # pool[e]
    BY <2>2, StepsTouch, BareRow DEF Touched
  <2> QED
    BY <2>1, <2>2
<1> QED
  BY <1>1, <1>2, Invariance, PTL DEF Spec

\* A cooldown is lifted or moved only by an operator who clears it or by the
\* outcome of a request that was sent to the endpoint and did not succeed
\* (MarkSuccess and MarkFailureWithCooldown of providers/keys.go).
THEOREM CooldownsEndForAReason == Spec => CooldownEndsForAReason
<1> DEFINE ForAReason ==
      \A e \in Endpoint :
        (pool[e].cooldownUntil # 0 /\ pool'[e].cooldownUntil # pool[e].cooldownUntil) =>
          \/ Clear(e)
          \/ \E r \in Requests : /\ req[r].pc = "sent" /\ req[r].endpoint = e
                                 /\ req'[r].pc # "sent" /\ req'[r].verdict # "ok"
<1>1. IInv /\ BareRows /\ [Next]_vars => ForAReason
  <2> SUFFICES ASSUME IInv, BareRows, [Next]_vars, NEW e \in Endpoint, pool[e].cooldownUntil # 0,
                      pool'[e].cooldownUntil # pool[e].cooldownUntil
               PROVE  Clear(e) \/ Failed(e)
    BY DEF Failed
  <2>1. Touched(e) /\ pool[e].exists
    BY StepsTouch DEF BareRows
  <2> QED
    BY <2>1 DEF Touched
<1> QED
  BY <1>1, Invariance, BareRowsStay, PTL DEF Spec, CooldownEndsForAReason

----------------------------------------------------------------------------
(* Stamps as text. *)

\* The seconds and the fraction make up the stamp.
LEMMA Parts ==
  ASSUME NEW t \in Nat
  PROVE  /\ Second(t) \in Nat /\ Fraction(t) \in 0..(TicksPerSecond - 1)
         /\ t = TicksPerSecond * Second(t) + Fraction(t)
<1>1. TicksPerSecond \in Nat \ {0}
  BY DEF TimestampsAssumption
<1> QED
  BY <1>1 DEF Second, Fraction

\* A product grows with its second factor by at least the first.
LEMMA ProductGrows ==
  ASSUME NEW k \in Nat, NEW a \in Nat, NEW b \in Nat, a < b
  PROVE  k * a + k <= k * b /\ k * a \in Nat /\ k * b \in Nat
<1>1. PICK d \in Nat : b = a + 1 + d
  <2>1. b - a - 1 \in Nat /\ b = a + 1 + (b - a - 1)
    OBVIOUS
  <2> QED
    BY <2>1
<1>2. k * b = k * a + k + k * d /\ k * d \in Nat
  BY <1>1
<1> QED
  BY <1>2

LEMMA SecondsApart ==
  ASSUME NEW s \in Nat, NEW t \in Nat, Second(s) < Second(t)
  PROVE  s < t
<1> DEFINE a == Second(s)
           b == Second(t)
<1>1. TicksPerSecond \in Nat
  BY DEF TimestampsAssumption
<1>2. /\ a \in Nat /\ b \in Nat /\ a < b
      /\ s = TicksPerSecond * a + Fraction(s) /\ Fraction(s) \in 0..(TicksPerSecond - 1)
      /\ t = TicksPerSecond * b + Fraction(t) /\ Fraction(t) \in 0..(TicksPerSecond - 1)
  BY Parts
<1> HIDE DEF a, b
<1>3. TicksPerSecond * a + TicksPerSecond <= TicksPerSecond * b
  BY <1>1, <1>2, ProductGrows
<1> DEFINE p == TicksPerSecond * a
           q == TicksPerSecond * b
<1>4. p \in Nat /\ q \in Nat
  BY <1>1, <1>2
<1>5. s = p + Fraction(s) /\ t = q + Fraction(t) /\ p + TicksPerSecond <= q
  BY <1>2, <1>3
<1> HIDE DEF p, q
<1> QED
  BY <1>1, <1>2, <1>4, <1>5

\* Text order is off by less than a second, both ways.
LEMMA TextOrder ==
  ASSUME NEW s \in Nat, NEW t \in Nat
  PROVE  /\ Before(s, t) => s < t + TicksPerSecond
         /\ ~Before(s, t) => t < s + TicksPerSecond
<1>1. TicksPerSecond \in Nat \ {0}
  BY DEF TimestampsAssumption
<1>2. /\ Second(s) \in Nat /\ Second(t) \in Nat
      /\ s = TicksPerSecond * Second(s) + Fraction(s) /\ Fraction(s) \in 0..(TicksPerSecond - 1)
      /\ t = TicksPerSecond * Second(t) + Fraction(t) /\ Fraction(t) \in 0..(TicksPerSecond - 1)
  BY Parts
<1>3. CASE Second(s) = Second(t)
  <2>1. s < t + TicksPerSecond /\ t < s + TicksPerSecond
    <3> DEFINE q == TicksPerSecond * Second(s)
    <3>1. q \in Int /\ s = q + Fraction(s) /\ t = q + Fraction(t)
      BY <1>1, <1>2, <1>3
    <3> HIDE DEF q
    <3> QED
      BY <1>1, <1>2, <3>1
  <2> QED
    BY <2>1
<1>4. CASE Second(s) < Second(t)
  <2>1. s < t
    BY <1>4, SecondsApart
  <2>2. Before(s, t)
    BY <1>2, <1>4, <2>1 DEF Before, Extends
  <2> QED
    BY <1>1, <2>1, <2>2
<1>5. CASE Second(t) < Second(s)
  <2>1. t < s /\ ~Before(s, t)
    BY <1>2, <1>5, SecondsApart DEF Before, Extends
  <2> QED
    BY <1>1, <2>1


<1> QED
  BY <1>2, <1>3, <1>4, <1>5

----------------------------------------------------------------------------
(* What selection and the health page make of a cooldown. *)

LEMMA SelectionOfTyped == TypeOK => SelectionWithinASecond
<1> SUFFICES ASSUME TypeOK, NEW e \in Endpoint,
                    pool[e].exists, pool[e].enabled, ~pool[e].archived, pool[e].cooldownUntil # 0
             PROVE  /\ Eligible(e) => pool[e].cooldownUntil < now + TicksPerSecond
                    /\ ~Eligible(e) => now < pool[e].cooldownUntil + TicksPerSecond
  BY DEF SelectionWithinASecond
<1>1. pool[e] \in Row /\ now \in Nat
  BY DEF TypeOK, PoolTypeOK
<1>2. pool[e].cooldownUntil \in Nat
  BY <1>1 DEF Row
<1>3. Eligible(e) <=> Before(pool[e].cooldownUntil, now)
  BY DEF Eligible
<1> QED
  BY <1>1, <1>2, <1>3, TextOrder

\* An endpoint is passed over for less than a second after its cooldown and
\* taken up less than a second before its end, for every resolution of the clock
\* (the text comparison of cooldown_until in SelectEndpoint).
THEOREM SelectionIsPunctual == Spec => []SelectionWithinASecond
BY TypeCorrect, SelectionOfTyped, PTL

LEMMA HealthOfTyped == TypeOK => HealthTellsService
<1> DEFINE Cooling == {e \in Kept : CooldownActive(e)}
           serving == {e \in Endpoint : Eligible(e)}
           resting == {e \in Kept \ EnabledRows : CooldownActive(e)}
           awake == {e \in EnabledRows : CooldownActive(e)}
<1> SUFFICES ASSUME TypeOK,
                    \A e \in EnabledRows :
                      ~ (/\ pool[e].cooldownUntil # 0
                         /\ pool[e].cooldownUntil < now + TicksPerSecond
                         /\ now < pool[e].cooldownUntil + TicksPerSecond)
             PROVE  (HealthStatus = "in_service" <=> serving # {})
                      <=> \/ resting = {} \/ EnabledRows = {}
                          \/ serving # {} /\ Cardinality(serving) # Cardinality(resting)
  BY DEF HealthTellsService
<1>1. pool \in [Endpoint -> Row] /\ now \in Nat \ {0} /\ TicksPerSecond \in Nat
  BY DEF TypeOK, PoolTypeOK, TimestampsAssumption
<1>2. \A e \in Endpoint : pool[e].cooldownUntil \in Nat
  BY <1>1 DEF Row
<1>3. \A e \in Endpoint : Eligible(e) => e \in EnabledRows
  BY DEF Eligible, EnabledRows, Kept
<1>4. ASSUME NEW e \in EnabledRows PROVE Eligible(e) <=> ~CooldownActive(e)
  <2>1. e \in Endpoint /\ pool[e].exists /\ pool[e].enabled /\ ~pool[e].archived
    BY DEF EnabledRows, Kept
  <2>2. CASE pool[e].cooldownUntil = 0
    BY <1>1, <2>1, <2>2 DEF Eligible, CooldownActive
  <2>3. CASE pool[e].cooldownUntil # 0
    <3>1. /\ Eligible(e) => pool[e].cooldownUntil < now + TicksPerSecond
          /\ ~Eligible(e) => now < pool[e].cooldownUntil + TicksPerSecond
      BY <2>1, <2>3, SelectionOfTyped DEF SelectionWithinASecond
    <3>2. \/ pool[e].cooldownUntil >= now + TicksPerSecond
          \/ now >= pool[e].cooldownUntil + TicksPerSecond
      BY <1>1, <1>2, <2>1, <2>3
    <3> QED
      BY <1>1, <1>2, <2>1, <3>1, <3>2 DEF CooldownActive
  <2> QED
    BY <2>2, <2>3
\* The enabled rows are those that serve and those that cool, the cooling rows
\* those that are enabled and those that are not.
<1>5. /\ EnabledRows = serving \cup awake /\ serving \cap awake = {}
      /\ Cooling = resting \cup awake /\ resting \cap awake = {}
  BY <1>3, <1>4 DEF EnabledRows, Kept
<1>6. IsFiniteSet(serving) /\ IsFiniteSet(awake) /\ IsFiniteSet(resting)
  <2>1. IsFiniteSet(Endpoint)
    BY FS_Interval
  <2>2. serving \subseteq Endpoint /\ awake \subseteq Endpoint /\ resting \subseteq Endpoint
    BY DEF EnabledRows, Kept
  <2> QED
    BY <2>1, <2>2, FS_Subset
<1> HIDE DEF Cooling, serving, resting, awake
<1>7. /\ Cardinality(serving) \in Nat /\ Cardinality(resting) \in Nat /\ Cardinality(awake) \in Nat
      /\ Cardinality(serving) = 0 <=> serving = {}
      /\ Cardinality(resting) = 0 <=> resting = {}
  BY <1>6, FS_CardinalityType, FS_EmptySet
<1>8. /\ Cardinality(EnabledRows) = Cardinality(serving) + Cardinality(awake)
      /\ Cardinality(Cooling) = Cardinality(resting) + Cardinality(awake)
  <2>1. Cardinality({}) = 0
    BY FS_EmptySet
  <2>2. /\ Cardinality(serving \cup awake)
             = Cardinality(serving) + Cardinality(awake) - Cardinality(serving \cap awake)
        /\ Cardinality(resting \cup awake)
             = Cardinality(resting) + Cardinality(awake) - Cardinality(resting \cap awake)
    BY <1>6, FS_Union
  <2>3. /\ Cardinality(serving \cap awake) = 0 /\ Cardinality(resting \cap awake) = 0
        /\ Cardinality(EnabledRows) = Cardinality(serving \cup awake)
        /\ Cardinality(Cooling) = Cardinality(resting \cup awake)
    BY <1>5, <2>1
  <2> QED
    BY <1>7, <2>2, <2>3
<1>9. Cardinality(EnabledRows) = Cardinality(Cooling)
        <=> Cardinality(serving) = Cardinality(resting)
  BY <1>7, <1>8
<1>10. HealthStatus = "in_service" <=>
         EnabledRows # {} /\ Cardinality(EnabledRows) # Cardinality(Cooling)
  <2>1. EnabledRows \subseteq Kept
    BY DEF EnabledRows
  <2>2. CASE Kept = {}
    BY <2>1, <2>2 DEF HealthStatus
  <2>3. CASE Kept # {} /\ EnabledRows = {}
    BY <2>3 DEF HealthStatus
  <2>4. CASE Kept # {} /\ EnabledRows # {}
    BY <2>4 DEF HealthStatus, Cooling
  <2> QED
    BY <2>2, <2>3, <2>4
<1>11. serving # {} => EnabledRows # {}
  BY <1>5
<1> QED
  BY <1>7, <1>9, <1>10, <1>11

\* The health page is right about whether a request would be answered exactly
\* where no disabled endpoint cools, none is enabled, or some serve and not as many
\* as disabled ones cool; but for a second around a cooldown's end (BuildHealth's
\* counts and the query of SelectEndpoint).
THEOREM HealthIsTold == Spec => []HealthTellsService
BY TypeCorrect, HealthOfTyped, PTL

----------------------------------------------------------------------------
(* The contract. *)

Sends(row) == IF row.pc = "sent" THEN row.attempt + 1 ELSE row.attempt

\* How one request may turn.
Stays(row, next) == Sends(next) = Sends(row) /\ next.verdict = row.verdict

SendsAgain(row, next) ==
  /\ row.verdict = "none" /\ next.verdict = "none"
  /\ Sends(row) < MaxRetries /\ Sends(next) = Sends(row) + 1

IsAnswered(row, next) ==
  /\ row.verdict = "none" /\ Sends(next) = Sends(row)
  /\ next.verdict \in Verdict
  /\ next.verdict \in {"ok", "soft", "unreadable", "cool"} => Sends(row) > 0
  /\ next.verdict = "network" => Sends(row) = MaxRetries

\* An answer by the proxy itself, without an attempt of its own.
LEMMA LocalAnswer ==
  ASSUME IInv, NEW r \in Requests, req[r].pc \in {"idle", "select"}, NEW v \in Verdict,
         req' = [req EXCEPT ![r] = Answered(req[r], v)],
         v \in {"bad_request", "unconfigured", "no_url", "internal"} \/ (v = "cool" /\ req[r].last = "cool")
  PROVE  IsAnswered(req[r], req'[r])
<1>1. req[r] \in Request /\ Unanswered(req[r]) /\ req \in [Requests -> Request]
  BY DEF IInv, TypeOK
<1>2. /\ req'[r].pc = "answered" /\ req'[r].verdict = v /\ req'[r].attempt = req[r].attempt
  BY <1>1, AnsweredRequest
<1> QED
  BY <1>1, <1>2 DEF IsAnswered, Sends, Unanswered

\* An answer at the end of an attempt.
LEMMA AttemptAnswer ==
  ASSUME IInv, NEW r \in Requests, req[r].pc = "sent", NEW v \in Verdict,
         req'[r] = Answered(Attempted(r), v),
         v \in {"ok", "soft", "unreadable", "cool"} \/ (v = "network" /\ LastAttempt(r))
  PROVE  IsAnswered(req[r], req'[r])
<1>1. req[r] \in Request /\ Unanswered(req[r])
  BY DEF IInv, TypeOK
<1>2. Attempted(r) \in Request /\ Attempted(r).attempt = req[r].attempt + 1
  BY AttemptedRequest
<1>3. /\ req'[r].pc = "answered" /\ req'[r].verdict = v /\ req'[r].attempt = req[r].attempt + 1
  BY <1>2, AnsweredRequest
<1>4. req[r].attempt \in Nat
  BY <1>1 DEF Request
<1> QED
  BY <1>1, <1>3, <1>4 DEF IsAnswered, Sends, Unanswered, LastAttempt

LEMMA RequestTurns ==
  ASSUME IInv, NEW r \in Requests, Begin(r) \/ Refuse(r) \/ Forward(r) \/ SelectFails(r)
  PROVE  Stays(req[r], req'[r]) \/ SendsAgain(req[r], req'[r]) \/ IsAnswered(req[r], req'[r])
<1>1. req[r] \in Request /\ Unanswered(req[r]) /\ req \in [Requests -> Request]
  BY DEF IInv, TypeOK
<1>2. req[r].attempt \in Nat
  BY <1>1 DEF Request
<1>3. {"ok", "soft", "unreadable", "bad_request", "unconfigured", "no_url", "internal",
       "cool", "network"} \subseteq Verdict
  BY DEF Verdict
<1>4. CASE Begin(r)
  <2>1. /\ req[r].pc = "idle" /\ req'[r].pc = "select"
        /\ req'[r].attempt = req[r].attempt /\ req'[r].verdict = req[r].verdict
    BY <1>1, <1>4 DEF Begin, Request
  <2> QED
    BY <2>1 DEF Stays, Sends
<1>5. CASE Refuse(r)
  BY <1>3, <1>5, LocalAnswer DEF Refuse
<1>6. CASE SelectFails(r)
  BY <1>3, <1>6, LocalAnswer DEF SelectFails
<1>7. CASE SelectNone(r)
  <2>1. PICK v \in {"unconfigured", "cool"} :
          /\ req' = [req EXCEPT ![r] = Answered(req[r], v)]
          /\ v = "cool" => req[r].last = "cool"
    BY <1>1, <1>7 DEF SelectNone, Request
  <2>2. req[r].pc = "select"
    BY <1>7 DEF SelectNone
  <2> QED
    BY <1>3, <2>1, <2>2, LocalAnswer
<1>8. ASSUME NEW e \in Endpoint, Select(r, e)
      PROVE  SendsAgain(req[r], req'[r]) \/ IsAnswered(req[r], req'[r])
  <2>1. CASE pool[e].url
    <3>1. /\ req[r].pc = "select" /\ req'[r].pc = "sent"
          /\ req'[r].attempt = req[r].attempt /\ req'[r].verdict = req[r].verdict
      BY <1>1, <1>8, <2>1 DEF Select, Request
    <3> QED
      BY <1>1, <1>2, <3>1 DEF SendsAgain, Sends, Unanswered
  <2>2. CASE ~pool[e].url
    <3>1. req[r].pc = "select" /\ req' = [req EXCEPT ![r] = Answered(req[r], "no_url")]
      BY <1>8, <2>2 DEF Select
    <3> QED
      BY <1>3, <3>1, LocalAnswer
  <2> QED
    BY <2>1, <2>2
<1>9. CASE Succeed(r)
  <2>1. req[r].pc = "sent"
    BY <1>9 DEF Succeed
  <2>2. req[r].endpoint \in Endpoint
    BY <2>1, AttemptedRequest
  <2>3. req'[r] = Answered(Attempted(r), "ok")
    BY <1>9, <2>2, ForgivenRequests DEF Succeed
  <2> QED
    BY <1>3, <2>1, <2>3, AttemptAnswer
<1>10. CASE SoftFailure(r) \/ Unreadable(r)
  <2>1. PICK v \in {"soft", "unreadable"} : req'[r] = Answered(Attempted(r), v)
    BY <1>1, <1>10 DEF SoftFailure, Unreadable
  <2>2. req[r].pc = "sent"
    BY <1>10 DEF SoftFailure, Unreadable
  <2> QED
    BY <1>3, <2>1, <2>2, AttemptAnswer
<1>11. ASSUME NEW last, NEW v \in {"cool", "network"}, req[r].pc = "sent", Burn(r, last, v)
       PROVE  Stays(req[r], req'[r]) \/ IsAnswered(req[r], req'[r])
  <2>1. CASE LastAttempt(r)
    <3>1. req'[r] = Answered(Attempted(r), v)
      BY <1>1, <1>11, <2>1 DEF Burn
    <3> QED
      BY <1>3, <1>11, <2>1, <3>1, AttemptAnswer
  <2>2. CASE ~LastAttempt(r)
    <3>1. PICK burnt : req'[r] = [Attempted(r) EXCEPT !.pc = "select", !.last = last, !.burnt = burnt]
      BY <1>1, <1>11, <2>2 DEF Burn
    <3>2. /\ Attempted(r) \in Request /\ Attempted(r).attempt = req[r].attempt + 1
          /\ Attempted(r).verdict = "none"
      BY <1>11, AttemptedRequest
    <3>3. req'[r].pc = "select" /\ req'[r].attempt = req[r].attempt + 1 /\ req'[r].verdict = "none"
      BY <3>1, <3>2 DEF Request
    <3>4. req[r].verdict = "none"
      BY <1>1, <1>11 DEF Unanswered
    <3> QED
      BY <1>11, <3>3, <3>4 DEF Stays, Sends
  <2> QED
    BY <2>1, <2>2
<1>12. ASSUME NEW d \in Durations, CoolFailure(r, d)
       PROVE  Stays(req[r], req'[r]) \/ IsAnswered(req[r], req'[r])
  BY <1>11, <1>12 DEF CoolFailure
<1>13. CASE NetworkError(r)
  BY <1>11, <1>13 DEF NetworkError
<1> QED
  BY <1>4, <1>5, <1>6, <1>7, <1>8, <1>9, <1>10, <1>12, <1>13 DEF Forward, Respond

LEMMA ContractStep == IInv /\ [Next]_vars =>
  [Contract!Next]_<<[r \in Requests |-> Sends(req[r])], [r \in Requests |-> req[r].verdict]>>
<1> DEFINE sends == [r \in Requests |-> Sends(req[r])]
           verdict == [r \in Requests |-> req[r].verdict]
<1> SUFFICES ASSUME IInv, [Next]_vars
             PROVE  Contract!Next \/ UNCHANGED <<sends, verdict>>
  OBVIOUS
<1>1. /\ sends' = [r \in Requests |-> Sends(req'[r])]
      /\ verdict' = [r \in Requests |-> req'[r].verdict]
  BY DEF Sends
<1>2. ASSUME \A r \in Requests : Stays(req[r], req'[r]) PROVE UNCHANGED <<sends, verdict>>
  BY <1>1, <1>2 DEF Stays
<1>3. ASSUME NEW q \in Requests, Begin(q) \/ Refuse(q) \/ Forward(q) \/ SelectFails(q)
      PROVE  Contract!Next \/ UNCHANGED <<sends, verdict>>
  <2>1. \A r \in Requests : r # q => Stays(req[r], req'[r])
    BY <1>3, OneTurns DEF Stays, Sends
  <2>2. CASE Stays(req[q], req'[q])
    BY <1>2, <2>1, <2>2
  <2>3. CASE SendsAgain(req[q], req'[q])
    <3>1. sends' = [sends EXCEPT ![q] = sends[q] + 1] /\ verdict' = verdict
      BY <1>1, <2>1, <2>3 DEF Stays, SendsAgain
    <3>2. verdict[q] = "none" /\ sends[q] < MaxRetries
      BY <2>3 DEF SendsAgain
    <3>3. Contract!Send(q)
      BY <3>1, <3>2 DEF Contract!Send, Sends
    <3> QED
      BY <3>3 DEF Contract!Next
  <2>4. CASE IsAnswered(req[q], req'[q])
    <3>1. PICK v \in Verdict : v = req'[q].verdict
      BY <2>4 DEF IsAnswered
    <3>2. sends' = sends /\ verdict' = [verdict EXCEPT ![q] = v]
      BY <1>1, <2>1, <2>4, <3>1 DEF Stays, IsAnswered
    <3>3. verdict[q] = "none" /\ sends[q] = Sends(req[q]) /\ v \in Contract!Verdict
      BY <2>4 DEF IsAnswered, Verdict, Contract!Verdict, Contract!Final, Contract!Local, Contract!Exhausted
    <3>4. Contract!Answer(q, v)
      BY <2>4, <3>1, <3>2, <3>3 DEF IsAnswered, Contract!Answer, Contract!Final, Sends
    <3> QED
      BY <3>3, <3>4 DEF Contract!Next
  <2> QED
    BY <1>3, <2>2, <2>3, <2>4, RequestTurns
<1>4. ASSUME NEW e \in 1..lastEndpoint, Clear(e) PROVE UNCHANGED <<sends, verdict>>
  <2>1. e \in Endpoint /\ req' = Forgiven(e)
    BY <1>4 DEF Clear, IInv, TypeOK, PoolTypeOK
  <2> QED
    BY <1>2, <2>1, Forgiving DEF Stays, Sends
<1>5. ASSUME req' = req PROVE UNCHANGED <<sends, verdict>>
  BY <1>1, <1>5
<1> QED
  BY <1>3, <1>4, <1>5 DEF Next, AdminNext, Add, Administer, Tick, vars

\* Whatever operators and failures make of the pool, the client of a request
\* sees what RetryContract promises: at most MaxRetries attempts, one answer,
\* and "network" only when the attempts are used up (Forward).
THEOREM ContractImplemented == Spec => ImplementsContract
<1>1. Init => Contract!Init
  BY FreshRequest DEF Init, Contract!Init
<1>2. IInv /\ [Next]_vars =>
        [Contract!Next]_<<[r \in Requests |-> IF req[r].pc = "sent" THEN req[r].attempt + 1
                                              ELSE req[r].attempt],
                         [r \in Requests |-> req[r].verdict]>>
  BY ContractStep DEF Sends
<1> QED
  BY <1>1, <1>2, Invariance, PTL DEF Spec, ImplementsContract, Contract!Spec

----------------------------------------------------------------------------
(* Selection is decided: the order of SelectEndpoint has a least endpoint.  *)

LessThan == {ss \in Nat \X Nat : ss[1] < ss[2]}

LEMMA LessThanWellFounded == IsWellFoundedOn(LessThan, Nat)
BY NatLessThanWellFounded DEF OpToRel, LessThan

LEMMA LeastNatural ==
  ASSUME NEW S, S \subseteq Nat, S # {}
  PROVE  \E n \in S : \A m \in S : n <= m
<1>1. PICK n \in S : \A m \in S : <<m, n>> \notin LessThan
  BY LessThanWellFounded, WFMin
<1>2. ASSUME NEW m \in S PROVE n <= m
  <2>1. m \in Nat /\ n \in Nat
    OBVIOUS
  <2>2. <<m, n>> \in Nat \X Nat /\ <<m, n>>[1] = m /\ <<m, n>>[2] = n
    BY <2>1
  <2>3. ~(m < n)
    BY <1>1, <2>2 DEF LessThan
  <2> QED
    BY <2>1, <2>3
<1> QED
  BY <1>2

\* Nanoseconds tell fractions apart and stay below a second.
LEMMA NanosTell ==
  ASSUME NEW s \in Nat, NEW t \in Nat
  PROVE  /\ Nanos(t) \in Nat /\ Nanos(t) < 1000000000
         /\ Nanos(s) < Nanos(t) <=> Fraction(s) < Fraction(t)
<1> DEFINE w == 1000000000 \div TicksPerSecond
<1>1. TicksPerSecond \in Nat \ {0} /\ 1000000000 % TicksPerSecond = 0
  BY DEF TimestampsAssumption
<1>2. w \in Nat /\ 1000000000 = TicksPerSecond * w
  BY <1>1
<1>3. w > 0
  BY <1>1, <1>2
<1>4. \A v \in Nat : Fraction(v) \in 0..(TicksPerSecond - 1) /\ Nanos(v) = w * Fraction(v)
  <2>1. ASSUME NEW v \in Nat PROVE Fraction(v) \in 0..(TicksPerSecond - 1)
    BY Parts
  <2>2. ASSUME NEW v \in Nat PROVE Nanos(v) = w * Fraction(v)
    BY <1>1, <1>2, <2>1 DEF Nanos
  <2> QED
    BY <2>1, <2>2
<1> HIDE DEF w
<1>5. ASSUME NEW v \in Nat, NEW u \in Nat, Fraction(v) < Fraction(u)
      PROVE  Nanos(v) + w <= Nanos(u) /\ Nanos(v) \in Nat /\ Nanos(u) \in Nat
  <2>1. Fraction(v) \in Nat /\ Fraction(u) \in Nat
    BY <1>1, <1>4
  <2> QED
    BY <1>2, <1>4, <1>5, <2>1, ProductGrows
<1>6. Nanos(t) \in Nat /\ Nanos(t) < 1000000000
  <2>1. Fraction(t) \in Nat /\ Fraction(t) < TicksPerSecond
    BY <1>1, <1>4
  <2>2. w * Fraction(t) + w <= w * TicksPerSecond /\ w * Fraction(t) \in Nat
    <3>1. TicksPerSecond \in Nat
      BY <1>1
    <3>2. w \in Nat
      BY <1>2
    <3> DEFINE f == Fraction(t)
    <3>3. f \in Nat /\ f < TicksPerSecond
      BY <2>1
    <3> HIDE DEF f
    <3>4. w * f + w <= w * TicksPerSecond /\ w * f \in Nat
      BY <3>1, <3>2, <3>3, ProductGrows
    <3> QED
      BY <3>4 DEF f
  <2>3. w * TicksPerSecond = 1000000000
    BY <1>1, <1>2
  <2>4. Nanos(t) \in Nat /\ Nanos(t) + w <= 1000000000
    BY <1>4, <2>2, <2>3
  <2> QED
    BY <1>2, <1>3, <2>4
<1>7. Nanos(s) < Nanos(t) <=> Fraction(s) < Fraction(t)
  <2>1. Fraction(s) \in Nat /\ Fraction(t) \in Nat
    BY <1>1, <1>4
  <2>2. CASE Fraction(s) < Fraction(t)
    BY <1>2, <1>3, <1>5, <2>2
  <2>3. CASE Fraction(t) < Fraction(s)
    BY <1>2, <1>3, <1>5, <2>1, <2>3
  <2>4. CASE Fraction(t) = Fraction(s)
    <3>1. Nanos(s) = Nanos(t)
      BY <2>4 DEF Nanos
    <3> QED
      BY <1>6, <2>1, <2>4, <3>1
  <2> QED
    BY <2>1, <2>2, <2>3, <2>4
<1> QED
  BY <1>6, <1>7

\* What the last digit of a fraction counts: a billion when it has none.
Unit(n) == CHOOSE u \in Units : /\ \E q \in Nat : n = u * q
                                /\ \A v \in Units : (\E q \in Nat : n = v * q) => v <= u

LEMMA UnitExists ==
  ASSUME NEW n \in Nat
  PROVE  /\ Unit(n) \in Units
         /\ \E q \in Nat : n = Unit(n) * q
         /\ \A v \in Units : (\E q \in Nat : n = v * q) => v <= Unit(n)
<1> DEFINE P(u) == \E q \in Nat : n = u * q
<1>1. P(1)
  <2>1. n = 1 * n
    OBVIOUS
  <2> QED
    BY <2>1
<1> HIDE DEF P
<1>2. \E u \in Units : P(u) /\ \A v \in Units : P(v) => v <= u
  BY <1>1 DEF Units
<1>3. /\ Unit(n) \in Units /\ P(Unit(n))
      /\ \A v \in Units : P(v) => v <= Unit(n)
  BY <1>2 DEF Unit, P
<1> QED
  BY <1>3 DEF P

\* A number between a text and its end has a finer last digit and ends no later.
LEMMA Nested ==
  ASSUME NEW a \in Units, NEW b \in Units, NEW p \in Nat, NEW q \in Nat,
         b * q < a * p, a * p < b * q + b
  PROVE  a < b /\ a * p + a <= b * q + b
<1>1. CASE a = 1
  BY <1>1 DEF Units
<1>2. CASE a = 10
  BY <1>2 DEF Units
<1>3. CASE a = 100
  BY <1>3 DEF Units
<1>4. CASE a = 1000
  BY <1>4 DEF Units
<1>5. CASE a = 10000
  BY <1>5 DEF Units
<1>6. CASE a = 100000
  BY <1>6 DEF Units
<1>7. CASE a = 1000000
  BY <1>7 DEF Units
<1>8. CASE a = 10000000
  BY <1>8 DEF Units
<1>9. CASE a = 100000000
  BY <1>9 DEF Units
<1>10. CASE a = 1000000000
  BY <1>10 DEF Units
<1> QED
  BY <1>1, <1>2, <1>3, <1>4, <1>5, <1>6, <1>7, <1>8, <1>9, <1>10 DEF Units

\* Cutting a number after a digit.
LEMMA Cut ==
  ASSUME NEW u \in Units, NEW n \in Nat, NEW q \in Nat
  PROVE  /\ u * (n \div u) <= n /\ n < u * (n \div u) + u /\ n \div u \in Nat
         /\ (u * q <= n /\ n < u * q + u) => u * q = u * (n \div u)
  BY DEF Units

\* A fraction's text and the later ones that go on where it ends fill the time
\* up to its end, which is within the second.
LEMMA TextEnds ==
  ASSUME NEW n \in Nat, n < 1000000000
  PROVE  /\ Unit(n) \in Nat /\ Unit(n) > 0 /\ Unit(n) <= 1000000000
         /\ n + Unit(n) <= 1000000000
<1>1. PICK q \in Nat : n = Unit(n) * q
  BY UnitExists
<1>2. Unit(n) \in Units
  BY UnitExists
<1>3. Unit(n) \in Nat /\ Unit(n) > 0 /\ Unit(n) <= 1000000000
  BY <1>2 DEF Units
<1> DEFINE a == Unit(n)
<1> HIDE DEF a
<1>4. CASE n = 0
  BY <1>3, <1>4
<1>5. CASE n > 0
  <2>1. 1000000000 \in Units
    BY DEF Units
  <2>2. 1000000000 * 0 < Unit(n) * q /\ Unit(n) * q < 1000000000 * 0 + 1000000000
    BY <1>1, <1>5
  <2>3. Unit(n) * q + Unit(n) <= 1000000000 * 0 + 1000000000
    BY <1>2, <2>1, <2>2, Nested
  <2> QED
    BY <1>1, <1>3, <2>3
<1> QED
  BY <1>3, <1>4, <1>5

LEMMA TextsNest ==
  ASSUME NEW m \in Nat, NEW n \in Nat, m < n, n < m + Unit(m)
  PROVE  Unit(n) < Unit(m) /\ n + Unit(n) <= m + Unit(m)
<1>1. PICK q \in Nat : m = Unit(m) * q
  BY UnitExists
<1>2. PICK p \in Nat : n = Unit(n) * p
  BY UnitExists
<1>3. Unit(m) \in Units /\ Unit(n) \in Units
  BY UnitExists
<1>4. Unit(m) * q < Unit(n) * p /\ Unit(n) * p < Unit(m) * q + Unit(m)
  BY <1>1, <1>2
<1> QED
  BY <1>1, <1>2, <1>3, <1>4, Nested

LEMMA ExtendsWithin ==
  ASSUME NEW s \in Nat, NEW t \in Nat
  PROVE  Extends(s, t) <=> /\ Second(s) = Second(t)
                           /\ Nanos(t) < Nanos(s)
                           /\ Nanos(s) < Nanos(t) + Unit(Nanos(t))
<1> DEFINE m == Nanos(s)
           n == Nanos(t)
<1>1. m \in Nat /\ n \in Nat
  BY NanosTell
<1> HIDE DEF m, n
<1>2. ASSUME NEW u \in Units, n = u * (m \div u), m # n
      PROVE  n < m /\ m < n + Unit(n)
  <2>1. n <= m /\ m < n + u /\ m \div u \in Nat
    BY <1>1, <1>2, Cut
  <2>2. u <= Unit(n)
    BY <1>1, <1>2, <2>1, UnitExists
  <2>3. u \in Nat /\ Unit(n) \in Nat
    BY <1>1, UnitExists DEF Units
  <2> QED
    BY <1>1, <1>2, <2>1, <2>2, <2>3
<1>3. ASSUME n < m, m < n + Unit(n)
      PROVE  m # n /\ \E u \in Units : n = u * (m \div u)
  <2>1. Unit(n) \in Units
    BY <1>1, UnitExists
  <2>2. PICK q \in Nat : n = Unit(n) * q
    BY <1>1, UnitExists
  <2>3. n = Unit(n) * (m \div Unit(n))
    BY <1>1, <1>3, <2>1, <2>2, Cut
  <2> QED
    BY <1>1, <1>3, <2>1, <2>3
<1> QED
  BY <1>2, <1>3 DEF Extends, m, n

\* The place of a stamp in text order: by where its text ends, and of those that
\* end together the one with the finer last digit first.
Rank(t) ==
  2000000000 * (1000000000 * Second(t) + Nanos(t) + Unit(Nanos(t))) + Unit(Nanos(t))

LEMMA RankOrders ==
  ASSUME NEW s \in Nat, NEW t \in Nat
  PROVE  /\ Rank(s) \in Nat
         /\ Before(s, t) <=> Rank(s) < Rank(t)
         /\ Rank(s) = Rank(t) => s = t
<1> DEFINE m == Nanos(s)
           n == Nanos(t)
           um == Unit(m)
           un == Unit(n)
<1>1. m \in Nat /\ m < 1000000000 /\ n \in Nat /\ n < 1000000000
  BY NanosTell
<1>2. /\ um \in Nat /\ um > 0 /\ um <= 1000000000 /\ m + um <= 1000000000
      /\ un \in Nat /\ un > 0 /\ un <= 1000000000 /\ n + un <= 1000000000
  <2> HIDE DEF m, n
  <2> QED
    BY <1>1, TextEnds
<1>3. /\ (m < n /\ n < m + um) => (un < um /\ n + un <= m + um)
      /\ (n < m /\ m < n + un) => (um < un /\ m + um <= n + un)
  <2> HIDE DEF m, n
  <2> QED
    BY <1>1, TextsNest
<1>4. /\ Extends(s, t) <=> (Second(s) = Second(t) /\ n < m /\ m < n + un)
      /\ Extends(t, s) <=> (Second(s) = Second(t) /\ m < n /\ n < m + um)
  BY ExtendsWithin
<1>5. /\ Rank(s) = 2000000000 * (1000000000 * Second(s) + m + um) + um
      /\ Rank(t) = 2000000000 * (1000000000 * Second(t) + n + un) + un
  BY DEF Rank
<1>6. Second(s) \in Nat /\ Second(t) \in Nat
  BY Parts
<1>7. CASE Second(s) = Second(t)
  <2>1. /\ m < n <=> s < t
        /\ n < m <=> t < s
    <3>1. TicksPerSecond \in Nat /\ TicksPerSecond * Second(s) \in Nat
      BY <1>6 DEF TimestampsAssumption
    <3> DEFINE q == TicksPerSecond * Second(s)
    <3>2. /\ Fraction(s) \in Nat /\ Fraction(t) \in Nat
          /\ s = q + Fraction(s) /\ t = q + Fraction(t) /\ q \in Nat
      BY <1>7, <3>1, Parts
    <3> HIDE DEF q
    <3>3. /\ m < n <=> Fraction(s) < Fraction(t)
          /\ n < m <=> Fraction(t) < Fraction(s)
      BY NanosTell
    <3> QED
      BY <3>2, <3>3
  <2> HIDE DEF m, n, um, un
  <2>2. CASE m = n
    <3>1. um = un
      BY <2>2 DEF um, un
    <3> QED
      BY <1>1, <1>2, <1>4, <1>5, <1>6, <1>7, <2>1, <2>2, <3>1 DEF Before
  <2>3. CASE m < n
    <3>1. CASE n < m + um
      BY <1>1, <1>2, <1>3, <1>4, <1>5, <1>6, <1>7, <2>1, <2>3, <3>1 DEF Before
    <3>2. CASE ~(n < m + um)
      BY <1>1, <1>2, <1>3, <1>4, <1>5, <1>6, <1>7, <2>1, <2>3, <3>2 DEF Before
    <3> QED
      BY <3>1, <3>2
  <2>4. CASE n < m
    <3>1. CASE m < n + un
      BY <1>1, <1>2, <1>3, <1>4, <1>5, <1>6, <1>7, <2>1, <2>4, <3>1 DEF Before
    <3>2. CASE ~(m < n + un)
      BY <1>1, <1>2, <1>3, <1>4, <1>5, <1>6, <1>7, <2>1, <2>4, <3>2 DEF Before
    <3> QED
      BY <3>1, <3>2
  <2> QED
    BY <1>1, <2>2, <2>3, <2>4
<1>8. CASE Second(s) < Second(t)
  <2>1. s < t
    BY <1>8, SecondsApart
  <2> HIDE DEF m, n, um, un
  <2>2. Before(s, t)
    BY <1>4, <1>6, <1>8, <2>1 DEF Before
  <2> QED
    BY <1>1, <1>2, <1>5, <1>6, <1>8, <2>2
<1>9. CASE Second(t) < Second(s)
  <2>1. t < s
    BY <1>9, SecondsApart
  <2> HIDE DEF m, n, um, un
  <2>2. ~Before(s, t)
    BY <1>4, <1>6, <1>9, <2>1 DEF Before
  <2> QED
    BY <1>1, <1>2, <1>5, <1>6, <1>9, <2>2
<1> QED
  BY <1>6, <1>7, <1>8, <1>9

\* The order is total, so two endpoints are not both first.
LEMMA SelectedOnce ==
  ASSUME PoolTypeOK, NEW d \in Endpoint, NEW e \in Endpoint, Selected(d), Selected(e)
  PROVE  d = e
<1> SUFFICES ASSUME d # e PROVE FALSE
  OBVIOUS
<1>1. Precedes(d, e) /\ Precedes(e, d)
  BY DEF Selected
<1>2. pool[d].lastFailed \in Nat /\ pool[e].lastFailed \in Nat
  BY DEF PoolTypeOK, Row
<1>3. /\ Before(pool[d].lastFailed, pool[e].lastFailed)
           <=> Rank(pool[d].lastFailed) < Rank(pool[e].lastFailed)
      /\ Before(pool[e].lastFailed, pool[d].lastFailed)
           <=> Rank(pool[e].lastFailed) < Rank(pool[d].lastFailed)
      /\ Rank(pool[d].lastFailed) \in Nat /\ Rank(pool[e].lastFailed) \in Nat
  BY <1>2, RankOrders
<1> QED
  BY <1>1, <1>3 DEF Precedes

\* Of the endpoints in a set the one with the least stamp, and of these the one
\* with the least id.
LEMMA FirstOf ==
  ASSUME PoolTypeOK, NEW S \in SUBSET Endpoint, S # {},
         \A d, e \in S : pool[d].lastFailed = 0 <=> pool[e].lastFailed = 0
  PROVE  \E e \in S : \A d \in S \ {e} : Precedes(e, d)
<1>1. \A e \in S : pool[e].lastFailed \in Nat
  BY DEF PoolTypeOK, Row
<1> DEFINE RankOf(e) == Rank(pool[e].lastFailed)
<1>2. \A e \in S : RankOf(e) \in Nat
  BY <1>1, RankOrders
<1>3. PICK first \in S : \A d \in S : RankOf(first) <= RankOf(d)
  <2>1. {RankOf(e) : e \in S} \subseteq Nat /\ {RankOf(e) : e \in S} # {}
    BY <1>2
  <2>2. PICK n \in {RankOf(e) : e \in S} : \A m \in {RankOf(e) : e \in S} : n <= m
    BY <2>1, LeastNatural
  <2> QED
    BY <2>2
<1> DEFINE Ties == {d \in S : pool[d].lastFailed = pool[first].lastFailed}
<1>4. PICK e \in Ties : \A d \in Ties : e <= d
  <2>1. S \subseteq Nat
    BY DEF PoolAssumption
  <2>2. first \in Ties /\ Ties \subseteq S
    OBVIOUS
  <2>3. Ties \subseteq Nat /\ Ties # {}
    BY <2>1, <2>2
  <2> HIDE DEF Ties
  <2> QED
    BY <2>3, LeastNatural
<1>5. ASSUME NEW d \in S \ {e} PROVE Precedes(e, d)
  <2>1. pool[e].lastFailed = pool[first].lastFailed /\ e \in S
    OBVIOUS
  <2>2. CASE d \in Ties
    BY <1>4, <1>5, <2>1, <2>2 DEF Precedes
  <2>3. CASE d \notin Ties
    <3>1. RankOf(e) <= RankOf(d) /\ pool[d].lastFailed # pool[e].lastFailed
      BY <1>3, <2>1, <2>3
    <3>2. RankOf(e) < RankOf(d)
      BY <1>1, <1>2, <2>1, <3>1, RankOrders
    <3>3. Before(pool[e].lastFailed, pool[d].lastFailed)
      BY <1>1, <2>1, <3>2, RankOrders
    <3>4. pool[e].lastFailed # 0 /\ pool[d].lastFailed # 0
      BY <2>1, <3>1
    <3> QED
      BY <3>3, <3>4 DEF Precedes
  <2> QED
    BY <2>2, <2>3
<1> QED
  BY <1>4, <1>5

LEMMA SelectionOfAny ==
  ASSUME PoolTypeOK, ~NoneEligible
  PROVE  \E e \in Endpoint : Selected(e)
<1> DEFINE All == {e \in Endpoint : Eligible(e)}
           Sound == {e \in All : pool[e].lastFailed = 0}
<1>1. All # {} /\ All \in SUBSET Endpoint
  BY DEF NoneEligible
<1>2. CASE Sound # {}
  <2>1. PICK e \in Sound : \A d \in Sound \ {e} : Precedes(e, d)
    <3>1. Sound \in SUBSET Endpoint
      OBVIOUS
    <3>2. \A d, e \in Sound : pool[d].lastFailed = 0 <=> pool[e].lastFailed = 0
      OBVIOUS
    <3> HIDE DEF Sound
    <3> QED
      BY <1>2, <3>1, <3>2, FirstOf
  <2>2. \A d \in All \ Sound : Precedes(e, d)
    BY DEF Precedes
  <2>3. \A d \in Endpoint \ {e} : Eligible(d) => Precedes(e, d)
    BY <2>1, <2>2
  <2> QED
    BY <2>3 DEF Selected
<1>3. CASE Sound = {}
  <2>1. \A d, e \in All : pool[d].lastFailed = 0 <=> pool[e].lastFailed = 0
    BY <1>3
  <2>2. PICK e \in All : \A d \in All \ {e} : Precedes(e, d)
    BY <1>1, <2>1, FirstOf
  <2> QED
    BY <2>2 DEF Selected
<1> QED
  BY <1>2, <1>3

LEMMA DecidedOfTyped == PoolTypeOK => SelectionIsDecided
<1> SUFFICES ASSUME PoolTypeOK PROVE SelectionIsDecided
  OBVIOUS
<1>1. CASE NoneEligible
  BY <1>1 DEF SelectionIsDecided, Selected, NoneEligible
<1>2. CASE ~NoneEligible
  <2>1. PICK e \in Endpoint : Selected(e)
    BY <1>2, SelectionOfAny
  <2>2. \A d \in Endpoint : Selected(d) <=> d = e
    BY <2>1, SelectedOnce
  <2> QED
    BY <1>2, <2>2 DEF SelectionIsDecided
<1> QED
  BY <1>1, <1>2

\* SelectEndpoint's order by three columns, one of them text, is total and has a
\* least element: whatever demotions and cooldowns a pool has, it gives exactly
\* one endpoint or the request its answer, so no request waits for a selection.
THEOREM SelectionDecided == Spec => []SelectionIsDecided
<1>1. TypeOK => SelectionIsDecided
  BY DecidedOfTyped DEF TypeOK
<1> QED
  BY <1>1, TypeCorrect, PTL

----------------------------------------------------------------------------
(* Every turn of a request brings it closer to its answer. *)

\* How one request may turn, by its place in the loop.
Advances(row, next) ==
  \/ row.pc = "idle" /\ next.pc = "select" /\ next.attempt = row.attempt
  \/ row.pc = "select" /\ next.pc = "sent" /\ next.attempt = row.attempt
  \/ row.pc = "sent" /\ next.pc = "select" /\ next.attempt = row.attempt + 1
  \/ row.pc # "answered" /\ next.pc = "answered"

LEMMA AnswerAdvances ==
  ASSUME NEW r \in Requests, req[r].pc # "answered", NEW row \in Request, NEW v \in Verdict,
         req'[r] = Answered(row, v)
  PROVE  Advances(req[r], req'[r])
<1>1. req'[r].pc = "answered"
  BY AnsweredRequest
<1> QED
  BY <1>1 DEF Advances

LEMMA FailureAdvances ==
  ASSUME IInv, NEW r \in Requests, req[r].pc = "sent", NEW last, NEW v \in {"cool", "network"},
         Burn(r, last, v)
  PROVE  Advances(req[r], req'[r])
<1>1. req \in [Requests -> Request] /\ v \in Verdict
  BY DEF IInv, TypeOK, Verdict
<1>2. Attempted(r) \in Request /\ Attempted(r).attempt = req[r].attempt + 1
  BY AttemptedRequest
<1>3. CASE LastAttempt(r)
  <2>1. req'[r] = Answered(Attempted(r), v)
    BY <1>1, <1>3 DEF Burn
  <2> QED
    BY <1>1, <1>2, <2>1, AnswerAdvances
<1>4. CASE ~LastAttempt(r)
  <2> DEFINE burnt == req[r].burnt \cup {e \in {req[r].endpoint} : pool[e].exists}
  <2>1. req'[r] = [Attempted(r) EXCEPT !.pc = "select", !.last = last, !.burnt = burnt]
    BY <1>1, <1>4 DEF Burn
  <2>2. req'[r].pc = "select" /\ req'[r].attempt = req[r].attempt + 1
    BY <1>2, <2>1 DEF Request
  <2> QED
    BY <2>2 DEF Advances
<1> QED
  BY <1>3, <1>4

LEMMA TurnsAdvance ==
  ASSUME IInv, NEW r \in Requests, Begin(r) \/ Refuse(r) \/ Forward(r) \/ SelectFails(r)
  PROVE  Advances(req[r], req'[r])
<1>1. req \in [Requests -> Request] /\ req[r] \in Request
  BY DEF IInv, TypeOK
<1>2. {"ok", "soft", "unreadable", "bad_request", "unconfigured", "no_url", "internal",
       "cool"} \subseteq Verdict
  BY DEF Verdict
<1>3. CASE Begin(r)
  BY <1>1, <1>3 DEF Begin, Advances, Request
<1>4. CASE Refuse(r) \/ SelectFails(r) \/ SelectNone(r)
  <2>1. req[r].pc # "answered"
    BY <1>4 DEF Refuse, SelectFails, SelectNone
  <2>2. PICK v \in Verdict : req'[r] = Answered(req[r], v)
    BY <1>1, <1>2, <1>4 DEF Refuse, SelectFails, SelectNone, Request
  <2> QED
    BY <1>1, <2>1, <2>2, AnswerAdvances
<1>5. ASSUME NEW e \in Endpoint, Select(r, e) PROVE Advances(req[r], req'[r])
  <2>1. CASE pool[e].url
    BY <1>1, <1>5, <2>1 DEF Select, Advances, Request
  <2>2. CASE ~pool[e].url
    <3>1. req[r].pc # "answered" /\ req'[r] = Answered(req[r], "no_url")
      BY <1>1, <1>5, <2>2 DEF Select
    <3> QED
      BY <1>1, <1>2, <3>1, AnswerAdvances
  <2> QED
    BY <2>1, <2>2
<1>6. CASE Succeed(r) \/ SoftFailure(r) \/ Unreadable(r)
  <2>1. req[r].pc = "sent"
    BY <1>6 DEF Succeed, SoftFailure, Unreadable
  <2>2. req[r].endpoint \in Endpoint /\ Attempted(r) \in Request
    BY <2>1, AttemptedRequest
  <2>3. Forgiven(req[r].endpoint) \in [Requests -> Request]
    BY <2>2, ForgivenRequests
  <2>4. PICK v \in Verdict : req'[r] = Answered(Attempted(r), v)
    BY <1>1, <1>2, <1>6, <2>3 DEF Succeed, SoftFailure, Unreadable
  <2> QED
    BY <2>1, <2>2, <2>4, AnswerAdvances
<1>7. CASE NetworkError(r) \/ \E d \in Durations : CoolFailure(r, d)
  BY <1>7, FailureAdvances DEF NetworkError, CoolFailure
<1> QED
  BY <1>3, <1>4, <1>5, <1>6, <1>7 DEF Forward, Respond

\* What nobody's turn it is leaves every request where it is.
LEMMA OthersStay ==
  ASSUME IInv, [Next]_vars, NEW r \in Requests,
         ~(Begin(r) \/ Refuse(r) \/ Forward(r) \/ SelectFails(r))
  PROVE  req'[r].pc = req[r].pc /\ req'[r].attempt = req[r].attempt
<1>1. ASSUME NEW q \in Requests, Begin(q) \/ Refuse(q) \/ Forward(q) \/ SelectFails(q)
      PROVE  req'[r].pc = req[r].pc /\ req'[r].attempt = req[r].attempt
  <2>1. q # r
    BY <1>1
  <2> QED
    BY <1>1, <2>1, OneTurns
<1>2. ASSUME NEW e \in 1..lastEndpoint, Clear(e)
      PROVE  req'[r].pc = req[r].pc /\ req'[r].attempt = req[r].attempt
  <2>1. e \in Endpoint /\ req' = Forgiven(e)
    BY <1>2 DEF Clear, IInv, TypeOK, PoolTypeOK
  <2> QED
    BY <2>1, Forgiving
<1> QED
  BY <1>1, <1>2 DEF Next, AdminNext, Add, Administer, Tick, vars

LEMMA StepsCount ==
  ASSUME IInv, NEW r \in Requests
  PROVE  StepsLeft(r) \in Nat /\ (req[r].pc # "answered" => StepsLeft(r) > 0)
<1>1. req[r] \in Request /\ Unanswered(req[r])
  BY DEF IInv, TypeOK
<1>2. req[r].attempt \in Nat /\ (req[r].pc # "answered" => req[r].attempt < MaxRetries)
  BY <1>1 DEF Unanswered, Request
<1>3. req[r].pc \in {"idle", "select", "sent", "answered"}
  BY <1>1 DEF Request
<1> QED
  BY <1>2, <1>3 DEF StepsLeft

LEMMA AdvanceLowers ==
  ASSUME IInv, NEW r \in Requests, Advances(req[r], req'[r])
  PROVE  StepsLeft(r)' < StepsLeft(r) /\ StepsLeft(r)' <= StepsLeft(r)
<1>1. req[r].attempt \in Nat /\ StepsLeft(r) \in Nat
  BY StepsCount DEF IInv, TypeOK, Request
<1>2. CASE req[r].pc # "answered" /\ req'[r].pc = "answered"
  <2>1. StepsLeft(r)' = 0 /\ StepsLeft(r) > 0
    BY <1>2, StepsCount DEF StepsLeft
  <2> QED
    BY <1>1, <2>1
<1>3. CASE ~(req[r].pc # "answered" /\ req'[r].pc = "answered")
  BY <1>1, <1>3 DEF StepsLeft, Advances
<1> QED
  BY <1>2, <1>3

\* Whatever the others do, each statement and each answer of the upstream brings
\* a request closer to its own answer, and no step takes it away again: the retry
\* loop of Forward ends within 2 * MaxRetries steps of the request's own.
THEOREM EveryTurnCounts == Spec => RequestsMoveOn
<1> DEFINE MoveOn ==
      \A r \in Requests :
        /\ Forward(r) => StepsLeft(r)' < StepsLeft(r)
        /\ StepsLeft(r)' <= StepsLeft(r)
<1>1. IInv /\ [Next]_vars => MoveOn
  <2> SUFFICES ASSUME IInv, [Next]_vars, NEW r \in Requests
               PROVE  /\ Forward(r) => StepsLeft(r)' < StepsLeft(r)
                      /\ StepsLeft(r)' <= StepsLeft(r)
    OBVIOUS
  <2>1. StepsLeft(r) \in Nat
    BY StepsCount
  <2>2. CASE Begin(r) \/ Refuse(r) \/ Forward(r) \/ SelectFails(r)
    <3>1. Advances(req[r], req'[r])
      BY <2>2, TurnsAdvance
    <3> QED
      BY <3>1, AdvanceLowers
  <2>3. CASE ~(Begin(r) \/ Refuse(r) \/ Forward(r) \/ SelectFails(r))
    <3>1. StepsLeft(r)' = StepsLeft(r)
      BY <2>3, OthersStay DEF StepsLeft
    <3> QED
      BY <2>1, <2>3, <3>1
  <2> QED
    BY <2>2, <2>3
<1> QED
  BY <1>1, Invariance, PTL DEF Spec, RequestsMoveOn

----------------------------------------------------------------------------
(* How long an endpoint can be out. *)

\* What a step may write into the cooldown of a row.
Written(e) ==
  \/ pool'[e].cooldownUntil \in {0, pool[e].cooldownUntil}
  \/ \E r \in Requests, d \in 0..MaxCooldown : pool'[e].cooldownUntil = req[r].startedAt + d

LEMMA UpdateWrites ==
  ASSUME IInv, NEW e \in Endpoint, NEW d \in 1..lastEndpoint, NEW row, Update(d, row),
         \/ row.cooldownUntil \in {0, pool[d].cooldownUntil}
         \/ \E r \in Requests, k \in 0..MaxCooldown : row.cooldownUntil = req[r].startedAt + k
  PROVE  Written(e)
<1>1. d \in Endpoint /\ pool \in [Endpoint -> Row]
  BY DEF IInv, TypeOK, PoolTypeOK
<1>2. pool'[e] = pool[e] \/ (e = d /\ pool'[e] = row)
  BY <1>1 DEF Update
<1> QED
  BY <1>2 DEF Written

LEMMA OperatorsWrite ==
  ASSUME IInv, NEW e \in Endpoint, NEW d \in 1..lastEndpoint, Administer(d) \/ Clear(d)
  PROVE  Written(e)
<1>1. pool[d] \in Row
  BY DEF IInv, TypeOK, PoolTypeOK
<1>2. ASSUME NEW row, Update(d, row), row.cooldownUntil \in {0, pool[d].cooldownUntil}
      PROVE  Written(e)
  BY <1>2, UpdateWrites
<1>3. /\ [pool[d] EXCEPT !.enabled = FALSE].cooldownUntil = pool[d].cooldownUntil
      /\ [pool[d] EXCEPT !.enabled = TRUE].cooldownUntil = pool[d].cooldownUntil
      /\ [pool[d] EXCEPT !.lastFailed = now].cooldownUntil = pool[d].cooldownUntil
      /\ [pool[d] EXCEPT !.lastFailed = 0].cooldownUntil = pool[d].cooldownUntil
  BY <1>1 DEF Row
<1>4. /\ [pool[d] EXCEPT !.enabled = FALSE, !.archived = TRUE].cooldownUntil = pool[d].cooldownUntil
      /\ [pool[d] EXCEPT !.enabled = FALSE, !.archived = FALSE].cooldownUntil = pool[d].cooldownUntil
  BY <1>1, RowKept
<1>5. /\ [pool[d] EXCEPT !.cooldownUntil = 0, !.lastFailed = 0].cooldownUntil = 0
      /\ [pool[d] EXCEPT !.url = TRUE, !.cooldownUntil = 0, !.lastFailed = 0].cooldownUntil = 0
  BY <1>1 DEF Row
<1>6. CASE Disable(d) \/ Enable(d) \/ DemoteToEnd(d) \/ ResetSelection(d)
  BY <1>2, <1>3, <1>6 DEF Disable, Enable, DemoteToEnd, ResetSelection
<1>7. CASE Archive(d) \/ RestoreArchived(d)
  BY <1>2, <1>4, <1>7 DEF Archive, RestoreArchived
<1>8. CASE ResetCooldown(d) \/ RotateKey(d) \/ UpdateBaseURL(d)
  BY <1>2, <1>5, <1>8 DEF ResetCooldown, RotateKey, UpdateBaseURL
<1>9. CASE Delete(d)
  BY <1>2, <1>9, BareRow DEF Delete
<1> QED
  BY <1>6, <1>7, <1>8, <1>9 DEF Administer, Clear

LEMMA OutcomesWrite ==
  ASSUME IInv, NEW e \in Endpoint, NEW r \in Requests, Respond(r)
  PROVE  Written(e)
<1> DEFINE d == req[r].endpoint
<1>1. CASE Unreadable(r)
  BY <1>1 DEF Unreadable, Written
<1>2. CASE ~Unreadable(r)
  <2>1. req[r].pc = "sent"
    BY <1>2 DEF Respond, Succeed, CoolFailure, NetworkError, SoftFailure
  <2>2. d \in 1..lastEndpoint /\ d \in Endpoint
    BY <2>1, AttemptedRequest
  <2>3. pool[d] \in Row
    BY <2>2 DEF IInv, TypeOK, PoolTypeOK
  <2>4. CASE Succeed(r)
    <3>1. [pool[d] EXCEPT !.lastFailed = 0].cooldownUntil = pool[d].cooldownUntil
      BY <2>3 DEF Row
    <3>2. Update(d, [pool[d] EXCEPT !.lastFailed = 0])
      BY <2>4 DEF Succeed, MarkSuccess
    <3> HIDE DEF d
    <3> QED
      BY <2>2, <3>1, <3>2, UpdateWrites
  <2>5. CASE SoftFailure(r)
    <3>1. [pool[d] EXCEPT !.cooldownUntil = 0].cooldownUntil = 0
      BY <2>3 DEF Row
    <3>2. Update(d, [pool[d] EXCEPT !.cooldownUntil = 0])
      BY <2>5 DEF SoftFailure, MarkSoft
    <3> HIDE DEF d
    <3> QED
      BY <2>2, <3>1, <3>2, UpdateWrites
  <2>6. CASE NetworkError(r) \/ \E k \in Durations : CoolFailure(r, k)
    <3>1. PICK k \in 0..MaxCooldown : MarkCool(d, req[r].startedAt + k)
      BY <2>6 DEF NetworkError, CoolFailure
    <3> DEFINE until == req[r].startedAt + k
    <3>2. Update(d, [pool[d] EXCEPT !.cooldownUntil = until, !.lastFailed = now])
      BY <3>1 DEF MarkCool
    <3>3. [pool[d] EXCEPT !.cooldownUntil = until, !.lastFailed = now].cooldownUntil = until
      <4> HIDE DEF until
      <4> QED
        BY <2>3 DEF Row
    <3> HIDE DEF d
    <3> QED
      BY <2>2, <3>2, <3>3, UpdateWrites
  <2> QED
    BY <1>2, <2>4, <2>5, <2>6 DEF Respond
<1> QED
  BY <1>1, <1>2

\* The clock and, until an outcome is marked, the pool are not a request's to change.
LEMMA TurnsClock ==
  ASSUME NEW r \in Requests, Begin(r) \/ Refuse(r) \/ Forward(r) \/ SelectFails(r)
  PROVE  now' = now /\ (~Respond(r) => pool' = pool)
<1>1. CASE Begin(r) \/ Refuse(r) \/ SelectNone(r) \/ SelectFails(r)
  BY <1>1 DEF Begin, Refuse, SelectNone, SelectFails
<1>2. CASE \E e \in Endpoint : Select(r, e)
  BY <1>2 DEF Select
<1>3. CASE Respond(r)
  <2>1. now' = now
    BY <1>3 DEF Respond, Succeed, CoolFailure, NetworkError, SoftFailure, Unreadable
  <2> QED
    BY <1>3, <2>1
<1> QED
  BY <1>1, <1>2, <1>3 DEF Forward

LEMMA StepsWrite ==
  ASSUME IInv, [Next]_vars, NEW e \in Endpoint
  PROVE  Written(e)
<1>1. ASSUME NEW r \in Requests, Begin(r) \/ Refuse(r) \/ Forward(r) \/ SelectFails(r)
      PROVE  Written(e)
  <2>1. CASE Respond(r)
    BY <2>1, OutcomesWrite
  <2>2. CASE ~Respond(r)
    <3>1. pool' = pool
      BY <1>1, <2>2, TurnsClock
    <3> QED
      BY <3>1 DEF Written
  <2> QED
    BY <2>1, <2>2
<1>2. CASE Add
  <2>1. pool'[e] = NewRow \/ pool'[e] = pool[e]
    BY <1>2 DEF Add, AddEndpoint, IInv, TypeOK, PoolTypeOK
  <2>2. NewRow.cooldownUntil = 0
    BY DEF NewRow, NoRow
  <2> QED
    BY <2>1, <2>2 DEF Written
<1>3. CASE pool' = pool
  BY <1>3 DEF Written
<1> QED
  BY <1>1, <1>2, <1>3, OperatorsWrite DEF Next, AdminNext, Tick, vars

\* The clock never goes back, and no request started after the present.
Started == \A r \in Requests : req[r].startedAt <= now

LEMMA ClockRuns ==
  ASSUME IInv, [Next]_vars
  PROVE  now \in Nat /\ now' \in Nat /\ now <= now'
<1>1. now \in Nat
  BY DEF IInv, TypeOK, PoolTypeOK
<1>2. AdminNext => now' = now
  BY DEF AdminNext, Add, Administer, Clear
<1>3. now' = now \/ now' = now + 1
  BY <1>2, TurnsClock DEF Next, Tick, vars
<1> QED
  BY <1>1, <1>3

LEMMA StartsOfRequests ==
  ASSUME IInv, [Next]_vars, NEW r \in Requests
  PROVE  req'[r].startedAt \in {0, now, req[r].startedAt}
<1>1. req \in [Requests -> Request] /\ req[r] \in Request
  BY DEF IInv, TypeOK
<1>2. \A row, v : Answered(row, v).startedAt = 0
  BY DEF Answered, NoRequest
<1>3. ASSUME NEW q \in Requests, Begin(q) \/ Refuse(q) \/ Forward(q) \/ SelectFails(q)
      PROVE  req'[r].startedAt \in {0, now, req[r].startedAt}
  <2>1. CASE Begin(q)
    BY <1>1, <2>1 DEF Begin, Request
  <2>2. CASE Refuse(q) \/ SelectNone(q) \/ SelectFails(q)
    <3>1. PICK v : req' = [req EXCEPT ![q] = Answered(req[q], v)]
      BY <2>2 DEF Refuse, SelectNone, SelectFails
    <3> QED
      BY <1>1, <1>2, <3>1
  <2>3. ASSUME NEW e \in Endpoint, Select(q, e)
        PROVE  req'[r].startedAt \in {0, now, req[r].startedAt}
    <3>1. CASE pool[e].url
      BY <1>1, <2>3, <3>1 DEF Select, Request, IInv, TypeOK
    <3>2. CASE ~pool[e].url
      <4>1. req' = [req EXCEPT ![q] = Answered(req[q], "no_url")]
        BY <2>3, <3>2 DEF Select
      <4> QED
        BY <1>1, <1>2, <4>1
    <3> QED
      BY <3>1, <3>2
  <2>4. CASE SoftFailure(q) \/ Unreadable(q)
    <3>1. PICK v : req' = [req EXCEPT ![q] = Answered(Attempted(q), v)]
      BY <2>4 DEF SoftFailure, Unreadable
    <3> QED
      BY <1>1, <1>2, <3>1
  <2>5. CASE Succeed(q)
    <3>1. req[q].endpoint \in Endpoint
      BY <2>5, AttemptedRequest DEF Succeed
    <3>2. Forgiven(req[q].endpoint) \in [Requests -> Request]
      BY <3>1, ForgivenRequests
    <3>3. \/ req'[r] = Answered(Attempted(q), "ok")
          \/ req'[r] = Forgiven(req[q].endpoint)[r]
      BY <2>5, <3>2 DEF Succeed
    <3> QED
      BY <1>2, <3>1, <3>3, Forgiving
  <2>6. ASSUME NEW last, NEW v, Burn(q, last, v)
        PROVE  req'[r].startedAt \in {0, now, req[r].startedAt}
    <3>1. CASE LastAttempt(q)
      <4>1. req' = [req EXCEPT ![q] = Answered(Attempted(q), v)]
        BY <2>6, <3>1 DEF Burn
      <4> QED
        BY <1>1, <1>2, <4>1
    <3>2. CASE ~LastAttempt(q)
      <4> DEFINE burnt == req[q].burnt \cup {e \in {req[q].endpoint} : pool[e].exists}
                 row == [Attempted(q) EXCEPT !.pc = "select", !.last = last, !.burnt = burnt]
      <4>1. req' = [req EXCEPT ![q] = row]
        BY <2>6, <3>2 DEF Burn
      <4>2. row.startedAt = req[q].startedAt
        BY DEF Attempted, IInv, TypeOK, Request
      <4> HIDE DEF row
      <4> QED
        BY <1>1, <4>1, <4>2
    <3> QED
      BY <3>1, <3>2
  <2>7. CASE NetworkError(q) \/ \E d \in Durations : CoolFailure(q, d)
    BY <2>6, <2>7 DEF NetworkError, CoolFailure
  <2> QED
    BY <1>3, <2>1, <2>2, <2>3, <2>4, <2>5, <2>7 DEF Forward, Respond
<1>4. ASSUME NEW e \in 1..lastEndpoint, Clear(e) PROVE req'[r].startedAt = req[r].startedAt
  <2>1. e \in Endpoint /\ req' = Forgiven(e)
    BY <1>4 DEF Clear, IInv, TypeOK, PoolTypeOK
  <2> QED
    BY <2>1, Forgiving
<1> QED
  BY <1>3, <1>4 DEF Next, AdminNext, Add, Administer, Tick, vars

LEMMA StartedStays == IInv /\ Started /\ [Next]_vars => Started'
<1> SUFFICES ASSUME IInv, Started, [Next]_vars, NEW r \in Requests
             PROVE  req'[r].startedAt <= now'
  BY DEF Started
<1>1. /\ req \in [Requests -> Request] /\ req[r] \in Request
      /\ req[r].startedAt \in Nat /\ req[r].startedAt <= now
  BY DEF IInv, TypeOK, Request, Started
<1>2. now \in Nat /\ now' \in Nat /\ now <= now'
  BY ClockRuns
<1>3. req'[r].startedAt \in {0, now, req[r].startedAt}
  BY StartsOfRequests
<1> QED
  BY <1>1, <1>2, <1>3

\* MarkFailureWithCooldown moves a cooldown any number of times, and a late failure
\* counts its own from the start of its request; yet no endpoint is out for longer
\* than the longest cooldown there is.
THEOREM CooldownsAreBounded == Spec => []CooldownsBounded
<1>1. Init => Started /\ CooldownsBounded
  <2> SUFFICES ASSUME Init PROVE Started /\ CooldownsBounded
    OBVIOUS
  <2>1. IInv /\ now = 1
    BY InitHolds DEF Init, PoolInit
  <2>2. \A r \in Requests : req[r].startedAt = 0
    BY DEF Init, NoRequest
  <2>3. \A e \in Endpoint : pool[e].cooldownUntil = 0
    <3> SUFFICES ASSUME NEW e \in Endpoint PROVE pool[e].cooldownUntil = 0
      OBVIOUS
    <3>1. pool[e] = NoRow \/ pool[e] = [NewRow EXCEPT !.url = e \notin BlankRows]
      BY DEF Init, PoolInit
    <3>2. NewRow.cooldownUntil = 0
      BY DEF NewRow, NoRow
    <3>3. NewRow \in Row
      BY FreshRows
    <3> QED
      BY <3>1, <3>2, <3>3, BareRow DEF Row
  <2> QED
    BY <2>1, <2>2, <2>3 DEF Started, CooldownsBounded
<1>2. IInv /\ Started /\ CooldownsBounded /\ [Next]_vars => CooldownsBounded'
  <2> SUFFICES ASSUME IInv, Started, CooldownsBounded, [Next]_vars, NEW e \in Endpoint
               PROVE  pool'[e].cooldownUntil <= now' + MaxCooldown
    BY DEF CooldownsBounded
  <2>1. /\ now \in Nat /\ now' \in Nat /\ now <= now'
        /\ pool[e].cooldownUntil \in Nat /\ pool[e].cooldownUntil <= now + MaxCooldown
    BY ClockRuns DEF IInv, TypeOK, PoolTypeOK, Row, CooldownsBounded
  <2>2. CASE pool'[e].cooldownUntil \in {0, pool[e].cooldownUntil}
    BY <2>1, <2>2
  <2>3. ASSUME NEW r \in Requests, NEW d \in 0..MaxCooldown,
               pool'[e].cooldownUntil = req[r].startedAt + d
        PROVE  pool'[e].cooldownUntil <= now' + MaxCooldown
    <3>1. req[r].startedAt \in Nat /\ req[r].startedAt <= now
      BY DEF IInv, TypeOK, Request, Started
    <3> QED
      BY <2>1, <2>3, <3>1
  <2> QED
    BY <2>2, <2>3, StepsWrite DEF Written
<1> QED
  BY <1>1, <1>2, StartedStays, Invariance, PTL DEF Spec

=============================================================================
