----------------------------- MODULE AttemptLog -----------------------------
(***************************************************************************)
(* What is written down about proxied requests: the attempt log, which     *)
(* Forward writes one row per attempt while the debug setting is on, the   *)
(* usage counters, which the server bumps once the client is answered, and *)
(* the pages of the log the admin console turns. Recording a row is two    *)
(* statements, an insert and a prune; reading a page is two, a count and   *)
(* the page; requests, the reader and restarts run between any two.        *)
(*                                                                         *)
(* Which endpoint an attempt uses is ProxyForward's; the upstream is       *)
(* external and answers in any of the ways Forward tells apart.            *)
(*                                                                         *)
(* Definitions named Bug... are no part of Next: each is the definition     *)
(* that follows it with one plausible mistake.                             *)
(***************************************************************************)
EXTENDS Naturals, FiniteSets

CONSTANTS
  Requests,    \* authorized requests for a provider
  MaxRetries,  \* attempts a request may make
  Outcomes,    \* answers of the upstream
  Retention,   \* rows the log keeps
  PageSize     \* rows of a page of the console

Class == {"2xx", "4xx", "429", "5xx", "network_error", "other"}

\* Answers of the upstream: the class logged, the class of what the client is
\* told if it is the last, and whether another endpoint is tried. Tavily's plan
\* limits are 4xx that clients are told as a 429; "other" is a status below 200.
Outcome ==
  {[logged |-> "2xx", told |-> "2xx", retry |-> FALSE],
   [logged |-> "other", told |-> "other", retry |-> FALSE],
   [logged |-> "429", told |-> "429", retry |-> TRUE],
   [logged |-> "4xx", told |-> "429", retry |-> TRUE]}
    \cup {[logged |-> c, told |-> c, retry |-> again] : c \in {"4xx", "5xx"}, again \in BOOLEAN}

AttemptLogAssumption ==
  /\ IsFiniteSet(Requests)
  /\ MaxRetries \in Nat \ {0}
  /\ Outcomes \subseteq Outcome
  /\ Retention \in Nat \ {0}
  /\ PageSize \in Nat \ {0}

ASSUME AttemptLogAssumption

VARIABLES
  debug,     \* setting proxy_debug_attempts
  log,       \* proxy_attempt_logs: the row of each id
  lastId,    \* its AUTOINCREMENT counter
  usage,     \* request_count of each status class
  req,       \* each request's handler
  leftover,  \* history: inserts whose prune did not run, since the last one that did
  reader     \* the console's pages of the log

vars == <<debug, log, lastId, usage, req, leftover, reader>>

Row == [req: Requests, index: 1..MaxRetries, class: Class, terminal: BOOLEAN]

\* logging is read once; last is the class of lastStatus, and of the answer once
\* there is one; class and terminal are those of the attempt's row. missed is a
\* history field: attempts whose insert failed.
Request == [pc: {"idle", "attempt", "insert", "prune", "answered", "counted", "gone"},
            logging: BOOLEAN, attempt: 0..MaxRetries, last: Class \cup {"none"},
            class: Class \cup {"none"}, terminal: BOOLEAN, missed: SUBSET (1..MaxRetries)]

NewRequest == [pc |-> "idle", logging |-> FALSE, attempt |-> 0, last |-> "none",
               class |-> "none", terminal |-> FALSE, missed |-> {}]

\* more is whether the total counted says that there is a page after this one.
\* History fields: newest is the newest row there was when the console began to
\* read, seen are the rows it has shown since.
Reader == [pc: {"closed", "count", "page", "shown"}, offset: Nat, more: BOOLEAN,
           newest: 0..lastId, seen: SUBSET (1..lastId)]

Closed == [pc |-> "closed", offset |-> 0, more |-> FALSE, newest |-> 0, seen |-> {}]

TypeOK ==
  /\ debug \in BOOLEAN
  /\ lastId \in Nat
  /\ DOMAIN log \subseteq 1..lastId
  /\ log \in [DOMAIN log -> Row]
  /\ usage \in [Class -> Nat]
  /\ req \in [Requests -> Request]
  /\ \A r \in Requests :
       /\ req[r].pc \in {"insert", "prune"} =>
            req[r].logging /\ req[r].attempt > 0 /\ req[r].class # "none"
       /\ req[r].pc = "attempt" => req[r].attempt < MaxRetries
       /\ req[r].pc \in {"answered", "counted"} => req[r].last # "none"
  /\ leftover \in Nat
  /\ reader \in Reader

Init ==
  /\ debug = FALSE
  /\ log = [i \in {} |-> NewRequest]
  /\ lastId = 0
  /\ usage = [c \in Class |-> 0]
  /\ req = [r \in Requests |-> NewRequest]
  /\ leftover = 0
  /\ reader = Closed

----------------------------------------------------------------------------
(* A request. *)

Continue(r, row) ==
  /\ req' = [req EXCEPT ![r] = row]
  /\ UNCHANGED <<debug, log, lastId, usage, leftover, reader>>

Answer(row, class) ==
  [row EXCEPT !.pc = "answered", !.last = class, !.class = "none", !.terminal = FALSE]

\* The setting is read before the first attempt; when that fails it counts as off.
Begin(r) ==
  /\ req[r].pc = "idle"
  /\ \E on \in {debug, FALSE} :
       Continue(r, [req[r] EXCEPT !.pc = "attempt", !.logging = on])

\* The client's body cannot be read: a 400.
BadRequest(r) ==
  /\ req[r].pc = "idle"
  /\ Continue(r, Answer(req[r], "4xx"))

\* No endpoint is left: the last response, if there was one, is the answer.
SelectNone(r) ==
  /\ req[r].pc = "attempt"
  /\ Continue(r, Answer(req[r], IF req[r].last = "none" THEN "5xx" ELSE req[r].last))

\* Selection fails, the endpoint has no URL or its response cannot be read.
AttemptFails(r) ==
  /\ req[r].pc = "attempt"
  /\ Continue(r, Answer(req[r], "5xx"))

\* Mistake: a network error is answered with the last status there was.
BugAfterAttempt(row) ==
  IF ~row.terminal THEN [row EXCEPT !.pc = "attempt"]
  ELSE Answer(row, IF row.last = "none" THEN row.class ELSE row.last)

\* What follows an attempt that has been written down, or need not be.
AfterAttempt(row) ==
  IF ~row.terminal THEN [row EXCEPT !.pc = "attempt"]
  ELSE Answer(row, IF row.class = "network_error" THEN row.class ELSE row.last)

\* Mistake: one attempt too many.
BugEnds(n, retry) == ~retry \/ n > MaxRetries

\* The attempt is the request's last.
Ends(n, retry) == ~retry \/ n = MaxRetries

\* Mistake: the setting is asked at every attempt.
BugAttempted(r, class, last, retry) ==
  LET n == req[r].attempt + 1
      row == [req[r] EXCEPT !.attempt = n, !.class = class, !.last = last, !.logging = debug,
                            !.terminal = Ends(n, retry)]
  IN /\ req[r].pc = "attempt"
     /\ Continue(r, IF row.logging THEN [row EXCEPT !.pc = "insert"] ELSE AfterAttempt(row))

Attempted(r, class, last, retry) ==
  LET n == req[r].attempt + 1
      row == [req[r] EXCEPT !.attempt = n, !.class = class, !.last = last,
                            !.terminal = Ends(n, retry)]
  IN /\ req[r].pc = "attempt"
     /\ Continue(r, IF row.logging THEN [row EXCEPT !.pc = "insert"] ELSE AfterAttempt(row))

Respond(r, o) == Attempted(r, o.logged, o.told, o.retry)
NetworkError(r) == Attempted(r, "network_error", req[r].last, TRUE)

----------------------------------------------------------------------------
(* AttemptLogRepo.Record: an insert and a prune; its errors are ignored. *)

RowOf(r) == [req |-> r, index |-> req[r].attempt, class |-> req[r].class,
             terminal |-> req[r].terminal]

Insert(r) ==
  /\ req[r].pc = "insert"
  /\ lastId' = lastId + 1
  /\ log' = [i \in DOMAIN log \cup {lastId + 1} |-> IF i = lastId + 1 THEN RowOf(r) ELSE log[i]]
  /\ req' = [req EXCEPT ![r].pc = "prune"]
  /\ UNCHANGED <<debug, usage, leftover, reader>>

\* The row is lost, and the prune is not tried.
InsertFails(r) ==
  /\ req[r].pc = "insert"
  /\ Continue(r, AfterAttempt([req[r] EXCEPT !.missed = @ \cup {req[r].attempt}]))

Newer(ids, i) == {j \in ids : j > i}

\* Mistake: the statement keeps the first rows of the other order.
BugNewestIds == {i \in DOMAIN log : Cardinality({j \in DOMAIN log : j < i}) < Retention}

NewestIds == {i \in DOMAIN log : Cardinality(Newer(DOMAIN log, i)) < Retention}

Prune(r) ==
  /\ req[r].pc = "prune"
  /\ log' = [i \in NewestIds |-> log[i]]
  /\ leftover' = 0
  /\ req' = [req EXCEPT ![r] = AfterAttempt(@)]
  /\ UNCHANGED <<debug, lastId, usage, reader>>

PruneFails(r) ==
  /\ req[r].pc = "prune"
  /\ leftover' = leftover + 1
  /\ req' = [req EXCEPT ![r] = AfterAttempt(@)]
  /\ UNCHANGED <<debug, log, lastId, usage, reader>>

----------------------------------------------------------------------------
(* The counters and the process. *)

Gone(row) == [row EXCEPT !.pc = "gone", !.last = "none", !.class = "none", !.terminal = FALSE,
                         !.missed = IF row.pc = "insert" THEN @ \cup {row.attempt} ELSE @]

\* recordUsage, once the client has its answer.
Count(r) ==
  /\ req[r].pc = "answered"
  /\ usage' = [usage EXCEPT ![req[r].last] = @ + 1]
  /\ req' = [req EXCEPT ![r].pc = "counted"]
  /\ UNCHANGED <<debug, log, lastId, leftover, reader>>

CountFails(r) ==
  /\ req[r].pc = "answered"
  /\ Continue(r, Gone(req[r]))

\* Writers that have inserted and not pruned yet.
Writers == {r \in Requests : req[r].pc = "prune"}

\* Requests under way are lost, with what they had not written yet.
Restart ==
  /\ req' = [r \in Requests |->
       IF req[r].pc \in {"idle", "counted"} THEN req[r] ELSE Gone(req[r])]
  /\ leftover' = leftover + Cardinality(Writers)
  /\ reader' = IF reader.pc = "page" THEN Closed ELSE reader
  /\ UNCHANGED <<debug, log, lastId, usage>>

SetDebug(on) ==
  /\ debug' = on
  /\ UNCHANGED <<log, lastId, usage, req, leftover, reader>>

----------------------------------------------------------------------------
(* The console, which asks List for one page after the other. *)

Read(row) ==
  /\ reader' = row
  /\ UNCHANGED <<debug, log, lastId, usage, req, leftover>>

Open ==
  /\ reader.pc = "closed"
  /\ Read([Closed EXCEPT !.pc = "count", !.newest = lastId])

ListCount ==
  /\ reader.pc = "count"
  /\ Read([reader EXCEPT !.pc = "page", !.more = reader.offset + PageSize < Cardinality(DOMAIN log)])

\* Mistake: the page is of the other order.
BugPage(offset) ==
  {i \in DOMAIN log : Cardinality({j \in DOMAIN log : j < i}) \in offset..(offset + PageSize - 1)}

Page(offset) ==
  {i \in DOMAIN log : Cardinality(Newer(DOMAIN log, i)) \in offset..(offset + PageSize - 1)}

ListPage ==
  /\ reader.pc = "page"
  /\ Read([reader EXCEPT !.pc = "shown", !.seen = @ \cup Page(reader.offset)])

Turn ==
  /\ reader.pc = "shown"
  /\ \/ /\ reader.more
        /\ Read([reader EXCEPT !.pc = "count", !.more = FALSE, !.offset = @ + PageSize])
     \/ /\ reader.offset > 0
        /\ Read([reader EXCEPT !.pc = "count", !.more = FALSE, !.offset = @ - PageSize])

\* The operator leaves, or a statement fails.
Close ==
  /\ reader.pc # "closed"
  /\ Read(Closed)

----------------------------------------------------------------------------

Handle(r) ==
  \/ Begin(r) \/ BadRequest(r) \/ SelectNone(r) \/ AttemptFails(r)
  \/ \E o \in Outcomes : Respond(r, o)
  \/ NetworkError(r)
  \/ Insert(r) \/ InsertFails(r) \/ Prune(r) \/ PruneFails(r)
  \/ Count(r) \/ CountFails(r)

Console == Open \/ ListCount \/ ListPage \/ Turn \/ Close

Next ==
  \/ \E r \in Requests : Handle(r)
  \/ Console
  \/ \E on \in BOOLEAN : SetDebug(on)
  \/ Restart

Spec == Init /\ [][Next]_vars

----------------------------------------------------------------------------
(* Properties. *)

\* The log is the newest rows ever inserted, without a gap. It holds as many as
\* retention allows, and more only by one for each writer between its insert and
\* its prune and for each prune that failed or was cut short since the last.
KeepsTheNewest ==
  LET size == Cardinality(DOMAIN log)
  IN /\ DOMAIN log = (lastId + 1 - size)..lastId
     /\ size = lastId \/ size >= Retention
     /\ size <= Retention + Cardinality(Writers) + leftover

RowsOf(r) == {i \in DOMAIN log : log[i].req = r}

\* The attempts of a request that Record was called for.
Written(r) == IF req[r].pc = "insert" THEN req[r].attempt - 1 ELSE req[r].attempt

\* What the log still holds of a request is its latest attempts, each one once
\* and in the order they were made, with none left out but those whose insert
\* failed; only its last attempt may be marked terminal. A request logs all of
\* its attempts or none, whenever operators switch the setting.
RowsTellTheStory ==
  \A r \in Requests :
    /\ \A i, j \in RowsOf(r) : i < j <=> log[i].index < log[j].index
    /\ \A i \in RowsOf(r), n \in 1..MaxRetries :
         log[i].index <= n /\ n <= Written(r) =>
           n \in req[r].missed \/ \E j \in RowsOf(r) : log[j].index = n
    /\ \A i \in RowsOf(r) : log[i].terminal =>
         log[i].index = req[r].attempt /\ req[r].pc \notin {"attempt", "insert"}
    /\ ~req[r].logging => RowsOf(r) = {}

\* The counters are the classes of the answers that were counted; and a counted
\* request whose log ends in a terminal row was counted under that row's class,
\* unless it was a plan limit, which the client was told as a 429.
CountsAgreeWithLog ==
  /\ \A c \in Class : usage[c] = Cardinality({r \in Requests : req[r].pc = "counted" /\ req[r].last = c})
  /\ \A i \in DOMAIN log :
       LET row == log[i]
           told == req[row.req].last
       IN row.terminal /\ req[row.req].pc = "counted" =>
            row.class = told \/ (row.class = "4xx" /\ told = "429")

\* Paging down the log passes over no row: of the rows there were when the
\* console began to read, one is shown only after every newer one that is still
\* kept, while requests insert and prune between its pages.
PagingPassesOverNone ==
  reader.pc # "closed" =>
    \A i \in DOMAIN log, j \in reader.seen :
      j < i /\ i <= reader.newest => i \in reader.seen

=============================================================================
