------------------------- MODULE AttemptLog_proofs -------------------------
(***************************************************************************)
(* Proofs about AttemptLog, for any requests, retries and retention.       *)
(*                                                                         *)
(* A step of a request touches that request's row and the end of the log.  *)
(* So the invariant says of each request alone how its row and its rows of *)
(* the log agree (Story), and of the ids that they are an interval whose   *)
(* length the writers under way account for (LogOK). What a page shows     *)
(* then depends on the length of the log only.                             *)
(***************************************************************************)
EXTENDS AttemptLog, FiniteSetTheorems, TLAPS

Tells(class, last) == class = last \/ (class = "4xx" /\ last = "429")

\* A request alone.
RowOK(row) ==
  /\ row \in Request
  /\ row.pc \in {"insert", "prune"} =>
       /\ row.logging /\ row.attempt > 0 /\ row.class # "none"
       /\ row.terminal \/ row.attempt < MaxRetries
       /\ row.class # "network_error" => Tells(row.class, row.last)
  /\ row.pc = "attempt" => row.attempt < MaxRetries
  /\ row.pc \in {"answered", "counted"} => row.last # "none"
  /\ row.pc = "idle" => row.attempt = 0 /\ ~row.logging

WrittenOf(row) == IF row.pc = "insert" THEN row.attempt - 1 ELSE row.attempt

\* A request and its rows of a log.
Story(r, row, rows) ==
  LET Own == {i \in DOMAIN rows : rows[i].req = r}
  IN /\ \A i, j \in Own : i < j <=> rows[i].index < rows[j].index
     /\ \A i \in Own : rows[i].index <= WrittenOf(row)
     /\ \A i \in Own, n \in 1..MaxRetries :
          rows[i].index <= n /\ n <= WrittenOf(row) =>
            n \in row.missed \/ \E j \in Own : rows[j].index = n
     /\ \A i \in Own : rows[i].terminal =>
          rows[i].index = row.attempt /\ row.pc \notin {"attempt", "insert"}
     /\ ~row.logging => Own = {}
     /\ \A i \in Own : rows[i].index = row.attempt /\ row.pc = "prune" =>
          rows[i].class = row.class /\ rows[i].terminal = row.terminal
     /\ \A i \in Own : rows[i].terminal /\ row.pc \in {"answered", "counted"} =>
          Tells(rows[i].class, row.last)

RequestsOK ==
  /\ req \in [Requests -> Request]
  /\ \A r \in Requests : RowOK(req[r]) /\ Story(r, req[r], log)

\* first is the oldest row kept.
Kept(first, writers) ==
  /\ DOMAIN log = first..lastId
  /\ first = 1 \/ lastId + 1 - first >= Retention
  /\ lastId + 1 - first <= Retention + writers + leftover

LogOK ==
  /\ lastId \in Nat
  /\ leftover \in Nat
  /\ \E first \in 1..(lastId + 1) : Kept(first, Cardinality(Writers))
  /\ log \in [DOMAIN log -> Row]

\* The rows the pages before this one have shown, or should have.
ReaderOK ==
  /\ reader \in Reader
  /\ \E k \in Nat : reader.offset = k * PageSize
  /\ \A i \in DOMAIN log : i <= reader.newest =>
       /\ reader.pc \in {"count", "page"} /\ lastId - i < reader.offset => i \in reader.seen
       /\ reader.pc = "shown" /\ lastId - i < reader.offset + PageSize => i \in reader.seen

IInv ==
  /\ debug \in BOOLEAN
  /\ usage \in [Class -> Nat]
  /\ RequestsOK
  /\ LogOK
  /\ ReaderOK
  /\ PagingPassesOverNone

USE AttemptLogAssumption DEF AttemptLogAssumption

----------------------------------------------------------------------------
(* Intervals and the sets of writers. *)

\* The newest rows of an interval, and a page of it, are intervals.
LEMMA NewerOfInterval ==
  ASSUME NEW f \in Nat, NEW l \in Nat, NEW i \in f..l
  PROVE  Newer(f..l, i) = (i + 1)..l /\ Cardinality(Newer(f..l, i)) = l - i
<1>1. Newer(f..l, i) = (i + 1)..l
  BY DEF Newer
<1>2. Cardinality((i + 1)..l) = IF i + 1 > l THEN 0 ELSE l - (i + 1) + 1
  BY FS_Interval
<1> QED
  BY <1>1, <1>2

LEMMA OutcomeTyped ==
  ASSUME NEW o \in Outcomes
  PROVE  o.logged \in Class /\ o.told \in Class /\ o.retry \in BOOLEAN /\ Tells(o.logged, o.told)
<1>1. \/ o \in {[logged |-> "2xx", told |-> "2xx", retry |-> FALSE],
              [logged |-> "other", told |-> "other", retry |-> FALSE],
              [logged |-> "429", told |-> "429", retry |-> TRUE],
              [logged |-> "4xx", told |-> "429", retry |-> TRUE]}
      \/ \E c \in {"4xx", "5xx"}, again \in BOOLEAN : o = [logged |-> c, told |-> c, retry |-> again]
  BY DEF Outcome
<1>2. CASE \E c \in {"4xx", "5xx"}, again \in BOOLEAN : o = [logged |-> c, told |-> c, retry |-> again]
  <2>1. PICK c \in {"4xx", "5xx"}, again \in BOOLEAN : o = [logged |-> c, told |-> c, retry |-> again]
    BY <1>2
  <2>2. o.logged = c /\ o.told = c /\ o.retry = again
    BY <2>1
  <2> QED
    BY <2>2 DEF Class, Tells
<1>3. CASE o \in {[logged |-> "2xx", told |-> "2xx", retry |-> FALSE],
                  [logged |-> "other", told |-> "other", retry |-> FALSE],
                  [logged |-> "429", told |-> "429", retry |-> TRUE],
                  [logged |-> "4xx", told |-> "429", retry |-> TRUE]}
  <2>1. CASE o = [logged |-> "2xx", told |-> "2xx", retry |-> FALSE]
    BY <2>1 DEF Class, Tells
  <2>2. CASE o = [logged |-> "429", told |-> "429", retry |-> TRUE]
    BY <2>2 DEF Class, Tells
  <2>3. CASE o = [logged |-> "4xx", told |-> "429", retry |-> TRUE]
    BY <2>3 DEF Class, Tells
  <2>4. CASE o = [logged |-> "other", told |-> "other", retry |-> FALSE]
    BY <2>4 DEF Class, Tells
  <2> QED
    BY <1>3, <2>1, <2>2, <2>3, <2>4
<1> QED
  BY <1>1, <1>2, <1>3

LEMMA WritersFinite ==
  IsFiniteSet(Writers) /\ Cardinality(Writers) \in Nat
<1>1. Writers \in SUBSET Requests
  BY DEF Writers
<1> QED
  BY <1>1, FS_Subset, FS_CardinalityType

\* Every invariant the runs check follows from IInv, but for the counters.
LEMMA IInvImplies ==
  ASSUME IInv
  PROVE  TypeOK /\ KeepsTheNewest /\ RowsTellTheStory
<1>1. PICK first \in 1..(lastId + 1) : Kept(first, Cardinality(Writers))
  BY DEF IInv, LogOK
<1>2. lastId \in Nat /\ leftover \in Nat /\ log \in [DOMAIN log -> Row]
  BY DEF IInv, LogOK
<1>3. TypeOK
  <2>1. DOMAIN log \subseteq 1..lastId
    BY <1>1, <1>2 DEF Kept
  <2> QED
    BY <1>2, <2>1 DEF IInv, RequestsOK, RowOK, ReaderOK, TypeOK
<1>4. KeepsTheNewest
  <2>0. Cardinality(first..lastId) = lastId + 1 - first
    BY <1>2, FS_Interval
  <2>1. Cardinality(DOMAIN log) = lastId + 1 - first
    BY <1>1, <2>0 DEF Kept
  <2> QED
    BY <1>1, <1>2, <2>1, WritersFinite DEF Kept, KeepsTheNewest
<1>5. RowsTellTheStory
  <2> SUFFICES ASSUME NEW r \in Requests
               PROVE  /\ \A i, j \in RowsOf(r) : i < j <=> log[i].index < log[j].index
                      /\ \A i \in RowsOf(r), n \in 1..MaxRetries :
                           log[i].index <= n /\ n <= Written(r) =>
                             n \in req[r].missed \/ \E j \in RowsOf(r) : log[j].index = n
                      /\ \A i \in RowsOf(r) : log[i].terminal =>
                           log[i].index = req[r].attempt /\ req[r].pc \notin {"attempt", "insert"}
                      /\ ~req[r].logging => RowsOf(r) = {}
    BY DEF RowsTellTheStory
  <2> QED
    BY DEF IInv, RequestsOK, Story, RowsOf, Written, WrittenOf
<1> QED
  BY <1>3, <1>4, <1>5

----------------------------------------------------------------------------
(* A request alone: what each of its steps does to its row. *)

\* Rows of the log that are not touched keep their story when their request takes
\* a step that makes no attempt.
LEMMA StoryKept ==
  ASSUME NEW r, NEW old \in Request, NEW new \in Request, NEW rows,
         rows \in [DOMAIN rows -> Row],
         Story(r, old, rows), new.logging = old.logging \/ new.logging,
         new.attempt = old.attempt, new.missed = old.missed,
         old.pc # "insert", new.pc \notin {"insert", "prune"},
         new.pc = "attempt" => \A i \in DOMAIN rows : rows[i].req = r => ~rows[i].terminal,
         new.pc \in {"answered", "counted"} =>
           \A i \in DOMAIN rows : rows[i].req = r /\ rows[i].terminal =>
             Tells(rows[i].class, new.last)
  PROVE  Story(r, new, rows)
BY DEF Story, WrittenOf

\* A request that has been answered, or is about to make an attempt, after one.
LEMMA AfterAttemptRow ==
  ASSUME NEW row \in Request, row.attempt > 0, row.class # "none",
         row.terminal \/ row.attempt < MaxRetries,
         row.class # "network_error" => Tells(row.class, row.last)
  PROVE  LET new == AfterAttempt(row)
         IN /\ RowOK(new)
            /\ new.attempt = row.attempt /\ new.missed = row.missed
            /\ new.logging = row.logging
            /\ new.pc = IF row.terminal THEN "answered" ELSE "attempt"
            /\ row.terminal => Tells(row.class, new.last)
<1>1. CASE ~row.terminal
  BY <1>1 DEF AfterAttempt, Request, RowOK
<1>2. CASE row.terminal
  <2>1. PICK c \in Class : /\ AfterAttempt(row) = Answer(row, c)
                           /\ c = IF row.class = "network_error" THEN row.class ELSE row.last
    BY <1>2 DEF AfterAttempt, Request, Tells, Class
  <2>2. Answer(row, c).last = c /\ Tells(row.class, c)
    BY <2>1 DEF Answer, Tells, Request
  <2>3. RowOK(Answer(row, c))
    BY <2>1 DEF Answer, Request, RowOK, Class
  <2>4. /\ Answer(row, c).pc = "answered" /\ Answer(row, c).attempt = row.attempt
        /\ Answer(row, c).missed = row.missed /\ Answer(row, c).logging = row.logging
    BY DEF Answer, Request
  <2> QED
    BY <1>2, <2>1, <2>2, <2>3, <2>4
<1> QED
  BY <1>1, <1>2 DEF Request

\* An answer from a request about to make an attempt.
LEMMA AnswerRow ==
  ASSUME NEW row \in Request, NEW c \in Class
  PROVE  LET new == Answer(row, c)
         IN /\ RowOK(new) /\ new.pc = "answered" /\ new.last = c
            /\ new.attempt = row.attempt /\ new.missed = row.missed
            /\ new.logging = row.logging
BY DEF Answer, RowOK, Request, Class

LEMMA GoneRow ==
  ASSUME NEW row, RowOK(row)
  PROVE  LET new == Gone(row)
         IN /\ RowOK(new) /\ new.pc = "gone" /\ new.attempt = row.attempt
            /\ new.logging = row.logging
            /\ new.missed = IF row.pc = "insert" THEN row.missed \cup {row.attempt} ELSE row.missed
<1>1. row.pc = "insert" => row.attempt \in 1..MaxRetries
  BY DEF RowOK, Request
<1> QED
  BY <1>1 DEF Gone, RowOK, Request

----------------------------------------------------------------------------
(* What stays the same in a step. *)

\* Rows added at the end or pruned take nothing from what the console has shown.
LEMMA ReaderFrame ==
  ASSUME IInv, UNCHANGED reader, lastId' \in {lastId, lastId + 1},
         DOMAIN log' \subseteq DOMAIN log \cup {lastId + 1}
  PROVE  ReaderOK' /\ PagingPassesOverNone'
<1>1. lastId \in Nat /\ reader \in Reader /\ DOMAIN log \subseteq 1..lastId
  BY DEF IInv, LogOK, ReaderOK, Kept
<1>2. reader' \in Reader'
  BY <1>1 DEF Reader
<1>3. \A i \in DOMAIN log' : i <= reader.newest => i \in DOMAIN log /\ lastId - i <= lastId' - i
  BY <1>1 DEF Reader
<1>4. ReaderOK'
  BY <1>1, <1>2, <1>3 DEF IInv, ReaderOK, Reader
<1> QED
  BY <1>3, <1>4 DEF IInv, PagingPassesOverNone

LEMMA LogFrame ==
  ASSUME IInv, UNCHANGED <<log, lastId, leftover>>, Writers' = Writers
  PROVE  LogOK'
BY DEF IInv, LogOK, Kept

\* A request's step that writes no row of the log.
LEMMA RequestStep ==
  ASSUME IInv, NEW r \in Requests, NEW row, req' = [req EXCEPT ![r] = row],
         UNCHANGED <<debug, log, lastId, leftover, reader>>, usage' \in [Class -> Nat],
         RowOK(row), Story(r, row, log), req[r].pc # "prune", row.pc # "prune"
  PROVE  IInv'
<1>1. req \in [Requests -> Request] /\ row \in Request
  BY DEF IInv, RequestsOK, RowOK
<1>2. RequestsOK'
  <2>1. req' \in [Requests -> Request]
    BY <1>1
  <2>2. \A q \in Requests : RowOK(req'[q]) /\ Story(q, req'[q], log)
    BY <1>1 DEF IInv, RequestsOK
  <2> QED
    BY <2>1, <2>2 DEF RequestsOK
<1>3. Writers' = Writers
  BY <1>1 DEF Writers
<1>4. LogOK'
  BY <1>3, LogFrame
<1>5. ReaderOK' /\ PagingPassesOverNone'
  BY ReaderFrame
<1> QED
  BY <1>2, <1>4, <1>5 DEF IInv

\* What is known of the request that takes a step.
LEMMA RequestFacts ==
  ASSUME IInv, NEW r \in Requests
  PROVE  /\ req \in [Requests -> Request] /\ req[r] \in Request
         /\ RowOK(req[r]) /\ Story(r, req[r], log)
         /\ log \in [DOMAIN log -> Row] /\ lastId \in Nat
         /\ DOMAIN log \subseteq 1..lastId /\ debug \in BOOLEAN /\ usage \in [Class -> Nat]
BY DEF IInv, RequestsOK, LogOK, Kept

----------------------------------------------------------------------------
(* One step of a request. *)

\* A step that makes no attempt and tells no answer, or one that no row of the
\* log is about.
LEMMA QuietStep ==
  ASSUME IInv, NEW r \in Requests, NEW row, RowOK(row),
         req' = [req EXCEPT ![r] = row],
         UNCHANGED <<debug, log, lastId, leftover, reader>>, usage' \in [Class -> Nat],
         req[r].pc \notin {"insert", "prune"}, row.pc \notin {"insert", "prune"},
         row.attempt = req[r].attempt, row.missed = req[r].missed,
         row.logging = req[r].logging \/ req[r].pc = "idle",
         row.pc = "attempt" => req[r].pc = "idle",
         row.pc \in {"answered", "counted"} =>
           \/ req[r].pc \in {"idle", "attempt"}
           \/ req[r].pc \in {"answered", "counted"} /\ row.last = req[r].last
  PROVE  IInv'
<1>1. row \in Request /\ req[r] \in Request /\ log \in [DOMAIN log -> Row]
  BY RequestFacts DEF RowOK
<1>2. Story(r, req[r], log) /\ RowOK(req[r])
  BY RequestFacts
<1>3. req[r].pc = "idle" => \A i \in DOMAIN log : log[i].req # r
  BY <1>2 DEF Story, RowOK
<1>4. req[r].pc = "attempt" => \A i \in DOMAIN log : log[i].req = r => ~log[i].terminal
  BY <1>2 DEF Story
<1>5. row.pc = "attempt" => \A i \in DOMAIN log : log[i].req = r => ~log[i].terminal
  BY <1>3
<1>6. row.pc \in {"answered", "counted"} =>
        \A i \in DOMAIN log : log[i].req = r /\ log[i].terminal => Tells(log[i].class, row.last)
  BY <1>2, <1>3, <1>4 DEF Story
<1>7. Story(r, row, log)
  <2>1. CASE req[r].pc = "idle"
    BY <1>1, <1>3, <2>1 DEF Story
  <2>2. CASE req[r].pc # "idle"
    BY <1>1, <1>2, <1>5, <1>6, <2>2, StoryKept
  <2> QED
    BY <2>1, <2>2
<1> QED
  BY <1>7, RequestStep

LEMMA BeginStep ==
  ASSUME IInv, NEW r \in Requests, Begin(r)
  PROVE  IInv'
<1>1. PICK on \in {debug, FALSE} :
        Continue(r, [req[r] EXCEPT !.pc = "attempt", !.logging = on])
  BY DEF Begin
<1> DEFINE row == [req[r] EXCEPT !.pc = "attempt", !.logging = on]
<1>2. req[r] \in Request /\ RowOK(req[r]) /\ req[r].pc = "idle" /\ on \in BOOLEAN
  BY RequestFacts DEF Begin
<1>3. /\ RowOK(row) /\ row.pc = "attempt"
      /\ row.attempt = req[r].attempt /\ row.missed = req[r].missed
  <2>1. row \in Request
    BY <1>2 DEF Request
  <2>2. row.pc = "attempt" /\ row.attempt = req[r].attempt /\ row.missed = req[r].missed
    BY <1>2 DEF Request
  <2> HIDE DEF row
  <2> QED
    BY <1>2, <2>1, <2>2 DEF RowOK
<1>4. /\ req' = [req EXCEPT ![r] = row]
      /\ UNCHANGED <<debug, log, lastId, usage, leftover, reader>>
  BY <1>1 DEF Continue
<1>5. usage' \in [Class -> Nat]
  BY <1>4, RequestFacts
<1> HIDE DEF row
<1> QED
  BY <1>2, <1>3, <1>4, <1>5, QuietStep

\* BadRequest, SelectNone and AttemptFails.
LEMMA AnswerStep ==
  ASSUME IInv, NEW r \in Requests, NEW c \in Class, req[r].pc \in {"idle", "attempt"},
         Continue(r, Answer(req[r], c))
  PROVE  IInv'
<1> DEFINE row == Answer(req[r], c)
<1>1. req[r] \in Request
  BY RequestFacts
<1>2. /\ RowOK(row) /\ row.pc = "answered" /\ row.attempt = req[r].attempt
      /\ row.missed = req[r].missed /\ row.logging = req[r].logging
  BY <1>1, AnswerRow
<1>3. /\ req' = [req EXCEPT ![r] = row]
      /\ UNCHANGED <<debug, log, lastId, usage, leftover, reader>>
  BY DEF Continue
<1>4. usage' \in [Class -> Nat]
  BY <1>3, RequestFacts
<1> HIDE DEF row
<1> QED
  BY <1>2, <1>3, <1>4, QuietStep

LEMMA CountStep ==
  ASSUME IInv, NEW r \in Requests, Count(r) \/ CountFails(r)
  PROVE  IInv'
<1>1. req[r] \in Request /\ RowOK(req[r]) /\ req[r].pc = "answered" /\ usage \in [Class -> Nat]
  BY RequestFacts DEF Count, CountFails
<1>2. CASE Count(r)
  <2> DEFINE row == [req[r] EXCEPT !.pc = "counted"]
  <2>1. /\ RowOK(row) /\ row.pc = "counted" /\ row.last = req[r].last
        /\ row.attempt = req[r].attempt /\ row.missed = req[r].missed
        /\ row.logging = req[r].logging
    BY <1>1 DEF RowOK, Request
  <2>2. /\ req' = [req EXCEPT ![r] = row]
        /\ UNCHANGED <<debug, log, lastId, leftover, reader>>
    BY <1>2 DEF Count
  <2>3. usage' \in [Class -> Nat]
    <3>1. req[r].last \in Class
      BY <1>1 DEF RowOK, Request
    <3> QED
      BY <1>1, <1>2, <3>1 DEF Count
  <2> HIDE DEF row
  <2> QED
    BY <1>1, <2>1, <2>2, <2>3, QuietStep
<1>3. CASE CountFails(r)
  <2> DEFINE row == Gone(req[r])
  <2>1. /\ RowOK(row) /\ row.pc = "gone" /\ row.attempt = req[r].attempt
        /\ row.missed = req[r].missed /\ row.logging = req[r].logging
    BY <1>1, GoneRow
  <2>2. /\ req' = [req EXCEPT ![r] = row]
        /\ UNCHANGED <<debug, log, lastId, usage, leftover, reader>>
    BY <1>3 DEF CountFails, Continue
  <2> HIDE DEF row
  <2> QED
    BY <1>1, <2>1, <2>2, QuietStep
<1> QED
  BY <1>2, <1>3

\* An attempt: its row is about to be inserted, or it is not logged and over.
LEMMA AttemptedStep ==
  ASSUME IInv, NEW r \in Requests, NEW class \in Class, NEW last \in Class \cup {"none"},
         NEW retry \in BOOLEAN, Attempted(r, class, last, retry),
         class # "network_error" => Tells(class, last)
  PROVE  IInv'
<1> DEFINE n == req[r].attempt + 1
           terminal == Ends(n, retry)
           row == [req[r] EXCEPT !.attempt = n, !.class = class, !.last = last,
                                 !.terminal = terminal]
<1>1. /\ req[r] \in Request /\ RowOK(req[r]) /\ Story(r, req[r], log)
      /\ req[r].pc = "attempt" /\ log \in [DOMAIN log -> Row]
  BY RequestFacts DEF Attempted
<1>2. n \in 1..MaxRetries /\ terminal \in BOOLEAN /\ (terminal \/ n < MaxRetries)
  BY <1>1 DEF RowOK, Request, Ends
<1>3. Continue(r, IF row.logging THEN [row EXCEPT !.pc = "insert"] ELSE AfterAttempt(row))
  BY DEF Attempted
<1>4. \A i \in DOMAIN log : log[i].req = r => ~log[i].terminal /\ log[i].index < n
  BY <1>1, <1>2 DEF Story, WrittenOf, Row, Request
<1> HIDE DEF n, terminal
<1>5. /\ row \in Request /\ row.attempt = n /\ row.class = class /\ row.last = last
      /\ row.terminal = terminal /\ row.logging = req[r].logging
      /\ row.missed = req[r].missed /\ row.pc = "attempt"
  <2>1. row \in Request
    <3>1. n \in 0..MaxRetries /\ class \in Class \cup {"none"}
      BY <1>2
    <3>2. CASE terminal = TRUE
      BY <1>1, <3>1, <3>2 DEF Request
    <3>3. CASE terminal = FALSE
      BY <1>1, <3>1, <3>3 DEF Request
    <3> QED
      BY <1>2, <3>2, <3>3
  <2>2. /\ row.attempt = n /\ row.class = class /\ row.last = last
        /\ row.logging = req[r].logging
        /\ row.missed = req[r].missed /\ row.pc = "attempt"
    BY <1>1, <1>2 DEF Request
  <2>3. row.terminal = terminal
    BY <1>1, <1>2 DEF Request
  <2> QED
    BY <2>1, <2>2, <2>3
<1> HIDE DEF row
<1>6. CASE row.logging
  <2> DEFINE new == [row EXCEPT !.pc = "insert"]
  <2>1. /\ new \in Request /\ new.pc = "insert" /\ new.attempt = n /\ new.class = class
        /\ new.last = last /\ new.terminal = terminal /\ new.logging
        /\ new.missed = req[r].missed
    BY <1>5, <1>6 DEF Request
  <2> HIDE DEF new
  <2>2. RowOK(new)
    BY <1>2, <2>1 DEF RowOK, Class
  <2>3. WrittenOf(new) = WrittenOf(req[r])
    BY <1>1, <1>2, <2>1 DEF WrittenOf, Request, n
  <2>4. Story(r, new, log)
    BY <1>1, <1>4, <2>1, <2>3 DEF Story
  <2>5. /\ req' = [req EXCEPT ![r] = new]
        /\ UNCHANGED <<debug, log, lastId, usage, leftover, reader>>
    BY <1>3, <1>6 DEF Continue, new
  <2>6. usage' \in [Class -> Nat]
    BY <2>5, RequestFacts
  <2> QED
    BY <1>1, <2>1, <2>2, <2>4, <2>5, <2>6, RequestStep
<1>7. CASE ~row.logging
  <2> DEFINE new == AfterAttempt(row)
  <2>1. RowOK(new) /\ ~new.logging /\ new.pc \in {"attempt", "answered"}
    BY <1>2, <1>5, <1>7, AfterAttemptRow DEF Class
  <2>2. \A i \in DOMAIN log : log[i].req # r
    BY <1>1, <1>5, <1>7 DEF Story
  <2> HIDE DEF new
  <2>3. Story(r, new, log)
    BY <2>1, <2>2 DEF Story
  <2>4. /\ req' = [req EXCEPT ![r] = new]
        /\ UNCHANGED <<debug, log, lastId, usage, leftover, reader>>
    BY <1>3, <1>7 DEF Continue, new
  <2>5. usage' \in [Class -> Nat]
    BY <2>4, RequestFacts
  <2> QED
    BY <1>1, <2>1, <2>3, <2>4, <2>5, RequestStep
<1> QED
  BY <1>6, <1>7

\* The row is lost; the request goes on with one more attempt missed.
LEMMA InsertFailsStep ==
  ASSUME IInv, NEW r \in Requests, InsertFails(r)
  PROVE  IInv'
<1> DEFINE n == req[r].attempt
           row == [req[r] EXCEPT !.missed = @ \cup {n}]
           new == AfterAttempt(row)
<1>1. /\ req[r] \in Request /\ RowOK(req[r]) /\ Story(r, req[r], log)
      /\ req[r].pc = "insert" /\ log \in [DOMAIN log -> Row]
  BY RequestFacts DEF InsertFails
<1>2. n \in 1..MaxRetries
  BY <1>1 DEF RowOK, Request
<1>3. /\ row \in Request /\ row.attempt = n /\ row.class = req[r].class
      /\ row.last = req[r].last /\ row.terminal = req[r].terminal
      /\ row.logging = req[r].logging /\ row.missed = req[r].missed \cup {n}
  BY <1>1, <1>2 DEF Request
<1>4. /\ req' = [req EXCEPT ![r] = new]
      /\ UNCHANGED <<debug, log, lastId, usage, leftover, reader>>
  BY DEF InsertFails, Continue
<1> HIDE DEF row
<1>5. /\ RowOK(new) /\ new.attempt = n /\ new.missed = req[r].missed \cup {n}
      /\ new.logging = req[r].logging /\ new.pc \in {"attempt", "answered"}
  BY <1>1, <1>3, AfterAttemptRow DEF RowOK
<1> HIDE DEF new
<1>6. \A i \in DOMAIN log : log[i].req = r => ~log[i].terminal /\ log[i].index < n
  BY <1>1, <1>2 DEF Story, WrittenOf, Row
<1>7. Story(r, new, log)
  <2>1. \A k \in 1..MaxRetries : k <= WrittenOf(new) => k = n \/ k <= WrittenOf(req[r])
    BY <1>1, <1>2, <1>5 DEF WrittenOf
  <2>2. \A i \in DOMAIN log : log[i].req = r => log[i].index <= WrittenOf(new)
    BY <1>1, <1>2, <1>5, <1>6 DEF WrittenOf, Row
  <2> QED
    BY <1>1, <1>5, <1>6, <2>1, <2>2 DEF Story
<1>8. usage' \in [Class -> Nat]
  BY <1>4, RequestFacts
<1> QED
  BY <1>1, <1>4, <1>5, <1>7, <1>8, RequestStep

----------------------------------------------------------------------------
(* Steps that write the log. *)

LEMMA InsertStep ==
  ASSUME IInv, NEW r \in Requests, Insert(r)
  PROVE  IInv'
<1> DEFINE new == [req[r] EXCEPT !.pc = "prune"]
           id == lastId + 1
<1>1. /\ req \in [Requests -> Request] /\ req[r] \in Request /\ RowOK(req[r])
      /\ Story(r, req[r], log) /\ req[r].pc = "insert" /\ log \in [DOMAIN log -> Row]
      /\ lastId \in Nat /\ DOMAIN log \subseteq 1..lastId
  BY RequestFacts DEF Insert
<1>2. /\ lastId' = id /\ req' = [req EXCEPT ![r] = new]
      /\ UNCHANGED <<debug, usage, leftover, reader>>
  BY DEF Insert
<1>3. /\ new \in Request /\ new.pc = "prune" /\ new.attempt = req[r].attempt
      /\ new.class = req[r].class /\ new.terminal = req[r].terminal
      /\ new.last = req[r].last /\ new.missed = req[r].missed
      /\ new.logging = req[r].logging
  BY <1>1 DEF Request
<1> HIDE DEF new
<1>4. RowOf(r) \in Row /\ RowOf(r).req = r
  BY <1>1 DEF RowOf, Row, RowOK, Request
<1>5. /\ DOMAIN log' = DOMAIN log \cup {id} /\ log'[id] = RowOf(r)
      /\ \A i \in DOMAIN log : log'[i] = log[i]
      /\ log' \in [DOMAIN log' -> Row]
  BY <1>1, <1>4 DEF Insert
<1>6. \A i \in DOMAIN log : i < id
  BY <1>1
<1>7. RequestsOK'
  <2>1. req' \in [Requests -> Request]
    BY <1>1, <1>2, <1>3
  <2>2. RowOK(new)
    BY <1>1, <1>3 DEF RowOK
  <2>3. Story(r, new, log')
    <3> DEFINE Own == {i \in DOMAIN log : log[i].req = r}
               NewOwn == {i \in DOMAIN log' : log'[i].req = r}
               n == req[r].attempt
    <3>1. NewOwn = Own \cup {id}
      BY <1>4, <1>5
    <3>2. /\ log'[id].index = n /\ log'[id].class = new.class
          /\ log'[id].terminal = new.terminal
      BY <1>3, <1>5 DEF RowOf
    <3>3. n \in 1..MaxRetries /\ WrittenOf(new) = n /\ WrittenOf(req[r]) = n - 1
      BY <1>1, <1>3 DEF RowOK, Request, WrittenOf
    <3>4. \A i \in Own : /\ i \in DOMAIN log /\ log'[i] = log[i] /\ i < id
                         /\ log[i].index \in 1..(n - 1) /\ ~log[i].terminal
      BY <1>1, <1>5, <1>6, <3>3 DEF Story, Row
    <3>5. \A i, j \in NewOwn : i < j <=> log'[i].index < log'[j].index
      BY <1>1, <3>1, <3>2, <3>3, <3>4 DEF Story
    <3>6. \A i \in NewOwn : log'[i].index <= n
      BY <3>1, <3>2, <3>3, <3>4
    <3>7. \A i \in NewOwn, k \in 1..MaxRetries : log'[i].index <= k /\ k <= n =>
            k \in new.missed \/ \E j \in NewOwn : log'[j].index = k
      <4> SUFFICES ASSUME NEW i \in NewOwn, NEW k \in 1..MaxRetries, log'[i].index <= k, k <= n
                   PROVE  k \in new.missed \/ \E j \in NewOwn : log'[j].index = k
        OBVIOUS
      <4>1. CASE k = n
        BY <3>1, <3>2, <4>1
      <4>2. CASE k < n
        <5>1. i \in Own
          BY <3>1, <3>2, <3>3, <4>2
        <5>2. k \in req[r].missed \/ \E j \in Own : log[j].index = k
          BY <1>1, <3>3, <3>4, <4>2, <5>1 DEF Story
        <5> QED
          BY <1>3, <3>1, <3>4, <5>2
      <4> QED
        BY <3>3, <4>1, <4>2
    <3>8. \A i \in NewOwn : log'[i].index = n => i = id
      BY <3>1, <3>3, <3>4
    <3>9. /\ \A i \in NewOwn : log'[i].terminal => log'[i].index = n
          /\ \A i \in NewOwn : log'[i].index = n =>
               log'[i].class = new.class /\ log'[i].terminal = new.terminal
      BY <3>1, <3>2, <3>4, <3>8
    <3>10. new.logging
      BY <1>1, <1>3 DEF RowOK
    <3> HIDE DEF Own
    <3> QED
      BY <1>3, <3>3, <3>5, <3>6, <3>7, <3>9, <3>10 DEF Story
  <2>4. ASSUME NEW q \in Requests \ {r}
        PROVE  RowOK(req'[q]) /\ Story(q, req'[q], log')
    <3>1. RowOK(req[q]) /\ Story(q, req[q], log) /\ req'[q] = req[q]
      BY <1>1, <1>2 DEF IInv, RequestsOK
    <3>2. \A i \in DOMAIN log' : log'[i].req = q => i \in DOMAIN log /\ log'[i] = log[i]
      BY <1>4, <1>5
    <3> QED
      BY <1>5, <3>1, <3>2 DEF Story
  <2>5. RowOK(req'[r]) /\ Story(r, req'[r], log')
    BY <1>1, <1>2, <2>2, <2>3
  <2> QED
    BY <2>1, <2>4, <2>5 DEF RequestsOK
<1>8. LogOK'
  <2>1. PICK first \in 1..id : Kept(first, Cardinality(Writers))
    BY DEF IInv, LogOK
  <2>2. Writers' = Writers \cup {r} /\ r \notin Writers
    BY <1>1, <1>2, <1>3 DEF Writers
  <2>3. Cardinality(Writers') = Cardinality(Writers) + 1 /\ Cardinality(Writers) \in Nat
    BY <2>2, WritersFinite, FS_AddElement
  <2>4. DOMAIN log' = first..lastId'
    BY <1>1, <1>2, <1>5, <2>1 DEF Kept
  <2>5. leftover \in Nat
    BY DEF IInv, LogOK
  <2>6. Kept(first, Cardinality(Writers))'
    BY <1>1, <1>2, <2>1, <2>3, <2>4, <2>5 DEF Kept
  <2> QED
    BY <1>1, <1>2, <1>5, <2>1, <2>5, <2>6 DEF LogOK
<1>9. ReaderOK' /\ PagingPassesOverNone'
  BY <1>2, <1>5, ReaderFrame
<1> QED
  BY <1>2, <1>7, <1>8, <1>9 DEF IInv

\* What Prune keeps is the newest end of the interval.
LEMMA NewestOfInterval ==
  ASSUME IInv, NEW first \in 1..(lastId + 1), DOMAIN log = first..lastId
  PROVE  NewestIds = {i \in first..lastId : lastId - i < Retention}
<1>1. lastId \in Nat
  BY DEF IInv, LogOK
<1>2. \A i \in first..lastId : Cardinality(Newer(DOMAIN log, i)) = lastId - i
  BY <1>1, NewerOfInterval
<1> QED
  BY <1>2 DEF NewestIds

\* A request whose row is in the log, after its prune.
LEMMA PrunedRow ==
  ASSUME IInv, NEW r \in Requests, req[r].pc = "prune"
  PROVE  LET new == AfterAttempt(req[r])
         IN /\ RowOK(new) /\ new.pc \in {"attempt", "answered"} /\ Story(r, new, log)
<1> DEFINE new == AfterAttempt(req[r])
<1>1. /\ req[r] \in Request /\ RowOK(req[r]) /\ Story(r, req[r], log)
      /\ log \in [DOMAIN log -> Row]
  BY RequestFacts
<1>2. /\ RowOK(new) /\ new.attempt = req[r].attempt /\ new.missed = req[r].missed
      /\ new.logging = req[r].logging
      /\ new.pc = (IF req[r].terminal THEN "answered" ELSE "attempt")
      /\ req[r].terminal => Tells(req[r].class, new.last)
  BY <1>1, AfterAttemptRow DEF RowOK
<1> HIDE DEF new
<1>3. \A i \in DOMAIN log : log[i].req = r /\ log[i].terminal =>
        req[r].terminal /\ log[i].class = req[r].class
  BY <1>1 DEF Story
<1>4. Story(r, new, log)
  <2>1. new \in Request /\ new.pc \notin {"insert", "prune"}
    BY <1>2 DEF RowOK
  <2>2. new.pc = "attempt" => \A i \in DOMAIN log : log[i].req = r => ~log[i].terminal
    BY <1>2, <1>3
  <2>3. new.pc \in {"answered", "counted"} =>
          \A i \in DOMAIN log : log[i].req = r /\ log[i].terminal => Tells(log[i].class, new.last)
    BY <1>2, <1>3
  <2> QED
    BY <1>1, <1>2, <2>1, <2>2, <2>3, StoryKept
<1> QED
  BY <1>2, <1>4 DEF new

\* Rows taken from the old end of a log leave the story of what is kept.
LEMMA StoryPruned ==
  ASSUME NEW r, NEW row, NEW rows, NEW kept, rows \in [DOMAIN rows -> Row],
         DOMAIN rows \subseteq Nat, kept \in [DOMAIN kept -> Row],
         DOMAIN kept \subseteq DOMAIN rows, \A i \in DOMAIN kept : kept[i] = rows[i],
         \A i \in DOMAIN kept, j \in DOMAIN rows : i < j => j \in DOMAIN kept,
         Story(r, row, rows)
  PROVE  Story(r, row, kept)
<1> DEFINE Own == {i \in DOMAIN rows : rows[i].req = r}
           KeptOwn == {i \in DOMAIN kept : kept[i].req = r}
<1>1. \A i \in KeptOwn : i \in Own /\ i \in DOMAIN kept /\ kept[i] = rows[i]
  OBVIOUS
<1>2. \A i \in KeptOwn, n \in 1..MaxRetries : kept[i].index <= n /\ n <= WrittenOf(row) =>
        n \in row.missed \/ \E j \in KeptOwn : kept[j].index = n
  <2> SUFFICES ASSUME NEW i \in KeptOwn, NEW n \in 1..MaxRetries,
                      kept[i].index <= n, n <= WrittenOf(row), n \notin row.missed
               PROVE  \E j \in KeptOwn : kept[j].index = n
    OBVIOUS
  <2>1. PICK j \in Own : rows[j].index = n
    BY <1>1 DEF Story
  <2>2. i \in Nat /\ j \in Nat /\ rows[i].index \in Nat /\ rows[j].index \in Nat
    BY <1>1, <2>1 DEF Row
  <2>3. ~(j < i)
    <3>1. j < i <=> rows[j].index < rows[i].index
      BY <1>1, <2>1 DEF Story
    <3> QED
      BY <1>1, <2>1, <2>2, <3>1
  <2>4. j \in DOMAIN kept
    BY <1>1, <2>1, <2>2, <2>3
  <2> QED
    BY <2>1, <2>4
<1> QED
  BY <1>1, <1>2 DEF Story

LEMMA PruneStep ==
  ASSUME IInv, NEW r \in Requests, Prune(r)
  PROVE  IInv'
<1> DEFINE new == AfterAttempt(req[r])
<1>1. /\ req \in [Requests -> Request] /\ req[r].pc = "prune"
      /\ log \in [DOMAIN log -> Row] /\ lastId \in Nat /\ DOMAIN log \subseteq 1..lastId
  BY RequestFacts DEF Prune
<1>2. /\ log' = [i \in NewestIds |-> log[i]] /\ req' = [req EXCEPT ![r] = new]
      /\ leftover' = 0 /\ UNCHANGED <<debug, lastId, usage, reader>>
  BY DEF Prune
<1>3. RowOK(new) /\ new.pc # "prune" /\ Story(r, new, log)
  BY <1>1, PrunedRow
<1> HIDE DEF new
<1>4. PICK first \in 1..(lastId + 1) : Kept(first, Cardinality(Writers))
  BY DEF IInv, LogOK
<1>5. NewestIds = {i \in first..lastId : lastId - i < Retention}
  BY <1>4, NewestOfInterval DEF Kept
<1>6. /\ DOMAIN log' = {i \in DOMAIN log : lastId - i < Retention}
      /\ \A i \in DOMAIN log' : log'[i] = log[i]
      /\ log' \in [DOMAIN log' -> Row]
  BY <1>1, <1>2, <1>4, <1>5 DEF Kept
<1>7. \A i \in DOMAIN log', j \in DOMAIN log : i < j => j \in DOMAIN log'
  BY <1>1, <1>6
<1>8. RequestsOK'
  <2>1. req' \in [Requests -> Request]
    BY <1>1, <1>2, <1>3 DEF RowOK
  <2>2. ASSUME NEW q \in Requests
        PROVE  RowOK(req'[q]) /\ Story(q, req'[q], log)
    BY <1>1, <1>2, <1>3 DEF IInv, RequestsOK
  <2>3. ASSUME NEW q \in Requests
        PROVE  Story(q, req'[q], log')
    <3>1. DOMAIN log \subseteq Nat /\ DOMAIN log' \subseteq DOMAIN log
      BY <1>1, <1>6
    <3> QED
      BY <1>1, <1>6, <1>7, <2>2, <3>1, StoryPruned
  <2> QED
    BY <2>1, <2>2, <2>3 DEF RequestsOK
<1>9. LogOK'
  <2>1. PICK from \in 1..(lastId + 1) :
          /\ DOMAIN log' = from..lastId
          /\ from = 1 \/ lastId + 1 - from >= Retention
          /\ lastId + 1 - from <= Retention
    <3> DEFINE cut == lastId - Retention + 1
    <3>1. CASE cut > first
      <4>1. cut \in 1..(lastId + 1) /\ DOMAIN log' = cut..lastId
        BY <1>1, <1>4, <1>6, <3>1 DEF Kept
      <4> QED
        BY <1>1, <4>1
    <3>2. CASE cut <= first
      <4>1. DOMAIN log' = first..lastId
        BY <1>1, <1>4, <1>6, <3>2 DEF Kept
      <4> QED
        BY <1>1, <1>4, <3>2, <4>1 DEF Kept
    <3> QED
      BY <1>1, <3>1, <3>2
  <2>2. Cardinality(Writers') \in Nat
    <3>1. Writers' \in SUBSET Requests
      BY DEF Writers
    <3> QED
      BY <3>1, FS_Subset, FS_CardinalityType
  <2>3. Kept(from, Cardinality(Writers))'
    BY <1>1, <1>2, <2>1, <2>2 DEF Kept
  <2> QED
    BY <1>1, <1>2, <1>6, <2>1, <2>3 DEF LogOK
<1>10. ReaderOK' /\ PagingPassesOverNone'
  <2>1. DOMAIN log' \subseteq DOMAIN log \cup {lastId + 1}
    BY <1>6
  <2> QED
    BY <1>2, <2>1, ReaderFrame
<1> QED
  BY <1>2, <1>8, <1>9, <1>10 DEF IInv

LEMMA PruneFailsStep ==
  ASSUME IInv, NEW r \in Requests, PruneFails(r)
  PROVE  IInv'
<1> DEFINE new == AfterAttempt(req[r])
<1>1. req \in [Requests -> Request] /\ req[r].pc = "prune" /\ lastId \in Nat
  BY RequestFacts DEF PruneFails
<1>2. /\ req' = [req EXCEPT ![r] = new] /\ leftover' = leftover + 1
      /\ UNCHANGED <<debug, log, lastId, usage, reader>>
  BY DEF PruneFails
<1>3. RowOK(new) /\ new.pc # "prune" /\ Story(r, new, log)
  BY <1>1, PrunedRow
<1> HIDE DEF new
<1>4. RequestsOK'
  <2>1. req' \in [Requests -> Request]
    BY <1>1, <1>2, <1>3 DEF RowOK
  <2>2. \A q \in Requests : RowOK(req'[q]) /\ Story(q, req'[q], log)
    BY <1>1, <1>2, <1>3 DEF IInv, RequestsOK
  <2> QED
    BY <1>2, <2>1, <2>2 DEF RequestsOK
<1>5. LogOK'
  <2>1. PICK first \in 1..(lastId + 1) : Kept(first, Cardinality(Writers))
    BY DEF IInv, LogOK
  <2>2. Writers' = Writers \ {r} /\ r \in Writers
    BY <1>1, <1>2, <1>3 DEF Writers
  <2>3. Cardinality(Writers') = Cardinality(Writers) - 1 /\ Cardinality(Writers) \in Nat
    BY <2>2, WritersFinite, FS_RemoveElement
  <2>4. leftover \in Nat /\ log \in [DOMAIN log -> Row]
    BY DEF IInv, LogOK
  <2>5. Kept(first, Cardinality(Writers))'
    BY <1>1, <1>2, <2>1, <2>3, <2>4 DEF Kept
  <2> QED
    BY <1>1, <1>2, <2>1, <2>4, <2>5 DEF LogOK
<1>6. ReaderOK' /\ PagingPassesOverNone'
  BY <1>2, ReaderFrame
<1> QED
  BY <1>2, <1>4, <1>5, <1>6 DEF IInv

LEMMA RestartStep ==
  ASSUME IInv, Restart
  PROVE  IInv'
<1>1. /\ req \in [Requests -> Request] /\ lastId \in Nat /\ leftover \in Nat
      /\ log \in [DOMAIN log -> Row] /\ reader \in Reader
  BY DEF IInv, RequestsOK, LogOK, ReaderOK
<1>2. /\ req' = [r \in Requests |->
            IF req[r].pc \in {"idle", "counted"} THEN req[r] ELSE Gone(req[r])]
      /\ leftover' = leftover + Cardinality(Writers)
      /\ reader' = (IF reader.pc = "page" THEN Closed ELSE reader)
      /\ UNCHANGED <<debug, log, lastId, usage>>
  BY DEF Restart
<1>3. ASSUME NEW r \in Requests
      PROVE  req'[r] \in Request /\ RowOK(req'[r]) /\ Story(r, req'[r], log) /\ req'[r].pc # "prune"
  <2>1. RowOK(req[r]) /\ Story(r, req[r], log) /\ req[r] \in Request
    BY RequestFacts
  <2>2. CASE req[r].pc \in {"idle", "counted"}
    BY <1>2, <2>1, <2>2
  <2>3. CASE req[r].pc \notin {"idle", "counted"}
    <3> DEFINE new == Gone(req[r])
    <3>1. req'[r] = new
      BY <1>2, <2>3
    <3>2. /\ RowOK(new) /\ new.pc = "gone" /\ new.attempt = req[r].attempt
          /\ new.logging = req[r].logging
          /\ new.missed = (IF req[r].pc = "insert" THEN req[r].missed \cup {req[r].attempt}
                            ELSE req[r].missed)
      BY <2>1, GoneRow
    <3> HIDE DEF new
    <3>3. Story(r, new, log)
      <4>1. CASE req[r].pc # "insert"
        BY <1>1, <2>1, <3>2, <4>1, StoryKept DEF RowOK
      <4>2. CASE req[r].pc = "insert"
        <5>1. req[r].attempt \in 1..MaxRetries
          BY <2>1, <4>2 DEF RowOK, Request
        <5>2. \A i \in DOMAIN log : log[i].req = r => log[i].index \in 1..(req[r].attempt - 1)
          BY <1>1, <2>1, <4>2, <5>1 DEF Story, WrittenOf, Row
        <5>3. \A k \in 1..MaxRetries : k <= req[r].attempt =>
                k = req[r].attempt \/ k <= WrittenOf(req[r])
          BY <4>2, <5>1 DEF WrittenOf
        <5>4. \A i \in DOMAIN log : log[i].req = r => ~log[i].terminal
          BY <2>1, <4>2 DEF Story
        <5> QED
          BY <1>1, <2>1, <3>2, <4>2, <5>1, <5>2, <5>3, <5>4 DEF Story, WrittenOf
      <4> QED
        BY <4>1, <4>2
    <3> QED
      BY <3>1, <3>2, <3>3 DEF RowOK
  <2> QED
    BY <2>2, <2>3
<1>4. RequestsOK'
  <2>1. req' \in [Requests -> Request]
    BY <1>2, <1>3
  <2> QED
    BY <1>2, <1>3, <2>1 DEF RequestsOK
<1>5. LogOK'
  <2>1. PICK first \in 1..(lastId + 1) : Kept(first, Cardinality(Writers))
    BY DEF IInv, LogOK
  <2>2. Writers' = {}
    BY <1>3 DEF Writers
  <2>3. Cardinality(Writers') = 0 /\ Cardinality(Writers) \in Nat
    BY <2>2, WritersFinite, FS_EmptySet
  <2>4. Kept(first, Cardinality(Writers))'
    BY <1>1, <1>2, <2>1, <2>3 DEF Kept
  <2>5. leftover' \in Nat
    BY <1>1, <1>2, <2>3
  <2> QED
    BY <1>1, <1>2, <2>1, <2>4, <2>5 DEF LogOK
<1>6. ReaderOK' /\ PagingPassesOverNone'
  <2>1. CASE reader' = reader
    <3>1. DOMAIN log' \subseteq DOMAIN log \cup {lastId + 1} /\ lastId' \in {lastId, lastId + 1}
      BY <1>2
    <3> QED
      BY <2>1, <3>1, ReaderFrame
  <2>2. CASE reader' = Closed
    <3>1. /\ Closed \in Reader /\ Closed.pc = "closed" /\ Closed.seen = {}
          /\ Closed.offset = 0 * PageSize
      BY <1>1 DEF Reader, Closed
    <3>2. Reader' = Reader
      BY <1>2 DEF Reader
    <3> QED
      BY <1>2, <2>2, <3>1, <3>2 DEF ReaderOK, PagingPassesOverNone
  <2> QED
    BY <1>2, <2>1, <2>2
<1> QED
  BY <1>2, <1>4, <1>5, <1>6 DEF IInv

----------------------------------------------------------------------------
(* The console, the setting, and every step. *)

\* A page is an interval of the newest rows.
LEMMA PageOfInterval ==
  ASSUME IInv, NEW offset \in Nat, NEW i \in DOMAIN log
  PROVE  i \in Page(offset) <=> lastId - i >= offset /\ lastId - i < offset + PageSize
<1>1. PICK first \in 1..(lastId + 1) : DOMAIN log = first..lastId
  BY DEF IInv, LogOK, Kept
<1>2. lastId \in Nat
  BY DEF IInv, LogOK
<1>3. Cardinality(Newer(DOMAIN log, i)) = lastId - i
  BY <1>1, <1>2, NewerOfInterval
<1> QED
  BY <1>1, <1>2, <1>3 DEF Page

\* Steps of the console keep the rest.
LEMMA ReadStep ==
  ASSUME IInv, NEW row, Read(row), row \in Reader,
         ReaderOK', PagingPassesOverNone'
  PROVE  IInv'
<1>1. UNCHANGED <<debug, log, lastId, usage, req, leftover>>
  BY DEF Read
<1>2. Writers' = Writers
  BY <1>1 DEF Writers
<1>3. LogOK'
  BY <1>1, <1>2, LogFrame
<1>4. RequestsOK'
  BY <1>1 DEF IInv, RequestsOK
<1> QED
  BY <1>1, <1>3, <1>4 DEF IInv

LEMMA ConsoleStep ==
  ASSUME IInv, Console
  PROVE  IInv'
<1>1. /\ reader \in Reader /\ lastId \in Nat /\ DOMAIN log \subseteq 1..lastId
      /\ ReaderOK /\ PagingPassesOverNone
  BY DEF IInv, ReaderOK, LogOK, Kept
<1> DEFINE Shows == \A i \in DOMAIN log : i <= reader'.newest =>
              /\ reader'.pc \in {"count", "page"} /\ lastId - i < reader'.offset => i \in reader'.seen
              /\ reader'.pc = "shown" /\ lastId - i < reader'.offset + PageSize => i \in reader'.seen
           Passes == \A i \in DOMAIN log, j \in reader'.seen :
              j < i /\ i <= reader'.newest => i \in reader'.seen
<1>2. ASSUME NEW row \in Reader, Read(row), Shows, Passes,
             \E k \in Nat : row.offset = k * PageSize
      PROVE  IInv'
  <2>1. reader' = row /\ lastId' = lastId /\ log' = log
    BY <1>2 DEF Read
  <2>2. reader' \in Reader'
    BY <1>2, <2>1 DEF Reader
  <2>3. ReaderOK'
    <3>1. \E k \in Nat : reader'.offset = k * PageSize
      BY <1>2, <2>1
    <3>2. \A i \in DOMAIN log' : i <= reader'.newest =>
            /\ reader'.pc \in {"count", "page"} /\ lastId' - i < reader'.offset => i \in reader'.seen
            /\ reader'.pc = "shown" /\ lastId' - i < reader'.offset + PageSize => i \in reader'.seen
      BY <1>2, <2>1
    <3> HIDE DEF Shows, Passes
    <3> QED
      BY <2>2, <3>1, <3>2 DEF ReaderOK
  <2>4. PagingPassesOverNone'
    BY <1>2, <2>1 DEF PagingPassesOverNone
  <2> QED
    BY <1>2, <2>3, <2>4, ReadStep
<1>3. CASE Open
  <2> DEFINE row == [Closed EXCEPT !.pc = "count", !.newest = lastId]
  <2>1. row \in Reader /\ row.pc = "count" /\ row.offset = 0 /\ row.seen = {}
    <3>1. lastId \in 0..lastId
      BY <1>1
    <3> QED
      BY <3>1 DEF Reader, Closed
  <2>0. \E k \in Nat : 0 = k * PageSize
    OBVIOUS
  <2>2. Read(row)
    BY <1>3 DEF Open
  <2> HIDE DEF row
  <2>3. reader' = row
    BY <2>2 DEF Read
  <2>4. Shows
    BY <1>1, <2>1, <2>3
  <2>5. Passes
    BY <2>1, <2>3
  <2> QED
    BY <1>2, <2>0, <2>1, <2>2, <2>4, <2>5
<1>4. CASE ListCount
  <2> DEFINE more == reader.offset + PageSize < Cardinality(DOMAIN log)
             row == [reader EXCEPT !.pc = "page", !.more = more]
  <2>1. Read(row) /\ reader.pc = "count"
    BY <1>4 DEF ListCount
  <2>2. more \in BOOLEAN
    OBVIOUS
  <2> HIDE DEF more
  <2>3. row \in Reader
    <3>1. CASE more = TRUE
      BY <1>1, <3>1 DEF Reader
    <3>2. CASE more = FALSE
      BY <1>1, <3>2 DEF Reader
    <3> QED
      BY <2>2, <3>1, <3>2
  <2>4. /\ row.pc = "page" /\ row.offset = reader.offset /\ row.newest = reader.newest
        /\ row.seen = reader.seen
    BY <1>1 DEF Reader
  <2> HIDE DEF row
  <2>5. reader' = row
    BY <2>1 DEF Read
  <2>6. Shows /\ Passes
    BY <1>1, <2>1, <2>4, <2>5 DEF ReaderOK, PagingPassesOverNone
  <2> QED
    BY <1>1, <1>2, <2>1, <2>3, <2>4, <2>6 DEF ReaderOK
<1>5. CASE ListPage
  <2> DEFINE page == Page(reader.offset)
             row == [reader EXCEPT !.pc = "shown", !.seen = @ \cup page]
  <2>1. Read(row) /\ reader.pc = "page"
    BY <1>5 DEF ListPage
  <2>2. page \subseteq DOMAIN log
    BY DEF Page
  <2>3. \A i \in DOMAIN log :
          i \in page <=> lastId - i >= reader.offset /\ lastId - i < reader.offset + PageSize
    BY <1>1, PageOfInterval DEF Reader
  <2> HIDE DEF page
  <2>4. /\ row \in Reader /\ row.pc = "shown" /\ row.offset = reader.offset
        /\ row.newest = reader.newest /\ row.seen = reader.seen \cup page
    BY <1>1, <2>2 DEF Reader
  <2> HIDE DEF row
  <2>5. reader' = row
    BY <2>1 DEF Read
  <2>6. reader.offset \in Nat /\ reader.newest \in Nat
    BY <1>1 DEF Reader
  <2>7. \A i \in DOMAIN log : i <= reader.newest /\ lastId - i < reader.offset + PageSize =>
          i \in reader.seen \cup page
    BY <1>1, <2>1, <2>3, <2>6 DEF ReaderOK
  <2>8. Shows
    BY <2>4, <2>5, <2>7
  <2>9. Passes
    <3> SUFFICES ASSUME NEW i \in DOMAIN log, NEW j \in reader.seen \cup page,
                        j < i, i <= reader.newest
                 PROVE  i \in reader.seen \cup page
      BY <2>4, <2>5
    <3>1. CASE j \in reader.seen
      BY <1>1, <2>1, <3>1 DEF PagingPassesOverNone
    <3>2. CASE j \in page
      BY <1>1, <2>2, <2>3, <2>6, <2>7, <3>2
    <3> QED
      BY <3>1, <3>2
  <2> QED
    BY <1>1, <1>2, <2>1, <2>4, <2>8, <2>9 DEF ReaderOK
<1>6. CASE Turn
  <2> DEFINE further == reader.offset + PageSize
             closer == reader.offset - PageSize
             next == [reader EXCEPT !.pc = "count", !.more = FALSE, !.offset = further]
             back == [reader EXCEPT !.pc = "count", !.more = FALSE, !.offset = closer]
  <2>1. reader.pc = "shown" /\ reader.offset \in Nat /\ reader.newest \in Nat
    BY <1>1, <1>6 DEF Turn, Reader
  <2>2. ASSUME NEW row \in Reader, Read(row), row.pc = "count",
               row.offset <= reader.offset + PageSize, row.newest = reader.newest,
               row.seen = reader.seen, \E k \in Nat : row.offset = k * PageSize
        PROVE  IInv'
    <3>1. reader' = row
      BY <2>2 DEF Read
    <3>2. row.offset \in Nat
      BY DEF Reader
    <3>3. Shows
      BY <1>1, <2>1, <2>2, <3>1, <3>2 DEF ReaderOK
    <3>4. Passes
      BY <1>1, <2>1, <2>2, <3>1 DEF PagingPassesOverNone
    <3> QED
      BY <1>2, <2>2, <3>3, <3>4
  <2>3. CASE Read(next)
    <3>1. further \in Nat /\ further <= reader.offset + PageSize
      BY <2>1
    <3>2. \E k \in Nat : further = k * PageSize
      <4>1. PICK k \in Nat : reader.offset = k * PageSize
        BY <1>1 DEF ReaderOK
      <4>2. (k + 1) * PageSize = k * PageSize + PageSize
        OBVIOUS
      <4> QED
        BY <4>1, <4>2
    <3> HIDE DEF further
    <3>3. /\ next \in Reader /\ next.pc = "count" /\ next.offset = further
          /\ next.newest = reader.newest /\ next.seen = reader.seen
      BY <1>1, <2>1, <3>1 DEF Reader
    <3> HIDE DEF next
    <3> QED
      BY <2>1, <2>2, <2>3, <3>1, <3>2, <3>3
  <2>4. CASE Read(back) /\ reader.offset > 0
    <3>1. PICK k \in Nat : reader.offset = k * PageSize
      BY <1>1 DEF ReaderOK
    <3>2. k # 0
      BY <2>4, <3>1
    <3>3. (k - 1) * PageSize = k * PageSize - PageSize
      OBVIOUS
    <3>4. k - 1 \in Nat /\ closer = (k - 1) * PageSize
      BY <3>1, <3>2, <3>3
    <3>5. (k - 1) * PageSize \in Nat
      BY <3>4
    <3>6. closer \in Nat /\ closer <= reader.offset + PageSize
      BY <2>1, <3>4, <3>5
    <3> HIDE DEF closer
    <3>7. /\ back \in Reader /\ back.pc = "count" /\ back.offset = closer
          /\ back.newest = reader.newest /\ back.seen = reader.seen
      BY <1>1, <2>1, <3>6 DEF Reader
    <3> HIDE DEF back
    <3> QED
      BY <2>1, <2>2, <2>4, <3>4, <3>6, <3>7
  <2>5. Read(next) \/ (Read(back) /\ reader.offset > 0)
    BY <1>6 DEF Turn
  <2> HIDE DEF next, back
  <2> QED
    BY <2>3, <2>4, <2>5
<1>7. CASE Close
  <2>1. /\ Closed \in Reader /\ Closed.pc = "closed" /\ Closed.seen = {}
        /\ Closed.offset = 0 * PageSize
    BY <1>1 DEF Reader, Closed
  <2>0. Read(Closed)
    BY <1>7 DEF Close
  <2>2. reader' = Closed
    BY <2>0 DEF Read
  <2>3. Shows /\ Passes
    BY <2>1, <2>2
  <2> QED
    BY <1>2, <2>0, <2>1, <2>3
<1> QED
  BY <1>3, <1>4, <1>5, <1>6, <1>7 DEF Console

LEMMA InitInv == Init => IInv
<1> SUFFICES ASSUME Init PROVE IInv
  OBVIOUS
<1> USE DEF Init
<1>1. DOMAIN log = {} /\ lastId = 0 /\ leftover = 0
  OBVIOUS
<1>2. RequestsOK
  <2>1. NewRequest \in Request /\ RowOK(NewRequest)
    BY DEF NewRequest, Request, RowOK
  <2>2. \A r \in Requests : Story(r, NewRequest, log)
    BY <1>1 DEF Story
  <2> QED
    BY <2>1, <2>2 DEF RequestsOK
<1>3. LogOK
  <2>1. Kept(1, Cardinality(Writers))
    BY <1>1, WritersFinite DEF Kept
  <2>2. log \in [DOMAIN log -> Row]
    BY <1>1
  <2> QED
    BY <1>1, <2>1, <2>2 DEF LogOK
<1>4. ReaderOK /\ PagingPassesOverNone
  <2>1. Closed \in Reader /\ Closed.offset = 0 * PageSize
    BY <1>1 DEF Reader, Closed
  <2> QED
    BY <1>1, <2>1 DEF ReaderOK, PagingPassesOverNone
<1> QED
  BY <1>2, <1>3, <1>4 DEF IInv

LEMMA HandleStep ==
  ASSUME IInv, NEW r \in Requests, Handle(r)
  PROVE  IInv'
<1>1. req[r] \in Request /\ RowOK(req[r])
  BY RequestFacts
<1>2. CASE BadRequest(r)
  <2>1. "4xx" \in Class
    BY DEF Class
  <2> QED
    BY <1>2, <2>1, AnswerStep DEF BadRequest
<1>3. CASE SelectNone(r)
  <2> DEFINE c == IF req[r].last = "none" THEN "5xx" ELSE req[r].last
  <2>1. c \in Class
    BY <1>1 DEF Request, Class
  <2>2. Continue(r, Answer(req[r], c)) /\ req[r].pc = "attempt"
    BY <1>3 DEF SelectNone
  <2> HIDE DEF c
  <2> QED
    BY <2>1, <2>2, AnswerStep
<1>4. CASE AttemptFails(r)
  <2>1. "5xx" \in Class
    BY DEF Class
  <2> QED
    BY <1>4, <2>1, AnswerStep DEF AttemptFails
<1>5. ASSUME NEW o \in Outcomes, Respond(r, o)
      PROVE  IInv'
  <2>1. o.logged \in Class /\ o.told \in Class /\ o.retry \in BOOLEAN /\ Tells(o.logged, o.told)
    BY OutcomeTyped
  <2> QED
    BY <1>5, <2>1, AttemptedStep DEF Respond
<1>6. CASE NetworkError(r)
  <2>1. "network_error" \in Class /\ req[r].last \in Class \cup {"none"}
    BY <1>1 DEF Class, Request
  <2> QED
    BY <1>6, <2>1, AttemptedStep DEF NetworkError
<1> QED
  BY <1>2, <1>3, <1>4, <1>5, <1>6, BeginStep, InsertStep, InsertFailsStep, PruneStep,
     PruneFailsStep, CountStep DEF Handle

\* Steps that touch neither requests nor log nor console.
LEMMA OtherStep ==
  ASSUME IInv, debug' \in BOOLEAN, UNCHANGED <<log, lastId, usage, req, leftover, reader>>
  PROVE  IInv'
<1>1. Writers' = Writers
  BY DEF Writers
<1>2. LogOK'
  BY <1>1, LogFrame
<1>3. RequestsOK'
  BY DEF IInv, RequestsOK
<1>4. ReaderOK' /\ PagingPassesOverNone'
  BY ReaderFrame
<1> QED
  BY <1>2, <1>3, <1>4 DEF IInv

LEMMA Invariance == IInv /\ [Next]_vars => IInv'
<1> SUFFICES ASSUME IInv, [Next]_vars PROVE IInv'
  OBVIOUS
<1>1. ASSUME NEW on \in BOOLEAN, SetDebug(on)
      PROVE  IInv'
  BY <1>1, OtherStep DEF SetDebug
<1>2. CASE UNCHANGED vars
  <2>1. debug' \in BOOLEAN
    BY <1>2 DEF vars, IInv
  <2> QED
    BY <1>2, <2>1, OtherStep DEF vars
<1> QED
  BY <1>1, <1>2, HandleStep, ConsoleStep, RestartStep DEF Next

----------------------------------------------------------------------------
(* The counters. *)

CountedUnder(c) == {r \in Requests : req[r].pc = "counted" /\ req[r].last = c}

UsageOK == \A c \in Class : usage[c] = Cardinality(CountedUnder(c))

\* A request is counted by Count alone, and once.
LEMMA CountedByCount ==
  ASSUME IInv, Next, \A r \in Requests : ~Count(r)
  PROVE  usage' = usage /\ \A c : CountedUnder(c)' = CountedUnder(c)
<1>1. req \in [Requests -> Request]
  BY DEF IInv, RequestsOK
<1>2. ASSUME NEW r \in Requests, NEW row, Continue(r, row) \/ req' = [req EXCEPT ![r] = row],
             usage' = usage, req[r].pc # "counted", row.pc # "counted"
      PROVE  usage' = usage /\ \A c : CountedUnder(c)' = CountedUnder(c)
  BY <1>1, <1>2 DEF Continue, CountedUnder
<1>3. \A row \in Request : AfterAttempt(row).pc \in {"attempt", "answered"}
  BY DEF AfterAttempt, Answer, Request
<1>4. ASSUME NEW r \in Requests, Handle(r)
      PROVE  usage' = usage /\ \A c : CountedUnder(c)' = CountedUnder(c)
  <2>1. req[r] \in Request
    BY <1>1
  <2>2. CASE Begin(r)
    <3>1. PICK on \in {debug, FALSE} : Continue(r, [req[r] EXCEPT !.pc = "attempt", !.logging = on])
      BY <2>2 DEF Begin
    <3> DEFINE row == [req[r] EXCEPT !.pc = "attempt", !.logging = on]
    <3>2. row.pc = "attempt"
      BY <2>1 DEF Request
    <3> HIDE DEF row
    <3>3. Continue(r, row) /\ req[r].pc = "idle"
      BY <2>2, <3>1 DEF row, Begin
    <3> QED
      BY <1>2, <3>2, <3>3 DEF Continue
  <2>3. ASSUME NEW c, Continue(r, Answer(req[r], c)), req[r].pc # "counted"
        PROVE  usage' = usage /\ \A d : CountedUnder(d)' = CountedUnder(d)
    <3>1. Answer(req[r], c).pc = "answered"
      BY <2>1 DEF Answer, Request
    <3> QED
      BY <1>2, <2>3, <3>1 DEF Continue
  <2>4. ASSUME NEW class \in Class, NEW last \in Class \cup {"none"}, NEW retry \in BOOLEAN,
               Attempted(r, class, last, retry)
        PROVE  usage' = usage /\ \A d : CountedUnder(d)' = CountedUnder(d)
    <3> DEFINE n == req[r].attempt + 1
               row == [req[r] EXCEPT !.attempt = n, !.class = class, !.last = last,
                                     !.terminal = Ends(n, retry)]
               new == IF row.logging THEN [row EXCEPT !.pc = "insert"] ELSE AfterAttempt(row)
    <3>1. Continue(r, new) /\ req[r].pc = "attempt"
      BY <2>4 DEF Attempted
    <3>2. row.pc = "attempt" /\ DOMAIN row = DOMAIN req[r] /\ "pc" \in DOMAIN req[r]
      BY <2>1, <3>1 DEF Request
    <3> HIDE DEF row
    <3>3. new.pc \in {"insert", "attempt", "answered"}
      <4>1. [row EXCEPT !.pc = "insert"].pc = "insert"
        BY <3>2
      <4>2. AfterAttempt(row).pc \in {"attempt", "answered"}
        BY <3>2 DEF AfterAttempt, Answer
      <4> QED
        BY <4>1, <4>2
    <3> HIDE DEF new
    <3> QED
      BY <1>2, <3>1, <3>3 DEF Continue
  <2>5. CASE Insert(r)
    <3> DEFINE row == [req[r] EXCEPT !.pc = "prune"]
    <3>1. row.pc = "prune" /\ req' = [req EXCEPT ![r] = row] /\ usage' = usage /\ req[r].pc = "insert"
      BY <2>1, <2>5 DEF Insert, Request
    <3> HIDE DEF row
    <3> QED
      BY <1>2, <3>1
  <2>6. CASE InsertFails(r)
    <3> DEFINE row == [req[r] EXCEPT !.missed = @ \cup {req[r].attempt}]
               new == AfterAttempt(row)
    <3>1. Continue(r, new) /\ req[r].pc = "insert"
      BY <2>6 DEF InsertFails
    <3>2. DOMAIN row = DOMAIN req[r] /\ "pc" \in DOMAIN req[r]
      BY <2>1 DEF Request
    <3> HIDE DEF row
    <3>3. new.pc \in {"attempt", "answered"}
      BY <3>2 DEF AfterAttempt, Answer
    <3> HIDE DEF new
    <3> QED
      BY <1>2, <3>1, <3>3 DEF Continue
  <2>7. CASE Prune(r) \/ PruneFails(r)
    <3> DEFINE new == AfterAttempt(req[r])
    <3>1. /\ req' = [req EXCEPT ![r] = new] /\ usage' = usage /\ req[r].pc = "prune"
          /\ new.pc \in {"attempt", "answered"}
      BY <1>3, <2>1, <2>7 DEF Prune, PruneFails
    <3> HIDE DEF new
    <3> QED
      BY <1>2, <3>1
  <2>8. CASE CountFails(r)
    <3> DEFINE new == Gone(req[r])
    <3>1. Continue(r, new) /\ req[r].pc = "answered"
      BY <2>8 DEF CountFails
    <3>2. new.pc = "gone"
      BY <2>1, RequestFacts, GoneRow
    <3> HIDE DEF new
    <3> QED
      BY <1>2, <3>1, <3>2 DEF Continue
  <2>9. CASE BadRequest(r) \/ SelectNone(r) \/ AttemptFails(r)
    BY <2>3, <2>9 DEF BadRequest, SelectNone, AttemptFails
  <2>10. CASE \E o \in Outcomes : Respond(r, o)
    <3>1. PICK o \in Outcomes : Attempted(r, o.logged, o.told, o.retry)
      BY <2>10 DEF Respond
    <3>2. o.logged \in Class /\ o.told \in Class /\ o.retry \in BOOLEAN
      BY OutcomeTyped
    <3> QED
      BY <2>4, <3>1, <3>2
  <2>11. CASE NetworkError(r)
    <3>1. "network_error" \in Class /\ req[r].last \in Class \cup {"none"}
      BY <2>1 DEF Class, Request
    <3> QED
      BY <2>4, <2>11, <3>1 DEF NetworkError
  <2> QED
    BY <1>4, <2>2, <2>5, <2>6, <2>7, <2>8, <2>9, <2>10, <2>11 DEF Handle
<1>5. CASE Restart
  <2>1. ASSUME NEW r \in Requests
        PROVE  /\ req[r].pc = "counted" => req'[r] = req[r]
               /\ req'[r].pc = "counted" => req'[r] = req[r]
    <3>1. Gone(req[r]).pc = "gone"
      BY RequestFacts, GoneRow
    <3> QED
      BY <1>5, <3>1 DEF Restart
  <2> QED
    BY <1>5, <2>1 DEF Restart, CountedUnder
<1>6. CASE Console \/ \E on \in BOOLEAN : SetDebug(on)
  BY <1>6 DEF Console, Open, ListCount, ListPage, Turn, Close, Read, SetDebug, CountedUnder
<1> QED
  BY <1>4, <1>5, <1>6 DEF Next

LEMMA UsageStep == IInv /\ UsageOK /\ [Next]_vars => UsageOK'
<1> SUFFICES ASSUME IInv, UsageOK, [Next]_vars PROVE UsageOK'
  OBVIOUS
<1>1. ASSUME NEW r \in Requests, Count(r)
      PROVE  UsageOK'
  <2> DEFINE d == req[r].last
             row == [req[r] EXCEPT !.pc = "counted"]
  <2>1. /\ req[r] \in Request /\ RowOK(req[r]) /\ req[r].pc = "answered"
        /\ req \in [Requests -> Request] /\ usage \in [Class -> Nat]
    BY <1>1, RequestFacts DEF Count
  <2>2. d \in Class
    BY <2>1 DEF RowOK, Request
  <2>3. row.pc = "counted" /\ row.last = d
    BY <2>1 DEF Request
  <2>4. req' = [req EXCEPT ![r] = row] /\ usage' = [usage EXCEPT ![d] = usage[d] + 1]
    BY <1>1 DEF Count
  <2> HIDE DEF row
  <2>5. ASSUME NEW c \in Class
        PROVE  usage'[c] = Cardinality(CountedUnder(c)')
    <3>1. CountedUnder(c) \in SUBSET Requests
      BY DEF CountedUnder
    <3>2. IsFiniteSet(CountedUnder(c))
      BY <3>1, FS_Subset
    <3>3. CASE c = d
      <4>1. CountedUnder(c)' = CountedUnder(c) \cup {r} /\ r \notin CountedUnder(c)
        BY <2>1, <2>3, <2>4, <3>3 DEF CountedUnder
      <4>2. Cardinality(CountedUnder(c)') = Cardinality(CountedUnder(c)) + 1
        BY <3>2, <4>1, FS_AddElement
      <4>3. usage'[c] = usage[c] + 1
        BY <2>1, <2>2, <2>4, <3>3
      <4> QED
        BY <4>2, <4>3 DEF UsageOK
    <3>4. CASE c # d
      <4>1. CountedUnder(c)' = CountedUnder(c)
        BY <2>1, <2>3, <2>4, <3>4 DEF CountedUnder
      <4> QED
        BY <2>1, <2>2, <2>4, <3>4, <4>1 DEF UsageOK
    <3> QED
      BY <3>3, <3>4
  <2> QED
    BY <2>5 DEF UsageOK
<1>2. CASE Next /\ \A r \in Requests : ~Count(r)
  BY <1>2, CountedByCount DEF UsageOK
<1>3. CASE UNCHANGED vars
  <2>1. \A c : CountedUnder(c)' = CountedUnder(c)
    BY <1>3 DEF vars, CountedUnder
  <2> QED
    BY <1>3, <2>1 DEF UsageOK, vars
<1> QED
  BY <1>1, <1>2, <1>3

LEMMA UsageInit == Init => UsageOK
<1> SUFFICES ASSUME Init PROVE UsageOK
  OBVIOUS
<1>1. \A c : CountedUnder(c) = {}
  BY DEF Init, CountedUnder, NewRequest
<1> QED
  BY <1>1, FS_EmptySet DEF Init, UsageOK

LEMMA CountsImplied ==
  ASSUME IInv, UsageOK
  PROVE  CountsAgreeWithLog
<1>1. ASSUME NEW c \in Class
      PROVE  usage[c] = Cardinality({r \in Requests : req[r].pc = "counted" /\ req[r].last = c})
  BY DEF UsageOK, CountedUnder
<1>2. ASSUME NEW i \in DOMAIN log, log[i].terminal, req[log[i].req].pc = "counted"
      PROVE  Tells(log[i].class, req[log[i].req].last)
  <2>1. log[i].req \in Requests
    BY DEF IInv, LogOK, Row
  <2>2. Story(log[i].req, req[log[i].req], log)
    BY <2>1 DEF IInv, RequestsOK
  <2> QED
    BY <1>2, <2>2 DEF Story
<1> QED
  BY <1>1, <1>2 DEF CountsAgreeWithLog, Tells

----------------------------------------------------------------------------
(* The theorems. *)

LEMMA Inductive == Spec => [](IInv /\ UsageOK)
<1>1. Init => IInv /\ UsageOK
  BY InitInv, UsageInit
<1>2. (IInv /\ UsageOK) /\ [Next]_vars => (IInv /\ UsageOK)'
  BY Invariance, UsageStep
<1> QED
  BY <1>1, <1>2, PTL DEF Spec

\* Every value stays of its type (the handlers of internal/proxy/proxy.go, the
\* columns of proxy_attempt_logs and usage_daily).
THEOREM TypeCorrect == Spec => []TypeOK
<1>1. IInv => TypeOK
  BY IInvImplies
<1> QED
  BY <1>1, Inductive, PTL

\* However many requests insert and prune at a time, and whichever prunes fail,
\* the log is the newest rows without a gap (AttemptLogRepo.Record).
THEOREM NewestKept == Spec => []KeepsTheNewest
<1>1. IInv => KeepsTheNewest
  BY IInvImplies
<1> QED
  BY <1>1, Inductive, PTL

\* What the log holds of a request is the end of its attempts, in order, and a
\* request is logged as a whole or not at all (Proxy.Forward, recordAttempt).
THEOREM StoryTold == Spec => []RowsTellTheStory
<1>1. IInv => RowsTellTheStory
  BY IInvImplies
<1> QED
  BY <1>1, Inductive, PTL

\* The usage counters are the answers clients were given, and agree with the
\* terminal rows of the log (Server.recordUsage, usage.Repo.Increment).
THEOREM CountsAgree == Spec => []CountsAgreeWithLog
<1>1. IInv /\ UsageOK => CountsAgreeWithLog
  BY CountsImplied
<1> QED
  BY <1>1, Inductive, PTL

\* Paging down the log passes over no row while requests write it, whatever the
\* page size and the retention (AttemptLogRepo.List, handleProxyAttempts).
THEOREM PagingComplete == Spec => []PagingPassesOverNone
<1>1. IInv => PagingPassesOverNone
  BY DEF IInv
<1> QED
  BY <1>1, Inductive, PTL

=============================================================================
