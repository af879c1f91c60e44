----------------------------- MODULE AuditTrail -----------------------------
(***************************************************************************)
(* The audit trail of changes to provider endpoints, made in the admin     *)
(* console and at the command line, which is a process of its own. An edit *)
(* reads the row, changes it, reads it again and then writes the event     *)
(* that tells what it has read: four statements, between which other       *)
(* operators make theirs. Some of the console's endpoints write no event.  *)
(*                                                                         *)
(* A value of a column is the number of the change that wrote it.          *)
(*                                                                         *)
(* Definitions named Bug... are no part of Next: each is the definition     *)
(* that follows it with one plausible mistake.                             *)
(***************************************************************************)
EXTENDS Naturals

CONSTANTS
  Operators,   \* console requests and commands at a time
  Edited,      \* columns edits rewrite
  MaxRows,     \* bound on endpoints ever created
  MaxChanges   \* bound on changes ever made

AuditAssumption ==
  /\ Edited \subseteq {"base_url", "key", "quota", "quota_key"}
  /\ MaxRows \in Nat
  /\ MaxChanges \in Nat

ASSUME AuditAssumption

VARIABLES
  rows,        \* provider_keys
  lastRow,     \* its AUTOINCREMENT counter
  lastChange,  \* changes ever made
  events,      \* audit_events: the event of each id
  lastEvent,   \* its AUTOINCREMENT counter
  job,         \* local state of each operator's request or command
  silent       \* history: changes whose event nobody will write

vars == <<rows, lastRow, lastChange, events, lastEvent, job, silent>>

RowId == 1..MaxRows

\* The last stands for the columns that enable, disable, archive, restore, the
\* cooldown resets and demote write.
Column == {"base_url", "key", "quota", "quota_key", "state"}

Change == 0..MaxChanges

NoRow == [exists |-> FALSE, value |-> [c \in Column |-> 0]]

\* told is the value an event tells, 0 when it tells none; began is the newest
\* event there was when its edit read the row for the first time.
Event == [row: RowId, column: Column, change: Change, told: Change, began: Nat]

Job == [pc: {"idle", "update", "read", "record"}, row: RowId \cup {0}, column: Column,
        change: Change, told: Change, began: Nat]

Idle == [pc |-> "idle", row |-> 0, column |-> "state", change |-> 0, told |-> 0, began |-> 0]

TypeOK ==
  /\ rows \in [RowId -> [exists: BOOLEAN, value: [Column -> 0..lastChange]]]
  /\ \A e \in RowId : rows[e].exists => e <= lastRow
  /\ \A e \in RowId : ~rows[e].exists => rows[e] = NoRow
  /\ lastRow \in 0..MaxRows
  /\ lastChange \in Change
  /\ lastEvent \in Nat
  /\ events \in [1..lastEvent -> Event]
  /\ job \in [Operators -> Job]
  /\ \A a \in Operators : job[a].pc # "idle" => job[a].row # 0 /\ job[a].began <= lastEvent
  /\ silent \subseteq 1..lastChange

Init ==
  /\ rows = [e \in RowId |-> NoRow]
  /\ lastRow = 0
  /\ lastChange = 0
  /\ events = [i \in {} |-> Idle]
  /\ lastEvent = 0
  /\ job = [a \in Operators |-> Idle]
  /\ silent = {}

----------------------------------------------------------------------------
(* Statements on a row. *)

Exists(e) == e \in RowId /\ rows[e].exists

\* The next change writes these columns of the row, if it is there.
Write(e, columns) ==
  /\ lastChange < MaxChanges
  /\ lastChange' = lastChange + 1
  /\ rows' = IF Exists(e)
               THEN [rows EXCEPT ![e].value =
                       [c \in Column |-> IF c \in columns THEN lastChange + 1 ELSE @[c]]]
               ELSE rows

\* Mistake: the row is marked and left.
BugRemove(e) == rows' = [rows EXCEPT ![e].exists = FALSE]

Remove(e) == rows' = [rows EXCEPT ![e] = NoRow]

Become(a, row) == job' = [job EXCEPT ![a] = row]

----------------------------------------------------------------------------
(* An edit: its row is read, changed, read again, and the event recorded. *)

\* A row that is not there ends the edit.
Enter(a, e, c) ==
  /\ job[a].pc = "idle"
  /\ Exists(e)
  /\ Become(a, [Idle EXCEPT !.pc = "update", !.row = e, !.column = c, !.began = lastEvent])
  /\ UNCHANGED <<rows, lastRow, lastChange, events, lastEvent, silent>>

\* New quota settings may clear the quota key; EndpointQuota says when.
Rewritten(c) == IF c = "quota" THEN {{"quota"}, {"quota", "quota_key"}} ELSE {{c}}

\* Mistake: the row that was read first is what the event tells.
BugUpdate(a) ==
  LET e == job[a].row
      c == job[a].column
  IN /\ job[a].pc = "update"
     /\ Exists(e)
     /\ \E columns \in Rewritten(c) : Write(e, columns)
     /\ Become(a, [job[a] EXCEPT !.pc = "record", !.change = lastChange + 1,
                                 !.told = rows[e].value[c]])
     /\ UNCHANGED <<lastRow, events, lastEvent, silent>>

Update(a) ==
  LET e == job[a].row
  IN /\ job[a].pc = "update"
     /\ Exists(e)
     /\ \E columns \in Rewritten(job[a].column) : Write(e, columns)
     /\ Become(a, [job[a] EXCEPT !.pc = "read", !.change = lastChange + 1])
     /\ UNCHANGED <<lastRow, events, lastEvent, silent>>

ReadAgain(a) ==
  LET e == job[a].row
  IN /\ job[a].pc = "read"
     /\ Exists(e)
     /\ Become(a, [job[a] EXCEPT !.pc = "record", !.told = rows[e].value[job[a].column]])
     /\ UNCHANGED <<rows, lastRow, lastChange, events, lastEvent, silent>>

\* The row is gone, for the update or after it: no event.
RowGone(a) ==
  /\ job[a].pc \in {"update", "read"}
  /\ ~Exists(job[a].row)
  /\ Become(a, Idle)
  /\ UNCHANGED <<rows, lastRow, lastChange, events, lastEvent, silent>>

\* A detail that is too long, or has a part of another form, is replaced by the
\* name of the action, and the event then tells no value.
Sanitized(told, fits) == IF fits THEN told ELSE 0

\* The event of a job, as it stands in the trail.
EventOf(row, fits) ==
  [row |-> row.row, column |-> row.column, change |-> row.change,
   told |-> Sanitized(row.told, fits), began |-> row.began]

\* Mistake: a detail that does not fit drops the event.
BugRecord(a, fits) ==
  /\ job[a].pc = "record"
  /\ IF fits THEN /\ lastEvent' = lastEvent + 1
                  /\ events' = [i \in 1..(lastEvent + 1) |->
                       IF i <= lastEvent THEN events[i] ELSE EventOf(job[a], TRUE)]
             ELSE UNCHANGED <<events, lastEvent>>
  /\ Become(a, Idle)
  /\ UNCHANGED <<rows, lastRow, lastChange, silent>>

Record(a, fits) ==
  /\ job[a].pc = "record"
  /\ lastEvent' = lastEvent + 1
  /\ events' = [i \in 1..(lastEvent + 1) |->
       IF i <= lastEvent THEN events[i] ELSE EventOf(job[a], fits)]
  /\ Become(a, Idle)
  /\ UNCHANGED <<rows, lastRow, lastChange, silent>>

\* The input is refused, a statement fails or the process ends; the error of
\* Record is not even looked at. What was changed stays changed.
Fail(a) ==
  /\ job[a].pc # "idle"
  /\ Become(a, Idle)
  /\ silent' = IF job[a].pc = "update" THEN silent ELSE silent \cup {job[a].change}
  /\ UNCHANGED <<rows, lastRow, lastChange, events, lastEvent>>

----------------------------------------------------------------------------
(* Other changes. *)

\* provider-endpoint add, in the console or at the command line: the event tells
\* what was inserted, without reading it again.
Create(a) ==
  LET e == lastRow + 1
  IN /\ job[a].pc = "idle"
     /\ e \in RowId
     /\ lastChange < MaxChanges
     /\ lastChange' = lastChange + 1
     /\ rows' = [rows EXCEPT ![e] = [exists |-> TRUE, value |-> [c \in Column |-> lastChange + 1]]]
     /\ lastRow' = e
     /\ Become(a, [pc |-> "record", row |-> e, column |-> "base_url", change |-> lastChange + 1,
                   told |-> lastChange + 1, began |-> lastEvent])
     /\ UNCHANGED <<events, lastEvent, silent>>

\* What a command records when its one statement is done; only result=ok is told.
Command(a, e) ==
  /\ job[a].pc = "idle"
  /\ e <= lastRow
  /\ Become(a, [Idle EXCEPT !.pc = "record", !.row = e, !.change = lastChange', !.began = lastEvent])
  /\ UNCHANGED <<lastRow, events, lastEvent, silent>>

\* provider-endpoint disable, enable, archive, restore, reset-cooldown,
\* reset-selection or demote. The first two do not notice that the row is gone.
SwitchCommand(a, e, notices) ==
  /\ notices => Exists(e)
  /\ Write(e, {"state"})
  /\ Command(a, e)

\* provider-endpoint delete, of a row that may be gone.
DeleteCommand(a, e) ==
  /\ lastChange < MaxChanges
  /\ lastChange' = lastChange + 1
  /\ Remove(e)
  /\ Command(a, e)

\* The console's PATCH of an endpoint and its enable, disable, archive, restore,
\* reset and demote write no event.
WebChange(e, c) ==
  /\ Exists(e)
  /\ Write(e, {c})
  /\ silent' = silent \cup {lastChange + 1}
  /\ UNCHANGED <<lastRow, events, lastEvent, job>>

WebDelete(e) ==
  /\ Exists(e)
  /\ Remove(e)
  /\ UNCHANGED <<lastRow, lastChange, events, lastEvent, job, silent>>

----------------------------------------------------------------------------

Operate(a) ==
  \/ \E e \in RowId :
       \/ \E c \in Edited : Enter(a, e, c)
       \/ \E notices \in BOOLEAN : SwitchCommand(a, e, notices)
       \/ DeleteCommand(a, e)
  \/ Update(a) \/ ReadAgain(a) \/ RowGone(a)
  \/ \E fits \in BOOLEAN : Record(a, fits)
  \/ Fail(a)
  \/ Create(a)

Next ==
  \/ \E a \in Operators : Operate(a)
  \/ \E e \in RowId : WebDelete(e) \/ \E c \in {"base_url", "state"} : WebChange(e, c)

Spec == Init /\ [][Next]_vars

----------------------------------------------------------------------------
(* Properties. *)

\* The change that wrote the value is still on its way to its event.
Pending(n) == \E a \in Operators : job[a].pc \in {"read", "record"} /\ job[a].change = n

\* Whatever an endpoint's columns say now was written by a change the trail
\* shows, unless that change is still under way, comes from a console endpoint
\* that writes no event, or lost its event to a failure. The event of an edit
\* whose value still stands tells that value or, when its detail did not fit,
\* none: never the one before it.
ChangesAccounted ==
  \A e \in RowId, c \in Column :
    LET n == rows[e].value[c]
    IN rows[e].exists =>
         \/ n \in silent \/ Pending(n)
         \/ \E i \in 1..lastEvent :
              /\ events[i].row = e /\ events[i].change = n
              /\ events[i].column = c => events[i].told \in {n, 0}

\* Events are written in another order than their edits, but only of edits that
\* overlap: one that began after an event was in the trail never tells an older
\* value of the same column; and none tells a value older than its own change.
TrailMovesForward ==
  \A j \in 1..lastEvent : events[j].told # 0 =>
    /\ events[j].change <= events[j].told
    /\ \A i \in 1..events[j].began :
         (events[i].row = events[j].row /\ events[i].column = events[j].column)
           => events[i].told <= events[j].told

=============================================================================
