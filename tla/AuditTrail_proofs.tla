------------------------- MODULE AuditTrail_proofs -------------------------
(***************************************************************************)
(* Proofs about AuditTrail, for any number of operators, rows and changes. *)
(*                                                                         *)
(* The columns of a row that stays only move on, to the number of the      *)
(* newest change, and ids of rows are not reused (Later). So what an event *)
(* or a job has read of a column bounds what the column says from then on, *)
(* and a change stands in the columns of one row at most.                  *)
(***************************************************************************)
EXTENDS AuditTrail, TLAPS

FieldsOK ==
  /\ rows \in [RowId -> [exists: BOOLEAN, value: [Column -> 0..lastChange]]]
  /\ \A e \in RowId : rows[e].exists => e <= lastRow
  /\ \A e \in RowId : ~rows[e].exists => rows[e] = NoRow
  /\ lastRow \in 0..MaxRows
  /\ lastChange \in Change
  /\ lastEvent \in Nat
  /\ events \in [1..lastEvent -> Event]
  /\ job \in [Operators -> Job]
  /\ silent \subseteq 1..lastChange

\* An event tells no value that its column has not reached, and its edit began
\* before it was written.
EventOK(event) ==
  /\ event.row <= lastRow
  /\ event.began <= lastEvent
  /\ event.told <= lastChange
  /\ rows[event.row].exists => event.told <= rows[event.row].value[event.column]

\* A job that has changed its row, from the change on.
Telling(row) == row.pc \in {"read", "record"}

JobOK(row) ==
  /\ row.pc # "idle" => row.row \in 1..lastRow /\ row.began <= lastEvent
  /\ Telling(row) =>
       /\ row.change \in 1..lastChange
       /\ \A e \in RowId, c \in Column : rows[e].value[c] = row.change => e = row.row
  /\ row.pc = "read" /\ rows[row.row].exists => row.change <= rows[row.row].value[row.column]
  /\ row.pc = "record" /\ row.told # 0 =>
       /\ row.told <= lastChange
       /\ row.change <= row.told
       /\ rows[row.row].exists => row.told <= rows[row.row].value[row.column]
       /\ \A i \in 1..row.began :
            events[i].row = row.row /\ events[i].column = row.column => events[i].told <= row.told

\* What ChangesAccounted says of one value of a row.
Accounted(e, c, n) ==
  \/ n \in silent \/ Pending(n)
  \/ \E i \in 1..lastEvent :
       /\ events[i].row = e /\ events[i].change = n
       /\ events[i].column = c => events[i].told \in {n, 0}

IInv ==
  /\ FieldsOK
  /\ \A i \in 1..lastEvent : EventOK(events[i])
  /\ \A a \in Operators : JobOK(job[a])
  /\ \A e \in RowId, c \in Column : rows[e].exists => Accounted(e, c, rows[e].value[c])
  /\ TrailMovesForward

USE AuditAssumption DEF AuditAssumption, RowId, Change

----------------------------------------------------------------------------

LEMMA IdleRow == Idle \in Job /\ Idle.pc = "idle"
BY DEF Idle, Job, Column

LEMMA EmptyRow ==
  /\ ~NoRow.exists
  /\ \A c \in Column : NoRow.value[c] = 0
  /\ \A n \in Nat : NoRow \in [exists: BOOLEAN, value: [Column -> 0..n]]
BY DEF NoRow

LEMMA InitHolds == Init => IInv
<1> SUFFICES ASSUME Init PROVE IInv
  OBVIOUS
<1>1. FieldsOK
  BY IdleRow, EmptyRow DEF Init, FieldsOK
<1>2. \A a \in Operators : JobOK(job[a])
  BY IdleRow DEF Init, JobOK, Telling
<1> QED
  BY <1>1, <1>2, EmptyRow DEF Init, IInv, TrailMovesForward

----------------------------------------------------------------------------
(* How rows and the trail move on. *)

Later ==
  /\ \A e \in RowId :
       \/ rows'[e] = NoRow
       \/ /\ rows[e].exists /\ rows'[e].exists
          /\ \A c \in Column : rows'[e].value[c] \in {rows[e].value[c], lastChange + 1}
       \/ e = lastRow + 1 /\ \A c \in Column : rows'[e].value[c] = lastChange + 1
  /\ lastRow <= lastRow' /\ lastChange <= lastChange' /\ lastEvent <= lastEvent'
  /\ \A i \in 1..lastEvent : events'[i] = events[i]

LEMMA LaterEvent ==
  ASSUME IInv, FieldsOK', Later, NEW i \in 1..lastEvent
  PROVE  EventOK(events[i])'
<1> DEFINE event == events[i]
<1>1. event \in Event /\ EventOK(event) /\ events'[i] = event
  BY DEF IInv, FieldsOK, Later
<1>2. event.row \in RowId /\ event.column \in Column /\ event.told \in Nat
  BY <1>1 DEF Event
<1>3. lastRow \in Nat /\ lastChange \in Nat /\ lastRow' \in Nat /\ lastChange' \in Nat
  BY DEF IInv, FieldsOK
<1>4. rows[event.row].exists => rows[event.row].value[event.column] \in 0..lastChange
  BY <1>2 DEF IInv, FieldsOK
<1> HIDE DEF event
<1>5. ASSUME rows'[event.row].exists
      PROVE  event.told <= rows'[event.row].value[event.column]
  <2>1. rows'[event.row] # NoRow /\ event.row # lastRow + 1
    BY <1>1, <1>2, <1>3, <1>5, EmptyRow DEF EventOK
  <2>2. /\ rows[event.row].exists
        /\ rows'[event.row].value[event.column] \in {rows[event.row].value[event.column], lastChange + 1}
    BY <1>2, <2>1 DEF Later
  <2> QED
    BY <1>1, <1>2, <1>3, <1>4, <2>2 DEF EventOK
<1>6. event.row <= lastRow' /\ event.told <= lastChange' /\ event.began <= lastEvent'
  <2>1. event.began \in Nat /\ lastEvent \in Nat /\ lastEvent' \in Nat
    BY <1>1 DEF Event, IInv, FieldsOK
  <2> QED
    BY <1>1, <1>2, <1>3, <2>1 DEF EventOK, Later
<1> QED
  BY <1>1, <1>5, <1>6 DEF EventOK

LEMMA LaterJob ==
  ASSUME IInv, FieldsOK', Later, NEW row \in Job, JobOK(row)
  PROVE  JobOK(row)'
<1>1. /\ lastRow \in Nat /\ lastChange \in Nat /\ lastEvent \in Nat
      /\ lastRow' \in Nat /\ lastChange' \in Nat /\ lastEvent' \in Nat
  BY DEF IInv, FieldsOK
<1>2. /\ row.row \in RowId \cup {0} /\ row.column \in Column /\ row.change \in Nat
      /\ row.told \in Nat /\ row.began \in Nat
  BY DEF Job
<1>3. row.pc # "idle" => row.row \in 1..lastRow' /\ row.began <= lastEvent'
  BY <1>1, <1>2 DEF JobOK, Later
<1>4. ASSUME Telling(row)
      PROVE  /\ row.change \in 1..lastChange'
             /\ \A e \in RowId, c \in Column : rows'[e].value[c] = row.change => e = row.row
  <2>1. row.change \in 1..lastChange
    BY <1>4 DEF JobOK
  <2>2. \A e \in RowId, c \in Column : rows'[e].value[c] = row.change => rows[e].value[c] = row.change
    BY <1>1, <2>1, EmptyRow DEF Later
  <2> QED
    BY <1>1, <1>4, <2>1, <2>2 DEF JobOK, Later
<1>5. ASSUME row.pc # "idle", rows'[row.row].exists
      PROVE  /\ rows[row.row].exists
             /\ rows[row.row].value[row.column] \in 0..lastChange
             /\ rows'[row.row].value[row.column] \in {rows[row.row].value[row.column], lastChange + 1}
  <2>1. row.row \in RowId /\ row.row # lastRow + 1
    BY <1>1, <1>2, <1>5 DEF JobOK
  <2>2. rows'[row.row] # NoRow
    BY <1>5, EmptyRow
  <2>3. /\ rows[row.row].exists
        /\ rows'[row.row].value[row.column] \in {rows[row.row].value[row.column], lastChange + 1}
    BY <1>2, <2>1, <2>2 DEF Later
  <2>4. rows[row.row].value[row.column] \in 0..lastChange
    BY <1>2, <2>1 DEF IInv, FieldsOK
  <2> QED
    BY <2>3, <2>4
<1>6. row.pc = "read" /\ rows'[row.row].exists => row.change <= rows'[row.row].value[row.column]
  BY <1>1, <1>2, <1>5 DEF JobOK, Telling
<1>7. ASSUME row.pc = "record", row.told # 0
      PROVE  /\ row.told <= lastChange'
             /\ row.change <= row.told
             /\ rows'[row.row].exists => row.told <= rows'[row.row].value[row.column]
             /\ \A i \in 1..row.began :
                  events'[i].row = row.row /\ events'[i].column = row.column => events'[i].told <= row.told
  <2>1. \A i \in 1..row.began : events'[i] = events[i]
    BY <1>1, <1>2, <1>7 DEF JobOK, Later
  <2>2. row.told <= lastChange /\ row.told <= lastChange'
    BY <1>1, <1>2, <1>7 DEF JobOK, Later
  <2>3. rows'[row.row].exists => row.told <= rows'[row.row].value[row.column]
    BY <1>1, <1>2, <1>5, <1>7, <2>2 DEF JobOK
  <2> QED
    BY <1>7, <2>1, <2>2, <2>3 DEF JobOK
<1> QED
  BY <1>3, <1>4, <1>6, <1>7 DEF JobOK, Telling

\* A value that stands is accounted for as long as its job, if it has one, goes
\* on to the event.
LEMMA LaterValue ==
  ASSUME IInv, FieldsOK', Later, NEW e \in RowId, NEW c \in Column, NEW n, Accounted(e, c, n),
         silent \subseteq silent', Pending(n) => Accounted(e, c, n)'
  PROVE  Accounted(e, c, n)'
<1>1. CASE n \in silent
  BY <1>1 DEF Accounted
<1>2. CASE Pending(n)
  BY <1>2
<1>3. CASE \E i \in 1..lastEvent :
             /\ events[i].row = e /\ events[i].change = n
             /\ events[i].column = c => events[i].told \in {n, 0}
  <2>1. PICK i \in 1..lastEvent :
             /\ events[i].row = e /\ events[i].change = n
             /\ events[i].column = c => events[i].told \in {n, 0}
    BY <1>3
  <2>2. i \in 1..lastEvent' /\ events'[i] = events[i]
    BY DEF IInv, FieldsOK, Later
  <2> QED
    BY <2>1, <2>2 DEF Accounted
<1> QED
  BY <1>1, <1>2, <1>3 DEF Accounted

----------------------------------------------------------------------------
(* Steps that write no event. *)

LEMMA QuietKeeps ==
  ASSUME IInv, FieldsOK', Later, UNCHANGED <<events, lastEvent>>, silent \subseteq silent',
         \A a \in Operators : JobOK(job[a])',
         \A e \in RowId, c \in Column, n \in Nat :
           rows'[e].exists /\ rows'[e].value[c] = n =>
             \/ n \in silent' \/ Pending(n)'
             \/ rows[e].exists /\ rows[e].value[c] = n /\ ~Pending(n)
  PROVE  IInv'
<1>1. \A i \in 1..lastEvent' : EventOK(events[i])'
  BY LaterEvent
<1>2. ASSUME NEW e \in RowId, NEW c \in Column, rows'[e].exists, NEW n \in Nat, rows'[e].value[c] = n
      PROVE  Accounted(e, c, n)'
  <2>1. CASE n \in silent' \/ Pending(n)'
    BY <2>1 DEF Accounted
  <2>2. CASE rows[e].exists /\ rows[e].value[c] = n /\ ~Pending(n)
    <3>1. Accounted(e, c, n) /\ ~Pending(n)
      BY <2>2 DEF IInv
    <3> QED
      BY <3>1, LaterValue
  <2> QED
    BY <1>2, <2>1, <2>2
<1>3. TrailMovesForward'
  BY DEF IInv, TrailMovesForward
<1>4. (\A e \in RowId, c \in Column : rows[e].exists => Accounted(e, c, rows[e].value[c]))'
  <2> SUFFICES ASSUME NEW e \in RowId, NEW c \in Column, rows'[e].exists
               PROVE  Accounted(e, c, rows[e].value[c])'
    OBVIOUS
  <2>1. PICK n \in Nat : rows'[e].value[c] = n
    BY DEF FieldsOK
  <2>2. Accounted(e, c, n)'
    BY <1>2, <2>1
  <2> QED
    BY <2>1, <2>2 DEF Accounted, Pending
<1> QED
  BY <1>1, <1>3, <1>4 DEF IInv

\* The job of one operator turns; rows stay as they are.
LEMMA TurnKeeps ==
  ASSUME IInv, NEW a \in Operators, NEW row \in Job, Become(a, row), JobOK(row),
         UNCHANGED <<rows, lastRow, lastChange, events, lastEvent>>,
         silent \subseteq silent', silent' \subseteq 1..lastChange,
         Telling(job[a]) =>
           \/ Telling(row) /\ row.change = job[a].change
           \/ job[a].change \in silent'
           \/ ~rows[job[a].row].exists
  PROVE  IInv'
<1>1. FieldsOK'
  BY DEF IInv, FieldsOK, Become
<1>2. Later
  BY DEF Later, IInv, FieldsOK
<1>3. \A b \in Operators : job'[b] = IF b = a THEN row ELSE job[b]
  BY DEF Become, IInv, FieldsOK
<1>4. \A b \in Operators : JobOK(job'[b])
  BY <1>3 DEF IInv
<1>5. ASSUME NEW b \in Operators PROVE JobOK(job[b])'
  BY <1>4 DEF JobOK, Telling
<1>6. ASSUME NEW e \in RowId, NEW c \in Column, NEW n \in Nat, rows'[e].exists, rows'[e].value[c] = n
      PROVE  \/ n \in silent' \/ Pending(n)'
             \/ rows[e].exists /\ rows[e].value[c] = n /\ ~Pending(n)
  <2>1. SUFFICES ASSUME Pending(n) PROVE n \in silent' \/ Pending(n)'
    BY <1>6
  <2>2. PICK b \in Operators : Telling(job[b]) /\ job[b].change = n
    BY <2>1 DEF Pending, Telling
  <2>3. CASE b # a
    BY <1>3, <2>2, <2>3 DEF Pending, Telling
  <2>4. CASE b = a
    <3>1. e = job[a].row
      BY <1>6, <2>2, <2>4 DEF IInv, JobOK
    <3>2. (Telling(row) /\ row.change = n) \/ n \in silent'
      BY <1>6, <2>2, <2>4, <3>1
    <3> QED
      BY <1>3, <3>2 DEF Pending, Telling
  <2> QED
    BY <2>3, <2>4
<1> QED
  BY <1>1, <1>2, <1>5, <1>6, QuietKeeps

LEMMA IdleOK == JobOK(Idle) /\ ~Telling(Idle)
BY IdleRow DEF JobOK, Telling

LEMMA EnterKeeps ==
  ASSUME IInv, NEW a \in Operators, NEW e \in RowId, NEW c \in Edited, Enter(a, e, c)
  PROVE  IInv'
<1> DEFINE row == [Idle EXCEPT !.pc = "update", !.row = e, !.column = c, !.began = lastEvent]
<1>1. /\ Become(a, row) /\ Exists(e) /\ job[a].pc = "idle"
      /\ UNCHANGED <<rows, lastRow, lastChange, events, lastEvent, silent>>
  BY DEF Enter
<1>2. lastEvent \in Nat /\ c \in Column
  BY DEF IInv, FieldsOK, Column
<1>3. row \in Job /\ row.pc = "update" /\ row.row = e /\ row.began = lastEvent
  BY <1>2, IdleRow DEF Job
<1> HIDE DEF row
<1>4. e \in 1..lastRow
  BY <1>1 DEF Exists, IInv, FieldsOK
<1>5. JobOK(row)
  BY <1>2, <1>3, <1>4 DEF JobOK, Telling
<1>6. silent' \subseteq 1..lastChange /\ ~Telling(job[a])
  BY <1>1 DEF IInv, FieldsOK, Telling
<1> QED
  BY <1>1, <1>3, <1>5, <1>6, TurnKeeps

LEMMA ReadAgainKeeps ==
  ASSUME IInv, NEW a \in Operators, ReadAgain(a)
  PROVE  IInv'
<1> DEFINE e == job[a].row
           v == rows[e].value[job[a].column]
           row == [job[a] EXCEPT !.pc = "record", !.told = v]
<1>1. /\ Become(a, row) /\ Exists(e) /\ job[a].pc = "read" /\ job[a] \in Job /\ JobOK(job[a])
      /\ UNCHANGED <<rows, lastRow, lastChange, events, lastEvent, silent>>
  BY DEF ReadAgain, IInv, FieldsOK
<1>2. lastEvent \in Nat /\ job[a].column \in Column /\ e \in RowId /\ rows[e].exists
  BY <1>1 DEF Exists, Job, IInv, FieldsOK
<1>3. v \in 0..lastChange /\ lastChange \in Change
  BY <1>2 DEF IInv, FieldsOK
<1> HIDE DEF v
<1>4. /\ row \in Job /\ row.pc = "record" /\ row.row = e /\ row.began = job[a].began
      /\ row.column = job[a].column /\ row.change = job[a].change /\ row.told = v
  <2>1. v \in Change
    BY <1>3
  <2> QED
    BY <1>1, <2>1 DEF Job
<1>5. \A i \in 1..row.began :
        events[i].row = row.row /\ events[i].column = row.column => events[i].told <= v
  <2>1. job[a].began <= lastEvent /\ job[a].began \in Nat
    BY <1>1 DEF JobOK, Job
  <2> QED
    BY <1>2, <1>4, <2>1 DEF IInv, EventOK, v
<1>6. job[a].change <= v
  BY <1>1, <1>2 DEF JobOK, v
<1> HIDE DEF row
<1>7. JobOK(row)
  <2>1. row.pc # "idle" => row.row \in 1..lastRow /\ row.began <= lastEvent
    BY <1>1, <1>4 DEF JobOK
  <2>2. /\ row.change \in 1..lastChange
        /\ \A d \in RowId, c \in Column : rows[d].value[c] = row.change => d = row.row
    BY <1>1, <1>4 DEF JobOK, Telling
  <2> QED
    BY <1>3, <1>4, <1>5, <1>6, <2>1, <2>2 DEF JobOK, v
<1>8. silent' \subseteq 1..lastChange /\ Telling(row) /\ row.change = job[a].change
  BY <1>1, <1>4 DEF IInv, FieldsOK, Telling
<1> QED
  BY <1>1, <1>4, <1>7, <1>8, TurnKeeps

LEMMA RowGoneKeeps ==
  ASSUME IInv, NEW a \in Operators, RowGone(a)
  PROVE  IInv'
<1>1. /\ Become(a, Idle) /\ ~Exists(job[a].row) /\ job[a].pc \in {"update", "read"}
      /\ UNCHANGED <<rows, lastRow, lastChange, events, lastEvent, silent>>
  BY DEF RowGone
<1>2. job[a].row \in RowId
  BY <1>1 DEF IInv, FieldsOK, JobOK
<1>3. ~rows[job[a].row].exists /\ silent' \subseteq 1..lastChange
  BY <1>1, <1>2 DEF Exists, IInv, FieldsOK
<1> QED
  BY <1>1, <1>3, IdleRow, IdleOK, TurnKeeps

LEMMA FailKeeps ==
  ASSUME IInv, NEW a \in Operators, Fail(a)
  PROVE  IInv'
<1>1. /\ Become(a, Idle) /\ job[a].pc # "idle" /\ job[a] \in Job /\ JobOK(job[a])
      /\ silent' = IF job[a].pc = "update" THEN silent ELSE silent \cup {job[a].change}
      /\ UNCHANGED <<rows, lastRow, lastChange, events, lastEvent>>
  BY DEF Fail, IInv, FieldsOK
<1>2. Telling(job[a]) <=> job[a].pc # "update"
  BY <1>1 DEF Telling, Job
<1>3. silent' \subseteq 1..lastChange /\ (Telling(job[a]) => job[a].change \in silent')
  BY <1>1, <1>2 DEF JobOK, IInv, FieldsOK
<1> QED
  BY <1>1, <1>3, IdleRow, IdleOK, TurnKeeps

----------------------------------------------------------------------------
(* Steps that change rows. *)

LEMMA ChangeKeeps ==
  ASSUME IInv, FieldsOK', Later, UNCHANGED <<events, lastEvent>>, silent \subseteq silent',
         \A b \in Operators : job'[b] = job[b] \/ (~Telling(job[b]) /\ JobOK(job[b])'),
         \A e \in RowId, c \in Column, n \in Nat :
           rows'[e].exists /\ rows'[e].value[c] = n =>
             \/ n \in silent' \/ Pending(n)'
             \/ rows[e].exists /\ rows[e].value[c] = n
  PROVE  IInv'
<1>1. ASSUME NEW b \in Operators PROVE JobOK(job[b])'
  <2>1. CASE job'[b] = job[b]
    <3>1. job[b] \in Job /\ JobOK(job[b])
      BY DEF IInv, FieldsOK
    <3>2. JobOK(job'[b])
      BY <2>1, <3>1
    <3>3. PICK row \in Job : row = job[b] /\ JobOK(row)
      BY <3>1
    <3>4. JobOK(row)'
      BY <3>3, LaterJob
    <3> QED
      BY <2>1, <3>3, <3>4 DEF JobOK, Telling
  <2> QED
    BY <2>1
<1>2. ASSUME NEW n \in Nat, Pending(n) PROVE Pending(n)'
  <2>1. PICK b \in Operators : Telling(job[b]) /\ job[b].change = n
    BY <1>2 DEF Pending, Telling
  <2>2. job'[b] = job[b]
    BY <2>1
  <2> QED
    BY <2>1, <2>2 DEF Pending, Telling
<1> QED
  BY <1>1, <1>2, QuietKeeps

LEMMA WriteMoves ==
  ASSUME IInv, NEW e \in RowId, NEW columns \in SUBSET Column, Write(e, columns),
         UNCHANGED <<lastRow, events, lastEvent>>
  PROVE  /\ Later
         /\ lastChange' = lastChange + 1 /\ lastChange' \in Change
         /\ rows' \in [RowId -> [exists: BOOLEAN, value: [Column -> 0..lastChange']]]
         /\ \A d \in RowId : rows'[d].exists = rows[d].exists
         /\ \A d \in RowId : ~rows[d].exists => rows'[d] = NoRow
         /\ \A d \in RowId, c \in Column : rows'[d].value[c] =
              IF d = e /\ rows[e].exists /\ c \in columns THEN lastChange + 1 ELSE rows[d].value[c]
<1>1. lastChange \in Nat /\ lastChange < MaxChanges /\ lastChange' = lastChange + 1
  BY DEF Write, IInv, FieldsOK
<1>2. rows \in [RowId -> [exists: BOOLEAN, value: [Column -> 0..lastChange]]]
  BY DEF IInv, FieldsOK
<1>3. rows \in [RowId -> [exists: BOOLEAN, value: [Column -> 0..lastChange']]]
  BY <1>1, <1>2
<1> DEFINE Value == [c \in Column |-> IF c \in columns THEN lastChange + 1 ELSE rows[e].value[c]]
<1>4. Value \in [Column -> 0..lastChange']
  BY <1>1, <1>3
<1>5. CASE ~Exists(e)
  <2>1. rows' = rows /\ ~rows[e].exists
    BY <1>5 DEF Write, Exists
  <2> QED
    BY <1>1, <1>3, <2>1 DEF Later, IInv, FieldsOK
<1>6. CASE Exists(e)
  <2>1. rows' = [rows EXCEPT ![e].value = Value]
    BY <1>6 DEF Write
  <2> HIDE DEF Value
  <2>2. /\ rows'[e].value = Value /\ rows'[e].exists = rows[e].exists
        /\ \A d \in RowId : d # e => rows'[d] = rows[d]
        /\ rows' \in [RowId -> [exists: BOOLEAN, value: [Column -> 0..lastChange']]]
    BY <1>3, <1>4, <2>1
  <2>3. rows[e].exists
    BY <1>6 DEF Exists
  <2>4. \A d \in RowId : ~rows[d].exists => rows'[d] = NoRow
    BY <2>2, <2>3 DEF IInv, FieldsOK
  <2>5. \A d \in RowId : rows'[d].exists = rows[d].exists
    BY <2>2
  <2>6. \A d \in RowId, c \in Column : rows'[d].value[c] =
          IF d = e /\ rows[e].exists /\ c \in columns THEN lastChange + 1 ELSE rows[d].value[c]
    BY <2>2, <2>3 DEF Value
  <2>7. Later
    BY <1>1, <2>4, <2>5, <2>6 DEF Later, IInv, FieldsOK
  <2> QED
    BY <1>1, <2>2, <2>4, <2>5, <2>6, <2>7
<1> QED
  BY <1>5, <1>6

\* An operator begins to tell of the newest change.
LEMMA NewestKeeps ==
  ASSUME IInv, Later, NEW a \in Operators, ~Telling(job[a]), NEW row \in Job, Become(a, row),
         JobOK(row)', Telling(row), row.change = lastChange + 1,
         UNCHANGED <<events, lastEvent, silent>>,
         lastRow' \in 0..MaxRows, lastChange' = lastChange + 1, lastChange' \in Change,
         rows' \in [RowId -> [exists: BOOLEAN, value: [Column -> 0..lastChange']]],
         \A e \in RowId : rows'[e].exists => e <= lastRow',
         \A e \in RowId : ~rows'[e].exists => rows'[e] = NoRow,
         \A e \in RowId, c \in Column : rows'[e].exists =>
           \/ rows'[e].value[c] = lastChange + 1
           \/ rows[e].exists /\ rows'[e].value[c] = rows[e].value[c]
  PROVE  IInv'
<1>1. \A b \in Operators : job'[b] = IF b = a THEN row ELSE job[b]
  BY DEF Become, IInv, FieldsOK
<1>2. job' \in [Operators -> Job]
  BY DEF Become, IInv, FieldsOK
<1>3. silent' \subseteq 1..lastChange'
  BY DEF IInv, FieldsOK
<1>4. FieldsOK'
  BY <1>2, <1>3 DEF IInv, FieldsOK
<1>5. JobOK(job[a])'
  BY <1>1 DEF JobOK, Telling
<1>6. ASSUME NEW n, n = lastChange + 1 PROVE Pending(n)'
  BY <1>1, <1>6 DEF Pending, Telling
<1>7. ASSUME NEW e \in RowId, NEW c \in Column, NEW n \in Nat, rows'[e].exists, rows'[e].value[c] = n
      PROVE  Pending(n)' \/ (rows[e].exists /\ rows[e].value[c] = n)
  BY <1>6, <1>7
<1>8. \A b \in Operators : job'[b] = job[b] \/ (~Telling(job[b]) /\ JobOK(job[b])')
  BY <1>1, <1>5
<1>9. silent \subseteq silent' /\ UNCHANGED <<events, lastEvent>>
  OBVIOUS
<1> HIDE DEF RowId, Change
<1> QED
  BY <1>4, <1>7, <1>8, <1>9, ChangeKeeps

LEMMA UpdateKeeps ==
  ASSUME IInv, NEW a \in Operators, Update(a)
  PROVE  IInv'
<1>1. /\ job[a].pc = "update" /\ Exists(job[a].row) /\ job[a] \in Job /\ JobOK(job[a])
      /\ Become(a, [job[a] EXCEPT !.pc = "read", !.change = lastChange + 1])
      /\ UNCHANGED <<lastRow, events, lastEvent, silent>>
  BY DEF Update, IInv, FieldsOK
<1>2. PICK columns \in Rewritten(job[a].column) : Write(job[a].row, columns)
  BY DEF Update
<1>3. job[a].column \in columns /\ columns \in SUBSET Column
  BY <1>1, <1>2 DEF Rewritten, Job, Column
<1>4. job[a].row \in RowId /\ rows[job[a].row].exists /\ ~Telling(job[a])
  BY <1>1 DEF Exists, Telling
<1>5. /\ Later
      /\ lastChange' = lastChange + 1 /\ lastChange' \in Change
      /\ rows' \in [RowId -> [exists: BOOLEAN, value: [Column -> 0..lastChange']]]
      /\ \A d \in RowId : rows'[d].exists = rows[d].exists
      /\ \A d \in RowId : ~rows[d].exists => rows'[d] = NoRow
      /\ \A d \in RowId, c \in Column : rows'[d].value[c] =
           IF d = job[a].row /\ c \in columns THEN lastChange + 1 ELSE rows[d].value[c]
  BY <1>1, <1>2, <1>3, <1>4, WriteMoves
<1>6. PICK row \in Job : row = [job[a] EXCEPT !.pc = "read", !.change = lastChange + 1]
  BY <1>1, <1>5 DEF Job
<1>7. /\ row.pc = "read" /\ row.row = job[a].row /\ row.column = job[a].column
      /\ row.change = lastChange + 1 /\ row.began = job[a].began
  BY <1>1, <1>6 DEF Job
<1>8. lastChange \in Nat /\ \A d \in RowId, c \in Column : rows[d].value[c] \in 0..lastChange
  BY DEF IInv, FieldsOK
<1>9. JobOK(row)'
  <2>1. row.row \in 1..lastRow' /\ row.began <= lastEvent'
    BY <1>1, <1>7 DEF JobOK
  <2>2. row.change \in 1..lastChange'
    BY <1>5, <1>7, <1>8
  <2>3. \A d \in RowId, c \in Column : rows'[d].value[c] = row.change => d = row.row
    BY <1>5, <1>7, <1>8
  <2>4. row.change <= rows'[row.row].value[row.column]
    BY <1>3, <1>4, <1>5, <1>7, <1>8
  <2> QED
    BY <1>7, <2>1, <2>2, <2>3, <2>4 DEF JobOK, Telling
<1>10. Become(a, row) /\ Telling(row)
  BY <1>1, <1>6, <1>7 DEF Telling
<1>11. /\ lastRow' \in 0..MaxRows
       /\ \A d \in RowId : rows'[d].exists => d <= lastRow'
       /\ \A d \in RowId : ~rows'[d].exists => rows'[d] = NoRow
  BY <1>1, <1>5 DEF IInv, FieldsOK
<1>12. \A d \in RowId, c \in Column : rows'[d].exists =>
         \/ rows'[d].value[c] = lastChange + 1
         \/ rows[d].exists /\ rows'[d].value[c] = rows[d].value[c]
  BY <1>5
<1> QED
  BY <1>1, <1>4, <1>5, <1>7, <1>9, <1>10, <1>11, <1>12, NewestKeeps

\* A command tells of the newest change without a value.
LEMMA CommandKeeps ==
  ASSUME IInv, NEW a \in Operators, NEW e \in RowId, Command(a, e), Later,
         lastChange' = lastChange + 1, lastChange' \in Change,
         rows' \in [RowId -> [exists: BOOLEAN, value: [Column -> 0..lastChange']]],
         \A d \in RowId : rows'[d].exists => d <= lastRow',
         \A d \in RowId : ~rows'[d].exists => rows'[d] = NoRow,
         \A d \in RowId, c \in Column :
           \/ d = e /\ rows'[d].value[c] = lastChange + 1
           \/ rows'[d].value[c] = 0 /\ ~rows'[d].exists
           \/ rows'[d].exists = rows[d].exists /\ rows'[d].value[c] = rows[d].value[c]
  PROVE  IInv'
<1>1. /\ job[a].pc = "idle" /\ e <= lastRow
      /\ Become(a, [Idle EXCEPT !.pc = "record", !.row = e, !.change = lastChange', !.began = lastEvent])
      /\ UNCHANGED <<lastRow, events, lastEvent, silent>>
  BY DEF Command
<1>2. /\ lastChange \in Nat /\ lastEvent \in Nat /\ lastRow \in 0..MaxRows
      /\ \A d \in RowId, c \in Column : rows[d].value[c] \in 0..lastChange
  BY DEF IInv, FieldsOK
<1>3. PICK row \in Job :
        row = [Idle EXCEPT !.pc = "record", !.row = e, !.change = lastChange', !.began = lastEvent]
  BY <1>2, IdleRow DEF Job
<1>4. /\ row.pc = "record" /\ row.row = e /\ row.change = lastChange + 1 /\ row.began = lastEvent
      /\ row.told = 0
  BY <1>3 DEF Idle
<1>5. JobOK(row)'
  <2>1. row.row \in 1..lastRow' /\ row.began <= lastEvent'
    BY <1>1, <1>2, <1>4
  <2>2. row.change \in 1..lastChange'
    BY <1>2, <1>4
  <2>3. ASSUME NEW d \in RowId, NEW c \in Column, rows'[d].value[c] = row.change
        PROVE  d = row.row
    <3>1. rows'[d].value[c] = lastChange + 1 /\ rows[d].value[c] \in 0..lastChange
      BY <1>2, <1>4, <2>3
    <3>2. d = e \/ rows'[d].value[c] = 0 \/ rows'[d].value[c] = rows[d].value[c]
      OBVIOUS
    <3> HIDE DEF RowId
    <3> QED
      BY <1>2, <1>4, <3>1, <3>2
  <2> QED
    BY <1>4, <2>1, <2>2, <2>3 DEF JobOK, Telling
<1>6. ~Telling(job[a]) /\ Telling(row) /\ Become(a, row)
  BY <1>1, <1>3, <1>4 DEF Telling
<1>7. \A d \in RowId, c \in Column : rows'[d].exists =>
         \/ rows'[d].value[c] = lastChange + 1
         \/ rows[d].exists /\ rows'[d].value[c] = rows[d].value[c]
  OBVIOUS
<1> QED
  BY <1>1, <1>2, <1>4, <1>5, <1>6, <1>7, NewestKeeps

LEMMA SwitchCommandKeeps ==
  ASSUME IInv, NEW a \in Operators, NEW e \in RowId, NEW notices \in BOOLEAN,
         SwitchCommand(a, e, notices)
  PROVE  IInv'
<1>1. Write(e, {"state"}) /\ Command(a, e) /\ {"state"} \in SUBSET Column
  BY DEF SwitchCommand, Column
<1>2. UNCHANGED <<lastRow, events, lastEvent>>
  BY <1>1 DEF Command
<1>3. /\ Later
      /\ lastChange' = lastChange + 1 /\ lastChange' \in Change
      /\ rows' \in [RowId -> [exists: BOOLEAN, value: [Column -> 0..lastChange']]]
      /\ \A d \in RowId : rows'[d].exists = rows[d].exists
      /\ \A d \in RowId : ~rows[d].exists => rows'[d] = NoRow
      /\ \A d \in RowId, c \in Column : rows'[d].value[c] =
           IF d = e /\ rows[e].exists /\ c \in {"state"} THEN lastChange + 1 ELSE rows[d].value[c]
  BY <1>1, <1>2, WriteMoves
<1>4. \A d \in RowId : rows'[d].exists => d <= lastRow'
  BY <1>2, <1>3 DEF IInv, FieldsOK
<1> QED
  BY <1>1, <1>3, <1>4, CommandKeeps

LEMMA RemoveMoves ==
  ASSUME IInv, NEW e \in RowId, Remove(e)
  PROVE  /\ \A d \in RowId : rows'[d] = IF d = e THEN NoRow ELSE rows[d]
         /\ \A n \in Nat : n >= lastChange =>
              rows' \in [RowId -> [exists: BOOLEAN, value: [Column -> 0..n]]]
         /\ \A d \in RowId : rows'[d].exists => d <= lastRow
         /\ \A d \in RowId : ~rows'[d].exists => rows'[d] = NoRow
<1>1. rows \in [RowId -> [exists: BOOLEAN, value: [Column -> 0..lastChange]]] /\ lastChange \in Nat
  BY DEF IInv, FieldsOK
<1>2. \A d \in RowId : rows'[d] = IF d = e THEN NoRow ELSE rows[d]
  BY <1>1 DEF Remove
<1>3. ASSUME NEW n \in Nat, n >= lastChange
      PROVE  rows' \in [RowId -> [exists: BOOLEAN, value: [Column -> 0..n]]]
  <2>1. rows \in [RowId -> [exists: BOOLEAN, value: [Column -> 0..n]]]
    BY <1>1, <1>3
  <2> QED
    BY <2>1, EmptyRow DEF Remove
<1> QED
  BY <1>2, <1>3, EmptyRow DEF IInv, FieldsOK

LEMMA DeleteCommandKeeps ==
  ASSUME IInv, NEW a \in Operators, NEW e \in RowId, DeleteCommand(a, e)
  PROVE  IInv'
<1>1. /\ lastChange < MaxChanges /\ lastChange' = lastChange + 1 /\ Remove(e) /\ Command(a, e)
      /\ UNCHANGED <<lastRow, events, lastEvent>>
  BY DEF DeleteCommand, Command
<1>2. lastChange \in Nat /\ lastChange' \in Change /\ lastRow \in Nat /\ lastEvent \in Nat
  BY <1>1 DEF IInv, FieldsOK
<1>3. /\ \A d \in RowId : rows'[d] = IF d = e THEN NoRow ELSE rows[d]
      /\ rows' \in [RowId -> [exists: BOOLEAN, value: [Column -> 0..lastChange']]]
      /\ \A d \in RowId : rows'[d].exists => d <= lastRow'
      /\ \A d \in RowId : ~rows'[d].exists => rows'[d] = NoRow
  <2>1. lastChange' \in Nat /\ lastChange' >= lastChange
    BY <1>1, <1>2
  <2>2. /\ \A d \in RowId : rows'[d] = IF d = e THEN NoRow ELSE rows[d]
        /\ \A n \in Nat : n >= lastChange =>
             rows' \in [RowId -> [exists: BOOLEAN, value: [Column -> 0..n]]]
        /\ \A d \in RowId : rows'[d].exists => d <= lastRow
        /\ \A d \in RowId : ~rows'[d].exists => rows'[d] = NoRow
    BY <1>1, RemoveMoves
  <2> QED
    BY <1>1, <2>1, <2>2
<1>4. Later
  <2>1. ASSUME NEW d \in RowId
        PROVE  \/ rows'[d] = NoRow
               \/ rows[d].exists /\ rows'[d] = rows[d]
    <3>1. rows[d].exists \/ rows[d] = NoRow
      BY DEF IInv, FieldsOK
    <3> QED
      BY <1>3, <3>1
  <2>2. lastRow <= lastRow' /\ lastChange <= lastChange' /\ lastEvent <= lastEvent'
    BY <1>1, <1>2
  <2>3. ASSUME NEW d \in RowId
        PROVE  \/ rows'[d] = NoRow
               \/ /\ rows[d].exists /\ rows'[d].exists
                  /\ \A c \in Column : rows'[d].value[c] \in {rows[d].value[c], lastChange + 1}
    BY <2>1
  <2> QED
    BY <1>1, <2>2, <2>3 DEF Later
<1>5. \A d \in RowId, c \in Column :
        \/ rows'[d].value[c] = 0 /\ ~rows'[d].exists
        \/ rows'[d].exists = rows[d].exists /\ rows'[d].value[c] = rows[d].value[c]
  BY <1>3, EmptyRow
<1> QED
  BY <1>1, <1>2, <1>3, <1>4, <1>5, CommandKeeps

LEMMA WebDeleteKeeps ==
  ASSUME IInv, NEW e \in RowId, WebDelete(e)
  PROVE  IInv'
<1>1. Remove(e) /\ UNCHANGED <<lastRow, lastChange, events, lastEvent, job, silent>>
  BY DEF WebDelete
<1>2. /\ \A d \in RowId : rows'[d] = IF d = e THEN NoRow ELSE rows[d]
      /\ \A n \in Nat : n >= lastChange =>
           rows' \in [RowId -> [exists: BOOLEAN, value: [Column -> 0..n]]]
      /\ \A d \in RowId : rows'[d].exists => d <= lastRow
      /\ \A d \in RowId : ~rows'[d].exists => rows'[d] = NoRow
  BY <1>1, RemoveMoves
<1>3. lastChange \in Nat /\ lastRow \in Nat /\ lastEvent \in Nat
  BY DEF IInv, FieldsOK
<1>4. rows' \in [RowId -> [exists: BOOLEAN, value: [Column -> 0..lastChange']]]
  BY <1>1, <1>2, <1>3
<1>5. FieldsOK'
  BY <1>1, <1>2, <1>4 DEF IInv, FieldsOK
<1>6. Later
  <2>1. ASSUME NEW d \in RowId
        PROVE  \/ rows'[d] = NoRow
               \/ /\ rows[d].exists /\ rows'[d].exists
                  /\ \A c \in Column : rows'[d].value[c] \in {rows[d].value[c], lastChange + 1}
    <3>1. rows[d].exists \/ rows[d] = NoRow
      BY DEF IInv, FieldsOK
    <3> QED
      BY <1>2, <3>1
  <2> QED
    BY <1>1, <1>3, <2>1 DEF Later
<1>7. \A d \in RowId, c \in Column, n \in Nat :
        rows'[d].exists /\ rows'[d].value[c] = n => rows[d].exists /\ rows[d].value[c] = n
  BY <1>2, EmptyRow
<1>8. \A b \in Operators : job'[b] = job[b]
  BY <1>1
<1> HIDE DEF RowId, Change
<1> QED
  BY <1>1, <1>5, <1>6, <1>7, <1>8, ChangeKeeps

LEMMA WebChangeKeeps ==
  ASSUME IInv, NEW e \in RowId, NEW k \in Column, WebChange(e, k)
  PROVE  IInv'
<1>1. /\ Exists(e) /\ Write(e, {k}) /\ silent' = silent \cup {lastChange + 1}
      /\ UNCHANGED <<lastRow, events, lastEvent, job>> /\ {k} \in SUBSET Column
  BY DEF WebChange
<1>2. /\ Later
      /\ lastChange' = lastChange + 1 /\ lastChange' \in Change
      /\ rows' \in [RowId -> [exists: BOOLEAN, value: [Column -> 0..lastChange']]]
      /\ \A d \in RowId : rows'[d].exists = rows[d].exists
      /\ \A d \in RowId : ~rows[d].exists => rows'[d] = NoRow
      /\ \A d \in RowId, c \in Column : rows'[d].value[c] =
           IF d = e /\ rows[e].exists /\ c \in {k} THEN lastChange + 1 ELSE rows[d].value[c]
  BY <1>1, WriteMoves
<1>3. silent' \subseteq 1..lastChange' /\ silent \subseteq silent'
  BY <1>1, <1>2 DEF IInv, FieldsOK
<1>4. FieldsOK'
  BY <1>1, <1>2, <1>3 DEF IInv, FieldsOK
<1>5. ASSUME NEW d \in RowId, NEW c \in Column, NEW n \in Nat, rows'[d].exists, rows'[d].value[c] = n
      PROVE  n \in silent' \/ (rows[d].exists /\ rows[d].value[c] = n)
  BY <1>1, <1>2, <1>5
<1>6. \A b \in Operators : job'[b] = job[b]
  BY <1>1
<1> HIDE DEF RowId, Change
<1> QED
  BY <1>1, <1>2, <1>3, <1>4, <1>5, <1>6, ChangeKeeps

LEMMA CreateKeeps ==
  ASSUME IInv, NEW a \in Operators, Create(a)
  PROVE  IInv'
<1> DEFINE e == lastRow + 1
           new == [exists |-> TRUE, value |-> [c \in Column |-> lastChange + 1]]
           begun == [pc |-> "record", row |-> e, column |-> "base_url", change |-> lastChange + 1,
                     told |-> lastChange + 1, began |-> lastEvent]
<1>1. /\ job[a].pc = "idle" /\ e \in RowId /\ lastChange < MaxChanges
      /\ lastChange' = lastChange + 1 /\ rows' = [rows EXCEPT ![e] = new]
      /\ lastRow' = e /\ Become(a, begun) /\ UNCHANGED <<events, lastEvent, silent>>
  BY DEF Create
<1>2. /\ lastChange \in Nat /\ lastEvent \in Nat /\ lastRow \in Nat
      /\ rows \in [RowId -> [exists: BOOLEAN, value: [Column -> 0..lastChange]]]
  BY DEF IInv, FieldsOK
<1>3. lastChange' \in Change /\ lastRow' \in 0..MaxRows /\ lastChange + 1 \in 0..lastChange'
  BY <1>1, <1>2
<1>4. PICK row \in Job : row = begun
  BY <1>1, <1>2, <1>3 DEF Job, Column
<1>5. /\ row.pc = "record" /\ row.row = e /\ row.column = "base_url" /\ row.change = lastChange + 1
      /\ row.told = lastChange + 1 /\ row.began = lastEvent
  BY <1>4
<1>6. Become(a, row) /\ Telling(row) /\ ~Telling(job[a])
  BY <1>1, <1>4, <1>5 DEF Telling
<1> HIDE DEF begun
<1>7. new.exists /\ \A c \in Column : new.value[c] = lastChange + 1
  OBVIOUS
<1>8. new \in [exists: BOOLEAN, value: [Column -> 0..lastChange']]
  BY <1>3
<1> HIDE DEF new
<1>9. /\ \A d \in RowId : rows'[d] = IF d = e THEN new ELSE rows[d]
      /\ rows' \in [RowId -> [exists: BOOLEAN, value: [Column -> 0..lastChange']]]
  <2>1. rows \in [RowId -> [exists: BOOLEAN, value: [Column -> 0..lastChange']]]
    BY <1>1, <1>2
  <2> QED
    BY <1>1, <1>8, <2>1
<1>10. /\ \A d \in RowId : rows'[d].exists => d <= lastRow'
       /\ \A d \in RowId : ~rows'[d].exists => rows'[d] = NoRow
  BY <1>1, <1>2, <1>7, <1>9 DEF IInv, FieldsOK
<1>11. \A d \in RowId, c \in Column : rows'[d].exists =>
         \/ rows'[d].value[c] = lastChange + 1
         \/ rows[d].exists /\ rows'[d].value[c] = rows[d].value[c]
  BY <1>7, <1>9
<1>12. Later
  <2>1. ASSUME NEW d \in RowId
        PROVE  \/ rows'[d] = NoRow
               \/ /\ rows[d].exists /\ rows'[d].exists
                  /\ \A c \in Column : rows'[d].value[c] \in {rows[d].value[c], lastChange + 1}
               \/ d = lastRow + 1 /\ \A c \in Column : rows'[d].value[c] = lastChange + 1
    <3>1. rows[d].exists \/ rows[d] = NoRow
      BY DEF IInv, FieldsOK
    <3> QED
      BY <1>7, <1>9, <3>1
  <2> QED
    BY <1>1, <1>2, <2>1 DEF Later
<1>13. JobOK(row)'
  <2>1. row.row \in 1..lastRow' /\ row.began <= lastEvent'
    BY <1>1, <1>2, <1>5
  <2>2. row.change \in 1..lastChange'
    BY <1>1, <1>2, <1>5
  <2>3. ASSUME NEW d \in RowId, NEW c \in Column, rows'[d].value[c] = row.change
        PROVE  d = row.row
    <3>1. rows[d].value[c] \in 0..lastChange
      BY <1>2
    <3> QED
      BY <1>2, <1>5, <1>9, <2>3, <3>1
  <2>4. row.told <= lastChange' /\ row.change <= row.told
    BY <1>1, <1>2, <1>5
  <2>5. rows'[row.row].value[row.column] = row.told
    BY <1>1, <1>5, <1>7, <1>9 DEF Column
  <2>6. ASSUME NEW i \in 1..row.began PROVE events'[i].told <= row.told
    <3>1. i \in 1..lastEvent
      BY <1>5
    <3>2. EventOK(events[i]) /\ events[i] \in Event
      BY <3>1 DEF IInv, FieldsOK
    <3> QED
      BY <1>1, <1>2, <1>5, <3>2 DEF EventOK, Event
  <2>7. row.told \in Nat
    BY <1>2, <1>5
  <2> QED
    BY <1>5, <2>1, <2>2, <2>3, <2>4, <2>5, <2>6, <2>7 DEF JobOK, Telling
<1> HIDE DEF e, RowId
<1> QED
  BY <1>1, <1>3, <1>5, <1>6, <1>9, <1>10, <1>11, <1>12, <1>13, NewestKeeps

----------------------------------------------------------------------------
(* The event is written. *)

LEMMA RecordKeeps ==
  ASSUME IInv, NEW a \in Operators, NEW fits \in BOOLEAN, Record(a, fits)
  PROVE  IInv'
<1> DEFINE new == EventOf(job[a], fits)
           row == job[a]
<1>1. /\ row.pc = "record" /\ lastEvent' = lastEvent + 1
      /\ events' = [i \in 1..(lastEvent + 1) |-> IF i <= lastEvent THEN events[i] ELSE new]
      /\ Become(a, Idle) /\ UNCHANGED <<rows, lastRow, lastChange, silent>>
  BY DEF Record
<1>2. row \in Job /\ JobOK(row) /\ Telling(row)
  BY <1>1 DEF IInv, FieldsOK, Telling
<1>3. lastEvent \in Nat /\ lastChange \in Nat /\ lastRow \in 0..MaxRows
  BY DEF IInv, FieldsOK
<1>4. /\ row.row \in 1..lastRow /\ row.row \in RowId /\ row.column \in Column
      /\ row.change \in Change /\ row.told \in Change /\ row.began \in Nat
      /\ row.began <= lastEvent
  BY <1>1, <1>2, <1>3 DEF JobOK, Job
<1>5. /\ new.row = row.row /\ new.column = row.column /\ new.change = row.change
      /\ new.told \in {row.told, 0} /\ new.began = row.began /\ new \in Event
  BY <1>4 DEF EventOf, Sanitized, Event
<1> HIDE DEF new
<1>6. /\ events'[lastEvent + 1] = new
      /\ \A i \in 1..lastEvent : events'[i] = events[i]
      /\ events' \in [1..(lastEvent + 1) -> Event]
  <2>1. events \in [1..lastEvent -> Event]
    BY DEF IInv, FieldsOK
  <2> QED
    BY <1>1, <1>3, <1>5, <2>1
<1>7. \A b \in Operators : job'[b] = IF b = a THEN Idle ELSE job[b]
  BY <1>1 DEF Become, IInv, FieldsOK
<1>8. FieldsOK'
  BY <1>1, <1>3, <1>6, IdleRow DEF Become, IInv, FieldsOK
<1>9. Later
  BY <1>1, <1>3, <1>6 DEF Later, IInv, FieldsOK
<1>10. ASSUME NEW i \in 1..lastEvent' PROVE EventOK(events[i])'
  <2>1. CASE i \in 1..lastEvent
    <3>1. EventOK(events[i])'
      BY <1>8, <1>9, <2>1, LaterEvent
    <3> QED
      BY <3>1
  <2>2. CASE i = lastEvent + 1
    <3>1. new.row <= lastRow /\ new.began <= lastEvent' /\ new.told <= lastChange
      BY <1>1, <1>2, <1>3, <1>4, <1>5 DEF JobOK
    <3>2. rows[row.row].exists => rows[row.row].value[row.column] \in 0..lastChange
      BY <1>4 DEF IInv, FieldsOK
    <3>3. rows[row.row].exists => new.told <= rows[row.row].value[row.column]
      BY <1>1, <1>2, <1>5, <3>2 DEF JobOK
    <3>4. events'[i] = new
      BY <1>6, <2>2
    <3> QED
      BY <1>1, <1>5, <3>1, <3>3, <3>4 DEF EventOK
  <2> QED
    BY <1>1, <1>3, <2>1, <2>2
<1>11. ASSUME NEW b \in Operators PROVE JobOK(job[b])'
  <2>1. CASE b = a
    BY <1>7, <2>1, IdleRow DEF JobOK, Telling
  <2>2. CASE b # a
    <3>1. PICK other \in Job : other = job[b] /\ JobOK(other)
      BY DEF IInv, FieldsOK
    <3>2. JobOK(other)'
      BY <1>8, <1>9, <3>1, LaterJob
    <3>3. job'[b] = other
      BY <1>7, <2>2, <3>1
    <3> QED
      BY <3>2, <3>3 DEF JobOK, Telling
  <2> QED
    BY <2>1, <2>2
<1>12. ASSUME NEW e \in RowId, NEW c \in Column, NEW n \in Nat, rows'[e].exists, rows'[e].value[c] = n
       PROVE  Accounted(e, c, n)'
  <2>1. Accounted(e, c, n) /\ rows[e].exists /\ rows[e].value[c] = n
    BY <1>1, <1>12 DEF IInv
  <2>2. ASSUME Pending(n) PROVE Accounted(e, c, n)'
    <3>1. PICK b \in Operators : Telling(job[b]) /\ job[b].change = n
      BY <2>2 DEF Pending, Telling
    <3>2. CASE b # a
      <4>1. Pending(n)'
        BY <1>7, <3>1, <3>2 DEF Pending, Telling
      <4> QED
        BY <4>1 DEF Accounted
    <3>3. CASE b = a
      <4>1. row.row = e /\ row.change = n
        BY <1>2, <2>1, <3>1, <3>3 DEF JobOK
      <4>2. new.row = e /\ new.change = n
        BY <1>5, <4>1
      <4>3. ASSUME new.column = c PROVE new.told \in {n, 0}
        BY <1>1, <1>2, <1>4, <1>5, <2>1, <4>1, <4>3 DEF JobOK
      <4>4. lastEvent + 1 \in 1..lastEvent'
        BY <1>1, <1>3
      <4> QED
        BY <1>6, <4>2, <4>3, <4>4 DEF Accounted
    <3> QED
      BY <3>2, <3>3
  <2> QED
    BY <1>1, <1>8, <1>9, <2>1, <2>2, LaterValue
<1>13. (\A e \in RowId, c \in Column : rows[e].exists => Accounted(e, c, rows[e].value[c]))'
  <2> SUFFICES ASSUME NEW e \in RowId, NEW c \in Column, rows'[e].exists
               PROVE  Accounted(e, c, rows[e].value[c])'
    OBVIOUS
  <2>1. PICK n \in Nat : rows'[e].value[c] = n
    BY <1>8 DEF FieldsOK
  <2>2. Accounted(e, c, n)'
    BY <1>12, <2>1
  <2> QED
    BY <2>1, <2>2 DEF Accounted, Pending
<1>14. TrailMovesForward'
  <2> SUFFICES ASSUME NEW j \in 1..lastEvent', events'[j].told # 0
               PROVE  /\ events'[j].change <= events'[j].told
                      /\ \A i \in 1..events'[j].began :
                           (events'[i].row = events'[j].row /\ events'[i].column = events'[j].column)
                             => events'[i].told <= events'[j].told
    BY DEF TrailMovesForward
  <2>1. CASE j \in 1..lastEvent
    <3>1. events'[j] = events[j] /\ events[j] \in Event /\ EventOK(events[j])
      BY <1>6, <2>1 DEF IInv, FieldsOK
    <3>2. \A i \in 1..events[j].began : events'[i] = events[i]
      BY <1>3, <1>6, <3>1 DEF EventOK, Event
    <3> QED
      BY <2>1, <3>1, <3>2 DEF IInv, TrailMovesForward
  <2>2. CASE j = lastEvent + 1
    <3>1. events'[j] = new /\ new.told = row.told /\ row.told # 0
      BY <1>5, <1>6, <2>2
    <3>2. \A i \in 1..new.began : events'[i] = events[i]
      BY <1>3, <1>4, <1>5, <1>6
    <3>3. /\ row.change <= row.told
          /\ \A i \in 1..row.began :
               (events[i].row = row.row /\ events[i].column = row.column)
                 => events[i].told <= row.told
      BY <1>1, <1>2, <3>1 DEF JobOK
    <3>4. new.change <= new.told
      BY <1>5, <3>1, <3>3
    <3>5. ASSUME NEW i \in 1..new.began,
                 events'[i].row = new.row, events'[i].column = new.column
          PROVE  events'[i].told <= new.told
      BY <1>5, <3>1, <3>2, <3>3, <3>5
    <3> QED
      BY <3>1, <3>4, <3>5
  <2>3. j \in 1..lastEvent \/ j = lastEvent + 1
    BY <1>1, <1>3
  <2> QED
    BY <2>1, <2>2, <2>3
<1> QED
  BY <1>8, <1>10, <1>11, <1>13, <1>14 DEF IInv

----------------------------------------------------------------------------
(* The invariant. *)

LEMMA OperateKeeps ==
  ASSUME IInv, NEW a \in Operators, Operate(a)
  PROVE  IInv'
<1>1. \A e \in RowId, c \in Edited : Enter(a, e, c) => IInv'
  BY EnterKeeps
<1>2. \A e \in RowId : (\E notices \in BOOLEAN : SwitchCommand(a, e, notices)) => IInv'
  BY SwitchCommandKeeps
<1>3. \A e \in RowId : DeleteCommand(a, e) => IInv'
  BY DeleteCommandKeeps
<1>4. \A fits \in BOOLEAN : Record(a, fits) => IInv'
  BY RecordKeeps
<1>5. Update(a) \/ ReadAgain(a) \/ RowGone(a) \/ Fail(a) \/ Create(a) => IInv'
  BY UpdateKeeps, ReadAgainKeeps, RowGoneKeeps, FailKeeps, CreateKeeps
<1> HIDE DEF RowId
<1> QED
  BY <1>1, <1>2, <1>3, <1>4, <1>5 DEF Operate

LEMMA StepKeeps == IInv /\ [Next]_vars => IInv'
<1> SUFFICES ASSUME IInv, [Next]_vars PROVE IInv'
  OBVIOUS
<1>1. ASSUME NEW a \in Operators, Operate(a) PROVE IInv'
  BY <1>1, OperateKeeps
<1>2. ASSUME NEW e \in RowId, WebDelete(e) PROVE IInv'
  BY <1>2, WebDeleteKeeps
<1>3. ASSUME NEW e \in RowId, NEW c \in {"base_url", "state"}, WebChange(e, c) PROVE IInv'
  <2>1. c \in Column
    BY DEF Column
  <2> QED
    BY <1>3, <2>1, WebChangeKeeps
<1>4. CASE UNCHANGED vars
  BY <1>4 DEF vars, IInv, FieldsOK, EventOK, JobOK, Telling, Accounted, Pending, TrailMovesForward
<1> HIDE DEF RowId
<1> QED
  BY <1>1, <1>2, <1>3, <1>4 DEF Next

\* The inductive invariant holds throughout.
LEMMA Invariance == Spec => []IInv
BY InitHolds, StepKeeps, PTL DEF Spec

\* Rows, events and jobs stay well formed: every event and every job names a row
\* that was there, and none a trail older than its own.
THEOREM TypeCorrect == Spec => []TypeOK
<1>1. IInv => TypeOK
  <2> SUFFICES ASSUME IInv PROVE TypeOK
    OBVIOUS
  <2>1. \A a \in Operators : job[a].pc # "idle" => job[a].row # 0 /\ job[a].began <= lastEvent
    BY DEF IInv, FieldsOK, JobOK
  <2> QED
    BY <2>1 DEF IInv, FieldsOK, TypeOK
<1> QED
  BY <1>1, Invariance, PTL

\* The change behind every standing value of an endpoint is in the trail, on its
\* way there, or one of those known to leave none; and the event tells the
\* value, not an older one (audit.Record after providers' Update and Show).
THEOREM EveryChangeAccounted == Spec => []ChangesAccounted
<1>1. IInv => ChangesAccounted
  <2> SUFFICES ASSUME IInv, NEW e \in RowId, NEW c \in Column, rows[e].exists
               PROVE  Accounted(e, c, rows[e].value[c])
    BY DEF ChangesAccounted, Accounted
  <2> QED
    BY DEF IInv
<1> QED
  BY <1>1, Invariance, PTL

\* Edits that do not overlap are told in the order they were made in: the value
\* is read again after the change and before the event (handlers.go, audit.Record).
THEOREM TrailForward == Spec => []TrailMovesForward
<1>1. IInv => TrailMovesForward
  BY DEF IInv
<1> QED
  BY <1>1, Invariance, PTL

=============================================================================
