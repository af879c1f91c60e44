----------------------- MODULE EndpointQuota_proofs -----------------------
(***************************************************************************)
(* Proofs about EndpointQuota, for any number of rows, editors, edits,     *)
(* refreshes and accounts.                                                 *)
(***************************************************************************)
EXTENDS EndpointQuota, FiniteSetTheorems, WellFoundedInduction, TLAPS

JobsOK == job \in [Refreshers -> Job]

EditsOK ==
  /\ edit \in [Editors -> Edit]
  /\ \A a \in Editors : edit[a].pc # "idle" => edit[a].id \in Endpoint

RowsOK ==
  /\ lastEndpoint \in 0..MaxEndpoints
  /\ inserted \in 0..MaxEndpoints
  /\ rows \in [Endpoint -> Row]
  /\ edits \in 0..MaxEdits

LEMMA Nulls ==
  /\ NoRow \in Row /\ NoEdit \in Edit /\ NoJob \in Job /\ NoSnapshot \in Snapshot
  /\ NoCredential \in Credential /\ NoDisplay \in Display /\ NoTally \in Tally
<1>1. 0 \in 0..MaxEndpoints /\ 0 \in 0..MaxPages
  BY QuotaAssumption DEF QuotaAssumption
<1>2. NoRow \in Row /\ NoSnapshot \in Snapshot
  BY <1>1 DEF NoRow, Row, Skip, Mode, Flow, NoSnapshot, Snapshot
<1>3. NoEdit \in Edit /\ NoCredential \in Credential /\ NoDisplay \in Display
  BY <1>1 DEF NoEdit, Edit, Mode, Flow, NoCredential, Credential, NoDisplay, Display, Skip
<1>4. NoTally \in Tally
  BY DEF NoTally, Tally
<1>5. [e \in Endpoint |-> "none"] \in [Endpoint -> Outcome]
  BY DEF Outcome
<1>6. NoJob \in Job
  BY <1>1, <1>3, <1>4, <1>5 DEF NoJob, Job
<1> QED
  BY <1>2, <1>3, <1>4, <1>6

LEMMA EndpointInRange ==
  ASSUME NEW e \in Endpoint
  PROVE  e \in 0..MaxEndpoints
BY QuotaAssumption DEF Endpoint, QuotaAssumption

LEMMA UpdatedTyped ==
  ASSUME NEW row \in Row, NEW q \in Edit
  PROVE  Updated(row, q) \in Row
<1> DEFINE keep == q.mode = "separate_credentials" /\ ~ClearsCredential(q)
           key == IF keep THEN row.key ELSE "none"
           shown == row.shown /\ keep /\ Identified(q.flow)
           crossed == keep /\ (row.crossed \/ q.overtaken)
<1>1. key \in Flow \cup {"none"} /\ shown \in BOOLEAN /\ q.mode \in Mode /\ q.flow \in Flow
      /\ crossed \in BOOLEAN
  BY DEF Row, Edit
<1>2. Updated(row, q) = [row EXCEPT !.mode = q.mode, !.flow = q.flow, !.key = key, !.shown = shown,
                                    !.crossed = crossed]
  BY DEF Updated, Row
<1> HIDE DEF key, shown, crossed
<1> QED
  BY <1>1, <1>2 DEF Row

LEMMA CountedTyped ==
  ASSUME edits \in 0..MaxEdits, Counted
  PROVE  edits' \in 0..MaxEdits
BY QuotaAssumption DEF Counted, QuotaAssumption

LEMMA RowActionsTyped ==
  ASSUME RowsOK, EditsOK, EditRows \/ \E a \in Editors : EditQuota(a)
  PROVE  RowsOK' /\ EditsOK'
<1>1. ASSUME NEW mode \in Mode, NEW flow \in Flow, AddEndpointWithQuota(mode, flow)
      PROVE  RowsOK' /\ EditsOK'
  <2> DEFINE key == IF mode = "separate_credentials" THEN flow ELSE "none"
             shown == mode = "separate_credentials" /\ Identified(flow)
             row == [exists |-> TRUE, born |-> inserted + 1, skip |-> "", mode |-> mode,
                     flow |-> flow, key |-> key, shown |-> shown, crossed |-> FALSE]
  <2>1. key \in Flow \cup {"none"} /\ shown \in BOOLEAN
    OBVIOUS
  <2>2. inserted < MaxEndpoints /\ NewId \in Endpoint
        /\ lastEndpoint' = NewId /\ inserted' = inserted + 1
    BY <1>1, Zenon DEF AddEndpointWithQuota
  <2>3. rows' = [rows EXCEPT ![NewId] = row]
    BY <1>1, Zenon DEF AddEndpointWithQuota
  <2>a. inserted + 1 \in 0..MaxEndpoints
    BY <2>2, QuotaAssumption DEF RowsOK, QuotaAssumption
  <2>4. row \in Row
    <3> HIDE DEF key, shown
    <3> QED
      BY <2>1, <2>a DEF Row, Skip
  <2> HIDE DEF row
  <2>5. rows' \in [Endpoint -> Row]
    BY <2>2, <2>3, <2>4 DEF RowsOK
  <2>6. lastEndpoint' \in 0..MaxEndpoints /\ inserted' \in 0..MaxEndpoints
    BY <2>2, <2>a, QuotaAssumption DEF Endpoint, QuotaAssumption
  <2>7. RowsOK'
    BY <1>1, <2>5, <2>6, CountedTyped DEF AddEndpointWithQuota, RowsOK
  <2>8. EditsOK'
    BY <1>1 DEF AddEndpointWithQuota, EditsOK
  <2> QED
    BY <2>7, <2>8
<1>2. ASSUME NEW e \in Endpoint, DeleteEndpoint(e)
      PROVE  RowsOK' /\ EditsOK'
  BY <1>2, Nulls, CountedTyped DEF DeleteEndpoint, RowsOK, EditsOK
<1>3. ASSUME NEW e \in Endpoint, NEW skip \in Skip, RoutingChange(e, skip)
      PROVE  RowsOK' /\ EditsOK'
  <2>1. rows' \in [Endpoint -> Row]
    BY <1>3 DEF RoutingChange, RowsOK, Row
  <2> QED
    BY <1>3, <2>1, CountedTyped DEF RoutingChange, RowsOK, EditsOK
<1>4. ASSUME NEW a \in Editors, NEW e \in Endpoint, NEW mode \in Mode, NEW flow \in Flow,
             BeginUpdate(a, e, mode, flow)
      PROVE  RowsOK' /\ EditsOK'
  <2>1. [pc |-> "update", id |-> e, current |-> rows[e].flow, mode |-> mode, flow |-> flow,
         overtaken |-> FALSE] \in Edit
    BY EndpointInRange DEF RowsOK, Row, Edit
  <2> QED
    BY <1>4, <2>1, CountedTyped DEF BeginUpdate, RowsOK, EditsOK
<1>5. ASSUME NEW a \in Editors, FinishUpdate(a)
      PROVE  RowsOK' /\ EditsOK'
  <2>1. edit[a].id \in Endpoint
    BY <1>5 DEF FinishUpdate, EditsOK
  <2>2. Updated(rows[edit[a].id], edit[a]) \in Row
    BY <2>1, UpdatedTyped DEF RowsOK, EditsOK
  <2>3. rows' \in [Endpoint -> Row]
    BY <1>5, <2>1, <2>2 DEF FinishUpdate, RowsOK
  <2>4. RowsOK'
    BY <1>5, <2>3 DEF FinishUpdate, RowsOK
  <2>5. ASSUME NEW b \in Editors
        PROVE  /\ Overtaken(edit[b], edit[a].id) \in Edit
               /\ Overtaken(edit[b], edit[a].id).pc = edit[b].pc
               /\ Overtaken(edit[b], edit[a].id).id = edit[b].id
    <3> DEFINE overtaken == edit[b].overtaken \/ edit[b].id = edit[a].id
    <3>1. edit[b] \in Edit /\ overtaken \in BOOLEAN
      BY DEF EditsOK, Edit
    <3>2. Overtaken(edit[b], edit[a].id) = [edit[b] EXCEPT !.overtaken = overtaken]
      BY <3>1 DEF Overtaken, Edit
    <3> HIDE DEF overtaken
    <3> QED
      BY <3>1, <3>2 DEF Edit
  <2>6. edit' = [b \in Editors |-> IF b = a THEN NoEdit ELSE Overtaken(edit[b], edit[a].id)]
    BY <1>5 DEF FinishUpdate
  <2>7. EditsOK'
    BY <2>5, <2>6, Nulls DEF EditsOK, NoEdit
  <2> QED
    BY <2>4, <2>7
<1>6. ASSUME NEW a \in Editors, NEW e \in Endpoint, BeginRotate(a, e)
      PROVE  RowsOK' /\ EditsOK'
  <2>1. [NoEdit EXCEPT !.pc = "rotate", !.id = e, !.current = rows[e].flow] \in Edit
    BY EndpointInRange, Nulls DEF RowsOK, Row, Edit
  <2>2. RowsOK'
    BY <1>6, CountedTyped DEF BeginRotate, RowsOK
  <2>3. edit' = [edit EXCEPT ![a] = [NoEdit EXCEPT !.pc = "rotate", !.id = e,
                                                  !.current = rows[e].flow]]
    BY <1>6 DEF BeginRotate
  <2>4. [NoEdit EXCEPT !.pc = "rotate", !.id = e, !.current = rows[e].flow].id = e
    BY DEF NoEdit
  <2>5. EditsOK'
    BY <2>1, <2>3, <2>4 DEF EditsOK
  <2> QED
    BY <2>2, <2>5
<1>7. ASSUME NEW a \in Editors, FinishRotate(a)
      PROVE  RowsOK' /\ EditsOK'
  <2>1. edit[a].id \in Endpoint /\ edit[a].current \in Flow /\ edit[a].overtaken \in BOOLEAN
    BY <1>7 DEF FinishRotate, EditsOK, Edit
  <2>2. Identified(edit[a].current) \in BOOLEAN
    BY DEF Identified
  <2> HIDE DEF Identified
  <2>3. rows' \in [Endpoint -> Row]
    BY <1>7, <2>1, <2>2 DEF FinishRotate, RowsOK, Row
  <2>4. RowsOK'
    BY <1>7, <2>3 DEF FinishRotate, RowsOK
  <2>5. EditsOK'
    BY <1>7, Nulls DEF FinishRotate, EditsOK, NoEdit
  <2> QED
    BY <2>4, <2>5
<1>8. ASSUME NEW a \in Editors, AbandonEdit(a)
      PROVE  RowsOK' /\ EditsOK'
  BY <1>8, Nulls DEF AbandonEdit, RowsOK, EditsOK, NoEdit
<1> QED
  BY <1>1, <1>2, <1>3, <1>4, <1>5, <1>6, <1>7, <1>8 DEF EditRows, EditQuota

LEMMA DisplayTyped ==
  ASSUME RowsOK, NEW e \in Endpoint
  PROVE  DisplayOf(e) \in Display
BY QuotaAssumption DEF DisplayOf, RowsOK, Row, Display, Endpoint, QuotaAssumption

LEMMA OnPageTyped ==
  ASSUME JobsOK, NEW j \in Refreshers
  PROVE  OnPage(j) \in Nat
<1>1. job[j].accounts \in Int /\ job[j].page \in Int
  BY QuotaAssumption DEF JobsOK, Job, QuotaAssumption
<1>2. (job[j].page - 1) * PageSize \in Int
  BY <1>1, QuotaAssumption DEF QuotaAssumption
<1> QED
  BY <1>1, <1>2, QuotaAssumption DEF OnPage, QuotaAssumption

LEMMA SkippedTyped ==
  ASSUME NEW t \in Tally, NEW reason
  PROVE  Skipped(t, reason) \in Tally
BY DEF Skipped, Tally

LEMMA SkipReasonTyped ==
  ASSUME NEW d \in Display
  PROVE  SkipReason(d) \in Outcome
BY DEF SkipReason, Display, Skip, Mode, Outcome

----------------------------------------------------------------------------
(* A refresh's own steps keep it typed. *)

LEMMA JobTyped ==
  ASSUME JobsOK, NEW j \in Refreshers, NEW new \in Job,
         job' = [job EXCEPT ![j] = new]
  PROVE  JobsOK'
BY DEF JobsOK

LEMMA CredentialTyped ==
  ASSUME RowsOK, JobsOK, NEW j \in Refreshers, job[j].row.id \in Endpoint
  PROVE  CredentialOf(j) \in Credential
BY DEF CredentialOf, RowsOK, Row, Credential

\* A refresh at work is about a row, and lists rows.
JobRows ==
  \A j \in Refreshers :
    /\ job[j].pc \in {"resolve", "login", "tokens", "pages", "store"} => job[j].row.id \in Endpoint
    /\ \A d \in job[j].todo : d.id \in Endpoint

LEMMA RefreshTyped ==
  ASSUME RowsOK, JobsOK, JobRows, cache \in [Endpoint -> Snapshot],
         NEW j \in Refreshers, Refresh(j)
  PROVE  JobsOK' /\ JobRows' /\ cache' \in [Endpoint -> Snapshot]
<1> DEFINE Keeps == JobsOK' /\ JobRows' /\ cache' \in [Endpoint -> Snapshot]
<1>0. job[j] \in Job /\ \A d \in job[j].todo : d \in Display /\ d.id \in Endpoint
  BY DEF JobsOK, Job, JobRows
<1>1. ASSUME NEW new \in Job, job' = [job EXCEPT ![j] = new],
             new.pc \in {"resolve", "login", "tokens", "pages", "store"} => new.row.id \in Endpoint,
             \A d \in new.todo : d.id \in Endpoint, UNCHANGED cache
      PROVE  Keeps
  BY <1>1, JobTyped DEF JobsOK, JobRows
<1>2. ASSUME NEW e \in Endpoint, RefreshKey(j, e)
      PROVE  Keeps
  <2> DEFINE new == [NoJob EXCEPT !.pc = "resolve", !.row = DisplayOf(e)]
  <2>1. new \in Job /\ new.row.id = e /\ new.todo = {}
    BY Nulls, DisplayTyped DEF Job, NoJob, DisplayOf
  <2>2. job' = [job EXCEPT ![j] = new] /\ UNCHANGED cache
    BY <1>2 DEF RefreshKey
  <2> HIDE DEF new
  <2> QED
    BY <1>1, <2>1, <2>2
<1>3. ASSUME RefreshAllKeys(j)
      PROVE  Keeps
  <2> DEFINE ids == {e \in Endpoint : rows[e].exists}
             listing == {DisplayOf(e) : e \in ids}
             new == [NoJob EXCEPT !.pc = "next", !.all = TRUE, !.listed = ids, !.todo = listing]
  <2>1. ids \in SUBSET Endpoint
    OBVIOUS
  <2>2. listing \in SUBSET Display /\ \A d \in listing : d.id \in Endpoint
    BY DisplayTyped DEF DisplayOf
  <2>3. job' = [job EXCEPT ![j] = new] /\ UNCHANGED cache
    BY <1>3 DEF RefreshAllKeys
  <2> HIDE DEF ids, listing
  <2>4. new \in Job /\ new.pc = "next" /\ new.todo = listing
    BY <2>1, <2>2, Nulls DEF Job, NoJob
  <2> HIDE DEF new
  <2> QED
    BY <1>1, <2>2, <2>3, <2>4
<1>4. ASSUME NEW d \in job[j].todo, SkipNext(j, d)
      PROVE  Keeps
  <2> DEFINE reason == SkipReason(d)
             tally == Skipped(job[j].tally, reason)
             results == [job[j].results EXCEPT ![d.id] = reason]
             new == [job[j] EXCEPT !.todo = job[j].todo \ {d}, !.tally = tally, !.results = results]
  <2>1. reason \in Outcome
    BY <1>0, SkipReasonTyped
  <2>2. job' = [job EXCEPT ![j] = new] /\ UNCHANGED cache /\ job[j].pc = "next"
    BY <1>0, <1>4 DEF SkipNext, IsNext, JobsOK, Job
  <2> HIDE DEF reason
  <2>3. tally \in Tally
    BY <1>0, SkippedTyped DEF Job
  <2>4. results \in [Endpoint -> Outcome]
    BY <1>0, <2>1 DEF Job
  <2> HIDE DEF tally, results
  <2>5. new \in Job /\ new.pc = job[j].pc /\ new.todo = job[j].todo \ {d}
    BY <1>0, <2>3, <2>4 DEF Job
  <2> HIDE DEF new
  <2> QED
    BY <1>0, <1>1, <2>2, <2>5
<1>5. ASSUME NEW d \in job[j].todo, AttemptNext(j, d)
      PROVE  Keeps
  <2> DEFINE tally == [job[j].tally EXCEPT !.attempted = job[j].tally.attempted + 1]
             new == [job[j] EXCEPT !.pc = "resolve", !.todo = job[j].todo \ {d}, !.row = d,
                                   !.tally = tally]
  <2>1. tally \in Tally
    BY <1>0 DEF Job, Tally
  <2>2. job' = [job EXCEPT ![j] = new] /\ UNCHANGED cache
    BY <1>0, <1>5 DEF AttemptNext, JobsOK, Job, Tally
  <2> HIDE DEF tally
  <2>3. new \in Job /\ new.row = d /\ new.todo = job[j].todo \ {d}
    BY <1>0, <2>1 DEF Job
  <2> HIDE DEF new
  <2> QED
    BY <1>0, <1>1, <2>2, <2>3
<1>6. ASSUME NEW available \in BOOLEAN, Answer(j, available),
             job[j].pc \in {"tokens", "login", "pages"}
      PROVE  Keeps
  <2> DEFINE new == [job[j] EXCEPT !.pc = "store", !.available = available]
  <2>1. new \in Job /\ new.row = job[j].row /\ new.todo = job[j].todo
    BY <1>0 DEF Job
  <2>2. job' = [job EXCEPT ![j] = new] /\ UNCHANGED cache
    BY <1>0, <1>6 DEF Answer, JobsOK, Job
  <2>3. job[j].row.id \in Endpoint
    BY <1>6 DEF JobRows
  <2> HIDE DEF new
  <2> QED
    BY <1>0, <1>1, <2>1, <2>2, <2>3
<1>7. ASSUME Resolve(j)
      PROVE  Keeps
  <2> DEFINE cred == CredentialOf(j)
             pc == IF cred.flow = "v3" THEN "login" ELSE "tokens"
             new == [job[j] EXCEPT !.cred = cred, !.pc = pc]
  <2>1. job[j].row.id \in Endpoint
    BY <1>7 DEF Resolve, JobRows
  <2>2. cred \in Credential
    BY <2>1, CredentialTyped
  <2>3. job' = [job EXCEPT ![j] = new] /\ UNCHANGED cache
    BY <1>7 DEF Resolve
  <2>4. pc \in {"login", "tokens"}
    OBVIOUS
  <2> HIDE DEF cred, pc
  <2>5. new \in Job /\ new.row = job[j].row /\ new.todo = job[j].todo
    BY <1>0, <2>2, <2>4 DEF Job
  <2> HIDE DEF new
  <2> QED
    BY <1>0, <1>1, <2>1, <2>3, <2>5
<1>8. ASSUME ResolveNothing(j)
      PROVE  Keeps
  <2> DEFINE cred == [NoCredential EXCEPT !.of = job[j].row.of]
             new == [job[j] EXCEPT !.pc = "store", !.available = FALSE, !.cred = cred]
  <2>1. cred \in Credential
    BY <1>0, Nulls DEF Job, Display, Credential
  <2>2. job' = [job EXCEPT ![j] = new] /\ UNCHANGED cache
    BY <1>8 DEF ResolveNothing
  <2>3. job[j].row.id \in Endpoint
    BY <1>8 DEF ResolveNothing, JobRows
  <2> HIDE DEF cred
  <2>4. new \in Job /\ new.row = job[j].row /\ new.todo = job[j].todo
    BY <1>0, <2>1 DEF Job
  <2> HIDE DEF new
  <2> QED
    BY <1>0, <1>1, <2>2, <2>3, <2>4
<1>9. ASSUME NEW n \in Accounts, NEW declared \in BOOLEAN, Login(j, n, declared)
      PROVE  Keeps
  <2> DEFINE new == [job[j] EXCEPT !.pc = "pages", !.page = 1, !.accounts = n, !.declared = declared]
  <2>1. n \in Nat /\ 1 \in 0..MaxPages
    BY QuotaAssumption DEF QuotaAssumption
  <2>2. new \in Job /\ new.row = job[j].row /\ new.todo = job[j].todo
    BY <1>0, <2>1 DEF Job
  <2>3. job' = [job EXCEPT ![j] = new] /\ UNCHANGED cache
    BY <1>9 DEF Login
  <2>4. job[j].row.id \in Endpoint
    BY <1>9 DEF Login, JobRows
  <2> HIDE DEF new
  <2> QED
    BY <1>0, <1>1, <2>2, <2>3, <2>4
<1>10. ASSUME FetchPage(j)
       PROVE  Keeps
  <2> DEFINE fetched == job[j].fetched + OnPage(j)
             complete == Complete(j, fetched)
             last == [job[j] EXCEPT !.pc = "store", !.fetched = fetched, !.available = complete]
             more == [job[j] EXCEPT !.page = job[j].page + 1, !.fetched = fetched]
  <2>1. fetched \in Nat
    BY <1>0, OnPageTyped DEF Job
  <2>2. complete \in BOOLEAN
    BY DEF Complete
  <2>3. job' = [job EXCEPT ![j] = IF LastPage(j) THEN last ELSE more] /\ UNCHANGED cache
    BY <1>0, <1>10 DEF FetchPage, JobsOK, Job
  <2>4. job[j].row.id \in Endpoint
    BY <1>10 DEF FetchPage, JobRows
  <2>5. ~LastPage(j) => job[j].page + 1 \in 0..MaxPages
    BY <1>0, QuotaAssumption DEF LastPage, Job, QuotaAssumption
  <2> HIDE DEF fetched, complete
  <2>6. last \in Job /\ last.row = job[j].row /\ last.todo = job[j].todo
    BY <1>0, <2>1, <2>2 DEF Job
  <2>7. ~LastPage(j) => more \in Job /\ more.row = job[j].row /\ more.todo = job[j].todo
    BY <1>0, <2>1, <2>5 DEF Job
  <2> HIDE DEF last, more
  <2> QED
    BY <1>0, <1>1, <2>3, <2>4, <2>6, <2>7
<1>11. ASSUME Store(j)
       PROVE  Keeps
  <2> DEFINE tally == IF job[j].available
                        THEN [job[j].tally EXCEPT !.succeeded = job[j].tally.succeeded + 1]
                        ELSE [job[j].tally EXCEPT !.failed = job[j].tally.failed + 1]
             outcome == IF job[j].available THEN "available" ELSE "unavailable"
             results == [job[j].results EXCEPT ![job[j].row.id] = outcome]
             one == [NoJob EXCEPT !.pc = "done"]
             all == [NoJob EXCEPT !.pc = "next", !.all = TRUE, !.listed = job[j].listed,
                       !.todo = job[j].todo, !.tally = tally, !.results = results]
             snapshot == [of |-> job[j].cred.of, available |-> job[j].available]
  <2>1. job[j].row.id \in Endpoint
    BY <1>11 DEF Store, JobRows
  <2>2. tally \in Tally
    BY <1>0 DEF Job, Tally
  <2>3. results \in [Endpoint -> Outcome]
    BY <1>0, <2>1 DEF Job, Outcome
  <2>4. snapshot \in Snapshot
    BY <1>0 DEF Job, Credential, Snapshot
  <2>5. cache' = [cache EXCEPT ![job[j].row.id] = snapshot]
    BY <1>11 DEF Store
  <2>6. job' = [job EXCEPT ![j] = IF ~job[j].all THEN one ELSE all]
    BY <1>11 DEF Store
  <2> HIDE DEF tally, results, snapshot
  <2>7. one \in Job /\ one.pc = "done" /\ one.todo = {}
    BY Nulls DEF Job, NoJob
  <2>8. all \in Job /\ all.pc = "next" /\ all.todo = job[j].todo
    BY <1>0, <2>2, <2>3, Nulls DEF Job, NoJob
  <2> HIDE DEF one, all
  <2>9. cache' \in [Endpoint -> Snapshot]
    BY <2>4, <2>5
  <2>10. JobsOK'
    BY <2>6, <2>7, <2>8, JobTyped
  <2>11. JobRows'
    BY <1>0, <2>6, <2>7, <2>8 DEF JobRows, JobsOK
  <2> QED
    BY <2>9, <2>10, <2>11
<1>12. ASSUME StoreFails(j)
       PROVE  Keeps
  <2> DEFINE new == [NoJob EXCEPT !.pc = "failed"]
  <2>1. new \in Job /\ new.pc = "failed" /\ new.todo = {}
    BY Nulls DEF Job, NoJob
  <2>2. job' = [job EXCEPT ![j] = new] /\ UNCHANGED cache
    BY <1>12 DEF StoreFails
  <2> HIDE DEF new
  <2> QED
    BY <1>1, <2>1, <2>2
<1>13. ASSUME Finish(j)
       PROVE  Keeps
  <2> DEFINE new == [job[j] EXCEPT !.pc = "done"]
  <2>1. new \in Job /\ new.pc = "done" /\ new.todo = job[j].todo
    BY <1>0 DEF Job
  <2>2. job' = [job EXCEPT ![j] = new] /\ UNCHANGED cache
    BY <1>13 DEF Finish
  <2> HIDE DEF new
  <2> QED
    BY <1>0, <1>1, <2>1, <2>2
<1>14. FetchTokens(j) => Keeps
  BY <1>6 DEF FetchTokens
<1>15. LoginFails(j) \/ PageFails(j) => Keeps
  BY <1>6 DEF LoginFails, PageFails
<1> QED
  BY <1>2, <1>3, <1>4, <1>5, <1>7, <1>8, <1>9, <1>10, <1>11, <1>12, <1>13, <1>14, <1>15
     DEF Refresh, Progress

TypeInv ==
  /\ RowsOK /\ EditsOK /\ JobsOK /\ JobRows
  /\ cache \in [Endpoint -> Snapshot]

LEMMA TypeInit == Init => TypeInv
<1> SUFFICES ASSUME Init PROVE TypeInv
  OBVIOUS
<1>1. rows \in [Endpoint -> Row]
  <2>1. \A e \in Endpoint : [NoRow EXCEPT !.exists = TRUE, !.born = e] \in Row
    BY Nulls, EndpointInRange DEF NoRow, Row
  <2> QED
    BY <2>1, Nulls DEF Init
<1>2. RowsOK
  <2>1. lastEndpoint = InitialEndpoints /\ inserted = InitialEndpoints /\ edits = 0
    BY Zenon DEF Init
  <2> QED
    BY <1>1, <2>1, QuotaAssumption DEF RowsOK, QuotaAssumption
<1>3. EditsOK
  BY Nulls DEF Init, EditsOK, NoEdit
<1>4. JobsOK /\ JobRows
  BY Nulls DEF Init, JobsOK, JobRows, NoJob
<1>5. cache \in [Endpoint -> Snapshot]
  BY Nulls DEF Init
<1> QED
  BY <1>2, <1>3, <1>4, <1>5 DEF TypeInv

\* Rows and edits are changed by operators, jobs and the cache by refreshes.
LEMMA Frames ==
  /\ (EditRows \/ \E a \in Editors : EditQuota(a)) => UNCHANGED <<cache, job>>
  /\ \A j \in Refreshers : Refresh(j) => UNCHANGED <<lastEndpoint, inserted, rows, edit, edits>>
<1>1. EditRows => UNCHANGED <<cache, job>>
  BY DEF EditRows, AddEndpointWithQuota, DeleteEndpoint, RoutingChange
<1>2. ASSUME NEW a \in Editors, EditQuota(a)
      PROVE  UNCHANGED <<cache, job>>
  BY <1>2 DEF EditQuota, BeginUpdate, FinishUpdate, BeginRotate, FinishRotate, AbandonEdit
<1>3. ASSUME NEW j \in Refreshers, Refresh(j)
      PROVE  UNCHANGED <<lastEndpoint, inserted, rows, edit, edits>>
  BY <1>3 DEF Refresh, Progress, RefreshKey, RefreshAllKeys, SkipNext, AttemptNext, Answer, Resolve,
              ResolveNothing, FetchTokens, LoginFails, Login, PageFails, FetchPage, Store,
              StoreFails, Finish
<1> QED
  BY <1>1, <1>2, <1>3

LEMMA TypeStep == TypeInv /\ [Next]_vars => TypeInv'
<1> SUFFICES ASSUME TypeInv, [Next]_vars PROVE TypeInv'
  OBVIOUS
<1>1. CASE EditRows \/ \E a \in Editors : EditQuota(a)
  BY <1>1, RowActionsTyped, Frames DEF TypeInv, JobsOK, JobRows
<1>2. ASSUME NEW j \in Refreshers, Refresh(j)
      PROVE  TypeInv'
  <2>1. RowsOK' /\ EditsOK'
    BY <1>2, Frames DEF TypeInv, RowsOK, EditsOK
  <2> QED
    BY <1>2, <2>1, RefreshTyped DEF TypeInv
<1>3. CASE UNCHANGED vars
  BY <1>3 DEF vars, TypeInv, RowsOK, EditsOK, JobsOK, JobRows
<1> QED
  BY <1>1, <1>2, <1>3 DEF Next

LEMMA TypeAlways == Spec => []TypeInv
BY TypeInit, TypeStep, PTL DEF Spec

\* The state of rows, edits, refreshes and snapshots keeps its types.
THEOREM TypeCorrect == Spec => []TypeOK
<1>1. TypeInv => TypeOK
  BY DEF TypeInv, TypeOK, RowsOK, EditsOK, JobsOK
<1> QED
  BY <1>1, TypeAlways, PTL

----------------------------------------------------------------------------
(* Snapshots of a row's own. Ids are not reused, so what is stored by id is   *)
(* stored for the row that was asked about, or for none.                       *)

RowsNumbered ==
  /\ inserted = lastEndpoint
  /\ \A e \in Endpoint :
       IF rows[e].exists THEN rows[e].born = e /\ e <= lastEndpoint ELSE rows[e] = NoRow

AsksOwn(x) ==
  /\ \A d \in x.todo : d.of = d.id
  /\ x.pc \in {"resolve", "login", "tokens", "pages", "store"} => x.row.of = x.row.id
  /\ x.pc \in {"login", "tokens", "pages", "store"} => x.cred.of = x.row.id

OwnInv ==
  /\ RowsNumbered
  /\ \A j \in Refreshers : AsksOwn(job[j])
  /\ \A e \in Endpoint : cache[e].of \in {0, e}

LEMMA OwnInit == Init => OwnInv
<1> SUFFICES ASSUME Init PROVE OwnInv
  OBVIOUS
<1>1. RowsNumbered
  <2>1. ASSUME NEW e \in Endpoint
        PROVE  IF rows[e].exists THEN rows[e].born = e /\ e <= lastEndpoint ELSE rows[e] = NoRow
    <3> DEFINE there == [NoRow EXCEPT !.exists = TRUE, !.born = e]
    <3>1. rows[e] = IF e > InitialEndpoints THEN NoRow ELSE there
      BY DEF Init
    <3>2. there.exists = TRUE /\ there.born = e /\ NoRow.exists = FALSE
      BY DEF NoRow
    <3> HIDE DEF there
    <3>3. CASE e > InitialEndpoints
      BY <3>1, <3>2, <3>3
    <3>4. CASE ~(e > InitialEndpoints)
      <4>1. lastEndpoint = InitialEndpoints
        BY Zenon DEF Init
      <4>2. e <= lastEndpoint
        BY <3>4, <4>1, QuotaAssumption DEF QuotaAssumption, Endpoint
      <4> QED
        BY <3>1, <3>2, <3>4, <4>2
    <3> QED
      BY <3>3, <3>4
  <2>2. inserted = lastEndpoint
    BY Zenon DEF Init
  <2> QED
    BY <2>1, <2>2 DEF RowsNumbered
<1>2. AsksOwn(NoJob)
  BY DEF AsksOwn, NoJob
<1>3. \A e \in Endpoint : cache[e].of = 0
  BY DEF Init, NoSnapshot
<1> QED
  BY <1>1, <1>2, <1>3 DEF OwnInv, Init

LEMMA RowsNumberedStep ==
  ASSUME TypeInv, RowsNumbered, EditRows \/ \E a \in Editors : EditQuota(a)
  PROVE  RowsNumbered'
<1> USE DEF RowsNumbered, TypeInv, RowsOK
<1>1. ASSUME NEW mode \in Mode, NEW flow \in Flow, AddEndpointWithQuota(mode, flow)
      PROVE  RowsNumbered'
  <2>1. /\ lastEndpoint' = lastEndpoint + 1 /\ inserted' = inserted + 1
        /\ lastEndpoint + 1 \in Endpoint
    BY <1>1, Zenon DEF AddEndpointWithQuota, NewId
  <2>2. PICK row : /\ row.exists = TRUE /\ row.born = inserted + 1
                   /\ rows' = [rows EXCEPT ![lastEndpoint + 1] = row]
    <3> DEFINE row == [exists |-> TRUE, born |-> inserted + 1, skip |-> "", mode |-> mode,
                       flow |-> flow, key |-> IF mode = "separate_credentials" THEN flow ELSE "none",
                       shown |-> mode = "separate_credentials" /\ Identified(flow),
                     crossed |-> FALSE]
    <3>1. rows' = [rows EXCEPT ![lastEndpoint + 1] = row]
      BY <1>1, Zenon DEF AddEndpointWithQuota, NewId
    <3>2. row.exists = TRUE /\ row.born = inserted + 1
      BY Zenon
    <3> QED
      BY <3>1, <3>2, Zenon
  <2>3. ASSUME NEW e \in Endpoint
        PROVE  IF rows'[e].exists THEN rows'[e].born = e /\ e <= lastEndpoint' ELSE rows'[e] = NoRow
    <3>1. CASE e = lastEndpoint + 1
      BY <2>1, <2>2, <3>1
    <3>2. CASE e # lastEndpoint + 1
      <4>1. rows'[e] = rows[e]
        BY <2>1, <2>2, <3>2
      <4> QED
        BY <2>1, <4>1 DEF Endpoint
    <3> QED
      BY <3>1, <3>2
  <2> QED
    BY <2>1, <2>3
<1>2. ASSUME NEW e \in Endpoint, DeleteEndpoint(e)
      PROVE  RowsNumbered'
  BY <1>2 DEF DeleteEndpoint, NoRow
<1>3. ASSUME NEW e \in Endpoint, NEW skip \in Skip, RoutingChange(e, skip)
      PROVE  RowsNumbered'
  BY <1>3 DEF RoutingChange, Row
<1>4. ASSUME NEW a \in Editors, FinishUpdate(a)
      PROVE  RowsNumbered'
  BY <1>4 DEF FinishUpdate, EditsOK, Updated, Row
<1>5. ASSUME NEW a \in Editors, FinishRotate(a)
      PROVE  RowsNumbered'
  BY <1>5 DEF FinishRotate, EditsOK, Row
<1>6. ASSUME UNCHANGED <<lastEndpoint, inserted, rows>>
      PROVE  RowsNumbered'
  BY <1>6
<1> QED
  BY <1>1, <1>2, <1>3, <1>4, <1>5, <1>6 DEF EditRows, EditQuota, BeginUpdate, BeginRotate, AbandonEdit

LEMMA RefreshOwn ==
  ASSUME TypeInv, OwnInv, NEW j \in Refreshers, Refresh(j)
  PROVE  /\ \A k \in Refreshers : AsksOwn(job'[k])
         /\ \A e \in Endpoint : cache'[e].of \in {0, e}
<1> DEFINE Keeps == /\ \A k \in Refreshers : AsksOwn(job'[k])
                    /\ \A e \in Endpoint : cache'[e].of \in {0, e}
<1>0. job[j] \in Job /\ AsksOwn(job[j])
  BY DEF TypeInv, JobsOK, OwnInv
<1>a. ASSUME NEW e \in Endpoint, rows[e].exists
      PROVE  DisplayOf(e).of = DisplayOf(e).id
  BY <1>a DEF OwnInv, RowsNumbered, DisplayOf
<1>1. ASSUME NEW new, job' = [job EXCEPT ![j] = new], AsksOwn(new), UNCHANGED cache
      PROVE  Keeps
  BY <1>1 DEF OwnInv, TypeInv, JobsOK
<1>2. ASSUME NEW e \in Endpoint, RefreshKey(j, e)
      PROVE  Keeps
  <2> DEFINE new == [NoJob EXCEPT !.pc = "resolve", !.row = DisplayOf(e)]
  <2>1. new.pc = "resolve" /\ new.row = DisplayOf(e) /\ new.todo = {}
    BY DEF NoJob
  <2>2. job' = [job EXCEPT ![j] = new] /\ UNCHANGED cache /\ rows[e].exists
    BY <1>2 DEF RefreshKey
  <2> HIDE DEF new
  <2> QED
    BY <1>a, <1>1, <2>1, <2>2 DEF AsksOwn
<1>3. ASSUME RefreshAllKeys(j)
      PROVE  Keeps
  <2> DEFINE ids == {e \in Endpoint : rows[e].exists}
             listing == {DisplayOf(e) : e \in ids}
             new == [NoJob EXCEPT !.pc = "next", !.all = TRUE, !.listed = ids, !.todo = listing]
  <2>1. \A d \in listing : d.of = d.id
    BY <1>a
  <2>2. job' = [job EXCEPT ![j] = new] /\ UNCHANGED cache
    BY <1>3 DEF RefreshAllKeys
  <2> HIDE DEF ids, listing
  <2>3. new.pc = "next" /\ new.todo = listing
    BY DEF NoJob
  <2> HIDE DEF new
  <2> QED
    BY <1>1, <2>1, <2>2, <2>3 DEF AsksOwn
<1>4. ASSUME NEW d \in job[j].todo, SkipNext(j, d)
      PROVE  Keeps
  <2>1. PICK new : /\ new.pc = "next" /\ new.todo = job[j].todo \ {d}
                   /\ job' = [job EXCEPT ![j] = new] /\ UNCHANGED cache
    <3> DEFINE new == [job[j] EXCEPT !.todo = job[j].todo \ {d},
                                     !.tally = Skipped(job[j].tally, SkipReason(d)),
                                     !.results = [job[j].results EXCEPT ![d.id] = SkipReason(d)]]
    <3>1. job' = [job EXCEPT ![j] = new] /\ UNCHANGED cache /\ job[j].pc = "next"
      BY <1>0, <1>4 DEF SkipNext, IsNext, TypeInv, JobsOK, Job
    <3>2. new.pc = job[j].pc /\ new.todo = job[j].todo \ {d}
      BY <1>0 DEF Job
    <3> QED
      BY <3>1, <3>2
  <2> QED
    BY <1>0, <1>1, <2>1 DEF AsksOwn
<1>5. ASSUME NEW d \in job[j].todo, AttemptNext(j, d)
      PROVE  Keeps
  <2> DEFINE tally == [job[j].tally EXCEPT !.attempted = job[j].tally.attempted + 1]
             new == [job[j] EXCEPT !.pc = "resolve", !.todo = job[j].todo \ {d}, !.row = d,
                                   !.tally = tally]
  <2>1. job' = [job EXCEPT ![j] = new] /\ UNCHANGED cache
    BY <1>0, <1>5 DEF AttemptNext, TypeInv, JobsOK, Job, Tally
  <2> HIDE DEF tally
  <2>2. new.pc = "resolve" /\ new.row = d /\ new.todo = job[j].todo \ {d}
    BY <1>0 DEF Job
  <2> HIDE DEF new
  <2> QED
    BY <1>0, <1>1, <2>1, <2>2 DEF AsksOwn
<1>6. ASSUME NEW available \in BOOLEAN, Answer(j, available),
             job[j].pc \in {"tokens", "login", "pages"}
      PROVE  Keeps
  <2> DEFINE new == [job[j] EXCEPT !.pc = "store", !.available = available]
  <2>1. new.pc = "store" /\ new.row = job[j].row /\ new.todo = job[j].todo /\ new.cred = job[j].cred
    BY <1>0 DEF Job
  <2>2. job' = [job EXCEPT ![j] = new] /\ UNCHANGED cache
    BY <1>0, <1>6 DEF Answer, TypeInv, JobsOK, Job
  <2> HIDE DEF new
  <2> QED
    BY <1>0, <1>1, <1>6, <2>1, <2>2 DEF AsksOwn
<1>7. ASSUME Resolve(j)
      PROVE  Keeps
  <2> DEFINE cred == CredentialOf(j)
             pc == IF cred.flow = "v3" THEN "login" ELSE "tokens"
             new == [job[j] EXCEPT !.cred = cred, !.pc = pc]
  <2>1. job[j].pc = "resolve" /\ job[j].row.id \in Endpoint /\ rows[job[j].row.id].exists
    BY <1>7 DEF Resolve, Resolvable, TypeInv, JobRows
  <2>2. cred.of = job[j].row.id
    BY <2>1 DEF CredentialOf, OwnInv, RowsNumbered
  <2>3. job' = [job EXCEPT ![j] = new] /\ UNCHANGED cache
    BY <1>7 DEF Resolve
  <2> HIDE DEF cred, pc
  <2>4. new.pc = pc /\ new.row = job[j].row /\ new.todo = job[j].todo /\ new.cred = cred
    BY <1>0 DEF Job
  <2> HIDE DEF new
  <2> QED
    BY <1>0, <1>1, <2>1, <2>2, <2>3, <2>4 DEF AsksOwn
<1>8. ASSUME ResolveNothing(j)
      PROVE  Keeps
  <2> DEFINE cred == [NoCredential EXCEPT !.of = job[j].row.of]
             new == [job[j] EXCEPT !.pc = "store", !.available = FALSE, !.cred = cred]
  <2>1. cred.of = job[j].row.of
    BY DEF NoCredential
  <2>2. job' = [job EXCEPT ![j] = new] /\ UNCHANGED cache /\ job[j].pc = "resolve"
    BY <1>8 DEF ResolveNothing
  <2> HIDE DEF cred
  <2>3. new.row = job[j].row /\ new.todo = job[j].todo /\ new.cred = cred
    BY <1>0 DEF Job
  <2> HIDE DEF new
  <2> QED
    BY <1>0, <1>1, <2>1, <2>2, <2>3 DEF AsksOwn
<1>9. ASSUME NEW n \in Accounts, NEW declared \in BOOLEAN, Login(j, n, declared)
      PROVE  Keeps
  <2> DEFINE new == [job[j] EXCEPT !.pc = "pages", !.page = 1, !.accounts = n, !.declared = declared]
  <2>1. new.row = job[j].row /\ new.todo = job[j].todo /\ new.cred = job[j].cred
    BY <1>0 DEF Job
  <2>2. job' = [job EXCEPT ![j] = new] /\ UNCHANGED cache /\ job[j].pc = "login"
    BY <1>9 DEF Login
  <2> HIDE DEF new
  <2> QED
    BY <1>0, <1>1, <2>1, <2>2 DEF AsksOwn
<1>10. ASSUME FetchPage(j)
       PROVE  Keeps
  <2>1. PICK new : /\ new.row = job[j].row /\ new.todo = job[j].todo /\ new.cred = job[j].cred
                   /\ job' = [job EXCEPT ![j] = new] /\ UNCHANGED cache
    <3> DEFINE fetched == job[j].fetched + OnPage(j)
               complete == Complete(j, fetched)
               last == [job[j] EXCEPT !.pc = "store", !.fetched = fetched, !.available = complete]
               more == [job[j] EXCEPT !.page = job[j].page + 1, !.fetched = fetched]
    <3>1. job' = [job EXCEPT ![j] = IF LastPage(j) THEN last ELSE more] /\ UNCHANGED cache
      BY <1>10 DEF FetchPage
    <3> HIDE DEF fetched, complete
    <3>2. last.row = job[j].row /\ last.todo = job[j].todo /\ last.cred = job[j].cred
      BY <1>0 DEF Job
    <3>3. more.row = job[j].row /\ more.todo = job[j].todo /\ more.cred = job[j].cred
      BY <1>0 DEF Job
    <3> HIDE DEF last, more
    <3> QED
      BY <3>1, <3>2, <3>3
  <2>2. job[j].pc = "pages"
    BY <1>10 DEF FetchPage
  <2> QED
    BY <1>0, <1>1, <2>1, <2>2 DEF AsksOwn
<1>11. ASSUME Store(j)
       PROVE  Keeps
  <2> DEFINE id == job[j].row.id
             snapshot == [of |-> job[j].cred.of, available |-> job[j].available]
  <2>1. job[j].pc = "store" /\ cache' = [cache EXCEPT ![id] = snapshot]
    BY <1>11 DEF Store
  <2>2. snapshot.of = id
    BY <1>0, <2>1 DEF AsksOwn
  <2> HIDE DEF snapshot
  <2>3. \A e \in Endpoint : cache'[e].of \in {0, e}
    BY <2>1, <2>2 DEF OwnInv, TypeInv
  <2>4. PICK new : /\ new.pc \in {"done", "next"} /\ (new.todo = {} \/ new.todo = job[j].todo)
                   /\ job' = [job EXCEPT ![j] = new]
    <3> DEFINE one == [NoJob EXCEPT !.pc = "done"]
               tally == IF job[j].available
                          THEN [job[j].tally EXCEPT !.succeeded = job[j].tally.succeeded + 1]
                          ELSE [job[j].tally EXCEPT !.failed = job[j].tally.failed + 1]
               results == [job[j].results EXCEPT ![job[j].row.id] =
                             IF job[j].available THEN "available" ELSE "unavailable"]
               all == [NoJob EXCEPT !.pc = "next", !.all = TRUE, !.listed = job[j].listed,
                         !.todo = job[j].todo, !.tally = tally, !.results = results]
    <3>1. job' = [job EXCEPT ![j] = IF ~job[j].all THEN one ELSE all]
      BY <1>11 DEF Store
    <3> HIDE DEF tally, results
    <3>2. one.pc = "done" /\ one.todo = {} /\ all.pc = "next" /\ all.todo = job[j].todo
      BY DEF NoJob
    <3> HIDE DEF one, all
    <3> QED
      BY <3>1, <3>2
  <2>5. AsksOwn(new)
    BY <1>0, <2>4 DEF AsksOwn
  <2> QED
    BY <2>3, <2>4, <2>5 DEF OwnInv, TypeInv, JobsOK
<1>12. ASSUME StoreFails(j)
       PROVE  Keeps
  <2>1. PICK new : /\ new.pc = "failed" /\ new.todo = {}
                   /\ job' = [job EXCEPT ![j] = new] /\ UNCHANGED cache
    BY <1>12 DEF StoreFails, NoJob
  <2> QED
    BY <1>1, <2>1 DEF AsksOwn
<1>13. ASSUME Finish(j)
       PROVE  Keeps
  <2> DEFINE new == [job[j] EXCEPT !.pc = "done"]
  <2>1. new.pc = "done" /\ new.todo = job[j].todo
    BY <1>0 DEF Job
  <2>2. job' = [job EXCEPT ![j] = new] /\ UNCHANGED cache
    BY <1>13 DEF Finish
  <2> HIDE DEF new
  <2> QED
    BY <1>0, <1>1, <2>1, <2>2 DEF AsksOwn
<1>14. FetchTokens(j) => Keeps
  BY <1>6 DEF FetchTokens
<1>15. LoginFails(j) \/ PageFails(j) => Keeps
  BY <1>6 DEF LoginFails, PageFails
<1> QED
  BY <1>2, <1>3, <1>4, <1>5, <1>7, <1>8, <1>9, <1>10, <1>11, <1>12, <1>13, <1>14, <1>15
     DEF Refresh, Progress

LEMMA OwnStep == TypeInv /\ OwnInv /\ [Next]_vars => OwnInv'
<1> SUFFICES ASSUME TypeInv, OwnInv, [Next]_vars PROVE OwnInv'
  OBVIOUS
<1>1. CASE EditRows \/ \E a \in Editors : EditQuota(a)
  BY <1>1, RowsNumberedStep, Frames DEF OwnInv
<1>2. ASSUME NEW j \in Refreshers, Refresh(j)
      PROVE  OwnInv'
  <2>1. RowsNumbered'
    BY <1>2, Frames DEF OwnInv, RowsNumbered
  <2> QED
    BY <1>2, <2>1, RefreshOwn DEF OwnInv
<1>3. CASE UNCHANGED vars
  BY <1>3 DEF vars, OwnInv, RowsNumbered
<1> QED
  BY <1>1, <1>2, <1>3 DEF Next

LEMMA OwnAlways == Spec => []OwnInv
BY OwnInit, OwnStep, TypeAlways, PTL DEF Spec

\* No row shows a quota that was asked for with another row's credentials, for
\* any number of rows, edits and refreshes at a time (ProviderPool, Upsert).
THEOREM ShownQuotaAlwaysOwn == Spec => []ShownQuotaIsOwn
<1>1. OwnInv => ShownQuotaIsOwn
  BY DEF OwnInv, RowsNumbered, ShownQuotaIsOwn, Shown
<1> QED
  BY <1>1, OwnAlways, PTL

----------------------------------------------------------------------------
(* Editors who cross. What one has read of its row is still true when it       *)
(* writes, unless an update of the row was written in between: nothing else    *)
(* changes flow or mode, and no new row gets the id of one that is deleted.    *)

RowExplained(row) ==
  /\ row.shown => row.key = "admin"
  /\ ~row.crossed =>
       /\ row.key # "none" => row.mode = "separate_credentials" /\ row.key = row.flow
       /\ row.key = "admin" => row.shown
  /\ ValidConfig(row.mode, row.flow)

EditAgrees(q) ==
  q.pc # "idle" =>
    /\ q.id <= lastEndpoint
    /\ q.pc = "update" => ValidConfig(q.mode, q.flow)
    /\ rows[q.id].exists /\ ~q.overtaken =>
         /\ q.current = rows[q.id].flow
         /\ q.pc = "rotate" => rows[q.id].mode = "separate_credentials"

RowsExplained == \A e \in Endpoint : RowExplained(rows[e])
EditsAgree == \A a \in Editors : EditAgrees(edit[a])

LEMMA NoRowExplained == RowExplained(NoRow)
BY DEF RowExplained, NoRow, ValidConfig

LEMMA UpdatedExplained ==
  ASSUME NEW row \in Row, RowExplained(row), NEW q \in Edit,
         ~q.overtaken => q.current = row.flow, ValidConfig(q.mode, q.flow)
  PROVE  RowExplained(Updated(row, q))
<1> DEFINE new == Updated(row, q)
           keep == q.mode = "separate_credentials" /\ ~ClearsCredential(q)
<1>1. /\ new.mode = q.mode /\ new.flow = q.flow
      /\ new.key = (IF keep THEN row.key ELSE "none")
      /\ new.shown <=> row.shown /\ keep /\ Identified(q.flow)
      /\ new.crossed <=> keep /\ (row.crossed \/ q.overtaken)
  BY DEF Updated, Row
<1>2. keep => q.flow = q.current
  BY DEF ClearsCredential
<1>3. Identified(q.flow) <=> q.flow # "v3"
  BY DEF Identified
<1>5. keep => q.mode = "separate_credentials"
  OBVIOUS
<1>6. row.key = "admin" => "admin" # "v3"
  OBVIOUS
<1> HIDE DEF new, keep
<1>7. CASE keep
  <2>1. new.shown => new.key = "admin"
    BY <1>1, <1>7, Zenon DEF RowExplained
  <2>2. ~new.crossed => ~row.crossed /\ q.flow = row.flow
    BY <1>1, <1>2, <1>7
  <2>3. ~new.crossed /\ new.key # "none" => new.mode = "separate_credentials" /\ new.key = new.flow
    BY <1>1, <1>5, <1>7, <2>2 DEF RowExplained
  <2>4. ~new.crossed /\ new.key = "admin" => new.shown
    <3>1. SUFFICES ASSUME ~new.crossed, new.key = "admin" PROVE new.shown
      OBVIOUS
    <3>2. row.key = "admin" /\ ~row.crossed
      BY <1>1, <1>7, <2>2, <3>1
    <3>3. row.shown /\ q.flow = "admin"
      BY <2>2, <3>1, <3>2 DEF RowExplained
    <3> QED
      BY <1>1, <1>3, <1>7, <3>3
  <2> QED
    BY <1>1, <2>1, <2>3, <2>4, Zenon DEF RowExplained, new
<1>8. CASE ~keep
  <2>1. new.key = "none" /\ ~new.shown
    BY <1>1, <1>8, Zenon
  <2>2. new.key # "admin"
    BY <2>1
  <2> QED
    BY <1>1, <2>1, <2>2, Zenon DEF RowExplained, new
<1> QED
  BY <1>7, <1>8

LEMMA RowsExplainedStep ==
  ASSUME TypeInv, OwnInv, RowsExplained, EditsAgree,
         EditRows \/ \E a \in Editors : EditQuota(a)
  PROVE  RowsExplained' /\ EditsAgree'
<1>0. rows \in [Endpoint -> Row] /\ edit \in [Editors -> Edit] /\ lastEndpoint \in Nat
  BY QuotaAssumption DEF TypeInv, RowsOK, EditsOK, QuotaAssumption
<1>a. \A a \in Editors : edit[a].pc # "idle" => edit[a].id \in Endpoint /\ edit[a].id \in Int
  BY DEF TypeInv, EditsOK, Endpoint
<1>b. EditAgrees(NoEdit)'
  BY DEF EditAgrees, NoEdit
<1>d. ASSUME NEW b \in Editors, edit'[b] = edit[b], UNCHANGED lastEndpoint,
             edit[b].pc # "idle" => /\ rows'[edit[b].id].exists = rows[edit[b].id].exists
                                    /\ rows'[edit[b].id].flow = rows[edit[b].id].flow
                                    /\ rows'[edit[b].id].mode = rows[edit[b].id].mode
      PROVE  EditAgrees(edit[b])'
  BY <1>d DEF EditsAgree, EditAgrees, ValidConfig
<1>c. \A e \in Endpoint : rows[e].exists => e <= lastEndpoint
  BY DEF OwnInv, RowsNumbered
<1>1. ASSUME NEW mode \in Mode, NEW flow \in Flow, AddEndpointWithQuota(mode, flow)
      PROVE  RowsExplained' /\ EditsAgree'
  <2> DEFINE separate == mode = "separate_credentials"
             shown == separate /\ Identified(flow)
             row == [exists |-> TRUE, born |-> inserted + 1, skip |-> "", mode |-> mode,
                     flow |-> flow, key |-> IF separate THEN flow ELSE "none", shown |-> shown,
                     crossed |-> FALSE]
  <2>1. /\ rows' = [rows EXCEPT ![lastEndpoint + 1] = row]
        /\ lastEndpoint' = lastEndpoint + 1 /\ lastEndpoint + 1 \in Endpoint
        /\ ValidConfig(mode, flow) /\ edit' = edit
    BY <1>1, Zenon DEF AddEndpointWithQuota, NewId
  <2>2. /\ row.mode = mode /\ row.flow = flow /\ row.shown = shown
        /\ row.key = IF separate THEN flow ELSE "none"
    BY Zenon
  <2>3. shown <=> separate /\ flow # "v3"
    BY DEF Identified
  <2> HIDE DEF row, shown
  <2>4. RowExplained(row)
    BY <2>1, <2>2, <2>3 DEF RowExplained, Flow
  <2>5. RowsExplained'
    BY <1>0, <2>1, <2>4 DEF RowsExplained
  <2>6. ASSUME NEW a \in Editors, edit[a].pc # "idle"
        PROVE  EditAgrees(edit[a])'
    <3>1. EditAgrees(edit[a]) /\ edit[a].id \in Endpoint /\ edit[a].id \in Int
      BY <1>a, <2>6 DEF EditsAgree
    <3>2. edit[a].id <= lastEndpoint
      BY <2>6, <3>1 DEF EditAgrees
    <3>3. rows'[edit[a].id] = rows[edit[a].id]
      BY <1>0, <2>1, <3>1, <3>2
    <3>4. edit[a].id <= lastEndpoint'
      BY <1>0, <2>1, <3>1, <3>2
    <3> QED
      BY <2>1, <3>1, <3>3, <3>4 DEF EditAgrees, ValidConfig
  <2> QED
    BY <2>1, <2>5, <2>6 DEF EditsAgree, EditAgrees
<1>2. ASSUME NEW e \in Endpoint, DeleteEndpoint(e)
      PROVE  RowsExplained' /\ EditsAgree'
  <2>1. rows' = [rows EXCEPT ![e] = NoRow] /\ UNCHANGED <<lastEndpoint, edit>> /\ ~NoRow.exists
    BY <1>2 DEF DeleteEndpoint, NoRow
  <2> QED
    BY <1>0, <1>a, <2>1, NoRowExplained DEF RowsExplained, EditsAgree, EditAgrees, ValidConfig
<1>3. ASSUME NEW e \in Endpoint, NEW skip \in Skip, RoutingChange(e, skip)
      PROVE  RowsExplained' /\ EditsAgree'
  <2>1. /\ rows' \in [Endpoint -> Row] /\ UNCHANGED <<lastEndpoint, edit>>
        /\ \A f \in Endpoint : /\ rows'[f].mode = rows[f].mode /\ rows'[f].flow = rows[f].flow
                               /\ rows'[f].key = rows[f].key /\ rows'[f].shown = rows[f].shown
                               /\ rows'[f].exists = rows[f].exists
                               /\ rows'[f].crossed = rows[f].crossed
    BY <1>0, <1>3 DEF RoutingChange, Row
  <2> QED
    BY <1>a, <2>1 DEF RowsExplained, RowExplained, EditsAgree, EditAgrees, ValidConfig
<1>4. ASSUME NEW a \in Editors, NEW e \in Endpoint, NEW mode \in Mode, NEW flow \in Flow,
             BeginUpdate(a, e, mode, flow)
      PROVE  RowsExplained' /\ EditsAgree'
  <2> DEFINE q == [pc |-> "update", id |-> e, current |-> rows[e].flow, mode |-> mode, flow |-> flow,
                   overtaken |-> FALSE]
  <2>1. /\ rows[e].exists /\ ValidConfig(mode, flow)
        /\ edit' = [edit EXCEPT ![a] = q] /\ UNCHANGED <<rows, lastEndpoint>>
    BY <1>4, Zenon DEF BeginUpdate
  <2>2. q.pc = "update" /\ q.id = e /\ q.current = rows[e].flow /\ q.mode = mode /\ q.flow = flow
    OBVIOUS
  <2> HIDE DEF q
  <2>3. ASSUME NEW x, x.pc = "update", x.id = e, x.current = rows[e].flow, x.mode = mode, x.flow = flow
        PROVE  EditAgrees(x)'
    BY <1>c, <2>1, <2>3 DEF EditAgrees, ValidConfig
  <2>4. edit'[a] = q /\ \A b \in Editors \ {a} : edit'[b] = edit[b]
    BY <1>0, <2>1
  <2>5. EditsAgree'
    <3>1. EditAgrees(edit[a])'
      BY <2>2, <2>3, <2>4
    <3>2. \A b \in Editors \ {a} : EditAgrees(edit[b])'
      BY <1>d, <2>1, <2>4
    <3> QED
      BY <3>1, <3>2 DEF EditsAgree
  <2> QED
    BY <2>1, <2>5 DEF RowsExplained, RowExplained, ValidConfig
<1>5. ASSUME NEW a \in Editors, FinishUpdate(a)
      PROVE  RowsExplained' /\ EditsAgree'
  <2> DEFINE q == edit[a]
  <2>1. /\ q.pc = "update" /\ UNCHANGED lastEndpoint
        /\ edit' = [b \in Editors |-> IF b = a THEN NoEdit ELSE Overtaken(edit[b], q.id)]
        /\ rows' = IF rows[q.id].exists THEN [rows EXCEPT ![q.id] = Updated(rows[q.id], q)] ELSE rows
    BY <1>5, Zenon DEF FinishUpdate
  <2>2. q \in Edit /\ q.id \in Endpoint /\ EditAgrees(q)
    BY <1>0, <1>a, <2>1 DEF EditsAgree
  <2>3. rows[q.id].exists => RowExplained(Updated(rows[q.id], q))
    BY <1>0, <2>1, <2>2, UpdatedExplained DEF RowsExplained, EditAgrees
  <2> HIDE DEF q
  <2>4. RowsExplained'
    BY <1>0, <2>1, <2>2, <2>3 DEF RowsExplained
  <2>5. ASSUME NEW b \in Editors \ {a}
        PROVE  EditAgrees(edit[b])'
    <3> DEFINE overtaken == edit[b].overtaken \/ edit[b].id = q.id
    <3>1. edit[b] \in Edit /\ edit'[b] = Overtaken(edit[b], q.id)
      BY <1>0, <2>1
    <3>2. edit'[b] = [edit[b] EXCEPT !.overtaken = overtaken]
      BY <3>1 DEF Overtaken
    <3>3. /\ edit'[b].pc = edit[b].pc /\ edit'[b].id = edit[b].id /\ edit'[b].mode = edit[b].mode
          /\ edit'[b].flow = edit[b].flow /\ edit'[b].current = edit[b].current
          /\ edit'[b].overtaken <=> edit[b].overtaken \/ edit[b].id = q.id
      BY <3>1, <3>2 DEF Edit
    <3>4. edit[b].pc # "idle" /\ edit[b].id # q.id => rows'[edit[b].id] = rows[edit[b].id]
      BY <1>0, <1>a, <2>1, <2>2
    <3>5. EditAgrees(edit[b])
      BY DEF EditsAgree
    <3> QED
      BY <2>1, <3>3, <3>4, <3>5 DEF EditAgrees, ValidConfig
  <2>6. EditAgrees(edit[a])'
    BY <1>b, <2>1
  <2> QED
    BY <2>4, <2>5, <2>6 DEF EditsAgree
<1>6. ASSUME NEW a \in Editors, NEW e \in Endpoint, BeginRotate(a, e)
      PROVE  RowsExplained' /\ EditsAgree'
  <2> DEFINE q == [NoEdit EXCEPT !.pc = "rotate", !.id = e, !.current = rows[e].flow]
  <2>1. /\ rows[e].exists /\ rows[e].mode = "separate_credentials"
        /\ edit' = [edit EXCEPT ![a] = q] /\ UNCHANGED <<rows, lastEndpoint>>
    BY <1>6, Zenon DEF BeginRotate
  <2>2. q.pc = "rotate" /\ q.id = e /\ q.current = rows[e].flow
    BY DEF NoEdit
  <2> HIDE DEF q
  <2>3. ASSUME NEW x, x.pc = "rotate", x.id = e, x.current = rows[e].flow
        PROVE  EditAgrees(x)'
    BY <1>c, <2>1, <2>3 DEF EditAgrees
  <2>4. edit'[a] = q /\ \A b \in Editors \ {a} : edit'[b] = edit[b]
    BY <1>0, <2>1
  <2>5. EditsAgree'
    <3>1. EditAgrees(edit[a])'
      BY <2>2, <2>3, <2>4
    <3>2. \A b \in Editors \ {a} : EditAgrees(edit[b])'
      BY <1>d, <2>1, <2>4
    <3> QED
      BY <3>1, <3>2 DEF EditsAgree
  <2> QED
    BY <2>1, <2>5 DEF RowsExplained, RowExplained, ValidConfig
<1>7. ASSUME NEW a \in Editors, FinishRotate(a)
      PROVE  RowsExplained' /\ EditsAgree'
  <2> DEFINE q == edit[a]
             shown == Identified(q.current)
             new == [rows[q.id] EXCEPT !.key = q.current, !.shown = shown, !.crossed = q.overtaken]
  <2>1. /\ q.pc = "rotate" /\ edit' = [edit EXCEPT ![a] = NoEdit] /\ UNCHANGED lastEndpoint
        /\ rows[q.id].exists => rows' = [rows EXCEPT ![q.id].key = q.current, ![q.id].shown = shown,
                                                     ![q.id].crossed = q.overtaken]
        /\ ~rows[q.id].exists => rows' = rows
    BY <1>7 DEF FinishRotate
  <2>2. q \in Edit /\ q.id \in Endpoint /\ EditAgrees(q) /\ rows[q.id] \in Row
    BY <1>0, <1>a, <2>1 DEF EditsAgree
  <2>3. shown <=> q.current # "v3"
    BY DEF Identified
  <2> HIDE DEF shown
  <2>4. rows[q.id].exists => rows' = [rows EXCEPT ![q.id] = new]
    BY <1>0, <2>1, <2>2 DEF Row
  <2>5. /\ new.mode = rows[q.id].mode /\ new.flow = rows[q.id].flow /\ new.exists = rows[q.id].exists
        /\ new.key = q.current /\ new.shown = shown /\ new.crossed = q.overtaken
    BY <2>2 DEF Row
  <2> HIDE DEF new
  <2>6. rows[q.id].exists /\ ~q.overtaken =>
          q.current = rows[q.id].flow /\ rows[q.id].mode = "separate_credentials"
    BY <2>1, <2>2 DEF EditAgrees
  <2>7. q.current \in Flow /\ RowExplained(rows[q.id])
    BY <2>2 DEF Edit, RowsExplained
  <2>8. rows[q.id].exists => RowExplained(new)
    BY <2>3, <2>5, <2>6, <2>7 DEF RowExplained, Flow
  <2>9. RowsExplained'
    BY <1>0, <2>1, <2>2, <2>4, <2>8 DEF RowsExplained
  <2>10. ASSUME NEW b \in Editors \ {a}
         PROVE  EditAgrees(edit[b])'
    <3>1. edit'[b] = edit[b]
      BY <1>0, <2>1
    <3>2. \A e \in Endpoint : /\ rows'[e].exists = rows[e].exists /\ rows'[e].flow = rows[e].flow
                              /\ rows'[e].mode = rows[e].mode
      BY <1>0, <2>1, <2>2, <2>4, <2>5
    <3> QED
      BY <1>a, <1>d, <2>1, <3>1, <3>2
  <2>11. EditAgrees(edit[a])'
    BY <1>0, <1>b, <2>1
  <2> QED
    BY <2>9, <2>10, <2>11 DEF EditsAgree
<1>8. ASSUME NEW a \in Editors, AbandonEdit(a)
      PROVE  RowsExplained' /\ EditsAgree'
  <2>1. edit' = [edit EXCEPT ![a] = NoEdit] /\ UNCHANGED <<lastEndpoint, rows>>
    BY <1>8 DEF AbandonEdit
  <2>2. EditAgrees(edit[a])'
    BY <1>0, <1>b, <2>1
  <2>3. \A b \in Editors \ {a} : EditAgrees(edit[b])'
    BY <1>0, <1>d, <2>1
  <2> QED
    BY <2>1, <2>2, <2>3 DEF EditsAgree, RowsExplained, RowExplained, ValidConfig
<1> QED
  BY <1>1, <1>2, <1>3, <1>4, <1>5, <1>6, <1>7, <1>8 DEF EditRows, EditQuota

\* Of a refresh's steps only Resolve takes up credentials.
LEMMA RefreshFits ==
  ASSUME TypeInv, RowsExplained, CredentialExplained, NEW j \in Refreshers, Refresh(j)
  PROVE  CredentialExplained'
<1> DEFINE Asking == {"login", "tokens", "pages"}
           Fits(x) == x.pc \in Asking =>
                        \/ x.cred.key = "inference" /\ x.cred.flow # "v3"
                        \/ x.cred.key = x.cred.flow
                        \/ x.cred.key \in Flow /\ x.cred.crossed
<1>0. job \in [Refreshers -> Job] /\ \A k \in Refreshers : Fits(job[k])
  BY DEF TypeInv, JobsOK, CredentialExplained
<1>1. \A k \in Refreshers \ {j} : job'[k] = job[k]
  BY <1>0 DEF Refresh, Progress, RefreshKey, RefreshAllKeys, SkipNext, AttemptNext, Answer, Resolve,
              ResolveNothing, FetchTokens, LoginFails, Login, PageFails, FetchPage, Store,
              StoreFails, Finish
<1>2. Resolve(j) => Fits(job'[j])
  <2> SUFFICES ASSUME Resolve(j) PROVE Fits(job'[j])
    OBVIOUS
  <2> DEFINE r == rows[job[j].row.id]
             cred == CredentialOf(j)
  <2>1. job[j].row.id \in Endpoint /\ r.mode # "disabled"
        /\ (r.mode = "separate_credentials" => r.key # "none")
    BY DEF TypeInv, JobRows, Resolve, Resolvable
  <2>2. r \in Row /\ RowExplained(r)
    BY <2>1 DEF TypeInv, RowsOK, RowsExplained
  <2>3. /\ cred.flow = r.flow /\ cred.crossed = r.crossed
        /\ cred.key = IF r.mode = "endpoint_credentials" THEN "inference" ELSE r.key
    BY DEF CredentialOf
  <2>4. r.mode \in {"endpoint_credentials", "separate_credentials"}
    BY <2>1, <2>2 DEF Row, Mode
  <2> HIDE DEF r, cred
  <2>5. \/ cred.key = "inference" /\ cred.flow # "v3"
        \/ cred.key = cred.flow
        \/ cred.key \in Flow /\ cred.crossed
    <3>1. CASE r.mode = "endpoint_credentials"
      BY <2>2, <2>3, <3>1 DEF RowExplained, ValidConfig
    <3>2. CASE r.mode = "separate_credentials"
      <4>1. cred.key = r.key /\ r.key \in Flow
        BY <2>1, <2>2, <2>3, <3>2 DEF Row
      <4>2. ~r.crossed => r.key = r.flow
        BY <2>1, <2>2, <3>2, Zenon DEF RowExplained
      <4> QED
        BY <2>3, <4>1, <4>2
    <3> QED
      BY <2>4, <3>1, <3>2
  <2>6. job'[j].cred = cred
    BY <1>0 DEF Resolve, Job, cred
  <2> QED
    BY <2>5, <2>6
<1>3. Refresh(j) /\ ~Resolve(j) =>
        job'[j].pc \notin Asking \/ (job[j].pc \in Asking /\ job'[j].cred = job[j].cred)
  <2>1. job[j] \in Job
    BY <1>0
  <2>2. \A e \in Endpoint : RefreshKey(j, e) => job'[j].pc = "resolve"
    BY <1>0 DEF RefreshKey, NoJob
  <2>3. RefreshAllKeys(j) => job'[j].pc = "next"
    BY <1>0 DEF RefreshAllKeys, NoJob
  <2>4. \A d \in job[j].todo : SkipNext(j, d) => job'[j].pc = "next"
    BY <1>0, <2>1 DEF SkipNext, IsNext, Job
  <2>5. \A d \in job[j].todo : AttemptNext(j, d) => job'[j].pc = "resolve"
    BY <1>0, <2>1 DEF AttemptNext, Job
  <2>6. FetchTokens(j) \/ LoginFails(j) \/ PageFails(j) \/ ResolveNothing(j) => job'[j].pc = "store"
    BY <1>0, <2>1 DEF FetchTokens, LoginFails, PageFails, Answer, ResolveNothing, Job
  <2>7. \A n \in Accounts, declared \in BOOLEAN :
          Login(j, n, declared) => job[j].pc = "login" /\ job'[j].cred = job[j].cred
    BY <1>0, <2>1 DEF Login, Job
  <2>8. FetchPage(j) => job[j].pc = "pages" /\ job'[j].cred = job[j].cred
    BY <1>0, <2>1 DEF FetchPage, Job
  <2>9. Store(j) => job'[j].pc \in {"done", "next"}
    BY <1>0 DEF Store, NoJob
  <2>10. StoreFails(j) => job'[j].pc = "failed"
    BY <1>0 DEF StoreFails, NoJob
  <2>11. Finish(j) => job'[j].pc = "done"
    BY <1>0, <2>1 DEF Finish, Job
  <2> QED
    BY <2>2, <2>3, <2>4, <2>5, <2>6, <2>7, <2>8, <2>9, <2>10, <2>11 DEF Refresh, Progress
<1>4. Fits(job'[j])
  BY <1>0, <1>2, <1>3
<1> QED
  BY <1>0, <1>1, <1>4 DEF CredentialExplained

FitsInv == RowsExplained /\ EditsAgree /\ CredentialExplained

LEMMA FitsInit == Init => FitsInv
<1> SUFFICES ASSUME Init PROVE FitsInv
  OBVIOUS
<1>1. RowsExplained
  <2>1. ASSUME NEW e \in Endpoint
        PROVE  RowExplained([NoRow EXCEPT !.exists = TRUE, !.born = e])
    BY DEF RowExplained, NoRow, ValidConfig, Flow
  <2> QED
    BY <2>1, NoRowExplained DEF Init, RowsExplained
<1>2. EditsAgree
  BY DEF Init, EditsAgree, EditAgrees, NoEdit
<1>3. CredentialExplained
  BY DEF Init, CredentialExplained, NoJob
<1> QED
  BY <1>1, <1>2, <1>3 DEF FitsInv

LEMMA FitsStep == TypeInv /\ OwnInv /\ FitsInv /\ [Next]_vars => FitsInv'
<1> SUFFICES ASSUME TypeInv, OwnInv, FitsInv, [Next]_vars PROVE FitsInv'
  OBVIOUS
<1>1. CASE EditRows \/ \E a \in Editors : EditQuota(a)
  BY <1>1, RowsExplainedStep, Frames DEF FitsInv, CredentialExplained
<1>2. ASSUME NEW j \in Refreshers, Refresh(j)
      PROVE  FitsInv'
  <2>1. UNCHANGED <<lastEndpoint, rows, edit>>
    BY <1>2, Frames
  <2>2. RowsExplained' /\ EditsAgree'
    BY <2>1 DEF FitsInv, RowsExplained, RowExplained, EditsAgree, EditAgrees, ValidConfig
  <2> QED
    BY <1>2, <2>2, RefreshFits DEF FitsInv
<1>3. CASE UNCHANGED vars
  BY <1>3 DEF vars, FitsInv, RowsExplained, RowExplained, EditsAgree, EditAgrees, ValidConfig,
              CredentialExplained
<1> QED
  BY <1>1, <1>2, <1>3 DEF Next

LEMMA FitsAlways == Spec => []FitsInv
BY FitsInit, FitsStep, TypeAlways, OwnAlways, PTL DEF Spec

\* Whatever editors cross, refresh and delete, every row's sidecar agrees unless its
\* key was written or kept by an edit that an update overtook, and no row ever holds
\* the identity of a password (UpdateEndpointQuota, RotateEndpointQuotaKey).
THEOREM SidecarAlwaysExplained == Spec => []SidecarExplained
<1>1. FitsInv => SidecarExplained
  BY DEF FitsInv, RowsExplained, RowExplained, SidecarExplained
<1> QED
  BY <1>1, FitsAlways, PTL

\* Every refresh asks in the flow that its credential is for, unless it is a separate
\* key from such a row; an inference key is never sent as a password
\* (ResolveEndpointQuota).
THEOREM CredentialAlwaysExplained == Spec => []CredentialExplained
<1>1. FitsInv => CredentialExplained
  BY DEF FitsInv
<1> QED
  BY <1>1, FitsAlways, PTL

----------------------------------------------------------------------------
(* The turns of a refresh, as far as what is left to do and what is counted.  *)

Asking == {"resolve", "login", "tokens", "pages", "store"}

\* How close a refresh at a row is to its end, as in Stage.
Rank(x) ==
  CASE x.pc = "store" -> 2
    [] x.pc = "tokens" -> 3
    [] x.pc = "pages" -> MaxPages - x.page + 3
    [] x.pc = "login" -> MaxPages + 3
    [] x.pc = "resolve" -> MaxPages + 4

\* It is started for one row or for all.
StartsOne(y) == y.pc = "resolve" /\ ~y.all /\ y.todo = {}

StartsAll(y) ==
  /\ y.pc = "next" /\ y.all
  /\ y.listed = {e \in Endpoint : rows[e].exists}
  /\ y.todo = {DisplayOf(e) : e \in y.listed}
  /\ y.tally = NoTally /\ y.results = [e \in Endpoint |-> "none"]

\* It passes a row over, or turns to it.
Skips(x, y, d) ==
  /\ x.pc = "next" /\ y.pc = "next" /\ SkipReason(d) # "none"
  /\ y.all = x.all /\ y.listed = x.listed /\ y.todo = x.todo \ {d}
  /\ y.tally = Skipped(x.tally, SkipReason(d))
  /\ y.results = [x.results EXCEPT ![d.id] = SkipReason(d)]

Attempts(x, y, d) ==
  /\ x.pc = "next" /\ y.pc = "resolve" /\ y.row = d
  /\ y.all = x.all /\ y.listed = x.listed /\ y.todo = x.todo \ {d}
  /\ y.tally = [x.tally EXCEPT !.attempted = @ + 1]
  /\ y.results = x.results

\* It comes closer to what is to be stored.
Asks(x, y) ==
  /\ x.pc \in Asking /\ y.pc \in Asking /\ Rank(y) < Rank(x)
  /\ y.all = x.all /\ y.listed = x.listed /\ y.todo = x.todo /\ y.row = x.row
  /\ y.tally = x.tally /\ y.results = x.results

\* The row is stored, and it is done or goes on.
StoresOne(x, y) == x.pc = "store" /\ ~x.all /\ y.pc = "done" /\ ~y.all /\ y.todo = {}

StoresNext(x, y) ==
  /\ x.pc = "store" /\ x.all /\ y.pc = "next" /\ y.all
  /\ y.listed = x.listed /\ y.todo = x.todo
  /\ y.tally = IF x.available THEN [x.tally EXCEPT !.succeeded = @ + 1]
                               ELSE [x.tally EXCEPT !.failed = @ + 1]
  /\ y.results = [x.results EXCEPT ![x.row.id] =
                    IF x.available THEN "available" ELSE "unavailable"]

Fails(x, y) == x.pc = "store" /\ y.pc = "failed" /\ ~y.all /\ y.todo = {}

Finishes(x, y) ==
  /\ x.pc = "next" /\ x.todo = {} /\ y.pc = "done"
  /\ y.all = x.all /\ y.listed = x.listed /\ y.todo = x.todo
  /\ y.tally = x.tally /\ y.results = x.results

Turns(x, y) ==
  \/ \E d \in x.todo : Skips(x, y, d) \/ Attempts(x, y, d)
  \/ Asks(x, y)
  \/ StoresOne(x, y)
  \/ StoresNext(x, y)
  \/ Finishes(x, y)

LEMMA ProgressTurns ==
  ASSUME TypeInv, NEW j \in Refreshers, Progress(j)
  PROVE  Turns(job[j], job'[j])
<1> DEFINE x == job[j]
           y == job'[j]
<1>1. x \in Job /\ job \in [Refreshers -> Job] /\ MaxPages \in Nat \ {0}
  BY QuotaAssumption DEF TypeInv, JobsOK, QuotaAssumption
<1>2. x.page \in 0..MaxPages
  BY <1>1 DEF Job
<1>3. ASSUME NEW d \in job[j].todo, SkipNext(j, d) PROVE Skips(x, y, d)
  BY <1>1, <1>3 DEF SkipNext, IsNext, Skips, Job
<1>4. ASSUME NEW d \in job[j].todo, AttemptNext(j, d) PROVE Attempts(x, y, d)
  BY <1>1, <1>4 DEF AttemptNext, IsNext, Attempts, Job
<1>5. CASE FetchTokens(j) \/ LoginFails(j) \/ PageFails(j)
  <2>1. PICK available \in BOOLEAN : Answer(j, available)
    BY <1>5 DEF FetchTokens, LoginFails, PageFails
  <2>2. x.pc \in {"tokens", "login", "pages"}
    BY <1>5 DEF FetchTokens, LoginFails, PageFails
  <2>3. /\ y.pc = "store" /\ y.all = x.all /\ y.listed = x.listed /\ y.todo = x.todo /\ y.row = x.row
        /\ y.tally = x.tally /\ y.results = x.results
    BY <1>1, <2>1 DEF Answer, Job
  <2> HIDE DEF x, y
  <2>4. Rank(y) < Rank(x)
    BY <1>1, <1>2, <2>2, <2>3 DEF Rank
  <2> QED
    BY <2>2, <2>3, <2>4 DEF Asks, Asking, Turns, x, y
<1>6. CASE Resolve(j) \/ ResolveNothing(j)
  <2>1. /\ x.pc = "resolve" /\ y.pc \in {"login", "tokens", "store"}
        /\ y.all = x.all /\ y.listed = x.listed /\ y.todo = x.todo /\ y.row = x.row
        /\ y.tally = x.tally /\ y.results = x.results
    BY <1>1, <1>6 DEF Resolve, ResolveNothing, Job
  <2> HIDE DEF x, y
  <2>2. Rank(y) < Rank(x)
    BY <1>1, <2>1 DEF Rank
  <2> QED
    BY <2>1, <2>2 DEF Asks, Asking, Turns, x, y
<1>7. ASSUME NEW n \in Accounts, NEW declared \in BOOLEAN, Login(j, n, declared)
      PROVE  Asks(x, y)
  <2>1. /\ x.pc = "login" /\ y.pc = "pages" /\ y.page = 1
        /\ y.all = x.all /\ y.listed = x.listed /\ y.todo = x.todo /\ y.row = x.row
        /\ y.tally = x.tally /\ y.results = x.results
    BY <1>1, <1>7 DEF Login, Job
  <2> HIDE DEF x, y
  <2>2. Rank(y) < Rank(x)
    BY <1>1, <2>1 DEF Rank
  <2> QED
    BY <2>1, <2>2 DEF Asks, Asking
<1>8. CASE FetchPage(j)
  <2>1. /\ x.pc = "pages"
        /\ y.pc = "store" \/ (y.pc = "pages" /\ y.page = x.page + 1)
        /\ y.all = x.all /\ y.listed = x.listed /\ y.todo = x.todo /\ y.row = x.row
        /\ y.tally = x.tally /\ y.results = x.results
    <3>1. x.pc = "pages"
      BY <1>8 DEF FetchPage
    <3> DEFINE fetched == job[j].fetched + OnPage(j)
               complete == Complete(j, fetched)
               last == [job[j] EXCEPT !.pc = "store", !.fetched = fetched, !.available = complete]
               more == [job[j] EXCEPT !.page = job[j].page + 1, !.fetched = fetched]
    <3>2. y = last \/ y = more
      BY <1>1, <1>8 DEF FetchPage
    <3> HIDE DEF fetched, complete
    <3> QED
      BY <1>1, <3>1, <3>2 DEF Job
  <2> HIDE DEF x, y
  <2>2. Rank(y) < Rank(x)
    BY <1>1, <1>2, <2>1 DEF Rank
  <2> QED
    BY <2>1, <2>2 DEF Asks, Asking, Turns, x, y
<1>9. CASE Store(j)
  BY <1>1, <1>9 DEF Store, NoJob, StoresOne, StoresNext, Turns, Job
<1>10. CASE Finish(j)
  BY <1>1, <1>10 DEF Finish, Finishes, Turns, Job
<1> QED
  BY <1>3, <1>4, <1>5, <1>6, <1>7, <1>8, <1>9, <1>10 DEF Progress, Turns

\* A refresh turns by its own steps only.
LEMMA OthersStay ==
  ASSUME TypeInv, NEW j \in Refreshers, Refresh(j), NEW k \in Refreshers, k # j
  PROVE  job'[k] = job[k]
BY DEF TypeInv, JobsOK, Refresh, Progress, RefreshKey, RefreshAllKeys, SkipNext, AttemptNext, Answer,
       Resolve, ResolveNothing, FetchTokens, LoginFails, Login, PageFails, FetchPage, Store,
       StoreFails, Finish

LEMMA StartsTurn ==
  ASSUME TypeInv, NEW j \in Refreshers
  PROVE  /\ \A e \in Endpoint : RefreshKey(j, e) => Ended(j) /\ StartsOne(job'[j])
         /\ RefreshAllKeys(j) => Ended(j) /\ StartsAll(job'[j])
         /\ StoreFails(j) => Fails(job[j], job'[j])
<1>1. job \in [Refreshers -> Job]
  BY DEF TypeInv, JobsOK
<1>2. ASSUME NEW e \in Endpoint, RefreshKey(j, e) PROVE Ended(j) /\ StartsOne(job'[j])
  BY <1>1, <1>2 DEF RefreshKey, StartsOne, NoJob
<1>3. ASSUME RefreshAllKeys(j) PROVE Ended(j) /\ StartsAll(job'[j])
  <2> DEFINE ids == {e \in Endpoint : rows[e].exists}
             listing == {DisplayOf(e) : e \in ids}
  <2>1. /\ Ended(j)
        /\ job'[j] = [NoJob EXCEPT !.pc = "next", !.all = TRUE, !.listed = ids, !.todo = listing]
    BY <1>1, <1>3 DEF RefreshAllKeys
  <2> HIDE DEF ids, listing
  <2>2. /\ job'[j].pc = "next" /\ job'[j].all = TRUE /\ job'[j].listed = ids /\ job'[j].todo = listing
        /\ job'[j].tally = NoTally /\ job'[j].results = [e \in Endpoint |-> "none"]
    BY <2>1 DEF NoJob
  <2> QED
    BY <2>1, <2>2 DEF StartsAll, ids, listing
<1>4. ASSUME StoreFails(j) PROVE Fails(job[j], job'[j])
  BY <1>1, <1>4 DEF StoreFails, Fails, NoJob
<1> QED
  BY <1>2, <1>3, <1>4

----------------------------------------------------------------------------
(* What a refresh lists. Displays are told apart by their ids, so one of them *)
(* has the least, and each one less is a row less.                            *)

\* What is left of a listing, and the row that a refresh is at.
Listing(x) ==
  /\ x.todo # {} => x.all
  /\ \A c, d \in x.todo : c.id = d.id => c = d
  /\ \A d \in x.todo : d.id \in x.listed
  /\ x.all /\ x.pc \in Asking => x.row.id \in x.listed /\ \A d \in x.todo : d.id # x.row.id
  /\ x.pc \in {"idle", "done", "failed"} => x.todo = {}

Listings == \A j \in Refreshers : Listing(job[j])

LEMMA StartsListing ==
  ASSUME NEW y, StartsOne(y) \/ StartsAll(y)
  PROVE  Listing(y)
<1>1. CASE StartsOne(y)
  BY <1>1 DEF StartsOne, Listing
<1>2. CASE StartsAll(y)
  <2>1. \A e \in y.listed : DisplayOf(e).id = e
    BY DEF DisplayOf
  <2> QED
    BY <1>2, <2>1 DEF StartsAll, Listing, Asking
<1> QED
  BY <1>1, <1>2

LEMMA TurnsListing ==
  ASSUME NEW x, NEW y, Listing(x), Turns(x, y) \/ Fails(x, y)
  PROVE  Listing(y)
<1>1. ASSUME NEW d \in x.todo, Skips(x, y, d) PROVE Listing(y)
  BY <1>1 DEF Skips, Listing, Asking
<1>2. ASSUME NEW d \in x.todo, Attempts(x, y, d) PROVE Listing(y)
  BY <1>2 DEF Attempts, Listing, Asking
<1>3. CASE Asks(x, y)
  BY <1>3 DEF Asks, Listing, Asking
<1>4. CASE StoresNext(x, y)
  BY <1>4 DEF StoresNext, Listing, Asking
<1>5. CASE StoresOne(x, y) \/ Finishes(x, y) \/ Fails(x, y)
  BY <1>5 DEF StoresOne, Finishes, Fails, Listing, Asking
<1> QED
  BY <1>1, <1>2, <1>3, <1>4, <1>5 DEF Turns

\* Facts about each refresh by itself need their turns only.
LEMMA RefreshCases ==
  ASSUME TypeInv, NEW j \in Refreshers, Refresh(j)
  PROVE  \/ Ended(j) /\ (StartsOne(job'[j]) \/ StartsAll(job'[j]))
         \/ Turns(job[j], job'[j])
         \/ Fails(job[j], job'[j])
BY StartsTurn, ProgressTurns DEF Refresh

LEMMA ListingsAlways == Spec => []Listings
<1>1. Init => Listings
  <2>1. Listing(NoJob)
    BY DEF Listing, NoJob, Asking
  <2> QED
    BY <2>1 DEF Init, Listings
<1>2. TypeInv /\ Listings /\ [Next]_vars => Listings'
  <2> SUFFICES ASSUME TypeInv, Listings, [Next]_vars PROVE Listings'
    OBVIOUS
  <2>1. CASE job' = job
    BY <2>1 DEF Listings
  <2>2. ASSUME NEW j \in Refreshers, Refresh(j) PROVE Listings'
    <3>1. Listing(job'[j])
      BY <2>2, RefreshCases, StartsListing, TurnsListing DEF Listings
    <3>2. \A k \in Refreshers : k # j => job'[k] = job[k]
      BY <2>2, OthersStay
    <3> QED
      BY <3>1, <3>2 DEF Listings
  <2> QED
    BY <2>1, <2>2, Frames DEF Next, vars
<1> QED
  BY <1>1, <1>2, TypeAlways, PTL DEF Spec

LessThan == {ss \in Nat \X Nat : ss[1] < ss[2]}

LEMMA LeastNatural ==
  ASSUME NEW S, S \subseteq Nat, S # {}
  PROVE  \E n \in S : \A m \in S : n <= m
<1>1. IsWellFoundedOn(LessThan, Nat)
  BY NatLessThanWellFounded DEF OpToRel, LessThan
<1>2. PICK n \in S : \A m \in S : <<m, n>> \notin LessThan
  BY <1>1, WFMin
<1>3. ASSUME NEW m \in S PROVE n <= m
  <2>1. m \in Nat /\ n \in Nat
    OBVIOUS
  <2>2. <<m, n>> \in Nat \X Nat /\ <<m, n>>[1] = m /\ <<m, n>>[2] = n
    BY <2>1
  <2>3. ~(m < n)
    BY <1>2, <2>2 DEF LessThan
  <2> QED
    BY <2>1, <2>3
<1> QED
  BY <1>3

\* A refresh-all never waits for its next row: while any is left one of them, and
\* no second, has the least id (RefreshAll, over the rows ordered by List).
THEOREM NextRowAlwaysDecided == Spec => []NextRowIsDecided
<1>1. TypeInv /\ Listings => NextRowIsDecided
  <2> SUFFICES ASSUME TypeInv, Listings, NEW j \in Refreshers, job[j].pc = "next", job[j].todo # {}
               PROVE  \E d \in job[j].todo : \A c \in job[j].todo : IsNext(j, c) <=> c = d
    BY DEF NextRowIsDecided
  <2> DEFINE todo == job[j].todo
             ids == {d.id : d \in todo}
  <2>1. \A d \in todo : d.id \in Nat
    BY QuotaAssumption DEF TypeInv, JobRows, Endpoint, QuotaAssumption
  <2>2. \A c, d \in todo : c.id = d.id => c = d
    BY DEF Listings, Listing
  <2>3. ids \subseteq Nat /\ ids # {}
    BY <2>1
  <2>4. PICK n \in ids : \A m \in ids : n <= m
    <3> HIDE DEF ids
    <3> QED
      BY <2>3, LeastNatural
  <2>5. PICK d \in todo : n = d.id
    OBVIOUS
  <2>6. ASSUME NEW c \in todo PROVE IsNext(j, c) <=> c = d
    <3>1. \A b \in todo : d.id <= b.id
      BY <2>4, <2>5
    <3>2. IsNext(j, c) => c.id <= d.id
      BY DEF IsNext
    <3>3. IsNext(j, c) => c = d
      BY <2>1, <2>2, <3>1, <3>2
    <3> QED
      BY <3>1, <3>3 DEF IsNext
  <2> QED
    BY <2>6
<1> QED
  BY <1>1, TypeAlways, ListingsAlways, PTL

----------------------------------------------------------------------------
(* Every step of a refresh counts.                                            *)

LEMMA ListingsFinite ==
  ASSUME TypeInv, Listings, NEW j \in Refreshers
  PROVE  IsFiniteSet(job[j].todo) /\ Cardinality(job[j].todo) \in Nat
<1> DEFINE todo == job[j].todo
           ids == {d.id : d \in todo}
<1>1. IsFiniteSet(Endpoint)
  BY FS_Interval, QuotaAssumption DEF Endpoint, QuotaAssumption
<1>2. ids \subseteq Endpoint
  BY DEF TypeInv, JobRows
<1>3. IsFiniteSet(ids)
  BY <1>1, <1>2, FS_Subset
<1> DEFINE display == [n \in ids |-> CHOOSE d \in todo : d.id = n]
<1>4. \A d \in todo : d.id \in ids /\ display[d.id] = d
  BY DEF Listings, Listing
<1>5. display \in Surjection(ids, todo)
  <2>1. display \in [ids -> todo]
    OBVIOUS
  <2> HIDE DEF todo, ids, display
  <2> QED
    BY <1>4, <2>1 DEF Surjection
<1>6. IsFiniteSet(todo)
  BY <1>3, <1>5, FS_Surjection
<1> QED
  BY <1>6, FS_CardinalityType

LEMMA StepsTyped ==
  ASSUME TypeInv, Listings, NEW j \in Refreshers
  PROVE  StepsLeft(j) \in Nat
<1>1. /\ MaxPages \in Nat /\ job[j].page \in 0..MaxPages
      /\ job[j].pc \in {"idle", "next", "done", "failed"} \cup Asking
  BY QuotaAssumption DEF TypeInv, JobsOK, Job, QuotaAssumption, Asking
<1>2. Stage(j) \in Nat
  BY <1>1 DEF Stage, Ended, Asking
<1> QED
  BY <1>1, <1>2, ListingsFinite DEF StepsLeft

\* Each row left counts for more than all the steps at one.
LEMMA FewerRows ==
  ASSUME NEW n \in Nat \ {0}, NEW s \in Nat, NEW t \in Nat, t < s + MaxPages + 5
  PROVE  /\ (n - 1) * (MaxPages + 5) + t < n * (MaxPages + 5) + s
         /\ (n - 1) * (MaxPages + 5) + t <= n * (MaxPages + 5) + s
<1>1. MaxPages \in Nat
  BY QuotaAssumption DEF QuotaAssumption
<1> DEFINE k == MaxPages + 5
<1>2. k \in Nat /\ t < s + k
  BY <1>1
<1> HIDE DEF k
<1>3. (n - 1) * k = n * k - k /\ n * k \in Nat
  BY <1>2
<1>4. (n - 1) * k + t < n * k + s /\ (n - 1) * k + t <= n * k + s
  BY <1>2, <1>3
<1> QED
  BY <1>4 DEF k

LEMMA TurnsCount ==
  ASSUME TypeInv, TypeInv', Listings, NEW j \in Refreshers,
         Turns(job[j], job'[j]) \/ Fails(job[j], job'[j])
  PROVE  StepsLeft(j)' < StepsLeft(j) /\ StepsLeft(j)' <= StepsLeft(j)
<1> DEFINE x == job[j]
           y == job'[j]
           n == Cardinality(x.todo)
           k == MaxPages + 5
<1>1. /\ MaxPages \in Nat \ {0} /\ x.page \in 0..MaxPages /\ y.page \in 0..MaxPages
      /\ x.pc \in {"idle", "next", "done", "failed"} \cup Asking
      /\ y.pc \in {"idle", "next", "done", "failed"} \cup Asking
  BY QuotaAssumption DEF TypeInv, JobsOK, Job, QuotaAssumption, Asking
<1>2. IsFiniteSet(x.todo) /\ n \in Nat /\ k \in Nat /\ n * k \in Nat
  BY <1>1, ListingsFinite
<1>3. /\ Stage(j) = IF x.pc \in Asking THEN Rank(x) ELSE IF x.pc = "next" THEN 1 ELSE 0
      /\ Stage(j)' = IF y.pc \in Asking THEN Rank(y) ELSE IF y.pc = "next" THEN 1 ELSE 0
  BY <1>1 DEF Stage, Ended, Rank, Asking
<1>4. /\ x.pc \in Asking => Rank(x) \in 2..(MaxPages + 4)
      /\ y.pc \in Asking => Rank(y) \in 2..(MaxPages + 4)
  BY <1>1 DEF Rank, Asking
<1>5. /\ StepsLeft(j) = n * k + Stage(j)
      /\ StepsLeft(j)' = Cardinality(y.todo) * k + Stage(j)'
      /\ Stage(j) \in Nat /\ Stage(j)' \in Nat /\ Stage(j)' < Stage(j) + k
  BY <1>1, <1>3, <1>4 DEF StepsLeft
<1>6. ASSUME NEW d \in x.todo, Skips(x, y, d) \/ Attempts(x, y, d)
      PROVE  StepsLeft(j)' < StepsLeft(j) /\ StepsLeft(j)' <= StepsLeft(j)
  <2>1. y.todo = x.todo \ {d}
    BY <1>6 DEF Skips, Attempts
  <2>2. n # 0
    BY <1>2, FS_EmptySet
  <2>3. Cardinality(y.todo) = n - 1
    BY <1>2, <2>1, FS_RemoveElement
  <2> HIDE DEF x, y, n
  <2> QED
    BY <1>2, <1>5, <2>2, <2>3, FewerRows
<1>7. CASE Asks(x, y) \/ StoresNext(x, y) \/ Finishes(x, y)
  <2>1. y.todo = x.todo /\ Stage(j)' < Stage(j)
    BY <1>3, <1>4, <1>7 DEF Asks, StoresNext, Finishes, Asking
  <2> QED
    BY <1>2, <1>5, <2>1
<1>8. CASE StoresOne(x, y) \/ Fails(x, y)
  <2>1. y.todo = {} /\ Stage(j)' = 0 /\ Stage(j) > 0
    BY <1>3, <1>4, <1>8 DEF StoresOne, Fails, Asking
  <2>2. Cardinality(y.todo) * k = 0
    BY <1>2, <2>1, FS_EmptySet
  <2> QED
    BY <1>2, <1>5, <2>1, <2>2
<1> QED
  BY <1>6, <1>7, <1>8 DEF Turns

\* A step of a refresh brings it closer to its end, and no step of anybody sends it
\* back (RefreshKey, RefreshAll, refreshDisplay). What RefreshEnds adds to this and
\* to NextRowAlwaysDecided is that steps are taken.
THEOREM RefreshesAlwaysMoveOn == Spec => RefreshesMoveOn
<1> DEFINE Moves(j) == /\ Progress(j) => StepsLeft(j)' < StepsLeft(j)
                       /\ ~Ended(j) => StepsLeft(j)' <= StepsLeft(j)
<1>1. TypeInv /\ Listings /\ [Next]_vars => [\A j \in Refreshers : Moves(j)]_vars
  <2> SUFFICES ASSUME TypeInv, Listings, Next, NEW j \in Refreshers
               PROVE  Moves(j)
    OBVIOUS
  <2>1. TypeInv'
    BY TypeStep
  <2>2. ASSUME Turns(job[j], job'[j]) \/ Fails(job[j], job'[j])
        PROVE  Moves(j)
    BY <2>1, <2>2, TurnsCount
  <2>3. ASSUME Progress(j) PROVE Moves(j)
    BY <2>2, <2>3, ProgressTurns
  <2>4. ASSUME job'[j] = job[j], ~Progress(j) PROVE Moves(j)
    <3>1. StepsLeft(j)' = StepsLeft(j)
      BY <2>4 DEF StepsLeft, Stage, Ended
    <3>2. StepsLeft(j) \in Nat
      BY StepsTyped
    <3> QED
      BY <2>4, <3>1, <3>2
  <2>5. CASE EditRows \/ \E a \in Editors : EditQuota(a)
    BY <2>3, <2>4, <2>5, Frames
  <2>6. ASSUME NEW k \in Refreshers, Refresh(k), k # j PROVE Moves(j)
    BY <2>3, <2>4, <2>6, OthersStay
  <2>7. ASSUME Refresh(j), ~Progress(j) PROVE Moves(j)
    BY <2>2, <2>7, RefreshCases
  <2> QED
    BY <2>3, <2>5, <2>6, <2>7 DEF Next
<1> QED
  BY <1>1, TypeAlways, ListingsAlways, PTL DEF Spec, RefreshesMoveOn

----------------------------------------------------------------------------
(* What a refresh-all counts: each row listed gets its one result when its    *)
(* turn is over, and the counter of that result goes up with it.              *)

CountOf(results, outcomes) == Cardinality({e \in Endpoint : results[e] \in outcomes})

\* The rows without a result are those not listed, those left, and the one it is at.
Recorded(x) ==
  \A e \in Endpoint :
    x.results[e] = "none" <=>
      \/ e \notin x.listed
      \/ \E d \in x.todo : d.id = e
      \/ x.pc \in Asking /\ x.row.id = e

Totals(tally, results) ==
  /\ tally.succeeded = CountOf(results, {"available"})
  /\ tally.failed = CountOf(results, {"unavailable"})
  /\ tally.archived = CountOf(results, {"archived"})
  /\ tally.cooldown = CountOf(results, {"cooldown"})
  /\ tally.disabled = CountOf(results, {"disabled", "quota_disabled"})
  /\ tally.notConfigured = CountOf(results, {"quota_not_configured"})

Attempted(x) ==
  x.tally.attempted = x.tally.succeeded + x.tally.failed + IF x.pc \in Asking THEN 1 ELSE 0

Tallied(x) == x.all => Recorded(x) /\ Totals(x.tally, x.results) /\ Attempted(x)

TalliesInv == \A j \in Refreshers : Tallied(job[j])

\* A row that gets its first result is one more with that result.
LEMMA OneMore ==
  ASSUME NEW results \in [Endpoint -> Outcome], NEW e \in Endpoint, results[e] = "none",
         NEW outcome, NEW outcomes, "none" \notin outcomes
  PROVE  CountOf([results EXCEPT ![e] = outcome], outcomes) =
           CountOf(results, outcomes) + IF outcome \in outcomes THEN 1 ELSE 0
<1> DEFINE new == [results EXCEPT ![e] = outcome]
           before == {n \in Endpoint : results[n] \in outcomes}
           after == {n \in Endpoint : new[n] \in outcomes}
<1>1. IsFiniteSet(Endpoint)
  BY FS_Interval, QuotaAssumption DEF Endpoint, QuotaAssumption
<1>2. IsFiniteSet(before) /\ Cardinality(before) \in Nat
  BY <1>1, FS_Subset, FS_CardinalityType
<1>3. e \notin before /\ after = IF outcome \in outcomes THEN before \cup {e} ELSE before
  OBVIOUS
<1> HIDE DEF before, after
<1>4. Cardinality(after) = Cardinality(before) + IF outcome \in outcomes THEN 1 ELSE 0
  <2>1. CASE outcome \in outcomes
    <3>1. Cardinality(before \cup {e}) = Cardinality(before) + 1
      BY <1>2, <1>3, FS_AddElement
    <3> QED
      BY <1>3, <2>1, <3>1
  <2>2. CASE outcome \notin outcomes
    BY <1>2, <1>3, <2>2
  <2> QED
    BY <2>1, <2>2
<1> QED
  BY <1>4 DEF CountOf, before, after

LEMMA NoResults == Totals(NoTally, [e \in Endpoint |-> "none"])
<1>1. ASSUME NEW outcomes, "none" \notin outcomes
      PROVE  CountOf([e \in Endpoint |-> "none"], outcomes) = 0
  <2>1. {e \in Endpoint : [n \in Endpoint |-> "none"][e] \in outcomes} = {}
    BY <1>1
  <2> QED
    BY <2>1, FS_EmptySet DEF CountOf
<1> QED
  BY <1>1 DEF Totals, NoTally

\* Passing a row over, with a reason, is counted under that reason.
LEMMA SkipTotals ==
  ASSUME NEW tally \in Tally, NEW results \in [Endpoint -> Outcome], Totals(tally, results),
         NEW d \in Display, d.id \in Endpoint, results[d.id] = "none", SkipReason(d) # "none"
  PROVE  /\ Totals(Skipped(tally, SkipReason(d)), [results EXCEPT ![d.id] = SkipReason(d)])
         /\ Skipped(tally, SkipReason(d)).attempted = tally.attempted
<1> DEFINE reason == SkipReason(d)
           new == [results EXCEPT ![d.id] = reason]
<1>1. reason \in {"archived", "disabled", "cooldown", "quota_disabled", "quota_not_configured"}
  BY DEF SkipReason, Display, Skip
<1>2. \A outcomes : "none" \notin outcomes =>
        CountOf(new, outcomes) = CountOf(results, outcomes) + IF reason \in outcomes THEN 1 ELSE 0
  BY OneMore
<1> HIDE DEF reason, new
<1>3. /\ CountOf(new, {"available"}) = CountOf(results, {"available"}) + 0
      /\ CountOf(new, {"unavailable"}) = CountOf(results, {"unavailable"}) + 0
      /\ CountOf(new, {"archived"}) =
           CountOf(results, {"archived"}) + IF reason = "archived" THEN 1 ELSE 0
      /\ CountOf(new, {"cooldown"}) =
           CountOf(results, {"cooldown"}) + IF reason = "cooldown" THEN 1 ELSE 0
      /\ CountOf(new, {"disabled", "quota_disabled"}) =
           CountOf(results, {"disabled", "quota_disabled"})
             + IF reason \in {"disabled", "quota_disabled"} THEN 1 ELSE 0
      /\ CountOf(new, {"quota_not_configured"}) =
           CountOf(results, {"quota_not_configured"})
             + IF reason = "quota_not_configured" THEN 1 ELSE 0
  BY <1>1, <1>2
<1>4. /\ tally.succeeded \in Nat /\ tally.failed \in Nat /\ tally.archived \in Nat
      /\ tally.cooldown \in Nat /\ tally.disabled \in Nat /\ tally.notConfigured \in Nat
  BY DEF Tally
<1>5. Totals(Skipped(tally, reason), new) /\ Skipped(tally, reason).attempted = tally.attempted
  BY <1>1, <1>3, <1>4 DEF Totals, Skipped, Tally
<1> QED
  BY <1>5 DEF reason, new

\* A row that is stored is counted as a success or as a failure.
LEMMA StoreTotals ==
  ASSUME NEW tally \in Tally, NEW results \in [Endpoint -> Outcome], Totals(tally, results),
         NEW e \in Endpoint, results[e] = "none", NEW available \in BOOLEAN
  PROVE  Totals(IF available THEN [tally EXCEPT !.succeeded = @ + 1]
                             ELSE [tally EXCEPT !.failed = @ + 1],
                [results EXCEPT ![e] = IF available THEN "available" ELSE "unavailable"])
<1> DEFINE outcome == IF available THEN "available" ELSE "unavailable"
<1> HIDE DEF outcome
<1> DEFINE new == [results EXCEPT ![e] = outcome]
<1>1. \A outcomes : "none" \notin outcomes =>
        CountOf(new, outcomes) = CountOf(results, outcomes) + IF outcome \in outcomes THEN 1 ELSE 0
  BY OneMore
<1>2. outcome = IF available THEN "available" ELSE "unavailable"
  BY DEF outcome
<1> HIDE DEF new
<1>3. /\ CountOf(new, {"available"}) =
           CountOf(results, {"available"}) + IF available THEN 1 ELSE 0
      /\ CountOf(new, {"unavailable"}) =
           CountOf(results, {"unavailable"}) + IF available THEN 0 ELSE 1
      /\ CountOf(new, {"archived"}) = CountOf(results, {"archived"}) + 0
      /\ CountOf(new, {"cooldown"}) = CountOf(results, {"cooldown"}) + 0
      /\ CountOf(new, {"disabled", "quota_disabled"}) =
           CountOf(results, {"disabled", "quota_disabled"}) + 0
      /\ CountOf(new, {"quota_not_configured"}) =
           CountOf(results, {"quota_not_configured"}) + 0
  BY <1>1, <1>2
<1>4. /\ tally.succeeded \in Nat /\ tally.failed \in Nat /\ tally.archived \in Nat
      /\ tally.cooldown \in Nat /\ tally.disabled \in Nat /\ tally.notConfigured \in Nat
  BY DEF Tally
<1>5. Totals(IF available THEN [tally EXCEPT !.succeeded = @ + 1]
                          ELSE [tally EXCEPT !.failed = @ + 1], new)
  BY <1>3, <1>4 DEF Totals, Tally
<1> QED
  BY <1>5 DEF outcome, new

LEMMA TurnsTally ==
  ASSUME NEW x \in Job, NEW y \in Job, Listing(x), Tallied(x), y.all, Turns(x, y),
         x.pc \in Asking => x.row.id \in Endpoint,
         \A d \in x.todo : d.id \in Endpoint
  PROVE  Tallied(y)
<1>1. x.all /\ Recorded(x) /\ Totals(x.tally, x.results) /\ Attempted(x)
  BY DEF Turns, Skips, Attempts, Asks, StoresOne, StoresNext, Finishes, Tallied
<1>2. /\ x.tally \in Tally /\ x.results \in [Endpoint -> Outcome] /\ x.todo \subseteq Display
      /\ x.available \in BOOLEAN
      /\ x.tally.attempted \in Nat /\ x.tally.succeeded \in Nat /\ x.tally.failed \in Nat
  BY DEF Job, Tally
<1>3. ASSUME NEW d \in x.todo, Skips(x, y, d) PROVE Tallied(y)
  <2>1. d \in Display /\ d.id \in Endpoint /\ x.results[d.id] = "none"
    BY <1>1, <1>2 DEF Recorded
  <2>2. Totals(y.tally, y.results) /\ y.tally.attempted = x.tally.attempted
    BY <1>1, <1>2, <1>3, <2>1, SkipTotals DEF Skips
  <2>3. Recorded(y)
    BY <1>1, <1>2, <1>3, <2>1 DEF Skips, Recorded, Listing, Asking
  <2>4. y.tally.succeeded = x.tally.succeeded /\ y.tally.failed = x.tally.failed
    BY <1>2, <1>3 DEF Skips, Skipped, Tally
  <2> QED
    BY <1>1, <1>3, <2>2, <2>3, <2>4 DEF Skips, Tallied, Attempted, Asking
<1>4. ASSUME NEW d \in x.todo, Attempts(x, y, d) PROVE Tallied(y)
  <2>1. Recorded(y)
    BY <1>1, <1>4 DEF Attempts, Recorded, Listing, Asking
  <2>2. Totals(y.tally, y.results)
    BY <1>1, <1>2, <1>4 DEF Attempts, Totals, Tally
  <2>3. Attempted(y)
    BY <1>1, <1>2, <1>4 DEF Attempts, Attempted, Asking, Tally
  <2> QED
    BY <2>1, <2>2, <2>3 DEF Tallied
<1>5. CASE Asks(x, y)
  BY <1>1, <1>5 DEF Asks, Tallied, Recorded, Attempted
<1>6. CASE StoresNext(x, y)
  <2> DEFINE e == x.row.id
  <2>1. e \in Endpoint /\ x.results[e] = "none"
    BY <1>1, <1>6 DEF StoresNext, Recorded, Asking
  <2>2. Totals(y.tally, y.results)
    BY <1>1, <1>2, <1>6, <2>1, StoreTotals DEF StoresNext
  <2>3. Recorded(y)
    BY <1>1, <1>2, <1>6, <2>1 DEF StoresNext, Recorded, Listing, Asking
  <2>4. Attempted(y)
    BY <1>1, <1>2, <1>6 DEF StoresNext, Attempted, Asking, Tally
  <2> QED
    BY <2>2, <2>3, <2>4 DEF Tallied
<1>7. CASE Finishes(x, y)
  BY <1>1, <1>7 DEF Finishes, Tallied, Recorded, Attempted, Asking
<1> QED
  BY <1>3, <1>4, <1>5, <1>6, <1>7 DEF Turns, StoresOne

LEMMA StartsTally ==
  ASSUME RowsOK, NEW y, StartsAll(y)
  PROVE  Tallied(y)
<1>1. Recorded(y)
  <2>1. \A e \in y.listed : DisplayOf(e) \in y.todo /\ DisplayOf(e).id = e
    BY DEF StartsAll, DisplayOf
  <2>2. \A d \in y.todo : d.id \in y.listed
    BY DEF StartsAll, DisplayOf
  <2> QED
    BY <2>1, <2>2 DEF StartsAll, Recorded, Asking
<1>2. Totals(y.tally, y.results)
  BY NoResults DEF StartsAll
<1>3. Attempted(y)
  BY DEF StartsAll, Attempted, NoTally, Asking
<1> QED
  BY <1>1, <1>2, <1>3 DEF Tallied

LEMMA TalliesStep ==
  ASSUME TypeInv, TypeInv', Listings, TalliesInv, NEW j \in Refreshers, Refresh(j)
  PROVE  TalliesInv'
<1>1. job[j] \in Job /\ job'[j] \in Job /\ Listing(job[j]) /\ Tallied(job[j])
  BY DEF TypeInv, JobsOK, Listings, TalliesInv
<1>2. /\ job[j].pc \in Asking => job[j].row.id \in Endpoint
      /\ \A d \in job[j].todo : d.id \in Endpoint
  BY DEF TypeInv, JobRows, Asking
<1>3. Turns(job[j], job'[j]) /\ job'[j].all => Tallied(job'[j])
  BY <1>1, <1>2, TurnsTally
<1>4. StartsAll(job'[j]) => Tallied(job'[j])
  BY StartsTally DEF TypeInv
<1>5. Tallied(job'[j])
  BY <1>3, <1>4, RefreshCases DEF StartsOne, Fails, Tallied
<1>6. \A k \in Refreshers : k # j => job'[k] = job[k]
  BY OthersStay
<1> QED
  BY <1>5, <1>6 DEF TalliesInv

LEMMA TalliesAlways == Spec => []TalliesInv
<1>1. Init => TalliesInv
  <2>1. Tallied(NoJob)
    BY DEF NoJob, Tallied
  <2> QED
    BY <2>1 DEF Init, TalliesInv
<1>2. TypeInv /\ Listings /\ TalliesInv /\ [Next]_vars => TalliesInv'
  <2> SUFFICES ASSUME TypeInv, Listings, TalliesInv, [Next]_vars PROVE TalliesInv'
    OBVIOUS
  <2>1. TypeInv'
    BY TypeStep
  <2>2. CASE job' = job
    BY <2>2 DEF TalliesInv
  <2> QED
    BY <2>1, <2>2, TalliesStep, Frames DEF Next, vars
<1> QED
  BY <1>1, <1>2, TypeAlways, ListingsAlways, PTL DEF Spec

\* The totals a refresh-all returns are those of its results, and its results name
\* the rows it listed, each once (RefreshAll, refreshDisplay).
THEOREM TallyAlwaysTells == Spec => []TallyTells
<1>1. TypeInv /\ Listings /\ TalliesInv => TallyTells
  <2> SUFFICES ASSUME TypeInv, NEW j \in Refreshers, job[j].all, Listing(job[j]), Tallied(job[j])
               PROVE  LET tally == job[j].tally
                          With(outcomes) == Cardinality({e \in Endpoint : job[j].results[e] \in outcomes})
                      IN /\ tally.succeeded = With({"available"})
                         /\ tally.failed = With({"unavailable"})
                         /\ tally.archived = With({"archived"})
                         /\ tally.cooldown = With({"cooldown"})
                         /\ tally.disabled = With({"disabled", "quota_disabled"})
                         /\ tally.notConfigured = With({"quota_not_configured"})
                         /\ tally.attempted = tally.succeeded + tally.failed + IF Working(j) THEN 1 ELSE 0
                         /\ job[j].pc = "done" =>
                              \A e \in Endpoint : job[j].results[e] # "none" <=> e \in job[j].listed
    BY DEF TallyTells, Listings, TalliesInv
  <2>1. job[j].pc = "done" => job[j].todo = {}
    BY DEF Listing
  <2>2. job[j].pc = "done" =>
          \A e \in Endpoint : job[j].results[e] # "none" <=> e \in job[j].listed
    BY <2>1 DEF Tallied, Recorded, Asking
  <2> QED
    BY <2>2 DEF Tallied, Totals, CountOf, Attempted, Working, Asking
<1> QED
  BY <1>1, TypeAlways, ListingsAlways, TalliesAlways, PTL

----------------------------------------------------------------------------
(* What a refresh sums up. The pages before the one it asks for were full.    *)

WholeSum(x) ==
  \/ x.fetched = x.accounts
  \/ ~x.declared /\ x.fetched = MaxPages * PageSize /\ x.accounts > x.fetched

Summed(x) ==
  /\ x.pc \in {"next", "resolve", "login", "tokens"} => x.fetched = 0
  /\ x.pc = "tokens" => x.cred.flow # "v3"
  /\ x.pc = "pages" => /\ x.page \in 1..MaxPages
                       /\ x.fetched = (x.page - 1) * PageSize
                       /\ x.fetched <= x.accounts
  /\ x.pc = "store" /\ x.available /\ x.cred.flow = "v3" => WholeSum(x)

SumsInv == \A j \in Refreshers : Summed(job[j])

\* A page that is not the last is full, and the last completes the sum or is the
\* last that is asked for.
LEMMA PageSum ==
  ASSUME JobsOK, NEW j \in Refreshers, job[j].pc = "pages", Summed(job[j])
  PROVE  LET fetched == job[j].fetched + OnPage(j)
         IN /\ fetched \in Nat /\ fetched <= job[j].accounts
            /\ ~LastPage(j) =>
                 /\ job[j].page + 1 \in 1..MaxPages
                 /\ fetched = job[j].page * PageSize
            /\ LastPage(j) /\ Complete(j, fetched) =>
                 \/ fetched = job[j].accounts
                 \/ /\ ~job[j].declared
                    /\ fetched = MaxPages * PageSize /\ job[j].accounts > fetched
<1> DEFINE x == job[j]
           size == PageSize
           before == (x.page - 1) * size
           fetched == x.fetched + OnPage(j)
<1>1. /\ MaxPages \in Nat \ {0} /\ size \in Nat \ {0} /\ x.accounts \in Nat
      /\ x.page \in 1..MaxPages /\ x.fetched = before /\ x.fetched <= x.accounts
      /\ x.fetched \in Nat /\ x.declared \in BOOLEAN
  BY QuotaAssumption DEF JobsOK, Job, Summed, QuotaAssumption
<1>2. before \in Int /\ x.page * size = before + size /\ x.page * size \in Int
  <2>1. \A n \in Int, m \in Int : n * m \in Int /\ (n - 1) * m = n * m - m
    OBVIOUS
  <2> QED
    BY <1>1, <2>1
<1>3. OnPage(j) = IF x.accounts - before < size THEN x.accounts - before ELSE size
  BY <1>1, <1>2 DEF OnPage
<1>4. fetched \in Nat /\ fetched <= x.accounts
  BY <1>1, <1>2, <1>3
<1>5. OnPage(j) < size => fetched = x.accounts
  BY <1>1, <1>2, <1>3
<1>6. ~(OnPage(j) < size) => fetched = x.page * size
  BY <1>1, <1>2, <1>3
<1>7. ASSUME ~LastPage(j) PROVE x.page + 1 \in 1..MaxPages /\ fetched = x.page * size
  <2>1. ~(OnPage(j) < size) /\ x.page # MaxPages
    BY <1>7 DEF LastPage
  <2>2. x.page + 1 \in 1..MaxPages
    BY <1>1, <2>1
  <2> HIDE DEF fetched
  <2> QED
    BY <1>6, <2>1, <2>2
<1>8. ASSUME LastPage(j), Complete(j, fetched)
      PROVE  \/ fetched = x.accounts
             \/ ~x.declared /\ fetched = MaxPages * size /\ x.accounts > fetched
  <2>1. CASE x.declared
    <3>1. ~(x.accounts > fetched)
      BY <1>8, <2>1 DEF Complete
    <3> HIDE DEF fetched
    <3>2. fetched = x.accounts
      BY <1>1, <1>4, <3>1
    <3> QED
      BY <3>2
  <2>2. CASE ~x.declared
    <3>1. OnPage(j) < size \/ x.page = MaxPages
      BY <1>8, <2>2 DEF LastPage
    <3> QED
      BY <1>1, <1>4, <1>5, <1>6, <2>2, <3>1
  <2> QED
    BY <2>1, <2>2
<1> QED
  BY <1>4, <1>7, <1>8

LEMMA RefreshSum ==
  ASSUME TypeInv, NEW j \in Refreshers, Summed(job[j]), Refresh(j)
  PROVE  Summed(job'[j])
<1> DEFINE x == job[j]
           y == job'[j]
<1>1. x \in Job /\ job \in [Refreshers -> Job]
  BY DEF TypeInv, JobsOK
<1>2. CASE \E e \in Endpoint : RefreshKey(j, e)
  BY <1>1, <1>2 DEF RefreshKey, NoJob, Summed
<1>3. CASE RefreshAllKeys(j)
  <2>1. y.pc = "next" /\ y.fetched = 0
    BY <1>1, <1>3 DEF RefreshAllKeys, NoJob
  <2> QED
    BY <2>1 DEF Summed
<1>4. ASSUME NEW d \in job[j].todo, SkipNext(j, d) \/ AttemptNext(j, d) PROVE Summed(y)
  <2>1. x.pc = "next" /\ y.pc \in {"next", "resolve"} /\ y.fetched = x.fetched
    BY <1>1, <1>4 DEF SkipNext, AttemptNext, IsNext, Job
  <2> QED
    BY <2>1 DEF Summed
<1>5. CASE Resolve(j)
  <2> DEFINE cred == CredentialOf(j)
  <2>1. /\ x.pc = "resolve" /\ y.pc = (IF cred.flow = "v3" THEN "login" ELSE "tokens")
        /\ y.cred = cred /\ y.fetched = x.fetched
    BY <1>1, <1>5 DEF Resolve, Job
  <2> HIDE DEF cred, y
  <2> QED
    BY <2>1 DEF Summed, y
<1>6. CASE ResolveNothing(j) \/ LoginFails(j) \/ PageFails(j)
  <2>1. y.pc = "store" /\ ~y.available
    BY <1>1, <1>6 DEF ResolveNothing, LoginFails, PageFails, Answer, Job
  <2> QED
    BY <2>1 DEF Summed
<1>7. CASE FetchTokens(j)
  <2>1. x.pc = "tokens" /\ y.pc = "store" /\ y.cred = x.cred
    BY <1>1, <1>7 DEF FetchTokens, Answer, Job
  <2> QED
    BY <2>1 DEF Summed
<1>8. ASSUME NEW n \in Accounts, NEW declared \in BOOLEAN, Login(j, n, declared) PROVE Summed(y)
  <2>1. /\ x.pc = "login" /\ y.pc = "pages" /\ y.page = 1 /\ y.accounts = n
        /\ y.fetched = x.fetched
    BY <1>1, <1>8 DEF Login, Job
  <2>2. n \in Nat /\ MaxPages \in Nat \ {0} /\ (1 - 1) * PageSize = 0
    BY QuotaAssumption DEF QuotaAssumption
  <2> HIDE DEF y
  <2> QED
    BY <2>1, <2>2 DEF Summed
<1>9. CASE FetchPage(j)
  <2> DEFINE fetched == x.fetched + OnPage(j)
             complete == Complete(j, fetched)
             last == [x EXCEPT !.pc = "store", !.fetched = fetched, !.available = complete]
             more == [x EXCEPT !.page = x.page + 1, !.fetched = fetched]
  <2>1. x.pc = "pages" /\ y = IF LastPage(j) THEN last ELSE more
    BY <1>1, <1>9 DEF FetchPage
  <2>2. /\ fetched <= x.accounts
        /\ ~LastPage(j) => x.page + 1 \in 1..MaxPages /\ fetched = x.page * PageSize
        /\ LastPage(j) /\ complete =>
             \/ fetched = x.accounts
             \/ ~x.declared /\ fetched = MaxPages * PageSize /\ x.accounts > fetched
    BY <2>1, PageSum DEF TypeInv
  <2> HIDE DEF fetched, complete
  <2>3. CASE LastPage(j)
    <3>1. /\ y.pc = "store" /\ y.fetched = fetched /\ y.available = complete
          /\ y.accounts = x.accounts /\ y.declared = x.declared
      BY <1>1, <2>1, <2>3 DEF Job
    <3> QED
      BY <2>2, <2>3, <3>1 DEF Summed, WholeSum
  <2>4. CASE ~LastPage(j)
    <3>1. y.pc = "pages" /\ y.page = x.page + 1 /\ y.fetched = fetched /\ y.accounts = x.accounts
      BY <1>1, <2>1, <2>4 DEF Job
    <3>2. x.page \in Int
      BY <1>1, QuotaAssumption DEF Job, QuotaAssumption
    <3>3. y.page - 1 = x.page
      BY <3>1, <3>2
    <3>4. y.page \in 1..MaxPages /\ y.fetched = (y.page - 1) * PageSize /\ y.fetched <= y.accounts
      BY <2>2, <2>4, <3>1, <3>3, Zenon
    <3> HIDE DEF y
    <3> QED
      BY <3>1, <3>4 DEF Summed, y
  <2> QED
    BY <2>3, <2>4
<1>10. CASE Store(j) \/ StoreFails(j)
  <2>1. Store(j) => y.pc \in {"done", "next"} /\ y.fetched = 0
    BY <1>1 DEF Store, NoJob
  <2>2. StoreFails(j) => y.pc = "failed"
    BY <1>1 DEF StoreFails, NoJob
  <2> QED
    BY <1>10, <2>1, <2>2 DEF Summed
<1>11. CASE Finish(j)
  <2>1. y.pc = "done"
    BY <1>1, <1>11 DEF Finish, Job
  <2> QED
    BY <2>1 DEF Summed
<1> QED
  BY <1>2, <1>3, <1>4, <1>5, <1>6, <1>7, <1>8, <1>9, <1>10, <1>11 DEF Refresh, Progress

\* What is stored as an account's quota sums every account once, unless the
\* upstream never said how many it has and they fill all the pages that are asked
\* for (fetchGrok2APIV3Accounts).
THEOREM QuotaAlwaysCountsAccounts == Spec => []QuotaCountsAccounts
<1>1. Init => SumsInv
  <2>1. Summed(NoJob)
    BY DEF NoJob, Summed
  <2> QED
    BY <2>1 DEF Init, SumsInv
<1>2. TypeInv /\ SumsInv /\ [Next]_vars => SumsInv'
  <2> SUFFICES ASSUME TypeInv, SumsInv, [Next]_vars PROVE SumsInv'
    OBVIOUS
  <2>1. CASE job' = job
    BY <2>1 DEF SumsInv
  <2>2. ASSUME NEW j \in Refreshers, Refresh(j) PROVE SumsInv'
    BY <2>2, RefreshSum, OthersStay DEF SumsInv
  <2> QED
    BY <2>1, <2>2, Frames DEF Next, vars
<1>3. SumsInv => QuotaCountsAccounts
  BY DEF SumsInv, Summed, WholeSum, QuotaCountsAccounts
<1> QED
  BY <1>1, <1>2, <1>3, TypeAlways, PTL DEF Spec

============================================================================
