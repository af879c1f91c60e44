------------------------ MODULE OperatorLogin_proofs ------------------------
(***************************************************************************)
(* Proofs about OperatorLogin, for any number of handlers, admins, users,  *)
(* browsers and apps.                                                      *)
(*                                                                         *)
(* A sign-in goes back to the token of its Start, its origin. The origin   *)
(* is in one place at a time: in a flow, with a handler between the flow it*)
(* took and the consent it puts, or among the approved (Alone). In each    *)
(* place it comes with the browser, the form and the settings' revision it *)
(* was started with; and what a handler has read of the settings is what   *)
(* they are for as long as their revision stands.                          *)
(***************************************************************************)
EXTENDS OperatorLogin, FiniteSetTheorems, TLAPS

Beginning == [browser: Browsers \cup {NoBrowser}, form: Forms \cup {NoForm},
           revision: 0..MaxRevisions]

FieldsOK ==
  /\ now \in 0..MaxTime
  /\ config \in Config
  /\ saving \in [Admins -> Saving]
  /\ lastFlow \in 0..MaxTokens
  /\ flows \in [Token -> Flow]
  /\ handler \in [Handlers -> Handler]
  /\ began \in [Token -> Beginning]
  /\ approvals \in [Token -> Nat]

SecretsOK ==
  /\ config.secret \subseteq {config.client}
  /\ \A a \in Admins : saving[a].secret \subseteq {saving[a].client}

\* The sign-in is at this origin, and nothing was approved for it yet.
Traced(origin, row) ==
  /\ origin \in 1..lastFlow
  /\ began[origin] = [browser |-> row.browser, form |-> row.form, revision |-> row.revision]
  /\ approvals[origin] = 0

FlowOK(t) ==
  /\ flows[t].phase # "none" => t <= lastFlow /\ Traced(flows[t].origin, flows[t])
  /\ flows[t].phase # "consent" => flows[t].user = {}
  /\ flows[t].phase = "consent" => \E u \in Users : flows[t].user = {u}

\* Between the flow it took and the consent it puts.
Carrying(row) == row.pc \in {"exchange", "recheck", "consent"}

HandlerOK(row) ==
  /\ row.pc \in {"finish", "consume"} => row.token \in 1..lastFlow
  /\ Carrying(row) => Traced(row.token, row)
  /\ row.pc \in {"recheck", "consent"} => \E u \in Users : row.user = {u}
  /\ row.pc # "idle" =>
       /\ row.revision <= config.revision
       /\ row.revision = config.revision => row.allowed = config.allowed

InFlow(t) == flows[t].phase # "none"

Alone ==
  /\ \A s, t \in Token : InFlow(s) /\ InFlow(t) /\ flows[s].origin = flows[t].origin => s = t
  /\ \A g, h \in Handlers :
       Carrying(handler[g]) /\ Carrying(handler[h]) /\ handler[g].token = handler[h].token => g = h
  /\ \A t \in Token, h \in Handlers :
       InFlow(t) /\ Carrying(handler[h]) => flows[t].origin # handler[h].token

ApprovalsOK == \A t \in Token : approvals[t] <= 1 /\ (t > lastFlow => approvals[t] = 0)

IInv ==
  /\ FieldsOK
  /\ SecretsOK
  /\ \A t \in Token : FlowOK(t)
  /\ \A h \in Handlers : HandlerOK(handler[h])
  /\ Alone
  /\ ApprovalsOK

USE OperatorAssumption DEF OperatorAssumption, Token

----------------------------------------------------------------------------
(* Values. *)

LEMMA IdleRow == Idle \in Handler /\ Idle.pc = "idle"
BY DEF Idle, Handler

LEMMA EmptyFlow == NoFlow \in Flow /\ NoFlow.phase = "none" /\ NoFlow.user = {}
BY DEF NoFlow, Flow

LEMMA EmptyConfig ==
  /\ NoConfig \in Config /\ NoConfig.secret = {} /\ NoConfig.revision = 0
  /\ NotSaving \in Saving /\ NotSaving.secret = {}
BY DEF NoConfig, Config, NotSaving, Saving

LEMMA InitHolds == Init => IInv
<1> SUFFICES ASSUME Init PROVE IInv
  OBVIOUS
<1>1. FieldsOK
  BY IdleRow, EmptyFlow, EmptyConfig DEF Init, FieldsOK, Beginning
<1>2. SecretsOK
  BY EmptyConfig DEF Init, SecretsOK
<1>3. \A t \in Token : FlowOK(t)
  BY EmptyFlow DEF Init, FlowOK
<1>4. \A h \in Handlers : HandlerOK(handler[h])
  BY IdleRow DEF Init, HandlerOK, Carrying
<1>5. Alone
  BY IdleRow, EmptyFlow DEF Init, Alone, InFlow, Carrying
<1>6. ApprovalsOK
  BY DEF Init, ApprovalsOK
<1> QED
  BY <1>1, <1>2, <1>3, <1>4, <1>5, <1>6 DEF IInv

----------------------------------------------------------------------------
(* Steps of one handler that put and approve nothing. *)

\* The handler's row, and flows that are gone, are all that changes; it carries
\* an origin only if it did before or took the flow that had it.
LEMMA MoveKeeps ==
  ASSUME IInv, NEW h \in Handlers, NEW row \in Handler,
         handler' = [handler EXCEPT ![h] = row],
         flows' \in [Token -> Flow],
         \A t \in Token : flows'[t] = flows[t] \/ flows'[t] = NoFlow,
         UNCHANGED <<now, config, saving, lastFlow, began, approvals>>,
         HandlerOK(row),
         Carrying(row) =>
           \/ Carrying(handler[h]) /\ handler[h].token = row.token
           \/ \E t \in Token : InFlow(t) /\ flows'[t] = NoFlow /\ row.token = flows[t].origin
  PROVE  IInv'
<1>1. FieldsOK'
  BY DEF IInv, FieldsOK
<1>2. SecretsOK'
  BY DEF IInv, SecretsOK
<1>3. ASSUME NEW t \in Token PROVE FlowOK(t)'
  BY EmptyFlow DEF IInv, FlowOK, Traced
<1>4. ASSUME NEW g \in Handlers PROVE HandlerOK(handler[g])'
  <2>1. handler'[g] = IF g = h THEN row ELSE handler[g]
    BY DEF IInv, FieldsOK
  <2>2. HandlerOK(handler'[g])
    BY <2>1 DEF IInv
  <2> QED
    BY <2>2 DEF HandlerOK, Traced
<1>5. Alone'
  <2>1. \A g \in Handlers : handler'[g] = IF g = h THEN row ELSE handler[g]
    BY DEF IInv, FieldsOK
  <2>2. \A t \in Token : InFlow(t)' => InFlow(t) /\ flows'[t] = flows[t]
    BY EmptyFlow DEF InFlow
  <2>3. CASE ~Carrying(row) \/ (Carrying(handler[h]) /\ handler[h].token = row.token)
    BY <2>1, <2>2, <2>3 DEF IInv, Alone
  <2>4. CASE Carrying(row) /\ \E t \in Token : InFlow(t) /\ flows'[t] = NoFlow /\ row.token = flows[t].origin
    <3>1. PICK t \in Token : InFlow(t) /\ flows'[t] = NoFlow /\ row.token = flows[t].origin
      BY <2>4
    <3>2. \A s \in Token : InFlow(s)' => flows'[s].origin # row.token
      <4> SUFFICES ASSUME NEW s \in Token, InFlow(s)', flows'[s].origin = row.token PROVE FALSE
        OBVIOUS
      <4>1. s = t
        BY <2>2, <3>1 DEF IInv, Alone
      <4> QED
        BY <4>1, <3>1, EmptyFlow DEF InFlow
    <3>3. \A g \in Handlers : Carrying(handler[g]) => handler[g].token # row.token
      BY <3>1 DEF IInv, Alone
    <3>4. \A s, s1 \in Token : InFlow(s)' /\ InFlow(s1)' /\ flows'[s].origin = flows'[s1].origin => s = s1
      BY <2>2 DEF IInv, Alone
    <3>5. \A g, g1 \in Handlers :
            Carrying(handler'[g]) /\ Carrying(handler'[g1]) /\ handler'[g].token = handler'[g1].token => g = g1
      BY <2>1, <3>3 DEF IInv, Alone
    <3>6. \A s \in Token, g \in Handlers :
            InFlow(s)' /\ Carrying(handler'[g]) => flows'[s].origin # handler'[g].token
      BY <2>1, <2>2, <3>2 DEF IInv, Alone
    <3> QED
      BY <3>4, <3>5, <3>6 DEF Alone, Carrying
  <2> QED
    BY <2>3, <2>4
<1>6. ApprovalsOK'
  BY DEF IInv, ApprovalsOK
<1> QED
  BY <1>1, <1>2, <1>3, <1>4, <1>5, <1>6 DEF IInv

\* With the flows left alone and nothing carried that was not.
LEMMA TurnKeeps ==
  ASSUME IInv, NEW h \in Handlers, NEW row \in Handler,
         handler' = [handler EXCEPT ![h] = row],
         UNCHANGED <<now, config, saving, lastFlow, flows, began, approvals>>,
         HandlerOK(row),
         Carrying(row) => Carrying(handler[h]) /\ handler[h].token = row.token
  PROVE  IInv'
<1>1. flows' \in [Token -> Flow] /\ \A t \in Token : flows'[t] = flows[t]
  BY DEF IInv, FieldsOK
<1> QED
  BY <1>1, MoveKeeps

LEMMA IdleOK == HandlerOK(Idle) /\ ~Carrying(Idle)
BY IdleRow DEF HandlerOK, Carrying

LEMMA EnterKeeps ==
  ASSUME IInv, NEW h \in Handlers, NEW row \in Handler, Enter(h, row),
         row.pc \in {"start", "finish", "consume"},
         row.pc # "start" => row.token \in 1..lastFlow
  PROVE  IInv'
<1> DEFINE new == [row EXCEPT !.revision = config.revision, !.allowed = config.allowed]
<1>1. config.revision \in 0..MaxRevisions /\ config.allowed \in SUBSET Users
  BY DEF IInv, FieldsOK, Config
<1>2. /\ new \in Handler /\ new.pc = row.pc /\ new.token = row.token
      /\ new.revision = config.revision /\ new.allowed = config.allowed
  BY <1>1 DEF Handler
<1>3. /\ handler' = [handler EXCEPT ![h] = new]
      /\ UNCHANGED <<now, config, saving, lastFlow, flows, began, approvals>>
  BY DEF Enter, settings
<1> HIDE DEF new
<1>4. HandlerOK(new) /\ ~Carrying(new)
  BY <1>1, <1>2 DEF HandlerOK, Carrying
<1> QED
  BY <1>2, <1>3, <1>4, TurnKeeps

LEMMA EnterFinishKeeps ==
  ASSUME IInv, NEW h \in Handlers, NEW b \in Browsers, NEW t \in 1..lastFlow, EnterFinish(h, b, t)
  PROVE  IInv'
<1>0. t \in 0..MaxTokens
  BY DEF IInv, FieldsOK
<1> DEFINE row == [Idle EXCEPT !.pc = "finish", !.browser = b, !.token = t]
<1>1. row \in Handler /\ row.pc = "finish" /\ row.token = t
  BY <1>0, IdleRow DEF Handler
<1>2. Enter(h, row)
  BY DEF EnterFinish
<1> HIDE DEF row
<1> QED
  BY <1>1, <1>2, EnterKeeps

LEMMA EnterConsumeKeeps ==
  ASSUME IInv, NEW h \in Handlers, NEW b \in Browsers, NEW f \in Forms, NEW t \in 1..lastFlow,
         EnterConsume(h, b, t, f)
  PROVE  IInv'
<1>0. t \in 0..MaxTokens
  BY DEF IInv, FieldsOK
<1> DEFINE row == [Idle EXCEPT !.pc = "consume", !.browser = b, !.token = t, !.form = f]
<1>1. row \in Handler /\ row.pc = "consume" /\ row.token = t
  BY <1>0, IdleRow DEF Handler
<1>2. Enter(h, row)
  BY DEF EnterConsume
<1> HIDE DEF row
<1> QED
  BY <1>1, <1>2, EnterKeeps

LEMMA EnterStartKeeps ==
  ASSUME IInv, NEW h \in Handlers, NEW b \in Browsers, NEW f \in Forms, EnterStart(h, b, f)
  PROVE  IInv'
<1> DEFINE row == [Idle EXCEPT !.pc = "start", !.browser = b, !.form = f]
<1>1. row \in Handler /\ row.pc = "start"
  BY IdleRow DEF Handler
<1>2. Enter(h, row)
  BY DEF EnterStart
<1> HIDE DEF row
<1> QED
  BY <1>1, <1>2, EnterKeeps

LEMMA FinishKeeps ==
  ASSUME IInv, NEW h \in Handlers, Finish(h)
  PROVE  IInv'
<1> DEFINE flow == flows[handler[h].token]
           row == [handler[h] EXCEPT !.pc = "exchange", !.form = flow.form, !.token = flow.origin]
<1>1. /\ handler[h].pc = "finish" /\ handler[h] \in Handler
      /\ UNCHANGED <<now, config, saving, lastFlow, began, approvals>>
  BY DEF Finish, settings, IInv, FieldsOK
<1>2. handler[h].token \in Token /\ flow \in Flow /\ FlowOK(handler[h].token)
  BY <1>1 DEF IInv, FieldsOK, HandlerOK
<1>3. CASE Takes(h, "github")
  <2>1. /\ flow.phase = "github" /\ flow.browser = handler[h].browser
        /\ flow.revision = handler[h].revision
    BY <1>3 DEF Takes
  <2>2. /\ row \in Handler /\ row.pc = "exchange" /\ row.token = flow.origin
        /\ row.form = flow.form /\ row.browser = flow.browser /\ row.revision = flow.revision
        /\ row.allowed = handler[h].allowed
    BY <1>1, <1>2, <2>1 DEF Handler, Flow
  <2>3. /\ handler' = [handler EXCEPT ![h] = row]
        /\ flows' = [flows EXCEPT ![handler[h].token] = NoFlow]
    BY <1>3 DEF Finish, Take
  <2>4. flows' \in [Token -> Flow] /\ \A t \in Token : flows'[t] = flows[t] \/ flows'[t] = NoFlow
    BY <2>3, EmptyFlow DEF IInv, FieldsOK
  <2>5. Traced(flow.origin, flow) /\ InFlow(handler[h].token) /\ flows'[handler[h].token] = NoFlow
    BY <1>2, <2>1, <2>3 DEF FlowOK, InFlow, IInv, FieldsOK
  <2>6. handler[h].revision <= config.revision
        /\ (handler[h].revision = config.revision => handler[h].allowed = config.allowed)
    BY <1>1 DEF IInv, HandlerOK
  <2> HIDE DEF row, flow
  <2>7. Traced(row.token, row)
    BY <2>2, <2>5 DEF Traced
  <2>8. HandlerOK(row)
    BY <2>1, <2>2, <2>6, <2>7 DEF HandlerOK
  <2>9. \E t \in Token : InFlow(t) /\ flows'[t] = NoFlow /\ row.token = flows[t].origin
    BY <1>2, <2>2, <2>5 DEF flow
  <2> QED
    BY <1>1, <2>2, <2>3, <2>4, <2>8, <2>9, MoveKeeps
<1>4. CASE ~Takes(h, "github")
  <2>1. handler' = [handler EXCEPT ![h] = Idle] /\ flows' = flows
    BY <1>4 DEF Finish, Take
  <2> QED
    BY <1>1, <2>1, IdleRow, IdleOK, TurnKeeps
<1> QED
  BY <1>3, <1>4

LEMMA ExchangeKeeps ==
  ASSUME IInv, NEW h \in Handlers, NEW u \in Users, Exchange(h, u)
  PROVE  IInv'
<1> DEFINE row == [handler[h] EXCEPT !.pc = "recheck", !.user = {u}]
<1>1. /\ handler[h].pc = "exchange" /\ handler[h] \in Handler /\ HandlerOK(handler[h])
      /\ UNCHANGED <<now, config, saving, lastFlow, flows, began, approvals>>
  BY DEF Exchange, settings, IInv, FieldsOK
<1>2. handler' = [handler EXCEPT ![h] = row] \/ handler' = [handler EXCEPT ![h] = Idle]
  BY DEF Exchange, IInv, FieldsOK
<1>3. /\ row \in Handler /\ row.pc = "recheck" /\ row.user = {u} /\ row.token = handler[h].token
      /\ row.browser = handler[h].browser /\ row.form = handler[h].form
      /\ row.revision = handler[h].revision /\ row.allowed = handler[h].allowed
  BY <1>1 DEF Handler
<1> HIDE DEF row
<1>4. HandlerOK(row) /\ Carrying(handler[h])
  BY <1>1, <1>3 DEF HandlerOK, Carrying, Traced
<1> QED
  BY <1>1, <1>2, <1>3, <1>4, IdleRow, IdleOK, TurnKeeps

LEMMA RecheckKeeps ==
  ASSUME IInv, NEW h \in Handlers, Recheck(h)
  PROVE  IInv'
<1> DEFINE row == [handler[h] EXCEPT !.pc = "consent"]
<1>1. /\ handler[h].pc = "recheck" /\ handler[h] \in Handler /\ HandlerOK(handler[h])
      /\ UNCHANGED <<now, config, saving, lastFlow, flows, began, approvals>>
  BY DEF Recheck, settings, IInv, FieldsOK
<1>2. handler' = [handler EXCEPT ![h] = row] \/ handler' = [handler EXCEPT ![h] = Idle]
  BY DEF Recheck, IInv, FieldsOK
<1>3. /\ row \in Handler /\ row.pc = "consent" /\ row.user = handler[h].user
      /\ row.token = handler[h].token
      /\ row.browser = handler[h].browser /\ row.form = handler[h].form
      /\ row.revision = handler[h].revision /\ row.allowed = handler[h].allowed
  BY <1>1 DEF Handler
<1> HIDE DEF row
<1>4. HandlerOK(row) /\ Carrying(handler[h])
  BY <1>1, <1>3 DEF HandlerOK, Carrying, Traced
<1> QED
  BY <1>1, <1>2, <1>3, <1>4, IdleRow, IdleOK, TurnKeeps

LEMMA FailKeeps ==
  ASSUME IInv, NEW h \in Handlers, Fail(h)
  PROVE  IInv'
<1>1. /\ handler' = [handler EXCEPT ![h] = Idle]
      /\ UNCHANGED <<now, config, saving, lastFlow, flows, began, approvals>>
  BY DEF Fail, settings
<1> QED
  BY <1>1, IdleRow, IdleOK, TurnKeeps

----------------------------------------------------------------------------
(* put. *)

\* A flow is put under a new token: it starts an origin of its own there, or has
\* the one the handler that puts it was carrying.
LEMMA PutKeeps ==
  ASSUME IInv, NEW h \in Handlers, NEW row \in Flow, Put(h, row), lastFlow' = lastFlow + 1,
         row.phase \in {"github", "consent"},
         row.phase = "github" => row.user = {},
         row.phase = "consent" => \E u \in Users : row.user = {u},
         began' \in [Token -> Beginning],
         \A t \in 1..lastFlow : began'[t] = began[t],
         row.origin \in Token,
         began'[row.origin] = [browser |-> row.browser, form |-> row.form, revision |-> row.revision],
         \/ row.origin = lastFlow + 1
         \/ Carrying(handler[h]) /\ handler[h].token = row.origin
  PROVE  IInv'
<1> DEFINE n == lastFlow + 1
<1>1. /\ n \in Token
      /\ handler' = [handler EXCEPT ![h] = Idle]
      /\ UNCHANGED <<now, config, saving, approvals>>
      /\ lastFlow \in 0..MaxTokens
  BY DEF Put, settings, IInv, FieldsOK
<1>2. flows' = [t \in Token |->
        IF t = lastFlow + 1 THEN row ELSE IF t \in Live THEN flows[t] ELSE NoFlow]
  BY <1>1 DEF Put
<1>3. /\ flows' \in [Token -> Flow] /\ flows'[n] = row
      /\ \A t \in Token \ {n} : flows'[t] = flows[t] \/ flows'[t] = NoFlow
  BY <1>1, <1>2, EmptyFlow DEF IInv, FieldsOK
<1>4. lastFlow' = n
  OBVIOUS
<1> HIDE DEF n
<1>5. \A g \in Handlers : handler'[g] = IF g = h THEN Idle ELSE handler[g]
  BY <1>1 DEF IInv, FieldsOK
<1>6. \A t \in Token : t # n /\ InFlow(t)' => InFlow(t) /\ flows'[t] = flows[t]
  BY <1>3, EmptyFlow DEF InFlow
<1>7. n = lastFlow + 1 /\ lastFlow \in Nat
  BY <1>1 DEF n
<1>8. \A t \in Token : InFlow(t) => flows[t].origin \in 1..lastFlow
  BY DEF IInv, FlowOK, InFlow, Traced
<1>9. \A g \in Handlers : Carrying(handler[g]) =>
        handler[g].token \in 1..lastFlow /\ approvals[handler[g].token] = 0
  BY DEF IInv, HandlerOK, Traced
<1>10. row.origin \in 1..n /\ approvals[row.origin] = 0
  <2>1. CASE row.origin = n
    BY <1>1, <1>7, <2>1 DEF IInv, ApprovalsOK
  <2>2. CASE Carrying(handler[h]) /\ handler[h].token = row.origin
    BY <1>7, <1>9, <2>2
  <2> QED
    BY <2>1, <2>2, <1>7
<1>11. FieldsOK'
  BY <1>1, <1>3, <1>4, IdleRow DEF IInv, FieldsOK
<1>12. SecretsOK'
  BY <1>1 DEF IInv, SecretsOK
<1>13. ASSUME NEW t \in Token PROVE FlowOK(t)'
  <2>1. CASE t = n
    BY <2>1, <1>1, <1>3, <1>4, <1>7, <1>10 DEF FlowOK, Traced
  <2>2. CASE t # n /\ flows'[t] = flows[t]
    <3>1. FlowOK(t)
      BY DEF IInv
    <3>2. CASE InFlow(t)
      <4>1. began'[flows[t].origin] = began[flows[t].origin]
        BY <1>8, <3>2
      <4> QED
        BY <2>2, <3>1, <3>2, <4>1, <1>1, <1>4, <1>7 DEF FlowOK, Traced, InFlow
    <3>3. CASE ~InFlow(t)
      BY <2>2, <3>1, <3>3 DEF FlowOK, InFlow
    <3> QED
      BY <3>2, <3>3
  <2>3. CASE t # n /\ flows'[t] = NoFlow
    BY <2>3, EmptyFlow DEF FlowOK
  <2> QED
    BY <1>3, <2>1, <2>2, <2>3
<1>14. ASSUME NEW g \in Handlers PROVE HandlerOK(handler[g])'
  <2>1. CASE g = h
    BY <2>1, <1>5, IdleRow DEF HandlerOK, Carrying
  <2>2. CASE g # h
    BY <2>2, <1>1, <1>4, <1>5, <1>7 DEF IInv, HandlerOK, Traced, Carrying
  <2> QED
    BY <2>1, <2>2
<1>15. Alone'
  <2>1. \A t \in Token : InFlow(t) => flows[t].origin # row.origin
    <3>1. CASE row.origin = n
      BY <3>1, <1>7, <1>8
    <3>2. CASE Carrying(handler[h]) /\ handler[h].token = row.origin
      BY <3>2 DEF IInv, Alone
    <3> QED
      BY <3>1, <3>2, <1>7
  <2>2. \A g \in Handlers : g # h /\ Carrying(handler[g]) => handler[g].token # row.origin
    <3>1. CASE row.origin = n
      BY <3>1, <1>7, <1>9
    <3>2. CASE Carrying(handler[h]) /\ handler[h].token = row.origin
      BY <3>2 DEF IInv, Alone
    <3> QED
      BY <3>1, <3>2, <1>7
  <2>3. \A s, t \in Token : InFlow(s)' /\ InFlow(t)' /\ flows'[s].origin = flows'[t].origin => s = t
    BY <1>1, <1>3, <1>6, <2>1 DEF IInv, Alone
  <2>4. \A g, g1 \in Handlers :
          Carrying(handler'[g]) /\ Carrying(handler'[g1]) /\ handler'[g].token = handler'[g1].token => g = g1
    BY <1>5, IdleOK DEF IInv, Alone
  <2>5. \A t \in Token, g \in Handlers :
          InFlow(t)' /\ Carrying(handler'[g]) => flows'[t].origin # handler'[g].token
    BY <1>1, <1>3, <1>5, <1>6, <2>2, IdleOK DEF IInv, Alone
  <2> QED
    BY <2>3, <2>4, <2>5 DEF Alone, Carrying
<1>16. ApprovalsOK'
  BY <1>1, <1>4, <1>7 DEF IInv, ApprovalsOK
<1> QED
  BY <1>11, <1>12, <1>13, <1>14, <1>15, <1>16 DEF IInv

\* A flow that is refused leaves all but the handler as it was.
LEMMA RefusedKeeps ==
  ASSUME IInv, NEW h \in Handlers, NEW row, Put(h, row), lastFlow' = lastFlow, UNCHANGED began
  PROVE  IInv'
<1>1. lastFlow \in Nat
  BY DEF IInv, FieldsOK
<1>2. /\ handler' = [handler EXCEPT ![h] = Idle] /\ flows' = flows
      /\ UNCHANGED <<now, config, saving, lastFlow, began, approvals>>
  BY <1>1 DEF Put, settings
<1> QED
  BY <1>2, IdleRow, IdleOK, TurnKeeps

LEMMA PutOrRefused ==
  ASSUME IInv, NEW h \in Handlers, NEW row, Put(h, row)
  PROVE  lastFlow' = lastFlow \/ lastFlow' = lastFlow + 1
BY DEF Put

LEMMA StartKeeps ==
  ASSUME IInv, NEW h \in Handlers, Start(h)
  PROVE  IInv'
<1> DEFINE old == handler[h]
           n == lastFlow + 1
           row == [NoFlow EXCEPT !.phase = "github", !.browser = old.browser, !.form = old.form,
                     !.revision = old.revision, !.expires = now + FlowTTL, !.origin = n]
           start == [browser |-> old.browser, form |-> old.form, revision |-> old.revision]
<1>1. /\ Put(h, row) /\ old \in Handler
      /\ began' = IF lastFlow' = lastFlow THEN began ELSE [began EXCEPT ![n] = start]
  BY DEF Start, IInv, FieldsOK
<1>2. n \in Token /\ lastFlow \in 0..MaxTokens
  BY <1>1 DEF Put, IInv, FieldsOK
<1>3. now + FlowTTL \in 0..(MaxTime + FlowTTL)
  BY DEF IInv, FieldsOK
<1>4. /\ row \in Flow /\ row.phase = "github" /\ row.user = {} /\ row.origin = n
      /\ row.browser = old.browser /\ row.form = old.form /\ row.revision = old.revision
  <2>1. /\ old.browser \in Browsers \cup {NoBrowser} /\ old.form \in Forms \cup {NoForm}
        /\ old.revision \in 0..MaxRevisions
    BY <1>1 DEF Handler
  <2>2. n \in 0..MaxTokens
    BY <1>2
  <2> HIDE DEF old, n
  <2> QED
    BY <2>1, <2>2, <1>3, EmptyFlow DEF Flow
<1>5. start \in Beginning /\ start = [browser |-> row.browser, form |-> row.form, revision |-> row.revision]
  BY <1>1, <1>4 DEF Beginning, Handler
<1> HIDE DEF row, start, old
<1>6. CASE lastFlow' = lastFlow
  BY <1>1, <1>6, RefusedKeeps
<1>7. CASE lastFlow' = n
  <2>1. began' = [began EXCEPT ![n] = start]
    BY <1>1, <1>2, <1>7
  <2>2. began' \in [Token -> Beginning] /\ began'[n] = start /\ \A t \in 1..lastFlow : began'[t] = began[t]
    BY <1>2, <1>5, <2>1 DEF IInv, FieldsOK
  <2> QED
    BY <1>1, <1>2, <1>4, <1>5, <1>7, <2>2, PutKeeps
<1> QED
  BY <1>1, <1>6, <1>7, PutOrRefused

LEMMA ConsentKeeps ==
  ASSUME IInv, NEW h \in Handlers, Consent(h)
  PROVE  IInv'
<1> DEFINE old == handler[h]
           row == [phase |-> "consent", browser |-> old.browser, form |-> old.form,
                   revision |-> old.revision, user |-> old.user, expires |-> now + FlowTTL,
                   origin |-> old.token]
<1>1. /\ Put(h, row) /\ old \in Handler /\ old.pc = "consent" /\ HandlerOK(old)
      /\ UNCHANGED began
  BY DEF Consent, IInv, FieldsOK
<1>2. /\ Carrying(old) /\ Traced(old.token, old) /\ \E u \in Users : old.user = {u}
  BY <1>1 DEF HandlerOK, Carrying
<1>3. now + FlowTTL \in 0..(MaxTime + FlowTTL)
  BY DEF IInv, FieldsOK
<1>4. old.token \in Token
  BY <1>2 DEF Traced, IInv, FieldsOK
<1>5. row \in Flow
  BY <1>1, <1>3, <1>4 DEF Flow, Handler
<1>6. /\ row.phase = "consent" /\ row.user = old.user /\ row.origin = old.token
      /\ row.browser = old.browser /\ row.form = old.form /\ row.revision = old.revision
  OBVIOUS
<1>7. began' \in [Token -> Beginning]
  BY <1>1 DEF IInv, FieldsOK
<1>8. began'[row.origin] = [browser |-> row.browser, form |-> row.form, revision |-> row.revision]
  BY <1>1, <1>2, <1>6 DEF Traced
<1>9. Carrying(handler[h]) /\ handler[h].token = row.origin
  BY <1>2, <1>6
<1> HIDE DEF row, old
<1>10. CASE lastFlow' = lastFlow
  BY <1>1, <1>10, RefusedKeeps
<1>11. CASE lastFlow' = lastFlow + 1
  BY <1>1, <1>2, <1>4, <1>5, <1>6, <1>7, <1>8, <1>9, <1>11, PutKeeps
<1> QED
  BY <1>1, <1>10, <1>11, PutOrRefused

----------------------------------------------------------------------------
(* Consume. *)

LEMMA ConsumeKeeps ==
  ASSUME IInv, NEW h \in Handlers, Consume(h)
  PROVE  IInv'
<1> DEFINE t == handler[h].token
           flow == flows[t]
           o == flow.origin
<1>1. /\ handler[h].pc = "consume" /\ handler[h] \in Handler
      /\ handler' = [handler EXCEPT ![h] = Idle]
      /\ UNCHANGED <<now, config, saving, lastFlow, began>>
      /\ flows' = IF Takes(h, "consent") THEN [flows EXCEPT ![t] = NoFlow] ELSE flows
      /\ approvals' = IF Approves(h) THEN [approvals EXCEPT ![o] = @ + 1] ELSE approvals
  BY DEF Consume, Take, settings, IInv, FieldsOK
<1>2. t \in Token /\ flow \in Flow /\ FlowOK(t) /\ lastFlow \in 0..MaxTokens
  BY <1>1 DEF IInv, FieldsOK, HandlerOK
<1>3. /\ flows' \in [Token -> Flow]
      /\ \A s \in Token : flows'[s] = flows[s] \/ flows'[s] = NoFlow
  BY <1>1, EmptyFlow DEF IInv, FieldsOK
<1>4. CASE ~Approves(h)
  <2>1. approvals' = approvals
    BY <1>1, <1>4
  <2> QED
    BY <1>1, <1>3, <2>1, IdleRow, IdleOK, MoveKeeps
<1>5. CASE Approves(h)
  <2>1. Takes(h, "consent") /\ InFlow(t)
    BY <1>5 DEF Approves, Takes, InFlow
  <2>2. /\ flows' = [flows EXCEPT ![t] = NoFlow]
        /\ approvals' = [approvals EXCEPT ![o] = @ + 1]
    BY <1>1, <1>5, <2>1
  <2>3. o \in 1..lastFlow /\ approvals[o] = 0
    BY <1>2, <2>1 DEF FlowOK, InFlow, Traced
  <2>4. o \in Token /\ approvals'[o] = 1 /\ \A s \in Token : s # o => approvals'[s] = approvals[s]
    BY <1>2, <2>2, <2>3 DEF IInv, FieldsOK
  <2>5. \A s \in Token : InFlow(s)' => InFlow(s) /\ flows'[s] = flows[s] /\ flows[s].origin # o
    <3> SUFFICES ASSUME NEW s \in Token, InFlow(s)'
                 PROVE  InFlow(s) /\ flows'[s] = flows[s] /\ flows[s].origin # o
      OBVIOUS
    <3>1. s # t
      BY <2>2, EmptyFlow DEF InFlow, IInv, FieldsOK
    <3>2. flows'[s] = flows[s] /\ InFlow(s)
      BY <2>2, <3>1 DEF InFlow, IInv, FieldsOK
    <3> QED
      BY <1>2, <2>1, <3>1, <3>2 DEF IInv, Alone
  <2>6. \A g \in Handlers : Carrying(handler[g]) => handler[g].token # o
    BY <1>2, <2>1 DEF IInv, Alone
  <2>7. \A g \in Handlers : handler'[g] = IF g = h THEN Idle ELSE handler[g]
    BY <1>1 DEF IInv, FieldsOK
  <2> HIDE DEF t, flow, o
  <2>8. FieldsOK'
    <3>1. approvals' \in [Token -> Nat]
      BY <2>2, <2>3 DEF IInv, FieldsOK
    <3> QED
      BY <1>1, <1>3, <3>1, IdleRow DEF IInv, FieldsOK
  <2>9. SecretsOK'
    BY <1>1 DEF IInv, SecretsOK
  <2>10. ASSUME NEW s \in Token PROVE FlowOK(s)'
    <3>1. CASE InFlow(s)'
      <4>1. flows'[s] = flows[s] /\ InFlow(s) /\ flows[s].origin # o /\ FlowOK(s)
        BY <2>5, <3>1 DEF IInv
      <4>2. flows[s].origin \in Token
        BY <1>2, <4>1 DEF FlowOK, Traced, InFlow
      <4>3. approvals'[flows[s].origin] = approvals[flows[s].origin]
        BY <2>4, <4>1, <4>2
      <4> QED
        BY <1>1, <4>1, <4>3 DEF FlowOK, Traced, InFlow
    <3>2. CASE ~InFlow(s)'
      <4>1. FlowOK(s) /\ (flows'[s] = flows[s] \/ flows'[s] = NoFlow)
        BY <1>3 DEF IInv
      <4> QED
        BY <3>2, <4>1, EmptyFlow DEF FlowOK, InFlow
    <3> QED
      BY <3>1, <3>2
  <2>11. ASSUME NEW g \in Handlers PROVE HandlerOK(handler[g])'
    <3>1. CASE g = h
      BY <3>1, <2>7, IdleRow DEF HandlerOK, Carrying
    <3>2. CASE g # h
      <4>1. handler'[g] = handler[g] /\ HandlerOK(handler[g])
        BY <2>7, <3>2 DEF IInv
      <4>2. CASE Carrying(handler[g])
        <5>1. handler[g].token \in Token /\ handler[g].token # o
          BY <1>2, <2>6, <4>1, <4>2 DEF HandlerOK, Traced
        <5>2. approvals'[handler[g].token] = approvals[handler[g].token]
          BY <2>4, <5>1
        <5> QED
          BY <1>1, <4>1, <5>2 DEF HandlerOK, Traced, Carrying
      <4>3. CASE ~Carrying(handler[g])
        BY <1>1, <4>1, <4>3 DEF HandlerOK, Carrying
      <4> QED
        BY <4>2, <4>3
    <3> QED
      BY <3>1, <3>2
  <2>12. Alone'
    <3>1. \A s, s1 \in Token : InFlow(s)' /\ InFlow(s1)' /\ flows'[s].origin = flows'[s1].origin => s = s1
      BY <2>5 DEF IInv, Alone
    <3>2. \A g, g1 \in Handlers :
            Carrying(handler'[g]) /\ Carrying(handler'[g1]) /\ handler'[g].token = handler'[g1].token => g = g1
      BY <2>7, IdleOK DEF IInv, Alone
    <3>3. \A s \in Token, g \in Handlers :
            InFlow(s)' /\ Carrying(handler'[g]) => flows'[s].origin # handler'[g].token
      BY <2>5, <2>7, IdleOK DEF IInv, Alone
    <3> QED
      BY <3>1, <3>2, <3>3 DEF Alone, Carrying
  <2>13. ApprovalsOK'
    BY <1>1, <1>2, <2>3, <2>4 DEF IInv, ApprovalsOK
  <2> QED
    BY <2>8, <2>9, <2>10, <2>11, <2>12, <2>13 DEF IInv
<1> QED
  BY <1>4, <1>5

----------------------------------------------------------------------------
(* Settings and the clock. *)

\* Settings only move on, and to another revision.
LEMMA SettingsKeep ==
  ASSUME IInv, config' \in Config, saving' \in [Admins -> Saving],
         SecretsOK', config.revision <= config'.revision,
         config'.revision = config.revision => config'.allowed = config.allowed,
         now' \in 0..MaxTime,
         UNCHANGED <<lastFlow, flows, handler, began, approvals>>
  PROVE  IInv'
<1>1. FieldsOK'
  BY DEF IInv, FieldsOK
<1>2. ASSUME NEW t \in Token PROVE FlowOK(t)'
  BY DEF IInv, FlowOK, Traced
<1>3. ASSUME NEW h \in Handlers PROVE HandlerOK(handler[h])'
  <2>1. config.revision \in Nat /\ config'.revision \in Nat /\ handler[h].revision \in Nat
    BY DEF Config, IInv, FieldsOK, Handler
  <2> QED
    BY <2>1 DEF IInv, HandlerOK, Traced
<1>4. Alone' /\ ApprovalsOK'
  BY DEF IInv, Alone, ApprovalsOK, InFlow
<1> QED
  BY <1>1, <1>2, <1>3, <1>4 DEF IInv

LEMMA LoadKeeps ==
  ASSUME IInv, NEW a \in Admins, LoadSettings(a)
  PROVE  IInv'
<1>1. /\ saving' = [saving EXCEPT ![a] = [busy |-> TRUE, client |-> config.client,
                                       secret |-> config.secret]]
      /\ UNCHANGED <<now, config, lastFlow, flows, handler, began, approvals>>
  BY DEF LoadSettings
<1>2. saving' \in [Admins -> Saving] /\ config' \in Config
  BY <1>1 DEF IInv, FieldsOK, Config, Saving
<1>3. SecretsOK'
  BY <1>1 DEF IInv, FieldsOK, SecretsOK
<1>4. config'.revision = config.revision /\ config.revision \in Nat
  BY <1>1 DEF IInv, FieldsOK, Config
<1> QED
  BY <1>1, <1>2, <1>3, <1>4, SettingsKeep DEF IInv, FieldsOK

LEMMA ForgetSaving ==
  ASSUME IInv, NEW a \in Admins, saving' = [saving EXCEPT ![a] = NotSaving]
  PROVE  /\ saving' \in [Admins -> Saving]
         /\ \A b \in Admins : saving'[b].secret \subseteq {saving'[b].client}
BY EmptyConfig DEF IInv, FieldsOK, SecretsOK

LEMMA SaveKeeps ==
  ASSUME IInv, NEW a \in Admins, NEW enabled \in BOOLEAN, NEW given \in BOOLEAN,
         NEW client \in Apps \cup {NoApp}, NEW allowed \in SUBSET Users,
         SaveSettings(a, enabled, client, given, allowed)
  PROVE  IInv'
<1> DEFINE secret == SecretAfter(saving[a], client, given)
           new == [enabled |-> enabled, client |-> client, secret |-> secret,
                   allowed |-> allowed, revision |-> config.revision + 1]
<1>1. /\ config.revision < MaxRevisions
      /\ config' = new \/ config' = config
      /\ saving' = [saving EXCEPT ![a] = NotSaving]
      /\ UNCHANGED <<now, lastFlow, flows, handler, began, approvals>>
  BY DEF SaveSettings
<1>2. secret \subseteq {client}
  BY DEF SecretAfter, IInv, SecretsOK
<1>3. config.revision \in 0..MaxRevisions /\ config \in Config
  BY DEF IInv, FieldsOK, Config
<1>4. config.revision + 1 \in 0..MaxRevisions /\ secret \in SUBSET (Apps \cup {NoApp})
  BY <1>1, <1>2, <1>3
<1>5. /\ new \in Config /\ new.secret = secret /\ new.client = client
      /\ new.revision = config.revision + 1
  BY <1>4 DEF Config
<1> HIDE DEF new, secret
<1>6. /\ config' \in Config /\ config'.secret \subseteq {config'.client}
      /\ config'.revision = config.revision + 1 \/ config' = config
  BY <1>1, <1>2, <1>3, <1>5 DEF IInv, SecretsOK
<1>7. SecretsOK'
  BY <1>1, <1>6, ForgetSaving DEF SecretsOK
<1>8. /\ config.revision <= config'.revision
      /\ config'.revision = config.revision => config'.allowed = config.allowed
  BY <1>3, <1>6
<1>9. now' \in 0..MaxTime /\ saving' \in [Admins -> Saving]
  BY <1>1, ForgetSaving DEF IInv, FieldsOK
<1> QED
  BY <1>1, <1>6, <1>7, <1>8, <1>9, SettingsKeep

LEMMA SaveFailsKeeps ==
  ASSUME IInv, NEW a \in Admins, SaveFails(a)
  PROVE  IInv'
<1>1. /\ saving' = [saving EXCEPT ![a] = NotSaving]
      /\ UNCHANGED <<now, config, lastFlow, flows, handler, began, approvals>>
  BY DEF SaveFails
<1>2. SecretsOK'
  BY <1>1, ForgetSaving DEF SecretsOK, IInv
<1>3. config'.revision = config.revision /\ config.revision \in Nat
  BY <1>1 DEF IInv, FieldsOK, Config
<1>4. /\ now' \in 0..MaxTime /\ config' \in Config
      /\ saving' \in [Admins -> Saving]
  BY <1>1, ForgetSaving DEF IInv, FieldsOK
<1> QED
  BY <1>1, <1>2, <1>3, <1>4, SettingsKeep

LEMMA TickKeeps ==
  ASSUME IInv, Tick
  PROVE  IInv'
<1>1. now' \in 0..MaxTime /\ UNCHANGED <<config, saving, lastFlow, flows, handler, began, approvals>>
  BY DEF Tick, settings, IInv, FieldsOK
<1>2. SecretsOK' /\ config'.revision = config.revision /\ config.revision \in Nat
  BY <1>1 DEF SecretsOK, IInv, FieldsOK, Config
<1> QED
  BY <1>1, <1>2, SettingsKeep DEF IInv, FieldsOK

----------------------------------------------------------------------------
(* The invariant, and what follows from it. *)

LEMMA StepKeeps ==
  ASSUME IInv, [Next]_vars
  PROVE  IInv'
<1>1. CASE UNCHANGED vars
  <2>1. UNCHANGED <<now, config, saving, lastFlow, flows, handler, began, approvals>>
    BY <1>1 DEF vars
  <2>2. SecretsOK' /\ config'.revision = config.revision /\ config.revision \in Nat
    BY <2>1 DEF SecretsOK, IInv, FieldsOK, Config
  <2> QED
    BY <2>1, <2>2, SettingsKeep DEF IInv, FieldsOK
<1>2. CASE Tick
  BY <1>2, TickKeeps
<1>3. CASE \E a \in Admins : Administer(a)
  <2>1. PICK a \in Admins : Administer(a)
    BY <1>3
  <2>2. CASE \E enabled, given \in BOOLEAN, client \in Apps \cup {NoApp}, allowed \in SUBSET Users :
               SaveSettings(a, enabled, client, given, allowed)
    BY <2>2, SaveKeeps
  <2> QED
    BY <2>1, <2>2, LoadKeeps, SaveFailsKeeps DEF Administer
<1>4. CASE \E h \in Handlers : Handle(h)
  <2>1. PICK h \in Handlers : Handle(h)
    BY <1>4
  <2>2. CASE \E b \in Browsers, f \in Forms : EnterStart(h, b, f)
    BY <2>2, EnterStartKeeps
  <2>3. CASE \E b \in Browsers, t \in 1..lastFlow : EnterFinish(h, b, t)
    BY <2>3, EnterFinishKeeps
  <2>4. CASE \E b \in Browsers, t \in 1..lastFlow, f \in Forms : EnterConsume(h, b, t, f)
    BY <2>4, EnterConsumeKeeps
  <2>5. CASE \E u \in Users : Exchange(h, u)
    BY <2>5, ExchangeKeeps
  <2> QED
    BY <2>1, <2>2, <2>3, <2>4, <2>5, StartKeeps, FinishKeeps, RecheckKeeps, ConsentKeeps,
       ConsumeKeeps, FailKeeps DEF Handle
<1> QED
  BY <1>1, <1>2, <1>3, <1>4 DEF Next

LEMMA Invariance == Spec => []IInv
BY InitHolds, StepKeeps, PTL DEF Spec

\* The table of flows, the settings and the handlers of github.go keep their
\* shape, and a row is a consent exactly when it names who signed in.
THEOREM TypeCorrect == Spec => []TypeOK
<1>1. IInv => TypeOK
  <2> SUFFICES ASSUME IInv PROVE TypeOK
    OBVIOUS
  <2>1. ASSUME NEW t \in Token
        PROVE  /\ flows[t].phase # "none" => t <= lastFlow
               /\ flows[t].phase = "consent" <=> flows[t].user # {}
    BY DEF IInv, FlowOK
  <2> QED
    BY <2>1 DEF IInv, FieldsOK, TypeOK, Beginning
<1> QED
  BY <1>1, Invariance, PTL

\* A sign-in approves one submission: take deletes the flow and the consent in
\* the statement that reads them, so that each origin is in one place at a time.
THEOREM ApprovedOnce == Spec => []OneApprovalPerSignIn
<1>1. IInv => OneApprovalPerSignIn
  BY DEF IInv, ApprovalsOK, OneApprovalPerSignIn
<1> QED
  BY <1>1, Invariance, PTL

\* Save keeps a stored secret only with the client ID it loaded with it, so that
\* no interleaving of saves gives an app the secret of another.
THEOREM SecretKept == Spec => []SecretOfItsApp
<1>1. IInv => SecretOfItsApp
  BY DEF IInv, SecretsOK, SecretOfItsApp
<1> QED
  BY <1>1, Invariance, PTL

\* Nothing but Consume approves.
LEMMA OnlyConsumeApproves ==
  ASSUME IInv, [Next]_vars, NEW h \in Handlers, Approved(h)
  PROVE  Consume(h) /\ Approves(h)
<1>1. handler[h].pc = "consume" /\ approvals' # approvals /\ handler'[h].pc = "idle"
  BY DEF Approved
<1>2. \E g \in Handlers : Consume(g)
  BY <1>1 DEF Next, vars, Tick, Administer, LoadSettings, SaveSettings, SaveFails, Handle, Enter,
     EnterStart, EnterFinish, EnterConsume, Start, Finish, Exchange, Recheck, Consent, Put, Fail
<1>3. PICK g \in Handlers : Consume(g)
  BY <1>2
<1>4. g = h
  BY <1>1, <1>3 DEF Consume, IInv, FieldsOK
<1> QED
  BY <1>1, <1>3, <1>4 DEF Consume

\* A submission is approved only from the browser and with the form the sign-in
\* was started with, for a user the settings in force allow, under the revision
\* it was started under: Takes compares them, and what was read of the settings
\* still holds while their revision does.
THEOREM ConsentAsStarted == Spec => ApprovedAsStarted
<1>1. ASSUME IInv, [Next]_vars, NEW h \in Handlers, Approved(h)
      PROVE  LET flow == flows[handler[h].token]
                 start == began[flow.origin]
             IN /\ start.browser = handler[h].browser /\ start.form = handler[h].form
                /\ config.enabled
                /\ flow.user # {} /\ flow.user \subseteq config.allowed
                /\ start.revision = config.revision
  <2> DEFINE row == handler[h]
             flow == flows[row.token]
  <2>1. Consume(h) /\ Approves(h)
    BY <1>1, OnlyConsumeApproves
  <2>2. row.pc = "consume" /\ row \in Handler /\ HandlerOK(row)
    BY <1>1, <2>1 DEF Consume, IInv, FieldsOK
  <2>3. row.token \in Token /\ FlowOK(row.token)
    BY <1>1, <2>2 DEF IInv, FieldsOK, HandlerOK
  <2>4. /\ flow.phase = "consent" /\ flow.browser = row.browser /\ flow.revision = row.revision
        /\ config.enabled /\ config.revision = row.revision
        /\ flow.user \cap row.allowed # {} /\ flow.form = row.form
    BY <2>1 DEF Approves, Takes, InForce
  <2>5. row.allowed = config.allowed
    BY <2>2, <2>4 DEF HandlerOK
  <2>6. PICK u \in Users : flow.user = {u}
    BY <2>3, <2>4 DEF FlowOK
  <2>7. began[flow.origin] = [browser |-> flow.browser, form |-> flow.form, revision |-> flow.revision]
    BY <2>3, <2>4 DEF FlowOK, Traced
  <2> HIDE DEF row, flow
  <2>8. /\ began[flow.origin].browser = row.browser /\ began[flow.origin].form = row.form
        /\ began[flow.origin].revision = config.revision
    BY <2>4, <2>7
  <2>9. flow.user # {} /\ flow.user \subseteq config.allowed
    BY <2>4, <2>5, <2>6
  <2> QED
    BY <2>4, <2>8, <2>9 DEF row, flow
<1>2. IInv /\ [Next]_vars =>
        [\A h \in Handlers : Approved(h) =>
           LET flow == flows[handler[h].token]
               start == began[flow.origin]
           IN /\ start.browser = handler[h].browser /\ start.form = handler[h].form
              /\ config.enabled
              /\ flow.user # {} /\ flow.user \subseteq config.allowed
              /\ start.revision = config.revision]_vars
  BY <1>1
<1> QED
  BY <1>2, Invariance, PTL DEF Spec, ApprovedAsStarted

----------------------------------------------------------------------------
(* The limit of the table. A put that goes through leaves the live rows, which *)
(* are fewer than the limit, and one more; every other step leaves no more.    *)

Rows == {t \in Token : flows[t].phase # "none"}

LEMMA FiniteTokens == IsFiniteSet(Token)
BY FS_Interval

LEMMA PutBounded ==
  ASSUME NEW h \in Handlers, NEW row, Put(h, row), HasRoom
  PROVE  flows' = flows \/ Cardinality(Rows') <= MaxFlows
<1> SUFFICES ASSUME flows' # flows PROVE Cardinality(Rows') <= MaxFlows
  OBVIOUS
<1> DEFINE new == lastFlow + 1
<1>1. flows' = [t \in Token |-> IF t = new THEN row ELSE IF t \in Live THEN flows[t] ELSE NoFlow]
  BY DEF Put
<1>2. Rows' \subseteq Live \cup {new}
  <2>1. Rows' = {t \in Token : flows'[t].phase # "none"}
    BY DEF Rows
  <2> HIDE DEF new
  <2> QED
    BY <1>1, <2>1, EmptyFlow
<1>3. IsFiniteSet(Live)
  <2>1. Live \in SUBSET Token
    BY DEF Live
  <2> QED
    BY <2>1, FiniteTokens, FS_Subset
<1> HIDE DEF new
<1>4. /\ IsFiniteSet(Live \cup {new}) /\ Cardinality(Live \cup {new}) <= Cardinality(Live) + 1
      /\ Cardinality(Live) \in Nat
  <2>1. Cardinality(Live) \in Nat
    BY <1>3, FS_CardinalityType
  <2>2. /\ IsFiniteSet(Live \cup {new})
        /\ Cardinality(Live \cup {new}) \in {Cardinality(Live), Cardinality(Live) + 1}
    BY <1>3, FS_AddElement
  <2> QED
    BY <2>1, <2>2
<1>5. IsFiniteSet(Rows') /\ Cardinality(Rows') <= Cardinality(Live \cup {new})
  BY <1>2, <1>4, FS_Subset
<1>6. Cardinality(Rows') \in Nat /\ Cardinality(Live \cup {new}) \in Nat
  BY <1>4, <1>5, FS_CardinalityType
<1> QED
  BY <1>4, <1>5, <1>6 DEF HasRoom

LEMMA RowsGo ==
  ASSUME FieldsOK, \A t \in Token : flows'[t] = flows[t] \/ flows'[t] = NoFlow,
         Cardinality(Rows) <= MaxFlows
  PROVE  Cardinality(Rows') <= MaxFlows
<1>1. Rows' \subseteq Rows
  BY EmptyFlow DEF Rows
<1>2. IsFiniteSet(Rows)
  <2>1. Rows \in SUBSET Token
    BY DEF Rows
  <2> QED
    BY <2>1, FiniteTokens, FS_Subset
<1>3. Cardinality(Rows') <= Cardinality(Rows)
  BY <1>1, <1>2, FS_Subset
<1>4. Cardinality(Rows) \in Nat /\ Cardinality(Rows') \in Nat
  BY <1>1, <1>2, FS_Subset, FS_CardinalityType
<1> QED
  BY <1>3, <1>4

\* However many sign-ins are begun at once, and however long nobody comes back for
\* them, the table holds no more rows than its limit (put).
THEOREM TableStaysBounded == Spec => []FlowsBounded
<1>1. Init => FlowsBounded
  <2> SUFFICES ASSUME Init PROVE FlowsBounded
    OBVIOUS
  <2>1. Rows = {}
    BY EmptyFlow DEF Init, Rows
  <2>2. Cardinality(Rows) = 0
    BY <2>1, FS_EmptySet
  <2>3. Cardinality(Rows) <= MaxFlows
    BY <2>2
  <2> QED
    BY <2>3 DEF FlowsBounded, Rows
<1>2. IInv /\ FlowsBounded /\ [Next]_vars => FlowsBounded'
  <2> SUFFICES ASSUME IInv, FlowsBounded, [Next]_vars PROVE FlowsBounded'
    OBVIOUS
  <2>0. FieldsOK /\ Cardinality(Rows) <= MaxFlows
    BY DEF IInv, FlowsBounded, Rows
  <2>1. CASE flows' = flows
    BY <2>1 DEF FlowsBounded
  <2>2. ASSUME NEW h \in Handlers, NEW phase, Take(h, phase) PROVE FlowsBounded'
    <3>1. \A t \in Token : flows'[t] = flows[t] \/ flows'[t] = NoFlow
      BY <2>0, <2>2 DEF Take, FieldsOK
    <3> QED
      BY <2>0, <3>1, RowsGo DEF FlowsBounded, Rows
  <2>3. ASSUME NEW h \in Handlers, NEW row, Put(h, row) PROVE FlowsBounded'
    <3>1. ~HasRoom => flows' = flows
      BY <2>3 DEF Put
    <3> QED
      BY <2>1, <2>3, <3>1, PutBounded DEF FlowsBounded, Rows
  <2>4. ASSUME NEW h \in Handlers, Handle(h) PROVE FlowsBounded'
    <3>1. CASE Start(h) \/ Consent(h)
      BY <2>3, <3>1 DEF Start, Consent
    <3>2. CASE Finish(h) \/ Consume(h)
      BY <2>2, <3>2 DEF Finish, Consume
    <3>3. CASE ~(Start(h) \/ Consent(h) \/ Finish(h) \/ Consume(h))
      BY <2>1, <2>4, <3>3 DEF Handle, EnterStart, EnterFinish, EnterConsume, Enter, Recheck, Exchange, Fail
    <3> QED
      BY <3>1, <3>2, <3>3
  <2>5. ASSUME NEW a \in Admins, Administer(a) PROVE FlowsBounded'
    BY <2>1, <2>5 DEF Administer, LoadSettings, SaveSettings, SaveFails
  <2> QED
    BY <2>1, <2>4, <2>5 DEF Next, Tick, vars
<1> QED
  BY <1>1, <1>2, Invariance, PTL DEF Spec

============================================================================
