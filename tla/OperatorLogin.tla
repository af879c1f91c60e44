---------------------------- MODULE OperatorLogin ----------------------------
(***************************************************************************)
(* Consent of an operator who signs in with GitHub: Start puts a flow and  *)
(* sends the browser to GitHub, Finish takes the flow when the browser     *)
(* comes back, asks GitHub who it is and puts a consent, and Consume takes *)
(* the consent when the authorization form is submitted. Between any two   *)
(* statements other handlers run and admins save new settings.             *)
(*                                                                         *)
(* GitHub is external: whoever signs in there is the answer, or it fails.  *)
(* Tokens are unguessable but may be presented by any browser, at any      *)
(* time and any number of times.                                           *)
(*                                                                         *)
(* Definitions named Bug... are no part of Next: each is the definition     *)
(* that follows it with one plausible mistake.                             *)
(***************************************************************************)
EXTENDS Naturals, FiniteSets

CONSTANTS
  Users,         \* GitHub users
  Browsers,      \* values of the browser cookie
  NoBrowser,     \* none of them
  Forms,         \* authorization requests a consent can be for
  NoForm,        \* none of them
  Apps,          \* OAuth apps registered at GitHub
  NoApp,         \* the empty client ID
  Handlers,      \* requests handled at a time
  Admins,        \* requests that save settings at a time
  MaxFlows,      \* rows the table may hold
  MaxTokens,     \* bound on flows ever put
  MaxRevisions,  \* bound on settings ever saved
  MaxTime,       \* bound on the clock
  FlowTTL

OperatorAssumption ==
  /\ NoApp \notin Apps /\ NoBrowser \notin Browsers /\ NoForm \notin Forms
  /\ MaxFlows \in Nat /\ MaxTokens \in Nat /\ MaxRevisions \in Nat
  /\ MaxTime \in Nat /\ FlowTTL \in Nat \ {0}

ASSUME OperatorAssumption

Token == 1..MaxTokens

VARIABLES
  now,
  config,     \* setting oauth_github_operator
  saving,     \* what each admin's request has loaded and will read
  lastFlow,   \* flows ever put: tokens are never reused
  flows,      \* operator_login_flows row of each token
  handler,    \* local state of each handler
  began,      \* history: the browser, form and revision of each flow's Start
  approvals   \* history: how often a consent that goes back to it was approved

vars == <<now, config, saving, lastFlow, flows, handler, began, approvals>>

\* secret holds the app the stored secret was given for, if there is one.
Config == [enabled: BOOLEAN, client: Apps \cup {NoApp}, secret: SUBSET (Apps \cup {NoApp}),
           allowed: SUBSET Users, revision: 0..MaxRevisions]

NoConfig == [enabled |-> FALSE, client |-> NoApp, secret |-> {}, allowed |-> {}, revision |-> 0]

\* Of the settings Save loads it reads client ID and secret, and overwrites the rest.
Saving == [busy: BOOLEAN, client: Apps \cup {NoApp}, secret: SUBSET (Apps \cup {NoApp})]

NotSaving == [busy |-> FALSE, client |-> NoApp, secret |-> {}]

\* origin is a history field: the token of the Start a flow goes back to.
Flow == [phase: {"none", "github", "consent"},
         browser: Browsers \cup {NoBrowser}, form: Forms \cup {NoForm},
         revision: 0..MaxRevisions, user: SUBSET Users, expires: 0..(MaxTime + FlowTTL),
         origin: 0..MaxTokens]

NoFlow == [phase |-> "none", browser |-> NoBrowser, form |-> NoForm, revision |-> 0,
           user |-> {}, expires |-> 0, origin |-> 0]

\* revision and allowed are what the handler has read of the settings.
Handler == [pc: {"idle", "start", "finish", "exchange", "recheck", "consent", "consume"},
            revision: 0..MaxRevisions, allowed: SUBSET Users,
            browser: Browsers \cup {NoBrowser}, form: Forms \cup {NoForm}, token: 0..MaxTokens, user: SUBSET Users]

Idle == [pc |-> "idle", revision |-> 0, allowed |-> {}, browser |-> NoBrowser,
         form |-> NoForm, token |-> 0, user |-> {}]

TypeOK ==
  /\ now \in 0..MaxTime
  /\ config \in Config
  /\ saving \in [Admins -> Saving]
  /\ lastFlow \in 0..MaxTokens
  /\ flows \in [Token -> Flow]
  /\ handler \in [Handlers -> Handler]
  /\ began \in [Token -> [browser: Browsers \cup {NoBrowser}, form: Forms \cup {NoForm},
                          revision: 0..MaxRevisions]]
  /\ approvals \in [Token -> Nat]
  /\ \A t \in Token : flows[t].phase # "none" => t <= lastFlow
  /\ \A t \in Token : flows[t].phase = "consent" <=> flows[t].user # {}

Init ==
  /\ now = 0
  /\ config = NoConfig
  /\ saving = [a \in Admins |-> NotSaving]
  /\ lastFlow = 0
  /\ flows = [t \in Token |-> NoFlow]
  /\ handler = [h \in Handlers |-> Idle]
  /\ began = [t \in Token |-> [browser |-> NoBrowser, form |-> NoForm, revision |-> 0]]
  /\ approvals = [t \in Token |-> 0]

----------------------------------------------------------------------------
(* The settings. *)

settings == <<config, saving>>

LoadSettings(a) ==
  /\ ~saving[a].busy
  /\ saving' = [saving EXCEPT ![a] = [busy |-> TRUE, client |-> config.client,
                                      secret |-> config.secret]]
  /\ UNCHANGED <<now, config, lastFlow, flows, handler, began, approvals>>

\* Mistake: a secret that is to stay is left as it is stored when Save writes.
BugSecretAfter(loaded, client, given) ==
  IF given THEN {client} ELSE IF client = loaded.client THEN config.secret ELSE {}

SecretAfter(loaded, client, given) ==
  IF given THEN {client} ELSE IF client = loaded.client THEN loaded.secret ELSE {}

\* The rest of Save, or its refusal. Everything but a kept secret is the request's.
SaveSettings(a, enabled, client, given, allowed) ==
  LET secret == SecretAfter(saving[a], client, given)
      valid == enabled => client # NoApp /\ secret # {} /\ allowed # {}
  IN /\ saving[a].busy
     /\ config.revision < MaxRevisions
     /\ config' = IF valid THEN [enabled |-> enabled, client |-> client, secret |-> secret,
                                 allowed |-> allowed, revision |-> config.revision + 1]
                           ELSE config
     /\ saving' = [saving EXCEPT ![a] = NotSaving]
     /\ UNCHANGED <<now, lastFlow, flows, handler, began, approvals>>

SaveFails(a) ==
  /\ saving[a].busy
  /\ saving' = [saving EXCEPT ![a] = NotSaving]
  /\ UNCHANGED <<now, config, lastFlow, flows, handler, began, approvals>>

\* enabled(): what every entry point asks first.
Available ==
  /\ config.enabled
  /\ config.client # NoApp /\ config.secret # {} /\ config.allowed # {}

----------------------------------------------------------------------------
(* put and take. *)

\* Settings of this revision are in force.
InForce(revision) == config.enabled /\ config.revision = revision

Live == {t \in Token : flows[t].phase # "none" /\ flows[t].expires > now}

\* The count comes after the deletion of expired flows, in the same transaction.
HasRoom == Cardinality(Live) < MaxFlows

\* The transaction of put: refused, it is rolled back.
Put(h, row) ==
  /\ lastFlow < MaxTokens
  /\ IF InForce(handler[h].revision) /\ HasRoom
       THEN /\ lastFlow' = lastFlow + 1
            /\ flows' = [t \in Token |->
                 IF t = lastFlow + 1 THEN row ELSE IF t \in Live THEN flows[t] ELSE NoFlow]
       ELSE UNCHANGED <<lastFlow, flows>>
  /\ handler' = [handler EXCEPT ![h] = Idle]
  /\ UNCHANGED <<now, settings, approvals>>

\* Mistake: the settings in force are not looked at again.
BugTakes(h, phase) ==
  LET flow == flows[handler[h].token]
  IN /\ flow.phase = phase /\ flow.browser = handler[h].browser
     /\ flow.revision = handler[h].revision /\ flow.expires > now

\* The condition of take's DELETE ... RETURNING.
Takes(h, phase) ==
  LET flow == flows[handler[h].token]
  IN /\ flow.phase = phase /\ flow.browser = handler[h].browser
     /\ flow.revision = handler[h].revision /\ flow.expires > now
     /\ InForce(handler[h].revision)

\* Mistake: the flow is read and left.
BugTake(h, phase) == UNCHANGED flows

Take(h, phase) ==
  flows' = IF Takes(h, phase) THEN [flows EXCEPT ![handler[h].token] = NoFlow] ELSE flows

----------------------------------------------------------------------------
(* Handlers. *)

Enter(h, row) ==
  /\ handler[h].pc = "idle"
  /\ Available
  /\ handler' = [handler EXCEPT ![h] =
       [row EXCEPT !.revision = config.revision, !.allowed = config.allowed]]
  /\ UNCHANGED <<now, settings, lastFlow, flows, began, approvals>>

EnterStart(h, b, f) == Enter(h, [Idle EXCEPT !.pc = "start", !.browser = b, !.form = f])

Start(h) ==
  LET row == handler[h]
  IN /\ row.pc = "start"
     /\ Put(h, [NoFlow EXCEPT !.phase = "github", !.browser = row.browser, !.form = row.form,
                  !.revision = row.revision, !.expires = now + FlowTTL, !.origin = lastFlow + 1])
     /\ began' = IF lastFlow' = lastFlow THEN began
                 ELSE [began EXCEPT ![lastFlow + 1] =
                   [browser |-> row.browser, form |-> row.form, revision |-> row.revision]]

EnterFinish(h, b, t) == Enter(h, [Idle EXCEPT !.pc = "finish", !.browser = b, !.token = t])

\* The flow is taken before GitHub is asked; the handler keeps its form and, in
\* place of its token, its origin.
Finish(h) ==
  LET row == handler[h]
      flow == flows[row.token]
  IN /\ row.pc = "finish"
     /\ Take(h, "github")
     /\ handler' = [handler EXCEPT ![h] =
          IF Takes(h, "github") THEN [row EXCEPT !.pc = "exchange", !.form = flow.form, !.token = flow.origin]
                                ELSE Idle]
     /\ UNCHANGED <<now, settings, lastFlow, began, approvals>>

\* Mistake: who signed in is checked and forgotten.
BugExchange(h, u) ==
  /\ handler[h].pc = "exchange"
  /\ handler' = [handler EXCEPT ![h] =
       IF u \in @.allowed THEN [@ EXCEPT !.pc = "recheck"] ELSE Idle]
  /\ UNCHANGED <<now, settings, lastFlow, flows, began, approvals>>

\* GitHub says who signed in.
Exchange(h, u) ==
  /\ handler[h].pc = "exchange"
  /\ handler' = [handler EXCEPT ![h] =
       IF u \in @.allowed THEN [@ EXCEPT !.pc = "recheck", !.user = {u}] ELSE Idle]
  /\ UNCHANGED <<now, settings, lastFlow, flows, began, approvals>>

\* Settings saved during the exchange end the sign-in.
Recheck(h) ==
  /\ handler[h].pc = "recheck"
  /\ handler' = [handler EXCEPT ![h] =
       IF Available /\ config.revision = @.revision THEN [@ EXCEPT !.pc = "consent"] ELSE Idle]
  /\ UNCHANGED <<now, settings, lastFlow, flows, began, approvals>>

Consent(h) ==
  LET row == handler[h]
  IN /\ row.pc = "consent"
     /\ Put(h, [phase |-> "consent", browser |-> row.browser, form |-> row.form,
                revision |-> row.revision, user |-> row.user, expires |-> now + FlowTTL,
                origin |-> row.token])
     /\ UNCHANGED began

EnterConsume(h, b, t, f) ==
  Enter(h, [Idle EXCEPT !.pc = "consume", !.browser = b, !.token = t, !.form = f])

\* Mistake: the form is not compared.
BugApproves(h) ==
  /\ Takes(h, "consent")
  /\ flows[handler[h].token].user \cap handler[h].allowed # {}

Approves(h) ==
  /\ Takes(h, "consent")
  /\ flows[handler[h].token].user \cap handler[h].allowed # {}
  /\ flows[handler[h].token].form = handler[h].form

\* A consent that is taken is gone, approved or not.
Consume(h) ==
  LET row == handler[h]
  IN /\ row.pc = "consume"
     /\ Take(h, "consent")
     /\ handler' = [handler EXCEPT ![h] = Idle]
     /\ approvals' = IF Approves(h) THEN [approvals EXCEPT ![flows[row.token].origin] = @ + 1]
                                    ELSE approvals
     /\ UNCHANGED <<now, settings, lastFlow, began>>

\* The database, GitHub or the client fails; a restart fails them all.
Fail(h) ==
  /\ handler[h].pc # "idle"
  /\ handler' = [handler EXCEPT ![h] = Idle]
  /\ UNCHANGED <<now, settings, lastFlow, flows, began, approvals>>

Tick ==
  /\ now < MaxTime
  /\ now' = now + 1
  /\ UNCHANGED <<settings, lastFlow, flows, handler, began, approvals>>

----------------------------------------------------------------------------

Handle(h) ==
  \/ \E b \in Browsers :
       \/ \E f \in Forms : EnterStart(h, b, f)
       \/ \E t \in 1..lastFlow : EnterFinish(h, b, t) \/ \E f \in Forms : EnterConsume(h, b, t, f)
  \/ Start(h) \/ Finish(h) \/ Recheck(h) \/ Consent(h) \/ Consume(h)
  \/ \E u \in Users : Exchange(h, u)
  \/ Fail(h)

Administer(a) ==
  \/ LoadSettings(a)
  \/ \E enabled, given \in BOOLEAN, client \in Apps \cup {NoApp}, allowed \in SUBSET Users :
       SaveSettings(a, enabled, client, given, allowed)
  \/ SaveFails(a)

Next ==
  \/ \E h \in Handlers : Handle(h)
  \/ \E a \in Admins : Administer(a)
  \/ Tick

Spec == Init /\ [][Next]_vars

----------------------------------------------------------------------------
(* Properties. *)

Approved(h) == handler[h].pc = "consume" /\ approvals' # approvals /\ handler'[h].pc = "idle"

\* The submission approved is the one the sign-in was started for, from the
\* browser that started it. The settings in force at that instant are enabled,
\* allow the user who signed in, and have not been saved anew since the browser
\* was sent to GitHub, however long each step took.
ApprovedAsStarted ==
  [][\A h \in Handlers : Approved(h) =>
       LET flow == flows[handler[h].token]
           start == began[flow.origin]
       IN /\ start.browser = handler[h].browser /\ start.form = handler[h].form
          /\ config.enabled
          /\ flow.user # {} /\ flow.user \subseteq config.allowed
          /\ start.revision = config.revision]_vars

\* A sign-in approves one submission, though its state and its proof can be
\* presented again and by several requests at once.
OneApprovalPerSignIn == \A t \in Token : approvals[t] <= 1

\* The table of sign-ins and consents stays within its limit, expired rows counted,
\* though anybody may start sign-ins and nothing but a later put deletes what expired
\* (put).
FlowsBounded == Cardinality({t \in Token : flows[t].phase # "none"}) <= MaxFlows

\* A secret is stored only for the app it was given for, though saving loads the
\* old settings and writes the new ones in separate statements, between which other
\* admins save theirs (Save).
SecretOfItsApp == config.secret \subseteq {config.client}

============================================================================
