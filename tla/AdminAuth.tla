------------------------------ MODULE AdminAuth ------------------------------
(***************************************************************************)
(* The admin token and the browser sessions it opens. Token commands run   *)
(* in processes of their own next to the gateway that handles logins; each *)
(* is a sequence of single statements on one database, with those of the   *)
(* others in between, and may stop or fail after any of them.              *)
(*                                                                         *)
(* A secret stands for its hash. The CSRF token is a function of session   *)
(* and secret and is left out.                                             *)
(*                                                                         *)
(* Definitions named Bug... are no part of Next: each is the definition     *)
(* that follows it with one plausible mistake.                             *)
(***************************************************************************)
EXTENDS Naturals, Sequences, FiniteSets

CONSTANTS
  Secrets,     \* admin secrets, generated or supplied
  NoSecret,    \* none of them
  Commands,    \* processes that run token commands
  Logins,      \* login requests ever made; a session is named for its login
  SetUp,       \* secrets of the rows at the start
  SetUpAlone,  \* operators start a second command only once there is a token
  MaxTime,     \* bound on the clock
  SessionTTL

AdminAuthAssumption ==
  /\ NoSecret \notin Secrets
  /\ SetUp \in Seq(Secrets)
  /\ SetUpAlone \in BOOLEAN
  /\ IsFiniteSet(Commands)
  /\ MaxTime \in Nat
  /\ SessionTTL \in Nat \ {0}

ASSUME AdminAuthAssumption

VARIABLES
  now,
  tokens,     \* admin_tokens: the secret of each row, by id
  sessions,   \* admin_sessions row of each login
  command,    \* local state of each command
  login,      \* local state of each login
  survivors   \* history: sessions, open or about to be, a replacement left behind

vars == <<now, tokens, sessions, command, login, survivors>>

Session == [open: BOOLEAN, secret: Secrets \cup {NoSecret}, expires: 0..(MaxTime + SessionTTL)]
Command == [pc: {"idle", "has", "verify", "count", "insert", "replace", "clear"},
            secret: Secrets \cup {NoSecret}]
Login == [pc: {"new", "verified", "done"}, secret: Secrets \cup {NoSecret}]

NoSession == [open |-> FALSE, secret |-> NoSecret, expires |-> 0]
IdleCommand == [pc |-> "idle", secret |-> NoSecret]

TypeOK ==
  /\ now \in 0..MaxTime
  /\ tokens \in Seq(Secrets)
  /\ sessions \in [Logins -> Session]
  /\ command \in [Commands -> Command]
  /\ login \in [Logins -> Login]
  /\ survivors \subseteq Logins
  /\ \A c \in Commands :
       /\ command[c].pc = "idle" <=> command[c].secret = NoSecret
       /\ command[c].pc \in {"verify", "replace", "clear"} => tokens # <<>>
  /\ \A l \in Logins : login[l].pc = "verified" <=> login[l].secret # NoSecret

Init ==
  /\ now = 0
  /\ tokens = SetUp
  /\ sessions = [l \in Logins |-> NoSession]
  /\ command = [c \in Commands |-> IdleCommand]
  /\ login = [l \in Logins |-> [pc |-> "new", secret |-> NoSecret]]
  /\ survivors = {}

----------------------------------------------------------------------------

\* Verify reads the row with the highest id.
Active(s) == tokens # <<>> /\ tokens[Len(tokens)] = s

\* In no row, session or request yet, as a generated token is.
Fresh(s) ==
  /\ \A i \in DOMAIN tokens : tokens[i] # s
  /\ \A l \in Logins : sessions[l].secret # s /\ login[l].secret # s
  /\ \A c \in Commands : command[c].secret # s

Goto(c, pc) == command' = [command EXCEPT ![c].pc = pc]
Finish(c) == command' = [command EXCEPT ![c] = IdleCommand]
MayStart == SetUpAlone /\ tokens = <<>> => \A d \in Commands : command[d].pc = "idle"
Start(c, pc, s) ==
  /\ command[c].pc = "idle"
  /\ MayStart
  /\ command' = [command EXCEPT ![c] = [pc |-> pc, secret |-> s]]
  /\ UNCHANGED <<now, tokens, sessions, login, survivors>>

----------------------------------------------------------------------------
(* Token commands. *)

\* token init; with --from-env the operator chooses the secret.
InitToken(c, s) == Start(c, "count", s)

\* token sync-env, and token rotate --from-env.
SetFromRaw(c, s) == Start(c, "has", s)

\* Mistake: an empty table is not refused.
BugRotate(c, s) == Fresh(s) /\ Start(c, "replace", s)

\* token rotate: replaceAdminToken's count refuses an empty table.
Rotate(c, s) == tokens # <<>> /\ Fresh(s) /\ Start(c, "replace", s)

HasToken(c) ==
  /\ command[c].pc = "has"
  /\ Goto(c, IF tokens = <<>> THEN "count" ELSE "verify")
  /\ UNCHANGED <<now, tokens, sessions, login, survivors>>

\* Nothing to do when the secret is the active one already.
VerifyCurrent(c) ==
  /\ command[c].pc = "verify"
  /\ IF Active(command[c].secret) THEN Finish(c) ELSE Goto(c, "replace")
  /\ UNCHANGED <<now, tokens, sessions, login, survivors>>

\* Mistake: an existing row is no reason to stop.
BugCountTokens(c) ==
  /\ command[c].pc = "count"
  /\ Goto(c, "insert")
  /\ UNCHANGED <<now, tokens, sessions, login, survivors>>

CountTokens(c) ==
  /\ command[c].pc = "count"
  /\ IF tokens = <<>> THEN Goto(c, "insert") ELSE Finish(c)
  /\ UNCHANGED <<now, tokens, sessions, login, survivors>>

InsertToken(c) ==
  /\ command[c].pc = "insert"
  /\ tokens' = Append(tokens, command[c].secret)
  /\ Finish(c)
  /\ UNCHANGED <<now, sessions, login, survivors>>

\* The UPDATE of the row with the lowest id.
ReplaceToken(c) ==
  /\ command[c].pc = "replace"
  /\ tokens' = [tokens EXCEPT ![1] = command[c].secret]
  /\ Goto(c, "clear")
  /\ UNCHANGED <<now, sessions, login, survivors>>

\* Mistake: only sessions that have expired are cleared.
BugClearSessions(c) ==
  /\ command[c].pc = "clear"
  /\ sessions' = [l \in Logins |-> IF sessions[l].expires < now THEN NoSession ELSE sessions[l]]
  /\ survivors' = {l \in Logins : login[l].pc = "verified"}
  /\ Finish(c)
  /\ UNCHANGED <<now, tokens, login>>

\* DELETE FROM admin_sessions: logins that have verified are yet to insert.
ClearSessions(c) ==
  /\ command[c].pc = "clear"
  /\ sessions' = [l \in Logins |-> NoSession]
  /\ survivors' = {l \in Logins : login[l].pc = "verified"}
  /\ Finish(c)
  /\ UNCHANGED <<now, tokens, login>>

\* The process is killed or its next statement fails.
Interrupt(c) ==
  /\ command[c].pc # "idle"
  /\ Finish(c)
  /\ survivors' = IF command[c].pc = "clear"
                    THEN survivors \cup {l \in Logins : sessions[l].open \/ login[l].pc = "verified"}
                    ELSE survivors
  /\ UNCHANGED <<now, tokens, sessions, login>>

----------------------------------------------------------------------------
(* The gateway. *)

VerifyLogin(l, s) ==
  /\ login[l].pc = "new"
  /\ login' = [login EXCEPT ![l] = IF Active(s) THEN [pc |-> "verified", secret |-> s]
                                                ELSE [pc |-> "done", secret |-> NoSecret]]
  /\ UNCHANGED <<now, tokens, sessions, command, survivors>>

InsertSession(l) ==
  /\ login[l].pc = "verified"
  /\ sessions' = [sessions EXCEPT ![l] =
       [open |-> TRUE, secret |-> login[l].secret, expires |-> now + SessionTTL]]
  /\ login' = [login EXCEPT ![l] = [pc |-> "done", secret |-> NoSecret]]
  /\ UNCHANGED <<now, tokens, command, survivors>>

Logout(l) ==
  /\ sessions[l].open
  /\ sessions' = [sessions EXCEPT ![l] = NoSession]
  /\ UNCHANGED <<now, tokens, command, login, survivors>>

\* ValidateSession, which the middleware asks of every request; CSRFToken asks too.
ValidateSession(l) == sessions[l].open /\ now <= sessions[l].expires

Restart ==
  /\ login' = [l \in Logins |->
       IF login[l].pc = "verified" THEN [pc |-> "done", secret |-> NoSecret] ELSE login[l]]
  /\ UNCHANGED <<now, tokens, sessions, command, survivors>>

Tick ==
  /\ now < MaxTime
  /\ now' = now + 1
  /\ UNCHANGED <<tokens, sessions, command, login, survivors>>

----------------------------------------------------------------------------

Run(c) ==
  \/ \E s \in Secrets : InitToken(c, s) \/ SetFromRaw(c, s) \/ Rotate(c, s)
  \/ HasToken(c) \/ VerifyCurrent(c)
  \/ CountTokens(c) \/ InsertToken(c)
  \/ ReplaceToken(c) \/ ClearSessions(c)
  \/ Interrupt(c)

Browse(l) == (\E s \in Secrets : VerifyLogin(l, s)) \/ InsertSession(l) \/ Logout(l)

Next ==
  \/ \E c \in Commands : Run(c)
  \/ \E l \in Logins : Browse(l)
  \/ Restart
  \/ Tick

Spec == Init /\ [][Next]_vars

----------------------------------------------------------------------------
(* Properties. *)

\* A browser is let in with a secret that is not the active one only while the
\* command that replaced it has yet to clear the sessions, or when its login had
\* verified but not inserted as they were cleared, or when the command was
\* interrupted before it could. A second command that clears in between does not
\* widen that window.
StaleSessionsExplained ==
  \A l \in Logins :
    (ValidateSession(l) /\ ~Active(sessions[l].secret)) =>
      \/ l \in survivors
      \/ \E c \in Commands : command[c].pc = "clear"

\* token.go:61 and 104, Init "creates the sole admin token row" and Rotate "replaces
\* the active admin token": what a replacement wrote is what logs in from then on,
\* whatever other commands run. So it is where the first token is set up before a
\* second command starts.
RotateReplacesActive ==
  [][\A c \in Commands : ReplaceToken(c) => Active(command[c].secret)']_vars

\* No two rows, where a second command waits for the first token: with an initial
\* command cut short anywhere and repeated, only one ever inserts.
SoleToken == Len(tokens) <= 1

============================================================================
