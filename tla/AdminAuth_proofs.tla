-------------------------- MODULE AdminAuth_proofs --------------------------
(***************************************************************************)
(* Proofs about AdminAuth, for any number of commands, logins and secrets. *)
(*                                                                         *)
(* Where the first token is set up before a second command starts, there   *)
(* is never more than one row, so the row ReplaceToken writes is the row   *)
(* Verify reads; and StaleSessionsExplained is inductive once it also      *)
(* speaks of the logins that are about to insert a session.                *)
(***************************************************************************)
EXTENDS AdminAuth, SequenceTheorems, TLAPS

CommandPC == {"idle", "has", "verify", "count", "insert", "replace", "clear"}

\* The part of TypeOK that is about the commands.
CommandsOK ==
  /\ command \in [Commands -> Command]
  /\ \A c \in Commands :
       /\ command[c].pc = "idle" <=> command[c].secret = NoSecret
       /\ command[c].pc \in {"verify", "replace", "clear"} => tokens # <<>>

\* The part that is about the logins and their sessions.
LoginsOK ==
  /\ sessions \in [Logins -> Session]
  /\ login \in [Logins -> Login]
  /\ survivors \subseteq Logins
  /\ \A l \in Logins : login[l].pc = "verified" <=> login[l].secret # NoSecret

LEMMA InitTypeOK == Init => TypeOK
<1> SUFFICES ASSUME Init PROVE TypeOK
  OBVIOUS
<1>1. now \in 0..MaxTime /\ tokens \in Seq(Secrets) /\ survivors \subseteq Logins
  BY AdminAuthAssumption DEF Init, AdminAuthAssumption
<1>2. LoginsOK
  BY AdminAuthAssumption DEF Init, AdminAuthAssumption, NoSession, Session, Login, LoginsOK
<1>3. CommandsOK
  BY DEF Init, IdleCommand, Command, CommandsOK
<1> QED
  BY <1>1, <1>2, <1>3 DEF TypeOK, CommandsOK, LoginsOK

\* A step that moves one command and leaves or lengthens the table.
LEMMA MoveCommand ==
  ASSUME TypeOK, NEW c \in Commands, NEW row \in Command,
         command' = [command EXCEPT ![c] = row],
         row.pc = "idle" <=> row.secret = NoSecret,
         row.pc \in {"verify", "replace", "clear"} => tokens' # <<>>,
         tokens # <<>> => tokens' # <<>>
  PROVE  CommandsOK'
<1>1. command' \in [Commands -> Command] /\ command'[c] = row
  BY DEF TypeOK
<1>2. \A d \in Commands \ {c} : command'[d] = command[d]
  BY DEF TypeOK
<1> QED
  BY <1>1, <1>2 DEF TypeOK, CommandsOK

\* Goto and Finish give such a row.
LEMMA GotoRow ==
  ASSUME TypeOK, NEW c \in Commands, command[c].pc # "idle",
         NEW pc \in CommandPC \ {"idle"}, Goto(c, pc),
         pc \in {"verify", "replace", "clear"} => tokens' # <<>>,
         tokens # <<>> => tokens' # <<>>
  PROVE  CommandsOK'
<1> DEFINE row == [command[c] EXCEPT !.pc = pc]
<1>1. row \in Command /\ row.pc = pc /\ row.secret = command[c].secret
  BY DEF TypeOK, Command, CommandPC
<1>2. command' = [command EXCEPT ![c] = row]
  BY DEF Goto
<1>3. row.secret # NoSecret
  BY <1>1 DEF TypeOK
<1> HIDE DEF row
<1> QED
  BY <1>1, <1>2, <1>3, MoveCommand

LEMMA FinishRow ==
  ASSUME TypeOK, NEW c \in Commands, Finish(c), tokens # <<>> => tokens' # <<>>
  PROVE  CommandsOK'
<1>1. IdleCommand \in Command /\ IdleCommand.pc = "idle" /\ IdleCommand.secret = NoSecret
  BY DEF IdleCommand, Command
<1>2. command' = [command EXCEPT ![c] = IdleCommand]
  BY DEF Finish
<1> QED
  BY <1>1, <1>2, MoveCommand

LEMMA StartRow ==
  ASSUME TypeOK, NEW c \in Commands, NEW s \in Secrets, NEW pc \in CommandPC \ {"idle"},
         Start(c, pc, s), pc \in {"verify", "replace", "clear"} => tokens # <<>>
  PROVE  CommandsOK'
<1>1. [pc |-> pc, secret |-> s] \in Command
  BY DEF Command, CommandPC
<1>2. s # NoSecret
  BY AdminAuthAssumption DEF AdminAuthAssumption
<1> QED
  BY <1>1, <1>2, MoveCommand DEF Start

\* What a command holds while it runs can be a row.
LEMMA SecretToWrite ==
  ASSUME TypeOK, NEW c \in Commands, command[c].pc # "idle"
  PROVE  command[c].secret \in Secrets
BY DEF TypeOK, Command

\* The single step of a command preserves the types.
LEMMA RunTypeOK ==
  ASSUME TypeOK, NEW c \in Commands, Run(c)
  PROVE  TypeOK'
<1>1. CASE \E s \in Secrets : InitToken(c, s) \/ SetFromRaw(c, s) \/ Rotate(c, s)
  <2>1. PICK s \in Secrets : InitToken(c, s) \/ SetFromRaw(c, s) \/ Rotate(c, s)
    BY <1>1
  <2>2. CommandsOK'
    BY <2>1, StartRow DEF InitToken, SetFromRaw, Rotate, CommandPC
  <2>3. UNCHANGED <<now, tokens, sessions, login, survivors>>
    BY <2>1 DEF InitToken, SetFromRaw, Rotate, Start
  <2> QED
    BY <2>2, <2>3 DEF TypeOK, CommandsOK
<1>2. CASE HasToken(c) \/ VerifyCurrent(c) \/ CountTokens(c)
  <2>1. UNCHANGED <<now, tokens, sessions, login, survivors>>
    BY <1>2 DEF HasToken, VerifyCurrent, CountTokens
  <2>2. CommandsOK'
    <3>1. CASE HasToken(c)
      BY <3>1, <2>1, GotoRow DEF HasToken, CommandPC
    <3>2. CASE VerifyCurrent(c)
      <4>1. tokens # <<>>
        BY <3>2 DEF VerifyCurrent, TypeOK
      <4> QED
        BY <3>2, <4>1, <2>1, GotoRow, FinishRow DEF VerifyCurrent, CommandPC
    <3>3. CASE CountTokens(c)
      BY <3>3, <2>1, GotoRow, FinishRow DEF CountTokens, CommandPC
    <3> QED
      BY <1>2, <3>1, <3>2, <3>3
  <2> QED
    BY <2>1, <2>2 DEF TypeOK, CommandsOK
<1>3. CASE InsertToken(c)
  <2>1. tokens' \in Seq(Secrets) /\ tokens' # <<>>
    BY <1>3, SecretToWrite, AppendProperties DEF InsertToken, TypeOK
  <2>2. CommandsOK'
    BY <1>3, <2>1, FinishRow DEF InsertToken
  <2> QED
    BY <1>3, <2>1, <2>2 DEF InsertToken, TypeOK, CommandsOK
<1>4. CASE ReplaceToken(c)
  <2>1. tokens # <<>> /\ tokens \in Seq(Secrets) /\ command[c].pc # "idle"
    BY <1>4 DEF ReplaceToken, TypeOK
  <2>2. 1 \in 1..Len(tokens)
    BY <2>1
  <2>3. tokens' \in Seq(Secrets) /\ Len(tokens') = Len(tokens)
    BY <1>4, <2>1, <2>2, SecretToWrite, ExceptSeq DEF ReplaceToken
  <2>4. tokens' # <<>>
    BY <2>1, <2>3
  <2>5. CommandsOK'
    BY <1>4, <2>1, <2>4, GotoRow DEF ReplaceToken, CommandPC
  <2> QED
    BY <1>4, <2>3, <2>5 DEF ReplaceToken, TypeOK, CommandsOK
<1>5. CASE ClearSessions(c)
  <2>1. CommandsOK'
    BY <1>5, FinishRow DEF ClearSessions
  <2>2. sessions' \in [Logins -> Session] /\ survivors' \subseteq Logins
    BY <1>5, AdminAuthAssumption DEF ClearSessions, NoSession, Session, AdminAuthAssumption
  <2> QED
    BY <1>5, <2>1, <2>2 DEF ClearSessions, TypeOK, CommandsOK
<1>6. CASE Interrupt(c)
  <2>1. CommandsOK'
    BY <1>6, FinishRow DEF Interrupt
  <2>2. survivors' \subseteq Logins
    BY <1>6 DEF Interrupt, TypeOK
  <2> QED
    BY <1>6, <2>1, <2>2 DEF Interrupt, TypeOK, CommandsOK
<1> QED
  BY <1>1, <1>2, <1>3, <1>4, <1>5, <1>6 DEF Run

LEMMA BrowseTypeOK ==
  ASSUME TypeOK, NEW l \in Logins, Browse(l)
  PROVE  TypeOK'
<1>1. UNCHANGED <<now, tokens, command, survivors>>
  BY DEF Browse, VerifyLogin, InsertSession, Logout
<1>2. LoginsOK'
  <2>1. CASE \E s \in Secrets : VerifyLogin(l, s)
    BY <2>1, AdminAuthAssumption
    DEF VerifyLogin, TypeOK, LoginsOK, Login, AdminAuthAssumption
  <2>2. CASE InsertSession(l)
    <3>1. now + SessionTTL \in 0..(MaxTime + SessionTTL)
      BY AdminAuthAssumption DEF TypeOK, AdminAuthAssumption
    <3>2. login[l].secret \in Secrets \cup {NoSecret}
      BY DEF TypeOK, Login
    <3> QED
      BY <2>2, <3>1, <3>2 DEF InsertSession, TypeOK, LoginsOK, Login, Session
  <2>3. CASE Logout(l)
    BY <2>3, AdminAuthAssumption
    DEF Logout, TypeOK, LoginsOK, NoSession, Session, AdminAuthAssumption
  <2> QED
    BY <2>1, <2>2, <2>3 DEF Browse
<1> QED
  BY <1>1, <1>2 DEF TypeOK, LoginsOK

LEMMA NextTypeOK == TypeOK /\ [Next]_vars => TypeOK'
<1> SUFFICES ASSUME TypeOK, [Next]_vars PROVE TypeOK'
  OBVIOUS
<1>1. CASE \E c \in Commands : Run(c)
  BY <1>1, RunTypeOK
<1>2. CASE \E l \in Logins : Browse(l)
  BY <1>2, BrowseTypeOK
<1>3. CASE Restart
  BY <1>3 DEF Restart, TypeOK, Login
<1>4. CASE Tick
  BY <1>4, AdminAuthAssumption DEF Tick, TypeOK, AdminAuthAssumption
<1>5. CASE UNCHANGED vars
  BY <1>5 DEF vars, TypeOK
<1> QED
  BY <1>1, <1>2, <1>3, <1>4, <1>5 DEF Next

\* The tables and the local states of commands and logins keep their shape; in
\* particular nothing is replaced in an empty token table.
THEOREM TypeCorrect == Spec => []TypeOK
<1> QED
  BY InitTypeOK, NextTypeOK, PTL DEF Spec

----------------------------------------------------------------------------
(* One row. *)

\* How operators start: with one token and any number of commands, or with none and
\* one command at first.
GoodStart == Len(SetUp) = 1 \/ (SetUpAlone /\ SetUp = <<>>)

\* One row and no command between its count and its insert; or none, operators who
\* wait for the first token, and a single command that runs.
OneRow == Len(tokens) = 1 /\ \A c \in Commands : command[c].pc # "insert"
NoRow ==
  /\ tokens = <<>> /\ SetUpAlone
  /\ \A c, d \in Commands : (command[c].pc # "idle" /\ command[d].pc # "idle") => c = d
SoleRow == OneRow \/ NoRow

\* With one row, the secret ReplaceToken writes is the active one.
LEMMA ReplacedIsActive ==
  ASSUME TypeOK, SoleRow, NEW c \in Commands, ReplaceToken(c)
  PROVE  /\ Len(tokens') = 1 /\ tokens'[1] = command[c].secret
         /\ command'[c].pc = "clear" /\ command'[c].secret = command[c].secret
         /\ \A d \in Commands \ {c} : command'[d] = command[d]
<1>0. Len(tokens) = 1
  BY DEF TypeOK, SoleRow, OneRow, NoRow, ReplaceToken
<1>1. tokens \in Seq(Secrets) /\ 1 \in 1..Len(tokens) /\ command[c].pc # "idle"
  BY <1>0 DEF TypeOK, ReplaceToken
<1>2. Len(tokens') = 1 /\ tokens'[1] = command[c].secret
  BY <1>0, <1>1, SecretToWrite, ExceptSeq DEF ReplaceToken
<1>3. /\ command'[c].pc = "clear" /\ command'[c].secret = command[c].secret
      /\ \A d \in Commands \ {c} : command'[d] = command[d]
  BY DEF ReplaceToken, Goto, TypeOK, Command
<1> QED
  BY <1>2, <1>3

\* A step that leaves the rows and moves one command.
LEMMA MoveSoleRow ==
  ASSUME TypeOK, SoleRow, NEW c \in Commands, UNCHANGED tokens,
         command' \in [Commands -> Command],
         \A d \in Commands \ {c} : command'[d] = command[d],
         tokens # <<>> => command'[c].pc # "insert",
         tokens = <<>> => \/ command[c].pc # "idle" \/ command'[c].pc = "idle"
                          \/ \A d \in Commands : command[d].pc = "idle"
  PROVE  SoleRow'
<1>1. CASE OneRow
  BY <1>1 DEF SoleRow, OneRow
<1>2. CASE NoRow
  BY <1>2 DEF SoleRow, NoRow
<1> QED
  BY <1>1, <1>2 DEF SoleRow

LEMMA RunSoleRow ==
  ASSUME TypeOK, SoleRow, NEW c \in Commands, Run(c)
  PROVE  SoleRow'
<1>1. CASE \E s \in Secrets : InitToken(c, s) \/ SetFromRaw(c, s) \/ Rotate(c, s)
  <2>1. PICK s \in Secrets, pc \in {"count", "has", "replace"} : Start(c, pc, s)
    BY <1>1 DEF InitToken, SetFromRaw, Rotate
  <2>2. [pc |-> pc, secret |-> s] \in Command
    BY DEF Command
  <2>3. /\ UNCHANGED tokens /\ command' \in [Commands -> Command]
        /\ command'[c].pc = pc /\ \A d \in Commands \ {c} : command'[d] = command[d]
    BY <2>1, <2>2 DEF Start, TypeOK
  <2>4. ASSUME tokens = <<>> PROVE \A d \in Commands : command[d].pc = "idle"
    <3>1. SetUpAlone
      BY <2>4 DEF SoleRow, OneRow, NoRow
    <3> QED
      BY <2>1, <2>4, <3>1 DEF Start, MayStart
  <2> QED
    BY <2>3, <2>4, MoveSoleRow
<1>2. CASE HasToken(c) \/ VerifyCurrent(c) \/ CountTokens(c)
  <2>1. UNCHANGED tokens /\ command[c].pc # "idle"
    BY <1>2 DEF HasToken, VerifyCurrent, CountTokens
  <2>2. /\ command' \in [Commands -> Command]
        /\ \A d \in Commands \ {c} : command'[d] = command[d]
        /\ tokens # <<>> => command'[c].pc # "insert"
    BY <1>2 DEF HasToken, VerifyCurrent, CountTokens, Goto, Finish, IdleCommand, TypeOK, Command
  <2> QED
    BY <2>1, <2>2, MoveSoleRow
<1>3. CASE ClearSessions(c) \/ Interrupt(c)
  <2>1. UNCHANGED tokens /\ Finish(c)
    BY <1>3 DEF ClearSessions, Interrupt
  <2>2. /\ command' \in [Commands -> Command]
        /\ command'[c].pc = "idle" /\ \A d \in Commands \ {c} : command'[d] = command[d]
    BY <2>1 DEF Finish, IdleCommand, TypeOK, Command
  <2> QED
    BY <2>1, <2>2, MoveSoleRow
<1>4. CASE InsertToken(c)
  <2>1. NoRow /\ command[c].pc = "insert"
    BY <1>4 DEF InsertToken, SoleRow, OneRow
  <2>2. Len(tokens') = 1
    BY <1>4, <2>1 DEF InsertToken, NoRow
  <2>3. \A d \in Commands : command'[d].pc = "idle"
    BY <1>4, <2>1 DEF InsertToken, Finish, IdleCommand, NoRow, TypeOK
  <2> QED
    BY <2>2, <2>3 DEF SoleRow, OneRow
<1>5. CASE ReplaceToken(c)
  <2>1. OneRow
    BY <1>5 DEF ReplaceToken, TypeOK, SoleRow, NoRow
  <2> QED
    BY <1>5, <2>1, ReplacedIsActive DEF SoleRow, OneRow
<1> QED
  BY <1>1, <1>2, <1>3, <1>4, <1>5 DEF Run

LEMMA NextSoleRow == TypeOK /\ SoleRow /\ [Next]_vars => SoleRow'
<1> SUFFICES ASSUME TypeOK, SoleRow, [Next]_vars PROVE SoleRow'
  OBVIOUS
<1>1. CASE UNCHANGED <<tokens, command>>
  BY <1>1 DEF SoleRow, OneRow, NoRow
<1>2. CASE ~UNCHANGED <<tokens, command>>
  <2>1. \E c \in Commands : Run(c)
    BY <1>2 DEF Next, Browse, VerifyLogin, InsertSession, Logout, Restart, Tick, vars
  <2> QED
    BY <2>1, RunSoleRow
<1> QED
  BY <1>1, <1>2

LEMMA InitSoleRow == ASSUME GoodStart PROVE Init => SoleRow
<1> SUFFICES ASSUME Init PROVE SoleRow
  OBVIOUS
<1>1. \A c \in Commands : command[c].pc = "idle"
  BY DEF Init, IdleCommand
<1>2. Len(tokens) = 1 \/ (tokens = <<>> /\ SetUpAlone)
  BY DEF Init, GoodStart
<1> QED
  BY <1>1, <1>2 DEF SoleRow, OneRow, NoRow

\* Where there is a token at the start, or operators let the first be set up before
\* they start a second command, there is never a second row, wherever commands are
\* cut short.
THEOREM SoleTokenKept == ASSUME GoodStart PROVE Spec => []SoleToken
<1>1. SoleRow => SoleToken
  <2>1. OneRow => SoleToken
    BY DEF OneRow, SoleToken
  <2>2. NoRow => Len(tokens) = 0
    BY EmptySeq DEF NoRow
  <2> QED
    BY <2>1, <2>2 DEF SoleRow, SoleToken
<1> QED
  BY <1>1, InitSoleRow, TypeCorrect, NextSoleRow, PTL DEF Spec

\* From such a start, whatever Rotate and SetFromRaw write is what logs in from
\* that moment, with any number of commands at once.
THEOREM RotationTakesEffect == ASSUME GoodStart PROVE Spec => RotateReplacesActive
<1>1. TypeOK /\ SoleRow /\ [Next]_vars
        => [\A c \in Commands : ReplaceToken(c) => Active(command[c].secret)']_vars
  <2> SUFFICES ASSUME TypeOK, SoleRow, NEW c \in Commands, ReplaceToken(c)
               PROVE  Active(command[c].secret)'
    OBVIOUS
  <2> QED
    BY ReplacedIsActive DEF Active
<1> QED
  BY <1>1, InitSoleRow, TypeCorrect, NextSoleRow, PTL DEF Spec, RotateReplacesActive

----------------------------------------------------------------------------
(* Sessions. *)

Clearing == \E c \in Commands : command[c].pc = "clear"

\* A session, or one about to be, of a secret that is not active.
Stale(l) ==
  \/ sessions[l].open /\ ~Active(sessions[l].secret)
  \/ login[l].pc = "verified" /\ ~Active(login[l].secret)

Explained == \A l \in Logins : Stale(l) => l \in survivors \/ Clearing

\* A replacement makes sessions stale only while it is clearing; a clearing leaves
\* only survivors; and no other step of a command touches either.
LEMMA RunExplained ==
  ASSUME TypeOK, SoleRow, Explained, NEW c \in Commands, Run(c)
  PROVE  Explained'
<1>1. CASE ReplaceToken(c)
  <2>1. Clearing'
    BY <1>1, ReplacedIsActive DEF Clearing
  <2> QED
    BY <2>1 DEF Explained
<1>2. CASE ClearSessions(c)
  BY <1>2 DEF ClearSessions, Explained, Stale, NoSession
<1>3. CASE Interrupt(c)
  <2>1. UNCHANGED <<tokens, sessions, login>> /\ survivors \subseteq survivors'
    BY <1>3 DEF Interrupt
  <2>2. CASE command[c].pc = "clear"
    <3>1. \A l \in Logins : Stale(l) => l \in survivors'
      BY <1>3, <2>2 DEF Interrupt, Stale
    <3> QED
      BY <2>1, <3>1 DEF Explained, Stale, Active
  <2>3. CASE command[c].pc # "clear"
    <3>1. \A d \in Commands : command[d].pc = "clear" => command'[d].pc = "clear"
      BY <1>3, <2>3 DEF Interrupt, Finish, TypeOK
    <3> QED
      BY <2>1, <3>1 DEF Explained, Stale, Active, Clearing
  <2> QED
    BY <2>2, <2>3
<1>4. ASSUME UNCHANGED <<tokens, sessions, login, survivors>>, command[c].pc # "clear",
             \A d \in Commands \ {c} : command'[d] = command[d]
      PROVE  Explained'
  BY <1>4 DEF Explained, Stale, Active, Clearing
<1>5. CASE HasToken(c) \/ VerifyCurrent(c) \/ CountTokens(c)
  BY <1>4, <1>5 DEF HasToken, VerifyCurrent, CountTokens, Goto, Finish, TypeOK
<1>6. CASE InsertToken(c)
  \* Into an empty table: nothing was active, so every session was explained.
  <2>1. tokens = <<>> /\ UNCHANGED <<sessions, login, survivors>>
    BY <1>6 DEF InsertToken, SoleRow, OneRow, NoRow
  <2>2. ~Clearing
    BY <2>1 DEF Clearing, TypeOK
  <2>3. \A l \in Logins : (sessions[l].open \/ login[l].pc = "verified") => l \in survivors
    BY <2>1, <2>2 DEF Explained, Stale, Active
  <2> QED
    BY <2>1, <2>3 DEF Explained, Stale
<1>7. CASE \E s \in Secrets : InitToken(c, s) \/ SetFromRaw(c, s) \/ Rotate(c, s)
  BY <1>4, <1>7 DEF InitToken, SetFromRaw, Rotate, Start, TypeOK
<1> QED
  BY <1>1, <1>2, <1>3, <1>5, <1>6, <1>7 DEF Run

LEMMA BrowseExplained ==
  ASSUME TypeOK, Explained, NEW l \in Logins, Browse(l)
  PROVE  Explained'
<1>1. UNCHANGED <<tokens, command, survivors>>
  BY DEF Browse, VerifyLogin, InsertSession, Logout
<1>2. \A k \in Logins : Stale(k)' => Stale(k)
  BY DEF Browse, VerifyLogin, InsertSession, Logout, Stale, Active, NoSession, TypeOK
<1> QED
  BY <1>1, <1>2 DEF Explained, Clearing

LEMMA NextExplained == TypeOK /\ SoleRow /\ Explained /\ [Next]_vars => Explained'
<1> SUFFICES ASSUME TypeOK, SoleRow, Explained, [Next]_vars PROVE Explained'
  OBVIOUS
<1>1. CASE \E c \in Commands : Run(c)
  BY <1>1, RunExplained
<1>2. CASE \E l \in Logins : Browse(l)
  BY <1>2, BrowseExplained
<1>3. CASE Restart
  BY <1>3 DEF Restart, Explained, Stale, Active, Clearing, TypeOK
<1>4. CASE Tick \/ UNCHANGED vars
  BY <1>4 DEF Tick, vars, Explained, Stale, Active, Clearing
<1> QED
  BY <1>1, <1>2, <1>3, <1>4 DEF Next

\* From such a start, a browser is let in with a replaced secret only in the
\* windows StaleSessionsExplained names, with any number of commands and logins.
THEOREM StaleSessionsSafe == ASSUME GoodStart PROVE Spec => []StaleSessionsExplained
<1>1. Init => Explained
  BY DEF Init, Explained, Stale, NoSession
<1>2. Explained => StaleSessionsExplained
  BY DEF Explained, Stale, Clearing, StaleSessionsExplained, ValidateSession
<1> QED
  BY <1>1, <1>2, InitSoleRow, TypeCorrect, NextSoleRow, NextExplained, PTL DEF Spec

============================================================================
