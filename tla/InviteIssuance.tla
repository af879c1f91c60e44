--------------------------- MODULE InviteIssuance ---------------------------
(***************************************************************************)
(* handleAuthorizePost up to the code: who may be issued an authorization  *)
(* code without the operator, and how an invite is redeemed for one. A     *)
(* handler runs its statements one by one on the database, outside any     *)
(* transaction, with other handlers, operators and restarts in between.    *)
(*                                                                         *)
(* The checks on client, redirect URI, challenge and scope come before     *)
(* all of this and read nothing these actions write; a handler here is     *)
(* one that passed them.                                                   *)
(*                                                                         *)
(* Definitions named Bug... are no part of Next: each is the definition     *)
(* that follows it with one plausible mistake.                             *)
(***************************************************************************)
EXTENDS Timestamps, FiniteSets

CONSTANTS
  Handlers,        \* authorization requests handled at a time
  MaxInvites,      \* bound on invites ever created
  MaxRedemptions,  \* bound on what an invite allows
  MaxTime          \* bound on the clock

InviteAssumption ==
  /\ IsFiniteSet(Handlers)
  /\ MaxInvites \in Nat /\ MaxRedemptions \in Nat /\ MaxTime \in Nat

ASSUME InviteAssumption

InviteId == 1..MaxInvites
Mode == {"off", "open", "ref_code"}
Via == {"operator", "open_register", "ref_code"}

VARIABLES
  now,
  mode,     \* setting public_issuance
  invites,  \* invite_codes row of each id
  handler,  \* local state of each handler
  issued    \* oauth_codes ever inserted with each ref_code_id

vars == <<now, mode, invites, handler, issued>>

Invite == [exists: BOOLEAN, max: 0..MaxRedemptions, count: 0..MaxRedemptions,
           expires: 0..MaxTime, revoked: BOOLEAN]

\* stamp is the time a handler compares expiry with.
Handler == [pc: {"idle", "decide", "lookup", "redeem", "insert"}, approved: BOOLEAN,
            invite: 0..MaxInvites, stamp: 0..MaxTime, via: Via]

NoInvite == [exists |-> FALSE, max |-> 0, count |-> 0, expires |-> 0, revoked |-> FALSE]
Idle == [pc |-> "idle", approved |-> FALSE, invite |-> 0, stamp |-> 0, via |-> "operator"]

TypeOK ==
  /\ now \in 0..MaxTime
  /\ mode \in Mode
  /\ invites \in [InviteId -> Invite]
  /\ handler \in [Handlers -> Handler]
  /\ issued \in [InviteId -> 0..MaxRedemptions]
  /\ \A i \in InviteId : ~invites[i].exists => invites[i] = NoInvite
  /\ \A h \in Handlers : handler[h].pc \in {"lookup", "redeem"} => handler[h].invite # 0

Init ==
  /\ now = 0
  /\ mode = "off"
  /\ invites = [i \in InviteId |-> NoInvite]
  /\ handler = [h \in Handlers |-> Idle]
  /\ issued = [i \in InviteId |-> 0]

----------------------------------------------------------------------------
(* A handler. *)

Continue(h, row) ==
  /\ handler' = [handler EXCEPT ![h] = row]
  /\ UNCHANGED <<now, mode, invites, issued>>

\* The operator's password or GitHub consent is settled before the mode is read;
\* 0 stands for a request without an invite.
Submit(h, approved, i) ==
  /\ handler[h].pc = "idle"
  /\ Continue(h, [pc |-> "decide", approved |-> approved, invite |-> i, stamp |-> 0,
                  via |-> "operator"])

\* publicIssuanceMode and the decision on it.
Decide(h) ==
  LET row == handler[h]
      InsertAs(via) == Continue(h, [row EXCEPT !.pc = "insert", !.via = via])
      Invited == mode = "ref_code" /\ row.invite # 0
  IN /\ row.pc = "decide"
     /\ \/ row.approved /\ InsertAs("operator")
        \/ ~row.approved /\ mode = "open" /\ InsertAs("open_register")
        \/ ~row.approved /\ Invited /\ Continue(h, [row EXCEPT !.pc = "lookup", !.via = "ref_code"])
        \/ ~row.approved /\ mode # "open" /\ ~Invited /\ Continue(h, Idle)

\* Mistake: expiry is left to the statement.
BugMayRedeem(i, t) == ~invites[i].revoked /\ invites[i].count < invites[i].max

\* The checks RedeemTx makes on the row it has read; the time is parsed.
MayRedeem(i, t) ==
  /\ ~invites[i].revoked
  /\ invites[i].expires > t
  /\ invites[i].count < invites[i].max

\* RedeemTx reads the row; an agent label the row is not bound to refuses too.
LookupInvite(h, labelFits) ==
  LET i == handler[h].invite
  IN /\ handler[h].pc = "lookup"
     /\ Continue(h, IF invites[i].exists /\ labelFits /\ MayRedeem(i, now)
                      THEN [handler[h] EXCEPT !.pc = "redeem", !.stamp = now]
                      ELSE Idle)

\* Mistakes: the condition leaves out the limit; or the revocation.
BugStillRedeemable(i, t) == ~invites[i].revoked /\ Before(t, invites[i].expires)
BugRevokedRedeemable(i, t) ==
  /\ Before(t, invites[i].expires)
  /\ invites[i].count < invites[i].max

\* The condition of the UPDATE, which compares times as text.
StillRedeemable(i, t) ==
  /\ ~invites[i].revoked
  /\ Before(t, invites[i].expires)
  /\ invites[i].count < invites[i].max

\* Mistake: that the update changed no row is not noticed.
BugRedeemInvite(h) ==
  LET i == handler[h].invite
  IN /\ handler[h].pc = "redeem"
     /\ invites' = IF StillRedeemable(i, handler[h].stamp)
                     THEN [invites EXCEPT ![i].count = @ + 1] ELSE invites
     /\ handler' = [handler EXCEPT ![h].pc = "insert"]
     /\ UNCHANGED <<now, mode, issued>>

RedeemInvite(h) ==
  LET i == handler[h].invite
  IN /\ handler[h].pc = "redeem"
     /\ IF StillRedeemable(i, handler[h].stamp)
          THEN /\ invites' = [invites EXCEPT ![i].count = @ + 1]
               /\ handler' = [handler EXCEPT ![h].pc = "insert"]
          ELSE /\ handler' = [handler EXCEPT ![h] = Idle]
               /\ UNCHANGED invites
     /\ UNCHANGED <<now, mode, issued>>

\* The oauth_codes row, with the invite's id when it was redeemed.
InsertCode(h) ==
  /\ handler[h].pc = "insert"
  /\ handler' = [handler EXCEPT ![h] = Idle]
  /\ issued' = [i \in InviteId |->
       IF handler[h].via = "ref_code" /\ i = handler[h].invite THEN issued[i] + 1 ELSE issued[i]]
  /\ UNCHANGED <<now, mode, invites>>

\* The insert, or any statement before it, fails: what was redeemed stays redeemed.
Fail(h) ==
  /\ handler[h].pc # "idle"
  /\ Continue(h, Idle)

----------------------------------------------------------------------------
(* Operators and the process. *)

\* InviteService.Create: any expiry is taken, one already past too.
Create(i, max, expires) ==
  /\ ~invites[i].exists
  /\ \A j \in InviteId : j < i => invites[j].exists
  /\ invites' = [invites EXCEPT ![i] = [exists |-> TRUE, max |-> max, count |-> 0,
                                        expires |-> expires, revoked |-> FALSE]]
  /\ UNCHANGED <<now, mode, handler, issued>>

Revoke(i) ==
  /\ invites[i].exists
  /\ invites' = [invites EXCEPT ![i].revoked = TRUE]
  /\ UNCHANGED <<now, mode, handler, issued>>

SetMode(m) ==
  /\ mode' = m
  /\ UNCHANGED <<now, invites, handler, issued>>

Restart ==
  /\ handler' = [h \in Handlers |-> Idle]
  /\ UNCHANGED <<now, mode, invites, issued>>

Tick ==
  /\ now < MaxTime
  /\ now' = now + 1
  /\ UNCHANGED <<mode, invites, handler, issued>>

Handle(h) ==
  \/ \E approved \in BOOLEAN, i \in InviteId \cup {0} : Submit(h, approved, i)
  \/ Decide(h)
  \/ \E labelFits \in BOOLEAN : LookupInvite(h, labelFits)
  \/ RedeemInvite(h)
  \/ InsertCode(h)
  \/ Fail(h)

Next ==
  \/ \E h \in Handlers : Handle(h)
  \/ \E i \in InviteId, max \in 1..MaxRedemptions, expires \in 0..MaxTime : Create(i, max, expires)
  \/ \E i \in InviteId : Revoke(i)
  \/ \E m \in Mode : SetMode(m)
  \/ Restart
  \/ Tick

Spec == Init /\ [][Next]_vars

----------------------------------------------------------------------------
(* Properties. *)

\* Redeemed by handlers that have not inserted their code yet.
Redeeming(i) == {h \in Handlers : /\ handler[h].pc = "insert" /\ handler[h].via = "ref_code"
                                  /\ handler[h].invite = i}

\* An invite never allows more redemptions than it was created with, with any
\* number of handlers between their look at the row and their update of it.
RedemptionsBounded == \A i \in InviteId : invites[i].count <= invites[i].max

\* Every code that names an invite was paid for by a redemption of its own, with
\* those about to be inserted counted too; a failed insert only loses one.
CodesArePaidFor ==
  \A i \in InviteId : issued[i] + Cardinality(Redeeming(i)) <= invites[i].count

\* From the moment an invite is revoked it is redeemed no more, also by handlers
\* that had found it good before; and one that was past its expiry when a handler
\* read the clock is not redeemed by it, though the update compares the two
\* times as text.
DeadNeverRedeemed ==
  [][/\ \A i \in InviteId : invites[i].revoked => invites'[i].count = invites[i].count
     /\ \A h \in Handlers :
          (handler[h].pc = "redeem" /\ handler'[h].pc = "insert")
            => handler[h].stamp < invites[handler[h].invite].expires]_vars

============================================================================
