----------------------- MODULE InviteIssuance_proofs -----------------------
(***************************************************************************)
(* Proofs about InviteIssuance, for any number of handlers and invites.    *)
(*                                                                         *)
(* The counts bound each other from the code's insert back to the invite:  *)
(* what was issued, with what is about to be, is at most what was redeemed,*)
(* which is at most what the invite allows. None of the three is inductive *)
(* without the others, the type of issued included.                        *)
(***************************************************************************)
EXTENDS InviteIssuance, FiniteSetTheorems, TLAPS

InvitesOK ==
  /\ invites \in [InviteId -> Invite]
  /\ \A i \in InviteId : ~invites[i].exists => invites[i] = NoInvite

HandlersOK ==
  /\ handler \in [Handlers -> Handler]
  /\ \A h \in Handlers : handler[h].pc \in {"lookup", "redeem"} => handler[h].invite # 0

CountsOK ==
  /\ issued \in [InviteId -> 0..MaxRedemptions]
  /\ RedemptionsBounded
  /\ CodesArePaidFor

IInv == TypeOK /\ RedemptionsBounded /\ CodesArePaidFor

\* A handler that has redeemed the invite and not inserted its code yet.
Redeems(row) == row.pc = "insert" /\ row.via = "ref_code"

LEMMA RedeemingFinite ==
  ASSUME NEW i
  PROVE  /\ IsFiniteSet(Redeeming(i)) /\ Cardinality(Redeeming(i)) \in Nat
         /\ Redeeming(i) \subseteq Handlers
<1>1. Redeeming(i) \in SUBSET Handlers
  BY DEF Redeeming
<1>2. IsFiniteSet(Redeeming(i))
  BY <1>1, FS_Subset, InviteAssumption DEF InviteAssumption
<1> QED
  BY <1>1, <1>2, FS_CardinalityType

\* Where fewer handlers are redeeming and nothing else changes, the counts hold.
LEMMA FewerRedeeming ==
  ASSUME IInv, InvitesOK', issued' = issued,
         \A i \in InviteId : /\ Redeeming(i)' \subseteq Redeeming(i)
                             /\ invites[i].count <= invites'[i].count
                             /\ invites'[i].count <= invites'[i].max
  PROVE  CountsOK'
<1>1. ASSUME NEW i \in InviteId
      PROVE  (issued[i] + Cardinality(Redeeming(i)) <= invites[i].count)'
  <2> DEFINE old == Cardinality(Redeeming(i))
             new == Cardinality(Redeeming(i)')
  <2>1. IsFiniteSet(Redeeming(i)) /\ old \in Nat
    BY RedeemingFinite
  <2>2. Redeeming(i)' \in SUBSET Redeeming(i)
    BY <1>1
  <2>3. new <= old /\ new \in Nat
    BY <2>1, <2>2, FS_Subset, FS_CardinalityType
  <2>4. issued[i] + old <= invites[i].count
    BY DEF IInv, CodesArePaidFor
  <2>5. issued[i] \in Nat /\ invites[i].count \in Nat /\ invites'[i].count \in Nat
    BY InviteAssumption DEF IInv, TypeOK, InvitesOK, Invite, InviteAssumption
  <2> HIDE DEF old, new
  <2>6. issued[i] + new <= invites'[i].count
    BY <2>1, <2>3, <2>4, <2>5
  <2> QED
    BY <2>6 DEF new
<1> QED
  BY <1>1 DEF CountsOK, RedemptionsBounded, CodesArePaidFor, IInv, TypeOK

\* A handler that moves on without having redeemed anything keeps the invariant.
LEMMA ContinueKeeps ==
  ASSUME IInv, NEW h \in Handlers, NEW row \in Handler, Continue(h, row), ~Redeems(row),
         row.pc \in {"lookup", "redeem"} => row.invite # 0
  PROVE  IInv'
<1>1. HandlersOK'
  BY DEF IInv, TypeOK, HandlersOK, Continue
<1>2. InvitesOK'
  BY DEF IInv, TypeOK, InvitesOK, Continue
<1>3. \A i \in InviteId : Redeeming(i)' \subseteq Redeeming(i)
  BY DEF IInv, TypeOK, Continue, Redeeming, Redeems
<1>4. \A i \in InviteId : /\ invites[i].count <= invites'[i].count
                          /\ invites'[i].count <= invites'[i].max
  BY InviteAssumption DEF IInv, TypeOK, Invite, Continue, RedemptionsBounded, InviteAssumption
<1>5. CountsOK'
  BY <1>2, <1>3, <1>4, FewerRedeeming DEF Continue
<1> QED
  BY <1>1, <1>2, <1>5 DEF IInv, TypeOK, HandlersOK, InvitesOK, CountsOK, Continue

LEMMA IdleRow == Idle \in Handler /\ Idle.pc = "idle"
BY InviteAssumption DEF Idle, Handler, Via, InviteAssumption

LEMMA SubmitKeeps ==
  ASSUME IInv, NEW h \in Handlers, NEW approved \in BOOLEAN, NEW i \in InviteId \cup {0},
         Submit(h, approved, i)
  PROVE  IInv'
<1> DEFINE row == [pc |-> "decide", approved |-> approved, invite |-> i, stamp |-> 0,
                   via |-> "operator"]
<1>1. row \in Handler /\ row.pc = "decide"
  BY InviteAssumption DEF Handler, Via, InviteAssumption, InviteId
<1>2. Continue(h, row)
  BY DEF Submit
<1> HIDE DEF row
<1> QED
  BY <1>1, <1>2, ContinueKeeps DEF Redeems

LEMMA DecideKeeps ==
  ASSUME IInv, NEW h \in Handlers, Decide(h)
  PROVE  IInv'
<1> DEFINE inserting(via) == [handler[h] EXCEPT !.pc = "insert", !.via = via]
           looking == [handler[h] EXCEPT !.pc = "lookup", !.via = "ref_code"]
<1>1. \/ Continue(h, inserting("operator")) \/ Continue(h, inserting("open_register"))
      \/ handler[h].invite # 0 /\ Continue(h, looking)
      \/ Continue(h, Idle)
  BY DEF Decide
<1>2. \A via \in {"operator", "open_register"} :
        inserting(via) \in Handler /\ inserting(via).pc = "insert" /\ inserting(via).via = via
  BY DEF IInv, TypeOK, Handler, Via
<1>3. looking \in Handler /\ looking.pc = "lookup" /\ looking.invite = handler[h].invite
  BY DEF IInv, TypeOK, Handler, Via
<1> HIDE DEF inserting, looking
<1> QED
  BY <1>1, <1>2, <1>3, IdleRow, ContinueKeeps DEF Redeems

LEMMA LookupKeeps ==
  ASSUME IInv, NEW h \in Handlers, NEW labelFits \in BOOLEAN, LookupInvite(h, labelFits)
  PROVE  IInv'
<1> DEFINE found == [handler[h] EXCEPT !.pc = "redeem", !.stamp = now]
<1>1. Continue(h, found) \/ Continue(h, Idle)
  BY DEF LookupInvite
<1>2. found \in Handler /\ found.pc = "redeem" /\ found.invite = handler[h].invite
  BY DEF IInv, TypeOK, Handler
<1>3. handler[h].invite # 0
  BY DEF LookupInvite, IInv, TypeOK
<1> HIDE DEF found
<1> QED
  BY <1>1, <1>2, <1>3, IdleRow, ContinueKeeps DEF Redeems

LEMMA RedeemKeeps ==
  ASSUME IInv, NEW h \in Handlers, RedeemInvite(h)
  PROVE  IInv'
<1> DEFINE i == handler[h].invite
<1>1. CASE ~StillRedeemable(i, handler[h].stamp)
  <2>1. Continue(h, Idle)
    BY <1>1 DEF RedeemInvite, Continue
  <2> QED
    BY <2>1, IdleRow, ContinueKeeps DEF Redeems
<1>2. CASE StillRedeemable(i, handler[h].stamp)
  <2>1. i \in InviteId
    BY InviteAssumption DEF RedeemInvite, IInv, TypeOK, Handler, InviteId, InviteAssumption
  <2>2. /\ invites' = [invites EXCEPT ![i].count = @ + 1]
        /\ handler' = [handler EXCEPT ![h].pc = "insert"]
        /\ UNCHANGED <<now, mode, issued>>
    BY <1>2 DEF RedeemInvite
  <2>3. invites[i].exists
    BY <1>2, <2>1 DEF StillRedeemable, IInv, TypeOK, NoInvite
  <2>4. /\ invites[i] \in Invite
        /\ invites[i].count + 1 <= invites[i].max
        /\ invites[i].count + 1 \in 0..MaxRedemptions
    BY <1>2, <2>1, InviteAssumption DEF StillRedeemable, IInv, TypeOK, Invite, InviteAssumption
  <2>5. /\ invites' \in [InviteId -> Invite]
        /\ invites'[i].exists /\ invites'[i].count = invites[i].count + 1
        /\ invites'[i].max = invites[i].max
        /\ \A j \in InviteId \ {i} : invites'[j] = invites[j]
    <3> DEFINE paid == [invites[i] EXCEPT !.count = @ + 1]
    <3>1. paid \in Invite /\ paid.exists /\ paid.count = invites[i].count + 1
          /\ paid.max = invites[i].max
      BY <2>3, <2>4 DEF Invite
    <3>2. invites' = [invites EXCEPT ![i] = paid]
      BY <2>2
    <3> HIDE DEF paid
    <3> QED
      BY <2>1, <3>1, <3>2 DEF IInv, TypeOK
  <2>6. InvitesOK'
    BY <2>5 DEF InvitesOK, IInv, TypeOK
  <2>7. HandlersOK'
    BY <2>2 DEF HandlersOK, IInv, TypeOK, Handler
  <2>8. \A j \in InviteId : j # i => Redeeming(j)' \subseteq Redeeming(j)
    BY <2>2 DEF Redeeming, IInv, TypeOK
  <2>9. \A j \in InviteId : Redeeming(j)' \subseteq Redeeming(j) \cup {h}
    BY <2>2 DEF Redeeming, IInv, TypeOK
  <2>10. CountsOK'
    <3>1. ASSUME NEW j \in InviteId
          PROVE  (issued[j] + Cardinality(Redeeming(j)) <= invites[j].count)'
      <4> DEFINE old == Cardinality(Redeeming(j))
                 new == Cardinality(Redeeming(j)')
      <4>1. IsFiniteSet(Redeeming(j)) /\ old \in Nat
        BY RedeemingFinite
      <4>2. issued[j] + old <= invites[j].count /\ issued[j] \in Nat /\ invites[j].count \in Nat
        BY InviteAssumption DEF IInv, CodesArePaidFor, TypeOK, Invite, InviteAssumption
      <4>3. CASE j # i
        <5>1. new <= old /\ new \in Nat
          BY <4>1, <4>3, <2>8, FS_Subset, FS_CardinalityType
        <5> HIDE DEF old, new
        <5>2. issued'[j] + new <= invites'[j].count
          BY <4>1, <4>2, <4>3, <5>1, <2>2, <2>5
        <5> QED
          BY <5>2 DEF new
      <4>4. CASE j = i
        <5> DEFINE larger == Redeeming(j) \cup {h}
        <5>1. IsFiniteSet(larger) /\ Cardinality(larger) \in Nat /\ Cardinality(larger) <= old + 1
          <6>1. /\ IsFiniteSet(larger)
                /\ Cardinality(larger) = IF h \in Redeeming(j) THEN old ELSE old + 1
            BY <4>1, FS_AddElement
          <6> HIDE DEF old, larger
          <6> QED
            BY <4>1, <6>1
        <5>2. Redeeming(j)' \in SUBSET larger
          BY <2>9
        <5>3. new <= Cardinality(larger) /\ new \in Nat
          <6> HIDE DEF larger
          <6> QED
            BY <5>1, <5>2, FS_Subset, FS_CardinalityType
        <5> HIDE DEF old, new, larger
        <5>4. issued'[j] + new <= invites'[j].count
          BY <4>1, <4>2, <4>4, <5>1, <5>3, <2>2, <2>5
        <5> QED
          BY <5>4 DEF new
      <4> QED
        BY <4>3, <4>4
    <3>2. RedemptionsBounded'
      BY <2>4, <2>5 DEF RedemptionsBounded, IInv
    <3> QED
      BY <3>1, <3>2, <2>2 DEF CountsOK, CodesArePaidFor, IInv, TypeOK
  <2> QED
    BY <2>2, <2>6, <2>7, <2>10 DEF IInv, TypeOK, HandlersOK, InvitesOK, CountsOK
<1> QED
  BY <1>1, <1>2

LEMMA InsertKeeps ==
  ASSUME IInv, NEW h \in Handlers, InsertCode(h)
  PROVE  IInv'
<1>1. CASE ~Redeems(handler[h])
  <2>1. issued' = issued
    BY <1>1 DEF InsertCode, Redeems, IInv, TypeOK
  <2>2. Continue(h, Idle)
    BY <2>1 DEF InsertCode, Continue
  <2> QED
    BY <2>2, IdleRow, ContinueKeeps DEF Redeems
<1>2. CASE Redeems(handler[h])
  <2> DEFINE i == handler[h].invite
  <2>1. handler' = [handler EXCEPT ![h] = Idle] /\ UNCHANGED <<now, mode, invites>>
    BY DEF InsertCode
  <2>2. \A j \in InviteId : issued'[j] = IF j = i THEN issued[j] + 1 ELSE issued[j]
    BY <1>2 DEF InsertCode, Redeems
  <2>3. \A j \in InviteId : Redeeming(j)' \subseteq Redeeming(j)
    BY <2>1 DEF Redeeming, IInv, TypeOK, Idle
  <2>4. h \in Redeeming(i) /\ \A j \in InviteId : h \notin Redeeming(j)'
    BY <1>2, <2>1 DEF Redeems, Redeeming, IInv, TypeOK, Idle
  <2>5. ASSUME NEW j \in InviteId
        PROVE  /\ (issued[j] + Cardinality(Redeeming(j)) <= invites[j].count)'
               /\ issued'[j] \in 0..MaxRedemptions
    <3> DEFINE old == Cardinality(Redeeming(j))
               new == Cardinality(Redeeming(j)')
    <3>1. IsFiniteSet(Redeeming(j)) /\ old \in Nat
      BY RedeemingFinite
    <3>2. /\ issued[j] + old <= invites[j].count
          /\ issued[j] \in Nat /\ invites[j].count \in 0..MaxRedemptions
      BY InviteAssumption DEF IInv, CodesArePaidFor, TypeOK, Invite, InviteAssumption
    <3>3. CASE j # i
      <4>1. new <= old /\ new \in Nat
        BY <3>1, <2>3, FS_Subset, FS_CardinalityType
      <4> HIDE DEF old, new
      <4>2. issued'[j] + new <= invites'[j].count /\ issued'[j] \in 0..MaxRedemptions
        BY <3>1, <3>2, <3>3, <4>1, <2>1, <2>2, InviteAssumption DEF InviteAssumption
      <4> QED
        BY <4>2 DEF new
    <3>4. CASE j = i
      <4> DEFINE smaller == Redeeming(j) \ {h}
      <4>1. IsFiniteSet(smaller) /\ Cardinality(smaller) = old - 1
        BY <3>1, <3>4, <2>4, FS_RemoveElement
      <4>2. Redeeming(j)' \in SUBSET smaller
        BY <2>3, <2>4
      <4>3. new <= old - 1 /\ new \in Nat
        <5> HIDE DEF smaller, old
        <5> QED
          BY <4>1, <4>2, FS_Subset, FS_CardinalityType
      <4> HIDE DEF old, new, smaller
      <4>4. issued'[j] + new <= invites'[j].count /\ issued'[j] \in 0..MaxRedemptions
        BY <3>1, <3>2, <3>4, <4>3, <2>1, <2>2, InviteAssumption DEF InviteAssumption
      <4> QED
        BY <4>4 DEF new
    <3> QED
      BY <3>3, <3>4
  <2>6. issued' \in [InviteId -> 0..MaxRedemptions]
    BY <2>5 DEF InsertCode
  <2>7. HandlersOK'
    BY <2>1, IdleRow DEF HandlersOK, IInv, TypeOK
  <2> QED
    BY <2>1, <2>5, <2>6, <2>7
       DEF IInv, TypeOK, HandlersOK, RedemptionsBounded, CodesArePaidFor
<1> QED
  BY <1>1, <1>2

LEMMA CreateKeeps ==
  ASSUME IInv, NEW i \in InviteId, NEW max \in 1..MaxRedemptions, NEW expires \in 0..MaxTime,
         Create(i, max, expires)
  PROVE  IInv'
<1> DEFINE row == [exists |-> TRUE, max |-> max, count |-> 0, expires |-> expires,
                   revoked |-> FALSE]
<1>1. row \in Invite /\ row.exists /\ row.count = 0 /\ row.max = max
  BY InviteAssumption DEF Invite, InviteAssumption
<1>2. invites' = [invites EXCEPT ![i] = row] /\ UNCHANGED <<now, mode, handler, issued>>
  BY DEF Create
<1>3. invites[i].count = 0
  BY DEF Create, IInv, TypeOK, NoInvite
<1> HIDE DEF row
<1>4. InvitesOK'
  BY <1>1, <1>2 DEF InvitesOK, IInv, TypeOK
<1>5. \A j \in InviteId : /\ invites[j].count <= invites'[j].count
                          /\ invites'[j].count <= invites'[j].max
  BY <1>1, <1>2, <1>3, InviteAssumption
     DEF IInv, TypeOK, Invite, RedemptionsBounded, InviteAssumption
<1>6. \A j \in InviteId : Redeeming(j)' \subseteq Redeeming(j)
  BY <1>2 DEF Redeeming
<1>7. CountsOK'
  BY <1>2, <1>4, <1>5, <1>6, FewerRedeeming
<1> QED
  BY <1>2, <1>4, <1>7 DEF IInv, TypeOK, InvitesOK, CountsOK

LEMMA RevokeKeeps ==
  ASSUME IInv, NEW i \in InviteId, Revoke(i)
  PROVE  IInv'
<1> DEFINE row == [invites[i] EXCEPT !.revoked = TRUE]
<1>1. /\ row \in Invite /\ row.exists
      /\ row.count = invites[i].count /\ row.max = invites[i].max
  BY DEF Revoke, IInv, TypeOK, Invite
<1>2. invites' = [invites EXCEPT ![i] = row] /\ UNCHANGED <<now, mode, handler, issued>>
  BY DEF Revoke
<1> HIDE DEF row
<1>4. InvitesOK'
  BY <1>1, <1>2 DEF InvitesOK, IInv, TypeOK
<1>5. \A j \in InviteId : /\ invites[j].count <= invites'[j].count
                          /\ invites'[j].count <= invites'[j].max
  BY <1>1, <1>2, InviteAssumption
     DEF IInv, TypeOK, Invite, RedemptionsBounded, InviteAssumption
<1>6. \A j \in InviteId : Redeeming(j)' \subseteq Redeeming(j)
  BY <1>2 DEF Redeeming
<1>7. CountsOK'
  BY <1>2, <1>4, <1>5, <1>6, FewerRedeeming
<1> QED
  BY <1>2, <1>4, <1>7 DEF IInv, TypeOK, InvitesOK, CountsOK

LEMMA RestartKeeps ==
  ASSUME IInv, Restart
  PROVE  IInv'
<1>1. handler' = [h \in Handlers |-> Idle] /\ UNCHANGED <<now, mode, invites, issued>>
  BY DEF Restart
<1>2. HandlersOK' /\ InvitesOK'
  BY <1>1, IdleRow DEF HandlersOK, InvitesOK, IInv, TypeOK
<1>3. \A j \in InviteId : Redeeming(j)' \subseteq Redeeming(j)
  BY <1>1, IdleRow DEF Redeeming
<1>4. \A j \in InviteId : /\ invites[j].count <= invites'[j].count
                          /\ invites'[j].count <= invites'[j].max
  BY <1>1, InviteAssumption DEF IInv, TypeOK, Invite, RedemptionsBounded, InviteAssumption
<1>5. CountsOK'
  BY <1>1, <1>2, <1>3, <1>4, FewerRedeeming
<1> QED
  BY <1>1, <1>2, <1>5 DEF IInv, TypeOK, HandlersOK, InvitesOK, CountsOK

LEMMA InitIInv == Init => IInv
<1> SUFFICES ASSUME Init PROVE IInv
  OBVIOUS
<1>1. NoInvite \in Invite /\ NoInvite.count = 0 /\ NoInvite.max = 0 /\ 0 \in 0..MaxTime
  BY InviteAssumption DEF NoInvite, Invite, InviteAssumption
<1>2. TypeOK
  BY <1>1, IdleRow, InviteAssumption DEF Init, TypeOK, Mode, InviteAssumption
<1>3. \A i \in InviteId : Redeeming(i) = {}
  BY IdleRow DEF Init, Redeeming
<1>4. \A i \in InviteId : Cardinality(Redeeming(i)) = 0
  BY <1>3, FS_EmptySet
<1>5. \A i \in InviteId : issued[i] = 0 /\ invites[i].count = 0 /\ invites[i].max = 0
  BY <1>1 DEF Init
<1> QED
  BY <1>2, <1>4, <1>5 DEF IInv, RedemptionsBounded, CodesArePaidFor

LEMMA NextIInv == IInv /\ [Next]_vars => IInv'
<1> SUFFICES ASSUME IInv, [Next]_vars PROVE IInv'
  OBVIOUS
<1>1. ASSUME NEW h \in Handlers, Handle(h) PROVE IInv'
  <2>1. ASSUME Fail(h) PROVE IInv'
    BY <2>1, IdleRow, ContinueKeeps DEF Fail, Redeems
  <2> QED
    BY <1>1, <2>1, SubmitKeeps, DecideKeeps, LookupKeeps, RedeemKeeps, InsertKeeps DEF Handle
<1>2. ASSUME NEW m \in Mode, SetMode(m) PROVE IInv'
  BY <1>2 DEF SetMode, IInv, TypeOK, RedemptionsBounded, CodesArePaidFor, Redeeming
<1>3. ASSUME Tick PROVE IInv'
  <2>1. now' \in 0..MaxTime
    BY <1>3, InviteAssumption DEF Tick, IInv, TypeOK, InviteAssumption
  <2> QED
    BY <1>3, <2>1 DEF Tick, IInv, TypeOK, RedemptionsBounded, CodesArePaidFor, Redeeming
<1>4. ASSUME UNCHANGED vars PROVE IInv'
  BY <1>4 DEF vars, IInv, TypeOK, RedemptionsBounded, CodesArePaidFor, Redeeming
<1> QED
  BY <1>1, <1>2, <1>3, <1>4, CreateKeeps, RevokeKeeps, RestartKeeps DEF Next

LEMMA Invariance == Spec => []IInv
BY InitIInv, NextIInv, PTL DEF Spec

----------------------------------------------------------------------------
(* The theorems. *)

\* The rows, the handlers and the ghost count stay within their types, the
\* count of issued codes within what an invite may allow.
THEOREM TypeCorrect == Spec => []TypeOK
<1>1. IInv => TypeOK
  BY DEF IInv
<1> QED
  BY <1>1, Invariance, PTL

\* However many handlers found the last redemption free, the condition of the
\* update lets one of them have it.
THEOREM NeverOverRedeemed == Spec => []RedemptionsBounded
<1>1. IInv => RedemptionsBounded
  BY DEF IInv
<1> QED
  BY <1>1, Invariance, PTL

\* No code names an invite without a redemption of its own behind it, through
\* failed inserts and restarts.
THEOREM EveryCodePaidFor == Spec => []CodesArePaidFor
<1>1. IInv => CodesArePaidFor
  BY DEF IInv
<1> QED
  BY <1>1, Invariance, PTL

\* A handler that found the invite good before it was revoked does not redeem it.
LEMMA RevokedStep ==
  ASSUME TypeOK, [Next]_vars, NEW i \in InviteId, invites[i].revoked
  PROVE  invites'[i].count = invites[i].count
<1>1. ASSUME NEW h \in Handlers, Handle(h) PROVE invites'[i].count = invites[i].count
  <2>1. ASSUME RedeemInvite(h) PROVE invites'[i].count = invites[i].count
    <3>1. StillRedeemable(handler[h].invite, handler[h].stamp) => handler[h].invite # i
      BY DEF StillRedeemable
    <3> QED
      BY <2>1, <3>1 DEF RedeemInvite, TypeOK
  <2> QED
    BY <1>1, <2>1 DEF Handle, Submit, Decide, LookupInvite, InsertCode, Fail, Continue
<1>2. ASSUME NEW j \in InviteId, NEW max \in 1..MaxRedemptions, NEW expires \in 0..MaxTime,
             Create(j, max, expires)
      PROVE  invites'[i].count = invites[i].count
  <2>1. j # i
    BY <1>2 DEF Create, TypeOK, NoInvite
  <2> QED
    BY <1>2, <2>1 DEF Create, TypeOK
<1>3. ASSUME NEW j \in InviteId, Revoke(j) PROVE invites'[i].count = invites[i].count
  BY <1>3 DEF Revoke, TypeOK, Invite
<1> QED
  BY <1>1, <1>2, <1>3 DEF Next, SetMode, Restart, Tick, vars

\* What a handler about to redeem has checked: expiry never changes afterwards.
Stamped ==
  \A h \in Handlers : handler[h].pc = "redeem" =>
    /\ invites[handler[h].invite].exists
    /\ handler[h].stamp < invites[handler[h].invite].expires

LEMMA StampedStep == TypeOK /\ Stamped /\ [Next]_vars => Stamped'
<1> SUFFICES ASSUME TypeOK, Stamped, [Next]_vars,
                    NEW g \in Handlers, handler'[g].pc = "redeem"
             PROVE  /\ invites'[handler'[g].invite].exists
                    /\ handler'[g].stamp < invites'[handler'[g].invite].expires
  BY DEF Stamped
<1> DEFINE Good == /\ invites'[handler'[g].invite].exists
                   /\ handler'[g].stamp < invites'[handler'[g].invite].expires
<1>1. ASSUME NEW h \in Handlers, Handle(h) PROVE Good
  <2>1. ASSUME LookupInvite(h, TRUE) \/ LookupInvite(h, FALSE) PROVE Good
    <3>1. CASE g # h
      BY <2>1, <3>1 DEF LookupInvite, Continue, Stamped, TypeOK
    <3>2. CASE g = h
      <4>1. /\ invites[handler[h].invite].exists /\ MayRedeem(handler[h].invite, now)
            /\ handler' = [handler EXCEPT ![h] = [handler[h] EXCEPT !.pc = "redeem", !.stamp = now]]
            /\ invites' = invites
        BY <2>1, <3>2 DEF LookupInvite, Continue, TypeOK, Idle
      <4>2. handler'[g].invite = handler[h].invite /\ handler'[g].stamp = now
        BY <3>2, <4>1 DEF TypeOK, Handler
      <4>3. handler[h].invite \in InviteId
        BY <2>1, InviteAssumption DEF LookupInvite, TypeOK, InviteId, Handler, InviteAssumption
      <4> QED
        BY <4>1, <4>2, <4>3, InviteAssumption DEF MayRedeem, TypeOK, Invite, InviteAssumption
    <3> QED
      BY <3>1, <3>2
  <2>2. ASSUME RedeemInvite(h) PROVE Good
    <3>1. handler'[g] = handler[g] /\ g # h
      BY <2>2 DEF RedeemInvite, TypeOK, Handler, Idle
    <3>2. \A i \in InviteId : invites'[i].expires = invites[i].expires
                              /\ invites'[i].exists = invites[i].exists
      BY <2>2 DEF RedeemInvite, TypeOK, Invite
    <3>3. handler[g].invite \in InviteId
      BY <3>1, InviteAssumption DEF TypeOK, Handler, InviteId, InviteAssumption
    <3> QED
      BY <3>1, <3>2, <3>3 DEF Stamped
  <2>3. ASSUME NEW approved \in BOOLEAN, NEW i \in InviteId \cup {0}, Submit(h, approved, i)
        PROVE  Good
    BY <2>3 DEF Submit, Continue, Stamped, TypeOK
  <2>4. ASSUME Decide(h) PROVE Good
    <3> DEFINE moved == [handler EXCEPT ![h] = handler'[h]]
    <3>1. handler' = moved /\ handler'[h].pc # "redeem" /\ UNCHANGED invites
      <4>1. ASSUME NEW row \in Handler, row.pc # "redeem", Continue(h, row)
            PROVE  handler' = moved /\ handler'[h].pc # "redeem" /\ UNCHANGED invites
        BY <4>1 DEF Continue, TypeOK
      <4> DEFINE inserting(via) == [handler[h] EXCEPT !.pc = "insert", !.via = via]
                 looking == [handler[h] EXCEPT !.pc = "lookup", !.via = "ref_code"]
      <4>2. \/ Continue(h, inserting("operator")) \/ Continue(h, inserting("open_register"))
            \/ Continue(h, looking) \/ Continue(h, Idle)
        BY <2>4 DEF Decide
      <4>3. \A via \in {"operator", "open_register"} :
              inserting(via) \in Handler /\ inserting(via).pc # "redeem"
        BY DEF TypeOK, Handler, Via
      <4>4. looking \in Handler /\ looking.pc # "redeem"
        BY DEF TypeOK, Handler, Via
      <4> HIDE DEF inserting, looking, moved
      <4> QED
        BY <4>1, <4>2, <4>3, <4>4, IdleRow
    <3> QED
      BY <3>1 DEF Stamped, TypeOK
  <2>5. ASSUME InsertCode(h) \/ Fail(h) PROVE Good
    BY <2>5 DEF InsertCode, Fail, Continue, Stamped, TypeOK, Idle
  <2> QED
    BY <1>1, <2>1, <2>2, <2>3, <2>4, <2>5 DEF Handle
<1>2. ASSUME NEW i \in InviteId, NEW max \in 1..MaxRedemptions, NEW expires \in 0..MaxTime,
             Create(i, max, expires)
      PROVE  Good
  <2>1. handler[g].invite # i
    BY <1>2 DEF Create, Stamped
  <2> QED
    BY <1>2, <2>1 DEF Create, Stamped, TypeOK
<1>3. ASSUME NEW i \in InviteId, Revoke(i) PROVE Good
  <2>1. handler[g].invite \in InviteId
    BY <1>3, InviteAssumption DEF Revoke, TypeOK, Handler, InviteId, InviteAssumption
  <2> QED
    BY <1>3, <2>1 DEF Revoke, Stamped, TypeOK, Invite
<1>4. ASSUME Restart PROVE Good
  BY <1>4 DEF Restart, Idle
<1> QED
  BY <1>1, <1>2, <1>3, <1>4 DEF Next, SetMode, Tick, vars, Stamped

LEMMA ExpiredStep ==
  ASSUME TypeOK, Stamped, [Next]_vars, NEW h \in Handlers,
         handler[h].pc = "redeem", handler'[h].pc = "insert"
  PROVE  handler[h].stamp < invites[handler[h].invite].expires
BY DEF Stamped

\* Revocation is final for the count, whoever had looked at the row before, and
\* only an invite that was good at the handler's stamp is redeemed.
THEOREM RevocationFinal == Spec => DeadNeverRedeemed
<1>1. Init => Stamped
  BY DEF Init, Idle, Stamped
<1>2. Spec => [](TypeOK /\ Stamped)
  BY <1>1, StampedStep, TypeCorrect, PTL DEF Spec
<1> DEFINE Final == \A i \in InviteId :
                      invites[i].revoked => invites'[i].count = invites[i].count
           InTime == \A h \in Handlers :
                       (handler[h].pc = "redeem" /\ handler'[h].pc = "insert")
                         => handler[h].stamp < invites[handler[h].invite].expires
<1>3. TypeOK /\ Stamped /\ [Next]_vars => [Final /\ InTime]_vars
  <2> SUFFICES ASSUME TypeOK, Stamped, [Next]_vars PROVE Final /\ InTime
    OBVIOUS
  <2> QED
    BY RevokedStep, ExpiredStep
<1>4. DeadNeverRedeemed <=> [][Final /\ InTime]_vars
  BY PTL DEF DeadNeverRedeemed
<1> HIDE DEF Final, InTime
<1> QED
  BY <1>2, <1>3, <1>4, PTL DEF Spec

============================================================================
