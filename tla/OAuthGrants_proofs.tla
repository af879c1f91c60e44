------------------------- MODULE OAuthGrants_proofs -------------------------
(***************************************************************************)
(* What TLAPS proves of OAuthGrants for every value of its constants.      *)
(***************************************************************************)
EXTENDS OAuthGrants, TLAPS

\* The clock plus a lifetime stays within Time.
LEMMA Lifetimes ==
  ASSUME NEW n \in 0..MaxTime
  PROVE  /\ n + CodeTTL \in Time
         /\ n + AccessTTL \in Time
         /\ n + RefreshTTL \in Time
         /\ 0 \in Time /\ AccessTTL \in Time /\ RefreshTTL \in Time
  BY OAuthAssumption DEF OAuthAssumption, Time

\* The blank rows Init fills the tables with are well typed.
LEMMA BlankRows == Blank \in MintRow /\ NoCode \in CodeRow /\ NoCall \in Call
<1>1. (CHOOSE cl \in Clients : TRUE) \in Clients
  BY OAuthAssumption DEF OAuthAssumption
<1>2. {"offline_access"} \in Scopes /\ 0 \in Time /\ 0 \in 0..MaxKeys /\ 0 \in 0..MaxCodes
  BY OAuthAssumption DEF OAuthAssumption, Time
<1>3. Blank \in MintRow
  BY <1>2 DEF Blank, MintRow, Via, Resources
<1>4. NoCode \in CodeRow
  BY <1>1, <1>2, Lifetimes, OAuthAssumption DEF NoCode, CodeRow, Via, Resources, OAuthAssumption
<1>5. NoCall \in Call
  BY <1>2 DEF NoCall, Call
<1> QED
  BY <1>3, <1>4, <1>5

\* A row keeps its type when the startup binds it and when a refresh copies it.
LEMMA RowUpdates ==
  ASSUME NEW r \in MintRow
  PROVE  /\ \A res \in Resources, f \in 0..MaxKeys :
              [r EXCEPT !.resource = res, !.family = f] \in MintRow
         /\ \A t \in Time, p \in 0..MaxKeys :
              [r EXCEPT !.accessExp = t, !.parent = p] \in MintRow
  BY DEF MintRow

\* The typing of what InsertMint writes.
LEMMA InsertMintType ==
  ASSUME TypeOK, NEW row \in MintRow, NEW received \in BOOLEAN, InsertMint(row, received)
  PROVE  /\ lastKey' = lastKey + 1 /\ lastKey' \in 1..MaxKeys
         /\ mint' \in [KeyId -> MintRow]
         /\ keyRows' \subseteq 1..lastKey'
         /\ history' \subseteq 1..lastKey'
         /\ delivered' \subseteq 1..lastKey'
         /\ 1..lastKey \subseteq 1..lastKey'
         /\ lastKey' \in keyRows'
         /\ keyRows \subseteq keyRows'
<1>1. lastKey \in 0..MaxKeys /\ MaxKeys \in Nat /\ lastKey < MaxKeys /\ lastKey' = lastKey + 1
  <2>1. MaxKeys \in Nat
    BY OAuthAssumption DEF OAuthAssumption
  <2>2. lastKey \in 0..MaxKeys
    BY DEF TypeOK
  <2>3. lastKey + 1 \in 1..MaxKeys /\ lastKey' = lastKey + 1
    BY Zenon DEF InsertMint, KeyId
  <2> QED
    BY <2>1, <2>2, <2>3
<1>2. lastKey + 1 \in 1..MaxKeys /\ 1..lastKey \subseteq 1..lastKey' /\ lastKey' \in 1..lastKey'
  BY <1>1
<1>3. mint' \in [KeyId -> MintRow]
  BY <1>2 DEF TypeOK, InsertMint, KeyId
<1>4. /\ keyRows' = keyRows \cup {lastKey'}
      /\ history' = history \cup {lastKey'}
      /\ delivered' \subseteq delivered \cup {lastKey'}
  BY <1>1 DEF InsertMint
<1>5. keyRows \subseteq 1..lastKey /\ history \subseteq 1..lastKey /\ delivered \subseteq 1..lastKey
  BY DEF TypeOK
<1> QED
  BY <1>1, <1>2, <1>3, <1>4, <1>5

\* The bound resource and family of a row are well typed.
LEMMA BoundTypes ==
  ASSUME TypeOK, NEW k \in KeyId, NEW i \in Issuers
  PROVE  BoundResource(k, i) \in Resources /\ BoundFamily(k) \in 0..MaxKeys
<1>1. mint[k] \in MintRow /\ k \in 0..MaxKeys
  BY OAuthAssumption DEF TypeOK, KeyId, OAuthAssumption
<1> QED
  BY <1>1 DEF BoundResource, BoundFamily, MintRow, Resources

LEMMA InitTypeOK == Init => TypeOK
<1> SUFFICES ASSUME Init PROVE TypeOK
  OBVIOUS
<1>1. PICK cl \in Clients :
        mint = [k \in KeyId |-> IF k <= LegacyGrants
                 THEN [Blank EXCEPT !.oauth = TRUE, !.client = cl,
                                    !.accessExp = AccessTTL, !.refreshExp = RefreshTTL]
                 ELSE Blank]
  BY DEF Init
<1>2. AccessTTL \in Time /\ RefreshTTL \in Time
  BY OAuthAssumption DEF OAuthAssumption, Time
<1>3. [Blank EXCEPT !.oauth = TRUE, !.client = cl,
                    !.accessExp = AccessTTL, !.refreshExp = RefreshTTL] \in MintRow
  BY BlankRows, <1>2 DEF MintRow
<1>4. mint \in [KeyId -> MintRow]
  BY <1>1, <1>3, BlankRows
<1>5. code \in [CodeId -> CodeRow]
  BY BlankRows DEF Init
<1>6. verify \in [Verifiers -> Call]
  BY BlankRows DEF Init
<1>7. lastKey \in 0..MaxKeys /\ now \in 0..MaxTime
  BY OAuthAssumption DEF Init, OAuthAssumption
<1>8. up \in BOOLEAN /\ issuer \in Issuers /\ codeState \in [CodeId -> {"none", "row", "taken", "spent"}]
  BY DEF Init
<1>9. /\ keyRows \subseteq 1..lastKey /\ enabled \subseteq keyRows /\ revoked \subseteq keyRows
      /\ grants \subseteq 1..lastKey /\ history \subseteq 1..lastKey
      /\ delivered \subseteq 1..lastKey /\ killed \subseteq 0..MaxKeys
  BY DEF Init
<1> QED
  BY <1>4, <1>5, <1>6, <1>7, <1>8, <1>9 DEF TypeOK

LEMMA NextTypeOK == TypeOK /\ [Next]_vars => TypeOK'
<1> SUFFICES ASSUME TypeOK, [Next]_vars PROVE TypeOK'
  OBVIOUS
<1> USE OAuthAssumption
<1>1. ASSUME CreateKey PROVE TypeOK'
  BY <1>1, BlankRows DEF CreateKey, TypeOK, KeyId, OAuthAssumption
<1>2. ASSUME NEW k \in keyRows, DisableKey(k) \/ EnableKey(k) \/ Revoke(k) \/ DeleteKey(k)
      PROVE  TypeOK'
  BY <1>2 DEF DisableKey, EnableKey, Revoke, RevokeKeys, DeleteKey, TypeOK
<1>3. ASSUME NEW S \in SUBSET enabled, RevokeUnused(S) PROVE TypeOK'
  BY <1>3 DEF RevokeUnused, RevokeKeys, TypeOK
<1>4. ASSUME NEW c \in CodeId, NEW cl \in Clients, NEW s \in Scopes, NEW via \in Via,
             HandleAuthorizePost(c, cl, s, via)
      PROVE  TypeOK'
  <2>1. [client |-> cl, scope |-> s, via |-> via, resource |-> issuer,
         expires |-> now + CodeTTL] \in CodeRow
    BY Lifetimes DEF TypeOK, CodeRow, Resources
  <2> QED
    BY <1>4, <2>1 DEF HandleAuthorizePost, TypeOK
<1>5. ASSUME NEW c \in CodeId, NEW proof \in BOOLEAN, TakeCode(c, proof) PROVE TypeOK'
  BY <1>5 DEF TakeCode, TypeOK
<1>6. ASSUME NEW c \in CodeId, NEW received \in BOOLEAN, MintFromCode(c, received)
      PROVE  TypeOK'
  <2> DEFINE row == [oauth |-> TRUE, family |-> lastKey + 1, client |-> code[c].client,
                 scope |-> code[c].scope, via |-> code[c].via,
                 resource |-> code[c].resource,
                 accessExp |-> now + AccessTTL, refreshExp |-> now + RefreshTTL,
                 parent |-> 0, code |-> c]
  <2>1. lastKey + 1 \in 0..MaxKeys
    BY <1>6 DEF MintFromCode, InsertMint, KeyId
  <2>2. row \in MintRow
    BY <2>1, Lifetimes DEF TypeOK, MintRow, CodeRow, CodeId, Resources, OAuthAssumption
  <2>3. InsertMint(row, received)
    BY <1>6 DEF MintFromCode
  <2> HIDE DEF row
  <2> QED
    BY <1>6, <2>2, <2>3, InsertMintType DEF MintFromCode, TypeOK
<1>7. ASSUME NEW c \in CodeId, FailMint(c) PROVE TypeOK'
  BY <1>7 DEF FailMint, TypeOK
<1>8. ASSUME NEW k \in 1..lastKey, NEW cl \in Clients \cup {NoClient}, NEW received \in BOOLEAN,
             RefreshGrant(k, cl, received)
      PROVE  TypeOK'
  <2> DEFINE row == [mint[k] EXCEPT !.accessExp = now + AccessTTL, !.parent = k]
  <2>1. k \in KeyId /\ k \in 0..MaxKeys /\ mint[k] \in MintRow
    BY DEF TypeOK, KeyId, OAuthAssumption
  <2>2. row \in MintRow
    BY <2>1, RowUpdates, Lifetimes DEF TypeOK
  <2>3. InsertMint(row, received)
    BY <1>8 DEF RefreshGrant
  <2> HIDE DEF row
  <2> QED
    BY <1>8, <2>2, <2>3, InsertMintType DEF RefreshGrant, Unconsumed, TypeOK
<1>9. ASSUME NEW k \in 1..lastKey, ReplayRefresh(k) PROVE TypeOK'
  <2>1. mint[k].family \in 0..MaxKeys
    BY DEF TypeOK, KeyId, MintRow, OAuthAssumption
  <2> QED
    BY <1>9, <2>1 DEF ReplayRefresh, Unrevoked, TypeOK
<1>10. ASSUME NEW v \in Verifiers, NEW k \in keyRows, VerifyLookup(v, k) PROVE TypeOK'
  BY <1>10 DEF VerifyLookup, Call, tables, TypeOK, OAuthAssumption
<1>11. ASSUME NEW v \in Verifiers,
              VerifyGrant(v) \/ VerifyExpiry(v) \/ VerifyTouch(v) \/ VerifyDone(v)
       PROVE  TypeOK'
  <2>1. verify' \in [Verifiers -> Call]
    <3>1. PICK from \in {"looked", "bound", "valid", "accepted"}, ok \in BOOLEAN,
               to \in {"idle", "bound", "valid", "accepted"} : Step(v, from, ok, to)
      BY <1>11 DEF VerifyGrant, VerifyExpiry, VerifyTouch, VerifyDone, OAuthValid
    <3>2. verify[v] \in Call
      BY DEF TypeOK
    <3>3. [verify[v] EXCEPT !.pc = to] \in Call
      BY <3>2, <3>1 DEF Call
    <3> QED
      BY <3>1, <3>3, BlankRows DEF Step, TypeOK
  <2>2. UNCHANGED <<now, up, issuer, tables, delivered, killed>>
    BY <1>11 DEF VerifyGrant, VerifyExpiry, VerifyTouch, VerifyDone, Step
  <2> QED
    BY <2>1, <2>2 DEF tables, TypeOK
<1>12. ASSUME NEW i \in Issuers, Restart(i) PROVE TypeOK'
  <2>1. mint' \in [KeyId -> MintRow]
    BY <1>12, RowUpdates, BoundTypes DEF Restart, TypeOK
  <2>2. ASSUME NEW c \in CodeId PROVE BoundCode(c, i) \in CodeRow
    BY DEF TypeOK, BoundCode, CodeRow, Resources
  <2>3. code' \in [CodeId -> CodeRow]
    BY <1>12, <2>2 DEF Restart
  <2> QED
    BY <1>12, <2>1, <2>3, BlankRows DEF Restart, TypeOK
<1>13. CASE Tick
  BY <1>13 DEF Tick, tables, TypeOK, OAuthAssumption
<1>14. CASE UNCHANGED vars
  BY <1>14 DEF vars, tables, TypeOK
<1> QED
  BY <1>1, <1>2, <1>3, <1>4, <1>5, <1>6, <1>7, <1>8, <1>9, <1>10, <1>11, <1>12, <1>13, <1>14
     DEF Next, AdminNext, CodeNext, RefreshNext, VerifyNext

\* Type correctness of the OAuth server.
THEOREM TypeCorrect == Spec => []TypeOK
  BY InitTypeOK, NextTypeOK, PTL DEF Spec

----------------------------------------------------------------------------
(* Families. GrantIsNewest and ReplayKillsFamily are inductive only together *)
(* with FamilyShape: a family is named after its first key, so the name of a *)
(* new family is fresh, in the tables and among the revoked families.        *)

FamilyInv == FamilyShape /\ GrantIsNewest /\ ReplayKillsFamily

\* A step that leaves the mints, the grants, the history and killed alone.
LEMMA QuietStep ==
  ASSUME FamilyInv, UNCHANGED <<up, lastKey, mint, grants, history, killed>>
  PROVE  FamilyInv'
  BY DEF FamilyInv, FamilyShape, GrantIsNewest, IsNewest, ReplayKillsFamily

\* What a mint leaves in the rows: the old ones are as they were.
LEMMA InsertedRows ==
  ASSUME TypeOK, NEW row \in MintRow, lastKey + 1 \in KeyId, lastKey' = lastKey + 1,
         mint' = [mint EXCEPT ![lastKey + 1] = row]
  PROVE  /\ \A j \in 1..lastKey : mint'[j] = mint[j]
         /\ mint'[lastKey + 1] = row
         /\ 1..lastKey' = (1..lastKey) \cup {lastKey + 1}
         /\ lastKey + 1 \notin 1..lastKey
         /\ lastKey \in Nat
         /\ \A j \in 1..lastKey : mint[j].family \in Nat
<1>1. lastKey \in Nat /\ 1..lastKey \subseteq KeyId /\ lastKey + 1 \notin 1..lastKey
  BY OAuthAssumption DEF TypeOK, KeyId, OAuthAssumption
<1>2. \A j \in 1..lastKey : mint[j].family \in Nat
  BY <1>1, OAuthAssumption DEF TypeOK, MintRow, OAuthAssumption
<1> QED
  BY <1>1, <1>2 DEF TypeOK

LEMMA CreateKeyFamily == TypeOK /\ FamilyInv /\ CreateKey => FamilyInv'
<1> SUFFICES ASSUME TypeOK, FamilyInv, CreateKey PROVE FamilyInv'
  OBVIOUS
<1>1. /\ \A j \in 1..lastKey : mint'[j] = mint[j]
      /\ mint'[lastKey + 1] = Blank
      /\ 1..lastKey' = (1..lastKey) \cup {lastKey + 1}
      /\ lastKey + 1 \notin 1..lastKey
      /\ lastKey \in Nat
      /\ \A j \in 1..lastKey : mint[j].family \in Nat
  BY InsertedRows, BlankRows DEF CreateKey
<1>2. Blank.family = 0 /\ Blank.oauth = FALSE
  BY DEF Blank
<1>3. grants \subseteq 1..lastKey /\ history \subseteq 1..lastKey
  BY DEF TypeOK
<1>4. \A k \in 1..lastKey : mint[k].family # 0 => mint[k].family \in 1..lastKey
  BY <1>1 DEF FamilyInv, FamilyShape
<1>5. FamilyShape'
  BY <1>1, <1>2, <1>3, <1>4 DEF CreateKey, FamilyInv, FamilyShape
<1>6. GrantIsNewest'
  BY <1>1, <1>2, <1>3 DEF CreateKey, FamilyInv, GrantIsNewest, IsNewest
<1>7. ReplayKillsFamily'
  BY <1>1, <1>2, <1>3 DEF CreateKey, FamilyInv, ReplayKillsFamily
<1> QED
  BY <1>5, <1>6, <1>7 DEF FamilyInv

\* A code begins a family under the number of its first key, which no row and
\* no revoked family bears yet.
LEMMA MintFamily ==
  ASSUME TypeOK, FamilyInv, NEW c \in CodeId, NEW received \in BOOLEAN,
         MintFromCode(c, received)
  PROVE  FamilyInv'
<1> DEFINE row == [oauth |-> TRUE, family |-> lastKey + 1, client |-> code[c].client,
                 scope |-> code[c].scope, via |-> code[c].via,
                 resource |-> code[c].resource,
                 accessExp |-> now + AccessTTL, refreshExp |-> now + RefreshTTL,
                 parent |-> 0, code |-> c]
<1>1. /\ InsertMint(row, received)
      /\ grants' = grants \cup {lastKey + 1}
      /\ killed' = killed /\ up' = up
  BY DEF MintFromCode
<1>2. row \in MintRow
  <2>1. lastKey + 1 \in 0..MaxKeys
    BY <1>1 DEF InsertMint, KeyId
  <2> QED
    BY <2>1, Lifetimes, OAuthAssumption DEF TypeOK, MintRow, CodeRow, CodeId, Resources, OAuthAssumption
<1>3. row.oauth /\ row.family = lastKey + 1
  OBVIOUS
<1> HIDE DEF row
<1>4. /\ lastKey' = lastKey + 1
      /\ history' = history \cup {lastKey + 1}
      /\ \A j \in 1..lastKey : mint'[j] = mint[j]
      /\ mint'[lastKey + 1] = row
      /\ 1..lastKey' = (1..lastKey) \cup {lastKey + 1}
      /\ lastKey + 1 \notin 1..lastKey
      /\ lastKey \in Nat
      /\ \A j \in 1..lastKey : mint[j].family \in Nat
  BY <1>1, <1>2, InsertedRows DEF InsertMint
<1>5. grants \subseteq 1..lastKey /\ history \subseteq 1..lastKey
  BY DEF TypeOK
<1>6. /\ \A k \in 1..lastKey : mint[k].family # 0 => mint[k].family \in 1..lastKey
      /\ \A k \in 1..lastKey : mint[k].family # lastKey + 1
  BY <1>4 DEF FamilyInv, FamilyShape
<1>7. FamilyShape'
  <2>1. ASSUME NEW k \in 1..lastKey'
        PROVE  /\ mint'[k].family <= k
               /\ mint'[k].family # 0 =>
                    /\ mint'[k].oauth
                    /\ mint'[mint'[k].family].family = mint'[k].family
    <3>1. CASE k = lastKey + 1
      BY <3>1, <1>3, <1>4
    <3>2. CASE k \in 1..lastKey
      <4>1. mint'[k] = mint[k] /\ (mint[k].family # 0 => mint'[mint[k].family] = mint[mint[k].family])
        BY <3>2, <1>4, <1>6
      <4> QED
        BY <3>2, <4>1 DEF FamilyInv, FamilyShape
    <3> QED
      BY <3>1, <3>2, <1>4
  <2>2. \A k \in grants' : mint'[k].oauth
    BY <1>1, <1>3, <1>4, <1>5 DEF FamilyInv, FamilyShape
  <2>3. \A k \in history' : mint'[k].family # 0
    BY <1>3, <1>4, <1>5 DEF FamilyInv, FamilyShape
  <2>4. up' => \A k \in grants' : mint'[k].family # 0
    BY <1>1, <1>3, <1>4, <1>5 DEF FamilyInv, FamilyShape
  <2>5. \A f \in killed' : f \in 1..lastKey' /\ mint'[f].family = f
    BY <1>1, <1>4 DEF FamilyInv, FamilyShape
  <2> QED
    BY <2>1, <2>2, <2>3, <2>4, <2>5 DEF FamilyShape
<1>8. GrantIsNewest'
  BY <1>1, <1>3, <1>4, <1>5, <1>6, SMTT(60) DEF FamilyInv, GrantIsNewest, IsNewest
<1>9. ReplayKillsFamily'
  BY <1>1, <1>3, <1>4, <1>5, <1>6, SMTT(60) DEF FamilyInv, FamilyShape, ReplayKillsFamily
<1> QED
  BY <1>7, <1>8, <1>9 DEF FamilyInv

\* A refresh moves the family's only grant to a key that is newer than all.
LEMMA RefreshFamily ==
  ASSUME TypeOK, FamilyInv, NEW k \in 1..lastKey, NEW cl, NEW received \in BOOLEAN,
         RefreshGrant(k, cl, received)
  PROVE  FamilyInv'
<1> DEFINE row == [mint[k] EXCEPT !.accessExp = now + AccessTTL, !.parent = k]
<1>1. /\ InsertMint(row, received)
      /\ grants' = (grants \ {k}) \cup {lastKey + 1}
      /\ killed' = killed /\ up' = up /\ up
      /\ k \in grants
  BY DEF RefreshGrant, Unconsumed
<1>2. mint[k] \in MintRow /\ k \in 0..MaxKeys
  BY OAuthAssumption DEF TypeOK, KeyId, OAuthAssumption
<1>3. row \in MintRow
  BY <1>2, RowUpdates, Lifetimes DEF TypeOK
<1>4. row.oauth = mint[k].oauth /\ row.family = mint[k].family
  BY <1>2 DEF MintRow
<1> HIDE DEF row
<1>5. /\ lastKey' = lastKey + 1
      /\ history' = history \cup {lastKey + 1}
      /\ \A j \in 1..lastKey : mint'[j] = mint[j]
      /\ mint'[lastKey + 1] = row
      /\ 1..lastKey' = (1..lastKey) \cup {lastKey + 1}
      /\ lastKey + 1 \notin 1..lastKey
      /\ lastKey \in Nat
      /\ \A j \in 1..lastKey : mint[j].family \in Nat
  BY <1>1, <1>3, InsertedRows DEF InsertMint
<1>6. grants \subseteq 1..lastKey /\ history \subseteq 1..lastKey
  BY DEF TypeOK
<1>7. mint[k].oauth /\ mint[k].family # 0 /\ mint[k].family \notin killed
  BY <1>1 DEF FamilyInv, FamilyShape, ReplayKillsFamily
<1>8. \A j \in 1..lastKey : mint[j].family # 0 => mint[j].family \in 1..lastKey
  BY <1>5 DEF FamilyInv, FamilyShape
\* k was the newest of its family, so no other grant is in that family.
<1>9. \A j \in grants : mint[j].family = mint[k].family => j = k
  BY <1>1, <1>5, <1>6, <1>7 DEF FamilyInv, FamilyShape, GrantIsNewest, IsNewest
<1>10. FamilyShape'
  <2>1. mint[k].family \in 1..lastKey /\ mint[mint[k].family].family = mint[k].family
    BY <1>7, <1>8 DEF FamilyInv, FamilyShape
  <2>2. ASSUME NEW j \in 1..lastKey'
        PROVE  /\ mint'[j].family <= j
               /\ mint'[j].family # 0 =>
                    mint'[j].oauth /\ mint'[mint'[j].family].family = mint'[j].family
    <3>1. CASE j = lastKey + 1
      <4>1. mint'[j].family = mint[k].family /\ mint'[j].oauth
        BY <3>1, <1>4, <1>5, <1>7
      <4>2. mint'[mint[k].family].family = mint[k].family
        BY <2>1, <1>5
      <4>3. mint[k].family <= j
        BY <3>1, <2>1, <1>5
      <4> QED
        BY <4>1, <4>2, <4>3
    <3>2. CASE j \in 1..lastKey
      BY <3>2, <1>5, <1>8 DEF FamilyInv, FamilyShape
    <3> QED
      BY <3>1, <3>2, <1>5
  <2>3. \A j \in grants' : mint'[j].oauth /\ mint'[j].family # 0
    BY <1>1, <1>4, <1>5, <1>6, <1>7 DEF FamilyInv, FamilyShape
  <2>4. \A j \in history' : mint'[j].family # 0
    BY <1>4, <1>5, <1>6, <1>7 DEF FamilyInv, FamilyShape
  <2>5. \A f \in killed' : f \in 1..lastKey' /\ mint'[f].family = f
    BY <1>1, <1>5 DEF FamilyInv, FamilyShape
  <2> QED
    BY <2>2, <2>3, <2>4, <2>5 DEF FamilyShape
<1>11. GrantIsNewest'
  BY <1>1, <1>4, <1>5, <1>6, <1>7, <1>9 DEF FamilyInv, GrantIsNewest, IsNewest
<1>12. ReplayKillsFamily'
  BY <1>1, <1>4, <1>5, <1>6, <1>7 DEF FamilyInv, ReplayKillsFamily
<1> QED
  BY <1>10, <1>11, <1>12 DEF FamilyInv

\* A replay takes the grants of the whole family.
LEMMA ReplayFamily ==
  ASSUME TypeOK, FamilyInv, NEW k \in 1..lastKey, ReplayRefresh(k)
  PROVE  FamilyInv'
<1>1. /\ grants' = {j \in grants : mint[j].family # mint[k].family}
      /\ killed' = killed \cup {mint[k].family}
      /\ UNCHANGED <<up, lastKey, mint, history>>
      /\ k \in history
  BY DEF ReplayRefresh, Unrevoked
<1>2. lastKey \in Nat /\ mint[k].family \in Nat
  BY OAuthAssumption DEF TypeOK, KeyId, MintRow, OAuthAssumption
<1>3. mint[k].family \in 1..lastKey /\ mint[mint[k].family].family = mint[k].family
  BY <1>1, <1>2 DEF FamilyInv, FamilyShape
<1>4. FamilyShape'
  BY <1>1, <1>3 DEF FamilyInv, FamilyShape
<1>5. GrantIsNewest'
  BY <1>1 DEF FamilyInv, GrantIsNewest, IsNewest
<1>6. ReplayKillsFamily'
  BY <1>1 DEF FamilyInv, ReplayKillsFamily
<1> QED
  BY <1>4, <1>5, <1>6 DEF FamilyInv

\* The startup gives each unnamed row the number of its key, which names no
\* other family because no other row is named after a key of family 0.
LEMMA RestartFamily ==
  ASSUME TypeOK, FamilyInv, NEW i \in Issuers, Restart(i)
  PROVE  FamilyInv'
<1>1. UNCHANGED <<lastKey, grants, killed>>
  BY DEF Restart
<1>2. /\ grants \subseteq 1..lastKey /\ history \subseteq 1..lastKey
      /\ 1..lastKey \subseteq KeyId /\ lastKey \in Nat
      /\ \A k \in 1..lastKey : mint[k].family \in Nat /\ mint[k] \in MintRow
  BY OAuthAssumption DEF TypeOK, KeyId, MintRow, OAuthAssumption
<1>3. \A k \in 1..lastKey :
        /\ mint'[k].family = IF k \in grants /\ mint[k].family = 0 THEN k ELSE mint[k].family
        /\ mint'[k].oauth = mint[k].oauth
  <2> SUFFICES ASSUME NEW k \in 1..lastKey
               PROVE  /\ mint'[k].family = IF k \in grants /\ mint[k].family = 0
                                             THEN k ELSE mint[k].family
                      /\ mint'[k].oauth = mint[k].oauth
    OBVIOUS
  <2>1. CASE k \in grants
    <3>1. mint'[k] = [mint[k] EXCEPT !.resource = BoundResource(k, i), !.family = BoundFamily(k)]
      BY <2>1, <1>2 DEF Restart
    <3> QED
      BY <3>1, <2>1, <1>2 DEF MintRow, BoundFamily
  <2>2. CASE k \notin grants
    <3>1. mint'[k] = mint[k]
      BY <2>2, <1>2 DEF Restart
    <3> QED
      BY <3>1, <2>2
  <2> QED
    BY <2>1, <2>2
<1>4. history' \subseteq history \cup grants
  BY DEF Restart
\* Named families keep their members; the new ones have one member each.
<1>5. \A k \in 1..lastKey : mint[k].family = 0 => \A j \in 1..lastKey : mint[j].family # k
  BY <1>2 DEF FamilyInv, FamilyShape
<1>6. \A k \in 1..lastKey : mint[k].family # 0 => mint[k].family \in 1..lastKey
  BY <1>2 DEF FamilyInv, FamilyShape
<1>7. FamilyShape'
  BY <1>1, <1>2, <1>3, <1>4, <1>6 DEF FamilyInv, FamilyShape
<1>8. GrantIsNewest'
  <2> SUFFICES ASSUME NEW k \in grants, NEW j \in 1..lastKey,
                      mint'[j].oauth, mint'[j].family = mint'[k].family
               PROVE  j <= k
    BY <1>1 DEF GrantIsNewest, IsNewest
  <2>1. CASE mint[k].family = 0
    BY <2>1, <1>2, <1>3, <1>5
  <2>2. CASE mint[k].family # 0
    BY <2>2, <1>2, <1>3, <1>5 DEF FamilyInv, GrantIsNewest, IsNewest
  <2> QED
    BY <2>1, <2>2
<1>9. ReplayKillsFamily'
  <2> SUFFICES ASSUME NEW k \in grants, mint'[k].family \in killed PROVE FALSE
    BY <1>1 DEF ReplayKillsFamily
  <2>1. CASE mint[k].family = 0
    BY <2>1, <1>2, <1>3 DEF FamilyInv, FamilyShape
  <2>2. CASE mint[k].family # 0
    BY <2>2, <1>2, <1>3 DEF FamilyInv, FamilyShape, ReplayKillsFamily
  <2> QED
    BY <2>1, <2>2
<1> QED
  BY <1>7, <1>8, <1>9 DEF FamilyInv

LEMMA InitFamily == Init => FamilyInv
<1> SUFFICES ASSUME Init PROVE FamilyInv
  OBVIOUS
<1>1. \A k \in 1..lastKey : mint[k].family = 0 /\ mint[k].oauth
  BY OAuthAssumption DEF Init, Blank, KeyId, OAuthAssumption
<1>2. grants = 1..lastKey /\ history = {} /\ killed = {} /\ up = FALSE
  BY DEF Init
<1>3. FamilyShape
  BY <1>1, <1>2 DEF FamilyShape
<1> QED
  BY <1>1, <1>2, <1>3 DEF FamilyInv, GrantIsNewest, ReplayKillsFamily

LEMMA NextFamily == TypeOK /\ FamilyInv /\ [Next]_vars => FamilyInv'
<1> SUFFICES ASSUME TypeOK, FamilyInv, [Next]_vars PROVE FamilyInv'
  OBVIOUS
<1>1. ASSUME NEW k \in keyRows, DisableKey(k) \/ EnableKey(k) \/ Revoke(k) \/ DeleteKey(k)
      PROVE  FamilyInv'
  BY <1>1, QuietStep DEF DisableKey, EnableKey, Revoke, RevokeKeys, DeleteKey
<1>2. ASSUME NEW S \in SUBSET enabled, RevokeUnused(S) PROVE FamilyInv'
  BY <1>2, QuietStep DEF RevokeUnused, RevokeKeys
<1>3. ASSUME NEW c \in CodeId, NEW cl \in Clients, NEW s \in Scopes, NEW via \in Via,
             HandleAuthorizePost(c, cl, s, via)
      PROVE  FamilyInv'
  BY <1>3, QuietStep DEF HandleAuthorizePost
<1>4. ASSUME NEW c \in CodeId, NEW proof \in BOOLEAN, TakeCode(c, proof) \/ FailMint(c)
      PROVE  FamilyInv'
  BY <1>4, QuietStep DEF TakeCode, FailMint
<1>5. ASSUME NEW v \in Verifiers, NEW k \in keyRows, VerifyLookup(v, k) PROVE FamilyInv'
  BY <1>5, QuietStep DEF VerifyLookup, tables
<1>6. ASSUME NEW v \in Verifiers,
             VerifyGrant(v) \/ VerifyExpiry(v) \/ VerifyTouch(v) \/ VerifyDone(v)
      PROVE  FamilyInv'
  BY <1>6, QuietStep DEF VerifyGrant, VerifyExpiry, VerifyTouch, VerifyDone, Step, tables
<1>7. CASE Tick
  BY <1>7, QuietStep DEF Tick, tables
<1>8. CASE UNCHANGED vars
  BY <1>8, QuietStep DEF vars, tables
<1> QED
  BY <1>1, <1>2, <1>3, <1>4, <1>5, <1>6, <1>7, <1>8, CreateKeyFamily, MintFamily,
     RefreshFamily, ReplayFamily, RestartFamily
     DEF Next, AdminNext, CodeNext, RefreshNext, VerifyNext

LEMMA FamilyInvariance == Spec => []FamilyInv
  BY InitFamily, NextFamily, TypeCorrect, PTL DEF Spec

\* At every moment the grants of a family are at most one, that of its newest key.
THEOREM FamiliesCorrect == Spec => []GrantIsNewest
  BY FamilyInvariance, PTL DEF FamilyInv

\* A family revoked by the replay of a consumed refresh token has no grant for good.
THEOREM ReplayFinal == Spec => []ReplayKillsFamily
  BY FamilyInvariance, PTL DEF FamilyInv

----------------------------------------------------------------------------
(* Refinement. A row in grants is a current key of its family, so each step *)
(* that changes the grants changes one family, and the families of a        *)
(* restart are all new.                                                     *)

\* A step that leaves the mints and the grants alone is a stutter.
LEMMA StutterFamilies ==
  ASSUME UNCHANGED <<lastKey, mint, grants>>
  PROVE  UNCHANGED Families!familyVars
  BY DEF Families!familyVars, CurrentKeys, FamilyOf

\* What a mint does to the current keys of each family.
LEMMA CurrentAfterMint ==
  ASSUME TypeOK, NEW row \in MintRow, lastKey + 1 \in KeyId, lastKey' = lastKey + 1,
         mint' = [mint EXCEPT ![lastKey + 1] = row], NEW gone \in SUBSET grants,
         grants' = (grants \ gone) \cup {lastKey + 1}
  PROVE  \A f : CurrentKeys(f)' = (CurrentKeys(f) \ gone)
                                    \cup (IF row.family = f THEN {lastKey + 1} ELSE {})
<1>1. /\ \A j \in 1..lastKey : mint'[j] = mint[j]
      /\ mint'[lastKey + 1] = row
      /\ grants \subseteq 1..lastKey
  BY InsertedRows DEF TypeOK
<1> QED
  BY <1>1 DEF CurrentKeys, FamilyOf

LEMMA InitRefines == Init => Families!Init
<1> SUFFICES ASSUME Init PROVE Families!Init
  OBVIOUS
<1>1. \A k \in 1..lastKey : mint[k].family = 0
  BY OAuthAssumption DEF Init, Blank, KeyId, OAuthAssumption
<1>2. grants = 1..lastKey /\ lastKey \in 0..MaxKeys
  BY OAuthAssumption DEF Init, OAuthAssumption
<1>3. CurrentKeys(0) \subseteq 1..lastKey
  BY <1>2 DEF CurrentKeys
<1>4. \A f \in KeyId : CurrentKeys(f) = {}
  BY <1>1, <1>2 DEF CurrentKeys, FamilyOf, KeyId
<1> QED
  BY <1>2, <1>3, <1>4 DEF Families!Init, KeyId

LEMMA CreateKeyRefines == TypeOK /\ CreateKey => Families!Manual
<1> SUFFICES ASSUME TypeOK, CreateKey PROVE Families!Manual
  OBVIOUS
<1>1. /\ \A j \in 1..lastKey : mint'[j] = mint[j]
      /\ grants \subseteq 1..lastKey /\ grants' = grants /\ lastKey' = lastKey + 1
  BY InsertedRows, BlankRows DEF CreateKey, TypeOK
<1>2. ASSUME NEW f PROVE CurrentKeys(f)' = CurrentKeys(f)
  BY <1>1 DEF CurrentKeys, FamilyOf
<1>3. lastKey < MaxKeys
  BY OAuthAssumption DEF CreateKey, TypeOK, KeyId, OAuthAssumption
<1> QED
  BY <1>1, <1>2, <1>3 DEF Families!Manual

LEMMA MintRefines ==
  ASSUME TypeOK, FamilyInv, NEW c \in CodeId, NEW received \in BOOLEAN,
         MintFromCode(c, received)
  PROVE  Families!Open
<1> DEFINE row == [oauth |-> TRUE, family |-> lastKey + 1, client |-> code[c].client,
                 scope |-> code[c].scope, via |-> code[c].via,
                 resource |-> code[c].resource,
                 accessExp |-> now + AccessTTL, refreshExp |-> now + RefreshTTL,
                 parent |-> 0, code |-> c]
<1>1. InsertMint(row, received) /\ grants' = (grants \ {}) \cup {lastKey + 1}
  BY DEF MintFromCode
<1>2. /\ lastKey + 1 \in KeyId /\ lastKey' = lastKey + 1
      /\ mint' = [mint EXCEPT ![lastKey + 1] = row]
  BY <1>1 DEF InsertMint
<1>3. row \in MintRow
  <2>1. lastKey + 1 \in 0..MaxKeys
    BY <1>2 DEF KeyId
  <2> QED
    BY <2>1, Lifetimes, OAuthAssumption DEF TypeOK, MintRow, CodeRow, CodeId, Resources, OAuthAssumption
<1>4. row.family = lastKey + 1
  OBVIOUS
<1> HIDE DEF row
<1>5. \A f : CurrentKeys(f)' = CurrentKeys(f) \cup (IF lastKey + 1 = f THEN {lastKey + 1} ELSE {})
  <2>1. {} \in SUBSET grants
    OBVIOUS
  <2>2. \A f : CurrentKeys(f)' = (CurrentKeys(f) \ {})
                                  \cup (IF row.family = f THEN {lastKey + 1} ELSE {})
    BY <1>1, <1>2, <1>3, <2>1, CurrentAfterMint, Zenon
  <2> QED
    BY <2>2, <1>4
<1>6. CurrentKeys(lastKey + 1) = {}
  <2>1. \A k \in grants : mint[k].family <= k /\ k \in 1..lastKey /\ mint[k].family \in Nat
    BY <1>2, <1>3, InsertedRows DEF FamilyInv, FamilyShape, TypeOK
  <2>2. lastKey \in Nat
    BY <1>2, <1>3, InsertedRows
  <2>3. \A k \in grants : mint[k].family # lastKey + 1
    BY <2>1, <2>2
  <2> QED
    BY <2>3 DEF CurrentKeys, FamilyOf
<1>7. lastKey \in Nat /\ lastKey < MaxKeys /\ MaxKeys \in Nat
  BY <1>2, OAuthAssumption DEF TypeOK, KeyId, OAuthAssumption
<1>8. CurrentKeys(0)' = CurrentKeys(0)
  <2>1. lastKey + 1 # 0
    BY <1>7
  <2>2. CurrentKeys(0)' = CurrentKeys(0) \cup (IF lastKey + 1 = 0 THEN {lastKey + 1} ELSE {})
    BY <1>5, Zenon
  <2> QED
    BY <2>1, <2>2
<1>9. [f \in KeyId |-> CurrentKeys(f)']
        = [[f \in KeyId |-> CurrentKeys(f)] EXCEPT ![lastKey + 1] = {lastKey + 1}]
  BY <1>5, <1>6
<1> QED
  BY <1>2, <1>7, <1>8, <1>9 DEF Families!Open

LEMMA RefreshRefines ==
  ASSUME TypeOK, FamilyInv, NEW k \in 1..lastKey, NEW cl, NEW received \in BOOLEAN,
         RefreshGrant(k, cl, received)
  PROVE  \E f \in KeyId : Families!Rotate(f)
<1> DEFINE row == [mint[k] EXCEPT !.accessExp = now + AccessTTL, !.parent = k]
<1>1. /\ InsertMint(row, received)
      /\ grants' = (grants \ {k}) \cup {lastKey + 1}
      /\ k \in grants /\ up
  BY DEF RefreshGrant, Unconsumed
<1>2. /\ lastKey + 1 \in KeyId /\ lastKey' = lastKey + 1
      /\ mint' = [mint EXCEPT ![lastKey + 1] = row]
  BY <1>1 DEF InsertMint
<1>3. mint[k] \in MintRow /\ k \in 0..MaxKeys
  BY OAuthAssumption DEF TypeOK, KeyId, OAuthAssumption
<1>4. row \in MintRow
  BY <1>3, RowUpdates, Lifetimes DEF TypeOK
<1>5. row.family = mint[k].family
  BY <1>3 DEF MintRow
<1> HIDE DEF row
<1> DEFINE g == mint[k].family
<1>6. /\ lastKey \in Nat /\ lastKey < MaxKeys /\ MaxKeys \in Nat
      /\ grants \subseteq 1..lastKey /\ \A j \in 1..lastKey : mint[j].family \in Nat
  <2>1. lastKey \in Nat /\ \A j \in 1..lastKey : mint[j].family \in Nat
    BY <1>2, <1>4, InsertedRows
  <2> QED
    BY <2>1, <1>2, OAuthAssumption DEF TypeOK, KeyId, OAuthAssumption
<1>7. g # 0 /\ g \in KeyId
  <2>1. g # 0 /\ g <= k /\ g \in Nat
    BY <1>1, <1>6 DEF FamilyInv, FamilyShape
  <2> QED
    BY <2>1, <1>6 DEF KeyId
\* k was the newest of its family, so no other grant is in that family.
<1>8. \A j \in grants : mint[j].family = g => j = k
  <2>1. ASSUME NEW j \in grants, mint[j].family = g PROVE j = k
    <3>1. mint[j].oauth /\ mint[k].oauth /\ j \in 1..lastKey /\ k \in 1..lastKey
      BY <1>1, <1>6 DEF FamilyInv, FamilyShape
    <3>2. j <= k /\ k <= j
      BY <1>1, <1>7, <2>1, <3>1 DEF FamilyInv, GrantIsNewest, IsNewest
    <3> QED
      BY <3>1, <3>2
  <2> QED
    BY <2>1
<1>9. CurrentKeys(g) = {k}
  BY <1>1, <1>8 DEF CurrentKeys, FamilyOf
<1>10. \A f : CurrentKeys(f)' = IF f = g THEN {lastKey + 1} ELSE CurrentKeys(f)
  <2>1. {k} \in SUBSET grants
    BY <1>1
  <2>2. \A f : CurrentKeys(f)' = (CurrentKeys(f) \ {k})
                                  \cup (IF row.family = f THEN {lastKey + 1} ELSE {})
    BY <1>1, <1>2, <1>4, <2>1, CurrentAfterMint, Zenon
  <2>3. \A f : f # g => k \notin CurrentKeys(f)
    BY DEF CurrentKeys, FamilyOf
  <2> QED
    BY <2>2, <2>3, <1>5, <1>9
<1> HIDE DEF g
<1>11. CurrentKeys(0)' = CurrentKeys(0)
  BY <1>7, <1>10
<1>12. [f \in KeyId |-> CurrentKeys(f)']
         = [[f \in KeyId |-> CurrentKeys(f)] EXCEPT ![g] = {lastKey + 1}]
  BY <1>7, <1>10
<1>13. Families!Rotate(g)
  BY <1>2, <1>6, <1>7, <1>9, <1>11, <1>12 DEF Families!Rotate
<1> QED
  BY <1>7, <1>13

LEMMA ReplayRefines ==
  ASSUME TypeOK, FamilyInv, NEW k \in 1..lastKey, ReplayRefresh(k)
  PROVE  Families!Next \/ UNCHANGED Families!familyVars
<1> DEFINE g == mint[k].family
<1>1. /\ grants' = {j \in grants : mint[j].family # g}
      /\ k \in history /\ UNCHANGED <<lastKey, mint>>
  BY DEF ReplayRefresh, Unrevoked
<1>2. g # 0 /\ g \in KeyId
  BY <1>1, OAuthAssumption
     DEF FamilyInv, FamilyShape, TypeOK, KeyId, MintRow, OAuthAssumption
<1>3. \A f : CurrentKeys(f)' = IF f = g THEN {} ELSE CurrentKeys(f)
  BY <1>1 DEF CurrentKeys, FamilyOf
<1> HIDE DEF g
<1>4. CurrentKeys(0)' = CurrentKeys(0)
  BY <1>2, <1>3
<1>5. CASE CurrentKeys(g) = {}
  <2>1. \A f : CurrentKeys(f)' = CurrentKeys(f)
    BY <1>3, <1>5
  <2>2. [f \in KeyId |-> CurrentKeys(f)'] = [f \in KeyId |-> CurrentKeys(f)]
    BY <2>1
  <2> QED
    BY <1>1, <1>4, <2>2 DEF Families!familyVars
<1>6. CASE CurrentKeys(g) # {}
  <2>1. [f \in KeyId |-> CurrentKeys(f)'] = [[f \in KeyId |-> CurrentKeys(f)] EXCEPT ![g] = {}]
    BY <1>2, <1>3
  <2>2. Families!Close(g)
    BY <1>1, <1>2, <1>4, <1>6, <2>1 DEF Families!Close
  <2> QED
    BY <1>2, <2>2 DEF Families!Next, KeyId
<1> QED
  BY <1>5, <1>6

\* The families a restart names are new: no row is in the family of a key that
\* is itself in none.
LEMMA RestartRefines ==
  ASSUME TypeOK, FamilyInv, NEW i \in Issuers, Restart(i)
  PROVE  Families!Adopt
<1>1. UNCHANGED <<lastKey, grants>>
  BY DEF Restart
<1>2. /\ grants \subseteq 1..lastKey /\ grants \subseteq KeyId
      /\ lastKey \in Nat
      /\ \A k \in grants : mint[k].family \in Nat /\ mint[k] \in MintRow
  BY OAuthAssumption DEF TypeOK, KeyId, MintRow, OAuthAssumption
<1>3. \A k \in grants : FamilyOf(k)' = IF FamilyOf(k) = 0 THEN k ELSE FamilyOf(k)
  <2> SUFFICES ASSUME NEW k \in grants
               PROVE  mint'[k].family = IF mint[k].family = 0 THEN k ELSE mint[k].family
    BY DEF FamilyOf
  <2>1. mint'[k] = [mint[k] EXCEPT !.resource = BoundResource(k, i), !.family = BoundFamily(k)]
    BY <1>2 DEF Restart
  <2> QED
    BY <2>1, <1>2 DEF MintRow, BoundFamily
<1>4. CurrentKeys(0)' = {}
  <2>1. \A k \in grants : k # 0
    BY <1>2
  <2>2. \A k \in grants : FamilyOf(k)' # 0
    BY <1>3, <2>1
  <2> QED
    BY <1>1, <2>2 DEF CurrentKeys
<1>5. ASSUME NEW f \in KeyId
      PROVE  CurrentKeys(f)' = IF f \in CurrentKeys(0) THEN {f} ELSE CurrentKeys(f)
  <2>1. f # 0
    BY DEF KeyId
  <2>2. CASE f \in CurrentKeys(0)
    <3>1. f \in 1..lastKey /\ f \in grants /\ FamilyOf(f) = 0
      BY <2>2, <1>2 DEF CurrentKeys
    <3>2. \A j \in grants : FamilyOf(j) # f
      BY <3>1, <1>2, <2>1 DEF FamilyInv, FamilyShape, FamilyOf
    <3> QED
      BY <2>2, <3>1, <3>2, <1>1, <1>3 DEF CurrentKeys
  <2>3. CASE f \notin CurrentKeys(0)
    BY <2>1, <2>3, <1>1, <1>3 DEF CurrentKeys
  <2> QED
    BY <2>2, <2>3
<1>6. [f \in KeyId |-> CurrentKeys(f)']
        = [f \in KeyId |-> IF f \in CurrentKeys(0) THEN {f} ELSE CurrentKeys(f)]
  BY <1>5
<1>7. [f \in KeyId |-> CurrentKeys(f)']
        = [f \in KeyId |-> IF f \in CurrentKeys(0) THEN {f}
                             ELSE [h \in KeyId |-> CurrentKeys(h)][f]]
  BY <1>6
<1> QED
  BY <1>1, <1>4, <1>7 DEF Families!Adopt, KeyId

LEMMA NextRefines ==
  TypeOK /\ FamilyInv /\ [Next]_vars => [Families!Next]_Families!familyVars
<1> SUFFICES ASSUME TypeOK, FamilyInv, [Next]_vars
             PROVE  Families!Next \/ UNCHANGED Families!familyVars
  OBVIOUS
<1>1. CASE CreateKey
  BY <1>1, CreateKeyRefines DEF Families!Next
<1>2. ASSUME NEW c \in CodeId, NEW received \in BOOLEAN, MintFromCode(c, received)
      PROVE  Families!Next
  BY <1>2, MintRefines DEF Families!Next
<1>3. ASSUME NEW k \in 1..lastKey, NEW cl \in Clients \cup {NoClient}, NEW received \in BOOLEAN,
             RefreshGrant(k, cl, received)
      PROVE  Families!Next
  BY <1>3, RefreshRefines DEF Families!Next, KeyId
<1>4. ASSUME NEW i \in Issuers, Restart(i) PROVE Families!Next
  BY <1>4, RestartRefines DEF Families!Next
<1>5. ASSUME NEW k \in keyRows, DisableKey(k) \/ EnableKey(k) \/ Revoke(k) \/ DeleteKey(k)
      PROVE  UNCHANGED Families!familyVars
  BY <1>5, StutterFamilies DEF DisableKey, EnableKey, Revoke, RevokeKeys, DeleteKey
<1>6. ASSUME NEW S \in SUBSET enabled, RevokeUnused(S) PROVE UNCHANGED Families!familyVars
  BY <1>6, StutterFamilies DEF RevokeUnused, RevokeKeys
<1>7. ASSUME NEW c \in CodeId, NEW cl \in Clients, NEW s \in Scopes, NEW via \in Via,
             HandleAuthorizePost(c, cl, s, via)
      PROVE  UNCHANGED Families!familyVars
  BY <1>7, StutterFamilies DEF HandleAuthorizePost
<1>8. ASSUME NEW c \in CodeId, NEW proof \in BOOLEAN, TakeCode(c, proof) \/ FailMint(c)
      PROVE  UNCHANGED Families!familyVars
  BY <1>8, StutterFamilies DEF TakeCode, FailMint
<1>9. ASSUME NEW v \in Verifiers, NEW k \in keyRows, VerifyLookup(v, k)
      PROVE  UNCHANGED Families!familyVars
  BY <1>9, StutterFamilies DEF VerifyLookup, tables
<1>10. ASSUME NEW v \in Verifiers,
              VerifyGrant(v) \/ VerifyExpiry(v) \/ VerifyTouch(v) \/ VerifyDone(v)
       PROVE  UNCHANGED Families!familyVars
  BY <1>10, StutterFamilies DEF VerifyGrant, VerifyExpiry, VerifyTouch, VerifyDone, Step, tables
<1>11. CASE Tick \/ UNCHANGED vars
  BY <1>11, StutterFamilies DEF Tick, vars, tables
<1> QED
  BY <1>1, <1>2, <1>3, <1>4, <1>5, <1>6, <1>7, <1>8, <1>9, <1>10, <1>11, ReplayRefines
     DEF Next, AdminNext, CodeNext, RefreshNext, VerifyNext

\* The tables implement the abstract families: a code opens a family, a refresh
\* replaces its current key, a replay closes it, a restart adopts the rows of
\* the previous release, and nothing else touches it.
THEOREM Refinement == Spec => ImplementsFamilies
  BY FamilyInvariance, TypeCorrect, InitRefines, NextRefines, PTL
     DEF Spec, ImplementsFamilies, Families!Spec

----------------------------------------------------------------------------
(* What any step does to the keys there are, and which steps make one. *)

Minting ==
  \/ CreateKey
  \/ \E c \in CodeId, received \in BOOLEAN : MintFromCode(c, received)
  \/ \E k \in 1..lastKey, cl \in Clients \cup {NoClient}, received \in BOOLEAN :
       RefreshGrant(k, cl, received)

\* A key that is there: its rows only go, and a startup alone binds it.
OldKey(k) ==
  /\ k \in grants' => k \in grants
  /\ k \notin keyRows => k \notin keyRows'
  /\ k \in revoked => k \in revoked' \/ k \notin keyRows'
  /\ \/ mint'[k] = mint[k]
     \/ \E i \in Issuers :
          /\ Restart(i)
          /\ mint'[k] = [mint[k] EXCEPT !.resource = BoundResource(k, i), !.family = BoundFamily(k)]

LEMMA MintingKeeps ==
  ASSUME TypeOK, Minting
  PROVE  /\ lastKey' = lastKey + 1 /\ lastKey \in Nat
         /\ 1..lastKey' = (1..lastKey) \cup {lastKey + 1} /\ lastKey + 1 \notin 1..lastKey
         /\ \A k \in 1..lastKey : mint'[k] = mint[k]
         /\ keyRows' = keyRows \cup {lastKey + 1} /\ revoked' = revoked
         /\ grants' \subseteq grants \cup {lastKey + 1}
         /\ UNCHANGED <<now, up, issuer, verify>>
<1>1. lastKey \in 0..MaxKeys /\ MaxKeys \in Nat
  BY OAuthAssumption DEF TypeOK, OAuthAssumption
<1>2. PICK row : mint' = [mint EXCEPT ![lastKey + 1] = row]
  BY DEF Minting, CreateKey, MintFromCode, RefreshGrant, InsertMint
<1>3. \A k \in 1..lastKey : mint'[k] = mint[k]
  BY <1>1, <1>2 DEF TypeOK, KeyId
<1>4. /\ lastKey' = lastKey + 1 /\ keyRows' = keyRows \cup {lastKey + 1} /\ revoked' = revoked
      /\ UNCHANGED <<now, up, issuer, verify>>
  BY DEF Minting, CreateKey, MintFromCode, RefreshGrant, InsertMint
<1>5. grants' \subseteq grants \cup {lastKey + 1}
  BY DEF Minting, CreateKey, MintFromCode, RefreshGrant, Unconsumed
<1> QED
  BY <1>1, <1>3, <1>4, <1>5

LEMMA Undisturbed ==
  ASSUME UNCHANGED <<lastKey, mint>>, grants' \subseteq grants, keyRows' \subseteq keyRows,
         \A k \in revoked : k \in revoked' \/ k \notin keyRows'
  PROVE  lastKey' = lastKey /\ \A k \in 1..lastKey : OldKey(k)
BY DEF OldKey

\* Every other step leaves the number of keys alone.
LEMMA OtherSteps ==
  ASSUME TypeOK, [Next]_vars, ~Minting
  PROVE  /\ lastKey' = lastKey /\ now <= now'
         /\ \A k \in 1..lastKey : OldKey(k)
<1>0. now \in Nat /\ 1..lastKey \subseteq KeyId
  BY OAuthAssumption DEF TypeOK, KeyId, OAuthAssumption
<1>1. ASSUME NEW k \in keyRows, DisableKey(k) \/ EnableKey(k) \/ Revoke(k) \/ DeleteKey(k)
      PROVE  /\ UNCHANGED <<lastKey, mint, grants, now>> /\ keyRows' \subseteq keyRows
             /\ \A j \in revoked : j \in revoked' \/ j \notin keyRows'
  BY <1>1 DEF DisableKey, EnableKey, Revoke, RevokeKeys, DeleteKey
<1>2. ASSUME NEW S \in SUBSET enabled, RevokeUnused(S)
      PROVE  UNCHANGED <<lastKey, mint, grants, now, keyRows>> /\ revoked \subseteq revoked'
  BY <1>2 DEF RevokeUnused, RevokeKeys
<1>3. ASSUME NEW c \in CodeId, NEW cl \in Clients, NEW s \in Scopes, NEW via \in Via,
             HandleAuthorizePost(c, cl, s, via)
      PROVE  UNCHANGED <<lastKey, mint, grants, now, keyRows, revoked>>
  BY <1>3 DEF HandleAuthorizePost
<1>4. ASSUME NEW c \in CodeId, NEW proof \in BOOLEAN, TakeCode(c, proof) \/ FailMint(c)
      PROVE  UNCHANGED <<lastKey, mint, grants, now, keyRows, revoked>>
  BY <1>4 DEF TakeCode, FailMint
<1>5. ASSUME NEW k \in 1..lastKey, ReplayRefresh(k)
      PROVE  UNCHANGED <<lastKey, mint, now, keyRows, revoked>> /\ grants' \subseteq grants
  BY <1>5 DEF ReplayRefresh, Unrevoked
<1>6. ASSUME NEW v \in Verifiers, NEW k \in keyRows, VerifyLookup(v, k)
      PROVE  UNCHANGED <<lastKey, mint, grants, now, keyRows, revoked>>
  BY <1>6 DEF VerifyLookup, tables
<1>7. ASSUME NEW v \in Verifiers,
             VerifyGrant(v) \/ VerifyExpiry(v) \/ VerifyTouch(v) \/ VerifyDone(v)
      PROVE  UNCHANGED <<lastKey, mint, grants, now, keyRows, revoked>>
  BY <1>7 DEF VerifyGrant, VerifyExpiry, VerifyTouch, VerifyDone, Step, tables
<1>8. ASSUME NEW i \in Issuers, Restart(i)
      PROVE  lastKey' = lastKey /\ now <= now' /\ \A j \in 1..lastKey : OldKey(j)
  <2>1. ASSUME NEW j \in 1..lastKey
        PROVE  mint'[j] \in {mint[j],
                 [mint[j] EXCEPT !.resource = BoundResource(j, i), !.family = BoundFamily(j)]}
    BY <1>0, <1>8 DEF Restart
  <2>2. UNCHANGED <<lastKey, grants, now, keyRows, revoked>>
    BY <1>8 DEF Restart
  <2>3. ASSUME NEW j \in 1..lastKey PROVE OldKey(j)
    BY <1>8, <2>1, <2>2 DEF OldKey
  <2> QED
    BY <1>0, <2>2, <2>3
<1>9. CASE Tick
  <2>1. UNCHANGED <<lastKey, mint, grants, keyRows, revoked>> /\ now' = now + 1
    BY <1>9 DEF Tick, tables
  <2> QED
    BY <1>0, <2>1, Undisturbed
<1>10. ASSUME UNCHANGED vars
       PROVE  UNCHANGED <<lastKey, mint, grants, now, keyRows, revoked>>
  BY <1>10 DEF vars, tables
<1>11. ASSUME UNCHANGED <<lastKey, mint, now>>, grants' \subseteq grants, keyRows' \subseteq keyRows,
              \A k \in revoked : k \in revoked' \/ k \notin keyRows'
       PROVE  lastKey' = lastKey /\ now <= now' /\ \A j \in 1..lastKey : OldKey(j)
  BY <1>0, <1>11, Undisturbed
<1>12. CASE AdminNext
  BY <1>1, <1>2, <1>11, <1>12 DEF AdminNext, Minting
<1>13. CASE CodeNext \/ RefreshNext
  BY <1>3, <1>4, <1>5, <1>11, <1>13 DEF CodeNext, RefreshNext, Minting
<1>14. CASE VerifyNext \/ UNCHANGED vars
  BY <1>6, <1>7, <1>10, <1>11, <1>14 DEF VerifyNext
<1> QED
  BY <1>8, <1>9, <1>12, <1>13, <1>14 DEF Next

LEMMA KeysStay ==
  ASSUME TypeOK, [Next]_vars
  PROVE  /\ now <= now' /\ 1..lastKey \subseteq 1..lastKey'
         /\ \A k \in 1..lastKey : OldKey(k)
<1>1. CASE Minting
  <2>1. now \in Nat
    BY OAuthAssumption DEF TypeOK, OAuthAssumption
  <2>2. /\ 1..lastKey' = (1..lastKey) \cup {lastKey + 1} /\ lastKey + 1 \notin 1..lastKey
        /\ \A k \in 1..lastKey : mint'[k] = mint[k]
        /\ keyRows' = keyRows \cup {lastKey + 1} /\ revoked' = revoked
        /\ grants' \subseteq grants \cup {lastKey + 1} /\ now' = now
    BY <1>1, MintingKeeps
  <2>3. ASSUME NEW k \in 1..lastKey PROVE OldKey(k)
    BY <2>2 DEF OldKey
  <2> QED
    BY <2>1, <2>2, <2>3
<1>2. CASE ~Minting
  BY <1>2, OtherSteps
<1> QED
  BY <1>1, <1>2

\* A resource that is bound stays as it is.
LEMMA BoundStays ==
  ASSUME TypeOK, NEW k \in 1..lastKey, OldKey(k)
  PROVE  /\ mint[k].resource # Unbound => mint'[k].resource = mint[k].resource
         /\ mint[k].family # 0 => mint'[k].family = mint[k].family
         /\ mint'[k].oauth = mint[k].oauth /\ mint'[k].client = mint[k].client
         /\ mint'[k].scope = mint[k].scope /\ mint'[k].via = mint[k].via
         /\ mint'[k].accessExp = mint[k].accessExp /\ mint'[k].refreshExp = mint[k].refreshExp
         /\ mint'[k].parent = mint[k].parent /\ mint'[k].code = mint[k].code
<1>1. mint[k] \in MintRow
  BY OAuthAssumption DEF TypeOK, KeyId, OAuthAssumption
<1> QED
  BY <1>1 DEF OldKey, BoundResource, BoundFamily, MintRow

\* A key that has a family keeps it, and one that has none gets one of its own.
LEMMA KeepsFamily ==
  ASSUME TypeOK, [Next]_vars, NEW f \in 1..lastKey, mint[f].family = f, NEW k \in 1..lastKey
  PROVE  mint'[k].oauth = mint[k].oauth /\ (mint'[k].family = f <=> mint[k].family = f)
<1>1. OldKey(k) /\ f # 0
  BY KeysStay
<1>2. mint'[k].oauth = mint[k].oauth /\ (mint[k].family # 0 => mint'[k].family = mint[k].family)
  BY <1>1, BoundStays
<1>3. mint[k].family = 0 => mint'[k].family \in {0, k}
  <2>1. mint[k] \in MintRow
    BY OAuthAssumption DEF TypeOK, KeyId, OAuthAssumption
  <2> QED
    BY <1>1, <2>1 DEF OldKey, BoundFamily, MintRow
<1>4. k = f => mint[k].family # 0
  BY <1>1
<1> QED
  BY <1>1, <1>2, <1>3, <1>4

LEMMA FamiliesApart ==
  ASSUME TypeOK, FamilyInv, [Next]_vars, NEW k \in 1..lastKey, NEW j \in 1..lastKey \ {k},
         mint'[j].family = mint'[k].family, mint'[k].family # 0
  PROVE  mint[j].family = mint[k].family /\ mint[k].family # 0
<1>1. ASSUME NEW i \in 1..lastKey
      PROVE  /\ mint[i].family # 0 => mint'[i].family = mint[i].family
             /\ mint[i].family = 0 => mint'[i].family \in {0, i}
  <2>1. OldKey(i) /\ mint[i] \in MintRow
    BY KeysStay, OAuthAssumption DEF TypeOK, KeyId, OAuthAssumption
  <2> QED
    BY <2>1 DEF OldKey, BoundFamily, MintRow
<1>2. ASSUME NEW i \in 1..lastKey, NEW h \in 1..lastKey, mint[i].family = 0, mint[h].family = i
      PROVE  FALSE
  <2>1. i # 0
    OBVIOUS
  <2> QED
    BY <1>2, <2>1 DEF FamilyInv, FamilyShape
<1>3. CASE mint[j].family # 0 /\ mint[k].family # 0
  BY <1>1, <1>3
<1>4. CASE mint[j].family = 0
  <2>1. mint'[k].family = j
    BY <1>1, <1>4
  <2>2. mint[k].family = j
    BY <1>1, <2>1
  <2> QED
    BY <1>2, <1>4, <2>2
<1>5. CASE mint[k].family = 0
  <2>1. mint'[j].family = k
    BY <1>1, <1>5
  <2>2. mint[j].family = k
    BY <1>1, <2>1
  <2> QED
    BY <1>2, <1>5, <2>2
<1> QED
  BY <1>3, <1>4, <1>5

\* No restart, no change of the issuer and no other step retargets a row that is
\* bound to a resource or brings two keys into one family (bindLegacyGrants).
THEOREM BindingAlwaysKept == Spec => BindingKept
<1>1. TypeOK /\ [Next]_vars =>
        \A k \in 1..lastKey : mint[k].resource # Unbound => mint'[k].resource = mint[k].resource
  BY KeysStay, BoundStays
<1>2. TypeOK /\ FamilyInv /\ [Next]_vars =>
        \A k \in 1..lastKey : \A j \in 1..lastKey \ {k} :
          mint'[j].family = mint'[k].family /\ mint'[k].family # 0 =>
            mint[j].family = mint[k].family /\ mint[k].family # 0
  BY FamiliesApart
<1>3. TypeOK /\ FamilyInv /\ [Next]_vars => [\A k \in 1..lastKey :
       /\ mint[k].resource # Unbound => mint'[k].resource = mint[k].resource
       /\ \A j \in 1..lastKey \ {k} :
            mint'[j].family = mint'[k].family /\ mint'[k].family # 0 =>
              mint[j].family = mint[k].family /\ mint[k].family # 0]_vars
  BY <1>1, <1>2
<1> QED
  BY <1>3, TypeCorrect, FamilyInvariance, PTL DEF Spec, BindingKept

----------------------------------------------------------------------------
(* The row a step mints, and where it comes from. *)

FromCode(c, r) ==
  /\ codeState[c] = "taken" /\ codeState'[c] = "spent"
  /\ r.oauth /\ r.family = lastKey + 1 /\ r.parent = 0 /\ r.code = c
  /\ r.scope = code[c].scope /\ r.via = code[c].via
  /\ r.accessExp = now + AccessTTL /\ r.refreshExp = now + RefreshTTL

FromGrant(k, r) ==
  /\ up /\ k \in grants /\ LookupOk(k) /\ mint[k].resource = issuer /\ Unexpired(k)
  /\ r.oauth = mint[k].oauth /\ r.family = mint[k].family /\ r.parent = k
  /\ r.code = mint[k].code /\ r.client = mint[k].client /\ r.scope = mint[k].scope
  /\ r.via = mint[k].via /\ r.resource = mint[k].resource
  /\ r.accessExp = now + AccessTTL /\ r.refreshExp = mint[k].refreshExp

LEMMA NewRow ==
  ASSUME TypeOK, Minting
  PROVE  \E r \in MintRow :
           /\ mint'[lastKey + 1] = r
           /\ \/ r = Blank
              \/ \E c \in CodeId : FromCode(c, r)
              \/ \E k \in 1..lastKey : FromGrant(k, r)
<1>1. CASE CreateKey
  <2>1. mint'[lastKey + 1] = Blank
    BY <1>1 DEF CreateKey, TypeOK
  <2> QED
    BY <2>1, BlankRows
<1>2. ASSUME NEW c \in CodeId, NEW received \in BOOLEAN, MintFromCode(c, received)
      PROVE  mint'[lastKey + 1] \in MintRow /\ FromCode(c, mint'[lastKey + 1])
  <2> DEFINE row == [oauth |-> TRUE, family |-> lastKey + 1, client |-> code[c].client,
                 scope |-> code[c].scope, via |-> code[c].via,
                 resource |-> code[c].resource,
                 accessExp |-> now + AccessTTL, refreshExp |-> now + RefreshTTL,
                 parent |-> 0, code |-> c]
  <2>1. InsertMint(row, received)
    BY <1>2 DEF MintFromCode
  <2>2. lastKey + 1 \in KeyId /\ mint' = [mint EXCEPT ![lastKey + 1] = row]
    BY <2>1 DEF InsertMint
  <2>3. mint' \in [KeyId -> MintRow]
    BY <1>2, NextTypeOK DEF Next, CodeNext, TypeOK
  <2>4. mint'[lastKey + 1] = row
    BY <2>2 DEF TypeOK
  <2>5. codeState[c] = "taken" /\ codeState'[c] = "spent"
    BY <1>2 DEF MintFromCode, TypeOK
  <2> QED
    BY <2>2, <2>3, <2>4, <2>5 DEF FromCode
<1>3. ASSUME NEW k \in 1..lastKey, NEW cl \in Clients \cup {NoClient}, NEW received \in BOOLEAN,
             RefreshGrant(k, cl, received)
      PROVE  mint'[lastKey + 1] \in MintRow /\ FromGrant(k, mint'[lastKey + 1])
  <2> DEFINE row == [mint[k] EXCEPT !.accessExp = now + AccessTTL, !.parent = k]
  <2>1. InsertMint(row, received) /\ up /\ k \in grants /\ MayRefresh(k, cl)
    BY <1>3 DEF RefreshGrant
  <2>2. lastKey + 1 \in KeyId /\ mint' = [mint EXCEPT ![lastKey + 1] = row]
    BY <2>1 DEF InsertMint
  <2>3. mint' \in [KeyId -> MintRow]
    BY <1>3, NextTypeOK DEF Next, RefreshNext, TypeOK
  <2>4. mint'[lastKey + 1] = row
    BY <2>2 DEF TypeOK
  <2>5. mint[k] \in MintRow
    BY OAuthAssumption DEF TypeOK, KeyId, OAuthAssumption
  <2>6. /\ row.oauth = mint[k].oauth /\ row.family = mint[k].family /\ row.parent = k
        /\ row.code = mint[k].code /\ row.client = mint[k].client /\ row.scope = mint[k].scope
        /\ row.via = mint[k].via /\ row.resource = mint[k].resource
        /\ row.accessExp = now + AccessTTL /\ row.refreshExp = mint[k].refreshExp
    BY <2>5 DEF MintRow
  <2> HIDE DEF row
  <2> QED
    BY <2>1, <2>2, <2>3, <2>4, <2>6 DEF FromGrant, MayRefresh
<1> QED
  BY <1>1, <1>2, <1>3, BlankRows DEF Minting, CreateKey, TypeOK

----------------------------------------------------------------------------
(* Chains. A successor is minted for the newest key of a family, and becomes  *)
(* the newest; a family that a restart names has one key.                     *)

Linked(k) ==
  LET f == mint[k].family
      p == mint[k].parent
  IN /\ f \notin {0, k} =>
          /\ p \in Members(f) /\ p < k
          /\ \A j \in Members(f) : j <= p \/ k <= j
     /\ f \in {0, k} => p = 0
     /\ mint[k].oauth /\ mint[k].code = 0 /\ f \in {0, k} => k <= LegacyGrants

ChainInv == \A k \in 1..lastKey : Linked(k)

\* What a step does to the members of a family and to a key of it.
LEMMA OldLinked ==
  ASSUME TypeOK, FamilyInv, [Next]_vars, NEW k \in 1..lastKey, Linked(k)
  PROVE  Linked(k)'
<1>1. /\ OldKey(k) /\ k \in Nat /\ k # 0
      /\ \A j \in 1..lastKey : mint[j].family \in Nat
  BY KeysStay, OAuthAssumption DEF TypeOK, KeyId, MintRow, OAuthAssumption
<1>2. /\ mint'[k].parent = mint[k].parent /\ mint'[k].code = mint[k].code
      /\ mint'[k].oauth = mint[k].oauth
      /\ mint[k].family # 0 => mint'[k].family = mint[k].family
  BY <1>1, BoundStays
<1>3. mint[k].family = 0 => mint'[k].family \in {0, k}
  <2>1. mint[k] \in MintRow
    BY OAuthAssumption DEF TypeOK, KeyId, OAuthAssumption
  <2> QED
    BY <1>1, <2>1 DEF OldKey, BoundFamily, MintRow
<1>4. CASE mint[k].family \in {0, k}
  <2>1. mint'[k].family \in {0, k}
    BY <1>2, <1>3, <1>4
  <2> QED
    BY <1>2, <1>4, <2>1 DEF Linked
<1>5. CASE mint[k].family \notin {0, k}
  <2>0. PICK f, p : f = mint[k].family /\ p = mint[k].parent
    OBVIOUS
  <2>1. f \in 1..lastKey /\ mint[f].family = f /\ f # 0
    <3>1. f \in Nat /\ f <= k /\ f # 0 /\ mint[f].family = f
      BY <1>1, <1>5, <2>0 DEF FamilyInv, FamilyShape
    <3> QED
      BY <1>1, <3>1 DEF TypeOK
  <2>2. p \in Members(f) /\ p < k /\ \A j \in Members(f) : j <= p \/ k <= j
    BY <1>5, <2>0 DEF Linked
  <2>3. mint'[k].family = f /\ mint'[k].parent = p
    BY <1>2, <1>5, <2>0
  <2>4. \A j \in 1..lastKey : j \in Members(f)' => j \in Members(f)
    BY <2>1, KeepsFamily DEF Members
  <2>5. p \in Members(f)'
    BY <2>1, <2>2, KeepsFamily, KeysStay DEF Members
  <2>6. ASSUME NEW j \in Members(f)' PROVE j <= p \/ k <= j
    <3>1. CASE j \in 1..lastKey
      BY <2>2, <2>4, <3>1
    <3>2. CASE j \notin 1..lastKey
      <4>1. j \in 1..lastKey' /\ lastKey' \in 0..MaxKeys /\ lastKey \in 0..MaxKeys
        BY NextTypeOK DEF Members, TypeOK
      <4> QED
        BY <1>1, <3>2, <4>1, OAuthAssumption DEF OAuthAssumption
    <3> QED
      BY <3>1, <3>2
  <2>7. f \notin {0, k}
    BY <1>5, <2>0
  <2> QED
    BY <2>2, <2>3, <2>5, <2>6, <2>7 DEF Linked
<1> QED
  BY <1>4, <1>5

\* The key a step mints is linked to the newest of its family.
LEMMA NewLinked ==
  ASSUME TypeOK, FamilyInv, [Next]_vars, Minting, NEW n, n = lastKey + 1
  PROVE  Linked(n)'
<1>1. /\ lastKey' = n /\ lastKey \in Nat
      /\ 1..lastKey' = (1..lastKey) \cup {n} /\ n \notin 1..lastKey
      /\ \A k \in 1..lastKey : mint'[k] = mint[k]
      /\ \A j \in 1..lastKey : mint[j].family \in Nat
  <2>1. \A j \in 1..lastKey : mint[j].family \in Nat
    BY OAuthAssumption DEF TypeOK, KeyId, MintRow, OAuthAssumption
  <2> QED
    BY <2>1, MintingKeeps
<1>2. PICK r \in MintRow :
        /\ mint'[n] = r
        /\ \/ r = Blank
           \/ \E c \in CodeId : FromCode(c, r)
           \/ \E k \in 1..lastKey : FromGrant(k, r)
  BY NewRow
<1>3. CASE r = Blank
  BY <1>2, <1>3 DEF Linked, Blank
<1>4. ASSUME NEW c \in CodeId, FromCode(c, r) PROVE Linked(n)'
  <2>1. r.family = n /\ r.parent = 0 /\ r.code # 0
    BY <1>4 DEF FromCode, CodeId
  <2> QED
    BY <1>2, <2>1 DEF Linked
<1>5. ASSUME NEW k \in 1..lastKey, FromGrant(k, r) PROVE Linked(n)'
  <2>0. PICK f : f = mint[k].family
    OBVIOUS
  <2>1. /\ k \in grants /\ up /\ r.family = f /\ r.parent = k
        /\ k < n /\ n \in Nat
    BY <1>1, <1>5, <2>0 DEF FromGrant
  <2>2. mint[k].oauth /\ f = mint[k].family /\ f # 0 /\ f <= k /\ IsNewest(k)
    BY <2>0, <2>1 DEF FamilyInv, FamilyShape, GrantIsNewest
  <2>3. f \in Nat /\ f \notin {0, n}
    BY <1>1, <2>1, <2>2
  <2>4. k \in Members(f)'
    BY <1>1, <2>2 DEF Members
  <2>5. ASSUME NEW j \in Members(f)' PROVE j <= k \/ n <= j
    <3>1. j \in 1..lastKey \cup {n} /\ mint'[j].oauth /\ mint'[j].family = f
      BY <1>1 DEF Members
    <3>2. j \in 1..lastKey => j <= k
      BY <1>1, <2>2, <3>1 DEF IsNewest
    <3> QED
      BY <2>1, <3>1, <3>2
  <2> QED
    BY <1>2, <2>1, <2>3, <2>4, <2>5 DEF Linked
<1> QED
  BY <1>2, <1>3, <1>4, <1>5

LEMMA ChainStep == TypeOK /\ FamilyInv /\ ChainInv /\ [Next]_vars => ChainInv'
<1> SUFFICES ASSUME TypeOK, FamilyInv, ChainInv, [Next]_vars PROVE ChainInv'
  OBVIOUS
<1>1. \A k \in 1..lastKey : Linked(k)'
  BY OldLinked DEF ChainInv
<1>2. CASE Minting
  <2>0. PICK n : n = lastKey + 1
    OBVIOUS
  <2>1. 1..lastKey' = (1..lastKey) \cup {n}
    BY <1>2, <2>0, MintingKeeps
  <2>2. Linked(n)'
    BY <1>2, <2>0, NewLinked
  <2> QED
    BY <1>1, <2>1, <2>2 DEF ChainInv
<1>3. CASE ~Minting
  <2>1. lastKey' = lastKey
    BY <1>3, OtherSteps
  <2> QED
    BY <1>1, <2>1 DEF ChainInv
<1> QED
  BY <1>2, <1>3

\* A refresh token is redeemed once, whatever its holders and the operators do: no
\* family ever forks, over any number of refreshes, replays, losses and restarts.
THEOREM FamiliesAreChains == Spec => []FamilyIsChain
<1>1. Init => ChainInv
  <2> SUFFICES ASSUME Init, NEW k \in 1..lastKey PROVE Linked(k)
    BY DEF ChainInv
  <2>1. lastKey = LegacyGrants /\ k \in KeyId /\ k <= LegacyGrants
    BY OAuthAssumption DEF Init, KeyId, OAuthAssumption
  <2>2. mint[k].family = 0 /\ mint[k].parent = 0
    BY <2>1 DEF Init, Blank
  <2> QED
    BY <2>1, <2>2 DEF Linked
<1>2. TypeOK /\ FamilyInv /\ ChainInv => FamilyIsChain
  <2> SUFFICES ASSUME TypeOK, FamilyInv, ChainInv, NEW k \in 1..lastKey
               PROVE  LET f == mint[k].family
                          p == mint[k].parent
                      IN /\ f \notin {0, k} =>
                              /\ p \in Members(f) /\ p < k
                              /\ \A j \in Members(f) : j <= p \/ k <= j
                         /\ f = k => p = 0 /\ (mint[k].code = 0 => k <= LegacyGrants)
    BY DEF FamilyIsChain
  <2>1. mint[k].family = k => mint[k].oauth
    BY DEF FamilyInv, FamilyShape
  <2> QED
    BY <2>1 DEF ChainInv, Linked
<1> QED
  BY <1>1, <1>2, ChainStep, FamilyInvariance, TypeCorrect, PTL DEF Spec

----------------------------------------------------------------------------
(* Codes. The families minted from a code stand on its being spent. *)

LEMMA SpentStays ==
  ASSUME TypeOK, [Next]_vars, NEW c \in CodeId, codeState[c] = "spent"
  PROVE  codeState'[c] = "spent"
<1>1. ASSUME NEW d \in CodeId,
             \/ \E cl \in Clients, s \in Scopes, via \in Via : HandleAuthorizePost(d, cl, s, via)
             \/ \E proof \in BOOLEAN : TakeCode(d, proof)
             \/ \E received \in BOOLEAN : MintFromCode(d, received)
             \/ FailMint(d)
      PROVE  codeState'[c] = "spent"
  <2>1. codeState[d] # "spent" /\ \E x : codeState' = [codeState EXCEPT ![d] = x]
    BY <1>1 DEF HandleAuthorizePost, TakeCode, MintFromCode, FailMint
  <2> QED
    BY <2>1 DEF TypeOK
<1>2. ASSUME NEW i \in Issuers, Restart(i) PROVE codeState'[c] = "spent"
  BY <1>2 DEF Restart
<1>3. CASE AdminNext \/ RefreshNext
  BY <1>3 DEF AdminNext, RefreshNext, CreateKey, DisableKey, EnableKey, Revoke, RevokeKeys,
              DeleteKey, RevokeUnused, RefreshGrant, ReplayRefresh
<1>4. CASE VerifyNext \/ Tick \/ UNCHANGED vars
  BY <1>4 DEF VerifyNext, VerifyLookup, VerifyGrant, VerifyExpiry, VerifyTouch, VerifyDone,
              Step, Tick, vars, tables
<1> QED
  BY <1>1, <1>2, <1>3, <1>4 DEF Next, CodeNext

CodeInv ==
  /\ \A k \in 1..lastKey : mint[k].code # 0 =>
       mint[k].code \in CodeId /\ codeState[mint[k].code] = "spent" /\ mint[k].family # 0
  /\ CodeRedeemedOnce

LEMMA CodeStep == TypeOK /\ CodeInv /\ [Next]_vars => CodeInv'
<1> SUFFICES ASSUME TypeOK, CodeInv, [Next]_vars PROVE CodeInv'
  OBVIOUS
<1>1. \A k \in 1..lastKey : mint[k].code # 0 =>
        /\ mint'[k].code = mint[k].code /\ mint'[k].family = mint[k].family
        /\ codeState'[mint[k].code] = "spent"
  BY KeysStay, BoundStays, SpentStays DEF CodeInv
<1>2. \A k \in 1..lastKey : mint'[k].code = mint[k].code
  BY KeysStay, BoundStays
<1>3. CASE ~Minting
  BY <1>1, <1>2, <1>3, OtherSteps DEF CodeInv, CodeRedeemedOnce
<1>4. CASE Minting
  <2>1. /\ 1..lastKey' = (1..lastKey) \cup {lastKey + 1} /\ lastKey + 1 \notin 1..lastKey
        /\ lastKey \in Nat
    BY <1>4, MintingKeeps
  <2>2. PICK r \in MintRow :
          /\ mint'[lastKey + 1] = r
          /\ \/ r = Blank
             \/ \E c \in CodeId : FromCode(c, r)
             \/ \E k \in 1..lastKey : FromGrant(k, r)
    BY <1>4, NewRow
  <2>3. CASE r = Blank
    <3>1. r.code = 0
      BY <2>3 DEF Blank
    <3> QED
      BY <2>1, <2>2, <3>1, <1>1, <1>2 DEF CodeInv, CodeRedeemedOnce
  <2>4. ASSUME NEW c \in CodeId, FromCode(c, r) PROVE CodeInv'
    <3>1. /\ codeState[c] = "taken" /\ codeState'[c] = "spent"
          /\ r.family = lastKey + 1 /\ r.code = c
      BY <2>4 DEF FromCode
    <3>2. \A k \in 1..lastKey : mint[k].code # c
      BY <3>1 DEF CodeInv, CodeId
    <3> QED
      BY <2>1, <2>2, <3>1, <3>2, <1>1, <1>2 DEF CodeInv, CodeRedeemedOnce, CodeId
  <2>5. ASSUME NEW k \in 1..lastKey, FromGrant(k, r) PROVE CodeInv'
    <3>1. r.family = mint[k].family /\ r.code = mint[k].code
      BY <2>5 DEF FromGrant
    <3> QED
      BY <2>1, <2>2, <3>1, <1>1, <1>2 DEF CodeInv, CodeRedeemedOnce
  <2> QED
    BY <2>2, <2>3, <2>4, <2>5
<1> QED
  BY <1>3, <1>4

\* A code is redeemed once: the transaction that reads it deletes it, and the
\* mint that follows needs it taken (handleTokenAuthCode).
THEOREM RedeemedOnce == Spec => []CodeRedeemedOnce
<1>1. Init => CodeInv
  <2> SUFFICES ASSUME Init PROVE CodeInv
    OBVIOUS
  <2>1. \A k \in KeyId : mint[k].code = 0
    BY DEF Init, Blank
  <2>2. 1..lastKey \subseteq KeyId
    BY InitTypeOK, OAuthAssumption DEF TypeOK, KeyId, OAuthAssumption
  <2> QED
    BY <2>1, <2>2 DEF CodeInv, CodeRedeemedOnce
<1>2. CodeInv => CodeRedeemedOnce
  BY DEF CodeInv
<1> QED
  BY <1>1, <1>2, CodeStep, TypeCorrect, PTL DEF Spec

----------------------------------------------------------------------------
(* What was approved. A refreshed row is bound, so no restart parts it from *)
(* the row it was refreshed from.                                           *)

SameGrant(r, p) ==
  /\ r.scope = p.scope /\ r.client = p.client /\ r.via = p.via
  /\ r.resource = p.resource /\ r.refreshExp = p.refreshExp

\* What a row says without looking at another.
Approved(r) ==
  /\ "config:write" \in r.scope => r.via = "operator"
  /\ r.oauth => r.accessExp <= r.refreshExp + AccessTTL

ApprovalInv ==
  /\ \A k \in 1..lastKey : mint[k].parent # 0 =>
       /\ mint[k].parent \in 1..lastKey
       /\ mint[k].resource # Unbound
       /\ SameGrant(mint[k], mint[mint[k].parent])
  /\ \A k \in 1..lastKey : Approved(mint[k])
  /\ \A c \in CodeId : "config:write" \in code[c].scope => code[c].via = "operator"

\* Codes are written when they are approved, and a startup only binds them.
LEMMA CodesApproved ==
  ASSUME TypeOK, ApprovalInv, [Next]_vars, NEW c \in CodeId
  PROVE  "config:write" \in code'[c].scope => code'[c].via = "operator"
<1>0. code[c] \in CodeRow /\ ("config:write" \in code[c].scope => code[c].via = "operator")
  BY DEF TypeOK, ApprovalInv
<1>1. ASSUME NEW d \in CodeId, NEW cl \in Clients, NEW s \in Scopes, NEW via \in Via,
             HandleAuthorizePost(d, cl, s, via)
      PROVE  "config:write" \in code'[c].scope => code'[c].via = "operator"
  <2>1. CASE c = d
    <3>1. code'[c].scope = s /\ code'[c].via = via
      BY <1>1, <2>1 DEF HandleAuthorizePost, TypeOK
    <3> QED
      BY <1>1, <3>1 DEF HandleAuthorizePost, MayApprove
  <2>2. CASE c # d
    BY <1>0, <1>1, <2>2 DEF HandleAuthorizePost, TypeOK
  <2> QED
    BY <2>1, <2>2
<1>2. ASSUME NEW i \in Issuers, Restart(i)
      PROVE  "config:write" \in code'[c].scope => code'[c].via = "operator"
  <2>1. code'[c] \in {code[c], [code[c] EXCEPT !.resource = i]}
    BY <1>2 DEF Restart, BoundCode
  <2> QED
    BY <2>1, <1>0 DEF CodeRow
<1>3. CASE code' = code
  BY <1>0, <1>3
<1>4. ASSUME NEW d \in CodeId, NEW proof \in BOOLEAN, NEW received \in BOOLEAN,
             TakeCode(d, proof) \/ MintFromCode(d, received) \/ FailMint(d)
      PROVE  code' = code
  BY <1>4 DEF TakeCode, MintFromCode, FailMint
<1>5. AdminNext \/ RefreshNext => code' = code
  BY DEF AdminNext, RefreshNext, CreateKey, DisableKey, EnableKey, Revoke, RevokeKeys,
         DeleteKey, RevokeUnused, RefreshGrant, ReplayRefresh
<1>6. VerifyNext \/ Tick \/ UNCHANGED vars => code' = code
  BY DEF VerifyNext, VerifyLookup, VerifyGrant, VerifyExpiry, VerifyTouch, VerifyDone,
         Step, Tick, vars, tables
<1> QED
  BY <1>1, <1>2, <1>3, <1>4, <1>5, <1>6 DEF Next, CodeNext

\* An old row keeps what was approved, and stays like the one it came from.
LEMMA OldApproved ==
  ASSUME TypeOK, ApprovalInv, [Next]_vars, NEW k \in 1..lastKey
  PROVE  /\ Approved(mint'[k])
         /\ mint'[k].parent # 0 =>
              /\ mint'[k].parent \in 1..lastKey
              /\ mint'[k].resource # Unbound
              /\ SameGrant(mint'[k], mint'[mint'[k].parent])
<1>1. Approved(mint'[k])
  BY KeysStay, BoundStays DEF ApprovalInv, Approved
<1>2. ASSUME mint'[k].parent # 0
      PROVE  /\ mint'[k].parent \in 1..lastKey
             /\ mint'[k].resource # Unbound
             /\ SameGrant(mint'[k], mint'[mint'[k].parent])
  <2>1. PICK p \in 1..lastKey : p = mint[k].parent
    BY <1>2, KeysStay, BoundStays DEF ApprovalInv
  <2>2. p # 0
    BY <1>2, <2>1, KeysStay, BoundStays
  <2>3. mint[k].resource # Unbound /\ SameGrant(mint[k], mint[p])
    BY <2>1, <2>2 DEF ApprovalInv
  <2>4. mint[p].resource # Unbound
    BY <2>3 DEF SameGrant
  <2>5. SameGrant(mint'[k], mint'[p]) /\ mint'[k].resource # Unbound /\ mint'[k].parent = p
    BY <2>1, <2>3, <2>4, KeysStay, BoundStays DEF SameGrant
  <2> QED
    BY <2>5
<1> QED
  BY <1>1, <1>2

LEMMA ApprovalStep == TypeOK /\ ApprovalInv /\ [Next]_vars => ApprovalInv'
<1> SUFFICES ASSUME TypeOK, ApprovalInv, [Next]_vars PROVE ApprovalInv'
  OBVIOUS
<1>1. \A c \in CodeId : "config:write" \in code'[c].scope => code'[c].via = "operator"
  BY CodesApproved
<1>2. CASE ~Minting
  <2>1. lastKey' = lastKey
    BY <1>2, OtherSteps
  <2> QED
    BY <1>1, <2>1, OldApproved DEF ApprovalInv
<1>3. CASE Minting
  <2>1. /\ 1..lastKey' = (1..lastKey) \cup {lastKey + 1} /\ lastKey + 1 \notin 1..lastKey
        /\ \A k \in 1..lastKey : mint'[k] = mint[k]
        /\ now \in Nat /\ AccessTTL \in Nat /\ RefreshTTL \in Nat /\ lastKey \in Nat
    BY <1>3, MintingKeeps, OAuthAssumption DEF TypeOK, OAuthAssumption
  <2>2. PICK r \in MintRow :
          /\ mint'[lastKey + 1] = r
          /\ \/ r = Blank
             \/ \E c \in CodeId : FromCode(c, r)
             \/ \E k \in 1..lastKey : FromGrant(k, r)
    BY <1>3, NewRow
  <2>3. /\ Approved(r)
        /\ r.parent # 0 =>
             /\ r.parent \in 1..lastKey
             /\ r.resource # Unbound
             /\ SameGrant(r, mint[r.parent])
    <3>1. CASE r = Blank
      <4>1. r.parent = 0 /\ r.scope = {"offline_access"} /\ r.oauth = FALSE /\ r.via = "operator"
        BY <3>1 DEF Blank
      <4> QED
        BY <4>1 DEF Approved
    <3>2. ASSUME NEW c \in CodeId, FromCode(c, r)
          PROVE  Approved(r) /\ r.parent = 0
      BY <2>1, <3>2 DEF FromCode, Approved, ApprovalInv
    <3>3. ASSUME NEW k \in 1..lastKey, FromGrant(k, r)
          PROVE  /\ Approved(r) /\ r.parent = k /\ r.resource # Unbound
                 /\ SameGrant(r, mint[k])
      <4>1. mint[k] \in MintRow /\ mint[k].refreshExp \in Nat
        BY OAuthAssumption DEF TypeOK, KeyId, MintRow, Time, OAuthAssumption
      <4>2. now <= mint[k].refreshExp /\ mint[k].resource = issuer /\ issuer \in Issuers
        BY <3>3 DEF FromGrant, Unexpired, TypeOK
      <4>3. r.accessExp <= r.refreshExp + AccessTTL
        BY <2>1, <3>3, <4>1, <4>2 DEF FromGrant
      <4>4. r.resource # Unbound
        BY <3>3, <4>2, OAuthAssumption DEF FromGrant, OAuthAssumption
      <4> QED
        BY <3>3, <4>3, <4>4 DEF FromGrant, SameGrant, Approved, ApprovalInv
    <3> QED
      BY <2>2, <3>1, <3>2, <3>3
  <2>4. \A k \in 1..lastKey' :
          /\ Approved(mint'[k])
          /\ mint'[k].parent # 0 =>
               /\ mint'[k].parent \in 1..lastKey'
               /\ mint'[k].resource # Unbound
               /\ SameGrant(mint'[k], mint'[mint'[k].parent])
    <3>1. ASSUME NEW k \in 1..lastKey
          PROVE  /\ Approved(mint'[k])
                 /\ mint'[k].parent # 0 =>
                      /\ mint'[k].parent \in 1..lastKey'
                      /\ mint'[k].resource # Unbound
                      /\ SameGrant(mint'[k], mint'[mint'[k].parent])
      BY <2>1, OldApproved
    <3>2. /\ Approved(mint'[lastKey + 1])
          /\ mint'[lastKey + 1].parent # 0 =>
               /\ mint'[lastKey + 1].parent \in 1..lastKey'
               /\ mint'[lastKey + 1].resource # Unbound
               /\ SameGrant(mint'[lastKey + 1], mint'[mint'[lastKey + 1].parent])
      BY <2>1, <2>2, <2>3
    <3> QED
      BY <2>1, <3>1, <3>2
  <2> QED
    BY <1>1, <2>4 DEF ApprovalInv
<1> QED
  BY <1>2, <1>3

\* However often a family is refreshed, it keeps the scope, client, issuance and
\* absolute expiry its code was approved with (handleTokenRefreshToken).
THEOREM ApprovalKept == Spec => []FamilyKeepsApproval
<1>1. Init => ApprovalInv
  <2> SUFFICES ASSUME Init PROVE ApprovalInv
    OBVIOUS
  <2>1. PICK cl \in Clients :
        mint = [k \in KeyId |-> IF k <= LegacyGrants
                 THEN [Blank EXCEPT !.oauth = TRUE, !.client = cl,
                                    !.accessExp = AccessTTL, !.refreshExp = RefreshTTL]
                 ELSE Blank]
    BY DEF Init
  <2>2. 1..lastKey \subseteq KeyId
    BY InitTypeOK, OAuthAssumption DEF TypeOK, KeyId, OAuthAssumption
  <2>3. \A k \in KeyId :
          /\ mint[k].parent = 0 /\ mint[k].scope = {"offline_access"}
          /\ mint[k].oauth => mint[k].accessExp = AccessTTL /\ mint[k].refreshExp = RefreshTTL
    BY <2>1 DEF Blank
  <2>4. \A k \in 1..lastKey : Approved(mint[k]) /\ mint[k].parent = 0
    BY <2>2, <2>3, OAuthAssumption DEF Approved, OAuthAssumption
  <2>5. \A c \in CodeId : code[c].scope = {"offline_access"}
    BY DEF Init, NoCode
  <2> QED
    BY <2>4, <2>5 DEF ApprovalInv
<1>2. ApprovalInv => FamilyKeepsApproval
  BY DEF ApprovalInv, FamilyKeepsApproval, SameGrant, Approved
<1> QED
  BY <1>1, <1>2, ApprovalStep, TypeCorrect, PTL DEF Spec

----------------------------------------------------------------------------
(* The end of a family. Its newest key is the only one with a grant, so when *)
(* that key is revoked or gone no refresh goes through, and no key that is   *)
(* enabled again has a grant.                                                *)

\* Nothing joins a family that has ended.
LEMMA MembersStay ==
  ASSUME TypeOK, FamilyInv, [Next]_vars, NEW f \in 1..lastKey, Ended(f)
  PROVE  /\ Members(f)' = Members(f)
         /\ \A k \in Members(f) : k \in 1..lastKey /\ mint'[k].family = f /\ mint'[k].oauth
<1>0. PICK n \in Members(f) : IsNewest(n) /\ (n \in revoked \/ n \notin keyRows)
  BY DEF Ended
<1>1. /\ n \in 1..lastKey /\ mint[n].oauth /\ mint[n].family = f
      /\ f # 0 /\ mint[f].family = f
      /\ \A k \in 1..lastKey : mint[k].family \in Nat
  <2>1. \A k \in 1..lastKey : mint[k].family \in Nat
    BY OAuthAssumption DEF TypeOK, KeyId, MintRow, OAuthAssumption
  <2>2. n \in 1..lastKey /\ mint[n].oauth /\ mint[n].family = f /\ f # 0
    BY <1>0 DEF Members
  <2> QED
    BY <2>1, <2>2 DEF FamilyInv, FamilyShape
<1>2. ASSUME NEW k \in 1..lastKey
      PROVE  mint'[k].oauth = mint[k].oauth /\ (mint'[k].family = f <=> mint[k].family = f)
  BY <1>1, KeepsFamily
<1>3. CASE ~Minting
  <2>1. lastKey' = lastKey
    BY <1>3, OtherSteps
  <2>2. Members(f)' = {k \in 1..lastKey : mint'[k].oauth /\ mint'[k].family = f}
    BY <2>1 DEF Members
  <2> QED
    BY <1>2, <2>2 DEF Members
<1>4. CASE Minting
  <2>1. /\ 1..lastKey' = (1..lastKey) \cup {lastKey + 1} /\ lastKey + 1 \notin 1..lastKey
        /\ lastKey \in Nat
    BY <1>4, MintingKeeps
  <2>2. PICK r \in MintRow :
          /\ mint'[lastKey + 1] = r
          /\ \/ r = Blank
             \/ \E c \in CodeId : FromCode(c, r)
             \/ \E k \in 1..lastKey : FromGrant(k, r)
    BY <1>4, NewRow
  <2>3. ~(r.oauth /\ r.family = f)
    <3>1. CASE r = Blank
      BY <3>1 DEF Blank
    <3>2. ASSUME NEW c \in CodeId, FromCode(c, r) PROVE r.family # f
      BY <2>1, <3>2 DEF FromCode
    <3>3. ASSUME NEW k \in 1..lastKey, FromGrant(k, r), r.oauth, r.family = f PROVE FALSE
      <4>1. k \in grants /\ LookupOk(k) /\ mint[k].oauth /\ mint[k].family = f
        BY <3>3 DEF FromGrant
      <4>2. IsNewest(k)
        BY <4>1, <1>1 DEF FamilyInv, GrantIsNewest
      <4>3. k <= n /\ n <= k
        BY <1>0, <1>1, <4>1, <4>2 DEF IsNewest
      <4>4. k = n
        BY <4>3, <1>1
      <4> QED
        BY <4>1, <4>4, <1>0 DEF LookupOk, TypeOK
    <3> QED
      BY <2>2, <3>1, <3>2, <3>3
  <2>4. Members(f)' = {k \in 1..lastKey' : mint'[k].oauth /\ mint'[k].family = f}
    BY DEF Members
  <2>5. ~(mint'[lastKey + 1].oauth /\ mint'[lastKey + 1].family = f)
    BY <2>2, <2>3
  <2> QED
    BY <1>2, <2>1, <2>4, <2>5 DEF Members
<1> QED
  BY <1>3, <1>4

LEMMA EndedStays ==
  ASSUME TypeOK, FamilyInv, [Next]_vars, TypeOK', FamilyInv', NEW f \in 1..lastKey, Ended(f)
  PROVE  Ended(f)' /\ \A k \in Members(f)' : ~Usable(k)'
<1>0. PICK n \in Members(f) : IsNewest(n) /\ (n \in revoked \/ n \notin keyRows)
  BY DEF Ended
<1>1. /\ Members(f)' = Members(f)
      /\ \A k \in Members(f) : /\ k \in 1..lastKey /\ mint'[k].family = f /\ mint'[k].oauth
                               /\ k <= n /\ k \in Nat
      /\ \A k \in Members(f)' : k \in 1..lastKey'
  <2>1. \A k \in Members(f) : k <= n
    BY <1>0 DEF Members, IsNewest
  <2>2. Members(f)' = Members(f)
    BY MembersStay
  <2>3. \A k \in Members(f) : k \in 1..lastKey /\ mint'[k].family = f /\ mint'[k].oauth
    BY MembersStay
  <2>4. \A k \in Members(f) : k \in Nat
    BY <2>3 DEF TypeOK
  <2> QED
    BY <2>1, <2>2, <2>3, <2>4 DEF Members
<1>2. n \in revoked' \/ n \notin keyRows'
  <2>1. OldKey(n)
    BY <1>0, <1>1, KeysStay
  <2> QED
    BY <1>0, <2>1 DEF OldKey
<1>3. IsNewest(n)'
  <2>1. mint'[n].family = f
    BY <1>0, <1>1
  <2>2. ASSUME NEW j \in 1..lastKey', mint'[j].oauth, mint'[j].family = f PROVE j <= n
    <3>1. j \in Members(f)'
      BY <2>2 DEF Members
    <3> QED
      BY <3>1, <1>1
  <2>3. \A j \in 1..lastKey' : (mint'[j].oauth /\ mint'[j].family = mint'[n].family) => j <= n
    BY <2>1, <2>2
  <2> QED
    BY <2>3 DEF IsNewest
<1>4. Ended(f)'
  BY <1>0, <1>1, <1>2, <1>3 DEF Ended
<1>5. ASSUME NEW k \in Members(f)', Usable(k)' PROVE FALSE
  <2>1. k \in enabled' /\ k \notin revoked' /\ k \in grants'
    BY <1>5 DEF Usable, LookupOk, OAuthValid
  <2>2. k \in Members(f) /\ k <= n /\ k \in Nat /\ n \in Nat
    BY <1>0, <1>1
  <2>3. mint'[k].family = f /\ mint'[n].family = f /\ mint'[n].oauth /\ n \in 1..lastKey' /\ f # 0
    BY <1>0, <1>1, <2>2
  <2>4. IsNewest(k)'
    BY <2>1, <2>3 DEF FamilyInv, GrantIsNewest
  <2>5. n <= k
    BY <2>3, <2>4 DEF IsNewest
  <2>6. k = n
    BY <2>2, <2>5
  <2> QED
    BY <1>2, <2>1, <2>6 DEF TypeOK
<1> QED
  BY <1>4, <1>5

\* Revoking or deleting the current key of a family ends the family: no enable,
\* refresh or restart brings it back (gatewaykeys.Revoke, handleTokenRefreshToken).
THEOREM RevocationFinal == Spec => RevocationEndsFamily
<1>1. TypeOK /\ FamilyInv /\ TypeOK' /\ FamilyInv' /\ [Next]_vars =>
        [\A f \in 1..lastKey :
           Ended(f) => /\ Ended(f)'
                       /\ \A k \in Members(f)' : ~Usable(k)']_vars
  BY EndedStays
<1> QED
  BY <1>1, TypeCorrect, FamilyInvariance, PTL DEF Spec, RevocationEndsFamily

----------------------------------------------------------------------------
(* The verification endpoint. A check that fails once fails for good: no     *)
(* step but a restart, which ends the calls, gives a key a grant, a lifetime *)
(* or a resource it lacked.                                                  *)

\* What was wrong, when a call on its way saw a key that was not usable.
CallInv(c) ==
  /\ c.pc # "idle" => c.key \in 1..lastKey
  /\ (c.pc \in {"looked", "bound"} /\ ~c.wasUsable) =>
       /\ mint[c.key].oauth
       /\ (c.pc = "looked" /\ mint[c.key].resource # issuer) \/ ~OAuthValid(c.key)
  /\ c.pc \in {"valid", "accepted"} => c.wasUsable

VerifyInv == \A v \in Verifiers : CallInv(verify[v])

\* A step of somebody else.
LEMMA CallKept ==
  ASSUME TypeOK, TypeOK', [Next]_vars, UNCHANGED <<issuer, mint, verify>>, VerifyInv
  PROVE  VerifyInv'
<1>1. ASSUME NEW k \in 1..lastKey, ~OAuthValid(k) PROVE ~OAuthValid(k)'
  <2>1. k \in grants' => k \in grants
    BY KeysStay DEF OldKey
  <2>2. now <= now' /\ now \in Nat /\ now' \in Nat /\ mint[k].accessExp \in Nat
    BY KeysStay, OAuthAssumption DEF TypeOK, KeyId, MintRow, Time, OAuthAssumption
  <2>3. mint' = mint
    OBVIOUS
  <2> QED
    BY <1>1, <2>1, <2>2, <2>3 DEF OAuthValid
<1>2. 1..lastKey \subseteq 1..lastKey'
  BY KeysStay
<1>3. ASSUME NEW v \in Verifiers PROVE CallInv(verify[v])'
  <2>1. CallInv(verify[v])
    BY DEF VerifyInv
  <2> QED
    BY <1>1, <1>2, <2>1 DEF CallInv
<1> QED
  BY <1>3 DEF VerifyInv

\* A step of call v: the other calls see nothing of it.
LEMMA CallMoves ==
  ASSUME TypeOK, VerifyInv, NEW v \in Verifiers, NEW c, CallInv(c),
         verify' = [verify EXCEPT ![v] = c],
         UNCHANGED <<now, issuer, lastKey, mint, grants>>
  PROVE  VerifyInv'
<1>1. \A k : OAuthValid(k)' = OAuthValid(k)
  BY DEF OAuthValid
<1>2. ASSUME NEW w \in Verifiers PROVE CallInv(verify[w])'
  <2>1. CallInv(verify'[w])
    BY DEF TypeOK, VerifyInv
  <2>2. PICK d : d = verify'[w]
    OBVIOUS
  <2> QED
    BY <1>1, <2>1, <2>2 DEF CallInv
<1> QED
  BY <1>2 DEF VerifyInv

\* A check of call v: one that fails ends the call.
LEMMA CallChecks ==
  ASSUME TypeOK, VerifyInv, NEW v \in Verifiers, NEW from, NEW ok \in BOOLEAN, NEW to,
         Step(v, from, ok, to),
         ok => CallInv([verify[v] EXCEPT !.pc = to])
  PROVE  VerifyInv'
<1>1. UNCHANGED <<now, issuer, lastKey, mint, grants>>
  BY DEF Step, tables
<1>2. CallInv(NoCall)
  BY DEF CallInv, NoCall
<1>3. CASE ok
  <2>1. verify' = [verify EXCEPT ![v] = [verify[v] EXCEPT !.pc = to]]
    BY <1>3 DEF Step
  <2> QED
    BY <1>1, <1>3, <2>1, CallMoves
<1>4. CASE ~ok
  <2>1. verify' = [verify EXCEPT ![v] = NoCall]
    BY <1>4 DEF Step
  <2> QED
    BY <1>1, <1>2, <2>1, CallMoves
<1> QED
  BY <1>3, <1>4

LEMMA VerifyStep == TypeOK /\ TypeOK' /\ VerifyInv /\ [Next]_vars => VerifyInv'
<1> SUFFICES ASSUME TypeOK, TypeOK', VerifyInv, [Next]_vars PROVE VerifyInv'
  OBVIOUS
<1>0. ASSUME NEW v \in Verifiers
      PROVE  /\ CallInv(verify[v]) /\ verify[v] \in Call
             /\ \A to : LET c == [verify[v] EXCEPT !.pc = to]
                        IN c.pc = to /\ c.key = verify[v].key /\ c.wasUsable = verify[v].wasUsable
  BY DEF VerifyInv, TypeOK, Call
<1>1. ASSUME NEW v \in Verifiers, NEW k \in keyRows, VerifyLookup(v, k) PROVE VerifyInv'
  <2> DEFINE c == [pc |-> "looked", key |-> k, wasUsable |-> Usable(k) \/ ~mint[k].oauth]
  <2>1. verify' = [verify EXCEPT ![v] = c] /\ UNCHANGED <<now, issuer, lastKey, mint, grants>>
    BY <1>1 DEF VerifyLookup, tables
  <2>2. LookupOk(k) /\ k \in 1..lastKey
    BY <1>1 DEF VerifyLookup, TypeOK
  <2>3. CallInv(c)
    BY <2>2 DEF CallInv, Usable
  <2> HIDE DEF c
  <2> QED
    BY <2>1, <2>3, CallMoves
<1>2. ASSUME NEW v \in Verifiers, VerifyGrant(v) PROVE VerifyInv'
  <2> DEFINE k == verify[v].key
  <2>1. verify[v].pc = "looked" /\ k \in 1..lastKey
    BY <1>0, <1>2 DEF VerifyGrant, CallInv
  <2>2. CASE mint[k].oauth
    <3>1. Step(v, "looked", k \in grants /\ mint[k].resource = issuer, "bound")
      BY <1>2, <2>2 DEF VerifyGrant
    <3>2. (k \in grants /\ mint[k].resource = issuer)
            => CallInv([verify[v] EXCEPT !.pc = "bound"])
      BY <1>0, <2>1, <2>2 DEF CallInv
    <3> QED
      BY <3>1, <3>2, CallChecks
  <2>3. CASE ~mint[k].oauth
    <3>1. Step(v, "looked", TRUE, "valid")
      BY <1>2, <2>3 DEF VerifyGrant
    <3>2. CallInv([verify[v] EXCEPT !.pc = "valid"])
      BY <1>0, <2>1, <2>3 DEF CallInv
    <3> QED
      BY <3>1, <3>2, CallChecks
  <2> QED
    BY <2>2, <2>3
<1>3. ASSUME NEW v \in Verifiers, VerifyExpiry(v) PROVE VerifyInv'
  <2>1. verify[v].pc = "bound" /\ Step(v, "bound", OAuthValid(verify[v].key), "valid")
    BY <1>3 DEF VerifyExpiry
  <2>2. OAuthValid(verify[v].key) => CallInv([verify[v] EXCEPT !.pc = "valid"])
    BY <1>0, <2>1 DEF CallInv
  <2>3. OAuthValid(verify[v].key) \in BOOLEAN
    BY DEF OAuthValid
  <2> QED
    BY <2>1, <2>2, <2>3, CallChecks
<1>4. ASSUME NEW v \in Verifiers, VerifyTouch(v) PROVE VerifyInv'
  <2>1. Step(v, "valid", TRUE, "accepted") /\ verify[v].pc = "valid"
    BY <1>4 DEF VerifyTouch, Step
  <2>2. CallInv([verify[v] EXCEPT !.pc = "accepted"])
    BY <1>0, <2>1 DEF CallInv
  <2> QED
    BY <2>1, <2>2, CallChecks
<1>5. ASSUME NEW v \in Verifiers, VerifyDone(v) PROVE VerifyInv'
  BY <1>5, CallChecks DEF VerifyDone
<1>6. ASSUME NEW i \in Issuers, Restart(i) PROVE VerifyInv'
  BY <1>6 DEF Restart, VerifyInv, CallInv, NoCall
<1>7. CASE UNCHANGED <<issuer, mint, verify>>
  BY <1>7, CallKept
<1>8. ASSUME Minting PROVE VerifyInv'
  <2>1. /\ 1..lastKey \subseteq 1..lastKey' /\ lastKey + 1 \notin 1..lastKey
        /\ \A k \in 1..lastKey : mint'[k] = mint[k] /\ (k \in grants' => k \in grants)
        /\ now' = now /\ issuer' = issuer /\ verify' = verify
    BY <1>8, MintingKeeps
  <2>2. ASSUME NEW v \in Verifiers PROVE CallInv(verify[v])'
    <3>1. PICK c : c = verify[v]
      OBVIOUS
    <3>2. CallInv(c) /\ verify'[v] = c
      BY <2>1, <3>1, <1>0
    <3>3. c.key \in 1..lastKey => (OAuthValid(c.key)' => OAuthValid(c.key))
      BY <2>1 DEF OAuthValid
    <3> QED
      BY <2>1, <3>2, <3>3 DEF CallInv
  <2> QED
    BY <2>2 DEF VerifyInv
<1>9. ASSUME AdminNext, ~Minting PROVE UNCHANGED <<issuer, mint, verify>>
  BY <1>9 DEF AdminNext, Minting, DisableKey, EnableKey, Revoke, RevokeKeys, DeleteKey, RevokeUnused
<1>10. ASSUME CodeNext \/ RefreshNext, ~Minting PROVE UNCHANGED <<issuer, mint, verify>>
  BY <1>10 DEF CodeNext, RefreshNext, Minting, HandleAuthorizePost, TakeCode, FailMint, ReplayRefresh
<1>11. Tick \/ UNCHANGED vars => UNCHANGED <<issuer, mint, verify>>
  BY DEF Tick, vars, tables
<1> QED
  BY <1>1, <1>2, <1>3, <1>4, <1>5, <1>6, <1>7, <1>8, <1>9, <1>10, <1>11 DEF Next, VerifyNext

\* A verification that answers 200 found, at its first statement, a key valid in
\* every respect: its four statements act as one (handleInternalKeysVerify).
THEOREM VerificationLinear == Spec => []VerifyLinearizes
<1>1. Init => VerifyInv
  BY DEF Init, VerifyInv, CallInv, NoCall
<1>2. VerifyInv => VerifyLinearizes
  BY DEF VerifyInv, CallInv, VerifyLinearizes
<1> QED
  BY <1>1, <1>2, VerifyStep, TypeCorrect, PTL DEF Spec

============================================================================
