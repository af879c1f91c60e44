--------------------------- MODULE TokenFamilies ---------------------------
(***************************************************************************)
(* What the OAuth server promises about refresh families, without tables,  *)
(* clocks or handlers: a family is a chain of keys of which at most one is *)
(* current; rotation replaces the current key by a new one; a closed       *)
(* family has no current key and never has one again.                      *)
(***************************************************************************)
EXTENDS Naturals

CONSTANT MaxKeys

VARIABLES
  issued,   \* keys issued so far, numbered 1..issued
  legacy,   \* keys of an earlier release that are not in a family yet
  current   \* per family, the set of its current keys

familyVars == <<issued, legacy, current>>

Init ==
  /\ issued \in 0..MaxKeys
  /\ legacy \subseteq 1..issued
  /\ current = [f \in 1..MaxKeys |-> {}]

\* A key that belongs to no family.
Manual ==
  /\ issued < MaxKeys
  /\ issued' = issued + 1
  /\ UNCHANGED <<legacy, current>>

\* A new key opens the family that bears its number.
Open ==
  /\ issued < MaxKeys
  /\ issued' = issued + 1
  /\ current' = [current EXCEPT ![issued + 1] = {issued + 1}]
  /\ UNCHANGED legacy

\* Each legacy key opens its family at the first start.
Adopt ==
  /\ current' = [f \in 1..MaxKeys |-> IF f \in legacy THEN {f} ELSE current[f]]
  /\ legacy' = {}
  /\ UNCHANGED issued

Rotate(f) ==
  /\ current[f] # {}
  /\ issued < MaxKeys
  /\ issued' = issued + 1
  /\ current' = [current EXCEPT ![f] = {issued + 1}]
  /\ UNCHANGED legacy

Close(f) ==
  /\ current[f] # {}
  /\ current' = [current EXCEPT ![f] = {}]
  /\ UNCHANGED <<issued, legacy>>

Next == Manual \/ Open \/ Adopt \/ \E f \in 1..MaxKeys : Rotate(f) \/ Close(f)

Spec == Init /\ [][Next]_familyVars
============================================================================
