---------------------------- MODULE TokenFamily ----------------------------
(***************************************************************************)
(* What refresh-token rotation promises, without rows, clocks or workers.  *)
(* The refresh tokens of one login session form a family.  A family is     *)
(* opened once; while it is live exactly one generation of it can be       *)
(* redeemed, redeeming it moves the family to the next generation, and     *)
(* every family that ends stays ended.                                     *)
(***************************************************************************)
EXTENDS Naturals

CONSTANT Sid                  \* session identifiers (uuid4, never reused)

VARIABLES status,             \* status[s] \in {"unborn", "live", "dead"}
          generation,         \* generation[s]: the one redeemable generation
          served              \* every [sid, jti] that was ever redeemed

familyVars == <<status, generation, served>>

FamilyInit ==
    /\ status = [s \in Sid |-> "unborn"]
    /\ generation = [s \in Sid |-> 0]
    /\ served = {}

Open(s) ==
    /\ status[s] = "unborn"
    /\ status' = [status EXCEPT ![s] = "live"]
    /\ UNCHANGED <<generation, served>>

(* The current generation is redeemed, never an earlier one and never one  *)
(* of a family that has ended.                                             *)
Redeem(s) ==
    /\ status[s] = "live"
    /\ served' = served \cup {[sid |-> s, jti |-> generation[s]]}
    /\ generation' = [generation EXCEPT ![s] = @ + 1]
    /\ UNCHANGED status

(* Families end: one by one when revoked or deleted, several at a time     *)
(* when the clock passes their expiry.                                     *)
Close(S) ==
    /\ S # {}
    /\ \A s \in S : status[s] = "live"
    /\ status' = [s \in Sid |-> IF s \in S THEN "dead" ELSE status[s]]
    /\ UNCHANGED <<generation, served>>

FamilyNext ==
    \/ \E s \in Sid : Open(s) \/ Redeem(s)
    \/ \E S \in SUBSET Sid : Close(S)

FamilySpec == FamilyInit /\ [][FamilyNext]_familyVars

=============================================================================
