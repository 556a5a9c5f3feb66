---------------------------- MODULE OneTimeCode ----------------------------
(***************************************************************************)
(* What an OTP challenge promises, whatever its code, expiry and resends:  *)
(* a budget of guesses that nothing refills, and at most one success.      *)
(***************************************************************************)
EXTENDS Naturals

CONSTANTS Cid,                \* challenge identifiers (uuid4, never reused)
          Budget              \* guesses allowed against one challenge

VARIABLES status,             \* status[c] \in {"unborn", "open", "closed"}
          left,               \* wrong guesses the challenge still tolerates
          successes           \* how often the challenge was redeemed

codeVars == <<status, left, successes>>

CodeInit ==
    /\ status = [c \in Cid |-> "unborn"]
    /\ left = [c \in Cid |-> Budget]
    /\ successes = [c \in Cid |-> 0]

(* A new challenge may close the ones it supersedes.                       *)
Issue(c, S) ==
    /\ status[c] = "unborn"
    /\ \A d \in S : status[d] = "open"
    /\ status' = [d \in Cid |-> IF d = c THEN "open"
                                ELSE IF d \in S THEN "closed" ELSE status[d]]
    /\ UNCHANGED <<left, successes>>

Miss(c) ==
    /\ status[c] = "open" /\ left[c] > 0
    /\ left' = [left EXCEPT ![c] = @ - 1]
    /\ UNCHANGED <<status, successes>>

Redeem(c) ==
    /\ status[c] = "open" /\ left[c] > 0
    /\ status' = [status EXCEPT ![c] = "closed"]
    /\ successes' = [successes EXCEPT ![c] = @ + 1]
    /\ UNCHANGED left

Drop(c) ==
    /\ status[c] = "open"
    /\ status' = [status EXCEPT ![c] = "closed"]
    /\ UNCHANGED <<left, successes>>

CodeNext ==
    \E c \in Cid :
        \/ \E S \in SUBSET Cid : Issue(c, S)
        \/ Miss(c) \/ Redeem(c) \/ Drop(c)

CodeSpec == CodeInit /\ [][CodeNext]_codeVars

=============================================================================
