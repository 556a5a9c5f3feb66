-------------------------- MODULE PasswordSessions --------------------------
(***************************************************************************)
(* Password login, password change and password reset over the AuthSession *)
(* table.  A login compares the password, and opens the session later (at  *)
(* once, or after the second factor); a change or reset compares against   *)
(* the user object it loaded, saves the new password in one transaction,   *)
(* lists the sessions in the next, revokes them one by one, and only then  *)
(* sends password_changed.                                                 *)
(*                                                                         *)
(* Sessions supplies the table, the tokens and the workers' jobs; here a   *)
(* worker also has a flow, the view it is running.                         *)
(***************************************************************************)
EXTENDS Sessions

CONSTANT MaxChange            \* bound: password changes of one user

ASSUME PasswordAssumption == MaxChange \in Nat

VARIABLES pwd,                \* the password in the user's row, by generation
          flow,               \* the view each worker is running
          opened,             \* history: the generation when its row was inserted
          announced           \* the last generation password_changed was sent for

pvars == <<pwd, flow, opened, announced>>
allVars == <<vars, pvars>>

Flow == [at   : {"none", "login", "change", "reset", "saved", "revoking"},
         user : User \cup {NoUser},
         gen  : Nat]
NoFlow == [at |-> "none", user |-> NoUser, gen |-> 0]

PTypeOK ==
    /\ TypeOK
    /\ pwd \in [User -> 0..MaxChange]
    /\ flow \in [Worker -> Flow]
    /\ opened \in [Sid -> Nat]
    /\ announced \in [User -> 0..MaxChange]

PInit ==
    /\ Init
    /\ pwd = [u \in User |-> 0]
    /\ flow = [w \in Worker |-> NoFlow]
    /\ opened = [s \in Sid |-> 0]
    /\ announced = [u \in User |-> 0]

-----------------------------------------------------------------------------
Free(w) == flow[w] = NoFlow /\ job[w] = Idle
Enter(w, at, u, g) == flow' = [flow EXCEPT ![w] = [at |-> at, user |-> u, gen |-> g]]
Leave(w) == flow' = [flow EXCEPT ![w] = NoFlow]

(* PasswordService.authenticate: check_password against the row just read. *)
(* A wrong password returns None and changes nothing here.                 *)
Authenticate(w, u) ==
    /\ Free(w)
    /\ Enter(w, "login", u, pwd[u])
    /\ UNCHANGED <<vars, pwd, opened, announced>>

(* login_response / verify_second_factor: the session of a login that has  *)
(* proved its password, however long ago.                                  *)
OpenSession(w) ==
    LET u == flow[w].user
        New(s) == row[s].state = "unused" /\ row'[s].state = "stored"
    IN  /\ flow[w].at = "login"
        /\ CreateSession(w, u)
        /\ opened' = [s \in Sid |-> IF New(s) THEN pwd[u] ELSE opened[s]]
        /\ Leave(w)
        /\ UNCHANGED <<pwd, announced>>

(* POST /password/change/: JWTAuthentication loads the user; old_password  *)
(* is compared with the hash of that object (change_password).             *)
LoadForChange(w, a) ==
    /\ Free(w) /\ Authenticated(a)
    /\ Enter(w, "change", row[a.sid].user, pwd[row[a.sid].user])
    /\ UNCHANGED <<vars, pwd, opened, announced>>

(* POST /password/reset/confirm/: the user comes from a verified OTP       *)
(* challenge and no old password is asked for (confirm_reset).             *)
LoadForReset(w, u) ==
    /\ Free(w)
    /\ Enter(w, "reset", u, pwd[u])
    /\ UNCHANGED <<vars, pwd, opened, announced>>

(* validate_password refuses the new password: the view answers 400.       *)
Refuse(w) ==
    /\ flow[w].at \in {"change", "reset"}
    /\ Leave(w)
    /\ UNCHANGED <<vars, pwd, opened, announced>>

(* _finish_password_reset_or_change, statement by statement.               *)
SavePassword(w) ==
    LET u == flow[w].user
    IN  /\ flow[w].at \in {"change", "reset"}
        /\ pwd[u] < MaxChange
        /\ pwd' = [pwd EXCEPT ![u] = @ + 1]
        /\ Enter(w, "saved", u, pwd[u] + 1)
        /\ UNCHANGED <<vars, opened, announced>>

MutRevokeRevokedToo(w) ==
    /\ flow[w].at = "saved"
    /\ StartRevoking(w, {s \in Sid : Stored(s) /\ row[s].user = flow[w].user},
                     "password_changed")
    /\ Enter(w, "revoking", flow[w].user, flow[w].gen)
    /\ UNCHANGED <<pwd, opened, announced>>
RevokeSessions(w) ==
    /\ flow[w].at = "saved"
    /\ PasswordChanged(w, flow[w].user)
    /\ Enter(w, "revoking", flow[w].user, flow[w].gen)
    /\ UNCHANGED <<pwd, opened, announced>>

(* A bug of the loop's end: the signal does not wait for the revocations.  *)
MutRevoked(w) == flow[w].at = "revoking"
AllRevoked(w) == flow[w].at = "revoking" /\ job[w].todo = {}

Announce(w) ==
    LET u == flow[w].user
    IN  /\ AllRevoked(w)
        /\ Finish(w)
        /\ Leave(w)
        /\ announced' = [announced EXCEPT ![u] = IF @ < flow[w].gen
                                                THEN flow[w].gen ELSE @]
        /\ UNCHANGED <<now, row, refresh, access, spent, reused>>
        /\ UNCHANGED <<pwd, opened>>

Die(w) ==
    /\ MayAbort /\ flow[w] # NoFlow
    /\ Leave(w)
    /\ \/ Abort(w)
       \/ job[w] = Idle /\ UNCHANGED vars
    /\ UNCHANGED <<pwd, opened, announced>>

(* What the session layer does meanwhile.                                  *)
SessionStep ==
    /\ \/ \E w \in Worker : IssuePair(w) \/ RevokeNext(w)
       \/ \E w \in Worker : flow[w] = NoFlow /\ JobDone(w)
       \/ \E w \in Worker, a \in access : flow[w] = NoFlow /\ LogoutAll(w, a)
       \/ \E t \in refresh : Rotate(t) \/ DetectReuse(t)
       \/ \E a \in access : Logout(a)
       \/ Tick
    /\ UNCHANGED pvars

FlowStep(w) == SavePassword(w) \/ RevokeSessions(w) \/ Announce(w)

PNext ==
    \/ \E w \in Worker, u \in User : Authenticate(w, u) \/ LoadForReset(w, u)
    \/ \E w \in Worker, a \in access : LoadForChange(w, a)
    \/ \E w \in Worker : OpenSession(w) \/ Refuse(w) \/ Die(w)
    \/ \E w \in Worker : FlowStep(w)
    \/ SessionStep

PSpec == PInit /\ [][PNext]_allVars

(* A worker that is not killed goes on to its next statement.              *)
PFairSpec ==
    /\ PSpec
    /\ \A w \in Worker :
          /\ WF_allVars(RevokeSessions(w) \/ Announce(w))
          /\ WF_allVars((IssuePair(w) \/ RevokeNext(w)) /\ UNCHANGED pvars)

-----------------------------------------------------------------------------
(* Properties.                                                             *)

(* When password_changed has been sent for a new password, no session      *)
(* whose row was inserted before that password was saved is live, whatever *)
(* logs in, rotates or changes the password concurrently                   *)
(* (_finish_password_reset_or_change revokes, then signals).               *)
OlderSessionsDead ==
    \A s \in Sid :
        Live(s) => opened[s] >= announced[row[s].user]

(* Once the new password is saved, every session opened under an older one *)
(* ends, provided the worker is not killed half way.                       *)
SavedPasswordEndsSessions ==
    \A w \in Worker, s \in Sid :
        ( /\ flow[w].at = "saved" /\ Live(s)
          /\ row[s].user = flow[w].user
          /\ opened[s] < flow[w].gen ) ~> ~Live(s)

(* Until then they stay due: no step but the worker's death leaves a saved *)
(* password with an older session alive that nobody is going to revoke     *)
(* (_finish_password_reset_or_change, against logins and rotations).       *)
Due(w, s) ==
    /\ flow[w].at \in {"saved", "revoking"} /\ Live(s)
    /\ row[s].user = flow[w].user /\ opened[s] < flow[w].gen
    /\ flow[w].at = "revoking" => s \in job[w].todo

DueUntilDead ==
    [][\A w \in Worker, s \in Sid :
          Due(w, s) => Due(w, s)' \/ ~Live(s)' \/ Die(w)]_allVars

(* Nothing here does to the table what Sessions does not allow, so what is *)
(* proved of Sessions holds of the composition.                            *)
ImplementsSessions == Spec

(* The inductive invariant.  Every row and every view has its user; no     *)
(* view and no announcement is ahead of the password; and while a view     *)
(* revokes, a live session older than its password is still on its list.   *)
Owned ==
    /\ \A s \in Sid : Written(s) => row[s].user \in User
    /\ \A w \in Worker : flow[w].at # "none" => flow[w].user \in User

GenerationsBehind ==
    /\ \A w \in Worker : flow[w].at \in {"saved", "revoking"}
                            => flow[w].gen <= pwd[flow[w].user]
    /\ \A u \in User : announced[u] <= pwd[u]

StillToRevoke ==
    \A w \in Worker :
        flow[w].at = "revoking" =>
            /\ job[w].op = "revoke_all"
            /\ \A s \in Sid :
                  ( /\ Live(s) /\ row[s].user = flow[w].user
                    /\ opened[s] < flow[w].gen ) => s \in job[w].todo

PIInv == /\ PTypeOK /\ IInv /\ Owned /\ GenerationsBehind /\ StillToRevoke
         /\ OlderSessionsDead

=============================================================================
