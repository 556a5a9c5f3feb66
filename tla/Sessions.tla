------------------------------ MODULE Sessions ------------------------------
(***************************************************************************)
(* The AuthSession table and the TokenService that writes it: login,       *)
(* refresh rotation with reuse detection, logout, logout-everywhere,       *)
(* administrator revocation and the purge task, as request handlers and    *)
(* celery workers interleave them.                                         *)
(*                                                                         *)
(* A handler that holds the row lock for the whole of its work             *)
(* (select_for_update inside transaction.atomic) is one action.  One that  *)
(* reads, commits and writes later (issue_token_pair, revoke_all_sessions, *)
(* the purge) is a job of a worker and takes one action per database       *)
(* statement.  The requests the code rejects change nothing and are the    *)
(* stuttering steps.                                                       *)
(***************************************************************************)
EXTENDS Integers

CONSTANTS User, Sid, Worker,
          NoUser,             \* the owner of a row that was never written
          SessionTtl,         \* REFRESH_TTL_SECONDS and REMEMBER_ME_TTL_SECONDS
          AccessTtl,          \* ACCESS_TTL_SECONDS
          SessionGrace,       \* tasks._SESSION_GRACE
          FaultyReceivers,    \* may a host's signal receiver raise?
          MayAbort,           \* may a worker die, or be aborted, half way?
          MaxTime,            \* bound: the clock stops here
          MaxRotation         \* bound: rotations of one session

ASSUME SessionsAssumption ==
    /\ NoUser \notin User
    /\ SessionTtl \subseteq Nat \ {0}
    /\ AccessTtl \in Nat \ {0}
    /\ SessionGrace \in Nat
    /\ FaultyReceivers \in BOOLEAN /\ MayAbort \in BOOLEAN
    /\ MaxTime \in Nat /\ MaxRotation \in Nat

VARIABLES now,                \* the database and web servers' clock
          row,                \* the AuthSession table
          refresh, access,    \* every token ever minted; any may be presented
          job,                \* what each worker is in the middle of
          spent,              \* history: [sid, jti] exchanged by a rotation
          reused              \* history: sessions on which reuse was detected

vars == <<now, row, refresh, access, job, spent, reused>>

-----------------------------------------------------------------------------
(* Types.                                                                  *)

Never == -1                   \* revoked_at IS NULL
Reason == {"user_logout", "admin_revoked", "reuse_detected",
           "password_changed", "expired"}
NoReason == "null"

(* jti stands for current_jti and rotation_count together: generate_jti    *)
(* never repeats, so the rotation number identifies the value.  A deleted  *)
(* row keeps its last contents here only as a record of what it was.       *)
Row == [state     : {"unused", "stored", "deleted"},
        user      : User \cup {NoUser},
        jti       : Nat,
        expiresAt : Nat,
        revokedAt : Nat \cup {Never},
        reason    : Reason \cup {NoReason}]

BlankRow == [state |-> "unused", user |-> NoUser, jti |-> 0, expiresAt |-> 0,
             revokedAt |-> Never, reason |-> NoReason]

(* The claims of a token.  An access token carries no jti of its session;  *)
(* the field records which rotation minted it.                             *)
Token == [sid : Sid, jti : Nat, exp : Nat]

(* A job: the statements still to run are the ids in todo; listed is what  *)
(* the query of revoke_all_sessions returned when it started.              *)
Job == [op     : {"idle", "issue", "revoke_all", "purge"},
        todo   : SUBSET Sid,
        listed : SUBSET Sid,
        reason : Reason \cup {NoReason}]

Idle == [op |-> "idle", todo |-> {}, listed |-> {}, reason |-> NoReason]

TypeOK ==
    /\ now \in 0..MaxTime
    /\ row \in [Sid -> Row]
    /\ refresh \subseteq Token
    /\ access \subseteq Token
    /\ job \in [Worker -> Job]
    /\ spent \subseteq [sid : Sid, jti : Nat]
    /\ reused \subseteq Sid

Init ==
    /\ now = 0
    /\ row = [s \in Sid |-> BlankRow]
    /\ refresh = {}
    /\ access = {}
    /\ job = [w \in Worker |-> Idle]
    /\ spent = {}
    /\ reused = {}

-----------------------------------------------------------------------------
(* The row and its tokens.                                                 *)

Stored(s) == row[s].state = "stored"
Revoked(s) == row[s].revokedAt # Never
NotExpired(s) == row[s].expiresAt > now

(* tokens.decode: PyJWT rejects a token from the second its exp is reached *)
Decodes(t) == t.exp > now

(* rotate_refresh, under the row lock: the row is there, neither revoked   *)
(* nor expired.                                                            *)
MutLiveIgnoresRevocation(s) == Stored(s) /\ NotExpired(s)
Live(s) == Stored(s) /\ ~Revoked(s) /\ NotExpired(s)

(* A refresh token that rotate_refresh would exchange now.                 *)
Redeemable(t) == Decodes(t) /\ Live(t.sid) /\ t.jti = row[t.sid].jti

(* _issue_pair clamps the refresh token to what is left of the session.    *)
MutRefreshExpFullTtl(s) == now + row[s].expiresAt
RefreshExp(s) ==
    now + (IF row[s].expiresAt > now THEN row[s].expiresAt - now ELSE 0)

(* _issue_pair for the session s whose in-memory current_jti is j.         *)
Mint(s, j) ==
    /\ refresh' = refresh \cup {[sid |-> s, jti |-> j, exp |-> RefreshExp(s)]}
    /\ access' = access \cup {[sid |-> s, jti |-> j, exp |-> now + AccessTtl]}

(* revoke_session: nothing for a missing or an already revoked row, so the *)
(* first revocation's time and reason stand.                               *)
MutRevokeOverwrites(s, why) ==
    IF Stored(s)
    THEN [row EXCEPT ![s] = [row[s] EXCEPT !.revokedAt = now, !.reason = why]]
    ELSE row
AfterRevoke(s, why) ==
    IF Stored(s) /\ ~Revoked(s)
    THEN [row EXCEPT ![s] = [row[s] EXCEPT !.revokedAt = now, !.reason = why]]
    ELSE row

Start(w, j) == job[w] = Idle /\ job' = [job EXCEPT ![w] = j]
Finish(w) == job' = [job EXCEPT ![w] = Idle]

-----------------------------------------------------------------------------
(* Login: issue_token_pair inserts the row in its own transaction and      *)
(* mints the pair from the object it keeps in memory.                      *)

CreateSession(w, u) ==
    \E s \in Sid, ttl \in SessionTtl :
        /\ row[s].state = "unused"
        /\ row' = [row EXCEPT ![s] =
                     [BlankRow EXCEPT !.state = "stored", !.user = u,
                                      !.expiresAt = now + ttl]]
        /\ Start(w, [Idle EXCEPT !.op = "issue", !.todo = {s}])
        /\ UNCHANGED <<now, refresh, access, spent, reused>>

IssuePair(w) ==
    /\ job[w].op = "issue"
    /\ \E s \in job[w].todo : Mint(s, 0)
    /\ Finish(w)
    /\ UNCHANGED <<now, row, spent, reused>>

(* POST /token/refresh/ with the current token of a live session.          *)
MutNextJtiKept(s) == row[s].jti
NextJti(s) == row[s].jti + 1

(* The jti comparison of rotate_refresh.                                   *)
MutAnyJti(t) == TRUE
JtiIsCurrent(t) == t.jti = row[t.sid].jti

Rotate(t) ==
    /\ Decodes(t) /\ Live(t.sid) /\ JtiIsCurrent(t)
    /\ row[t.sid].jti < MaxRotation
    /\ row' = [row EXCEPT ![t.sid].jti = NextJti(t.sid)]
    /\ Mint(t.sid, NextJti(t.sid))
    /\ spent' = spent \cup {[sid |-> t.sid, jti |-> t.jti]}
    /\ UNCHANGED <<now, job, reused>>

(* POST /token/refresh/ with a superseded token of a live session.  The    *)
(* session_revoked receivers run inside rotate_refresh's own transaction;  *)
(* an exception of theirs leaves through transaction.atomic and rolls the  *)
(* revocation back.                                                        *)
MutReuseOnlyRejects(s) == row
AfterReuse(s) == AfterRevoke(s, "reuse_detected")

DetectReuse(t) ==
    /\ Decodes(t) /\ Live(t.sid) /\ ~JtiIsCurrent(t)
    /\ reused' = reused \cup {t.sid}
    /\ \/ row' = AfterReuse(t.sid)
       \/ FaultyReceivers /\ row' = row
    /\ UNCHANGED <<now, refresh, access, job, spent>>

-----------------------------------------------------------------------------
(* Revocation of one session.  An access token is checked by its claims    *)
(* alone, so it opens these endpoints even when its own session is gone.   *)

Authenticated(a) == Decodes(a)

Logout(a) ==
    /\ Authenticated(a)
    /\ row' = AfterRevoke(a.sid, "user_logout")
    /\ UNCHANGED <<now, refresh, access, job, spent, reused>>

RevokeOwn(a, s) ==
    /\ Authenticated(a)
    /\ Stored(s) /\ row[s].user = row[a.sid].user
    /\ row' = AfterRevoke(s, "user_logout")
    /\ UNCHANGED <<now, refresh, access, job, spent, reused>>

AdminRevoke(s) ==
    /\ Stored(s)
    /\ row' = AfterRevoke(s, "admin_revoked")
    /\ UNCHANGED <<now, refresh, access, job, spent, reused>>

(* The Django admin's own delete, or the deletion of the owning user.      *)
AdminDelete(s) ==
    /\ Stored(s)
    /\ row' = [row EXCEPT ![s].state = "deleted"]
    /\ UNCHANGED <<now, refresh, access, job, spent, reused>>

-----------------------------------------------------------------------------
(* Revocation of many: the ids are listed by one query, then revoked one   *)
(* transaction at a time.                                                  *)

Revocable(u) == {s \in Sid : Stored(s) /\ ~Revoked(s) /\ row[s].user = u}

StartRevoking(w, S, why) ==
    /\ Start(w, [op |-> "revoke_all", todo |-> S, listed |-> S, reason |-> why])
    /\ UNCHANGED <<now, row, refresh, access, spent, reused>>

LogoutAll(w, a) ==
    /\ Authenticated(a)
    /\ StartRevoking(w, Revocable(row[a.sid].user), "user_logout")

PasswordChanged(w, u) == StartRevoking(w, Revocable(u), "password_changed")

(* The admin action: the selected sessions that are not revoked yet.       *)
AdminRevokeSelected(w) ==
    \E S \in SUBSET UNION {Revocable(u) : u \in User} :
        StartRevoking(w, S, "admin_revoked")

MutStopAtRevoked(w, s) == IF Revoked(s) THEN {} ELSE job[w].todo \ {s}
LeftAfter(w, s) == job[w].todo \ {s}

RevokedBy(w, s) == AfterRevoke(s, job[w].reason)

RevokeNext(w) ==
    /\ job[w].op = "revoke_all"
    /\ \E s \in job[w].todo :
          /\ row' = RevokedBy(w, s)
          /\ job' = [job EXCEPT ![w].todo = LeftAfter(w, s)]
    /\ UNCHANGED <<now, refresh, access, spent, reused>>

-----------------------------------------------------------------------------
(* The purge task: the primary keys of the sessions that expired more than *)
(* the grace period ago, deleted one by one without looking at them again. *)

MutPurgeableNow == {s \in Sid : Stored(s) /\ row[s].expiresAt < now + SessionGrace}
Purgeable == {s \in Sid : Stored(s) /\ row[s].expiresAt < now - SessionGrace}

PurgeList(w) ==
    /\ Start(w, [Idle EXCEPT !.op = "purge", !.todo = Purgeable])
    /\ UNCHANGED <<now, row, refresh, access, spent, reused>>

(* A delete that fails is logged and skipped.                              *)
PurgeNext(w) ==
    /\ job[w].op = "purge"
    /\ \E s \in job[w].todo :
          /\ job' = [job EXCEPT ![w].todo = @ \ {s}]
          /\ \/ Stored(s) /\ row' = [row EXCEPT ![s].state = "deleted"]
             \/ row' = row
    /\ UNCHANGED <<now, refresh, access, spent, reused>>

JobDone(w) ==
    /\ job[w].op \in {"revoke_all", "purge"} /\ job[w].todo = {}
    /\ Finish(w)
    /\ UNCHANGED <<now, row, refresh, access, spent, reused>>

(* The process is killed, the database connection breaks, or a signal      *)
(* receiver raises between two statements.                                 *)
Abort(w) ==
    /\ MayAbort /\ job[w] # Idle
    /\ Finish(w)
    /\ UNCHANGED <<now, row, refresh, access, spent, reused>>

Tick ==
    /\ now < MaxTime
    /\ now' = now + 1
    /\ UNCHANGED <<row, refresh, access, job, spent, reused>>

-----------------------------------------------------------------------------
WorkerStep(w) == IssuePair(w) \/ RevokeNext(w) \/ PurgeNext(w) \/ JobDone(w)

Next ==
    \/ \E w \in Worker, u \in User : CreateSession(w, u) \/ PasswordChanged(w, u)
    \/ \E t \in refresh : Rotate(t) \/ DetectReuse(t)
    \/ \E a \in access : Logout(a) \/ (\E s \in Sid : RevokeOwn(a, s))
    \/ \E w \in Worker, a \in access : LogoutAll(w, a)
    \/ \E s \in Sid : AdminRevoke(s) \/ AdminDelete(s)
    \/ \E w \in Worker : AdminRevokeSelected(w) \/ PurgeList(w)
    \/ \E w \in Worker : WorkerStep(w) \/ Abort(w)
    \/ Tick

Spec == Init /\ [][Next]_vars

-----------------------------------------------------------------------------
(* Properties.                                                             *)

(* A refresh token that was exchanged once is never exchanged again, from  *)
(* any later state: neither rotations, nor revocations, nor a deletion of  *)
(* the row bring a superseded jti back (TokenService.rotate_refresh).      *)
NoDoubleSpend ==
    \A t \in refresh :
        [sid |-> t.sid, jti |-> t.jti] \in spent => ~Redeemable(t)

(* An access token minted by a rotation was minted before its session was  *)
(* revoked and before it expired, so it outlives neither event by more     *)
(* than ACCESS_TTL_SECONDS, whatever revokes the session concurrently.     *)
(* (The first pair of a session is minted outside any lock and is not      *)
(* bounded by its revocation.)                                             *)
AccessBounded ==
    \A a \in access :
        a.jti > 0 =>
            /\ Revoked(a.sid) => a.exp <= row[a.sid].revokedAt + AccessTtl
            /\ a.exp < row[a.sid].expiresAt + AccessTtl

(* Rotating never extends a login: no refresh token that still decodes     *)
(* runs past the expires_at its session was created with (_issue_pair).    *)
RefreshWithinSession ==
    \A t \in refresh : Decodes(t) => t.exp <= row[t.sid].expiresAt

(* Presenting a superseded jti ends the session: once reuse was detected   *)
(* on it, the row is revoked or gone, and no token of it is redeemable.    *)
ReuseEndsSession ==
    \A s \in reused : ~Stored(s) \/ Revoked(s)

(* The loop of revoke_all_sessions leaves nothing behind: every session    *)
(* its query listed and it has passed is revoked or gone, whatever logs in,*)
(* rotates, is purged, or revokes the sessions it has yet to come to.      *)
RevokeAllComplete ==
    \A w \in Worker :
        job[w].op = "revoke_all" =>
            \A s \in job[w].listed \ job[w].todo : ~Stored(s) \/ Revoked(s)

(* A revocation is final: no later handler changes when or why a session   *)
(* was revoked, or un-revokes it (idempotence of revoke_session; the admin *)
(* shows revoked_reason as the audit answer).                              *)
RevocationIsFinal ==
    [][\A s \in Sid : Revoked(s) => /\ row'[s].revokedAt = row[s].revokedAt
                                    /\ row'[s].reason = row[s].reason]_vars

(* The purge, which does not look at a row again before deleting it, only  *)
(* ever deletes sessions that expired more than the grace period ago: none *)
(* it listed can have come back to life since.                             *)
PurgeOnlyExpired ==
    [][\A w \in Worker, s \in Sid :
          (PurgeNext(w) /\ Stored(s) /\ row'[s].state = "deleted")
             => row[s].expiresAt + SessionGrace < now]_vars

(* The same table seen as token families.                                  *)
FamilyStatus(s) ==
    IF row[s].state = "unused" THEN "unborn"
    ELSE IF Live(s) THEN "live" ELSE "dead"

Family == INSTANCE TokenFamily
            WITH status <- [s \in Sid |-> FamilyStatus(s)],
                 generation <- [s \in Sid |-> row[s].jti],
                 served <- spent

(* Sessions implements TokenFamily: one redeemable generation per live     *)
(* family, redeemed in order, and no family comes back.                    *)
ImplementsFamily == Family!FamilySpec

(* Logout-everywhere, a password change and the admin action end every     *)
(* session they listed, when no worker is aborted on the way.              *)
RevokeAllTerminates ==
    \A w \in Worker, s \in Sid :
        (job[w].op = "revoke_all" /\ s \in job[w].todo) ~> ~Live(s)

(* Why they all end: while a worker revokes it is only ever shortening its *)
(* list, by sessions that are revoked or gone, and it leaves when nothing  *)
(* is on it, unless it is killed (the loop of revoke_all_sessions).        *)
RevokingAdvances ==
    [][\A w \in Worker :
          (job[w].op = "revoke_all" /\ job'[w] # job[w]) =>
              \/ Abort(w)
              \/ job[w].todo = {} /\ job'[w] = Idle
              \/ \E s \in job[w].todo :
                    /\ job'[w] = [job[w] EXCEPT !.todo = @ \ {s}]
                    /\ ~Stored(s)' \/ Revoked(s)']_vars

(* The inductive invariant behind the safety properties.  Nothing speaks   *)
(* of a session id before its row is written, so no token or job refers to *)
(* the blank row; a spent jti lies behind the current one; no access token *)
(* of a rotation reaches further than one lifetime past now; and what a    *)
(* purge has listed stays purgeable.                                       *)
Written(s) == row[s].state # "unused"

OnlyWritten ==
    /\ \A t \in refresh \cup access \cup spent : Written(t.sid)
    /\ \A s \in reused : Written(s)
    /\ \A w \in Worker :
          /\ job[w].op = "issue" => \A s \in job[w].todo : Written(s)
          /\ job[w].op = "revoke_all" => \A s \in job[w].listed : Written(s)
    /\ \A s \in Sid : ~Written(s) => row[s] = BlankRow

SpentBehind == \A p \in spent : p.jti < row[p.sid].jti

PurgeListed ==
    \A w \in Worker :
        job[w].op = "purge" =>
            \A s \in job[w].todo :
                Written(s) /\ row[s].expiresAt + SessionGrace < now

AccessNear == \A a \in access : a.jti > 0 => a.exp <= now + AccessTtl

IInv ==
    /\ TypeOK
    /\ OnlyWritten
    /\ SpentBehind
    /\ AccessNear
    /\ PurgeListed
    /\ AccessBounded
    /\ RefreshWithinSession
    /\ RevokeAllComplete

=============================================================================
