--------------------------- MODULE SessionsProofs ---------------------------
(***************************************************************************)
(* Proofs about Sessions, for every number of users, sessions and workers, *)
(* every lifetime, and every bound on the clock and on rotations.          *)
(***************************************************************************)
EXTENDS Sessions, TLAPS

-----------------------------------------------------------------------------
(* Every reachable state is well typed.                                    *)
LEMMA BlankTypes == BlankRow \in Row /\ Idle \in Job
  BY DEF BlankRow, Row, Idle, Job

LEMMA InitTypeOK == Init => TypeOK
  <1>. SUFFICES ASSUME Init  PROVE TypeOK
    OBVIOUS
  <1>1. now \in 0..MaxTime
    BY SessionsAssumption DEF Init
  <1>2. row \in [Sid -> Row] /\ job \in [Worker -> Job]
    BY BlankTypes DEF Init
  <1>. QED  BY <1>1, <1>2 DEF Init, TypeOK

LEMMA AfterRevokeType ==
    ASSUME TypeOK, NEW s \in Sid, NEW why \in Reason
    PROVE  AfterRevoke(s, why) \in [Sid -> Row]
  <1>1. now \in Nat /\ row[s] \in Row
    BY SessionsAssumption DEF TypeOK
  <1>2. [row[s] EXCEPT !.revokedAt = now, !.reason = why] \in Row
    BY <1>1 DEF Row
  <1>. QED  BY <1>2 DEF AfterRevoke, TypeOK

LEMMA MintType ==
    ASSUME TypeOK, NEW s \in Sid, NEW j \in Nat, Mint(s, j)
    PROVE  refresh' \subseteq Token /\ access' \subseteq Token
  BY SessionsAssumption DEF TypeOK, Mint, RefreshExp, Token, Row

LEMMA StartType ==
    ASSUME TypeOK, NEW w \in Worker, NEW j \in Job, Start(w, j)
    PROVE  job' \in [Worker -> Job]
  BY DEF TypeOK, Start

LEMMA FinishType ==
    ASSUME TypeOK, NEW w \in Worker, Finish(w)
    PROVE  job' \in [Worker -> Job]
  BY DEF TypeOK, Finish, Idle, Job

LEMMA StartRevokingType ==
    ASSUME TypeOK, NEW w \in Worker, NEW S \in SUBSET Sid, NEW why \in Reason,
           StartRevoking(w, S, why)
    PROVE  TypeOK'
  <1>1. [op |-> "revoke_all", todo |-> S, listed |-> S, reason |-> why] \in Job
    BY DEF Job
  <1>2. job' \in [Worker -> Job]
    BY <1>1, StartType DEF StartRevoking
  <1>. QED  BY <1>2 DEF StartRevoking, TypeOK

LEMMA NextTypeOK == TypeOK /\ [Next]_vars => TypeOK'
  <1>. SUFFICES ASSUME TypeOK, [Next]_vars  PROVE TypeOK'
    OBVIOUS
  <1>1. ASSUME NEW w \in Worker, NEW u \in User, CreateSession(w, u)  PROVE TypeOK'
    <2>1. PICK s \in Sid, ttl \in SessionTtl :
             /\ row' = [row EXCEPT ![s] =
                          [BlankRow EXCEPT !.state = "stored", !.user = u,
                                           !.expiresAt = now + ttl]]
             /\ Start(w, [Idle EXCEPT !.op = "issue", !.todo = {s}])
             /\ UNCHANGED <<now, refresh, access, spent, reused>>
      BY <1>1 DEF CreateSession
    <2>2. now + ttl \in Nat
      BY SessionsAssumption DEF TypeOK
    <2>5. [BlankRow EXCEPT !.state = "stored", !.user = u,
                           !.expiresAt = now + ttl] \in Row
      BY <2>2, BlankTypes DEF Row
    <2>6. row' \in [Sid -> Row]
      BY <2>1, <2>5 DEF TypeOK
    <2>3. [Idle EXCEPT !.op = "issue", !.todo = {s}] \in Job
      BY DEF Idle, Job
    <2>4. job' \in [Worker -> Job]
      BY <2>1, <2>3, StartType
    <2>. QED  BY <2>1, <2>4, <2>6 DEF TypeOK
  <1>2. ASSUME NEW w \in Worker, IssuePair(w)  PROVE TypeOK'
    <2>1. PICK s \in job[w].todo : Mint(s, 0)
      BY <1>2 DEF IssuePair
    <2>2. s \in Sid
      BY DEF TypeOK, Job
    <2>3. refresh' \subseteq Token /\ access' \subseteq Token
      BY <2>1, <2>2, MintType
    <2>4. job' \in [Worker -> Job]
      BY <1>2, FinishType DEF IssuePair
    <2>. QED  BY <1>2, <2>3, <2>4 DEF IssuePair, TypeOK
  <1>3. ASSUME NEW t \in refresh, Rotate(t)  PROVE TypeOK'
    <2>1. t \in Token /\ t.sid \in Sid /\ t.jti \in Nat
      BY DEF TypeOK, Token
    <2>2. NextJti(t.sid) \in Nat
      BY <2>1 DEF TypeOK, Row, NextJti
    <2>3. refresh' \subseteq Token /\ access' \subseteq Token
      BY <1>3, <2>1, <2>2, MintType DEF Rotate
    <2>4. row' \in [Sid -> Row]
      BY <1>3, <2>1, <2>2 DEF Rotate, TypeOK, Row
    <2>. QED  BY <1>3, <2>1, <2>3, <2>4 DEF Rotate, TypeOK
  <1>4. ASSUME NEW t \in refresh, DetectReuse(t)  PROVE TypeOK'
    <2>1. t.sid \in Sid
      BY DEF TypeOK, Token
    <2>2. AfterReuse(t.sid) \in [Sid -> Row]
      BY <2>1, AfterRevokeType DEF AfterReuse, Reason
    <2>. QED  BY <1>4, <2>1, <2>2 DEF DetectReuse, TypeOK
  <1>5. ASSUME NEW a \in access, Logout(a)  PROVE TypeOK'
    <2>1. a.sid \in Sid
      BY DEF TypeOK, Token
    <2>. QED  BY <1>5, <2>1, AfterRevokeType DEF Logout, TypeOK, Reason
  <1>6. ASSUME NEW a \in access, NEW s \in Sid, RevokeOwn(a, s)  PROVE TypeOK'
    BY <1>6, AfterRevokeType DEF RevokeOwn, TypeOK, Reason
  <1>7. ASSUME NEW w \in Worker, NEW a \in access, LogoutAll(w, a)  PROVE TypeOK'
    BY <1>7, StartRevokingType DEF LogoutAll, Revocable, Reason
  <1>8. ASSUME NEW w \in Worker, NEW u \in User, PasswordChanged(w, u)  PROVE TypeOK'
    BY <1>8, StartRevokingType DEF PasswordChanged, Revocable, Reason
  <1>9. ASSUME NEW w \in Worker, AdminRevokeSelected(w)  PROVE TypeOK'
    BY <1>9, StartRevokingType DEF AdminRevokeSelected, Revocable, Reason
  <1>10. ASSUME NEW s \in Sid, AdminRevoke(s)  PROVE TypeOK'
    BY <1>10, AfterRevokeType DEF AdminRevoke, TypeOK, Reason
  <1>11. ASSUME NEW s \in Sid, AdminDelete(s)  PROVE TypeOK'
    BY <1>11 DEF AdminDelete, TypeOK, Row
  <1>12. ASSUME NEW w \in Worker, RevokeNext(w)  PROVE TypeOK'
    <2>1. PICK s \in job[w].todo :
             row' = RevokedBy(w, s) /\ job' = [job EXCEPT ![w].todo = LeftAfter(w, s)]
      BY <1>12 DEF RevokeNext
    <2>2. s \in Sid /\ LeftAfter(w, s) \in SUBSET Sid
      BY DEF TypeOK, Job, LeftAfter
    <2>3. job' \in [Worker -> Job]
      BY <2>1, <2>2 DEF TypeOK, Job
    <2>5. now \in Nat /\ job[w].reason \in Reason \cup {NoReason}
      BY SessionsAssumption DEF TypeOK, Job
    <2>4. row' \in [Sid -> Row]
      BY <2>1, <2>2, <2>5 DEF RevokedBy, AfterRevoke, TypeOK, Row
    <2>. QED  BY <1>12, <2>3, <2>4 DEF RevokeNext, TypeOK
  <1>13. ASSUME NEW w \in Worker, PurgeList(w)  PROVE TypeOK'
    <2>1. [Idle EXCEPT !.op = "purge", !.todo = Purgeable] \in Job
      BY DEF Idle, Job, Purgeable
    <2>2. job' \in [Worker -> Job]
      BY <1>13, <2>1, StartType DEF PurgeList
    <2>. QED  BY <1>13, <2>2 DEF PurgeList, TypeOK
  <1>14. ASSUME NEW w \in Worker, PurgeNext(w)  PROVE TypeOK'
    <2>1. PICK s \in job[w].todo :
             /\ job' = [job EXCEPT ![w].todo = @ \ {s}]
             /\ \/ Stored(s) /\ row' = [row EXCEPT ![s].state = "deleted"]
                \/ row' = row
      BY <1>14 DEF PurgeNext
    <2>2. job' \in [Worker -> Job]
      BY <2>1 DEF TypeOK, Job
    <2>3. row' \in [Sid -> Row]
      BY <2>1 DEF TypeOK, Row
    <2>. QED  BY <1>14, <2>2, <2>3 DEF PurgeNext, TypeOK
  <1>15. ASSUME NEW w \in Worker, JobDone(w) \/ Abort(w)  PROVE TypeOK'
    BY <1>15, FinishType DEF JobDone, Abort, TypeOK
  <1>16. CASE Tick
    BY <1>16, SessionsAssumption DEF Tick, TypeOK
  <1>17. CASE UNCHANGED vars
    BY <1>17 DEF vars, TypeOK
  <1>. QED
    BY <1>1, <1>2, <1>3, <1>4, <1>5, <1>6, <1>7, <1>8, <1>9, <1>10, <1>11,
       <1>12, <1>13, <1>14, <1>15, <1>16, <1>17 DEF Next, WorkerStep

(* The AuthSession table, the tokens and the workers' jobs keep their      *)
(* types whatever the handlers do.                                         *)
THEOREM TypeCorrect == Spec => []TypeOK
  BY InitTypeOK, NextTypeOK, PTL DEF Spec

-----------------------------------------------------------------------------
(* What one step can do to one row: nothing, or exactly one of the five    *)
(* moves of its life.                                                      *)
Created(s) ==
    /\ ~Written(s)
    /\ row'[s].state = "stored" /\ row'[s].revokedAt = Never
    /\ row'[s].jti = 0 /\ row'[s].expiresAt > now
Rotated(s) == Live(s) /\ row'[s] = [row[s] EXCEPT !.jti = row[s].jti + 1]
Ended(s) ==
    /\ Stored(s) /\ ~Revoked(s)
    /\ \E why \in Reason \cup {NoReason} :
          row'[s] = [row[s] EXCEPT !.revokedAt = now, !.reason = why]
Removed(s) == Stored(s) /\ row'[s] = [row[s] EXCEPT !.state = "deleted"]

RowMove(s) ==
    \/ row'[s] = row[s]
    \/ Created(s)
    \/ Rotated(s)
    \/ Ended(s)
    \/ Removed(s)

LEMMA AfterRevokeMove ==
    ASSUME TypeOK, NEW r \in Sid, NEW why \in Reason \cup {NoReason},
           row' = AfterRevoke(r, why), NEW s \in Sid
    PROVE  row'[s] = row[s] \/ Ended(s)
  <1>1. CASE Stored(r) /\ ~Revoked(r) /\ s = r
    <2>1. row'[s] = [row[s] EXCEPT !.revokedAt = now, !.reason = why]
      BY <1>1 DEF AfterRevoke, TypeOK
    <2>. QED  BY <1>1, <2>1 DEF Ended
  <1>2. CASE ~(Stored(r) /\ ~Revoked(r)) \/ s # r
    BY <1>2 DEF AfterRevoke, TypeOK
  <1>. QED  BY <1>1, <1>2

(* Every step but a login and a rotation leaves a row alone, revokes it or *)
(* removes it.                                                             *)
LEMMA QuietRowMove ==
    ASSUME TypeOK, [Next]_vars,
           ~\E w \in Worker, u \in User : CreateSession(w, u),
           ~\E t \in refresh : Rotate(t),
           NEW s \in Sid
    PROVE  row'[s] = row[s] \/ Ended(s) \/ Removed(s)
  <1>3. ASSUME NEW t \in refresh, DetectReuse(t)  PROVE row'[s] = row[s] \/ Ended(s) \/ Removed(s)
    <2>1. t.sid \in Sid
      BY DEF TypeOK, Token
    <2>2. CASE row' = AfterReuse(t.sid)
      BY <2>1, <2>2, AfterRevokeMove DEF AfterReuse, Reason
    <2>. QED  BY <1>3, <2>2 DEF DetectReuse
  <1>4. ASSUME NEW a \in access, Logout(a)  PROVE row'[s] = row[s] \/ Ended(s) \/ Removed(s)
    <2>1. a.sid \in Sid
      BY DEF TypeOK, Token
    <2>. QED  BY <1>4, <2>1, AfterRevokeMove DEF Logout, Reason
  <1>5. ASSUME NEW a \in access, NEW r \in Sid, RevokeOwn(a, r)  PROVE row'[s] = row[s] \/ Ended(s) \/ Removed(s)
    BY <1>5, AfterRevokeMove DEF RevokeOwn, Reason
  <1>6. ASSUME NEW r \in Sid, AdminRevoke(r)  PROVE row'[s] = row[s] \/ Ended(s) \/ Removed(s)
    BY <1>6, AfterRevokeMove DEF AdminRevoke, Reason
  <1>7. ASSUME NEW r \in Sid, AdminDelete(r)  PROVE row'[s] = row[s] \/ Ended(s) \/ Removed(s)
    BY <1>7 DEF AdminDelete, Removed, TypeOK
  <1>8. ASSUME NEW w \in Worker, RevokeNext(w)  PROVE row'[s] = row[s] \/ Ended(s) \/ Removed(s)
    <2>1. PICK r \in job[w].todo : row' = AfterRevoke(r, job[w].reason)
      BY <1>8 DEF RevokeNext, RevokedBy
    <2>2. r \in Sid /\ job[w].reason \in Reason \cup {NoReason}
      BY DEF TypeOK, Job
    <2>. QED  BY <2>1, <2>2, AfterRevokeMove
  <1>9. ASSUME NEW w \in Worker, PurgeNext(w)  PROVE row'[s] = row[s] \/ Ended(s) \/ Removed(s)
    <2>1. PICK r \in job[w].todo :
             \/ Stored(r) /\ row' = [row EXCEPT ![r].state = "deleted"]
             \/ row' = row
      BY <1>9 DEF PurgeNext
    <2>. QED  BY <2>1 DEF Removed, TypeOK
  <1>10. CASE UNCHANGED row
    BY <1>10
  <1>11. [Next]_vars =>
            \/ UNCHANGED row
            \/ \E w \in Worker, u \in User : CreateSession(w, u)
            \/ \E t \in refresh : Rotate(t) \/ DetectReuse(t)
            \/ \E a \in access : Logout(a) \/ (\E r \in Sid : RevokeOwn(a, r))
            \/ \E r \in Sid : AdminRevoke(r) \/ AdminDelete(r)
            \/ \E w \in Worker : RevokeNext(w) \/ PurgeNext(w)
    BY DEF Next, vars, WorkerStep, IssuePair, PasswordChanged, LogoutAll,
           AdminRevokeSelected, StartRevoking, PurgeList, JobDone, Abort, Tick
  <1>. QED
    BY <1>3, <1>4, <1>5, <1>6, <1>7, <1>8, <1>9, <1>10, <1>11

LEMMA EveryRowMove ==
    ASSUME TypeOK, [Next]_vars, NEW s \in Sid
    PROVE  RowMove(s)
  <1>1. ASSUME NEW w \in Worker, NEW u \in User, CreateSession(w, u)
        PROVE  RowMove(s)
    <2>1. PICK r \in Sid, ttl \in SessionTtl :
             /\ row[r].state = "unused"
             /\ row' = [row EXCEPT ![r] =
                          [BlankRow EXCEPT !.state = "stored", !.user = u,
                                           !.expiresAt = now + ttl]]
      BY <1>1 DEF CreateSession
    <2>2. now + ttl > now
      BY SessionsAssumption DEF TypeOK
    <2>3. CASE s = r
      <3>1. row'[s] = [BlankRow EXCEPT !.state = "stored", !.user = u,
                                       !.expiresAt = now + ttl]
        BY <2>1, <2>3 DEF TypeOK
      <3>. QED  BY <2>1, <2>2, <2>3, <3>1 DEF RowMove, Created, BlankRow, Written
    <2>4. CASE s # r
      BY <2>1, <2>4 DEF RowMove, TypeOK
    <2>. QED  BY <2>3, <2>4
  <1>2. ASSUME NEW t \in refresh, Rotate(t)  PROVE RowMove(s)
    <2>1. t.sid \in Sid
      BY DEF TypeOK, Token
    <2>2. CASE s = t.sid
      BY <1>2, <2>1, <2>2 DEF Rotate, RowMove, Rotated, NextJti, TypeOK
    <2>3. CASE s # t.sid
      BY <1>2, <2>3 DEF Rotate, RowMove, TypeOK
    <2>. QED  BY <2>2, <2>3
  <1>. QED  BY <1>1, <1>2, QuietRowMove DEF RowMove

(* A row only moves forward.                                               *)
Gone(s) == ~Stored(s) \/ Revoked(s)

LEMMA Forward ==
    ASSUME TypeOK, OnlyWritten, [Next]_vars, NEW s \in Sid
    PROVE  /\ Written(s) => /\ Written(s)'
                            /\ row'[s].expiresAt = row[s].expiresAt
                            /\ row[s].jti <= row'[s].jti
                            /\ Gone(s) => Gone(s)'
           /\ Revoked(s) => /\ row'[s].revokedAt = row[s].revokedAt
                            /\ row'[s].reason = row[s].reason
           /\ Revoked(s)' /\ ~Revoked(s) => row'[s].revokedAt = now
           /\ ~Written(s)' => row'[s] = BlankRow
  <1>. USE DEF Written, Gone, Stored, Revoked
  <1>1. RowMove(s)
    BY EveryRowMove
  <1>2. row[s] \in Row /\ (~Written(s) => row[s] = BlankRow /\ ~Revoked(s))
    BY DEF TypeOK, OnlyWritten, BlankRow
  <1>3. CASE row'[s] = row[s]
    BY <1>2, <1>3 DEF Row
  <1>4. CASE Created(s)
    BY <1>2, <1>4 DEF Created
  <1>5. CASE Rotated(s)
    BY <1>2, <1>5 DEF Rotated, Live, Row
  <1>6. CASE Ended(s)
    <2>1. PICK why \in Reason \cup {NoReason} :
             row'[s] = [row[s] EXCEPT !.revokedAt = now, !.reason = why]
      BY <1>6 DEF Ended
    <2>2. now # Never /\ Stored(s) /\ ~Revoked(s)
      BY <1>6, SessionsAssumption DEF Ended, TypeOK, Never
    <2>. QED  BY <1>2, <2>1, <2>2 DEF Row
  <1>7. CASE Removed(s)
    BY <1>2, <1>7 DEF Removed, Row
  <1>. QED  BY <1>1, <1>3, <1>4, <1>5, <1>6, <1>7 DEF RowMove

(* Tokens are minted by a login and by a rotation only.                    *)
LEMMA MintingSteps ==
    [Next]_vars =>
      \/ UNCHANGED <<refresh, access, spent>>
      \/ \E w \in Worker : IssuePair(w)
      \/ \E t \in refresh : Rotate(t)
  BY DEF Next, vars, WorkerStep, CreateSession, PasswordChanged, DetectReuse,
         Logout, RevokeOwn, LogoutAll, AdminRevoke, AdminDelete,
         AdminRevokeSelected, StartRevoking, RevokeNext, PurgeList, PurgeNext,
         JobDone, Abort, Tick

(* The clock moves in Tick only, and forward.                              *)
LEMMA ClockSteps ==
    ASSUME TypeOK, [Next]_vars
    PROVE  /\ now' = now \/ (now' = now + 1 /\ UNCHANGED <<row, access, refresh>>)
           /\ now \in Nat /\ now' \in Nat
  <1>1. now \in Nat
    BY SessionsAssumption DEF TypeOK
  <1>2. now' = now \/ (now' = now + 1 /\ UNCHANGED <<row, access, refresh>>)
    BY DEF Next, vars, WorkerStep, CreateSession, PasswordChanged, DetectReuse,
         Logout, RevokeOwn, LogoutAll, AdminRevoke, AdminDelete, IssuePair, Rotate,
         AdminRevokeSelected, StartRevoking, RevokeNext, PurgeList, PurgeNext,
         JobDone, Abort, Tick
  <1>. QED  BY <1>1, <1>2

-----------------------------------------------------------------------------
(* The parts of the inductive invariant, each preserved by every step.     *)

LEMMA InitIInv == Init => IInv
  <1>. SUFFICES ASSUME Init  PROVE IInv
    OBVIOUS
  <1>1. TypeOK
    BY InitTypeOK
  <1>2. OnlyWritten
    BY DEF Init, OnlyWritten, Written, Revoked, BlankRow, Idle
  <1>3. RevokeAllComplete
    BY DEF Init, RevokeAllComplete, Idle
  <1>4. PurgeListed
    BY DEF Init, PurgeListed, Idle
  <1>. QED
    BY <1>1, <1>2, <1>3, <1>4 DEF Init, IInv, SpentBehind, AccessNear,
                                  AccessBounded, RefreshWithinSession

(* What the freshly minted pair looks like.                                *)
LEMMA Minted ==
    ASSUME TypeOK, NEW s \in Sid, NEW j \in Nat, Mint(s, j)
    PROVE  /\ \A t \in refresh' : t \in refresh \/ (t.sid = s /\ t.exp = RefreshExp(s))
           /\ \A a \in access' :
                 a \in access \/ (a.sid = s /\ a.jti = j /\ a.exp = now + AccessTtl)
  BY DEF Mint

LEMMA StepSid ==
    ASSUME TypeOK
    PROVE  /\ \A t \in refresh : t.sid \in Sid /\ t.jti \in Nat /\ t.exp \in Nat
           /\ \A a \in access : a.sid \in Sid /\ a.jti \in Nat /\ a.exp \in Nat
           /\ \A p \in spent : p.sid \in Sid /\ p.jti \in Nat
           /\ \A w \in Worker : job[w].todo \subseteq Sid /\ job[w].listed \subseteq Sid
           /\ \A s \in Sid : row[s] \in Row
  BY DEF TypeOK, Token, Job

(* How a step changes the job of one worker.                               *)
LEMMA JobStep ==
    ASSUME TypeOK, [Next]_vars, NEW w \in Worker
    PROVE  \/ job'[w] = job[w]
           \/ job'[w] = Idle
           \/ /\ job'[w].op = "issue"
              /\ \A s \in job'[w].todo : s \in Sid /\ Written(s)'
           \/ /\ job'[w].op = "purge"
              /\ \/ job'[w].todo = Purgeable /\ now' = now
                 \/ job[w].op = "purge" /\ job'[w].todo \subseteq job[w].todo
           \/ /\ job'[w].op = "revoke_all" /\ job'[w].todo = job'[w].listed
              /\ \A s \in job'[w].listed : s \in Sid /\ Written(s)
           \/ /\ job[w].op = "revoke_all" /\ job'[w].op = "revoke_all"
              /\ job'[w].listed = job[w].listed
              /\ \E s \in job[w].todo : /\ job'[w].todo = job[w].todo \ {s}
                                        /\ row' = AfterRevoke(s, job[w].reason)
  <1>1. ASSUME NEW v \in Worker, NEW u \in User, CreateSession(v, u), v = w
        PROVE  /\ job'[w].op = "issue"
               /\ \A s \in job'[w].todo : s \in Sid /\ Written(s)'
    <2>1. PICK s \in Sid, ttl \in SessionTtl :
             /\ row' = [row EXCEPT ![s] =
                          [BlankRow EXCEPT !.state = "stored", !.user = u,
                                           !.expiresAt = now + ttl]]
             /\ Start(w, [Idle EXCEPT !.op = "issue", !.todo = {s}])
      BY <1>1 DEF CreateSession
    <2>2. job'[w] = [Idle EXCEPT !.op = "issue", !.todo = {s}]
      BY <2>1 DEF Start, TypeOK
    <2>3. row'[s].state = "stored"
      BY <2>1 DEF TypeOK, BlankRow
    <2>. QED  BY <2>2, <2>3 DEF Idle, Written
  <1>2. ASSUME NEW v \in Worker, NEW S \in SUBSET Sid, NEW why,
               StartRevoking(v, S, why), v = w, \A s \in S : Stored(s)
        PROVE  /\ job'[w].op = "revoke_all" /\ job'[w].todo = job'[w].listed
               /\ \A s \in job'[w].listed : s \in Sid /\ Written(s)
    BY <1>2 DEF StartRevoking, Start, TypeOK, Stored, Written
  <1>3. ASSUME NEW v \in Worker, RevokeNext(v), v = w
        PROVE  /\ job[w].op = "revoke_all" /\ job'[w].op = "revoke_all"
               /\ job'[w].listed = job[w].listed
               /\ \E s \in job[w].todo : /\ job'[w].todo = job[w].todo \ {s}
                                         /\ row' = AfterRevoke(s, job[w].reason)
    <2>1. PICK s \in job[w].todo :
             /\ row' = AfterRevoke(s, job[w].reason)
             /\ job' = [job EXCEPT ![w].todo = job[w].todo \ {s}]
      BY <1>3 DEF RevokeNext, RevokedBy, LeftAfter
    <2>2. job[w] \in Job /\ job[w].op = "revoke_all"
      BY <1>3 DEF TypeOK, RevokeNext
    <2>3. job'[w] = [job[w] EXCEPT !.todo = job[w].todo \ {s}]
      BY <2>1 DEF TypeOK
    <2>. QED  BY <2>1, <2>2, <2>3 DEF Job
  <1>4. ASSUME NEW v \in Worker, PurgeList(v), v = w
        PROVE  job'[w].op = "purge" /\ job'[w].todo = Purgeable /\ now' = now
    BY <1>4 DEF PurgeList, Start, TypeOK, Idle
  <1>5. ASSUME NEW v \in Worker, PurgeNext(v), v = w
        PROVE  /\ job'[w].op = "purge" /\ job[w].op = "purge"
               /\ job'[w].todo \subseteq job[w].todo
    <2>1. PICK s \in job[w].todo : job' = [job EXCEPT ![w].todo = @ \ {s}]
      BY <1>5 DEF PurgeNext
    <2>2. job[w] \in Job /\ job[w].op = "purge"
      BY <1>5 DEF TypeOK, PurgeNext
    <2>. QED  BY <2>1, <2>2 DEF TypeOK, Job
  <1>6. \A v \in Worker : Finish(v) => job'[w] = Idle \/ job'[w] = job[w]
    BY DEF Finish, TypeOK
  <1>7. ASSUME NEW v \in Worker, v # w,
               \/ \E u \in User : CreateSession(v, u)
               \/ \E S, why : StartRevoking(v, S, why)
               \/ RevokeNext(v) \/ PurgeList(v) \/ PurgeNext(v)
        PROVE  job'[w] = job[w]
    <2>1. \/ \E j : Start(v, j)
          \/ \E S : job' = [job EXCEPT ![v].todo = S]
      BY <1>7 DEF CreateSession, StartRevoking, RevokeNext, PurgeList, PurgeNext
    <2>. QED  BY <1>7, <2>1 DEF Start, TypeOK
  <1>8. \A v \in Worker :
           \/ \E a \in access : LogoutAll(v, a)
           \/ \E u \in User : PasswordChanged(v, u)
           \/ AdminRevokeSelected(v)
           => \E S \in SUBSET Sid, why \in Reason :
                 StartRevoking(v, S, why) /\ \A s \in S : Stored(s)
    <2>1. \A u : Revocable(u) \in SUBSET Sid /\ \A s \in Revocable(u) : Stored(s)
      BY DEF Revocable
    <2>2. \A S \in SUBSET UNION {Revocable(u) : u \in User} :
             S \in SUBSET Sid /\ \A s \in S : Stored(s)
      BY <2>1
    <2>3. {"user_logout", "password_changed", "admin_revoked"} \subseteq Reason
      BY DEF Reason
    <2>4. \A v \in Worker, a \in access :
             LogoutAll(v, a) => \E S \in SUBSET Sid, why \in Reason :
                 StartRevoking(v, S, why) /\ \A s \in S : Stored(s)
      BY <2>1, <2>3 DEF LogoutAll
    <2>5. \A v \in Worker, u \in User :
             PasswordChanged(v, u) => \E S \in SUBSET Sid, why \in Reason :
                 StartRevoking(v, S, why) /\ \A s \in S : Stored(s)
      BY <2>1, <2>3 DEF PasswordChanged
    <2>6. \A v \in Worker :
             AdminRevokeSelected(v) => \E S \in SUBSET Sid, why \in Reason :
                 StartRevoking(v, S, why) /\ \A s \in S : Stored(s)
      BY <2>2, <2>3 DEF AdminRevokeSelected
    <2>. QED  BY <2>4, <2>5, <2>6
  <1>9. [Next]_vars =>
           \/ UNCHANGED job
           \/ \E v \in Worker : Finish(v)
           \/ \E v \in Worker, u \in User : CreateSession(v, u)
           \/ \E v \in Worker : \/ \E a \in access : LogoutAll(v, a)
                                \/ \E u \in User : PasswordChanged(v, u)
                                \/ AdminRevokeSelected(v)
           \/ \E v \in Worker : RevokeNext(v) \/ PurgeList(v) \/ PurgeNext(v)
    BY DEF Next, vars, WorkerStep, IssuePair, Rotate, DetectReuse, Logout,
           RevokeOwn, AdminRevoke, AdminDelete, JobDone, Abort, Tick
  <1>. QED
    BY <1>1, <1>2, <1>3, <1>4, <1>5, <1>6, <1>7, <1>8, <1>9

(* The pair a step mints is for a written session: the one a login has     *)
(* just inserted (generation 0), or a live one whose row is being rotated. *)
LEMMA MintedForWritten ==
    ASSUME TypeOK, OnlyWritten, [Next]_vars
    PROVE  /\ \A t \in refresh' :
                 \/ t \in refresh
                 \/ /\ t.sid \in Sid /\ Written(t.sid) /\ t.exp = RefreshExp(t.sid)
                    /\ now' = now
           /\ \A a \in access' :
                 \/ a \in access
                 \/ /\ a.sid \in Sid /\ Written(a.sid) /\ a.exp = now + AccessTtl
                    /\ a.jti > 0 => Rotated(a.sid)
                    /\ now' = now
           /\ \A p \in spent' :
                 \/ p \in spent
                 \/ p.sid \in Sid /\ Rotated(p.sid) /\ p.jti = row[p.sid].jti
  <1>1. ASSUME NEW w \in Worker, IssuePair(w)
        PROVE  /\ \A t \in refresh' : t \in refresh \/
                     (t.sid \in Sid /\ Written(t.sid) /\ t.exp = RefreshExp(t.sid))
               /\ \A a \in access' : a \in access \/
                     (/\ a.sid \in Sid /\ Written(a.sid) /\ a.exp = now + AccessTtl
                      /\ a.jti = 0)
    <2>1. PICK s \in job[w].todo : Mint(s, 0)
      BY <1>1 DEF IssuePair
    <2>2. s \in Sid /\ Written(s)
      BY <1>1, StepSid DEF IssuePair, OnlyWritten
    <2>. QED  BY <2>1, <2>2, Minted
  <1>2. ASSUME NEW t \in refresh, Rotate(t)
        PROVE  t.sid \in Sid /\ Rotated(t.sid) /\ Written(t.sid)
    <2>1. t.sid \in Sid /\ row[t.sid] \in Row
      BY StepSid
    <2>. QED  BY <1>2, <2>1 DEF Rotate, Rotated, NextJti, TypeOK, Live, Stored, Written
  <1>3. ASSUME NEW t \in refresh, Rotate(t)
        PROVE  /\ \A r \in refresh' : r \in refresh \/ (r.sid = t.sid /\ r.exp = RefreshExp(t.sid))
               /\ \A a \in access' : a \in access \/
                     (a.sid = t.sid /\ a.exp = now + AccessTtl)
               /\ \A p \in spent' : p \in spent \/
                     (p.sid = t.sid /\ p.jti = row[t.sid].jti)
    <2>1. t.sid \in Sid /\ NextJti(t.sid) \in Nat
      BY StepSid DEF NextJti, Row
    <2>2. Mint(t.sid, NextJti(t.sid))
      BY <1>3 DEF Rotate
    <2>3. spent' = spent \cup {[sid |-> t.sid, jti |-> row[t.sid].jti]}
      BY <1>3 DEF Rotate, JtiIsCurrent
    <2>. QED  BY <2>1, <2>2, <2>3, Minted
  <1>4. \A w \in Worker : IssuePair(w) => UNCHANGED <<now, spent>>
    BY DEF IssuePair
  <1>5. \A t \in refresh : Rotate(t) => UNCHANGED now
    BY DEF Rotate
  <1>6. CASE UNCHANGED <<refresh, access, spent>>
    BY <1>6
  <1>7. ASSUME NEW w \in Worker, IssuePair(w)  PROVE
           /\ \A t \in refresh' :
                 \/ t \in refresh
                 \/ /\ t.sid \in Sid /\ Written(t.sid) /\ t.exp = RefreshExp(t.sid)
                    /\ now' = now
           /\ \A a \in access' :
                 \/ a \in access
                 \/ /\ a.sid \in Sid /\ Written(a.sid) /\ a.exp = now + AccessTtl
                    /\ a.jti > 0 => Rotated(a.sid)
                    /\ now' = now
           /\ spent' = spent
    BY <1>1, <1>4, <1>7
  <1>8. ASSUME NEW t \in refresh, Rotate(t)  PROVE
           /\ \A r \in refresh' :
                 \/ r \in refresh
                 \/ /\ r.sid \in Sid /\ Written(r.sid) /\ r.exp = RefreshExp(r.sid)
                    /\ now' = now
           /\ \A a \in access' :
                 \/ a \in access
                 \/ /\ a.sid \in Sid /\ Written(a.sid) /\ a.exp = now + AccessTtl
                    /\ Rotated(a.sid)
                    /\ now' = now
           /\ \A p \in spent' :
                 \/ p \in spent
                 \/ p.sid \in Sid /\ Rotated(p.sid) /\ p.jti = row[p.sid].jti
    BY <1>2, <1>3, <1>5, <1>8
  <1>. QED  BY <1>6, <1>7, <1>8, MintingSteps

LEMMA OnlyWrittenStep ==
    ASSUME TypeOK, OnlyWritten, [Next]_vars
    PROVE  OnlyWritten'
  <1>1. \A s \in Sid : Written(s) => Written(s)'
    BY Forward
  <1>2. \A t \in (refresh \cup access \cup spent)' : Written(t.sid)'
    <2>1. \A t \in refresh' : Written(t.sid)'
      BY <1>1, StepSid, MintedForWritten DEF OnlyWritten
    <2>2. \A t \in access' : Written(t.sid)'
      BY <1>1, StepSid, MintedForWritten DEF OnlyWritten
    <2>3. \A p \in spent' : Written(p.sid)'
      <3>1. \A s \in Sid : Rotated(s) => Written(s)
        BY DEF Rotated, Live, Stored, Written
      <3>. QED  BY <1>1, <3>1, StepSid, MintedForWritten DEF OnlyWritten
    <2>. QED  BY <2>1, <2>2, <2>3
  <1>3. \A s \in reused' : Written(s)'
    <2>1. \A s \in reused' : s \in reused \/ (s \in Sid /\ Stored(s))
      <3>1. ASSUME NEW t \in refresh, DetectReuse(t)
            PROVE  reused' = reused \cup {t.sid} /\ t.sid \in Sid /\ Stored(t.sid)
        BY <3>1, StepSid DEF DetectReuse, Live
      <3>2. [Next]_vars => UNCHANGED reused \/ \E t \in refresh : DetectReuse(t)
        BY DEF Next, vars, WorkerStep, CreateSession, PasswordChanged, Rotate,
           Logout, RevokeOwn, LogoutAll, AdminRevoke, AdminDelete, IssuePair,
           AdminRevokeSelected, StartRevoking, RevokeNext, PurgeList, PurgeNext,
           JobDone, Abort, Tick
      <3>. QED  BY <3>1, <3>2
    <2>2. reused \subseteq Sid
      BY DEF TypeOK
    <2>3. \A s \in reused : Written(s)
      BY DEF OnlyWritten
    <2>4. \A s \in Sid : Stored(s) => Written(s)
      BY DEF Stored, Written
    <2>. QED  BY <1>1, <2>1, <2>2, <2>3, <2>4
  <1>4. ASSUME NEW w \in Worker
        PROVE  /\ job'[w].op = "issue" => \A s \in job'[w].todo : Written(s)'
               /\ job'[w].op = "revoke_all" => \A s \in job'[w].listed : Written(s)'
    <2>1. /\ job[w].op = "issue" => \A s \in job[w].todo : Written(s)
          /\ job[w].op = "revoke_all" => \A s \in job[w].listed : Written(s)
          /\ job[w].todo \subseteq Sid /\ job[w].listed \subseteq Sid
      BY StepSid DEF OnlyWritten
    <2>2. Idle.op = "idle"
      BY DEF Idle
    <2>. QED  BY <1>1, <2>1, <2>2, JobStep
  <1>5. \A s \in Sid : ~Written(s)' => row'[s] = BlankRow
    BY Forward
  <1>. QED  BY <1>2, <1>3, <1>4, <1>5 DEF OnlyWritten, Written

LEMMA SpentBehindStep ==
    ASSUME TypeOK, OnlyWritten, SpentBehind, [Next]_vars
    PROVE  SpentBehind'
  <1>1. ASSUME NEW p \in spent'  PROVE p.jti < row'[p.sid].jti
    <2>1. CASE p \in spent
      <3>1. p.sid \in Sid /\ p.jti \in Nat /\ Written(p.sid) /\ p.jti < row[p.sid].jti
        BY <2>1, StepSid DEF OnlyWritten, SpentBehind
      <3>2. row[p.sid].jti \in Nat /\ row'[p.sid].jti \in Nat
        BY <3>1, StepSid, NextTypeOK DEF Row, TypeOK
      <3>3. row[p.sid].jti <= row'[p.sid].jti
        BY <3>1, Forward
      <3>. QED  BY <3>1, <3>2, <3>3
    <2>2. CASE p.sid \in Sid /\ Rotated(p.sid) /\ p.jti = row[p.sid].jti
      <3>1. row[p.sid] \in Row
        BY <2>2, StepSid
      <3>. QED  BY <2>2, <3>1 DEF Rotated, Row
    <2>. QED  BY <2>1, <2>2, MintedForWritten
  <1>. QED  BY <1>1 DEF SpentBehind

LEMMA AccessStep ==
    ASSUME TypeOK, OnlyWritten, AccessNear, AccessBounded, [Next]_vars
    PROVE  AccessNear' /\ AccessBounded'
  <1>. USE SessionsAssumption
  <1>1. ASSUME NEW a \in access', a.jti > 0
        PROVE  /\ a.exp <= now' + AccessTtl
               /\ Revoked(a.sid)' => a.exp <= row'[a.sid].revokedAt + AccessTtl
               /\ a.exp < row'[a.sid].expiresAt + AccessTtl
    <2>. DEFINE s == a.sid
    <2>0. now \in Nat /\ now' \in Nat /\ now <= now'
      BY ClockSteps
    <2>1. CASE a \in access
      <3>1. s \in Sid /\ Written(s) /\ a.exp \in Nat /\ row[s] \in Row
        BY <2>1, StepSid DEF OnlyWritten
      <3>2. /\ a.exp <= now + AccessTtl
            /\ Revoked(s) => a.exp <= row[s].revokedAt + AccessTtl
            /\ a.exp < row[s].expiresAt + AccessTtl
        BY <1>1, <2>1 DEF AccessNear, AccessBounded
      <3>3. /\ row'[s].expiresAt = row[s].expiresAt
            /\ Revoked(s) => row'[s].revokedAt = row[s].revokedAt
            /\ Revoked(s)' /\ ~Revoked(s) => row'[s].revokedAt = now
        BY <3>1, Forward
      <3>. QED  BY <2>0, <3>1, <3>2, <3>3
    <2>2. CASE s \in Sid /\ Rotated(s) /\ a.exp = now + AccessTtl /\ now' = now
      <3>1. row[s] \in Row /\ ~Revoked(s) /\ row[s].expiresAt > now
        BY <2>2, StepSid DEF Rotated, Live, NotExpired
      <3>2. row'[s].revokedAt = row[s].revokedAt /\ row'[s].expiresAt = row[s].expiresAt
        BY <2>2, <3>1 DEF Rotated, Row
      <3>. QED  BY <2>0, <2>2, <3>1, <3>2 DEF Revoked, Row
    <2>. QED  BY <1>1, <2>1, <2>2, MintedForWritten
  <1>. QED  BY <1>1 DEF AccessNear, AccessBounded, Revoked

LEMMA RefreshWithinStep ==
    ASSUME TypeOK, OnlyWritten, RefreshWithinSession, [Next]_vars
    PROVE  RefreshWithinSession'
  <1>1. ASSUME NEW t \in refresh', t.exp > now'
        PROVE  t.exp <= row'[t.sid].expiresAt
    <2>0. now \in Nat /\ now' \in Nat /\ now <= now'
      BY ClockSteps
    <2>1. CASE t \in refresh
      <3>1. t.sid \in Sid /\ Written(t.sid) /\ t.exp \in Nat
        BY <2>1, StepSid DEF OnlyWritten
      <3>2. t.exp > now
        BY <1>1, <2>0, <3>1
      <3>3. t.exp <= row[t.sid].expiresAt
        BY <2>1, <3>2 DEF RefreshWithinSession, Decodes
      <3>. QED  BY <3>1, <3>3, Forward
    <2>2. CASE t.sid \in Sid /\ Written(t.sid) /\ t.exp = RefreshExp(t.sid) /\ now' = now
      <3>1. row[t.sid] \in Row /\ row'[t.sid].expiresAt = row[t.sid].expiresAt
        BY <2>2, StepSid, Forward
      <3>2. row[t.sid].expiresAt \in Nat
        BY <3>1 DEF Row
      <3>. QED  BY <1>1, <2>0, <2>2, <3>1, <3>2 DEF RefreshExp
    <2>. QED  BY <2>1, <2>2, MintedForWritten
  <1>. QED  BY <1>1 DEF RefreshWithinSession, Decodes

LEMMA RevokeAllStep ==
    ASSUME TypeOK, OnlyWritten, RevokeAllComplete, [Next]_vars
    PROVE  RevokeAllComplete'
  <1>1. \A s \in Sid : Written(s) /\ Gone(s) => Gone(s)'
    BY Forward
  <1>2. ASSUME NEW w \in Worker, job'[w].op = "revoke_all",
               NEW s \in job'[w].listed \ job'[w].todo
        PROVE  Gone(s)'
    <2>1. Idle.op = "idle"
      BY DEF Idle
    <2>2. job[w].todo \subseteq Sid /\ job[w].listed \subseteq Sid
      BY StepSid
    <2>3. CASE job'[w] = job[w]
      BY <1>1, <1>2, <2>2, <2>3 DEF OnlyWritten, RevokeAllComplete, Gone
    <2>4. CASE /\ job[w].op = "revoke_all" /\ job'[w].listed = job[w].listed
               /\ \E r \in job[w].todo : /\ job'[w].todo = job[w].todo \ {r}
                                         /\ row' = AfterRevoke(r, job[w].reason)
      <3>1. PICK r \in job[w].todo : /\ job'[w].todo = job[w].todo \ {r}
                                    /\ row' = AfterRevoke(r, job[w].reason)
        BY <2>4
      <3>2. s \in Sid /\ r \in Sid /\ Written(s)
        BY <1>2, <2>2, <2>4 DEF OnlyWritten
      <3>3. CASE s # r
        BY <1>1, <1>2, <2>4, <3>1, <3>2, <3>3 DEF RevokeAllComplete, Gone
      <3>4. CASE s = r /\ Gone(r)
        BY <1>1, <3>2, <3>4
      <3>5. CASE s = r /\ ~Gone(r)
        <4>1. row'[r].revokedAt = now
          BY <3>1, <3>2, <3>5 DEF AfterRevoke, Gone, TypeOK, Row
        <4>2. now # Never
          BY ClockSteps DEF Never
        <4>. QED  BY <3>5, <4>1, <4>2 DEF Gone, Revoked
      <3>. QED  BY <3>3, <3>4, <3>5
    <2>. QED  BY <1>2, <2>1, <2>3, <2>4, JobStep
  <1>. QED  BY <1>2 DEF RevokeAllComplete, Gone, Stored, Revoked

LEMMA PurgeListedStep ==
    ASSUME TypeOK, OnlyWritten, PurgeListed, [Next]_vars
    PROVE  PurgeListed'
  <1>0. now \in Nat /\ now' \in Nat /\ now <= now'
    BY ClockSteps
  <1>1. ASSUME NEW s \in Sid, Written(s),
               row[s].expiresAt + SessionGrace < now
        PROVE  Written(s)' /\ row'[s].expiresAt + SessionGrace < now'
    <2>1. row[s].expiresAt \in Nat
      BY StepSid DEF Row
    <2>. QED  BY <1>0, <1>1, <2>1, Forward, SessionsAssumption
  <1>2. \A s \in Purgeable :
           s \in Sid /\ Written(s) /\ row[s].expiresAt + SessionGrace < now
    <2>1. \A s \in Sid : row[s].expiresAt \in Nat
      BY StepSid DEF Row
    <2>. QED  BY <1>0, <2>1, SessionsAssumption DEF Purgeable, Stored, Written
  <1>3. ASSUME NEW w \in Worker, job'[w].op = "purge", NEW s \in job'[w].todo
        PROVE  s \in Sid /\ Written(s) /\ row[s].expiresAt + SessionGrace < now
    <2>1. Idle.op = "idle" /\ job[w].todo \subseteq Sid
      BY StepSid DEF Idle
    <2>2. CASE job[w].op = "purge" /\ job'[w].todo \subseteq job[w].todo
      BY <1>3, <2>1, <2>2 DEF PurgeListed
    <2>3. CASE job'[w].todo = Purgeable
      BY <1>2, <1>3, <2>3
    <2>. QED  BY <1>3, <2>1, <2>2, <2>3, JobStep
  <1>. QED  BY <1>1, <1>3 DEF PurgeListed, Written

LEMMA NextIInv == IInv /\ [Next]_vars => IInv'
  BY NextTypeOK, OnlyWrittenStep, SpentBehindStep, AccessStep,
     RefreshWithinStep, RevokeAllStep, PurgeListedStep DEF IInv

(* Every state of the session store satisfies the inductive invariant: the *)
(* handlers keep rows, tokens, history and purge lists consistent.         *)
THEOREM InductiveInvariant == Spec => []IInv
  BY InitIInv, NextIInv, PTL DEF Spec

-----------------------------------------------------------------------------
(* The safety properties.                                                  *)

(* rotate_refresh never exchanges a refresh token twice: a spent jti lies  *)
(* behind the row's current one for ever.                                  *)
THEOREM NoDoubleSpendHolds == Spec => []NoDoubleSpend
  <1>1. IInv => NoDoubleSpend
    <2>. SUFFICES ASSUME IInv, NEW t \in refresh,
                         [sid |-> t.sid, jti |-> t.jti] \in spent
                  PROVE  ~Redeemable(t)
      BY DEF NoDoubleSpend
    <2>1. t.jti < row[t.sid].jti
      BY DEF IInv, SpentBehind
    <2>2. t.jti \in Nat /\ row[t.sid] \in Row
      BY StepSid DEF IInv
    <2>. QED  BY <2>1, <2>2 DEF Redeemable, Row
  <1>. QED  BY <1>1, InductiveInvariant, PTL

(* Access tokens of a rotation outlive neither the revocation nor the      *)
(* expiry of their session by more than one access lifetime.               *)
THEOREM AccessBoundedHolds == Spec => []AccessBounded
  <1>1. IInv => AccessBounded
    BY DEF IInv
  <1>. QED  BY <1>1, InductiveInvariant, PTL

(* No refresh token that decodes runs past the expires_at of its session.  *)
THEOREM RefreshWithinSessionHolds == Spec => []RefreshWithinSession
  <1>1. IInv => RefreshWithinSession
    BY DEF IInv
  <1>. QED  BY <1>1, InductiveInvariant, PTL

(* revoke_all_sessions leaves none of the sessions it has passed revocable *)
(* or redeemable, however it interleaves with other handlers.              *)
THEOREM RevokeAllCompleteHolds == Spec => []RevokeAllComplete
  <1>1. IInv => RevokeAllComplete
    BY DEF IInv
  <1>. QED  BY <1>1, InductiveInvariant, PTL

(* The time and the reason of a revocation never change again.             *)
THEOREM RevocationIsFinalHolds == Spec => RevocationIsFinal
  <1>1. IInv /\ [Next]_vars =>
          [\A s \in Sid : Revoked(s) => /\ row'[s].revokedAt = row[s].revokedAt
                                        /\ row'[s].reason = row[s].reason]_vars
    BY Forward DEF IInv
  <1>. QED  BY <1>1, InductiveInvariant, PTL DEF Spec, RevocationIsFinal

(* What a worker that revokes does next.                                   *)
LEMMA RevokedAfter ==
    ASSUME TypeOK, NEW r \in Sid, NEW why, row' = AfterRevoke(r, why)
    PROVE  ~Stored(r)' \/ Revoked(r)'
  <1>1. CASE Stored(r) /\ ~Revoked(r)
    <2>1. row'[r].revokedAt = now
      BY <1>1 DEF AfterRevoke, TypeOK, Row
    <2>2. now # Never
      BY SessionsAssumption DEF TypeOK, Never
    <2>. QED  BY <2>1, <2>2 DEF Revoked
  <1>2. CASE ~(Stored(r) /\ ~Revoked(r))
    BY <1>2 DEF AfterRevoke, Stored, Revoked
  <1>. QED  BY <1>1, <1>2

LEMMA RevokingMove ==
    ASSUME TypeOK, [Next]_vars, NEW w \in Worker,
           job[w].op = "revoke_all", job'[w] # job[w]
    PROVE  \/ Abort(w)
           \/ job[w].todo = {} /\ job'[w] = Idle
           \/ \E s \in job[w].todo : /\ job'[w] = [job[w] EXCEPT !.todo = @ \ {s}]
                                     /\ ~Stored(s)' \/ Revoked(s)'
  <1>0. job \in [Worker -> Job] /\ job[w] # Idle
    BY DEF TypeOK, Idle
  <1>1. ASSUME NEW v \in Worker, NEW j, job' = [job EXCEPT ![v] = j]
        PROVE  v = w /\ job'[w] = j
    BY <1>0, <1>1
  <1>2. \A v \in Worker : \A j : ~Start(v, j)
    BY <1>0, <1>1 DEF Start
  <1>3. \A v \in Worker : Finish(v) => v = w /\ job'[w] = Idle
    BY <1>1 DEF Finish
  <1>4. \A v \in Worker, u \in User : ~CreateSession(v, u) /\ ~PasswordChanged(v, u)
    BY <1>2 DEF CreateSession, PasswordChanged, StartRevoking
  <1>5. \A v \in Worker, a \in access : ~LogoutAll(v, a)
    BY <1>2 DEF LogoutAll, StartRevoking
  <1>6. \A v \in Worker : ~AdminRevokeSelected(v) /\ ~PurgeList(v)
    BY <1>2 DEF AdminRevokeSelected, StartRevoking, PurgeList
  <1>7. \A v \in Worker : ~IssuePair(v)
    BY <1>3 DEF IssuePair
  <1>8. \A v \in Worker : ~PurgeNext(v)
    BY <1>0 DEF PurgeNext
  <1>9. \A v \in Worker : JobDone(v) => job[w].todo = {} /\ job'[w] = Idle
    BY <1>3 DEF JobDone
  <1>10. \A v \in Worker : Abort(v) => v = w
    BY <1>3 DEF Abort
  <1>11. ASSUME NEW v \in Worker, RevokeNext(v)
         PROVE  \E s \in job[w].todo : /\ job'[w] = [job[w] EXCEPT !.todo = @ \ {s}]
                                       /\ ~Stored(s)' \/ Revoked(s)'
    <2>1. PICK s \in job[v].todo : /\ row' = AfterRevoke(s, job[v].reason)
                                   /\ job' = [job EXCEPT ![v].todo = job[v].todo \ {s}]
      BY <1>11 DEF RevokeNext, RevokedBy, LeftAfter
    <2>2. v = w /\ job'[w] = [job[w] EXCEPT !.todo = @ \ {s}]
      BY <1>0, <2>1
    <2>3. s \in Sid
      BY <2>1, StepSid
    <2>. QED  BY <2>1, <2>2, <2>3, RevokedAfter
  <1>12. \A t \in refresh : ~Rotate(t) /\ ~DetectReuse(t)
    BY DEF Rotate, DetectReuse
  <1>13. \A a \in access, s \in Sid : ~Logout(a) /\ ~RevokeOwn(a, s)
    BY DEF Logout, RevokeOwn
  <1>14. \A a \in access : ~Logout(a)
    BY DEF Logout
  <1>15. /\ \A s \in Sid : ~AdminRevoke(s) /\ ~AdminDelete(s)
         /\ ~Tick /\ ~UNCHANGED vars
    BY DEF AdminRevoke, AdminDelete, Tick, vars
  <1>. QED  BY <1>4, <1>5, <1>6, <1>7, <1>8, <1>9, <1>10, <1>11, <1>12, <1>13,
               <1>14, <1>15 DEF Next, WorkerStep

(* The list of a worker that revokes only gets shorter, by sessions that   *)
(* are revoked or gone, until nothing is on it or the worker dies: nothing *)
(* is skipped, and nothing is added (revoke_all_sessions).                 *)
THEOREM RevokingAdvancesHolds == Spec => RevokingAdvances
  <1>1. IInv /\ [Next]_vars =>
          [\A w \in Worker :
              (job[w].op = "revoke_all" /\ job'[w] # job[w]) =>
                  \/ Abort(w)
                  \/ job[w].todo = {} /\ job'[w] = Idle
                  \/ \E s \in job[w].todo :
                        /\ job'[w] = [job[w] EXCEPT !.todo = @ \ {s}]
                        /\ ~Stored(s)' \/ Revoked(s)']_vars
    BY RevokingMove DEF IInv
  <1>. QED  BY <1>1, InductiveInvariant, PTL DEF Spec, RevokingAdvances

(* The purge deletes, by primary key and without looking again, only       *)
(* sessions that expired more than the grace period ago.                   *)
THEOREM PurgeOnlyExpiredHolds == Spec => PurgeOnlyExpired
  <1>1. ASSUME IInv, NEW w \in Worker, NEW s \in Sid,
               PurgeNext(w), Stored(s), row'[s].state = "deleted"
        PROVE  row[s].expiresAt + SessionGrace < now
    <2>1. PICK r \in job[w].todo :
             \/ Stored(r) /\ row' = [row EXCEPT ![r].state = "deleted"]
             \/ row' = row
      BY <1>1 DEF PurgeNext
    <2>2. s = r
      BY <1>1, <2>1 DEF IInv, TypeOK, Stored
    <2>. QED  BY <1>1, <2>2 DEF PurgeNext, IInv, PurgeListed
  <1>2. IInv /\ [Next]_vars =>
          [\A w \in Worker, s \in Sid :
              (PurgeNext(w) /\ Stored(s) /\ row'[s].state = "deleted")
                 => row[s].expiresAt + SessionGrace < now]_vars
    BY <1>1
  <1>. QED  BY <1>2, InductiveInvariant, PTL DEF Spec, PurgeOnlyExpired

(* Reuse detection ends the session for good, provided no session_revoked  *)
(* receiver of the host raises.  (With one that does the property fails.)  *)
THEOREM ReuseEndsSessionHolds ==
    ASSUME ~FaultyReceivers
    PROVE  Spec => []ReuseEndsSession
  <1>1. Init => ReuseEndsSession
    BY DEF Init, ReuseEndsSession
  <1>2. IInv /\ ReuseEndsSession /\ [Next]_vars => ReuseEndsSession'
    <2>. SUFFICES ASSUME IInv, ReuseEndsSession, [Next]_vars,
                         NEW s \in reused'
                  PROVE  Gone(s)'
      BY DEF ReuseEndsSession, Gone, Stored, Revoked
    <2>1. CASE s \in reused
      <3>1. s \in Sid /\ Written(s) /\ Gone(s)
        BY <2>1 DEF IInv, TypeOK, OnlyWritten, ReuseEndsSession, Gone
      <3>. QED  BY <3>1, Forward DEF IInv
    <2>2. CASE s \notin reused
      <3>1. PICK t \in refresh : DetectReuse(t) /\ s = t.sid
        <4>1. [Next]_vars => UNCHANGED reused \/ \E t \in refresh : DetectReuse(t)
          BY DEF Next, vars, WorkerStep, CreateSession, PasswordChanged, Rotate,
             Logout, RevokeOwn, LogoutAll, AdminRevoke, AdminDelete, IssuePair,
             AdminRevokeSelected, StartRevoking, RevokeNext, PurgeList, PurgeNext,
             JobDone, Abort, Tick
        <4>2. \A t \in refresh : DetectReuse(t) => reused' = reused \cup {t.sid}
          BY DEF DetectReuse
        <4>. QED  BY <2>2, <4>1, <4>2
      <3>2. s \in Sid /\ row[s] \in Row /\ Stored(s) /\ ~Revoked(s)
        BY <3>1, StepSid DEF IInv, DetectReuse, Live
      <3>3. row' = AfterRevoke(s, "reuse_detected")
        BY <3>1 DEF DetectReuse, AfterReuse
      <3>4. row'[s].revokedAt = now
        BY <3>2, <3>3 DEF AfterRevoke, IInv, TypeOK, Row
      <3>5. now # Never
        BY ClockSteps DEF IInv, Never
      <3>. QED  BY <3>4, <3>5 DEF Gone, Revoked
    <2>. QED  BY <2>1, <2>2
  <1>. QED  BY <1>1, <1>2, InductiveInvariant, PTL DEF Spec

-----------------------------------------------------------------------------
(* Sessions implements TokenFamily.                                        *)

LEMMA FamilyInitStep == Init => Family!FamilyInit
  BY DEF Init, BlankRow, FamilyStatus, Family!FamilyInit

LEMMA OpenStep ==
    ASSUME IInv, NEW w \in Worker, NEW u \in User, CreateSession(w, u)
    PROVE  \E s \in Sid : Family!Open(s)
  <1>1. PICK s \in Sid, ttl \in SessionTtl :
           /\ row[s].state = "unused"
           /\ row' = [row EXCEPT ![s] =
                        [BlankRow EXCEPT !.state = "stored", !.user = u,
                                         !.expiresAt = now + ttl]]
           /\ UNCHANGED <<now, spent>>
    BY DEF CreateSession
  <1>2. row \in [Sid -> Row] /\ row[s] = BlankRow /\ now + ttl > now
    BY <1>1, SessionsAssumption DEF IInv, OnlyWritten, Written, TypeOK
  <1>3. row'[s] = [BlankRow EXCEPT !.state = "stored", !.user = u,
                                   !.expiresAt = now + ttl]
    BY <1>1, <1>2
  <1>4. FamilyStatus(s) = "unborn" /\ FamilyStatus(s)' = "live"
    BY <1>1, <1>2, <1>3 DEF FamilyStatus, Live, Stored, Revoked, NotExpired, BlankRow
  <1>5. \A r \in Sid : row'[r].jti = row[r].jti
    BY <1>1, <1>2, <1>3 DEF BlankRow
  <1>6. \A r \in Sid : r # s => FamilyStatus(r)' = FamilyStatus(r)
    BY <1>1, <1>2 DEF FamilyStatus, Live, Stored, Revoked, NotExpired
  <1>. QED  BY <1>1, <1>4, <1>5, <1>6 DEF Family!Open

LEMMA RedeemStep ==
    ASSUME IInv, NEW t \in refresh, Rotate(t)
    PROVE  \E s \in Sid : Family!Redeem(s)
  <1>1. t.sid \in Sid /\ row \in [Sid -> Row]
    BY StepSid DEF IInv, TypeOK
  <1>2. /\ Live(t.sid) /\ t.jti = row[t.sid].jti
        /\ row' = [row EXCEPT ![t.sid].jti = row[t.sid].jti + 1]
        /\ spent' = spent \cup {[sid |-> t.sid, jti |-> row[t.sid].jti]}
        /\ now' = now
    BY DEF Rotate, NextJti, JtiIsCurrent
  <1>3. \A r \in Sid : row'[r] = IF r = t.sid THEN [row[r] EXCEPT !.jti = row[r].jti + 1]
                                            ELSE row[r]
    BY <1>1, <1>2
  <1>4. \A r \in Sid : row'[r].jti = IF r = t.sid THEN row[r].jti + 1 ELSE row[r].jti
    BY <1>1, <1>3 DEF Row
  <1>5. \A r \in Sid : FamilyStatus(r)' = FamilyStatus(r)
    BY <1>1, <1>2, <1>3 DEF FamilyStatus, Live, Stored, Revoked, NotExpired, Row
  <1>6. FamilyStatus(t.sid) = "live"
    BY <1>2 DEF FamilyStatus, Live, Stored
  <1>. QED  BY <1>1, <1>2, <1>4, <1>5, <1>6 DEF Family!Redeem

LEMMA CloseStep ==
    ASSUME IInv, [Next]_vars,
           ~\E w \in Worker, u \in User : CreateSession(w, u),
           ~\E t \in refresh : Rotate(t)
    PROVE  \/ \E S \in SUBSET Sid : Family!Close(S)
           \/ UNCHANGED <<[s \in Sid |-> FamilyStatus(s)],
                         [s \in Sid |-> row[s].jti], spent>>
  <1>. DEFINE S == {s \in Sid : Live(s) /\ ~Live(s)'}
  <1>1. spent' = spent
    BY DEF Next, vars, WorkerStep, PasswordChanged, DetectReuse, IssuePair,
           Logout, RevokeOwn, LogoutAll, AdminRevoke, AdminDelete,
           AdminRevokeSelected, StartRevoking, RevokeNext, PurgeList, PurgeNext,
           JobDone, Abort, Tick
  <1>2. now \in Nat /\ now' \in Nat /\ now <= now'
    BY ClockSteps DEF IInv
  <1>3. ASSUME NEW s \in Sid
        PROVE  /\ row'[s].jti = row[s].jti
               /\ FamilyStatus(s)' = IF s \in S THEN "dead" ELSE FamilyStatus(s)
    <2>1. row[s] \in Row
      BY StepSid DEF IInv
    <2>2. row'[s] = row[s] \/ Ended(s) \/ Removed(s)
      BY QuietRowMove DEF IInv
    <2>3. CASE row'[s] = row[s]
      BY <1>2, <2>1, <2>3 DEF FamilyStatus, Live, Stored, Revoked, NotExpired, Row
    <2>4. CASE Ended(s)
      <3>1. PICK why \in Reason \cup {NoReason} :
               row'[s] = [row[s] EXCEPT !.revokedAt = now, !.reason = why]
        BY <2>4 DEF Ended
      <3>2. now # Never
        BY <1>2 DEF Never
      <3>3. row'[s].jti = row[s].jti /\ row'[s].state = "stored" /\ Revoked(s)'
        BY <2>1, <2>4, <3>1, <3>2 DEF Ended, Stored, Revoked, Row
      <3>. QED  BY <2>4, <3>3 DEF Ended, FamilyStatus, Live, Stored
    <2>5. CASE Removed(s)
      <3>1. row'[s].jti = row[s].jti /\ row'[s].state = "deleted"
        BY <2>1, <2>5 DEF Removed, Row
      <3>. QED  BY <2>5, <3>1 DEF Removed, FamilyStatus, Live, Stored
    <2>. QED  BY <2>2, <2>3, <2>4, <2>5
  <1>4. CASE S = {}
    BY <1>1, <1>3, <1>4
  <1>5. CASE S # {}
    <2>1. \A s \in S : FamilyStatus(s) = "live"
      BY DEF FamilyStatus, Live, Stored
    <2>2. S \in SUBSET Sid
      OBVIOUS
    <2>. QED  BY <1>1, <1>3, <1>5, <2>1, <2>2 DEF Family!Close
  <1>. QED  BY <1>4, <1>5

(* The AuthSession table with its handlers, workers and clock implements   *)
(* the token families: one redeemable generation per live session, no      *)
(* generation redeemed out of order, no session back from the dead.        *)
THEOREM ImplementsFamilyHolds == Spec => ImplementsFamily
  <1>1. IInv /\ [Next]_vars => [Family!FamilyNext]_Family!familyVars
    BY OpenStep, RedeemStep, CloseStep DEF Family!FamilyNext, Family!familyVars
  <1>. QED
    BY <1>1, FamilyInitStep, InductiveInvariant, PTL
       DEF Spec, ImplementsFamily, Family!FamilySpec

=============================================================================
