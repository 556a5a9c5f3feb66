--------------------------- MODULE PasswordProofs ---------------------------
(***************************************************************************)
(* Proofs about PasswordSessions, for any number of users, sessions and    *)
(* workers, and any number of password changes.                            *)
(***************************************************************************)
EXTENDS PasswordSessions, SessionsProofs

-----------------------------------------------------------------------------
(* Every step of the composition is a step of Sessions or leaves its       *)
(* variables alone.                                                        *)
LEMMA StepOfSessions ==
    ASSUME PTypeOK, Owned, StillToRevoke, [PNext]_allVars
    PROVE  [Next]_vars
  <1>1. ASSUME NEW w \in Worker, NEW u \in User, Authenticate(w, u) \/ LoadForReset(w, u)
        PROVE  UNCHANGED vars
    BY <1>1 DEF Authenticate, LoadForReset
  <1>2. ASSUME NEW w \in Worker, NEW a \in access, LoadForChange(w, a)
        PROVE  UNCHANGED vars
    BY <1>2 DEF LoadForChange
  <1>3. ASSUME NEW w \in Worker, Refuse(w) \/ SavePassword(w)  PROVE UNCHANGED vars
    BY <1>3 DEF Refuse, SavePassword
  <1>4. ASSUME NEW w \in Worker, OpenSession(w)  PROVE Next
    <2>1. flow[w].user \in User /\ CreateSession(w, flow[w].user)
      BY <1>4 DEF OpenSession, Owned
    <2>. QED  BY <2>1 DEF Next
  <1>5. ASSUME NEW w \in Worker, RevokeSessions(w)  PROVE Next
    <2>1. flow[w].user \in User /\ PasswordChanged(w, flow[w].user)
      BY <1>5 DEF RevokeSessions, Owned
    <2>. QED  BY <2>1 DEF Next
  <1>6. ASSUME NEW w \in Worker, Announce(w)  PROVE Next
    <2>1. JobDone(w)
      BY <1>6 DEF Announce, AllRevoked, JobDone, StillToRevoke
    <2>. QED  BY <2>1 DEF Next, WorkerStep
  <1>7. ASSUME NEW w \in Worker, Die(w)  PROVE [Next]_vars
    BY <1>7 DEF Die, Next
  <1>8. CASE SessionStep
    BY <1>8 DEF SessionStep, Next, WorkerStep
  <1>9. CASE UNCHANGED allVars
    BY <1>9 DEF allVars
  <1>. QED
    BY <1>1, <1>2, <1>3, <1>4, <1>5, <1>6, <1>7, <1>8, <1>9 DEF PNext, FlowStep

LEMMA PInitPIInv == PInit => PIInv
  <1>. SUFFICES ASSUME PInit  PROVE PIInv
    OBVIOUS
  <1>1. IInv /\ TypeOK
    BY InitIInv DEF PInit, IInv
  <1>2. NoFlow \in Flow
    BY DEF NoFlow, Flow
  <1>3. PTypeOK
    BY <1>1, <1>2, PasswordAssumption DEF PInit, PTypeOK
  <1>4. \A s \in Sid : ~Written(s) /\ ~Live(s)
    BY DEF PInit, Init, BlankRow, Written, Live, Stored
  <1>. QED
    BY <1>1, <1>3, <1>4 DEF PInit, PIInv, Owned, GenerationsBehind, StillToRevoke,
       OlderSessionsDead, NoFlow

-----------------------------------------------------------------------------
(* What a flow does to one worker's view.                                  *)
LEMMA NextPTypeOK ==
    ASSUME PTypeOK, IInv, Owned, GenerationsBehind, StillToRevoke, [PNext]_allVars
    PROVE  PTypeOK'
  <1>1. TypeOK'
    BY StepOfSessions, NextTypeOK DEF IInv
  <1>2. ASSUME NEW w \in Worker, NEW at \in {"login", "change", "reset", "saved", "revoking"},
               NEW u \in User, NEW g \in Nat, Enter(w, at, u, g)
        PROVE  flow' \in [Worker -> Flow]
    <2>1. [at |-> at, user |-> u, gen |-> g] \in Flow
      BY DEF Flow
    <2>. QED  BY <1>2, <2>1 DEF Enter, PTypeOK
  <1>3. ASSUME NEW w \in Worker, Leave(w)  PROVE flow' \in [Worker -> Flow]
    <2>1. NoFlow \in Flow
      BY DEF NoFlow, Flow
    <2>. QED  BY <1>3, <2>1 DEF Leave, PTypeOK
  <1>4. \A u \in User : pwd[u] \in 0..MaxChange /\ pwd[u] \in Nat
    BY PasswordAssumption DEF PTypeOK
  <1>5. ASSUME NEW w \in Worker, NEW u \in User, Authenticate(w, u) \/ LoadForReset(w, u)
        PROVE  PTypeOK'
    <2>1. flow' \in [Worker -> Flow]
      BY <1>2, <1>4, <1>5 DEF Authenticate, LoadForReset
    <2>. QED  BY <1>1, <1>5, <2>1 DEF Authenticate, LoadForReset, PTypeOK
  <1>6. ASSUME NEW w \in Worker, NEW a \in access, LoadForChange(w, a)  PROVE PTypeOK'
    <2>1. a.sid \in Sid /\ row[a.sid].user \in User
      BY StepSid DEF Owned, IInv, OnlyWritten
    <2>2. flow' \in [Worker -> Flow]
      BY <1>2, <1>4, <1>6, <2>1 DEF LoadForChange
    <2>. QED  BY <1>1, <1>6, <2>2 DEF LoadForChange, PTypeOK
  <1>7. ASSUME NEW w \in Worker, Refuse(w) \/ Die(w)  PROVE PTypeOK'
    BY <1>1, <1>3, <1>7 DEF Refuse, Die, PTypeOK
  <1>8. ASSUME NEW w \in Worker, OpenSession(w)  PROVE PTypeOK'
    <2>1. flow[w].user \in User
      BY <1>8 DEF OpenSession, Owned
    <2>2. opened' \in [Sid -> Nat]
      BY <1>4, <1>8, <2>1 DEF OpenSession, PTypeOK
    <2>. QED  BY <1>1, <1>3, <1>8, <2>2 DEF OpenSession, PTypeOK
  <1>9. ASSUME NEW w \in Worker, SavePassword(w)  PROVE PTypeOK'
    <2>1. flow[w].user \in User /\ pwd[flow[w].user] + 1 \in 0..MaxChange
      BY <1>4, <1>9, PasswordAssumption DEF SavePassword, Owned
    <2>2. pwd' \in [User -> 0..MaxChange]
      BY <1>9, <2>1 DEF SavePassword, PTypeOK
    <2>3. flow' \in [Worker -> Flow]
      BY <1>2, <1>9, <2>1, PasswordAssumption DEF SavePassword
    <2>. QED  BY <1>1, <1>9, <2>2, <2>3 DEF SavePassword, PTypeOK
  <1>10. ASSUME NEW w \in Worker, RevokeSessions(w)  PROVE PTypeOK'
    <2>1. flow[w].user \in User /\ flow[w].gen \in Nat
      BY <1>10 DEF RevokeSessions, Owned, PTypeOK, Flow
    <2>2. flow' \in [Worker -> Flow]
      BY <1>2, <1>10, <2>1 DEF RevokeSessions
    <2>. QED  BY <1>1, <1>10, <2>2 DEF RevokeSessions, PTypeOK
  <1>11. ASSUME NEW w \in Worker, Announce(w)  PROVE PTypeOK'
    <2>1. flow[w].user \in User /\ flow[w].gen \in Nat /\ flow[w].gen <= pwd[flow[w].user]
      BY <1>11 DEF Announce, AllRevoked, Owned, GenerationsBehind, PTypeOK, Flow
    <2>2. flow[w].gen \in 0..MaxChange
      BY <1>4, <2>1, PasswordAssumption
    <2>3. announced' \in [User -> 0..MaxChange]
      BY <1>11, <2>1, <2>2 DEF Announce, PTypeOK
    <2>. QED  BY <1>1, <1>3, <1>11, <2>3 DEF Announce, PTypeOK
  <1>12. CASE SessionStep
    BY <1>1, <1>12 DEF SessionStep, pvars, PTypeOK
  <1>13. CASE UNCHANGED allVars
    BY <1>1, <1>13 DEF allVars, pvars, PTypeOK
  <1>. QED
    BY <1>5, <1>6, <1>7, <1>8, <1>9, <1>10, <1>11, <1>12, <1>13 DEF PNext, FlowStep

-----------------------------------------------------------------------------
(* What a step does to a row and its history: only OpenSession writes a    *)
(* new one, stamped with the password of the moment.                       *)
LEMMA RowOwner ==
    ASSUME PTypeOK, IInv, Owned, StillToRevoke, [PNext]_allVars, NEW s \in Sid
    PROVE  /\ Written(s) => Written(s)' /\ row'[s].user = row[s].user
           /\ Live(s)' => Live(s) \/ ~Written(s)
  <1>0. TypeOK /\ OnlyWritten /\ [Next]_vars
    BY StepOfSessions DEF IInv
  <1>1. RowMove(s)
    BY <1>0, EveryRowMove
  <1>2. row[s] \in Row /\ now' >= now /\ now \in Nat /\ now' \in Nat
    BY <1>0, ClockSteps DEF TypeOK
  <1>3. CASE row'[s] = row[s]
    BY <1>2, <1>3 DEF Written, Live, Stored, Revoked, NotExpired, Row
  <1>4. CASE Created(s)
    BY <1>4 DEF Created
  <1>5. CASE Rotated(s)
    BY <1>2, <1>5 DEF Rotated, Live, Written, Stored, Row
  <1>6. CASE Ended(s)
    <2>1. PICK why \in Reason \cup {NoReason} :
             row'[s] = [row[s] EXCEPT !.revokedAt = now, !.reason = why]
      BY <1>6 DEF Ended
    <2>2. row'[s].revokedAt # Never /\ row'[s].user = row[s].user
          /\ row'[s].state = row[s].state
      BY <1>2, <2>1 DEF Row, Never
    <2>. QED  BY <2>2 DEF Live, Revoked, Written
  <1>7. CASE Removed(s)
    BY <1>2, <1>7 DEF Removed, Live, Written, Stored, Row
  <1>. QED  BY <1>1, <1>3, <1>4, <1>5, <1>6, <1>7 DEF RowMove

LEMMA OnlyOpenWrites ==
    ASSUME PTypeOK, IInv, [PNext]_allVars, ~\E w \in Worker : OpenSession(w)
    PROVE  opened' = opened /\ \A s \in Sid : ~Written(s) => row'[s] = row[s]
  <1>0. TypeOK /\ OnlyWritten
    BY DEF IInv
  <1>1. ASSUME NEW s \in Sid, NEW r \in Sid, NEW why, row' = AfterRevoke(r, why),
               ~Written(s)
        PROVE  row'[s] = row[s]
    BY <1>0, <1>1 DEF AfterRevoke, Written, Stored, TypeOK
  <1>2. CASE SessionStep
    <2>. SUFFICES ASSUME NEW s \in Sid, ~Written(s)  PROVE row'[s] = row[s]
      BY <1>2 DEF SessionStep, pvars
    <2>1. ASSUME NEW w \in Worker, RevokeNext(w)  PROVE row'[s] = row[s]
      <3>1. PICK r \in job[w].todo : row' = AfterRevoke(r, job[w].reason)
        BY <2>1 DEF RevokeNext, RevokedBy
      <3>2. r \in Sid
        BY <1>0, StepSid
      <3>. QED  BY <1>1, <3>1, <3>2
    <2>2. ASSUME NEW t \in refresh, Rotate(t) \/ DetectReuse(t)  PROVE row'[s] = row[s]
      <3>1. t.sid \in Sid
        BY <1>0, StepSid
      <3>2. CASE Rotate(t)
        BY <1>0, <3>1, <3>2 DEF Rotate, Live, Stored, Written, TypeOK
      <3>3. CASE DetectReuse(t)
        BY <1>1, <3>1, <3>3 DEF DetectReuse, AfterReuse
      <3>. QED  BY <2>2, <3>2, <3>3
    <2>3. ASSUME NEW a \in access, Logout(a)  PROVE row'[s] = row[s]
      <3>1. a.sid \in Sid
        BY <1>0, StepSid
      <3>. QED  BY <1>1, <2>3, <3>1 DEF Logout
    <2>. QED
      BY <1>2, <2>1, <2>2, <2>3 DEF SessionStep, IssuePair, JobDone, LogoutAll,
         StartRevoking, Tick
  <1>3. ASSUME NEW w \in Worker,
               Refuse(w) \/ Die(w) \/ FlowStep(w)
               \/ (\E u \in User : Authenticate(w, u) \/ LoadForReset(w, u))
               \/ (\E a \in access : LoadForChange(w, a))
        PROVE  opened' = opened /\ row' = row
    BY <1>3 DEF Refuse, Die, FlowStep, SavePassword, RevokeSessions, Announce,
       Authenticate, LoadForReset, LoadForChange, PasswordChanged, StartRevoking,
       Abort, vars
  <1>4. CASE UNCHANGED allVars
    BY <1>4 DEF allVars, vars, pvars
  <1>. QED  BY <1>2, <1>3, <1>4 DEF PNext

LEMMA OpenedRow ==
    ASSUME PTypeOK, NEW w \in Worker, OpenSession(w), NEW s \in Sid
    PROVE  /\ Written(s) => opened'[s] = opened[s]
           /\ ~Written(s) => \/ row'[s] = row[s]
                             \/ /\ row'[s].user = flow[w].user
                                /\ opened'[s] = pwd[flow[w].user]
           /\ UNCHANGED <<pwd, announced, now>>
           /\ flow' = [flow EXCEPT ![w] = NoFlow]
  <1>1. PICK r \in Sid, ttl \in SessionTtl :
             /\ row[r].state = "unused"
             /\ row' = [row EXCEPT ![r] =
                          [BlankRow EXCEPT !.state = "stored", !.user = flow[w].user,
                                           !.expiresAt = now + ttl]]
    BY DEF OpenSession, CreateSession
  <1>2. opened' = [x \in Sid |-> IF row[x].state = "unused" /\ row'[x].state = "stored"
                                 THEN pwd[flow[w].user] ELSE opened[x]]
    BY DEF OpenSession
  <1>3. UNCHANGED <<pwd, announced, now>> /\ flow' = [flow EXCEPT ![w] = NoFlow]
    BY DEF OpenSession, CreateSession, Leave
  <1>4. CASE s = r
    BY <1>1, <1>2, <1>3, <1>4 DEF BlankRow, PTypeOK, TypeOK, Written
  <1>5. CASE s # r
    BY <1>1, <1>2, <1>3, <1>5 DEF PTypeOK, TypeOK, Written
  <1>. QED  BY <1>4, <1>5

-----------------------------------------------------------------------------
(* How one worker's view moves: it enters, goes on, leaves, or stays.      *)
Stays(v) == flow'[v] = flow[v]
Leaves(v) == flow'[v] = NoFlow
Enters(v) == /\ flow'[v].at \in {"login", "change", "reset"}
             /\ flow'[v].user \in User
Saves(v) == /\ SavePassword(v)
            /\ flow'[v] = [at |-> "saved", user |-> flow[v].user,
                           gen |-> pwd[flow[v].user] + 1]
Revokes(v) == /\ RevokeSessions(v)
              /\ flow'[v] = [at |-> "revoking", user |-> flow[v].user,
                             gen |-> flow[v].gen]

LEMMA FlowMove ==
    ASSUME PTypeOK, IInv, Owned, [PNext]_allVars, NEW v \in Worker
    PROVE  Stays(v) \/ Leaves(v) \/ Enters(v) \/ Saves(v) \/ Revokes(v)
  <1>0. flow \in [Worker -> Flow]
    BY DEF PTypeOK
  <1>1. ASSUME NEW w \in Worker, v # w, NEW f, flow' = [flow EXCEPT ![w] = f]
        PROVE  Stays(v)
    BY <1>0, <1>1 DEF Stays
  <1>2. ASSUME NEW w \in Worker, Leave(w)  PROVE Stays(v) \/ Leaves(v)
    BY <1>0, <1>2 DEF Leave, Stays, Leaves
  <1>3. ASSUME NEW w \in Worker, NEW at \in {"login", "change", "reset"}, NEW u \in User,
               NEW g, Enter(w, at, u, g)
        PROVE  Stays(v) \/ Enters(v)
    BY <1>0, <1>3 DEF Enter, Stays, Enters
  <1>4. ASSUME NEW w \in Worker, NEW u \in User, Authenticate(w, u) \/ LoadForReset(w, u)
        PROVE  Stays(v) \/ Enters(v)
    <2>1. Enter(w, "login", u, pwd[u]) \/ Enter(w, "reset", u, pwd[u])
      BY <1>4 DEF Authenticate, LoadForReset
    <2>. QED  BY <1>3, <2>1, Zenon
  <1>5. ASSUME NEW w \in Worker, NEW a \in access, LoadForChange(w, a)
        PROVE  Stays(v) \/ Enters(v)
    <2>1. row[a.sid].user \in User
      BY StepSid DEF Owned, IInv, OnlyWritten
    <2>2. Enter(w, "change", row[a.sid].user, pwd[row[a.sid].user])
      BY <1>5 DEF LoadForChange
    <2>. QED  BY <1>3, <2>1, <2>2, Zenon
  <1>6. ASSUME NEW w \in Worker, OpenSession(w) \/ Refuse(w) \/ Die(w) \/ Announce(w)
        PROVE  Stays(v) \/ Leaves(v)
    BY <1>2, <1>6 DEF OpenSession, Refuse, Die, Announce
  <1>7. ASSUME NEW w \in Worker, SavePassword(w)  PROVE Stays(v) \/ Saves(v)
    <2>1. flow' = [flow EXCEPT ![w] = [at |-> "saved", user |-> flow[w].user,
                                       gen |-> pwd[flow[w].user] + 1]]
      BY <1>7 DEF SavePassword, Enter
    <2>. QED  BY <1>0, <1>1, <1>7, <2>1 DEF Saves
  <1>8. ASSUME NEW w \in Worker, RevokeSessions(w)  PROVE Stays(v) \/ Revokes(v)
    <2>1. flow' = [flow EXCEPT ![w] = [at |-> "revoking", user |-> flow[w].user,
                                       gen |-> flow[w].gen]]
      BY <1>8 DEF RevokeSessions, Enter
    <2>. QED  BY <1>0, <1>1, <1>8, <2>1 DEF Revokes
  <1>9. CASE SessionStep \/ UNCHANGED allVars
    BY <1>9 DEF SessionStep, allVars, pvars, Stays
  <1>. QED  BY <1>4, <1>5, <1>6, <1>7, <1>8, <1>9 DEF PNext, FlowStep

(* A view that has saved its password keeps its user and that password.    *)
LEMMA ViewKept ==
    ASSUME PTypeOK, Owned, NEW v \in Worker, Stays(v) \/ Revokes(v),
           flow'[v].at \in {"saved", "revoking"}
    PROVE  /\ flow[v].at \in {"saved", "revoking"} /\ flow[v].user \in User
           /\ flow'[v].user = flow[v].user /\ flow'[v].gen = flow[v].gen
           /\ flow[v].gen \in Nat
  <1>1. flow[v].at \in {"saved", "revoking"}
    BY DEF Stays, Revokes, RevokeSessions
  <1>2. flow'[v].user = flow[v].user /\ flow'[v].gen = flow[v].gen
    BY DEF Stays, Revokes
  <1>. QED  BY <1>1, <1>2 DEF Owned, PTypeOK, Flow

LEMMA NextOwned ==
    ASSUME PTypeOK, IInv, Owned, StillToRevoke, [PNext]_allVars
    PROVE  Owned'
  <1>1. ASSUME NEW s \in Sid, Written(s)'  PROVE row'[s].user \in User
    <2>1. CASE Written(s)
      BY <1>1, <2>1, RowOwner DEF Owned
    <2>2. CASE ~Written(s)
      <3>1. PICK w \in Worker : OpenSession(w)
        BY <1>1, <2>2, OnlyOpenWrites DEF Written
      <3>2. flow[w].user \in User
        BY <3>1 DEF OpenSession, Owned
      <3>. QED  BY <1>1, <2>2, <3>1, <3>2, OpenedRow DEF Written
    <2>. QED  BY <2>1, <2>2
  <1>2. ASSUME NEW v \in Worker, flow'[v].at # "none"  PROVE flow'[v].user \in User
    <2>1. CASE Stays(v) \/ Leaves(v) \/ Enters(v)
      BY <1>2, <2>1 DEF Stays, Leaves, Enters, NoFlow, Owned
    <2>2. CASE Saves(v) \/ Revokes(v)
      <3>1. flow[v].at # "none" /\ flow'[v].user = flow[v].user
        BY <2>2 DEF Saves, Revokes, SavePassword, RevokeSessions
      <3>. QED  BY <3>1 DEF Owned
    <2>. QED  BY <2>1, <2>2, FlowMove
  <1>. QED  BY <1>1, <1>2 DEF Owned

LEMMA PasswordMove ==
    ASSUME PTypeOK, IInv, Owned, GenerationsBehind, StillToRevoke, [PNext]_allVars,
           NEW u \in User
    PROVE  /\ pwd[u] <= pwd'[u]
           /\ announced'[u] <= pwd'[u]
  <1>0. /\ pwd[u] \in Nat /\ announced[u] \in Nat /\ announced[u] <= pwd[u]
        /\ MaxChange \in Nat
    BY PasswordAssumption DEF PTypeOK, GenerationsBehind
  <1>1. ASSUME NEW w \in Worker, SavePassword(w)
        PROVE  pwd'[u] \in {pwd[u], pwd[u] + 1} /\ announced' = announced
    BY <1>1 DEF SavePassword, PTypeOK
  <1>2. ASSUME NEW w \in Worker, Announce(w)
        PROVE  pwd' = pwd /\ announced'[u] <= pwd[u]
    <2>1. /\ flow[w].user \in User /\ flow[w].gen <= pwd[flow[w].user]
          /\ announced' = [announced EXCEPT ![flow[w].user] =
                              IF @ < flow[w].gen THEN flow[w].gen ELSE @]
      BY <1>2 DEF Announce, AllRevoked, Owned, GenerationsBehind
    <2>. QED  BY <1>0, <1>2, <2>1 DEF Announce, PTypeOK
  <1>3. CASE UNCHANGED <<pwd, announced>>
    BY <1>0, <1>3
  <1>4. CASE SessionStep \/ UNCHANGED allVars
    BY <1>3, <1>4 DEF SessionStep, allVars, pvars
  <1>5. ASSUME NEW w \in Worker, OpenSession(w) \/ Refuse(w) \/ Die(w) \/ RevokeSessions(w)
        PROVE  UNCHANGED <<pwd, announced>>
    BY <1>5 DEF OpenSession, Refuse, Die, RevokeSessions
  <1>6. ASSUME NEW w \in Worker,
               \/ \E x \in User : Authenticate(w, x) \/ LoadForReset(w, x)
               \/ \E a \in access : LoadForChange(w, a)
        PROVE  UNCHANGED <<pwd, announced>>
    BY <1>6 DEF Authenticate, LoadForReset, LoadForChange
  <1>. QED
    BY <1>0, <1>1, <1>2, <1>3, <1>4, <1>5, <1>6 DEF PNext, FlowStep

LEMMA NextGenerationsBehind ==
    ASSUME PTypeOK, IInv, Owned, GenerationsBehind, StillToRevoke, [PNext]_allVars
    PROVE  GenerationsBehind'
  <1>1. ASSUME NEW v \in Worker, flow'[v].at \in {"saved", "revoking"}
        PROVE  flow'[v].gen <= pwd'[flow'[v].user]
    <2>0. PTypeOK'
      BY NextPTypeOK
    <2>1. CASE Stays(v) \/ Revokes(v)
      <3>1. /\ flow[v].at \in {"saved", "revoking"} /\ flow[v].user \in User
            /\ flow'[v].user = flow[v].user /\ flow'[v].gen = flow[v].gen
            /\ flow[v].gen \in Nat
        BY <1>1, <2>1, ViewKept
      <3>2. /\ pwd[flow[v].user] <= pwd'[flow[v].user]
            /\ flow[v].gen <= pwd[flow[v].user]
        BY <3>1, PasswordMove DEF GenerationsBehind
      <3>3. pwd[flow[v].user] \in Nat /\ pwd'[flow[v].user] \in Nat
        BY <2>0, <3>1, PasswordAssumption DEF PTypeOK
      <3>. QED  BY <3>1, <3>2, <3>3
    <2>2. CASE Saves(v)
      <3>1. flow[v].user \in User
        BY <2>2 DEF Saves, SavePassword, Owned
      <3>2. pwd'[flow[v].user] = pwd[flow[v].user] + 1 /\ pwd[flow[v].user] \in Nat
        BY <2>2, <3>1, PasswordAssumption DEF Saves, SavePassword, PTypeOK
      <3>. QED  BY <2>2, <3>2 DEF Saves
    <2>3. CASE Leaves(v) \/ Enters(v)
      BY <1>1, <2>3 DEF Leaves, Enters, NoFlow
    <2>. QED  BY <2>1, <2>2, <2>3, FlowMove
  <1>. QED  BY <1>1, PasswordMove DEF GenerationsBehind

-----------------------------------------------------------------------------
(* The job of a view that is revoking only ever loses a session it has     *)
(* just revoked.                                                           *)
Passed(v) == \E r \in job[v].todo : /\ row' = AfterRevoke(r, job[v].reason)
                                     /\ job'[v] = [job[v] EXCEPT !.todo = job[v].todo \ {r}]

LEMMA JobKept ==
    ASSUME PTypeOK, IInv, StillToRevoke, [PNext]_allVars, NEW v \in Worker,
           flow[v].at = "revoking", flow'[v] = flow[v]
    PROVE  job'[v] = job[v] \/ Passed(v)
  <1>0. /\ job \in [Worker -> Job] /\ flow \in [Worker -> Flow]
        /\ job[v].op = "revoke_all" /\ job[v] # Idle /\ flow[v] # NoFlow
    BY DEF PTypeOK, TypeOK, StillToRevoke, Idle, NoFlow
  <1>1. ASSUME NEW w \in Worker, w # v, NEW j, job' = [job EXCEPT ![w] = j]
        PROVE  job'[v] = job[v]
    BY <1>0, <1>1
  <1>2. ASSUME NEW w \in Worker, NEW j, Start(w, j)  PROVE job'[v] = job[v]
    BY <1>0, <1>1, <1>2 DEF Start
  <1>3. ASSUME NEW w \in Worker, w # v, Finish(w)  PROVE job'[v] = job[v]
    BY <1>1, <1>3 DEF Finish
  <1>4. ASSUME NEW w \in Worker, Leave(w)  PROVE w # v
    BY <1>0, <1>4 DEF Leave
  <1>5. ASSUME NEW w \in Worker, OpenSession(w) \/ RevokeSessions(w)
        PROVE  job'[v] = job[v]
    BY <1>2, <1>5 DEF OpenSession, CreateSession, RevokeSessions, PasswordChanged,
       StartRevoking
  <1>6. ASSUME NEW w \in Worker, Die(w) \/ Announce(w)  PROVE job'[v] = job[v]
    BY <1>3, <1>4, <1>6 DEF Die, Abort, Announce, vars
  <1>7. ASSUME NEW w \in Worker, Refuse(w) \/ SavePassword(w)  PROVE job' = job
    BY <1>7 DEF Refuse, SavePassword, vars
  <1>8. ASSUME NEW w \in Worker,
               \/ \E x \in User : Authenticate(w, x) \/ LoadForReset(w, x)
               \/ \E a \in access : LoadForChange(w, a)
        PROVE  job' = job
    BY <1>8 DEF Authenticate, LoadForReset, LoadForChange, vars
  <1>9. ASSUME NEW w \in Worker, RevokeNext(w)  PROVE job'[v] = job[v] \/ Passed(v)
    BY <1>0, <1>9 DEF RevokeNext, RevokedBy, LeftAfter, Passed
  <1>10. ASSUME NEW w \in Worker, IssuePair(w)  PROVE job'[v] = job[v]
    BY <1>0, <1>3, <1>10 DEF IssuePair
  <1>11. ASSUME NEW w \in Worker, flow[w] = NoFlow,
                JobDone(w) \/ \E a \in access : LogoutAll(w, a)
         PROVE  job'[v] = job[v]
    <2>1. w # v
      BY <1>0, <1>11
    <2>. QED  BY <1>2, <1>3, <1>11, <2>1 DEF JobDone, LogoutAll, StartRevoking
  <1>12. CASE SessionStep
    BY <1>9, <1>10, <1>11, <1>12 DEF SessionStep, Rotate, DetectReuse, Logout, Tick
  <1>13. CASE UNCHANGED allVars
    BY <1>13 DEF allVars, vars
  <1>. QED  BY <1>5, <1>6, <1>7, <1>8, <1>12, <1>13 DEF PNext, FlowStep

(* A session that is live after a step was live before it, with the same   *)
(* owner and the same history, or has just been opened under the password  *)
(* of the moment.                                                          *)
LEMMA LiveAfter ==
    ASSUME PTypeOK, IInv, Owned, StillToRevoke, [PNext]_allVars, NEW s \in Sid, Live(s)'
    PROVE  \/ /\ Live(s) /\ row'[s].user = row[s].user /\ opened'[s] = opened[s]
           \/ \E w \in Worker : /\ OpenSession(w)
                                 /\ row'[s].user = flow[w].user
                                 /\ opened'[s] = pwd[flow[w].user]
  <1>1. CASE Written(s)
    <2>1. Live(s) /\ row'[s].user = row[s].user
      BY <1>1, RowOwner
    <2>2. opened'[s] = opened[s]
      BY <1>1, OnlyOpenWrites, OpenedRow
    <2>. QED  BY <2>1, <2>2
  <1>2. CASE ~Written(s)
    <2>1. row'[s] # row[s]
      BY <1>2 DEF Live, Stored, Written
    <2>2. PICK w \in Worker : OpenSession(w)
      BY <1>2, <2>1, OnlyOpenWrites
    <2>. QED  BY <1>2, <2>1, <2>2, OpenedRow
  <1>. QED  BY <1>1, <1>2

LEMMA NextStillToRevoke ==
    ASSUME PTypeOK, IInv, Owned, GenerationsBehind, StillToRevoke, [PNext]_allVars
    PROVE  StillToRevoke'
  <1>. SUFFICES ASSUME NEW v \in Worker, flow'[v].at = "revoking"
                PROVE  /\ job'[v].op = "revoke_all"
                       /\ \A s \in Sid :
                             ( /\ Live(s)' /\ row'[s].user = flow'[v].user
                               /\ opened'[s] < flow'[v].gen ) => s \in job'[v].todo
    BY DEF StillToRevoke
  <1>1. CASE Revokes(v)
    <2>1. /\ job'[v].op = "revoke_all" /\ job'[v].todo = Revocable(flow[v].user)
          /\ UNCHANGED <<row, now>> /\ flow'[v].user = flow[v].user
      BY <1>1 DEF Revokes, RevokeSessions, PasswordChanged, StartRevoking, Start,
         PTypeOK, TypeOK
    <2>. QED  BY <2>1 DEF Revocable, Live, Stored, Revoked, NotExpired
  <1>2. CASE Stays(v)
    <2>1. flow[v].at = "revoking" /\ flow'[v] = flow[v] /\ job[v].op = "revoke_all"
      BY <1>2 DEF Stays, StillToRevoke
    <2>2. job'[v] = job[v] \/ Passed(v)
      BY <2>1, JobKept
    <2>3. job'[v].op = "revoke_all"
      BY <2>1, <2>2 DEF Passed, PTypeOK, TypeOK, Job
    <2>4. ASSUME NEW s \in Sid, Live(s)', row'[s].user = flow'[v].user,
                 opened'[s] < flow'[v].gen
          PROVE  s \in job'[v].todo
      <3>1. CASE Live(s) /\ row'[s].user = row[s].user /\ opened'[s] = opened[s]
        <4>1. s \in job[v].todo
          BY <2>1, <2>4, <3>1 DEF StillToRevoke
        <4>2. ASSUME NEW r \in job[v].todo, row' = AfterRevoke(r, job[v].reason)
              PROVE  s # r
          <5>1. SUFFICES ASSUME s = r  PROVE FALSE
            OBVIOUS
          <5>2. row'[s] = [row[s] EXCEPT !.revokedAt = now, !.reason = job[v].reason]
            BY <3>1, <4>2, <5>1 DEF AfterRevoke, Live, PTypeOK, TypeOK
          <5>3. row'[s].revokedAt # Never
            BY <5>2, SessionsAssumption DEF PTypeOK, TypeOK, Row, Never
          <5>. QED  BY <2>4, <5>3 DEF Live, Revoked
        <4>. QED  BY <2>2, <4>1, <4>2 DEF Passed, PTypeOK, TypeOK, Job
      <3>2. ASSUME NEW w \in Worker, row'[s].user = flow[w].user,
                   opened'[s] = pwd[flow[w].user]
            PROVE  FALSE
        <4>1. /\ flow[v].gen <= pwd[flow[v].user] /\ flow[v].user \in User
              /\ flow[v].gen \in Nat
          BY <2>1 DEF GenerationsBehind, Owned, PTypeOK, Flow
        <4>2. pwd[flow[v].user] \in Nat
          BY <4>1, PasswordAssumption DEF PTypeOK
        <4>. QED  BY <2>1, <2>4, <3>2, <4>1, <4>2
      <3>. QED  BY <2>4, <3>1, <3>2, LiveAfter
    <2>. QED  BY <2>3, <2>4
  <1>3. CASE Leaves(v) \/ Enters(v) \/ Saves(v)
    BY <1>3 DEF Leaves, Enters, Saves, NoFlow
  <1>. QED  BY <1>1, <1>2, <1>3, FlowMove

LEMMA NextOlderSessionsDead ==
    ASSUME PTypeOK, IInv, Owned, GenerationsBehind, StillToRevoke, OlderSessionsDead,
           [PNext]_allVars
    PROVE  OlderSessionsDead'
  <1>. SUFFICES ASSUME NEW s \in Sid, Live(s)'
                PROVE  opened'[s] >= announced'[row'[s].user]
    BY DEF OlderSessionsDead
  <1>1. ASSUME NEW w \in Worker, OpenSession(w), row'[s].user = flow[w].user,
               opened'[s] = pwd[flow[w].user]
        PROVE  opened'[s] >= announced'[row'[s].user]
    <2>1. flow[w].user \in User /\ announced' = announced
      BY <1>1 DEF OpenSession, Owned
    <2>. QED  BY <1>1, <2>1 DEF GenerationsBehind
  <1>2. CASE Live(s) /\ row'[s].user = row[s].user /\ opened'[s] = opened[s]
    <2>1. row[s].user \in User /\ opened[s] >= announced[row[s].user]
      BY <1>2 DEF OlderSessionsDead, Owned, Live, Stored, Written
    <2>2. ASSUME NEW w \in Worker, Announce(w)
          PROVE  opened[s] >= announced'[row[s].user]
      <3>1. /\ flow[w].user \in User
            /\ announced' = [announced EXCEPT ![flow[w].user] =
                                IF @ < flow[w].gen THEN flow[w].gen ELSE @]
            /\ flow[w].at = "revoking" /\ job[w].todo = {}
        BY <2>2 DEF Announce, AllRevoked, Owned
      <3>2. row[s].user = flow[w].user => ~(opened[s] < flow[w].gen)
        BY <1>2, <3>1 DEF StillToRevoke
      <3>3. opened[s] \in Nat /\ flow[w].gen \in Nat
        BY DEF PTypeOK, Flow
      <3>. QED  BY <2>1, <3>1, <3>2, <3>3 DEF PTypeOK
    <2>3. announced' = announced \/ \E w \in Worker : Announce(w)
      BY DEF PNext, FlowStep, allVars, pvars, Authenticate, LoadForReset, LoadForChange,
         OpenSession, Refuse, Die, SavePassword, RevokeSessions, SessionStep
    <2>. QED  BY <1>2, <2>1, <2>2, <2>3
  <1>. QED  BY <1>1, <1>2, LiveAfter

-----------------------------------------------------------------------------
LEMMA NextPIInv == PIInv /\ [PNext]_allVars => PIInv'
  <1>. SUFFICES ASSUME PIInv, [PNext]_allVars  PROVE PIInv'
    OBVIOUS
  <1>1. IInv'
    BY StepOfSessions, NextIInv DEF PIInv
  <1>. QED
    BY <1>1, NextPTypeOK, NextOwned, NextGenerationsBehind, NextStillToRevoke,
       NextOlderSessionsDead DEF PIInv

(* Whatever logs in, rotates, changes or resets concurrently: no view and  *)
(* no signal is ahead of the saved password, and a view that revokes still *)
(* has every older live session on its list                                *)
(* (_finish_password_reset_or_change).                                     *)
THEOREM PasswordInvariant == PSpec => []PIInv
  BY PInitPIInv, NextPIInv, PTL DEF PSpec

(* When password_changed is sent, no session opened under an older         *)
(* password is live (_finish_password_reset_or_change).                    *)
THEOREM OlderSessionsDeadHolds == PSpec => []OlderSessionsDead
  <1>1. PIInv => OlderSessionsDead
    BY DEF PIInv
  <1>. QED  BY <1>1, PasswordInvariant, PTL

(* A view that has saved its password goes on to revoke, and leaves only   *)
(* by announcing that it has, or by dying.                                 *)
LEMMA SavedGoesOn ==
    ASSUME PTypeOK, IInv, Owned, [PNext]_allVars, NEW v \in Worker,
           flow[v].at \in {"saved", "revoking"}
    PROVE  Stays(v) \/ Revokes(v) \/ Announce(v) \/ Die(v)
  <1>0. flow \in [Worker -> Flow] /\ flow[v] # NoFlow
    BY DEF PTypeOK, NoFlow
  <1>1. ASSUME NEW w \in Worker, w # v, Leave(w) \/ \E at, u, g : Enter(w, at, u, g)
        PROVE  Stays(v)
    BY <1>0, <1>1 DEF Leave, Enter, Stays
  <1>2. ASSUME NEW w \in Worker,
               \/ \E u \in User : Authenticate(w, u) \/ LoadForReset(w, u)
               \/ \E a \in access : LoadForChange(w, a)
        PROVE  Stays(v)
    <2>1. w # v
      BY <1>0, <1>2 DEF Authenticate, LoadForReset, LoadForChange, Free
    <2>2. \E at, u, g : Enter(w, at, u, g)
      BY <1>2 DEF Authenticate, LoadForReset, LoadForChange
    <2>. QED  BY <1>1, <2>1, <2>2
  <1>3. ASSUME NEW w \in Worker, OpenSession(w) \/ Refuse(w)
        PROVE  Stays(v)
    <2>1. w # v /\ Leave(w)
      BY <1>3 DEF OpenSession, Refuse
    <2>. QED  BY <1>1, <2>1
  <1>4. ASSUME NEW w \in Worker, SavePassword(w)
        PROVE  Stays(v)
    <2>1. w # v /\ \E at, u, g : Enter(w, at, u, g)
      BY <1>4 DEF SavePassword
    <2>. QED  BY <1>1, <2>1
  <1>5. ASSUME NEW w \in Worker, RevokeSessions(w)
        PROVE  Stays(v) \/ Revokes(v)
    <2>1. Enter(w, "revoking", flow[w].user, flow[w].gen)
      BY <1>5 DEF RevokeSessions
    <2>2. w = v => Revokes(v)
      BY <1>0, <1>5, <2>1 DEF Enter, Revokes
    <2>. QED  BY <1>1, <2>1, <2>2
  <1>6. ASSUME NEW w \in Worker, Announce(w) \/ Die(w)
        PROVE  Stays(v) \/ Announce(v) \/ Die(v)
    <2>1. Leave(w)
      BY <1>6 DEF Announce, Die
    <2>. QED  BY <1>1, <1>6, <2>1
  <1>7. CASE SessionStep \/ UNCHANGED allVars
    BY <1>7 DEF SessionStep, allVars, pvars, Stays
  <1>. QED  BY <1>2, <1>3, <1>4, <1>5, <1>6, <1>7 DEF PNext, FlowStep

LEMMA StepDue ==
    ASSUME PIInv, StillToRevoke', [PNext]_allVars, NEW v \in Worker, NEW s \in Sid,
           Due(v, s), Live(s)', ~Die(v)
    PROVE  Due(v, s)'
  <1>0. PTypeOK /\ IInv /\ Owned /\ StillToRevoke
    BY DEF PIInv
  <1>1. row'[s].user = row[s].user /\ opened'[s] = opened[s]
    <2>1. Written(s)
      BY DEF Due, Live, Stored, Written
    <2>. QED  BY <1>0, <2>1, RowOwner, OnlyOpenWrites, OpenedRow
  <1>2. Stays(v) \/ Revokes(v)
    <2>1. ~Announce(v)
      BY DEF Announce, AllRevoked, Due
    <2>. QED  BY <1>0, <2>1, SavedGoesOn DEF Due
  <1>3. /\ flow'[v].at \in {"saved", "revoking"}
        /\ flow'[v].user = flow[v].user /\ flow'[v].gen = flow[v].gen
    BY <1>2 DEF Stays, Revokes, Due
  <1>4. row'[s].user = flow'[v].user /\ opened'[s] < flow'[v].gen
    BY <1>1, <1>3 DEF Due
  <1>5. flow'[v].at = "revoking" => s \in job'[v].todo
    BY <1>4 DEF StillToRevoke
  <1>. QED  BY <1>3, <1>4, <1>5 DEF Due

(* While older sessions are alive a saved password is not done with: its   *)
(* view has yet to list them, or has them on its list, whatever logs in,   *)
(* rotates or changes passwords beside it, unless the worker is killed     *)
(* (_finish_password_reset_or_change).                                     *)
THEOREM DueUntilDeadHolds == PSpec => DueUntilDead
  <1>1. PIInv /\ PIInv' /\ [PNext]_allVars =>
          [\A w \in Worker, s \in Sid :
              Due(w, s) => Due(w, s)' \/ ~Live(s)' \/ Die(w)]_allVars
    BY StepDue DEF PIInv
  <1>. QED  BY <1>1, PasswordInvariant, PTL DEF PSpec, DueUntilDead

(* Driven by the password flows, the session table does only what Sessions *)
(* allows, so what is proved of Sessions holds here too (TokenService).    *)
THEOREM ImplementsSessionsHolds == PSpec => ImplementsSessions
  <1>1. PInit => Init
    BY DEF PInit
  <1>2. PIInv /\ [PNext]_allVars => [Next]_vars
    BY StepOfSessions DEF PIInv
  <1>. QED  BY <1>1, <1>2, PasswordInvariant, PTL DEF PSpec, Spec, ImplementsSessions

(* Whatever passwords are changed meanwhile, a refresh token is exchanged  *)
(* at most once, a revocation is final, revoke_all_sessions misses nothing *)
(* it has passed, no access token outlives its session by more than one    *)
(* lifetime, and the table remains a token family (TokenService, driven    *)
(* by PasswordService and login_response).                                 *)
THEOREM SessionsKeptHolds ==
    PSpec => /\ []NoDoubleSpend /\ []AccessBounded /\ []RevokeAllComplete
             /\ RevocationIsFinal /\ ImplementsFamily
  <1>1. PSpec => Spec
    BY ImplementsSessionsHolds DEF ImplementsSessions
  <1>. QED
    BY <1>1, NoDoubleSpendHolds, AccessBoundedHolds, RevokeAllCompleteHolds,
       RevocationIsFinalHolds, ImplementsFamilyHolds, PTL

=============================================================================
