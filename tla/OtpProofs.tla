----------------------------- MODULE OtpProofs -----------------------------
(***************************************************************************)
(* Proofs about Otp, for every number of challenges, workers, identifiers  *)
(* and purposes, and every value of the OTP settings.                      *)
(***************************************************************************)
EXTENDS Otp, TLAPS

-----------------------------------------------------------------------------
(* Every reachable state is well typed.                                    *)
LEMMA BlankTypes == Blank \in Challenge /\ Idle \in Job
  BY OtpAssumption DEF Blank, Challenge, Idle, Job, Wrong, Never

(* The new contents each handler gives a row or a job are well typed.      *)
LEMMA RowConsumed ==
    ASSUME NEW r \in Challenge, NEW t \in Nat,
           NEW u \in Identifier \cup {NoIdentifier}
    PROVE  /\ [r EXCEPT !.consumedAt = t] \in Challenge
           /\ [[r EXCEPT !.consumedAt = t] EXCEPT !.user = u] \in Challenge
  BY DEF Challenge

LEMMA RowDeleted ==
    ASSUME NEW r \in Challenge
    PROVE  [r EXCEPT !.state = "deleted"] \in Challenge
  BY DEF Challenge

LEMMA RowMissed ==
    ASSUME NEW r \in Challenge, NEW k \in 0..MaxAttempts
    PROVE  [r EXCEPT !.attempts = k] \in Challenge
  BY DEF Challenge

LEMMA RowResent ==
    ASSUME NEW r \in Challenge, NEW n \in 0..MaxResends, NEW t \in Nat, NEW e \in Nat
    PROVE  [r EXCEPT !.resends = n, !.lastSent = t, !.expiresAt = e] \in Challenge
  BY DEF Challenge

LEMMA RowInserted ==
    ASSUME NEW r \in Challenge, NEW i \in Identifier, NEW t \in Nat, NEW e \in Nat,
           NEW u \in Identifier \cup {NoIdentifier},
           NEW p \in Purpose \cup {NoPurpose}
    PROVE  [r EXCEPT !.state = "stored", !.dest = i, !.purpose = p, !.user = u,
                     !.lastSent = t, !.expiresAt = e] \in Challenge
  BY DEF Challenge

LEMMA JobFields ==
    ASSUME NEW j \in Job
    PROVE  /\ j.dest \in Identifier \cup {NoIdentifier}
           /\ j.user \in Identifier \cup {NoIdentifier}
           /\ j.purpose \in Purpose \cup {NoPurpose}
           /\ j.cid \in Cid \cup {NoCid} /\ j.at \in Nat
           /\ j.todo \in SUBSET Cid /\ j.seen \in SUBSET Cid
  BY DEF Job

LEMMA JobUpdates ==
    ASSUME NEW j \in Job, NEW S \in SUBSET Cid
    PROVE  /\ [j EXCEPT !.op = "attach"] \in Job
           /\ [j EXCEPT !.op = "provision"] \in Job
           /\ [j EXCEPT !.todo = S] \in Job
  BY DEF Job

LEMMA RequestJob ==
    ASSUME NEW i \in Identifier, NEW p \in Purpose, NEW t \in Nat,
           NEW u \in Identifier \cup {NoIdentifier},
           NEW S \in SUBSET Cid, NEW T \in SUBSET Cid
    PROVE  [Idle EXCEPT !.op = "request", !.dest = i, !.purpose = p, !.at = t,
                        !.user = u, !.todo = S, !.seen = T] \in Job
  BY DEF Idle, Job, Wrong

LEMMA VerifyJob ==
    ASSUME NEW c \in Cid, NEW k \in Nat \cup {Wrong}, NEW e \in Nat
    PROVE  [Idle EXCEPT !.op = "verify", !.cid = c, !.code = k, !.expected = e] \in Job
  BY DEF Idle, Job, Wrong

LEMMA PurgeJob ==
    ASSUME NEW t \in Nat, NEW S \in SUBSET Cid
    PROVE  [Idle EXCEPT !.op = "purge", !.at = t, !.todo = S] \in Job
  BY DEF Idle, Job, Wrong

LEMMA InitTypeOK == Init => TypeOK
  <1>. SUFFICES ASSUME Init  PROVE TypeOK
    OBVIOUS
  <1>1. now \in 0..MaxTime
    BY OtpAssumption DEF Init
  <1>2. ch \in [Cid -> Challenge] /\ job \in [Worker -> Job]
    BY BlankTypes DEF Init
  <1>3. accounts \in [Identifier -> Nat] /\ before \in [Cid -> SUBSET Cid]
    BY DEF Init
  <1>. QED  BY <1>1, <1>2, <1>3 DEF Init, TypeOK

LEMMA StartType ==
    ASSUME TypeOK, NEW w \in Worker, NEW j \in Job, Start(w, j)
    PROVE  job' \in [Worker -> Job]
  BY DEF TypeOK, Start

LEMMA FinishType ==
    ASSUME TypeOK, NEW w \in Worker, Finish(w)
    PROVE  job' \in [Worker -> Job]
  BY BlankTypes DEF TypeOK, Finish

(* Consuming a challenge keeps the table and its history typed.            *)
LEMMA ConsumeType ==
    ASSUME TypeOK, NEW c \in Cid, Consume(c)
    PROVE  /\ ch' \in [Cid -> Challenge]
           /\ guesses' \in [Cid -> Nat] /\ accepted' \in [Cid -> Nat]
           /\ before' \in [Cid -> SUBSET Cid]
  <1>1. ch[c] \in Challenge /\ now \in Nat
    BY OtpAssumption DEF TypeOK
  <1>2. ch[c].dest \in Identifier \cup {NoIdentifier}
    BY <1>1 DEF Challenge
  <1>3. [[ch[c] EXCEPT !.consumedAt = now] EXCEPT !.user = ch[c].dest] \in Challenge
    BY <1>1, <1>2, RowConsumed
  <1>4. ch' \in [Cid -> Challenge]
    BY <1>3 DEF TypeOK, Consume
  <1>. QED  BY <1>4 DEF TypeOK, Consume

(* A job that compares, or provisions, has a challenge of its own.         *)
LEMMA JobCid ==
    ASSUME TypeOK, JobsSound, NEW w \in Worker,
           job[w].op \in {"verify", "attach", "provision"}
    PROVE  job[w].cid \in Cid /\ Written(job[w].cid)
  BY DEF JobsSound, Open, Stored, Written

LEMMA NextTypeOK == TypeOK /\ RowsCounted /\ JobsSound /\ [Next]_vars => TypeOK'
  <1>. SUFFICES ASSUME TypeOK, RowsCounted, JobsSound, [Next]_vars  PROVE TypeOK'
    OBVIOUS
  <1>1. ASSUME NEW w \in Worker, NEW i \in Identifier, NEW p \in Purpose,
               Request(w, i, p)
        PROVE  TypeOK'
    <2>1. PICK j \in Job : Start(w, j)
      <3>1. [Idle EXCEPT
               !.op = "request", !.dest = i, !.purpose = p, !.at = now,
               !.user = IF Registered(i) THEN i ELSE NoIdentifier,
               !.todo = IF SingleActive /\ Registered(i)
                        THEN Superseded(i, p) ELSE {},
               !.seen = {c \in Cid : ch[c].state # "unused"}] \in Job
        <4>1. now \in Nat
          BY OtpAssumption DEF TypeOK
        <4>2. /\ (IF Registered(i) THEN i ELSE NoIdentifier)
                    \in Identifier \cup {NoIdentifier}
              /\ (IF SingleActive /\ Registered(i) THEN Superseded(i, p) ELSE {})
                    \in SUBSET Cid
              /\ {c \in Cid : ch[c].state # "unused"} \in SUBSET Cid
          BY DEF Superseded
        <4>. QED  BY <4>1, <4>2, RequestJob
      <3>. QED  BY <1>1, <3>1 DEF Request
    <2>2. job' \in [Worker -> Job]
      BY <2>1, StartType
    <2>. QED  BY <1>1, <2>2 DEF Request, TypeOK, history
  <1>2. ASSUME NEW w \in Worker, CommitRequest(w)  PROVE TypeOK'
    <2>1. job[w] \in Job /\ job[w].dest \in Identifier /\ job[w].at + Ttl \in Nat
      BY <1>2, OtpAssumption DEF TypeOK, JobsSound, CommitRequest, Job
    <2>2. [Blank EXCEPT !.state = "stored", !.dest = job[w].dest,
                        !.purpose = job[w].purpose, !.user = job[w].user,
                        !.lastSent = job[w].at, !.expiresAt = job[w].at + Ttl]
             \in Challenge
      BY <2>1, JobFields, RowInserted, BlankTypes
    <2>3. \A d \in Cid : [ch[d] EXCEPT !.consumedAt = job[w].at] \in Challenge
      BY <2>1, JobFields, RowConsumed DEF TypeOK
    <2>4. ch' \in [Cid -> Challenge]
      BY <1>2, <2>2, <2>3 DEF CommitRequest, TypeOK
    <2>5. before' \in [Cid -> SUBSET Cid]
      BY <1>2, <2>1 DEF CommitRequest, TypeOK, Job
    <2>6. job' \in [Worker -> Job]
      BY <1>2, FinishType DEF CommitRequest
    <2>. QED  BY <1>2, <2>4, <2>5, <2>6 DEF CommitRequest, TypeOK
  <1>3. ASSUME NEW w \in Worker, NEW c \in Cid,
               NEW code \in {Wrong} \cup 0..ch[c].resends, Verify(w, c, code)
        PROVE  TypeOK'
    <2>1. [Idle EXCEPT !.op = "verify", !.cid = c, !.code = code,
                       !.expected = ch[c].resends] \in Job
      <3>1. ch[c].resends \in Nat /\ code \in Nat \cup {Wrong}
        BY OtpAssumption DEF TypeOK, Challenge
      <3>. QED  BY <3>1, VerifyJob
    <2>2. job' \in [Worker -> Job]
      BY <1>3, <2>1, StartType DEF Verify
    <2>. QED  BY <1>3, <2>2 DEF Verify, TypeOK, history
  <1>4. ASSUME NEW w \in Worker, RejectDead(w)  PROVE TypeOK'
    BY <1>4, FinishType DEF RejectDead, TypeOK, history
  <1>5. ASSUME NEW w \in Worker, CountMiss(w)  PROVE TypeOK'
    <2>1. job[w].cid \in Cid /\ ch[job[w].cid] \in Challenge
      BY <1>5, JobCid DEF CountMiss, Compare, TypeOK
    <2>2. AttemptsAfter(job[w].cid) \in 0..MaxAttempts
      BY <1>5, <2>1, OtpAssumption
         DEF CountMiss, Compare, Usable, AttemptsAfter, Challenge
    <2>3. ch' \in [Cid -> Challenge]
      BY <1>5, <2>1, <2>2 DEF CountMiss, TypeOK, Challenge
    <2>4. guesses' \in [Cid -> Nat]
      BY <1>5, <2>1 DEF CountMiss, TypeOK
    <2>. QED  BY <1>5, <2>3, <2>4, FinishType DEF CountMiss, TypeOK
  <1>6. ASSUME NEW w \in Worker, Accept(w)  PROVE TypeOK'
    BY <1>6, JobCid, ConsumeType, FinishType DEF Accept, Compare, TypeOK
  <1>7. ASSUME NEW w \in Worker, LookUp(w)  PROVE TypeOK'
    <2>2. job' \in [Worker -> Job]
      BY <1>7, JobUpdates DEF LookUp, TypeOK
    <2>. QED  BY <1>7, <2>2 DEF LookUp, TypeOK, history
  <1>8. ASSUME NEW w \in Worker, Attach(w)  PROVE TypeOK'
    BY <1>8, JobCid, ConsumeType, FinishType DEF Attach, TypeOK
  <1>9. ASSUME NEW w \in Worker, Provision(w)  PROVE TypeOK'
    <2>. DEFINE c == job[w].cid
    <2>1. c \in Cid /\ ch[c].dest \in Identifier
      BY <1>9, JobCid DEF Provision, RowsCounted
    <2>2. job' \in [Worker -> Job]
      BY <1>9, FinishType DEF Provision
    <2>3. CASE Collides(ch[c].dest)
      BY <1>9, <2>2, <2>3 DEF Provision, TypeOK, history
    <2>4. CASE ~Collides(ch[c].dest)
      <3>1. Consume(c) /\ accounts' = [accounts EXCEPT ![ch[c].dest] = @ + 1]
        BY <1>9, <2>4 DEF Provision
      <3>2. accounts' \in [Identifier -> Nat]
        BY <2>1, <3>1 DEF TypeOK
      <3>. QED  BY <1>9, <2>1, <2>2, <3>1, <3>2, ConsumeType DEF Provision, TypeOK
    <2>. QED  BY <2>3, <2>4
  <1>10. ASSUME NEW c \in Cid, Resend(c)  PROVE TypeOK'
    <2>1. ch[c] \in Challenge /\ now + Ttl \in Nat /\ now \in Nat
      BY OtpAssumption DEF TypeOK
    <2>2. ch[c].resends + 1 \in 0..MaxResends
      BY <1>10, <2>1, OtpAssumption DEF Resend, Resendable, Challenge
    <2>3. Resent(c) \in Challenge
      BY <2>1, <2>2, RowResent DEF Resent
    <2>. QED  BY <1>10, <2>3 DEF Resend, TypeOK, history
  <1>11. ASSUME NEW w \in Worker, PurgeList(w)  PROVE TypeOK'
    <2>1. Purgeable \in SUBSET Cid /\ now \in Nat
      BY OtpAssumption DEF Purgeable, TypeOK
    <2>2. [Idle EXCEPT !.op = "purge", !.at = now, !.todo = Purgeable] \in Job
      BY <2>1, PurgeJob
    <2>3. job' \in [Worker -> Job]
      BY <1>11, <2>2, StartType DEF PurgeList
    <2>. QED  BY <1>11, <2>3 DEF PurgeList, TypeOK, history
  <1>12. ASSUME NEW w \in Worker, PurgeNext(w)  PROVE TypeOK'
    <2>1. job' \in [Worker -> Job]
      BY <1>12 DEF PurgeNext, TypeOK, Job
    <2>2. ch' \in [Cid -> Challenge]
      BY <1>12, RowDeleted DEF PurgeNext, TypeOK
    <2>. QED  BY <1>12, <2>1, <2>2 DEF PurgeNext, TypeOK, history
  <1>13. ASSUME NEW w \in Worker, PurgeDone(w) \/ Abort(w)  PROVE TypeOK'
    BY <1>13, FinishType DEF PurgeDone, Abort, TypeOK, history
  <1>14. ASSUME NEW i \in Identifier, SignUp(i)  PROVE TypeOK'
    BY <1>14 DEF SignUp, TypeOK, history
  <1>15. CASE Tick
    BY <1>15, OtpAssumption DEF Tick, TypeOK, history
  <1>16. CASE UNCHANGED vars
    BY <1>16 DEF vars, TypeOK
  <1>. QED
    BY <1>1, <1>2, <1>3, <1>4, <1>5, <1>6, <1>7, <1>8, <1>9, <1>10, <1>11,
       <1>12, <1>13, <1>14, <1>15, <1>16 DEF Next, Answer

-----------------------------------------------------------------------------
(* What one step does to the row and to the history of one challenge.      *)
Holds(w, c) == job[w].op \in {"attach", "provision"} /\ job[w].cid = c

Kept(c) == ch'[c] = ch[c] /\ guesses'[c] = guesses[c] /\ accepted'[c] = accepted[c]

Inserted(c) ==
    /\ ~Written(c)
    /\ guesses'[c] = guesses[c] /\ accepted'[c] = accepted[c]
    /\ \E w \in Worker :
          /\ job[w].op = "request"
          /\ ch'[c] = [Blank EXCEPT !.state = "stored", !.dest = job[w].dest,
                          !.purpose = job[w].purpose, !.user = job[w].user,
                          !.lastSent = job[w].at, !.expiresAt = job[w].at + Ttl]

Invalidated(c) ==
    /\ Open(c)
    /\ guesses'[c] = guesses[c] /\ accepted'[c] = accepted[c]
    /\ \E w \in Worker :
          /\ job[w].op = "request" /\ c \in job[w].todo
          /\ ch'[c] = [ch[c] EXCEPT !.consumedAt = job[w].at]

Missed(c) ==
    /\ Stored(c) /\ ~Locked(c) /\ Usable(c)
    /\ ch'[c] = [ch[c] EXCEPT !.attempts = @ + 1]
    /\ guesses'[c] = guesses[c] + 1 /\ accepted'[c] = accepted[c]

Taken(c) ==
    /\ Open(c) /\ ch[c].attempts < MaxAttempts
    /\ Locked(c) => \E w \in Worker : Holds(w, c) /\ job'[w] = Idle
    /\ ch'[c] = [[ch[c] EXCEPT !.consumedAt = now] EXCEPT !.user = ch[c].dest]
    /\ guesses'[c] = guesses[c] /\ accepted'[c] = accepted[c] + 1

Revived(c) ==
    /\ Stored(c) /\ ~Locked(c) /\ ~Consumed(c)
    /\ ch'[c] = [ch[c] EXCEPT !.resends = @ + 1, !.lastSent = now,
                              !.expiresAt = now + Ttl]
    /\ guesses'[c] = guesses[c] /\ accepted'[c] = accepted[c]

Removed(c) ==
    /\ Stored(c) /\ ~Locked(c)
    /\ ch'[c] = [ch[c] EXCEPT !.state = "deleted"]
    /\ guesses'[c] = guesses[c] /\ accepted'[c] = accepted[c]

LEMMA TakenStep ==
    ASSUME TypeOK, NEW c \in Cid, Consume(c), Open(c), ch[c].attempts < MaxAttempts,
           NEW w \in Worker, Finish(w), Holds(w, c) \/ ~Locked(c),
           NEW d \in Cid
    PROVE  Kept(d) \/ Taken(d)
  BY DEF TypeOK, Consume, Kept, Taken, Finish

LEMMA RowMove ==
    ASSUME TypeOK, RowsCounted, JobsSound, [Next]_vars, NEW c \in Cid
    PROVE  \/ Kept(c) \/ Inserted(c) \/ Invalidated(c) \/ Missed(c)
           \/ Taken(c) \/ Revived(c) \/ Removed(c)
  <1>. DEFINE Goal == \/ Kept(c) \/ Inserted(c) \/ Invalidated(c) \/ Missed(c)
                      \/ Taken(c) \/ Revived(c) \/ Removed(c)
  <1>1. ASSUME NEW w \in Worker, CommitRequest(w)  PROVE Goal
    <2>1. PICK d \in Cid :
             /\ ch[d].state = "unused"
             /\ ch' = [e \in Cid |->
                  IF e = d
                  THEN [Blank EXCEPT !.state = "stored", !.dest = job[w].dest,
                          !.purpose = job[w].purpose, !.user = job[w].user,
                          !.lastSent = job[w].at, !.expiresAt = job[w].at + Ttl]
                  ELSE IF e \in job[w].todo /\ Stored(e) /\ ~Consumed(e)
                  THEN [ch[e] EXCEPT !.consumedAt = job[w].at]
                  ELSE ch[e]]
      BY <1>1 DEF CommitRequest
    <2>. QED  BY <1>1, <2>1 DEF CommitRequest, Kept, Inserted, Invalidated, Written, Open
  <1>2. ASSUME NEW w \in Worker, CountMiss(w)  PROVE Goal
    <2>1. job[w].cid \in Cid
      BY <1>2, JobCid DEF CountMiss, Compare
    <2>. QED
      BY <1>2, <2>1 DEF CountMiss, Compare, AttemptsAfter, TypeOK, Kept, Missed
  <1>3. ASSUME NEW w \in Worker, Accept(w)  PROVE Goal
    <2>1. job[w].cid \in Cid
      BY <1>3, JobCid DEF Accept, Compare
    <2>. QED
      BY <1>3, <2>1, TakenStep DEF Accept, Compare, Usable, Open
  <1>4. ASSUME NEW w \in Worker, Attach(w)  PROVE Goal
    BY <1>4, JobCid, TakenStep DEF Attach, JobsSound, Holds
  <1>5. ASSUME NEW w \in Worker, Provision(w)  PROVE Goal
    BY <1>5, JobCid, TakenStep DEF Provision, JobsSound, Holds, Kept, history
  <1>6. ASSUME NEW d \in Cid, Resend(d)  PROVE Goal
    BY <1>6 DEF Resend, Resendable, Resent, TypeOK, Kept, Revived, history
  <1>7. ASSUME NEW w \in Worker, PurgeNext(w)  PROVE Goal
    BY <1>7 DEF PurgeNext, TypeOK, Kept, Removed, history
  <1>8. CASE UNCHANGED <<ch, history>>
    BY <1>8 DEF Kept, history
  <1>. QED
    BY <1>1, <1>2, <1>3, <1>4, <1>5, <1>6, <1>7, <1>8
       DEF Next, vars, history, Answer, Request, Verify, RejectDead, LookUp,
           PurgeList, PurgeDone, Abort, SignUp, Tick

(* What every step keeps of a row that was written: its destination and    *)
(* purpose, its owner once it has one, and its end once it is closed.      *)
LEMMA Forward ==
    ASSUME TypeOK, RowsCounted, JobsSound, [Next]_vars, NEW c \in Cid, Written(c)
    PROVE  /\ Written(c)'
           /\ ch'[c].dest = ch[c].dest /\ ch'[c].purpose = ch[c].purpose
           /\ Bound(c) => Bound(c)'
           /\ Open(c)' => Open(c) /\ ch'[c].user = ch[c].user
  <1>1. /\ ch[c] \in Challenge /\ now \in Nat /\ now # Never
        /\ ch[c].dest # NoIdentifier
    BY OtpAssumption DEF TypeOK, Never, RowsCounted
  <1>2. CASE Kept(c)
    BY <1>2 DEF Kept, Written, Bound, Open, Stored, Consumed
  <1>3. CASE Invalidated(c)
    <2>1. PICK w \in Worker : ch'[c] = [ch[c] EXCEPT !.consumedAt = job[w].at]
      BY <1>3 DEF Invalidated
    <2>2. job[w].at # Never
      BY JobFields DEF TypeOK, Never
    <2>. QED  BY <1>1, <1>3, <2>1, <2>2
             DEF Invalidated, Challenge, Written, Bound, Open, Stored, Consumed
  <1>4. CASE Missed(c)
    BY <1>1, <1>4 DEF Missed, Usable, Challenge, Written, Bound, Open, Stored, Consumed
  <1>5. CASE Taken(c)
    BY <1>1, <1>5 DEF Taken, Challenge, Written, Bound, Open, Stored, Consumed
  <1>6. CASE Revived(c)
    BY <1>1, <1>6 DEF Revived, Challenge, Written, Bound, Open, Stored, Consumed
  <1>7. CASE Removed(c)
    BY <1>1, <1>7 DEF Removed, Challenge, Written, Bound, Open, Stored, Consumed
  <1>. QED  BY <1>2, <1>3, <1>4, <1>5, <1>6, <1>7, RowMove DEF Inserted

(* The history keeps agreeing with the rows.                               *)
LEMMA HistoryMove ==
    ASSUME TypeOK, RowsCounted, [Next]_vars, NEW c \in Cid
    PROVE  \/ before'[c] = before[c]
           \/ \E w \in Worker : /\ CommitRequest(w)
                                /\ before'[c] = job[w].seen
                                /\ ch[c].state = "unused"
  <1>1. ASSUME NEW w \in Worker, CommitRequest(w)
        PROVE  \/ before'[c] = before[c]
               \/ before'[c] = job[w].seen /\ ch[c].state = "unused"
    BY <1>1 DEF CommitRequest, TypeOK
  <1>. QED
    BY <1>1
       DEF Next, vars, history, Answer, Request, Verify, RejectDead, LookUp,
           PurgeList, PurgeNext, PurgeDone, Abort, SignUp, Tick, CountMiss,
           Accept, Attach, Provision, Consume, Resend

LEMMA NextRowsCounted ==
    ASSUME TypeOK, RowsCounted, JobsSound, [Next]_vars
    PROVE  RowsCounted'
  <1>. SUFFICES ASSUME NEW c \in Cid
                PROVE  /\ guesses'[c] = ch'[c].attempts
                       /\ accepted'[c] <= 1
                       /\ ~Consumed(c)' => accepted'[c] = 0
                       /\ ~Written(c)' => ch'[c] = Blank
                       /\ Written(c)' => ch'[c].dest \in Identifier
                       /\ \A d \in before'[c] : Written(d)'
    BY DEF RowsCounted
  <1>1. /\ ch[c] \in Challenge /\ now # Never
        /\ guesses[c] \in Nat /\ accepted[c] \in Nat
        /\ guesses[c] = ch[c].attempts /\ accepted[c] <= 1
        /\ ~Consumed(c) => accepted[c] = 0
        /\ ~Written(c) => ch[c] = Blank
        /\ Written(c) => ch[c].dest \in Identifier
        /\ \A d \in before[c] : Written(d)
    BY OtpAssumption DEF TypeOK, RowsCounted, Never
  <1>2. \A d \in before'[c] : Written(d)'
    <2>1. \A w \in Worker : job[w].op = "request" => \A d \in job[w].seen : Written(d)
      BY DEF JobsSound
    <2>2. \A d \in before'[c] : d \in Cid /\ Written(d)
      <3>1. before'[c] \in SUBSET Cid
        BY JobFields, HistoryMove DEF TypeOK
      <3>. QED  BY <1>1, <2>1, <3>1, HistoryMove DEF CommitRequest
    <2>. QED  BY <2>2, Forward
  <1>3. CASE Kept(c)
    BY <1>1, <1>2, <1>3 DEF Kept, Consumed, Written
  <1>4. CASE Inserted(c)
    <2>1. PICK w \in Worker :
             /\ job[w].op = "request"
             /\ ch'[c] = [Blank EXCEPT !.state = "stored", !.dest = job[w].dest,
                             !.purpose = job[w].purpose, !.user = job[w].user,
                             !.lastSent = job[w].at, !.expiresAt = job[w].at + Ttl]
      BY <1>4 DEF Inserted
    <2>2. job[w].dest \in Identifier
      BY <2>1 DEF JobsSound
    <2>3. /\ ch'[c].attempts = 0 /\ ch'[c].dest = job[w].dest
          /\ ch'[c].consumedAt = Never /\ ch'[c].state = "stored"
      BY <2>1 DEF Blank
    <2>4. /\ ch[c].attempts = 0 /\ ch[c].consumedAt = Never
          /\ guesses'[c] = guesses[c] /\ accepted'[c] = accepted[c]
      BY <1>1, <1>4 DEF Inserted, Blank
    <2>. QED  BY <1>1, <1>2, <2>2, <2>3, <2>4 DEF Consumed, Written
  <1>5. CASE Invalidated(c)
    <2>1. PICK w \in Worker : ch'[c] = [ch[c] EXCEPT !.consumedAt = job[w].at]
      BY <1>5 DEF Invalidated
    <2>2. job[w].at # Never
      BY JobFields DEF TypeOK, Never
    <2>3. /\ ch'[c].attempts = ch[c].attempts /\ ch'[c].dest = ch[c].dest
          /\ ch'[c].consumedAt = job[w].at /\ ch'[c].state = "stored"
          /\ guesses'[c] = guesses[c] /\ accepted'[c] = accepted[c]
      BY <1>1, <1>5, <2>1 DEF Invalidated, Challenge, Open, Stored
    <2>. QED  BY <1>1, <1>2, <1>5, <2>2, <2>3 DEF Invalidated, Consumed, Written, Open, Stored
  <1>6. CASE Missed(c)
    <2>1. /\ ch'[c].attempts = ch[c].attempts + 1 /\ ch'[c].dest = ch[c].dest
          /\ ch'[c].consumedAt = ch[c].consumedAt /\ ch'[c].state = "stored"
      BY <1>1, <1>6 DEF Missed, Challenge, Stored
    <2>. QED  BY <1>1, <1>2, <1>6, <2>1 DEF Missed, Consumed, Written, Stored
  <1>7. CASE Taken(c)
    <2>1. /\ ch'[c].attempts = ch[c].attempts /\ ch'[c].dest = ch[c].dest
          /\ ch'[c].consumedAt = now /\ ch'[c].state = "stored"
      BY <1>1, <1>7 DEF Taken, Challenge, Open, Stored
    <2>. QED  BY <1>1, <1>2, <1>7, <2>1 DEF Taken, Consumed, Written, Open, Stored
  <1>8. CASE Revived(c)
    <2>1. /\ ch'[c].attempts = ch[c].attempts /\ ch'[c].dest = ch[c].dest
          /\ ch'[c].consumedAt = ch[c].consumedAt /\ ch'[c].state = "stored"
      BY <1>1, <1>8 DEF Revived, Challenge, Stored
    <2>. QED  BY <1>1, <1>2, <1>8, <2>1 DEF Revived, Consumed, Written, Stored
  <1>9. CASE Removed(c)
    <2>1. /\ ch'[c].attempts = ch[c].attempts /\ ch'[c].dest = ch[c].dest
          /\ ch'[c].consumedAt = ch[c].consumedAt /\ ch'[c].state = "deleted"
      BY <1>1, <1>9 DEF Removed, Challenge, Stored
    <2>. QED  BY <1>1, <1>2, <1>9, <2>1 DEF Removed, Consumed, Written, Stored
  <1>. QED  BY <1>3, <1>4, <1>5, <1>6, <1>7, <1>8, <1>9, RowMove

(* What one step does to the job of one worker.                            *)
LEMMA JobMove ==
    ASSUME TypeOK, [Next]_vars, NEW w \in Worker
    PROVE  \/ job'[w] = job[w] \/ job'[w] = Idle
           \/ \E i \in Identifier, p \in Purpose : Request(w, i, p)
           \/ \E c \in Cid, code \in Nat \cup {Wrong} : Verify(w, c, code)
           \/ LookUp(w) \/ job'[w].op = "purge"
  <1>. DEFINE Goal == \/ job'[w] = job[w] \/ job'[w] = Idle
                      \/ \E i \in Identifier, p \in Purpose : Request(w, i, p)
                      \/ \E c \in Cid, code \in Nat \cup {Wrong} : Verify(w, c, code)
                      \/ LookUp(w) \/ job'[w].op = "purge"
  <1>1. ASSUME NEW v \in Worker, Finish(v)  PROVE Goal
    BY <1>1 DEF Finish, TypeOK
  <1>2. ASSUME NEW v \in Worker, NEW i \in Identifier, NEW p \in Purpose,
               Request(v, i, p)
        PROVE  Goal
    BY <1>2 DEF Request, Start, TypeOK
  <1>3. ASSUME NEW v \in Worker, NEW c \in Cid,
               NEW code \in {Wrong} \cup 0..ch[c].resends, Verify(v, c, code)
        PROVE  Goal
    <2>1. code \in Nat \cup {Wrong}
      BY OtpAssumption DEF TypeOK, Challenge
    <2>2. v # w => job'[w] = job[w]
      BY <1>3 DEF Verify, Start, TypeOK
    <2>. QED  BY <1>3, <2>1, <2>2
  <1>4. ASSUME NEW v \in Worker, LookUp(v)  PROVE Goal
    <2>1. v # w => job'[w] = job[w]
      BY <1>4 DEF LookUp, TypeOK
    <2>. QED  BY <1>4, <2>1
  <1>5. ASSUME NEW v \in Worker, PurgeList(v)  PROVE Goal
    <2>1. job'[w] = job[w] \/ job'[w].op = "purge"
      BY <1>5 DEF PurgeList, Start, Idle, TypeOK
    <2>. QED  BY <2>1
  <1>6. ASSUME NEW v \in Worker, PurgeNext(v)  PROVE Goal
    <2>1. v # w => job'[w] = job[w]
      BY <1>6 DEF PurgeNext, TypeOK
    <2>2. job'[v].op = "purge"
      BY <1>6 DEF PurgeNext, TypeOK, Job
    <2>. QED  BY <2>1, <2>2
  <1>7. CASE job' = job
    BY <1>7
  <1>. QED
    BY <1>1, <1>2, <1>3, <1>4, <1>5, <1>6, <1>7
       DEF Next, vars, Answer, CommitRequest, RejectDead, CountMiss, Accept,
           Attach, Provision, PurgeDone, Abort, Resend, SignUp, Tick

(* A challenge whose lock is held, and stays held, is left alone.          *)
LEMMA HeldIsKept ==
    ASSUME TypeOK, RowsCounted, JobsSound, LockExclusive, [Next]_vars,
           NEW w \in Worker, NEW c \in Cid, Holds(w, c), job'[w] = job[w]
    PROVE  ch'[c] = ch[c]
  <1>1. Locked(c) /\ Written(c) /\ ~Bound(c)
    BY DEF Locked, Holds, JobsSound, Open, Stored, Written
  <1>2. ~Taken(c)
    <2>1. ASSUME NEW v \in Worker, Holds(v, c), job'[v] = Idle  PROVE FALSE
      <3>1. v = w
        BY <2>1 DEF LockExclusive, Holds
      <3>. QED  BY <2>1, <3>1 DEF Holds, Idle
    <2>. QED  BY <1>1, <2>1 DEF Taken
  <1>3. ~Invalidated(c)
    BY <1>1 DEF Invalidated, JobsSound
  <1>. QED
    BY <1>1, <1>2, <1>3, RowMove DEF Kept, Inserted, Missed, Revived, Removed

LEMMA NextJobsSound ==
    ASSUME TypeOK, RowsCounted, JobsSound, LockExclusive, [Next]_vars
    PROVE  JobsSound'
  <1>. DEFINE RequestSound(w) ==
                 /\ job[w].dest \in Identifier
                 /\ \A c \in job[w].todo : Written(c) /\ Bound(c)
                 /\ \A c \in job[w].seen :
                       /\ Written(c)
                       /\ ( /\ SingleActive /\ job[w].user # NoIdentifier
                            /\ Open(c) /\ Bound(c)
                            /\ ch[c].dest = job[w].dest
                            /\ ch[c].purpose = job[w].purpose ) => c \in job[w].todo
              VerifySound(w) == job[w].cid \in Cid /\ Written(job[w].cid)
              LockSound(w) == /\ job[w].cid \in Cid /\ Open(job[w].cid)
                              /\ ~Bound(job[w].cid)
                              /\ ch[job[w].cid].attempts < MaxAttempts
  <1>. SUFFICES ASSUME NEW w \in Worker
                PROVE  /\ job'[w].op = "request" => RequestSound(w)'
                       /\ job'[w].op = "verify" => VerifySound(w)'
                       /\ job'[w].op \in {"attach", "provision"} => LockSound(w)'
    BY DEF JobsSound
  <1>1. /\ job[w].op = "request" => RequestSound(w)
        /\ job[w].op = "verify" => VerifySound(w)
        /\ job[w].op \in {"attach", "provision"} => LockSound(w)
    BY DEF JobsSound
  <1>2. CASE job'[w] = job[w]
    <2>1. ASSUME job[w].op = "request"  PROVE RequestSound(w)'
      <3>1. job[w].todo \in SUBSET Cid /\ job[w].seen \in SUBSET Cid
        BY JobFields DEF TypeOK
      <3>2. \A c \in job[w].todo : Written(c)' /\ Bound(c)'
        BY <1>1, <2>1, <3>1, Forward
      <3>3. ASSUME NEW c \in job[w].seen
            PROVE  /\ Written(c)'
                   /\ ( /\ SingleActive /\ job[w].user # NoIdentifier
                        /\ Open(c)' /\ Bound(c)'
                        /\ ch'[c].dest = job[w].dest
                        /\ ch'[c].purpose = job[w].purpose ) => c \in job[w].todo
        <4>1. c \in Cid /\ Written(c)
          BY <1>1, <2>1, <3>1
        <4>2. Open(c)' /\ Bound(c)' => Open(c) /\ Bound(c)
          BY <4>1, Forward DEF Bound
        <4>. QED  BY <1>1, <2>1, <4>1, <4>2, Forward
      <3>. QED  BY <1>1, <1>2, <2>1, <3>2, <3>3
    <2>2. ASSUME job[w].op = "verify"  PROVE VerifySound(w)'
      BY <1>1, <1>2, <2>2, Forward
    <2>3. ASSUME job[w].op \in {"attach", "provision"}  PROVE LockSound(w)'
      <3>1. job[w].cid \in Cid /\ ch'[job[w].cid] = ch[job[w].cid]
        BY <1>1, <1>2, <2>3, HeldIsKept DEF Holds
      <3>. QED  BY <1>1, <1>2, <2>3, <3>1 DEF Open, Stored, Consumed, Bound
    <2>. QED  BY <1>2, <2>1, <2>2, <2>3
  <1>3. CASE job'[w] = Idle \/ job'[w].op = "purge"
    BY <1>3 DEF Idle
  <1>4. ASSUME NEW i \in Identifier, NEW p \in Purpose, Request(w, i, p)
        PROVE  job'[w].op = "request" /\ RequestSound(w)'
    <2>1. /\ job'[w].op = "request" /\ job'[w].dest = i /\ job'[w].purpose = p
          /\ job'[w].user = IF Registered(i) THEN i ELSE NoIdentifier
          /\ job'[w].todo = IF SingleActive /\ Registered(i)
                            THEN Superseded(i, p) ELSE {}
          /\ job'[w].seen = {c \in Cid : ch[c].state # "unused"}
          /\ ch' = ch
      BY <1>4 DEF Request, Start, TypeOK, Idle
    <2>. QED  BY <2>1 DEF Superseded, Written, Bound, Open, Stored, Consumed
  <1>5. ASSUME NEW c \in Cid, NEW code \in Nat \cup {Wrong}, Verify(w, c, code)
        PROVE  job'[w].op = "verify" /\ VerifySound(w)'
    BY <1>5 DEF Verify, Start, TypeOK, Idle, Stored, Written
  <1>6. CASE LookUp(w)
    <2>1. /\ job'[w].op \in {"attach", "provision"} /\ job'[w].cid = job[w].cid
          /\ ch' = ch
      BY <1>6 DEF LookUp, TypeOK, Job
    <2>2. LockSound(w)
      BY <1>1, <1>6 DEF LookUp, Compare, Usable, Open
    <2>. QED  BY <2>1, <2>2 DEF Open, Stored, Consumed, Bound
  <1>. QED  BY <1>2, <1>3, <1>4, <1>5, <1>6, JobMove

(* Only a worker that found the lock free takes it.                        *)
LEMMA NextLockExclusive ==
    ASSUME TypeOK, LockExclusive, [Next]_vars
    PROVE  LockExclusive'
  <1>. SUFFICES ASSUME NEW v \in Worker, NEW w \in Worker, v # w,
                       job'[v].op \in {"attach", "provision"},
                       job'[w].op \in {"attach", "provision"},
                       job'[v].cid = job'[w].cid
                PROVE  FALSE
    BY DEF LockExclusive
  <1>1. ASSUME NEW x \in Worker, job'[x].op \in {"attach", "provision"}
        PROVE  LookUp(x) \/ job'[x] = job[x]
    <2>1. ASSUME NEW i \in Identifier, NEW p \in Purpose, Request(x, i, p)
          PROVE  FALSE
      BY <1>1, <2>1 DEF Request, Start, Idle, TypeOK
    <2>2. ASSUME NEW c \in Cid, NEW code \in Nat \cup {Wrong}, Verify(x, c, code)
          PROVE  FALSE
      BY <1>1, <2>2 DEF Verify, Start, Idle, TypeOK
    <2>3. job'[x] # Idle /\ job'[x].op # "purge"
      BY <1>1 DEF Idle
    <2>. QED  BY <2>1, <2>2, <2>3, JobMove
  <1>2. ASSUME NEW x \in Worker, NEW y \in Worker, LookUp(x), x # y
        PROVE  /\ job'[y] = job[y] /\ job'[x].cid = job[x].cid
               /\ ~Holds(y, job[x].cid)
    BY <1>2 DEF LookUp, Compare, Locked, Holds, TypeOK, Job
  <1>3. CASE LookUp(v)
    BY <1>2, <1>3 DEF Holds
  <1>4. CASE LookUp(w)
    BY <1>2, <1>4 DEF Holds
  <1>5. CASE job'[v] = job[v] /\ job'[w] = job[w]
    BY <1>5 DEF LockExclusive
  <1>. QED  BY <1>1, <1>3, <1>4, <1>5

(* A row appears only in the commit of a request, which invalidates all    *)
(* that its UPDATE listed.                                                 *)
LEMMA RowAppears ==
    ASSUME TypeOK, RowsCounted, JobsSound, [Next]_vars, NEW c \in Cid,
           ~Written(c), Written(c)'
    PROVE  \E w \in Worker :
              /\ job[w].op = "request" /\ before'[c] = job[w].seen
              /\ ch'[c] = [Blank EXCEPT !.state = "stored", !.dest = job[w].dest,
                              !.purpose = job[w].purpose, !.user = job[w].user,
                              !.lastSent = job[w].at, !.expiresAt = job[w].at + Ttl]
              /\ \A d \in job[w].todo :
                    (Open(d) /\ d # c) => ch'[d] = [ch[d] EXCEPT !.consumedAt = job[w].at]
  <1>1. ASSUME NEW w \in Worker, CommitRequest(w)
        PROVE  /\ job[w].op = "request" /\ before'[c] = job[w].seen
               /\ ch'[c] = [Blank EXCEPT !.state = "stored", !.dest = job[w].dest,
                               !.purpose = job[w].purpose, !.user = job[w].user,
                               !.lastSent = job[w].at, !.expiresAt = job[w].at + Ttl]
               /\ \A d \in job[w].todo :
                     (Open(d) /\ d # c)
                        => ch'[d] = [ch[d] EXCEPT !.consumedAt = job[w].at]
    <2>1. PICK e \in Cid :
             /\ ch[e].state = "unused"
             /\ ch' = [d \in Cid |->
                  IF d = e
                  THEN [Blank EXCEPT !.state = "stored", !.dest = job[w].dest,
                          !.purpose = job[w].purpose, !.user = job[w].user,
                          !.lastSent = job[w].at, !.expiresAt = job[w].at + Ttl]
                  ELSE IF d \in job[w].todo /\ Stored(d) /\ ~Consumed(d)
                  THEN [ch[d] EXCEPT !.consumedAt = job[w].at]
                  ELSE ch[d]]
             /\ before' = [before EXCEPT ![e] = job[w].seen]
      BY <1>1 DEF CommitRequest
    <2>2. e = c
      BY <2>1 DEF Written, Stored
    <2>3. job[w].todo \in SUBSET Cid
      BY JobFields DEF TypeOK
    <2>. QED  BY <1>1, <2>1, <2>2, <2>3 DEF CommitRequest, TypeOK, Open
  <1>2. \E w \in Worker : CommitRequest(w)
    <2>. SUFFICES ASSUME \A w \in Worker : ~CommitRequest(w)  PROVE FALSE
      OBVIOUS
    <2>1. ASSUME NEW w \in Worker, CountMiss(w)  PROVE FALSE
      <3>1. job[w].cid \in Cid /\ Written(job[w].cid)
        BY <2>1, JobCid DEF CountMiss, Compare
      <3>. QED  BY <2>1, <3>1 DEF CountMiss, Written, TypeOK
    <2>2. ASSUME NEW w \in Worker, Consume(job[w].cid),
                 job[w].op \in {"verify", "attach", "provision"}
          PROVE  FALSE
      <3>1. job[w].cid \in Cid /\ Written(job[w].cid)
        BY <2>2, JobCid
      <3>. QED  BY <2>2, <3>1 DEF Consume, Written, TypeOK
    <2>3. ASSUME NEW d \in Cid, Resend(d)  PROVE FALSE
      BY <2>3 DEF Resend, Resendable, Resent, Stored, Written, TypeOK
    <2>4. ASSUME NEW w \in Worker, PurgeNext(w)  PROVE FALSE
      BY <2>4 DEF PurgeNext, Stored, Written, TypeOK
    <2>5. ~UNCHANGED ch
      BY DEF Written
    <2>. QED
      BY <2>1, <2>2, <2>3, <2>4, <2>5
         DEF Next, vars, Answer, Request, Verify, RejectDead, Accept, LookUp,
             Attach, Provision, Compare, PurgeList, PurgeDone, Abort, SignUp, Tick
  <1>. QED  BY <1>1, <1>2

(* Two open, owned challenges of one destination and purpose overlapped.   *)
LEMMA NextOverlap ==
    ASSUME TypeOK, RowsCounted, JobsSound, OnlyOverlappingCoexist, [Next]_vars
    PROVE  OnlyOverlappingCoexist'
  <1>. SUFFICES ASSUME SingleActive, NEW c \in Cid, NEW d \in Cid,
                       Rivals(c, d)', Bound(c)', Bound(d)', d \in before'[c]
                PROVE  FALSE
    BY DEF OnlyOverlappingCoexist
  <1>1. /\ c # d /\ Open(c)' /\ Open(d)' /\ Written(c)'
        /\ ch'[c].dest = ch'[d].dest /\ ch'[c].purpose = ch'[d].purpose
    BY DEF Rivals, Open, Stored, Written
  <1>2. CASE Written(c)
    <2>1. before'[c] = before[c]
      BY <1>2, HistoryMove DEF Written
    <2>2. Written(d)
      BY <2>1 DEF RowsCounted
    <2>3. /\ Open(c) /\ ch'[c].user = ch[c].user
          /\ Open(d) /\ ch'[d].user = ch[d].user
          /\ ch[c].dest = ch[d].dest /\ ch[c].purpose = ch[d].purpose
      BY <1>1, <1>2, <2>2, Forward
    <2>. QED  BY <1>1, <2>1, <2>3 DEF OnlyOverlappingCoexist, Rivals, Bound
  <1>3. CASE ~Written(c)
    <2>1. PICK w \in Worker :
             /\ job[w].op = "request" /\ before'[c] = job[w].seen
             /\ ch'[c] = [Blank EXCEPT !.state = "stored", !.dest = job[w].dest,
                             !.purpose = job[w].purpose, !.user = job[w].user,
                             !.lastSent = job[w].at, !.expiresAt = job[w].at + Ttl]
             /\ \A e \in job[w].todo :
                   (Open(e) /\ e # c) => ch'[e] = [ch[e] EXCEPT !.consumedAt = job[w].at]
      BY <1>1, <1>3, RowAppears
    <2>2. /\ ch'[c].dest = job[w].dest /\ ch'[c].purpose = job[w].purpose
          /\ job[w].user # NoIdentifier
      BY <2>1 DEF Blank, Bound
    <2>3. d \in job[w].seen /\ Written(d)
      BY <2>1 DEF JobsSound
    <2>4. /\ Open(d) /\ Bound(d)
          /\ ch[d].dest = job[w].dest /\ ch[d].purpose = job[w].purpose
      BY <1>1, <2>2, <2>3, Forward DEF Bound
    <2>5. d \in job[w].todo
      BY <2>1, <2>2, <2>3, <2>4 DEF JobsSound
    <2>6. ch'[d] = [ch[d] EXCEPT !.consumedAt = job[w].at]
      BY <1>1, <2>1, <2>4, <2>5 DEF Open
    <2>7. ch[d] \in Challenge /\ job[w].at # Never
      BY JobFields DEF TypeOK, Never
    <2>8. ch'[d].consumedAt # Never
      BY <2>6, <2>7 DEF Challenge
    <2>. QED  BY <1>1, <2>8 DEF Open, Consumed
  <1>. QED  BY <1>2, <1>3

-----------------------------------------------------------------------------
LEMMA InitIInv == Init => IInv
  <1>. SUFFICES ASSUME Init  PROVE IInv
    OBVIOUS
  <1>1. TypeOK
    BY InitTypeOK
  <1>2. \A c \in Cid : ch[c] = Blank /\ guesses[c] = 0 /\ accepted[c] = 0 /\ before[c] = {}
    BY DEF Init
  <1>3. \A w \in Worker : job[w] = Idle
    BY DEF Init
  <1>4. RowsCounted
    <2>1. Blank.state = "unused" /\ Blank.attempts = 0
      BY DEF Blank
    <2>2. ASSUME NEW c \in Cid
          PROVE  /\ guesses[c] = ch[c].attempts /\ accepted[c] <= 1 /\ accepted[c] = 0
                 /\ ch[c] = Blank /\ ~Written(c) /\ before[c] = {}
      BY <1>2, <2>1 DEF Written
    <2>. QED  BY <2>2 DEF RowsCounted
  <1>5. JobsSound /\ LockExclusive
    BY <1>3 DEF JobsSound, LockExclusive, Idle
  <1>6. OnlyOverlappingCoexist
    BY <1>2 DEF OnlyOverlappingCoexist
  <1>. QED  BY <1>1, <1>4, <1>5, <1>6 DEF IInv

(* Every reachable state satisfies the inductive invariant.                *)
THEOREM InductiveInvariant == Spec => []IInv
  <1>1. Init => IInv
    BY InitIInv
  <1>2. IInv /\ [Next]_vars => IInv'
    BY NextTypeOK, NextRowsCounted, NextJobsSound, NextLockExclusive,
       NextOverlap DEF IInv
  <1>. QED  BY <1>1, <1>2, PTL DEF Spec

(* The tables, the jobs and the history keep their types; in particular a  *)
(* challenge never counts more than MAX_ATTEMPTS misses or MAX_RESENDS     *)
(* resends.                                                                *)
THEOREM TypeCorrect == Spec => []TypeOK
  <1>1. IInv => TypeOK
    BY DEF IInv
  <1>. QED  BY <1>1, InductiveInvariant, PTL

(* Whatever the overlap of verifies, resends and purges, a challenge hears *)
(* at most MAX_ATTEMPTS wrong codes and accepts one right one.             *)
THEOREM BudgetHolds == Spec => []WithinBudget
  <1>1. ASSUME IInv, NEW c \in Cid
        PROVE  guesses[c] <= MaxAttempts /\ accepted[c] <= 1
    <2>1. ch[c] \in Challenge
      BY <1>1 DEF IInv, TypeOK
    <2>2. ch[c].attempts <= MaxAttempts
      BY <2>1, OtpAssumption DEF Challenge
    <2>. QED  BY <1>1, <2>2 DEF IInv, RowsCounted
  <1>2. IInv => WithinBudget
    BY <1>1 DEF WithinBudget
  <1>. QED  BY <1>2, InductiveInvariant, PTL

(* With SINGLE_ACTIVE_CHALLENGE, only requests that overlapped leave two   *)
(* open challenges of one user and purpose.                                *)
THEOREM OverlapHolds == Spec => []OnlyOverlappingCoexist
  <1>1. IInv => OnlyOverlappingCoexist
    BY DEF IInv
  <1>. QED  BY <1>1, InductiveInvariant, PTL

-----------------------------------------------------------------------------
(* A consumed challenge changes no more, whatever began before.            *)
LEMMA ConsumedStays ==
    ASSUME TypeOK, RowsCounted, JobsSound, [Next]_vars, NEW c \in Cid, Consumed(c)
    PROVE  ch'[c] \in {ch[c], [ch[c] EXCEPT !.state = "deleted"]}
  <1>1. Written(c)
    BY DEF RowsCounted, Blank, Consumed
  <1>. QED
    BY <1>1, RowMove
       DEF Kept, Inserted, Invalidated, Missed, Usable, Taken, Revived, Removed, Open

(* A consumed challenge is final.                                          *)
THEOREM ConsumedIsFinalHolds == Spec => ConsumedIsFinal
  <1>1. IInv /\ [Next]_vars
          => [\A c \in Cid :
                 Consumed(c) => ch'[c] \in {ch[c], [ch[c] EXCEPT !.state = "deleted"]}]_vars
    BY ConsumedStays DEF IInv
  <1>. QED  BY <1>1, InductiveInvariant, PTL DEF Spec, ConsumedIsFinal

-----------------------------------------------------------------------------
(* The table implements OneTimeCode.                                       *)
LEMMA CodeInitStep == Init => Code!CodeInit
  <1>. SUFFICES ASSUME Init  PROVE Code!CodeInit
    OBVIOUS
  <1>1. \A c \in Cid : CodeStatus(c) = "unborn" /\ guesses[c] = 0
    BY DEF Init, CodeStatus, Blank
  <1>. QED  BY <1>1, OtpAssumption DEF Init, Code!CodeInit

LEMMA IssueStep ==
    ASSUME IInv, NEW w \in Worker, CommitRequest(w)
    PROVE  \E c \in Cid, S \in SUBSET Cid : Code!Issue(c, S)
  <1>1. PICK e \in Cid :
           /\ ch[e].state = "unused"
           /\ ch' = [d \in Cid |->
                IF d = e
                THEN [Blank EXCEPT !.state = "stored", !.dest = job[w].dest,
                        !.purpose = job[w].purpose, !.user = job[w].user,
                        !.lastSent = job[w].at, !.expiresAt = job[w].at + Ttl]
                ELSE IF d \in job[w].todo /\ Stored(d) /\ ~Consumed(d)
                THEN [ch[d] EXCEPT !.consumedAt = job[w].at]
                ELSE ch[d]]
    BY DEF CommitRequest
  <1>. DEFINE S == {d \in job[w].todo : Open(d)}
  <1>2. S \in SUBSET Cid
    BY JobFields DEF IInv, TypeOK
  <1>3. CodeStatus(e) = "unborn" /\ \A d \in S : CodeStatus(d) = "open"
    BY <1>1 DEF CodeStatus, Open, Stored
  <1>4. CodeStatus(e)' = "open"
    <2>1. ch'[e].state = "stored" /\ ch'[e].consumedAt = Never
      BY <1>1 DEF Blank
    <2>. QED  BY <2>1 DEF CodeStatus, Open, Stored, Consumed
  <1>5. ASSUME NEW d \in S  PROVE CodeStatus(d)' = "closed"
    <2>1. d \in Cid /\ d # e /\ ch[d] \in Challenge /\ job[w].at # Never
      BY <1>1, <1>2, JobFields DEF IInv, TypeOK, Open, Stored, Never
    <2>2. ch'[d] = [ch[d] EXCEPT !.consumedAt = job[w].at]
      BY <1>1, <2>1 DEF Open
    <2>3. ch'[d].consumedAt # Never /\ ch'[d].state = "stored"
      BY <2>1, <2>2 DEF Challenge, Open, Stored
    <2>. QED  BY <2>3 DEF CodeStatus, Open, Consumed
  <1>6. ASSUME NEW d \in Cid, d # e, d \notin S  PROVE CodeStatus(d)' = CodeStatus(d)
    <2>1. ch'[d] = ch[d]
      BY <1>1, <1>6 DEF Open
    <2>. QED  BY <2>1 DEF CodeStatus, Open, Stored, Consumed
  <1>7. UNCHANGED <<guesses, accepted>>
    BY DEF CommitRequest
  <1>8. Code!Issue(e, S)
    BY <1>2, <1>3, <1>4, <1>5, <1>6, <1>7 DEF Code!Issue
  <1>. QED  BY <1>2, <1>8

LEMMA MissStep ==
    ASSUME IInv, NEW w \in Worker, CountMiss(w)
    PROVE  \E c \in Cid : Code!Miss(c)
  <1>0. PICK c \in Cid : c = job[w].cid
    BY JobCid DEF CountMiss, Compare, IInv
  <1>1. c \in Cid /\ ch[c] \in Challenge /\ guesses[c] = ch[c].attempts
    BY DEF IInv, TypeOK, RowsCounted
  <1>2. /\ CodeStatus(c) = "open"
        /\ guesses[c] \in Nat /\ MaxAttempts - guesses[c] > 0
    BY <1>0, <1>1, OtpAssumption
       DEF CountMiss, Compare, Usable, CodeStatus, Open, Stored, Challenge
  <1>3. /\ ch' = [ch EXCEPT ![c].attempts = ch[c].attempts + 1]
        /\ guesses' = [guesses EXCEPT ![c] = guesses[c] + 1]
        /\ accepted' = accepted
    BY <1>0 DEF CountMiss, AttemptsAfter
  <1>4. \A d \in Cid : CodeStatus(d)' = CodeStatus(d)
    <2>1. \A d \in Cid : /\ ch'[d].state = ch[d].state
                         /\ ch'[d].consumedAt = ch[d].consumedAt
      BY <1>1, <1>3 DEF IInv, TypeOK, Challenge
    <2>. QED  BY <2>1 DEF CodeStatus, Open, Stored, Consumed
  <1>5. \A d \in Cid : MaxAttempts - guesses'[d] =
                         IF d = c THEN (MaxAttempts - guesses[d]) - 1
                                  ELSE MaxAttempts - guesses[d]
    BY <1>1, <1>2, <1>3, OtpAssumption DEF IInv, TypeOK
  <1>. DEFINE left == [d \in Cid |-> MaxAttempts - guesses[d]]
              leftAfter == [d \in Cid |-> MaxAttempts - guesses'[d]]
  <1>6. leftAfter = [left EXCEPT ![c] = left[c] - 1] /\ left[c] > 0
    BY <1>1, <1>2, <1>5
  <1>7. [d \in Cid |-> CodeStatus(d)'] = [d \in Cid |-> CodeStatus(d)]
    BY <1>4
  <1>8. Code!Miss(c)
    BY <1>1, <1>2, <1>3, <1>6, <1>7 DEF Code!Miss
  <1>. QED  BY <1>8

LEMMA RedeemStep ==
    ASSUME IInv, NEW c \in Cid, Consume(c), Open(c), ch[c].attempts < MaxAttempts
    PROVE  \E d \in Cid : Code!Redeem(d)
  <1>1. ch[c] \in Challenge /\ guesses[c] = ch[c].attempts /\ now # Never
    BY OtpAssumption DEF IInv, TypeOK, RowsCounted, Never
  <1>2. CodeStatus(c) = "open" /\ MaxAttempts - guesses[c] > 0
    BY <1>1, OtpAssumption DEF CodeStatus, Open, Stored, Challenge
  <1>3. ch'[c].state = "stored" /\ ch'[c].consumedAt = now
    BY <1>1 DEF Consume, IInv, TypeOK, Challenge, Open, Stored
  <1>4. CodeStatus(c)' = "closed"
    BY <1>1, <1>3 DEF CodeStatus, Open, Consumed
  <1>5. ASSUME NEW d \in Cid, d # c  PROVE CodeStatus(d)' = CodeStatus(d)
    <2>1. ch'[d] = ch[d]
      BY <1>5 DEF Consume, IInv, TypeOK
    <2>. QED  BY <2>1 DEF CodeStatus, Open, Stored, Consumed
  <1>6. accepted' = [accepted EXCEPT ![c] = @ + 1] /\ guesses' = guesses
    BY DEF Consume
  <1>7. Code!Redeem(c)
    BY <1>2, <1>4, <1>5, <1>6 DEF Code!Redeem
  <1>. QED  BY <1>7

(* Every other step leaves each status alone, or drops one challenge.      *)
LEMMA OtherStep ==
    ASSUME IInv, [Next]_vars,
           \A w \in Worker : ~CommitRequest(w) /\ ~CountMiss(w),
           \A c \in Cid : ~(Consume(c) /\ Open(c) /\ ch[c].attempts < MaxAttempts)
    PROVE  (\E c \in Cid : Code!Drop(c)) \/ UNCHANGED Code!codeVars
  <1>1. ASSUME NEW w \in Worker, Accept(w) \/ Attach(w)  PROVE FALSE
    BY <1>1, JobCid
       DEF Accept, Attach, Compare, Usable, Open, IInv, JobsSound
  <1>2. ASSUME NEW w \in Worker, Provision(w)  PROVE UNCHANGED <<ch, history>>
    BY <1>2, JobCid DEF Provision, Open, IInv, JobsSound
  <1>3. ASSUME NEW c \in Cid, Resend(c)  PROVE UNCHANGED Code!codeVars
    <2>1. /\ ch' = [ch EXCEPT ![c] = [ch[c] EXCEPT !.resends = ch[c].resends + 1,
                                        !.lastSent = now, !.expiresAt = now + Ttl]]
          /\ UNCHANGED <<guesses, accepted>>
      BY <1>3 DEF Resend, Resent, history
    <2>2. \A d \in Cid : /\ ch'[d].state = ch[d].state
                         /\ ch'[d].consumedAt = ch[d].consumedAt
      BY <2>1 DEF IInv, TypeOK, Challenge
    <2>3. \A d \in Cid : CodeStatus(d)' = CodeStatus(d)
      BY <2>2 DEF CodeStatus, Open, Stored, Consumed
    <2>. QED  BY <2>1, <2>3 DEF Code!codeVars
  <1>4. ASSUME NEW c \in Cid, Stored(c), ch' = [ch EXCEPT ![c].state = "deleted"],
               UNCHANGED history
        PROVE  Code!Drop(c) \/ UNCHANGED Code!codeVars
    <2>1. ch'[c].state = "deleted" /\ ch[c].state = "stored"
      BY <1>4 DEF IInv, TypeOK, Challenge, Stored
    <2>2. CodeStatus(c)' = "closed" /\ CodeStatus(c) \in {"open", "closed"}
      BY <2>1 DEF CodeStatus, Open, Stored
    <2>3. ASSUME NEW d \in Cid, d # c  PROVE CodeStatus(d)' = CodeStatus(d)
      <3>1. ch'[d] = ch[d]
        BY <1>4, <2>3 DEF IInv, TypeOK
      <3>. QED  BY <3>1 DEF CodeStatus, Open, Stored, Consumed
    <2>4. CASE CodeStatus(c) = "open"
      BY <1>4, <2>2, <2>3, <2>4 DEF Code!Drop, history
    <2>5. CASE CodeStatus(c) = "closed"
      BY <1>4, <2>2, <2>3, <2>5 DEF Code!codeVars, history
    <2>. QED  BY <2>2, <2>4, <2>5
  <1>5. ASSUME NEW w \in Worker, PurgeNext(w)
        PROVE  (\E c \in Cid : Code!Drop(c)) \/ UNCHANGED <<ch, history>>
                  \/ UNCHANGED Code!codeVars
    <2>1. job[w].todo \in SUBSET Cid
      BY JobFields DEF IInv, TypeOK
    <2>2. \/ UNCHANGED <<ch, history>>
          \/ /\ UNCHANGED history
             /\ \E c \in Cid : Stored(c) /\ ch' = [ch EXCEPT ![c].state = "deleted"]
      BY <1>5, <2>1 DEF PurgeNext
    <2>. QED  BY <1>4, <2>2
  <1>6. CASE UNCHANGED <<ch, history>>
    <2>1. \A c \in Cid : CodeStatus(c)' = CodeStatus(c)
      BY <1>6 DEF CodeStatus, Open, Stored, Consumed
    <2>. QED  BY <1>6, <2>1 DEF Code!codeVars, history
  <1>. QED
    BY <1>1, <1>2, <1>3, <1>5, <1>6
       DEF Next, vars, history, Answer, Request, Verify, RejectDead, LookUp,
           PurgeList, PurgeDone, Abort, SignUp, Tick

(* Guesses against a challenge are never given back, and a challenge that  *)
(* closed never opens again.                                               *)
THEOREM ImplementsOneTimeCodeHolds == Spec => ImplementsOneTimeCode
  <1>1. IInv /\ [Next]_vars => [Code!CodeNext]_Code!codeVars
    BY IssueStep, MissStep, RedeemStep, OtherStep DEF Code!CodeNext
  <1>. QED
    BY <1>1, CodeInitStep, InductiveInvariant, PTL
       DEF Spec, ImplementsOneTimeCode, Code!CodeSpec

-----------------------------------------------------------------------------
(* The purge.  What it has listed stays well past its expiry as long as    *)
(* nobody has it resent.                                                   *)
WellPast(c, t) ==
    Written(c) /\ (ch[c].expiresAt + Grace < t \/ ch[c].lastSent >= t)

PurgeSound ==
    \A w \in Worker : job[w].op = "purge" =>
        /\ job[w].at <= now
        /\ \A c \in job[w].todo : WellPast(c, job[w].at)

LEMMA WellPastStays ==
    ASSUME TypeOK, RowsCounted, JobsSound, [Next]_vars,
           NEW c \in Cid, NEW t \in Nat, t <= now, WellPast(c, t)
    PROVE  WellPast(c, t)'
  <1>1. /\ ch[c] \in Challenge /\ now \in Nat /\ Written(c)' /\ Written(c)
    BY Forward, OtpAssumption DEF TypeOK, WellPast
  <1>2. CASE Kept(c)
    BY <1>1, <1>2 DEF Kept, WellPast
  <1>3. CASE Inserted(c)
    BY <1>1, <1>3 DEF Inserted
  <1>4. CASE Invalidated(c) \/ Missed(c) \/ Taken(c) \/ Removed(c)
    <2>1. ch'[c].expiresAt = ch[c].expiresAt /\ ch'[c].lastSent = ch[c].lastSent
      BY <1>1, <1>4 DEF Invalidated, Missed, Taken, Removed, Challenge
    <2>. QED  BY <1>1, <2>1 DEF WellPast
  <1>5. CASE Revived(c)
    <2>1. ch'[c].lastSent = now
      BY <1>1, <1>5 DEF Revived, Challenge
    <2>. QED  BY <1>1, <2>1 DEF WellPast
  <1>. QED  BY <1>2, <1>3, <1>4, <1>5, RowMove

LEMMA PurgeMove ==
    ASSUME TypeOK, [Next]_vars, NEW w \in Worker, job'[w].op = "purge"
    PROVE  \/ PurgeList(w)
           \/ /\ job[w].op = "purge" /\ job'[w].at = job[w].at
              /\ job'[w].todo \subseteq job[w].todo
  <1>. DEFINE Goal == \/ PurgeList(w)
                      \/ /\ job[w].op = "purge" /\ job'[w].at = job[w].at
                         /\ job'[w].todo \subseteq job[w].todo
  <1>1. ASSUME NEW v \in Worker, Finish(v)  PROVE Goal
    BY <1>1 DEF Finish, TypeOK, Idle
  <1>2. ASSUME NEW v \in Worker, NEW i \in Identifier, NEW p \in Purpose,
               Request(v, i, p)
        PROVE  Goal
    BY <1>2 DEF Request, Start, TypeOK, Idle
  <1>3. ASSUME NEW v \in Worker, NEW c \in Cid,
               NEW code \in {Wrong} \cup 0..ch[c].resends, Verify(v, c, code)
        PROVE  Goal
    BY <1>3 DEF Verify, Start, TypeOK, Idle
  <1>4. ASSUME NEW v \in Worker, LookUp(v)  PROVE Goal
    <2>1. job'[v].op \in {"attach", "provision"}
      BY <1>4 DEF LookUp, TypeOK, Job
    <2>2. v # w => job'[w] = job[w]
      BY <1>4 DEF LookUp, TypeOK
    <2>. QED  BY <2>1, <2>2
  <1>5. ASSUME NEW v \in Worker, PurgeList(v)  PROVE Goal
    <2>1. v # w => job'[w] = job[w]
      BY <1>5 DEF PurgeList, Start, TypeOK
    <2>. QED  BY <1>5, <2>1
  <1>6. ASSUME NEW v \in Worker, PurgeNext(v)  PROVE Goal
    <2>1. v # w => job'[w] = job[w]
      BY <1>6 DEF PurgeNext, TypeOK
    <2>2. PICK c \in job[v].todo : job' = [job EXCEPT ![v].todo = @ \ {c}]
      BY <1>6 DEF PurgeNext
    <2>3. job[v] \in Job /\ job'[v] = [job[v] EXCEPT !.todo = @ \ {c}]
      BY <2>2 DEF TypeOK
    <2>4. job'[v].at = job[v].at /\ job'[v].todo = job[v].todo \ {c}
      BY <2>3 DEF Job
    <2>. QED  BY <1>6, <2>1, <2>4 DEF PurgeNext
  <1>7. CASE job' = job
    BY <1>7
  <1>. QED
    BY <1>1, <1>2, <1>3, <1>4, <1>5, <1>6, <1>7
       DEF Next, vars, Answer, CommitRequest, RejectDead, CountMiss, Accept,
           Attach, Provision, PurgeDone, Abort, Resend, SignUp, Tick

LEMMA NextPurgeSound ==
    TypeOK /\ TypeOK' /\ RowsCounted /\ JobsSound /\ PurgeSound /\ [Next]_vars
       => PurgeSound'
  <1>. SUFFICES ASSUME TypeOK, TypeOK', RowsCounted, JobsSound, PurgeSound,
                       [Next]_vars
                PROVE  PurgeSound'
    OBVIOUS
  <1>0. \A w \in Worker : job'[w].at \in Nat
    BY DEF TypeOK, Job
  <1>. SUFFICES ASSUME NEW w \in Worker, job'[w].op = "purge",
                       NEW t \in Nat, t = job'[w].at
                PROVE  /\ t <= now'
                       /\ \A c \in job'[w].todo : WellPast(c, t)'
    BY <1>0 DEF PurgeSound, WellPast, Written
  <1>1. now \in Nat /\ now' \in Nat /\ now <= now'
    <2>1. now' = now \/ Tick
      BY DEF Next, vars, Answer, Request, Verify, CommitRequest, RejectDead,
             CountMiss, Accept, LookUp, Attach, Provision, PurgeList, PurgeNext,
             PurgeDone, Abort, Resend, SignUp
    <2>. QED  BY <2>1, OtpAssumption DEF TypeOK, Tick
  <1>2. CASE PurgeList(w)
    <2>1. /\ job'[w].at = now /\ job'[w].todo = Purgeable
          /\ ch' = ch /\ now' = now
      BY <1>2 DEF PurgeList, Start, Idle, TypeOK
    <2>2. ASSUME NEW c \in Purgeable  PROVE WellPast(c, t)'
      <3>1. /\ c \in Cid /\ ch[c] \in Challenge /\ Grace \in Nat
            /\ ch[c].expiresAt < now - Grace /\ Stored(c)
        BY <2>2, OtpAssumption DEF Purgeable, TypeOK
      <3>2. ch[c].expiresAt \in Nat /\ ch[c].state = "stored"
        BY <3>1 DEF Challenge, Stored
      <3>3. ch[c].expiresAt + Grace < t
        BY <1>1, <2>1, <3>1, <3>2
      <3>. QED  BY <2>1, <3>2, <3>3 DEF WellPast, Written
    <2>. QED  BY <1>1, <2>1, <2>2
  <1>3. ASSUME job[w].op = "purge", job'[w].at = job[w].at,
               job'[w].todo \subseteq job[w].todo
        PROVE  t <= now' /\ \A c \in job'[w].todo : WellPast(c, t)'
    <2>1. job[w].todo \subseteq Cid /\ t <= now
      BY <1>3, JobFields DEF TypeOK, PurgeSound
    <2>2. \A c \in job'[w].todo : c \in Cid /\ WellPast(c, t)
      BY <1>3, <2>1 DEF PurgeSound
    <2>. QED  BY <1>1, <2>1, <2>2, WellPastStays
  <1>. QED  BY <1>2, <1>3, PurgeMove

(* The purge only ever deletes a challenge well past its expiry, or one    *)
(* that was resent after it had been listed.                               *)
THEOREM PurgesExpiredOrResentHolds == Spec => PurgesExpiredOrResent
  <1>1. Init => PurgeSound
    BY DEF Init, PurgeSound, Idle
  <1>2. IInv /\ IInv' /\ PurgeSound /\ [Next]_vars => PurgeSound'
    BY NextPurgeSound DEF IInv
  <1>3. IInv /\ PurgeSound /\ [Next]_vars =>
           (\A w \in Worker, c \in Cid :
              (PurgeNext(w) /\ Stored(c) /\ ch'[c].state = "deleted")
                 => ch[c].expiresAt + Grace < now \/ ch[c].lastSent >= job[w].at)
    <2>. SUFFICES ASSUME TypeOK, PurgeSound, NEW w \in Worker, NEW c \in Cid,
                         PurgeNext(w), Stored(c), ch'[c].state = "deleted"
                  PROVE  ch[c].expiresAt + Grace < now \/ ch[c].lastSent >= job[w].at
      BY DEF IInv
    <2>1. c \in job[w].todo
      BY DEF PurgeNext, Stored, TypeOK
    <2>2. /\ job[w].at <= now /\ job[w].at \in Nat /\ now \in Nat
          /\ WellPast(c, job[w].at)
      BY <2>1, JobFields, OtpAssumption DEF PurgeSound, PurgeNext, TypeOK
    <2>3. ch[c].expiresAt \in Nat /\ ch[c].lastSent \in Nat /\ Grace \in Nat
      BY OtpAssumption DEF TypeOK, Challenge
    <2>. QED  BY <2>2, <2>3 DEF WellPast
  <1>. QED
    BY <1>1, <1>2, <1>3, InductiveInvariant, PTL DEF Spec, PurgesExpiredOrResent

=============================================================================
