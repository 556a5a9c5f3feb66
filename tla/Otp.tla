-------------------------------- MODULE Otp --------------------------------
(***************************************************************************)
(* The OtpChallenge table and the OtpService that writes it: request (with *)
(* SINGLE_ACTIVE_CHALLENGE and the user=None rows of the auto-provisioned  *)
(* methods), verify, resend and the purge task, interleaved by workers.    *)
(*                                                                         *)
(* verify reads the row without a lock, remembers the hash to compare      *)
(* with, and takes the row lock afterwards; request resolves the user and  *)
(* runs its UPDATE, then inserts and commits; the purge lists keys and     *)
(* deletes them later.  Each is a job of a worker.  resend does all of its *)
(* work under the lock and is one action.  A request for an unknown        *)
(* identifier of a method that is not auto-provisioned (the decoy) and     *)
(* every other refusal change nothing and are stuttering steps.            *)
(*                                                                         *)
(* One channel is modelled: challenges of different channels never meet.   *)
(* The n-th code and link token of a challenge is the number n, so the     *)
(* code in force is resend_count, which only resend increments.  What the  *)
(* callers of verify do with the purpose it returns is not part of it.     *)
(***************************************************************************)
EXTENDS Integers

CONSTANTS Cid, Worker,
          Identifier,         \* email addresses, or phone numbers
          Purpose,
          NoIdentifier, NoCid, NoPurpose,
          Ttl,                \* OTP TTL_SECONDS
          Cooldown,           \* OTP RESEND_COOLDOWN_SECONDS
          MaxAttempts,        \* OTP MAX_ATTEMPTS
          MaxResends,         \* OTP MAX_RESENDS
          SingleActive,       \* OTP SINGLE_ACTIVE_CHALLENGE
          AutoProvision,      \* is the method in AUTO_PROVISION_METHODS?
          Grace,              \* tasks._OTP_GRACE
          MaxTime             \* bound: the clock stops here

ASSUME OtpAssumption ==
    /\ NoIdentifier \notin Identifier /\ NoCid \notin Cid
    /\ NoPurpose \notin Purpose
    /\ Ttl \in Nat \ {0} /\ Cooldown \in Nat
    /\ MaxAttempts \in Nat \ {0} /\ MaxResends \in Nat
    /\ SingleActive \in BOOLEAN /\ AutoProvision \in BOOLEAN
    /\ Grace \in Nat /\ MaxTime \in Nat

VARIABLES now,
          ch,                 \* the OtpChallenge table
          accounts,           \* rows of the user model holding each identifier
          job,                \* what each worker is in the middle of
          guesses,            \* history: failed compares per challenge
          accepted,           \* history: successful compares per challenge
          before              \* history: the challenges committed when the
                              \* request of this one ran its UPDATE

vars == <<now, ch, accounts, job, guesses, accepted, before>>
history == <<guesses, accepted, before>>

-----------------------------------------------------------------------------
Never == -1                   \* consumed_at IS NULL

Challenge ==
    [state     : {"unused", "stored", "deleted"},
     dest      : Identifier \cup {NoIdentifier},
     purpose   : Purpose \cup {NoPurpose},
     user      : Identifier \cup {NoIdentifier},  \* the account, or NULL
     attempts  : 0..MaxAttempts,
     resends   : 0..MaxResends,
     lastSent  : Nat,
     expiresAt : Nat,
     consumedAt : Nat \cup {Never}]

Blank == [state |-> "unused", dest |-> NoIdentifier, purpose |-> NoPurpose,
          user |-> NoIdentifier, attempts |-> 0, resends |-> 0, lastSent |-> 0,
          expiresAt |-> 0, consumedAt |-> Never]

Wrong == -1                   \* a code that was never generated

Job == [op     : {"idle", "request", "verify", "attach", "provision", "purge"},
        dest   : Identifier \cup {NoIdentifier},
        purpose : Purpose \cup {NoPurpose},
        user   : Identifier \cup {NoIdentifier},  \* request: who it resolved to
        at     : Nat,         \* request: its timezone.now()
        cid    : Cid \cup {NoCid},
        code   : Nat \cup {Wrong},   \* verify: what the caller presents
        expected : Nat,       \* verify: the hash it read before the lock
        todo   : SUBSET Cid,  \* rows still to consume, or to delete
        seen   : SUBSET Cid]  \* request: the challenges committed so far

Idle == [op |-> "idle", dest |-> NoIdentifier, purpose |-> NoPurpose,
         user |-> NoIdentifier, at |-> 0, cid |-> NoCid, code |-> Wrong,
         expected |-> 0, todo |-> {}, seen |-> {}]

TypeOK ==
    /\ now \in 0..MaxTime
    /\ ch \in [Cid -> Challenge]
    /\ accounts \in [Identifier -> Nat]
    /\ job \in [Worker -> Job]
    /\ guesses \in [Cid -> Nat] /\ accepted \in [Cid -> Nat]
    /\ before \in [Cid -> SUBSET Cid]

Init ==
    /\ now = 0
    /\ ch = [c \in Cid |-> Blank]
    /\ accounts \in [Identifier -> {0, 1}]
    /\ job = [w \in Worker |-> Idle]
    /\ guesses = [c \in Cid |-> 0] /\ accepted = [c \in Cid |-> 0]
    /\ before = [c \in Cid |-> {}]

-----------------------------------------------------------------------------
Stored(c) == ch[c].state = "stored"
Consumed(c) == ch[c].consumedAt # Never
Bound(c) == ch[c].user # NoIdentifier
Registered(i) == accounts[i] > 0

(* verify, under the lock, before it compares: neither consumed, nor       *)
(* expired, nor out of attempts.                                           *)
MutUsable(c) == ch[c].expiresAt > now /\ ch[c].attempts < MaxAttempts
Usable(c) ==
    /\ ~Consumed(c)
    /\ ch[c].expiresAt > now
    /\ ch[c].attempts < MaxAttempts

(* The row lock of a verify that is creating the account of its challenge. *)
Locked(c) ==
    \E w \in Worker : job[w].op \in {"attach", "provision"} /\ job[w].cid = c

Start(w, j) == job[w] = Idle /\ job' = [job EXCEPT ![w] = j]
Finish(w) == job' = [job EXCEPT ![w] = Idle]

-----------------------------------------------------------------------------
(* request: resolve the identifier, then list what SINGLE_ACTIVE_CHALLENGE *)
(* invalidates.  There is nothing to list for an unresolved identifier.    *)
MutSuperseded(i, p) ==
    {c \in Cid : /\ Stored(c) /\ Bound(c) /\ ~Consumed(c)
                 /\ ch[c].dest = i /\ ch[c].purpose = p
                 /\ ch[c].expiresAt > now}
Superseded(i, p) ==
    {c \in Cid : /\ Stored(c) /\ Bound(c) /\ ~Consumed(c)
                 /\ ch[c].dest = i /\ ch[c].purpose = p}

Request(w, i, p) ==
    /\ Registered(i) \/ AutoProvision
    /\ Start(w, [Idle EXCEPT
                   !.op = "request", !.dest = i, !.purpose = p, !.at = now,
                   !.user = IF Registered(i) THEN i ELSE NoIdentifier,
                   !.todo = IF SingleActive /\ Registered(i)
                            THEN Superseded(i, p) ELSE {},
                   !.seen = {c \in Cid : ch[c].state # "unused"}])
    /\ UNCHANGED <<now, ch, accounts, history>>

(* The insert, the commit of both statements and the signal.  The UPDATE   *)
(* locks what it lists until now; a verify or resend of such a row that    *)
(* happens here in between stands for one that ran before the UPDATE.      *)
CommitRequest(w) ==
    LET j == job[w]
        new == [Blank EXCEPT !.state = "stored", !.dest = j.dest,
                             !.purpose = j.purpose, !.user = j.user,
                             !.lastSent = j.at, !.expiresAt = j.at + Ttl]
    IN  /\ j.op = "request"
        /\ \E c \in Cid :
              /\ ch[c].state = "unused"
              /\ ch' = [d \in Cid |->
                          IF d = c THEN new
                          ELSE IF d \in j.todo /\ Stored(d) /\ ~Consumed(d)
                          THEN [ch[d] EXCEPT !.consumedAt = j.at]
                          ELSE ch[d]]
              /\ before' = [before EXCEPT ![c] = j.seen]
        /\ Finish(w)
        /\ UNCHANGED <<now, accounts, guesses, accepted>>

-----------------------------------------------------------------------------
(* verify: the read before the lock keeps the hash of the code in force.   *)
Verify(w, c, code) ==
    /\ Stored(c)
    /\ Start(w, [Idle EXCEPT !.op = "verify", !.cid = c, !.code = code,
                             !.expected = ch[c].resends])
    /\ UNCHANGED <<now, ch, accounts, history>>

(* The row is gone, or the challenge is dead: nothing is written.          *)
RejectDead(w) ==
    LET c == job[w].cid
    IN  /\ job[w].op = "verify" /\ ~Locked(c)
        /\ ~Stored(c) \/ ~Usable(c)
        /\ Finish(w)
        /\ UNCHANGED <<now, ch, accounts, history>>

Compare(w) ==
    /\ job[w].op = "verify"
    /\ ~Locked(job[w].cid) /\ Stored(job[w].cid) /\ Usable(job[w].cid)

AttemptsAfter(c) == ch[c].attempts + 1

CountMiss(w) ==
    LET c == job[w].cid
    IN  /\ Compare(w) /\ job[w].code # job[w].expected
        /\ ch' = [ch EXCEPT ![c].attempts = AttemptsAfter(c)]
        /\ guesses' = [guesses EXCEPT ![c] = @ + 1]
        /\ Finish(w)
        /\ UNCHANGED <<now, accounts, accepted, before>>

Consume(c) ==
    /\ ch' = [ch EXCEPT ![c].consumedAt = now, ![c].user = ch[c].dest]
    /\ accepted' = [accepted EXCEPT ![c] = @ + 1]
    /\ UNCHANGED <<guesses, before>>

Accept(w) ==
    /\ Compare(w) /\ job[w].code = job[w].expected
    /\ Bound(job[w].cid)
    /\ Consume(job[w].cid)
    /\ Finish(w)
    /\ UNCHANGED <<now, accounts>>

(* A challenge without a user: UserProvisioningService.get_or_create looks *)
(* the identifier up, while verify holds the lock of the challenge.        *)
LookUp(w) ==
    LET c == job[w].cid
    IN  /\ Compare(w) /\ job[w].code = job[w].expected
        /\ ~Bound(c)
        /\ job' = [job EXCEPT ![w].op = IF Registered(ch[c].dest)
                                        THEN "attach" ELSE "provision"]
        /\ UNCHANGED <<now, ch, accounts, history>>

Attach(w) ==
    /\ job[w].op = "attach"
    /\ Consume(job[w].cid)
    /\ Finish(w)
    /\ UNCHANGED <<now, accounts>>

(* The column is unique (check E003), so an account that appeared since    *)
(* the look-up fails the insert, and the whole verify is rolled back.      *)
Collides(i) == Registered(i)

Provision(w) ==
    LET c == job[w].cid
    IN  /\ job[w].op = "provision"
        /\ Finish(w)
        /\ IF Collides(ch[c].dest)
           THEN UNCHANGED <<ch, accounts, history>>
           ELSE /\ accounts' = [accounts EXCEPT ![ch[c].dest] = @ + 1]
                /\ Consume(c)
        /\ UNCHANGED now

-----------------------------------------------------------------------------
(* resend: not consumed, cooled down, budget left.                         *)
MutResendable(c) ==
    /\ Stored(c) /\ ~Locked(c)
    /\ now >= ch[c].lastSent + Cooldown
    /\ ch[c].resends < MaxResends
Resendable(c) ==
    /\ Stored(c) /\ ~Locked(c)
    /\ ~Consumed(c)
    /\ now >= ch[c].lastSent + Cooldown
    /\ ch[c].resends < MaxResends

MutAttemptsReset(c) == [ch[c] EXCEPT !.resends = @ + 1, !.lastSent = now,
                                     !.expiresAt = now + Ttl, !.attempts = 0]
Resent(c) == [ch[c] EXCEPT !.resends = @ + 1, !.lastSent = now,
                           !.expiresAt = now + Ttl]

Resend(c) ==
    /\ Resendable(c)
    /\ ch' = [ch EXCEPT ![c] = Resent(c)]
    /\ UNCHANGED <<now, accounts, job, history>>

-----------------------------------------------------------------------------
(* The purge task: list, then delete by primary key.                       *)
MutPurgeable == {c \in Cid : Stored(c) /\ ch[c].expiresAt <= now - Grace}
Purgeable == {c \in Cid : Stored(c) /\ ch[c].expiresAt < now - Grace}

PurgeList(w) ==
    /\ Start(w, [Idle EXCEPT !.op = "purge", !.at = now, !.todo = Purgeable])
    /\ UNCHANGED <<now, ch, accounts, history>>

PurgeNext(w) ==
    /\ job[w].op = "purge"
    /\ \E c \in job[w].todo :
          /\ ~Locked(c)
          /\ job' = [job EXCEPT ![w].todo = @ \ {c}]
          /\ \/ Stored(c) /\ ch' = [ch EXCEPT ![c].state = "deleted"]
             \/ ch' = ch
    /\ UNCHANGED <<now, accounts, history>>

PurgeDone(w) ==
    /\ job[w].op = "purge" /\ job[w].todo = {}
    /\ Finish(w)
    /\ UNCHANGED <<now, ch, accounts, history>>

(* A worker dies: its open transaction is rolled back.                     *)
Abort(w) ==
    /\ job[w] # Idle
    /\ Finish(w)
    /\ UNCHANGED <<now, ch, accounts, history>>

(* The host's own sign-up creates an account.                              *)
SignUp(i) ==
    /\ ~Registered(i)
    /\ accounts' = [accounts EXCEPT ![i] = 1]
    /\ UNCHANGED <<now, ch, job, history>>

Tick ==
    /\ now < MaxTime
    /\ now' = now + 1
    /\ UNCHANGED <<ch, accounts, job, history>>

Answer(w) ==
    RejectDead(w) \/ CountMiss(w) \/ Accept(w) \/ LookUp(w) \/ Attach(w) \/ Provision(w)

Next ==
    \/ \E w \in Worker, i \in Identifier, p \in Purpose : Request(w, i, p)
    \/ \E w \in Worker, c \in Cid :
          \E code \in {Wrong} \cup 0..ch[c].resends : Verify(w, c, code)
    \/ \E w \in Worker : CommitRequest(w) \/ Answer(w) \/ Abort(w)
    \/ \E w \in Worker : PurgeList(w) \/ PurgeNext(w) \/ PurgeDone(w)
    \/ \E c \in Cid : Resend(c)
    \/ \E i \in Identifier : SignUp(i)
    \/ Tick

Spec == Init /\ [][Next]_vars

-----------------------------------------------------------------------------
(* Properties.                                                             *)

Open(c) == Stored(c) /\ ~Consumed(c)
Rivals(c, d) ==
    /\ c # d /\ Open(c) /\ Open(d)
    /\ ch[c].dest = ch[d].dest /\ ch[c].purpose = ch[d].purpose

(* One challenge answers at most MAX_ATTEMPTS wrong guesses and lets one   *)
(* right one through, over all resends and whatever two verifies of it     *)
(* that run at the same time have read (OtpService.verify, resend).        *)
WithinBudget ==
    \A c \in Cid : guesses[c] <= MaxAttempts /\ accepted[c] <= 1

(* A request invalidates every earlier challenge of its user and purpose:  *)
(* two of them are open together only when each was requested before the   *)
(* other was committed.                                                    *)
OnlyOverlappingCoexist ==
    SingleActive =>
        \A c, d \in Cid :
            (Rivals(c, d) /\ Bound(c) /\ Bound(d)) => d \notin before[c]

(* A consumed challenge is final: no resend, guess or request that began   *)
(* earlier changes it again.                                               *)
ConsumedIsFinal ==
    [][\A c \in Cid :
          Consumed(c) => ch'[c] \in {ch[c], [ch[c] EXCEPT !.state = "deleted"]}]_vars

(* The purge, which deletes by primary key what it has listed, only ever   *)
(* deletes a challenge that is well past its expiry, or one that somebody  *)
(* has had resent since the listing (_purge_by_pks, resend).               *)
PurgesExpiredOrResent ==
    [][\A w \in Worker, c \in Cid :
          (PurgeNext(w) /\ Stored(c) /\ ch'[c].state = "deleted")
             => ch[c].expiresAt + Grace < now \/ ch[c].lastSent >= job[w].at]_vars

CodeStatus(c) == IF ch[c].state = "unused" THEN "unborn"
                 ELSE IF Open(c) THEN "open" ELSE "closed"

Code == INSTANCE OneTimeCode
          WITH Budget <- MaxAttempts,
               status <- [c \in Cid |-> CodeStatus(c)],
               left <- [c \in Cid |-> MaxAttempts - guesses[c]],
               successes <- accepted

(* The table implements OneTimeCode: guesses are never given back and a    *)
(* challenge that closed never opens again.                                *)
ImplementsOneTimeCode == Code!CodeSpec

(* The inductive invariant behind these.  The history agrees with the row; *)
(* a worker in the middle of provisioning has an open, unbound challenge   *)
(* with guesses left, to itself; and what a request is about to invalidate *)
(* covers every rival it has seen.                                         *)
Written(c) == ch[c].state # "unused"

RowsCounted ==
    \A c \in Cid :
        /\ guesses[c] = ch[c].attempts
        /\ accepted[c] <= 1
        /\ ~Consumed(c) => accepted[c] = 0
        /\ ~Written(c) => ch[c] = Blank
        /\ Written(c) => ch[c].dest \in Identifier
        /\ \A d \in before[c] : Written(d)

JobsSound ==
    \A w \in Worker :
        /\ job[w].op = "request" =>
              /\ job[w].dest \in Identifier
              /\ \A c \in job[w].todo : Written(c) /\ Bound(c)
              /\ \A c \in job[w].seen :
                    /\ Written(c)
                    /\ ( /\ SingleActive /\ job[w].user # NoIdentifier
                         /\ Open(c) /\ Bound(c)
                         /\ ch[c].dest = job[w].dest
                         /\ ch[c].purpose = job[w].purpose ) => c \in job[w].todo
        /\ job[w].op = "verify" => job[w].cid \in Cid /\ Written(job[w].cid)
        /\ job[w].op \in {"attach", "provision"} =>
              LET c == job[w].cid
              IN  /\ c \in Cid /\ Open(c)
                  /\ ~Bound(c) /\ ch[c].attempts < MaxAttempts

LockExclusive ==
    \A v, w \in Worker :
        ( /\ job[v].op \in {"attach", "provision"}
          /\ job[w].op \in {"attach", "provision"}
          /\ job[v].cid = job[w].cid ) => v = w

IInv ==
    /\ TypeOK
    /\ RowsCounted
    /\ JobsSound
    /\ LockExclusive
    /\ OnlyOverlappingCoexist

=============================================================================
