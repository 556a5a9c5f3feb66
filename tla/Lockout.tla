------------------------------ MODULE Lockout ------------------------------
(***************************************************************************)
(* LockoutService and the password login it guards: LoginView asks         *)
(* is_locked, compares the password and records the attempt, in a row of   *)
(* the LoginAttempt table and, for a failure, in a counter of the cache    *)
(* whose MAX_ATTEMPTS-th increment locks.                                  *)
(*                                                                         *)
(* Nothing here is locked or transactional: each read and each write of    *)
(* the cache, and the row's insert, is a step of the worker's job.  A key  *)
(* holds the version of its identifier's namespace at the time it was      *)
(* built, and unlock only bumps that version, so that a worker can go on   *)
(* with keys built before an unlock; the two keys of an attempt are built  *)
(* one after the other.  Under LOCK_SCOPE "ip" keys have no version.  The  *)
(* clock counts seconds.  A counter's window begins with its entry and     *)
(* does not roll on.                                                       *)
(***************************************************************************)
EXTENDS Integers, FiniteSets

CONSTANTS Worker,
          Identifier,         \* the identifiers of one user
          Ip,
          Scope,              \* LOCKOUT LOCK_SCOPE
          MaxAttempts,        \* LOCKOUT MAX_ATTEMPTS
          WindowTime,         \* LOCKOUT WINDOW_SECONDS
          LockTime,           \* LOCKOUT LOCK_DURATION_SECONDS
          None,
          MaxUnlocks,         \* bounds: versions of a namespace, failures
          MaxFailed,          \* per version, LoginAttempt rows at a time,
          MaxRows, MaxTime    \* the clock

ASSUME LockoutAssumption ==
    /\ None \notin Identifier \cup Ip
    /\ IsFiniteSet(Worker) /\ Worker # {}
    /\ Scope \in {"identifier", "ip", "identifier_and_ip"}
    /\ MaxAttempts \in Nat \ {0} /\ WindowTime \in Nat \ {0}
    /\ LockTime \in Nat \ {0}
    /\ MaxUnlocks \in Nat /\ MaxFailed \in Nat
    /\ MaxRows \in Nat /\ MaxTime \in Nat

VARIABLES now,
          version,            \* of the namespace of each identifier
          counter, lock,      \* the cache entries under each key
          rows,               \* how many rows LoginAttempt has
          job,                \* what each worker is in the middle of
          failed              \* history: failures whose counter's key was
                              \* built for an identifier, at each version

vars == <<now, version, counter, lock, rows, job, failed>>

-----------------------------------------------------------------------------
(* A key: the identifier, the address, or both, and the version.           *)
Key == (Identifier \cup {None}) \X (Ip \cup {None}) \X (0..MaxUnlocks)

KeyAt(i, a, v) == CASE Scope = "identifier" -> <<i, None, v>>
                    [] Scope = "ip" -> <<None, a, 0>>
                    [] OTHER -> <<i, a, v>>

MutKeyOf(i, a) == <<i, a, 0>>
KeyOf(i, a) == KeyAt(i, a, version[i])

Counter == [count : Nat, until : Nat,  \* until 0: no entry
            guesses : Nat,  \* history, since the key last had no entry:
            missed : Nat,   \* passwords compared for failures it counted,
            wiped : Nat]    \* requests that died before they locked, and
                            \* writes that set it back to 1
Lock == [until : Nat,
         since : 0..MaxUnlocks]  \* history: the version at which the failure
                                 \* that set it was recorded

Job == [op : {"idle", "ask", "compare", "locked", "failed", "keyed", "seed",
              "count", "reseed", "lock"},
        id : Identifier \cup {None}, ip : Ip \cup {None},
        compared : {0, 1},               \* passwords it compared
        since : 0..MaxUnlocks,           \* history: version of its countKey
        countKey : Key \cup {None}, lockKey : Key \cup {None}]

Idle == [op |-> "idle", id |-> None, ip |-> None, compared |-> 0,
         since |-> 0, countKey |-> None, lockKey |-> None]
NoEntry == [count |-> 0, until |-> 0, guesses |-> 0, missed |-> 0, wiped |-> 0]

TypeOK ==
    /\ now \in 0..MaxTime
    /\ version \in [Identifier -> 0..MaxUnlocks]
    /\ counter \in [Key -> Counter] /\ lock \in [Key -> Lock]
    /\ rows \in 0..MaxRows
    /\ job \in [Worker -> Job]
    /\ failed \in [Identifier -> [0..MaxUnlocks -> Nat]]

Init ==
    /\ now = 0
    /\ version = [i \in Identifier |-> 0]
    /\ counter = [k \in Key |-> NoEntry]
    /\ lock = [k \in Key |-> [until |-> 0, since |-> 0]]
    /\ rows = 0
    /\ job = [w \in Worker |-> Idle]
    /\ failed = [i \in Identifier |-> [v \in 0..MaxUnlocks |-> 0]]

-----------------------------------------------------------------------------
Counting(k) == now < counter[k].until
Locked(k) == now < lock[k].until

Continue(w, j) == job' = [job EXCEPT ![w] = j]
Finish(w) == job' = [job EXCEPT ![w] = Idle]

(* LoginView: is_locked builds the key of the lock and then reads the      *)
(* entry, which decides whether the password is looked at.                 *)
Login(w, i, a) ==
    /\ job[w] = Idle
    /\ Continue(w, [Idle EXCEPT !.op = "ask", !.id = i, !.ip = a,
                                !.lockKey = KeyOf(i, a)])
    /\ UNCHANGED <<now, version, counter, lock, rows, failed>>

IsLocked(w) ==
    /\ job[w].op = "ask"
    /\ Continue(w, [job[w] EXCEPT
                      !.op = IF Locked(job[w].lockKey) THEN "locked" ELSE "compare"])
    /\ UNCHANGED <<now, version, counter, lock, rows, failed>>

-----------------------------------------------------------------------------
(* authenticate and record_attempt: the row, which is all that a success   *)
(* leaves ...                                                              *)
Record(w) ==
    LET j == job[w]
    IN  /\ j.op \in {"compare", "locked"}
        /\ rows < MaxRows /\ rows' = rows + 1
        /\ \/ j.op = "compare" /\ Finish(w)
           \/ Continue(w, [j EXCEPT !.op = "failed",
                             !.compared = IF j.op = "compare" THEN 1 ELSE 0])
        /\ UNCHANGED <<now, version, counter, lock, failed>>

(* ... the keys of the counter and of the lock ...                         *)
CountKey(w) ==
    LET j == job[w]
    IN  /\ j.op = "failed"
        /\ failed[j.id][version[j.id]] < MaxFailed
        /\ failed' = [failed EXCEPT ![j.id][version[j.id]] = @ + 1]
        /\ Continue(w, [j EXCEPT !.op = "keyed", !.since = version[j.id],
                                 !.countKey = KeyOf(j.id, j.ip)])
        /\ UNCHANGED <<now, version, counter, lock, rows>>

LockKey(w) ==
    /\ job[w].op = "keyed"
    /\ Continue(w, [job[w] EXCEPT !.op = "seed",
                                  !.lockKey = KeyOf(job[w].id, job[w].ip)])
    /\ UNCHANGED <<now, version, counter, lock, rows, failed>>

(* ... the counter's add and its incr ...                                  *)
New == [NoEntry EXCEPT !.until = now + WindowTime]

MutSeeded(c) == IF now < c.until THEN [c EXCEPT !.count = 0] ELSE New
Seeded(c) == IF now < c.until THEN c ELSE New

Seed(w) ==
    LET j == job[w]
    IN  /\ j.op = "seed"
        /\ counter' = [counter EXCEPT ![j.countKey] = Seeded(@)]
        /\ Continue(w, [j EXCEPT !.op = "count"])
        /\ UNCHANGED <<now, version, lock, rows, failed>>

(* The count that an incr or a set leaves decides what comes next.         *)
AfterCount(w, count) ==
    IF count >= MaxAttempts THEN Continue(w, [job[w] EXCEPT !.op = "lock"])
    ELSE Finish(w)

Counted(c, j) == [c EXCEPT !.count = @ + 1, !.guesses = @ + j.compared]

Count(w) ==
    LET j == job[w]
        c == Counted(counter[j.countKey], j)
    IN  /\ j.op = "count"
        /\ \/ /\ Counting(j.countKey)
              /\ counter' = [counter EXCEPT ![j.countKey] = c]
              /\ AfterCount(w, c.count)
           \/ /\ ~Counting(j.countKey)
              /\ Continue(w, [j EXCEPT !.op = "reseed"])
              /\ UNCHANGED counter
        /\ UNCHANGED <<now, version, lock, rows, failed>>

(* ... and, when the incr found the entry expired, a set to 1, which does  *)
(* not look whether another request has made a new entry meanwhile.        *)
Reseeded(c, j) ==
    LET old == IF now < c.until THEN [c EXCEPT !.wiped = @ + 1] ELSE New
    IN  [old EXCEPT !.count = 1, !.until = now + WindowTime,
                    !.guesses = @ + j.compared]

Reseed(w) ==
    LET j == job[w]
    IN  /\ j.op = "reseed"
        /\ counter' = [counter EXCEPT ![j.countKey] = Reseeded(@, j)]
        /\ AfterCount(w, 1)
        /\ UNCHANGED <<now, version, lock, rows, failed>>

(* At the limit, the lock's add.                                           *)
LockOut(w) ==
    LET j == job[w]
    IN  /\ j.op = "lock"
        /\ lock' = IF Locked(j.lockKey) THEN lock
                   ELSE [lock EXCEPT ![j.lockKey] =
                           [until |-> now + LockTime, since |-> j.since]]
        /\ Finish(w)
        /\ UNCHANGED <<now, version, counter, rows, failed>>

(* unlock, which unlock_user calls for every identifier of the user.       *)
Unlock(i) ==
    /\ version[i] < MaxUnlocks
    /\ version' = [version EXCEPT ![i] = @ + 1]
    /\ UNCHANGED <<now, counter, lock, rows, job, failed>>

(* The purge of a LoginAttempt row that is old enough.                     *)
Purge ==
    /\ rows > 0 /\ rows' = rows - 1
    /\ UNCHANGED <<now, version, counter, lock, job, failed>>

(* A request dies; one that had counted and was about to lock is missed.   *)
Abort(w) ==
    /\ job[w] # Idle
    /\ counter' = IF job[w].op = "lock"
                  THEN [counter EXCEPT ![job[w].countKey].missed = @ + 1] ELSE counter
    /\ Finish(w)
    /\ UNCHANGED <<now, version, lock, rows, failed>>

Tick ==
    /\ now < MaxTime
    /\ now' = now + 1
    /\ UNCHANGED <<version, counter, lock, rows, job, failed>>

Next ==
    \/ \E w \in Worker, i \in Identifier, a \in Ip : Login(w, i, a)
    \/ \E w \in Worker :
          \/ IsLocked(w) \/ Record(w) \/ CountKey(w) \/ LockKey(w)
          \/ Seed(w) \/ Count(w) \/ Reseed(w) \/ LockOut(w) \/ Abort(w)
    \/ \E i \in Identifier : Unlock(i)
    \/ Purge \/ Tick

Spec == Init /\ [][Next]_vars

-----------------------------------------------------------------------------
(* Properties.                                                             *)

(* One counter lets through MAX_ATTEMPTS - 1 guesses, and one more for     *)
(* each request that can have passed is_locked before the lock was set, or *)
(* died before it set it.  A lock in force is not extended when a later    *)
(* counter reaches MAX_ATTEMPTS under it, and may end before that counter: *)
(* the requests under way when it was set, of which the one that set it is *)
(* none, are then the first guesses, where there are more of them.  (A     *)
(* lock shorter than the window, unlike that of the defaults, ends while   *)
(* its counter runs on, and each such lock admits as many guesses again.)  *)
(* The set after a failed incr forgets what a new entry has counted and    *)
(* lets as many guesses through again; it can only come from a request     *)
(* that found the key without an entry, so that while the key has one, be  *)
(* it set back or not, fewer sets forget it than there are workers.        *)
FirstGuesses == IF MaxAttempts >= Cardinality(Worker) THEN MaxAttempts - 1
                ELSE Cardinality(Worker) - 1
OneCounter == FirstGuesses + Cardinality(Worker)

GuessesBounded ==
    \A k \in Key :
        /\ counter[k].wiped < Cardinality(Worker)
        /\ LockTime >= WindowTime =>
              counter[k].guesses <= counter[k].wiped * OneCounter + OneCounter
                                       + counter[k].missed

(* After an unlock the user is locked out again only by MAX_ATTEMPTS       *)
(* failures whose counter's key was built since, or by a failure that had  *)
(* built it before unlock ran and locks after (unlock, record_attempt).    *)
LockedByFailures ==
    \A i \in Identifier, a \in Ip :
        LET k == KeyOf(i, a)
        IN  (Scope # "ip" /\ Locked(k) /\ lock[k].since = version[i])
               => failed[i][version[i]] >= MaxAttempts

-----------------------------------------------------------------------------
(* The inductive invariant.  A counter counts no failure twice: what it    *)
(* holds, and what is about to be added to it, was recorded at its version.*)
Pending(k) ==
    {w \in Worker : job[w].op \in {"keyed", "seed", "count", "reseed"}
                       /\ job[w].countKey = k}
CountedOnce ==
    \A i \in Identifier, a \in Ip \cup {None}, v \in 0..MaxUnlocks :
        counter[<<i, a, v>>].count + Cardinality(Pending(<<i, a, v>>)) <= failed[i][v]

(* The keys a failure was given are of its identifier, the first of them   *)
(* of the version it was recorded at; and a failure that is about to lock  *)
(* is one of MAX_ATTEMPTS of that version.                                 *)
Keyed == {"keyed", "seed", "count", "reseed", "lock"}
Armed == {"seed", "count", "reseed", "lock"}
KeysOfFailure ==
    \A w \in Worker :
        LET j == job[w]
        IN  /\ j.op # "idle" => j.id \in Identifier /\ j.ip \in Ip
            /\ j.op \in Keyed => j.countKey \in Key
            /\ j.op \in Armed \cup {"ask"} => j.lockKey \in Key
            /\ (Scope # "ip" /\ j.op \in Keyed) =>
                  j.countKey[1] = j.id /\ j.countKey[3] = j.since
            /\ (Scope # "ip" /\ j.op \in Armed) => j.lockKey[1] = j.id
            /\ (Scope # "ip" /\ j.op = "lock") =>
                  failed[j.id][j.since] >= MaxAttempts

(* A lock is only set by a failure whose version saw MAX_ATTEMPTS of them. *)
LocksEarned ==
    \A i \in Identifier, a \in Ip \cup {None}, v \in 0..MaxUnlocks :
        (Scope # "ip" /\ lock[<<i, a, v>>].until # 0)
            => failed[i][lock[<<i, a, v>>].since] >= MaxAttempts

IInv == TypeOK /\ CountedOnce /\ KeysOfFailure /\ LocksEarned

(* For the bound on guesses: both keys of a failure are of its identifier  *)
(* and address, the second at the same version or a later one, and the one *)
(* that is_locked reads is of no later version than now; no lock is of a   *)
(* version to come; a counter lasts no longer than its window.             *)
KeysAgree ==
    \A w \in Worker :
        LET j == job[w]
        IN  /\ j.op \in Keyed =>
                  j.countKey = KeyAt(j.id, j.ip, j.since) /\ j.since <= version[j.id]
            /\ j.op \in Armed =>
                  \E v \in j.since..version[j.id] : j.lockKey = KeyAt(j.id, j.ip, v)
            /\ j.op = "ask" =>
                  \E v \in 0..version[j.id] : j.lockKey = KeyAt(j.id, j.ip, v)

LocksBehind ==
    \A k \in Key : (Scope # "ip" /\ k[1] \in Identifier /\ lock[k].until # 0)
                      => k[3] <= version[k[1]]

CountersNear == \A k \in Key : counter[k].until <= now + WindowTime

(* Who may set the counter of k back is one of those that found no entry:  *)
(* the request that made this one is not among them.                       *)
MayWipe(k) == {w \in Worker : job[w].op = "reseed" /\ job[w].countKey = k}
WipesFew ==
    \A k \in Key :
        Counting(k) => counter[k].wiped + Cardinality(MayWipe(k))
                          < Cardinality(Worker)

(* The requests whose guess may yet be counted under k, the ones that have *)
(* brought the counter of k to the limit, and the guesses it holds now.    *)
(* (Who asks with the key of an earlier version does not see the lock of   *)
(* k, and may be counted under k all the same.)                            *)
MayGuess(k) ==
    {w \in Worker :
        LET j == job[w]
        IN  \/ /\ j.op = "ask" /\ j.lockKey # k
               /\ \E u \in 0..MaxUnlocks :
                     /\ j.lockKey = KeyAt(j.id, j.ip, u)
                     /\ \E v \in u..MaxUnlocks : k = KeyAt(j.id, j.ip, v)
            \/ /\ j.op = "compare" \/ (j.op = "failed" /\ j.compared = 1)
               /\ \E v \in version[j.id]..MaxUnlocks : k = KeyAt(j.id, j.ip, v)
            \/ /\ j.op \in {"keyed", "seed", "count", "reseed"}
               /\ j.countKey = k /\ j.compared = 1}
MayLock(k) == {w \in Worker : job[w].op = "lock" /\ job[w].countKey = k}
Guessed(k) == IF Counting(k) THEN counter[k].guesses ELSE 0

(* A key that no request will be given again, and one under lock for as    *)
(* long as its counter counts.                                             *)
Superseded(k) == Scope # "ip" /\ k[1] \in Identifier /\ k[3] < version[k[1]]
Covered(k) == Locked(k) /\ counter[k].until <= lock[k].until

(* Nobody passes is_locked under a lock, so that the request that set it   *)
(* is not among those that may still guess.  Before a lock covers it, a    *)
(* counter has let through the first guesses and one for each request that *)
(* is about to lock; from then on only those already under way can add.    *)
(* All of it on top of what was let through before a set forgot it.        *)
Before(k) == counter[k].wiped * OneCounter + counter[k].missed
WaveOf(k) ==
    LET ahead == Cardinality(MayGuess(k))
    IN  /\ Locked(k) => ahead <= Cardinality(Worker) - 1
        /\ (Locked(k) /\ Counting(k) /\ ~Covered(k))
              => Guessed(k) + ahead <= Before(k) + Cardinality(Worker) - 1
        /\ (Covered(k) \/ Superseded(k))
              => Guessed(k) + ahead <= Before(k) + OneCounter
        /\ (~Covered(k) /\ ~Superseded(k))
              => Guessed(k) <= Before(k) + FirstGuesses + Cardinality(MayLock(k))
        /\ Guessed(k) <= Before(k) + counter[k].count
Waves == LockTime >= WindowTime => \A k \in Key : WaveOf(k)

GInv ==
    /\ IInv /\ KeysAgree /\ LocksBehind /\ CountersNear /\ WipesFew
    /\ Waves /\ GuessesBounded

=============================================================================
