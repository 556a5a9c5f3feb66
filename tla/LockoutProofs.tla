--------------------------- MODULE LockoutProofs ---------------------------
(***************************************************************************)
(* Proofs about Lockout, for every number of workers, identifiers and      *)
(* addresses, every scope and every value of the LOCKOUT settings.         *)
(***************************************************************************)
EXTENDS Lockout, FiniteSetTheorems, TLAPS

-----------------------------------------------------------------------------
(* Keys, jobs and cache entries are well typed.                            *)
Version == 0..MaxUnlocks
Op == {"idle", "ask", "compare", "locked", "failed", "keyed", "seed", "count",
       "reseed", "lock"}

LEMMA KeyOfType ==
    ASSUME TypeOK, NEW i \in Identifier, NEW a \in Ip
    PROVE  /\ KeyOf(i, a) \in Key
           /\ Scope # "ip" => KeyOf(i, a)[1] = i /\ KeyOf(i, a)[3] = version[i]
           /\ Scope = "ip" => KeyOf(i, a)[1] = None
  <1>1. 0 \in 0..MaxUnlocks /\ version[i] \in 0..MaxUnlocks
    BY LockoutAssumption DEF TypeOK
  <1>. QED  BY <1>1, LockoutAssumption DEF KeyOf, KeyAt, Key

LEMMA JobFields ==
    ASSUME NEW j \in Job
    PROVE  /\ j.id \in Identifier \cup {None} /\ j.ip \in Ip \cup {None}
           /\ j.since \in Version /\ j.compared \in {0, 1} /\ j.op \in Op
           /\ j.countKey \in Key \cup {None} /\ j.lockKey \in Key \cup {None}
  BY DEF Job, Version, Op

LEMMA IdleJob == Idle \in Job /\ Idle.op = "idle" /\ Idle.compared = 0
  BY LockoutAssumption DEF Idle, Job

(* What a step makes of a job.                                             *)
SameBut(n, j) ==
    /\ n.id = j.id /\ n.ip = j.ip /\ n.compared = j.compared
    /\ n.since = j.since /\ n.countKey = j.countKey /\ n.lockKey = j.lockKey

LEMMA OpJob ==
    ASSUME NEW j \in Job, NEW o \in Op
    PROVE  LET n == [j EXCEPT !.op = o]
           IN  n \in Job /\ n.op = o /\ SameBut(n, j)
  BY DEF Job, Op, SameBut

LEMMA Others ==
    ASSUME TypeOK, NEW w \in Worker, NEW j \in Job, Continue(w, j)
    PROVE  /\ job' \in [Worker -> Job] /\ job'[w] = j
           /\ \A v \in Worker : v # w => job'[v] = job[v]
  BY DEF TypeOK, Continue

LEMMA Finished ==
    ASSUME TypeOK, NEW w \in Worker, Finish(w)
    PROVE  /\ job' \in [Worker -> Job] /\ job'[w] = Idle
           /\ \A v \in Worker : v # w => job'[v] = job[v]
  BY IdleJob DEF TypeOK, Finish

(* The job that each step of a worker leaves it with.                      *)
MovesOnly(w) == /\ job' \in [Worker -> Job]
                /\ \A v \in Worker : v # w => job'[v] = job[v]

LEMMA LoginMoves ==
    ASSUME TypeOK, NEW w \in Worker, NEW i \in Identifier, NEW a \in Ip,
           Login(w, i, a)
    PROVE  /\ MovesOnly(w) /\ job[w] = Idle
           /\ job'[w].op = "ask" /\ job'[w].id = i /\ job'[w].ip = a
           /\ job'[w].lockKey = KeyOf(i, a) /\ job'[w].compared = 0
  <1>1. (\E k \in Key : k = KeyOf(i, a)) /\ 0 \in 0..MaxUnlocks
    BY KeyOfType, LockoutAssumption
  <1>0. PICK k \in Key : k = KeyOf(i, a)
    BY <1>1
  <1>. DEFINE n == [Idle EXCEPT !.op = "ask", !.id = i, !.ip = a, !.lockKey = k]
  <1>2. /\ n \in Job /\ n.op = "ask" /\ n.id = i /\ n.ip = a
        /\ n.lockKey = k /\ n.compared = 0
    BY <1>1 DEF Idle, Job
  <1>3. Continue(w, n) /\ job[w] = Idle
    BY <1>0 DEF Login
  <1>. HIDE DEF n
  <1>. QED  BY <1>0, <1>2, <1>3, Others DEF MovesOnly

LEMMA OpMoves ==
    ASSUME TypeOK, NEW w \in Worker, NEW o \in Op,
           Continue(w, [job[w] EXCEPT !.op = o])
    PROVE  MovesOnly(w) /\ job'[w].op = o /\ SameBut(job'[w], job[w])
  <1>. DEFINE n == [job[w] EXCEPT !.op = o]
  <1>1. n \in Job /\ n.op = o /\ SameBut(n, job[w]) /\ Continue(w, n)
    BY OpJob DEF TypeOK
  <1>. HIDE DEF n
  <1>. QED  BY <1>1, Others DEF MovesOnly

LEMMA FinishMoves ==
    ASSUME TypeOK, NEW w \in Worker, Finish(w)
    PROVE  MovesOnly(w) /\ job'[w] = Idle
  BY Finished DEF MovesOnly

LEMMA IsLockedMoves ==
    ASSUME TypeOK, NEW w \in Worker, IsLocked(w)
    PROVE  /\ MovesOnly(w) /\ SameBut(job'[w], job[w])
           /\ job'[w].op = IF Locked(job[w].lockKey) THEN "locked" ELSE "compare"
  <1>1. (IF Locked(job[w].lockKey) THEN "locked" ELSE "compare") \in Op
    BY DEF Op
  <1>. QED  BY <1>1, OpMoves DEF IsLocked

LEMMA RecordMoves ==
    ASSUME TypeOK, NEW w \in Worker, Record(w)
    PROVE  /\ MovesOnly(w)
           /\ \/ job'[w] = Idle
              \/ /\ job'[w].op = "failed" /\ job'[w].id = job[w].id
                 /\ job'[w].ip = job[w].ip
                 /\ job'[w].compared = 1 => job[w].op = "compare"
  <1>. DEFINE b == IF job[w].op = "compare" THEN 1 ELSE 0
              n == [job[w] EXCEPT !.op = "failed", !.compared = b]
  <1>1. Finish(w) \/ Continue(w, n)
    BY DEF Record
  <1>2. /\ n \in Job /\ n.op = "failed" /\ n.compared = b
        /\ n.id = job[w].id /\ n.ip = job[w].ip
    <2>1. b \in {0, 1}
      OBVIOUS
    <2>. HIDE DEF b
    <2>. QED  BY <2>1 DEF TypeOK, Job
  <1>. HIDE DEF n
  <1>3. CASE Finish(w)
    BY <1>3, FinishMoves
  <1>4. CASE Continue(w, n)
    BY <1>2, <1>4, Others DEF MovesOnly
  <1>. QED  BY <1>1, <1>3, <1>4

LEMMA CountKeyMoves ==
    ASSUME TypeOK, KeysOfFailure, NEW w \in Worker, CountKey(w)
    PROVE  /\ MovesOnly(w) /\ job[w].id \in Identifier /\ job[w].ip \in Ip
           /\ job'[w].op = "keyed" /\ job'[w].since = version[job[w].id]
           /\ job'[w].countKey = KeyOf(job[w].id, job[w].ip)
           /\ job'[w].id = job[w].id /\ job'[w].ip = job[w].ip
           /\ job'[w].compared = job[w].compared
  <1>1. /\ job[w].id \in Identifier /\ job[w].ip \in Ip /\ job[w] \in Job
        /\ version[job[w].id] \in Version
    BY DEF CountKey, KeysOfFailure, TypeOK, Version
  <1>2. KeyOf(job[w].id, job[w].ip) \in Key
    BY <1>1, KeyOfType
  <1>. DEFINE n == [job[w] EXCEPT !.op = "keyed", !.since = version[job[w].id],
                                  !.countKey = KeyOf(job[w].id, job[w].ip)]
  <1>3. /\ n \in Job /\ n.op = "keyed" /\ n.since = version[job[w].id]
        /\ n.countKey = KeyOf(job[w].id, job[w].ip)
        /\ n.id = job[w].id /\ n.ip = job[w].ip /\ n.compared = job[w].compared
    BY <1>1, <1>2 DEF Job, Version
  <1>4. Continue(w, n)
    BY DEF CountKey
  <1>. HIDE DEF n
  <1>. QED  BY <1>1, <1>3, <1>4, Others DEF MovesOnly

LEMMA LockKeyMoves ==
    ASSUME TypeOK, KeysOfFailure, NEW w \in Worker, LockKey(w)
    PROVE  /\ MovesOnly(w) /\ job[w].id \in Identifier /\ job[w].ip \in Ip
           /\ job'[w].op = "seed" /\ job'[w].lockKey = KeyOf(job[w].id, job[w].ip)
           /\ job'[w].since = job[w].since /\ job'[w].countKey = job[w].countKey
           /\ job'[w].id = job[w].id /\ job'[w].ip = job[w].ip
           /\ job'[w].compared = job[w].compared
  <1>1. job[w].id \in Identifier /\ job[w].ip \in Ip /\ job[w] \in Job
    BY DEF LockKey, KeysOfFailure, TypeOK
  <1>2. KeyOf(job[w].id, job[w].ip) \in Key
    BY <1>1, KeyOfType
  <1>. DEFINE n == [job[w] EXCEPT !.op = "seed",
                                  !.lockKey = KeyOf(job[w].id, job[w].ip)]
  <1>3. /\ n \in Job /\ n.op = "seed" /\ n.lockKey = KeyOf(job[w].id, job[w].ip)
        /\ n.since = job[w].since /\ n.countKey = job[w].countKey
        /\ n.id = job[w].id /\ n.ip = job[w].ip /\ n.compared = job[w].compared
    BY <1>1, <1>2 DEF Job
  <1>4. Continue(w, n)
    BY DEF LockKey
  <1>. HIDE DEF n
  <1>. QED  BY <1>1, <1>3, <1>4, Others DEF MovesOnly

LEMMA SeedMoves ==
    ASSUME TypeOK, NEW w \in Worker, Seed(w)
    PROVE  MovesOnly(w) /\ job'[w].op = "count" /\ SameBut(job'[w], job[w])
  BY OpMoves DEF Seed, Op

LEMMA AfterCountMoves ==
    ASSUME TypeOK, NEW w \in Worker, NEW count, AfterCount(w, count)
    PROVE  /\ MovesOnly(w)
           /\ \/ count >= MaxAttempts /\ job'[w].op = "lock" /\ SameBut(job'[w], job[w])
              \/ ~(count >= MaxAttempts) /\ job'[w] = Idle
  BY OpMoves, FinishMoves DEF AfterCount, Op

(* An incr counts in an entry in force, or leaves the failure to a set.    *)
LEMMA CountMoves ==
    ASSUME TypeOK, NEW w \in Worker, Count(w)
    PROVE  /\ MovesOnly(w) /\ job[w].op = "count"
           /\ \/ /\ Counting(job[w].countKey)
                 /\ counter' = [counter EXCEPT ![job[w].countKey] =
                                   Counted(counter[job[w].countKey], job[w])]
                 /\ AfterCount(w, Counted(counter[job[w].countKey], job[w]).count)
              \/ /\ ~Counting(job[w].countKey) /\ counter' = counter
                 /\ job'[w].op = "reseed" /\ SameBut(job'[w], job[w])
  <1>1. CASE Counting(job[w].countKey)
    BY <1>1, AfterCountMoves DEF Count
  <1>2. CASE ~Counting(job[w].countKey)
    BY <1>2, OpMoves DEF Count, Op
  <1>. QED  BY <1>1, <1>2

LEMMA ReseedMoves ==
    ASSUME TypeOK, NEW w \in Worker, Reseed(w)
    PROVE  MovesOnly(w) /\ job[w].op = "reseed" /\ AfterCount(w, 1)
  BY AfterCountMoves DEF Reseed

LEMMA LockOutMoves ==
    ASSUME TypeOK, NEW w \in Worker, LockOut(w)
    PROVE  MovesOnly(w) /\ job'[w] = Idle /\ job[w].op = "lock"
  BY FinishMoves DEF LockOut

LEMMA AbortMoves ==
    ASSUME TypeOK, NEW w \in Worker, Abort(w)
    PROVE  MovesOnly(w) /\ job'[w] = Idle
  BY FinishMoves DEF Abort

-----------------------------------------------------------------------------
(* What is written to a counter.                                           *)
LEMMA CounterFields ==
    ASSUME NEW c \in Counter
    PROVE  /\ c.count \in Nat /\ c.until \in Nat /\ c.guesses \in Nat
           /\ c.missed \in Nat /\ c.wiped \in Nat
  BY DEF Counter

LEMMA NewType ==
    ASSUME now \in Nat
    PROVE  /\ New \in Counter /\ New.count = 0 /\ New.guesses = 0
           /\ New.missed = 0 /\ New.wiped = 0 /\ New.until = now + WindowTime
  BY LockoutAssumption DEF New, NoEntry, Counter

LEMMA CountedType ==
    ASSUME NEW c \in Counter, NEW j \in Job
    PROVE  /\ Counted(c, j) \in Counter /\ Counted(c, j).count = c.count + 1
           /\ Counted(c, j).guesses = c.guesses + j.compared
           /\ Counted(c, j).until = c.until /\ Counted(c, j).missed = c.missed
           /\ Counted(c, j).wiped = c.wiped
  <1>1. PICK e \in {0, 1} : e = j.compared
    BY JobFields
  <1>2. c.count + 1 \in Nat /\ c.guesses + e \in Nat
    BY CounterFields
  <1>3. Counted(c, j) = [c EXCEPT !.count = c.count + 1, !.guesses = c.guesses + e]
    BY <1>1 DEF Counted
  <1>. QED  BY <1>1, <1>2, <1>3 DEF Counter

LEMMA MissedType ==
    ASSUME NEW c \in Counter
    PROVE  LET n == [c EXCEPT !.missed = @ + 1]
           IN  /\ n \in Counter /\ n.count = c.count /\ n.guesses = c.guesses
               /\ n.until = c.until /\ n.missed = c.missed + 1 /\ n.wiped = c.wiped
  BY DEF Counter

LEMMA ReseededType ==
    ASSUME now \in Nat, NEW c \in Counter, NEW j \in Job
    PROVE  LET n == Reseeded(c, j)
           IN  /\ n \in Counter /\ n.count = 1 /\ n.until = now + WindowTime
               /\ now < c.until =>
                     /\ n.guesses = c.guesses + j.compared /\ n.wiped = c.wiped + 1
                     /\ n.missed = c.missed
               /\ ~(now < c.until) =>
                     n.guesses = j.compared /\ n.wiped = 0 /\ n.missed = 0
  <1>1. PICK e \in {0, 1} : e = j.compared
    BY JobFields
  <1>. DEFINE old == IF now < c.until THEN [c EXCEPT !.wiped = c.wiped + 1] ELSE New
  <1>2. /\ old \in Counter
        /\ now < c.until => /\ old.guesses = c.guesses /\ old.wiped = c.wiped + 1
                            /\ old.missed = c.missed
        /\ ~(now < c.until) => old.guesses = 0 /\ old.wiped = 0 /\ old.missed = 0
    <2>1. CASE now < c.until
      BY <2>1, CounterFields DEF Counter
    <2>2. CASE ~(now < c.until)
      BY <2>2, NewType
    <2>. QED  BY <2>1, <2>2
  <1>3. Reseeded(c, j) = [old EXCEPT !.count = 1, !.until = now + WindowTime,
                                     !.guesses = old.guesses + e]
    BY <1>1 DEF Reseeded
  <1>. HIDE DEF old
  <1>4. PICK u \in Nat, g \in Nat : u = now + WindowTime /\ g = old.guesses + e
    BY <1>2, LockoutAssumption, CounterFields
  <1>5. c.guesses \in Nat
    BY CounterFields
  <1>6. LET n == Reseeded(c, j)
        IN  /\ n \in Counter /\ n.count = 1 /\ n.until = now + WindowTime
            /\ n.guesses = old.guesses + e /\ n.wiped = old.wiped
            /\ n.missed = old.missed
    <2>1. Reseeded(c, j) = [old EXCEPT !.count = 1, !.until = u, !.guesses = g]
      BY <1>3, <1>4
    <2>2. /\ [old EXCEPT !.count = 1, !.until = u, !.guesses = g] \in Counter
          /\ [old EXCEPT !.count = 1, !.until = u, !.guesses = g].count = 1
          /\ [old EXCEPT !.count = 1, !.until = u, !.guesses = g].until = u
          /\ [old EXCEPT !.count = 1, !.until = u, !.guesses = g].guesses = g
          /\ [old EXCEPT !.count = 1, !.until = u, !.guesses = g].wiped = old.wiped
          /\ [old EXCEPT !.count = 1, !.until = u, !.guesses = g].missed = old.missed
      BY <1>2 DEF Counter
    <2>. QED  BY <1>4, <2>1, <2>2
  <1>. QED  BY <1>1, <1>2, <1>5, <1>6

(* How a step can change one key's counter.                                *)
Touched(k) ==
    \/ counter'[k] = counter[k]
    \/ /\ ~Counting(k) /\ counter'[k] = New
    \/ /\ counter'[k] = [counter[k] EXCEPT !.missed = @ + 1]
       /\ \E w \in Worker : Abort(w)
    \/ \E w \in Worker : /\ job[w].op = "count" /\ Count(w) /\ job[w].countKey = k
                         /\ Counting(k) /\ counter'[k] = Counted(counter[k], job[w])
    \/ \E w \in Worker : /\ job[w].op = "reseed" /\ Reseed(w) /\ job[w].countKey = k
                         /\ counter'[k] = Reseeded(counter[k], job[w])

LEMMA CounterTouched ==
    ASSUME TypeOK, KeysOfFailure, [Next]_vars, NEW k \in Key
    PROVE  Touched(k) /\ (counter'[k] # counter[k] => now' = now)
  <1>1. ASSUME NEW w \in Worker, Seed(w)
        PROVE  Touched(k) /\ now' = now
    BY <1>1 DEF Seed, Seeded, Touched, Counting, TypeOK
  <1>2. ASSUME NEW w \in Worker, Count(w)
        PROVE  Touched(k) /\ now' = now
    BY <1>2, CountMoves DEF Count, Touched, TypeOK
  <1>3. ASSUME NEW w \in Worker, Reseed(w)
        PROVE  Touched(k) /\ now' = now
    BY <1>3 DEF Reseed, Touched, TypeOK
  <1>4. ASSUME NEW w \in Worker, Abort(w)
        PROVE  Touched(k) /\ now' = now
    BY <1>4 DEF Abort, Touched, TypeOK
  <1>5. CASE counter' = counter
    BY <1>5 DEF Touched
  <1>6. \/ counter' = counter
        \/ \E w \in Worker : Seed(w) \/ Count(w) \/ Reseed(w) \/ Abort(w)
    BY DEF Next, vars, Login, IsLocked, Record, CountKey, LockKey, LockOut, Unlock,
           Purge, Tick
  <1>. QED  BY <1>1, <1>2, <1>3, <1>4, <1>5, <1>6

-----------------------------------------------------------------------------
(* Types are kept.                                                         *)
LEMMA NextCounterType ==
    ASSUME TypeOK, KeysOfFailure, [Next]_vars, NEW k \in Key
    PROVE  counter'[k] \in Counter
  <1>1. now \in Nat /\ counter[k] \in Counter /\ \A w \in Worker : job[w] \in Job
    BY LockoutAssumption DEF TypeOK
  <1>2. New \in Counter
    BY <1>1, NewType
  <1>3. [counter[k] EXCEPT !.missed = @ + 1] \in Counter
    BY <1>1, MissedType
  <1>4. \A w \in Worker : /\ Counted(counter[k], job[w]) \in Counter
                          /\ Reseeded(counter[k], job[w]) \in Counter
    BY <1>1, CountedType, ReseededType
  <1>. QED  BY <1>1, <1>2, <1>3, <1>4, CounterTouched DEF Touched

LEMMA NextTypeOK == TypeOK /\ KeysOfFailure /\ [Next]_vars => TypeOK'
  <1>. SUFFICES ASSUME TypeOK, KeysOfFailure, [Next]_vars  PROVE TypeOK'
    OBVIOUS
  <1>0. now \in Nat
    BY LockoutAssumption DEF TypeOK
  <1>1. counter' \in [Key -> Counter]
    <2>1. ASSUME NEW k, NEW c, counter' = [counter EXCEPT ![k] = c]
          PROVE  counter' \in [Key -> Counter]
      BY <2>1, NextCounterType DEF TypeOK
    <2>2. CASE counter' = counter
      BY <2>2 DEF TypeOK
    <2>3. counter' = counter \/ \E k, c : counter' = [counter EXCEPT ![k] = c]
      BY DEF Next, vars, Login, IsLocked, Record, CountKey, LockKey, Seed, Count,
             Reseed, LockOut, Abort, Unlock, Purge, Tick
    <2>. QED  BY <2>1, <2>2, <2>3
  <1>2. ASSUME NEW w \in Worker, LockOut(w)  PROVE TypeOK'
    <2>1. job[w] \in Job /\ job[w].since \in 0..MaxUnlocks
      BY JobFields DEF TypeOK, Version
    <2>2. [until |-> now + LockTime, since |-> job[w].since] \in Lock
      BY <1>0, <2>1, LockoutAssumption DEF Lock
    <2>3. lock' \in [Key -> Lock]
      BY <1>2, <2>2 DEF LockOut, TypeOK
    <2>. QED  BY <1>1, <1>2, <2>3, LockOutMoves DEF LockOut, TypeOK, MovesOnly
  <1>3. ASSUME NEW w \in Worker, Record(w)  PROVE TypeOK'
    <2>1. /\ rows' \in 0..MaxRows
          /\ now' = now /\ version' = version /\ lock' = lock /\ failed' = failed
      BY <1>3, LockoutAssumption DEF Record, TypeOK
    <2>2. job' \in [Worker -> Job]
      BY <1>3, RecordMoves DEF MovesOnly
    <2>. QED  BY <1>1, <2>1, <2>2 DEF TypeOK
  <1>4. ASSUME NEW w \in Worker, CountKey(w)  PROVE TypeOK'
    <2>1. PICK i \in Identifier : i = job[w].id
      BY <1>4, CountKeyMoves
    <2>2. PICK v \in 0..MaxUnlocks : v = version[i]
      BY DEF TypeOK
    <2>3. failed' = [failed EXCEPT ![i] = [failed[i] EXCEPT ![v] = failed[i][v] + 1]]
      BY <1>4, <2>1, <2>2 DEF CountKey
    <2>4. failed' \in [Identifier -> [0..MaxUnlocks -> Nat]]
      <3>0. failed[i][v] \in Nat
        BY DEF TypeOK
      <3>1. PICK n \in Nat : n = failed[i][v] + 1
        BY <3>0
      <3>2. [failed[i] EXCEPT ![v] = n] \in [0..MaxUnlocks -> Nat]
        BY DEF TypeOK
      <3>. QED  BY <2>3, <3>1, <3>2 DEF TypeOK
    <2>. QED  BY <1>1, <1>4, <2>4, CountKeyMoves DEF CountKey, TypeOK, MovesOnly
  <1>5. ASSUME NEW w \in Worker, NEW i \in Identifier, NEW a \in Ip, Login(w, i, a)
        PROVE  TypeOK'
    BY <1>1, <1>5, LoginMoves DEF Login, TypeOK, MovesOnly
  <1>6. ASSUME NEW w \in Worker, IsLocked(w) \/ LockKey(w) \/ Seed(w)
        PROVE  TypeOK'
    BY <1>1, <1>6, IsLockedMoves, LockKeyMoves, SeedMoves
       DEF IsLocked, LockKey, Seed, TypeOK, MovesOnly
  <1>7. ASSUME NEW w \in Worker, Count(w) \/ Reseed(w) \/ Abort(w)
        PROVE  TypeOK'
    BY <1>1, <1>7, CountMoves, ReseedMoves, AbortMoves
       DEF Count, Reseed, Abort, TypeOK, MovesOnly
  <1>8. ASSUME NEW i \in Identifier, Unlock(i)  PROVE TypeOK'
    BY <1>8, LockoutAssumption DEF Unlock, TypeOK
  <1>9. CASE Purge \/ Tick
    BY <1>9, LockoutAssumption DEF Purge, Tick, TypeOK
  <1>10. CASE UNCHANGED vars
    BY <1>10 DEF vars, TypeOK
  <1>. QED
    BY <1>2, <1>3, <1>4, <1>5, <1>6, <1>7, <1>8, <1>9, <1>10 DEF Next

-----------------------------------------------------------------------------
(* What a step keeps: failures are only added.                             *)
LEMMA PendingFinite ==
    ASSUME NEW k
    PROVE  /\ IsFiniteSet(Pending(k)) /\ Cardinality(Pending(k)) \in Nat
           /\ Pending(k) # {} => Cardinality(Pending(k)) >= 1
  <1>1. IsFiniteSet(Pending(k))
    BY LockoutAssumption, FS_Subset DEF Pending
  <1>2. Cardinality(Pending(k)) \in Nat
    BY <1>1, FS_CardinalityType
  <1>3. Pending(k) # {} => Cardinality(Pending(k)) # 0
    BY <1>1, FS_EmptySet
  <1>. QED  BY <1>1, <1>2, <1>3

LEMMA FailedGrows ==
    ASSUME TypeOK, KeysOfFailure, [Next]_vars,
           NEW i \in Identifier, NEW v \in 0..MaxUnlocks
    PROVE  failed'[i][v] >= failed[i][v] /\ failed[i][v] \in Nat
  <1>0. failed[i][v] \in Nat
    BY DEF TypeOK
  <1>1. ASSUME NEW w \in Worker, CountKey(w)
        PROVE  failed'[i][v] >= failed[i][v]
    <2>1. failed' = [failed EXCEPT ![job[w].id][version[job[w].id]] = @ + 1]
      BY <1>1 DEF CountKey
    <2>2. failed'[i][v] = failed[i][v] \/ failed'[i][v] = failed[i][v] + 1
      BY <2>1 DEF TypeOK
    <2>. QED  BY <1>0, <2>2
  <1>2. CASE failed' = failed
    BY <1>0, <1>2
  <1>. QED
    BY <1>0, <1>1, <1>2
       DEF Next, vars, Login, IsLocked, Record, LockKey, Seed, Count, Reseed,
           LockOut, Abort, Unlock, Purge, Tick

LEMMA StaysEarned ==
    ASSUME TypeOK, KeysOfFailure, [Next]_vars, NEW i \in Identifier,
           NEW v \in 0..MaxUnlocks, failed[i][v] >= MaxAttempts
    PROVE  failed'[i][v] >= MaxAttempts
  <1>1. failed[i][v] \in Nat /\ failed'[i][v] >= failed[i][v]
    BY FailedGrows
  <1>2. failed'[i][v] \in Nat /\ MaxAttempts \in Nat
    BY NextTypeOK, LockoutAssumption DEF TypeOK
  <1>. QED  BY <1>1, <1>2

-----------------------------------------------------------------------------
(* What KeysOfFailure says of one job.                                     *)
JobFine(j, f) ==
    /\ j.op # "idle" => j.id \in Identifier /\ j.ip \in Ip
    /\ j.op \in Keyed => j.countKey \in Key
    /\ j.op \in Armed \cup {"ask"} => j.lockKey \in Key
    /\ (Scope # "ip" /\ j.op \in Keyed) =>
          j.countKey[1] = j.id /\ j.countKey[3] = j.since
    /\ (Scope # "ip" /\ j.op \in Armed) => j.lockKey[1] = j.id
    /\ (Scope # "ip" /\ j.op = "lock") => f[j.id][j.since] >= MaxAttempts

LEMMA KeysOfFailureIs ==
    /\ KeysOfFailure <=> \A w \in Worker : JobFine(job[w], failed)
    /\ KeysOfFailure' <=> \A w \in Worker : JobFine(job'[w], failed')
  BY DEF KeysOfFailure, JobFine

LEMMA IdleFine ==
    ASSUME NEW f
    PROVE  JobFine(Idle, f)
  BY DEF JobFine, Idle, Keyed, Armed

LEMMA KeptFine ==
    ASSUME TypeOK, KeysOfFailure, [Next]_vars, NEW w \in Worker
    PROVE  JobFine(job[w], failed')
  <1>1. JobFine(job[w], failed) /\ job[w] \in Job
    BY KeysOfFailureIs DEF TypeOK
  <1>2. ASSUME Scope # "ip", job[w].op = "lock"
        PROVE  failed'[job[w].id][job[w].since] >= MaxAttempts
    <2>1. PICK i \in Identifier, v \in 0..MaxUnlocks :
             i = job[w].id /\ v = job[w].since
      BY <1>1, <1>2, JobFields DEF JobFine, Version
    <2>. QED  BY <1>1, <1>2, <2>1, StaysEarned DEF JobFine
  <1>. QED  BY <1>1, <1>2 DEF JobFine

(* A failure that is about to be counted has been recorded, and so has     *)
(* every one that its counter holds.                                       *)
LEMMA CountReaches ==
    ASSUME TypeOK, KeysOfFailure, CountedOnce, NEW w \in Worker,
           job[w].op \in {"count", "reseed"}, Scope # "ip"
    PROVE  /\ failed[job[w].id][job[w].since] \in Nat
           /\ 1 <= failed[job[w].id][job[w].since]
           /\ counter[job[w].countKey].count + 1 <= failed[job[w].id][job[w].since]
  <1>1. /\ job[w] \in Job /\ job[w].id \in Identifier
        /\ job[w].countKey \in Key /\ job[w].countKey[1] = job[w].id
        /\ job[w].countKey[3] = job[w].since
    BY DEF KeysOfFailure, Keyed, TypeOK
  <1>2. PICK i \in Identifier, a \in Ip \cup {None}, v \in 0..MaxUnlocks :
           job[w].countKey = <<i, a, v>> /\ job[w].id = i /\ job[w].since = v
    BY <1>1 DEF Key
  <1>. DEFINE k == <<i, a, v>>
  <1>3. counter[k].count \in Nat /\ failed[i][v] \in Nat
    BY <1>1, <1>2 DEF TypeOK, Counter
  <1>4. counter[k].count + Cardinality(Pending(k)) <= failed[i][v]
    BY DEF CountedOnce
  <1>5. Cardinality(Pending(k)) \in Nat /\ Cardinality(Pending(k)) >= 1
    BY <1>2, PendingFinite DEF Pending
  <1>. QED  BY <1>2, <1>3, <1>4, <1>5

LEMMA AfterCountFine ==
    ASSUME TypeOK, KeysOfFailure, NEW w \in Worker, NEW count \in Nat, NEW f,
           AfterCount(w, count), job[w].op \in {"count", "reseed"},
           Scope # "ip" => f[job[w].id][job[w].since] >= count,
           Scope # "ip" => f[job[w].id][job[w].since] \in Nat
    PROVE  JobFine(job'[w], f)
  <1>1. JobFine(job[w], failed)
    BY KeysOfFailureIs
  <1>2. CASE job'[w] = Idle
    BY <1>2, IdleFine
  <1>3. CASE /\ count >= MaxAttempts /\ job'[w].op = "lock"
             /\ SameBut(job'[w], job[w])
    <2>1. Scope # "ip" => f[job[w].id][job[w].since] >= MaxAttempts
      BY <1>3, LockoutAssumption
    <2>. QED  BY <1>1, <1>3, <2>1 DEF JobFine, SameBut, Keyed, Armed
  <1>. QED  BY <1>2, <1>3, AfterCountMoves

LEMMA NextKeysOfFailure ==
    TypeOK /\ KeysOfFailure /\ CountedOnce /\ [Next]_vars => KeysOfFailure'
  <1>. SUFFICES ASSUME TypeOK, KeysOfFailure, CountedOnce, [Next]_vars,
                       NEW w \in Worker
                PROVE  JobFine(job'[w], failed')
    BY KeysOfFailureIs
  <1>0. /\ JobFine(job[w], failed') /\ job[w] \in Job
        /\ job'[w] = job[w] => JobFine(job'[w], failed')
    BY KeptFine DEF TypeOK
  <1>1. ASSUME NEW i \in Identifier, NEW a \in Ip, Login(w, i, a)
        PROVE  JobFine(job'[w], failed')
    BY <1>1, LoginMoves, KeyOfType DEF JobFine, Keyed, Armed
  <1>2. CASE IsLocked(w)
    BY <1>0, <1>2, IsLockedMoves
       DEF IsLocked, JobFine, SameBut, Keyed, Armed
  <1>3. CASE Record(w)
    <2>1. CASE job'[w] = Idle
      BY <2>1, IdleFine
    <2>2. job[w].id \in Identifier /\ job[w].ip \in Ip
      BY <1>0, <1>3 DEF Record, JobFine
    <2>. QED  BY <1>3, <2>1, <2>2, RecordMoves DEF JobFine, Keyed, Armed
  <1>4. CASE CountKey(w)
    <2>1. /\ job[w].id \in Identifier /\ job[w].ip \in Ip
          /\ job'[w].op = "keyed" /\ job'[w].since = version[job[w].id]
          /\ job'[w].countKey = KeyOf(job[w].id, job[w].ip)
          /\ job'[w].id = job[w].id /\ job'[w].ip = job[w].ip
      BY <1>4, CountKeyMoves
    <2>2. /\ KeyOf(job[w].id, job[w].ip) \in Key
          /\ Scope # "ip" => /\ KeyOf(job[w].id, job[w].ip)[1] = job[w].id
                             /\ KeyOf(job[w].id, job[w].ip)[3] = version[job[w].id]
      BY <2>1, KeyOfType
    <2>. QED  BY <2>1, <2>2 DEF JobFine, Keyed, Armed
  <1>5. CASE LockKey(w)
    <2>1. /\ job[w].id \in Identifier /\ job[w].ip \in Ip
          /\ job'[w].op = "seed" /\ job'[w].since = job[w].since
          /\ job'[w].countKey = job[w].countKey
          /\ job'[w].lockKey = KeyOf(job[w].id, job[w].ip)
          /\ job'[w].id = job[w].id /\ job'[w].ip = job[w].ip
      BY <1>5, LockKeyMoves
    <2>2. /\ KeyOf(job[w].id, job[w].ip) \in Key
          /\ Scope # "ip" => KeyOf(job[w].id, job[w].ip)[1] = job[w].id
      BY <2>1, KeyOfType
    <2>. QED  BY <1>0, <1>5, <2>1, <2>2 DEF LockKey, JobFine, Keyed, Armed
  <1>6. CASE Seed(w)
    BY <1>0, <1>6, SeedMoves DEF Seed, JobFine, SameBut, Keyed, Armed
  <1>7. CASE Count(w)
    <2>. DEFINE k == job[w].countKey
    <2>1. failed' = failed /\ job[w].op = "count"
      BY <1>7 DEF Count
    <2>2. CASE job'[w].op = "reseed" /\ SameBut(job'[w], job[w])
      BY <1>0, <2>1, <2>2 DEF JobFine, SameBut, Keyed, Armed
    <2>3. CASE AfterCount(w, Counted(counter[k], job[w]).count)
      <3>1. k \in Key /\ counter[k] \in Counter /\ counter[k].count \in Nat
        BY <1>0, <2>1, CounterFields DEF JobFine, Keyed, TypeOK
      <3>2. Counted(counter[k], job[w]).count = counter[k].count + 1
        BY <1>0, <3>1, CountedType
      <3>3. counter[k].count + 1 \in Nat
        BY <3>1
      <3>4. Scope # "ip" => /\ failed'[job[w].id][job[w].since] \in Nat
                            /\ failed'[job[w].id][job[w].since] >= counter[k].count + 1
        BY <2>1, <3>1, CountReaches
      <3>. QED  BY <2>1, <2>3, <3>2, <3>3, <3>4, AfterCountFine
    <2>. QED  BY <1>7, <2>2, <2>3, CountMoves
  <1>8. CASE Reseed(w)
    <2>1. failed' = failed /\ job[w].op = "reseed" /\ AfterCount(w, 1)
      BY <1>8 DEF Reseed
    <2>2. Scope # "ip" => /\ failed'[job[w].id][job[w].since] \in Nat
                          /\ failed'[job[w].id][job[w].since] >= 1
      BY <2>1, CountReaches
    <2>. QED  BY <2>1, <2>2, AfterCountFine
  <1>9. CASE LockOut(w) \/ Abort(w)
    BY <1>9, LockOutMoves, AbortMoves, IdleFine
  <1>10. CASE job' = job
    BY <1>0, <1>10
  <1>11. ASSUME NEW v \in Worker, MovesOnly(v), v # w
         PROVE  JobFine(job'[w], failed')
    BY <1>0, <1>11 DEF MovesOnly
  <1>12. \/ job' = job
         \/ \E v \in Worker : MovesOnly(v) /\ v # w
         \/ \E i \in Identifier, a \in Ip : Login(w, i, a)
         \/ IsLocked(w) \/ Record(w) \/ CountKey(w) \/ LockKey(w) \/ Seed(w)
         \/ Count(w) \/ Reseed(w) \/ LockOut(w) \/ Abort(w)
    BY LoginMoves, IsLockedMoves, RecordMoves, CountKeyMoves, LockKeyMoves,
       SeedMoves, CountMoves, ReseedMoves, LockOutMoves, AbortMoves
       DEF Next, vars, Unlock, Purge, Tick
  <1>. QED
    BY <1>1, <1>2, <1>3, <1>4, <1>5, <1>6, <1>7, <1>8, <1>9, <1>10, <1>11, <1>12

-----------------------------------------------------------------------------
(* A counter counts no failure twice.                                      *)
LEMMA NextCountedOnce ==
    TypeOK /\ KeysOfFailure /\ CountedOnce /\ [Next]_vars => CountedOnce'
  <1>. SUFFICES ASSUME TypeOK, KeysOfFailure, CountedOnce, [Next]_vars,
                       NEW i \in Identifier, NEW a \in Ip \cup {None},
                       NEW v \in 0..MaxUnlocks
                PROVE  counter'[<<i, a, v>>].count
                          + Cardinality(Pending(<<i, a, v>>)') <= failed'[i][v]
    BY DEF CountedOnce, Pending
  <1>. DEFINE k == <<i, a, v>>
              Waits(j) == /\ j.op \in {"keyed", "seed", "count", "reseed"}
                          /\ j.countKey = k
              P == Pending(k)
              Q == {w \in Worker : Waits(job'[w])}
              Goal == counter'[k].count + Cardinality(Q) <= failed'[i][v]
  <1>0. /\ k \in Key /\ counter[k] \in Counter /\ counter[k].count \in Nat
        /\ failed[i][v] \in Nat /\ failed'[i][v] \in Nat /\ now \in Nat
        /\ failed'[i][v] >= failed[i][v]
        /\ counter[k].count + Cardinality(P) <= failed[i][v]
        /\ IsFiniteSet(P) /\ Cardinality(P) \in Nat
    <2>1. k \in Key
      BY DEF Key
    <2>2. failed'[i][v] \in Nat
      BY NextTypeOK DEF TypeOK
    <2>3. counter[k] \in Counter /\ now \in Nat
      BY <2>1, LockoutAssumption DEF TypeOK
    <2>. QED  BY <2>1, <2>2, <2>3, FailedGrows, PendingFinite DEF Counter, CountedOnce
  <1>a. k[1] = i /\ k[3] = v /\ i # None
    BY LockoutAssumption
  <1>b. P = {w \in Worker : Waits(job[w])}
    BY DEF Pending
  <1>. HIDE DEF k, P
  <1>1. ASSUME NEW c \in Nat, counter'[k].count = c, c <= counter[k].count,
               Q \subseteq P
        PROVE  Goal
    <2>1. Cardinality(Q) \in Nat /\ Cardinality(Q) <= Cardinality(P)
      BY <1>0, <1>1, FS_Subset, FS_CardinalityType
    <2>. QED  BY <1>0, <1>1, <2>1
  <1>. HIDE DEF Goal
  <1>2. ASSUME Q \subseteq P,
               \/ counter'[k] = counter[k] \/ counter'[k] = New
               \/ counter'[k] = [counter[k] EXCEPT !.missed = @ + 1]
        PROVE  Goal
    <2>1. /\ counter'[k].count = 0 \/ counter'[k].count = counter[k].count
      BY <1>0, <1>2, NewType, MissedType
    <2>. QED  BY <1>0, <1>1, <1>2, <2>1
  <1>3. ASSUME NEW w \in Worker, MovesOnly(w), Waits(job'[w]) => w \in P
        PROVE  Q \subseteq P
    BY <1>3, <1>b DEF MovesOnly
  <1>4. ASSUME NEW w \in Worker, CountKey(w)  PROVE Goal
    <2>1. /\ job[w].id \in Identifier /\ job[w].ip \in Ip /\ MovesOnly(w)
          /\ job'[w].op = "keyed" /\ job'[w].countKey = KeyOf(job[w].id, job[w].ip)
          /\ counter' = counter
      BY <1>4, CountKeyMoves DEF CountKey
    <2>2. CASE KeyOf(job[w].id, job[w].ip) # k
      BY <1>2, <1>3, <2>1, <2>2
    <2>3. CASE KeyOf(job[w].id, job[w].ip) = k
      <3>1. job[w].id = i /\ version[job[w].id] = v
        BY <1>a, <2>1, <2>3, KeyOfType
      <3>2. failed'[i][v] = failed[i][v] + 1
        BY <1>4, <3>1 DEF CountKey, TypeOK
      <3>3. w \notin P /\ Q = P \cup {w}
        BY <1>4, <1>b, <2>1, <2>3 DEF CountKey, MovesOnly
      <3>4. Cardinality(Q) = Cardinality(P) + 1
        BY <1>0, <3>3, FS_AddElement
      <3>. QED  BY <1>0, <2>1, <3>2, <3>4 DEF Goal
    <2>. QED  BY <2>2, <2>3
  <1>5. ASSUME NEW w \in Worker, NEW c \in Nat, MovesOnly(w), w \in P,
               ~Waits(job'[w]), counter'[k].count = c, c <= counter[k].count + 1
        PROVE  Goal
    <2>1. Q = P \ {w}
      BY <1>5, <1>b DEF MovesOnly
    <2>2. Cardinality(Q) = Cardinality(P) - 1
      BY <1>0, <1>5, <2>1, FS_RemoveElement
    <2>. QED  BY <1>0, <1>5, <2>2 DEF Goal
  <1>6. ASSUME NEW w \in Worker, Count(w)  PROVE Goal
    <2>1. /\ job[w] \in Job /\ job[w].op = "count" /\ MovesOnly(w)
          /\ w \in P <=> job[w].countKey = k
      BY <1>6, <1>b, CountMoves DEF TypeOK
    <2>2. CASE counter' = counter /\ job'[w].op = "reseed" /\ SameBut(job'[w], job[w])
      <3>1. Waits(job'[w]) => w \in P
        BY <2>1, <2>2 DEF SameBut
      <3>. QED  BY <1>2, <1>3, <2>1, <2>2, <3>1
    <2>3. CASE /\ counter' = [counter EXCEPT ![job[w].countKey] =
                                 Counted(counter[job[w].countKey], job[w])]
               /\ AfterCount(w, Counted(counter[job[w].countKey], job[w]).count)
      <3>1. job'[w].op \notin {"keyed", "seed", "count", "reseed"}
        BY <2>3, AfterCountMoves, IdleJob
      <3>2. CASE job[w].countKey # k
        <4>1. counter'[k] = counter[k]
          BY <1>0, <2>3, <3>2 DEF TypeOK
        <4>. QED  BY <1>2, <1>3, <2>1, <3>1, <4>1
      <3>3. CASE job[w].countKey = k
        <4>1. counter'[k] = Counted(counter[k], job[w])
          BY <1>0, <2>3, <3>3 DEF TypeOK
        <4>2. counter'[k].count = counter[k].count + 1
          BY <1>0, <2>1, <4>1, CountedType
        <4>3. counter[k].count + 1 \in Nat
          BY <1>0
        <4>. QED  BY <1>0, <1>5, <2>1, <3>1, <3>3, <4>2, <4>3
      <3>. QED  BY <3>2, <3>3
    <2>. QED  BY <1>6, <2>2, <2>3, CountMoves
  <1>7. ASSUME NEW w \in Worker, Reseed(w)  PROVE Goal
    <2>1. /\ job[w] \in Job /\ job[w].op = "reseed" /\ MovesOnly(w)
          /\ w \in P <=> job[w].countKey = k
          /\ counter' = [counter EXCEPT ![job[w].countKey] = Reseeded(@, job[w])]
      BY <1>7, <1>b, ReseedMoves DEF Reseed, TypeOK
    <2>2. job'[w].op \notin {"keyed", "seed", "count", "reseed"}
      BY <1>7, ReseedMoves, AfterCountMoves, IdleJob
    <2>3. CASE job[w].countKey # k
      <3>1. counter'[k] = counter[k]
        BY <1>0, <2>1, <2>3 DEF TypeOK
      <3>. QED  BY <1>2, <1>3, <2>1, <2>2, <3>1
    <2>4. CASE job[w].countKey = k
      <3>1. counter'[k] = Reseeded(counter[k], job[w])
        BY <1>0, <2>1, <2>4 DEF TypeOK
      <3>2. counter'[k].count = 1
        BY <1>0, <2>1, <3>1, ReseededType
      <3>. QED  BY <1>0, <1>5, <2>1, <2>2, <2>4, <3>2
    <2>. QED  BY <2>3, <2>4
  <1>9. ASSUME NEW w \in Worker, MovesOnly(w), Waits(job'[w]) => w \in P,
               Seed(w) \/ counter' = counter
        PROVE  Goal
    <2>1. counter'[k] = counter[k] \/ counter'[k] = New
      BY <1>0, <1>9 DEF Seed, Seeded, TypeOK
    <2>. QED  BY <1>2, <1>3, <1>9, <2>1
  <1>10. ASSUME NEW w \in Worker, Abort(w)  PROVE Goal
    <2>1. MovesOnly(w) /\ job'[w].op = "idle"
      BY <1>10, AbortMoves, IdleJob
    <2>2. \/ counter'[k] = counter[k]
          \/ counter'[k] = [counter[k] EXCEPT !.missed = @ + 1]
      BY <1>0, <1>10 DEF Abort, TypeOK
    <2>. QED  BY <1>2, <1>3, <2>1, <2>2
  <1>11. ASSUME NEW w \in Worker, LockKey(w) \/ Seed(w)  PROVE Goal
    <2>1. /\ MovesOnly(w) /\ job'[w].countKey = job[w].countKey
          /\ job[w].op \in {"keyed", "seed"}
      BY <1>11, LockKeyMoves, SeedMoves DEF LockKey, Seed, SameBut
    <2>. QED  BY <1>9, <1>11, <1>b, <2>1 DEF LockKey
  <1>12. ASSUME NEW w \in Worker,
                \/ IsLocked(w) \/ Record(w) \/ LockOut(w)
                \/ \E x \in Identifier, y \in Ip : Login(w, x, y)
         PROVE  Goal
    <2>1. /\ MovesOnly(w) /\ job'[w].op \in {"ask", "locked", "compare", "failed", "idle"}
          /\ counter' = counter
      BY <1>12, IsLockedMoves, RecordMoves, LockOutMoves, LoginMoves, IdleJob
         DEF IsLocked, Record, LockOut, Login
    <2>. QED  BY <1>9, <2>1
  <1>13. ASSUME counter' = counter, job' = job  PROVE Goal
    <2>1. Q \subseteq P
      BY <1>13, <1>b
    <2>. QED  BY <1>2, <1>13, <2>1
  <1>14. Goal
    BY <1>4, <1>6, <1>7, <1>10, <1>11, <1>12, <1>13
       DEF Next, vars, Unlock, Purge, Tick
  <1>. QED  BY <1>14 DEF Goal, k, Pending

(* A lock is only set by a failure of a version that saw MAX_ATTEMPTS.     *)
LEMMA NextLocksEarned ==
    TypeOK /\ KeysOfFailure /\ LocksEarned /\ [Next]_vars => LocksEarned'
  <1>. SUFFICES ASSUME TypeOK, KeysOfFailure, LocksEarned, [Next]_vars,
                       NEW i \in Identifier, NEW a \in Ip \cup {None},
                       NEW v \in 0..MaxUnlocks, Scope # "ip",
                       lock'[<<i, a, v>>].until # 0
                PROVE  failed'[i][lock'[<<i, a, v>>].since] >= MaxAttempts
    BY DEF LocksEarned
  <1>. DEFINE k == <<i, a, v>>
  <1>0. k \in Key /\ k[1] = i
    BY DEF Key
  <1>. HIDE DEF k
  <1>1. ASSUME lock'[k] = lock[k]
        PROVE  failed'[i][lock'[k].since] >= MaxAttempts
    <2>1. /\ lock[k].since \in 0..MaxUnlocks
          /\ failed[i][lock[k].since] >= MaxAttempts
      BY <1>0, <1>1 DEF TypeOK, Lock, LocksEarned, k
    <2>. QED  BY <1>1, <2>1, StaysEarned
  <1>2. ASSUME NEW w \in Worker, LockOut(w), job[w].lockKey = k, lock'[k] # lock[k]
        PROVE  failed'[i][lock'[k].since] >= MaxAttempts
    <2>1. JobFine(job[w], failed) /\ job[w] \in Job /\ job[w].op = "lock"
      BY <1>2, KeysOfFailureIs DEF LockOut, TypeOK
    <2>2. /\ job[w].id = i /\ job[w].since \in 0..MaxUnlocks
          /\ failed[job[w].id][job[w].since] >= MaxAttempts
      BY <1>0, <1>2, <2>1, JobFields DEF JobFine, Armed, Version
    <2>3. lock'[k] = [until |-> now + LockTime, since |-> job[w].since]
      BY <1>0, <1>2 DEF LockOut, TypeOK
    <2>. QED  BY <2>2, <2>3, StaysEarned
  <1>3. lock' = lock \/ \E w \in Worker : LockOut(w)
    BY DEF Next, vars, Login, IsLocked, Record, CountKey, LockKey, Seed, Count,
           Reseed, Abort, Unlock, Purge, Tick
  <1>4. ASSUME NEW w \in Worker, LockOut(w)
        PROVE  lock'[k] = lock[k] \/ job[w].lockKey = k
    BY <1>0, <1>4 DEF LockOut, TypeOK
  <1>5. failed'[i][lock'[k].since] >= MaxAttempts
    BY <1>1, <1>2, <1>3, <1>4
  <1>. QED  BY <1>5 DEF k

LEMMA InitIInv == Init => IInv
  <1>. SUFFICES ASSUME Init  PROVE IInv
    OBVIOUS
  <1>1. TypeOK
    <2>1. now \in 0..MaxTime /\ rows \in 0..MaxRows /\ 0 \in 0..MaxUnlocks
      BY LockoutAssumption DEF Init
    <2>2. counter \in [Key -> Counter] /\ lock \in [Key -> Lock]
      BY <2>1 DEF Init, NoEntry, Counter, Lock
    <2>. QED  BY <2>1, <2>2, IdleJob DEF Init, TypeOK
  <1>2. \A w \in Worker : job[w] = Idle /\ job[w].op = "idle"
    BY IdleJob DEF Init
  <1>3. KeysOfFailure
    BY <1>2, IdleFine, KeysOfFailureIs
  <1>4. \A k \in Key : Pending(k) = {}
    BY <1>2 DEF Pending
  <1>5. CountedOnce
    <2>. SUFFICES ASSUME NEW i \in Identifier, NEW a \in Ip \cup {None},
                         NEW v \in 0..MaxUnlocks
                  PROVE  counter[<<i, a, v>>].count
                            + Cardinality(Pending(<<i, a, v>>)) <= failed[i][v]
      BY DEF CountedOnce
    <2>1. <<i, a, v>> \in Key
      BY DEF Key
    <2>2. counter[<<i, a, v>>].count = 0 /\ failed[i][v] = 0
      BY <2>1 DEF Init, NoEntry
    <2>3. Cardinality(Pending(<<i, a, v>>)) = 0
      BY <1>4, <2>1, FS_EmptySet
    <2>. QED  BY <2>2, <2>3
  <1>6. LocksEarned
    BY DEF Init, LocksEarned, Key
  <1>. QED  BY <1>1, <1>3, <1>5, <1>6 DEF IInv

-----------------------------------------------------------------------------
(* The strengthening from which the properties follow is an invariant.     *)
THEOREM InductiveInvariant == Spec => []IInv
  <1>1. IInv /\ [Next]_vars => IInv'
    BY NextTypeOK, NextKeysOfFailure, NextCountedOnce, NextLocksEarned DEF IInv
  <1>. QED  BY <1>1, InitIInv, PTL DEF Spec

(* Every reachable state is well typed: each worker's job and each entry   *)
(* of the cache.                                                           *)
THEOREM TypeCorrect == Spec => []TypeOK
  <1>1. IInv => TypeOK
    BY DEF IInv
  <1>. QED  BY <1>1, InductiveInvariant, PTL

(* After an unlock the user is locked out only by MAX_ATTEMPTS failures    *)
(* whose counter's key was built since, or by one that unlock overtook.    *)
THEOREM LockedByFailuresHolds == Spec => []LockedByFailures
  <1>1. IInv => LockedByFailures
    <2>. SUFFICES ASSUME TypeOK, LocksEarned, NEW i \in Identifier, NEW a \in Ip,
                         Scope # "ip", Locked(KeyOf(i, a)),
                         lock[KeyOf(i, a)].since = version[i]
                  PROVE  failed[i][version[i]] >= MaxAttempts
      BY DEF IInv, LockedByFailures
    <2>1. PICK b \in Ip \cup {None} : KeyOf(i, a) = <<i, b, version[i]>>
      BY LockoutAssumption DEF KeyOf, KeyAt
    <2>2. version[i] \in 0..MaxUnlocks /\ now \in Nat
      BY LockoutAssumption DEF TypeOK
    <2>3. lock[<<i, b, version[i]>>].until # 0
      BY <2>1, <2>2 DEF Locked
    <2>. QED  BY <2>1, <2>2, <2>3 DEF LocksEarned
  <1>. QED  BY <1>1, InductiveInvariant, PTL

=============================================================================
