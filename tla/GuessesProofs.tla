---------------------------- MODULE GuessesProofs ----------------------------
(***************************************************************************)
(* The bound on the guesses that one lockout counter lets through, for any *)
(* number of workers, identifiers and addresses, every LOCK_SCOPE and      *)
(* every MAX_ATTEMPTS, where a lock lasts at least as long as a window.    *)
(* The requests that may still guess under a key are weighed against those *)
(* that may still lock it, step by step of each worker, and those that may *)
(* still set its counter back are counted.                                 *)
(***************************************************************************)
EXTENDS LockoutProofs

-----------------------------------------------------------------------------
(* The keys of one identifier and address, at each version.                *)
LEMMA KeyAtType ==
    ASSUME NEW i \in Identifier, NEW a \in Ip, NEW v \in Version
    PROVE  /\ KeyAt(i, a, v) \in Key
           /\ Scope # "ip" => KeyAt(i, a, v)[1] = i /\ KeyAt(i, a, v)[3] = v
           /\ Scope = "ip" => \A u : KeyAt(i, a, u) = KeyAt(i, a, v)
  <1>1. 0 \in Version
    BY LockoutAssumption DEF Version
  <1>. QED  BY <1>1, LockoutAssumption DEF KeyAt, Key, Version

(* Sets of workers, and the guesses that come before a lock.               *)
LEMMA WorkerSets ==
    ASSUME NEW S \in SUBSET Worker, NEW T \in SUBSET Worker
    PROVE  /\ Cardinality(S) \in Nat /\ Cardinality(T) \in Nat
           /\ Cardinality(Worker) \in Nat
           /\ Cardinality(S) <= Cardinality(Worker)
           /\ S \subseteq T => Cardinality(S) <= Cardinality(T)
           /\ S \cap T = {} => Cardinality(S) + Cardinality(T) <= Cardinality(Worker)
           /\ \A w \in Worker : /\ w \notin S => Cardinality(S \cup {w}) = Cardinality(S) + 1
                                /\ w \in S => Cardinality(S \ {w}) = Cardinality(S) - 1
                                /\ w \notin S => Cardinality(S) <= Cardinality(Worker) - 1
  <1>1. IsFiniteSet(Worker) /\ IsFiniteSet(S) /\ IsFiniteSet(T)
    BY LockoutAssumption, FS_Subset
  <1>2. /\ Cardinality(S) \in Nat /\ Cardinality(T) \in Nat
        /\ Cardinality(Worker) \in Nat
        /\ Cardinality(S) <= Cardinality(Worker)
    BY <1>1, FS_CardinalityType, FS_Subset
  <1>3. S \subseteq T => Cardinality(S) <= Cardinality(T)
    BY <1>1, FS_Subset
  <1>4. ASSUME S \cap T = {}
        PROVE  Cardinality(S) + Cardinality(T) <= Cardinality(Worker)
    <2>1. Cardinality(S \cup T) = Cardinality(S) + Cardinality(T) - Cardinality({})
      BY <1>1, <1>4, FS_Union
    <2>2. Cardinality(S \cup T) <= Cardinality(Worker)
      <3>1. S \cup T \in SUBSET Worker
        OBVIOUS
      <3>. QED  BY <1>1, <3>1, FS_Subset
    <2>3. Cardinality({}) = 0
      BY FS_EmptySet
    <2>. QED  BY <1>2, <2>1, <2>2, <2>3
  <1>5. ASSUME NEW w \in Worker
        PROVE  /\ w \notin S => Cardinality(S \cup {w}) = Cardinality(S) + 1
               /\ w \in S => Cardinality(S \ {w}) = Cardinality(S) - 1
               /\ w \notin S => Cardinality(S) <= Cardinality(Worker) - 1
    <2>1. /\ w \notin S => Cardinality(S \cup {w}) = Cardinality(S) + 1
          /\ w \in S => Cardinality(S \ {w}) = Cardinality(S) - 1
      BY <1>1, FS_AddElement, FS_RemoveElement
    <2>2. Cardinality(S \cup {w}) <= Cardinality(Worker)
      <3>1. S \cup {w} \in SUBSET Worker
        OBVIOUS
      <3>. QED  BY <1>1, <3>1, FS_Subset
    <2>. QED  BY <1>2, <2>1, <2>2
  <1>. QED  BY <1>2, <1>3, <1>4, <1>5

LEMMA OneType ==
    /\ FirstGuesses \in Nat /\ OneCounter \in Nat /\ Cardinality(Worker) \in Nat
    /\ Cardinality(Worker) >= 1 /\ OneCounter = FirstGuesses + Cardinality(Worker)
    /\ FirstGuesses >= MaxAttempts - 1 /\ FirstGuesses >= Cardinality(Worker) - 1
  <1>1. Cardinality(Worker) \in Nat /\ Cardinality(Worker) # 0
    BY LockoutAssumption, FS_CardinalityType, FS_EmptySet
  <1>2. Cardinality(Worker) >= 1
    BY <1>1
  <1>. QED  BY <1>1, <1>2, LockoutAssumption DEF FirstGuesses, OneCounter

LEMMA Times ==
    ASSUME NEW x \in Nat, NEW y \in Nat
    PROVE  x * y \in Nat /\ (x + 1) * y = x * y + y /\ 0 * y = 0
  OBVIOUS

(* Of a key: the requests that may still guess, and the ones about to lock *)
(* it, are different ones.                                                 *)
LEMMA Ahead ==
    ASSUME NEW k
    PROVE  /\ MayGuess(k) \in SUBSET Worker /\ MayLock(k) \in SUBSET Worker
           /\ MayWipe(k) \in SUBSET Worker
           /\ MayGuess(k) \cap MayLock(k) = {}
  BY DEF MayGuess, MayLock, MayWipe

LEMMA AheadCounts ==
    ASSUME NEW k
    PROVE  /\ Cardinality(MayGuess(k)) \in Nat /\ Cardinality(MayLock(k)) \in Nat
           /\ Cardinality(MayGuess(k)) <= Cardinality(Worker)
           /\ Cardinality(MayGuess(k)) + Cardinality(MayLock(k)) <= Cardinality(Worker)
  BY Ahead, WorkerSets

(* The numbers in a key's entries.                                         *)
LEMMA BeforeType ==
    ASSUME NEW c \in Counter
    PROVE  c.wiped * OneCounter + c.missed \in Nat
  <1>1. c.wiped \in Nat /\ c.missed \in Nat /\ OneCounter \in Nat
    BY CounterFields, OneType
  <1>2. c.wiped * OneCounter \in Nat
    BY <1>1, Times
  <1>. QED  BY <1>1, <1>2

LEMMA Entries ==
    ASSUME TypeOK, NEW k \in Key
    PROVE  /\ now \in Nat
           /\ counter[k] \in Counter
           /\ counter[k].count \in Nat /\ counter[k].until \in Nat
           /\ counter[k].guesses \in Nat /\ counter[k].missed \in Nat
           /\ counter[k].wiped \in Nat /\ Before(k) \in Nat
           /\ lock[k].until \in Nat /\ Guessed(k) \in Nat
           /\ Guessed(k) <= counter[k].guesses
  <1>1. now \in Nat /\ counter[k] \in Counter /\ lock[k] \in Lock
    BY LockoutAssumption DEF TypeOK
  <1>2. counter[k].guesses \in Nat /\ Before(k) \in Nat
    BY <1>1, CounterFields, BeforeType DEF Before
  <1>3. Guessed(k) \in Nat /\ Guessed(k) <= counter[k].guesses
    BY <1>2 DEF Guessed
  <1>. QED  BY <1>1, <1>2, <1>3, CounterFields DEF Lock

(* What one worker's step does to the three sets.                          *)
GuessJob(j, k) ==
    \/ /\ j.op = "ask" /\ j.lockKey # k
       /\ \E u \in 0..MaxUnlocks :
             /\ j.lockKey = KeyAt(j.id, j.ip, u)
             /\ \E v \in u..MaxUnlocks : k = KeyAt(j.id, j.ip, v)
    \/ /\ j.op = "compare" \/ (j.op = "failed" /\ j.compared = 1)
       /\ \E v \in version[j.id]..MaxUnlocks : k = KeyAt(j.id, j.ip, v)
    \/ /\ j.op \in {"keyed", "seed", "count", "reseed"}
       /\ j.countKey = k /\ j.compared = 1

LEMMA MayGuessIs ==
    ASSUME NEW k, NEW w \in Worker
    PROVE  w \in MayGuess(k) <=> GuessJob(job[w], k)
  BY DEF MayGuess, GuessJob

LEMMA AfterMove ==
    ASSUME NEW w \in Worker, MovesOnly(w), version' = version, NEW k
    PROVE  /\ MayGuess(k)' \ {w} = MayGuess(k) \ {w}
           /\ MayLock(k)' \ {w} = MayLock(k) \ {w}
           /\ MayWipe(k)' \ {w} = MayWipe(k) \ {w}
           /\ w \in MayGuess(k)' <=> GuessJob(job'[w], k)
           /\ w \in MayLock(k)' <=> job'[w].op = "lock" /\ job'[w].countKey = k
           /\ w \in MayWipe(k)' <=> job'[w].op = "reseed" /\ job'[w].countKey = k
           /\ MayGuess(k)' \subseteq Worker /\ MayLock(k)' \subseteq Worker
           /\ MayWipe(k)' \subseteq Worker
  <1>1. \A v \in Worker : v # w => job'[v] = job[v]
    BY DEF MovesOnly
  <1>2. MayGuess(k)' \ {w} = MayGuess(k) \ {w}
    BY <1>1 DEF MayGuess
  <1>3. MayLock(k)' \ {w} = MayLock(k) \ {w} /\ MayWipe(k)' \ {w} = MayWipe(k) \ {w}
    BY <1>1 DEF MayLock, MayWipe
  <1>4. w \in MayGuess(k)' <=> GuessJob(job'[w], k)
    BY DEF MayGuess, GuessJob
  <1>5. /\ w \in MayLock(k)' <=> job'[w].op = "lock" /\ job'[w].countKey = k
        /\ w \in MayWipe(k)' <=> job'[w].op = "reseed" /\ job'[w].countKey = k
    BY DEF MayLock, MayWipe
  <1>6. /\ MayGuess(k)' \subseteq Worker /\ MayLock(k)' \subseteq Worker
        /\ MayWipe(k)' \subseteq Worker
    BY DEF MayGuess, MayLock, MayWipe
  <1>. QED  BY <1>2, <1>3, <1>4, <1>5, <1>6

-----------------------------------------------------------------------------
(* The ways in which a step can touch what is known of a key.              *)
LEMMA EntriesKept ==
    ASSUME NEW k, counter'[k] = counter[k], lock'[k] = lock[k], now' = now
    PROVE  /\ Guessed(k)' = Guessed(k) /\ Covered(k)' = Covered(k)
           /\ Locked(k)' = Locked(k) /\ Counting(k)' = Counting(k)
           /\ Before(k)' = Before(k) /\ counter'[k].count = counter[k].count
  BY DEF Guessed, Covered, Locked, Counting, Before

(* Nothing happens to its entries, and nobody joins those who may guess.   *)
LEMMA WaveKept ==
    ASSUME TypeOK, NEW k \in Key, WaveOf(k), now' = now,
           counter'[k] = counter[k], lock'[k] = lock[k],
           Superseded(k)' = Superseded(k),
           MayGuess(k)' \subseteq MayGuess(k), MayLock(k) \subseteq MayLock(k)',
           MayLock(k)' \subseteq Worker
    PROVE  WaveOf(k)'
  <1>1. /\ Cardinality(MayGuess(k)') \in Nat /\ Cardinality(MayGuess(k)) \in Nat
        /\ Cardinality(MayLock(k)') \in Nat /\ Cardinality(MayLock(k)) \in Nat
        /\ Cardinality(MayGuess(k)') <= Cardinality(MayGuess(k))
        /\ Cardinality(MayLock(k)) <= Cardinality(MayLock(k)')
        /\ Cardinality(Worker) \in Nat
    BY Ahead, WorkerSets
  <1>. QED  BY <1>1, EntriesKept, Entries, OneType DEF WaveOf

(* A request may guess under a key that is current and not locked.         *)
LEMMA WaveJoined ==
    ASSUME TypeOK, NEW k \in Key, WaveOf(k), now' = now,
           counter'[k] = counter[k], lock'[k] = lock[k],
           Superseded(k)' = Superseded(k), ~Locked(k), ~Superseded(k),
           MayLock(k)' = MayLock(k)
    PROVE  WaveOf(k)'
  <1>1. Cardinality(MayLock(k)') = Cardinality(MayLock(k)) /\ ~Covered(k)
    BY DEF Covered
  <1>. QED  BY <1>1, EntriesKept DEF WaveOf

(* The counter's add seeds a new counter.                                  *)
LEMMA WaveSeeded ==
    ASSUME TypeOK, NEW k \in Key, WaveOf(k), now' = now,
           counter'[k] = New, lock'[k] = lock[k],
           MayGuess(k)' \subseteq MayGuess(k), MayLock(k)' \subseteq Worker
    PROVE  WaveOf(k)'
  <1>1. /\ Cardinality(MayGuess(k)') \in Nat /\ Cardinality(MayGuess(k)) \in Nat
        /\ Cardinality(MayLock(k)') \in Nat
        /\ Cardinality(MayGuess(k)') <= Cardinality(MayGuess(k))
        /\ Cardinality(MayGuess(k)) <= Cardinality(Worker)
    BY Ahead, WorkerSets
  <1>2. now \in Nat
    BY Entries
  <1>3. /\ counter'[k].guesses = 0 /\ counter'[k].missed = 0 /\ counter'[k].count = 0
        /\ counter'[k].wiped = 0
    BY <1>2, NewType
  <1>4. Guessed(k)' = 0 /\ Locked(k)' = Locked(k) /\ Before(k)' = 0
    BY <1>3, OneType, Times DEF Guessed, Locked, Before
  <1>. QED  BY <1>1, <1>3, <1>4, OneType DEF WaveOf

(* A guess that is counted moves from those ahead to those counted.        *)
LEMMA OneLess ==
    ASSUME NEW S \in SUBSET Worker, NEW w \in Worker, NEW e \in {0, 1},
           e = 1 => w \in S
    PROVE  /\ Cardinality(S) \in Nat /\ Cardinality(S \ {w}) \in Nat
           /\ Cardinality(S \ {w}) + e <= Cardinality(S)
  <1>1. S \ {w} \in SUBSET Worker /\ S \ {w} \subseteq S
    OBVIOUS
  <1>2. /\ Cardinality(S) \in Nat /\ Cardinality(S \ {w}) \in Nat
        /\ Cardinality(S \ {w}) <= Cardinality(S)
        /\ w \in S => Cardinality(S \ {w}) = Cardinality(S) - 1
    BY <1>1, WorkerSets
  <1>. QED  BY <1>2

(* A failure may bring its counter to the limit, and is then about to lock.*)
LEMMA LimitReached ==
    ASSUME NEW k, NEW w \in Worker, w \notin MayLock(k), NEW c \in Nat,
           MayLock(k)' = IF c >= MaxAttempts THEN MayLock(k) \cup {w} ELSE MayLock(k)
    PROVE  /\ Cardinality(MayLock(k)') \in Nat /\ Cardinality(MayLock(k)) \in Nat
           /\ \/ Cardinality(MayLock(k)') = Cardinality(MayLock(k)) + 1
              \/ /\ Cardinality(MayLock(k)') = Cardinality(MayLock(k))
                 /\ c <= FirstGuesses
  <1>1. /\ Cardinality(MayLock(k)) \in Nat
        /\ Cardinality(MayLock(k) \cup {w}) = Cardinality(MayLock(k)) + 1
    BY Ahead, WorkerSets
  <1>2. CASE c >= MaxAttempts
    BY <1>1, <1>2
  <1>3. CASE ~(c >= MaxAttempts)
    <2>1. c <= FirstGuesses
      BY <1>3, OneType, LockoutAssumption
    <2>. QED  BY <1>1, <1>3, <2>1
  <1>. QED  BY <1>2, <1>3

LEMMA WaveCounted ==
    ASSUME TypeOK, NEW k \in Key, WaveOf(k), now' = now, Counting(k),
           NEW w \in Worker, w \notin MayLock(k),
           job[w].compared = 1 => w \in MayGuess(k),
           lock'[k] = lock[k], counter'[k] = Counted(counter[k], job[w]),
           Superseded(k)' = Superseded(k),
           MayGuess(k)' = MayGuess(k) \ {w},
           MayLock(k)' = IF counter'[k].count >= MaxAttempts
                         THEN MayLock(k) \cup {w} ELSE MayLock(k)
    PROVE  WaveOf(k)'
  <1>. DEFINE p == Cardinality(MayGuess(k))
              q == Cardinality(MayGuess(k)')
              d == Cardinality(MayLock(k))
              r == Cardinality(MayLock(k)')
              n == Cardinality(Worker)
              g == Guessed(k)
              b == Before(k)
              c == counter[k].count
              F == FirstGuesses
              O == OneCounter
  <1>1. PICK e \in {0, 1} : e = job[w].compared
    BY JobFields DEF TypeOK
  <1>2. /\ counter'[k].count = c + 1 /\ counter'[k].guesses = counter[k].guesses + e
        /\ counter'[k].until = counter[k].until
        /\ counter'[k].missed = counter[k].missed
        /\ counter'[k].wiped = counter[k].wiped
    BY <1>1, CountedType, Entries DEF TypeOK
  <1>3. /\ Locked(k)' = Locked(k) /\ Counting(k)' = Counting(k)
        /\ Covered(k)' = Covered(k) /\ Guessed(k)' = g + e /\ Before(k)' = b
    BY <1>2 DEF Locked, Counting, Covered, Guessed, Before
  <1>4. p \in Nat /\ q \in Nat /\ q + e <= p
    BY <1>1, Ahead, OneLess
  <1>5. /\ n \in Nat /\ F \in Nat /\ O \in Nat /\ g \in Nat /\ b \in Nat /\ c \in Nat
        /\ g <= b + c
    BY Entries, OneType DEF WaveOf
  <1>6. /\ Locked(k) => p <= n - 1
        /\ (Locked(k) /\ ~Covered(k)) => g + p <= b + n - 1
        /\ (Covered(k) \/ Superseded(k)) => g + p <= b + O
        /\ (~Covered(k) /\ ~Superseded(k)) => g <= b + F + d
    BY DEF WaveOf
  <1>7. /\ r \in Nat /\ d \in Nat
        /\ r = d + 1 \/ (r = d /\ c + 1 <= F)
    <2>1. PICK x \in Nat : x = c + 1
      BY <1>5
    <2>2. MayLock(k)' = IF x >= MaxAttempts THEN MayLock(k) \cup {w} ELSE MayLock(k)
      BY <1>2, <2>1
    <2>3. /\ r \in Nat /\ d \in Nat
          /\ r = d + 1 \/ (r = d /\ x <= F)
      BY <2>2, LimitReached
    <2>. QED  BY <2>1, <2>3
  <1>. HIDE DEF p, q, d, r, n, g, b, c, F, O
  <1>8. /\ Locked(k) => q <= n - 1
        /\ (Locked(k) /\ ~Covered(k)) => g + e + q <= b + n - 1
        /\ (Covered(k) \/ Superseded(k)) => g + e + q <= b + O
        /\ g + e <= b + (c + 1)
    BY <1>4, <1>5, <1>6
  <1>9. (~Covered(k) /\ ~Superseded(k)) => g + e <= b + F + r
    BY <1>5, <1>6, <1>7
  <1>. QED  BY <1>2, <1>3, <1>8, <1>9 DEF WaveOf, q, r, n, F, O, b, c

(* A set writes the counter anew, when it has expired or over what another *)
(* request had counted since.                                              *)
LEMMA WaveReseeded ==
    ASSUME TypeOK, NEW k \in Key, WaveOf(k), now' = now,
           counter[k].guesses <= Before(k) + OneCounter,
           NEW w \in Worker, w \notin MayLock(k),
           job[w].compared = 1 => w \in MayGuess(k),
           lock'[k] = lock[k], counter'[k] = Reseeded(counter[k], job[w]),
           Superseded(k)' = Superseded(k),
           MayGuess(k)' = MayGuess(k) \ {w},
           MayLock(k)' = IF 1 >= MaxAttempts
                         THEN MayLock(k) \cup {w} ELSE MayLock(k)
    PROVE  WaveOf(k)'
  <1>. DEFINE p == Cardinality(MayGuess(k))
              q == Cardinality(MayGuess(k)')
              d == Cardinality(MayLock(k))
              r == Cardinality(MayLock(k)')
              n == Cardinality(Worker)
              g == Guessed(k)
              h == Guessed(k)'
              B == Before(k)'
              F == FirstGuesses
              O == OneCounter
  <1>1. PICK e \in {0, 1} : e = job[w].compared
    BY JobFields DEF TypeOK
  <1>2. now \in Nat /\ now < now + WindowTime
    BY Entries, LockoutAssumption
  <1>3. /\ counter'[k].count = 1 /\ counter'[k].until = now + WindowTime
        /\ Counting(k) => /\ counter'[k].guesses = counter[k].guesses + e
                          /\ counter'[k].missed = counter[k].missed
                          /\ counter'[k].wiped = counter[k].wiped + 1
        /\ ~Counting(k) => /\ counter'[k].guesses = e /\ counter'[k].missed = 0
                           /\ counter'[k].wiped = 0
    BY <1>1, <1>2, ReseededType, Entries DEF TypeOK, Counting
  <1>4. Locked(k)' = Locked(k) /\ h = g + e
    <2>1. h = counter'[k].guesses
      BY <1>2, <1>3 DEF Guessed, Counting
    <2>. QED  BY <1>3, <2>1 DEF Locked, Guessed
  <1>5. g <= B /\ B \in Nat /\ g \in Nat
    <2>1. CASE Counting(k)
      <3>1. B = Before(k) + O
        <4>1. (counter[k].wiped + 1) * OneCounter = counter[k].wiped * OneCounter + O
          BY Entries, OneType, Times
        <4>2. counter[k].wiped * OneCounter \in Nat /\ counter[k].missed \in Nat
          BY Entries, OneType, Times
        <4>3. B = (counter[k].wiped + 1) * OneCounter + counter[k].missed
          BY <1>3, <2>1 DEF Before
        <4>. HIDE DEF B
        <4>. QED  BY <4>1, <4>2, <4>3, OneType DEF Before
      <3>. HIDE DEF B
      <3>. QED  BY <2>1, <3>1, Entries, OneType DEF Guessed
    <2>2. CASE ~Counting(k)
      <3>1. B = 0
        BY <1>3, <2>2, OneType, Times DEF Before
      <3>. QED  BY <2>2, <3>1 DEF Guessed
    <2>. QED  BY <2>1, <2>2
  <1>6. /\ p \in Nat /\ q \in Nat /\ q + e <= p /\ p <= n
        /\ n \in Nat /\ F \in Nat /\ O = F + n /\ n >= 1
        /\ Locked(k) => p <= n - 1
    BY <1>1, Ahead, AheadCounts, OneLess, OneType DEF WaveOf
  <1>7. /\ r \in Nat /\ d \in Nat
        /\ r = d + 1 \/ (r = d /\ 1 <= F)
    BY LimitReached
  <1>. HIDE DEF p, q, d, r, n, g, h, B, F, O
  <1>8. /\ Locked(k) => q <= n - 1
        /\ Locked(k) => h + q <= B + n - 1
        /\ h + q <= B + O
        /\ h <= B + 1 /\ h <= B + F + r
    BY <1>4, <1>5, <1>6, <1>7
  <1>. QED  BY <1>3, <1>4, <1>8 DEF WaveOf, q, r, n, h, B, F, O

(* A request sets the lock, which then lasts as long as the counter: those *)
(* that may still guess are all others.                                    *)
LEMMA WaveLocked ==
    ASSUME TypeOK, NEW k \in Key, WaveOf(k), now' = now, CountersNear,
           LockTime >= WindowTime, NEW w \in Worker, w \notin MayGuess(k),
           ~Locked(k), lock'[k].until = now + LockTime,
           counter'[k] = counter[k], Superseded(k)' = Superseded(k),
           MayGuess(k)' = MayGuess(k)
    PROVE  WaveOf(k)'
  <1>. DEFINE p == Cardinality(MayGuess(k))
              d == Cardinality(MayLock(k))
              n == Cardinality(Worker)
  <1>1. p \in Nat /\ d \in Nat /\ n \in Nat /\ p + d <= n /\ p <= n - 1
    BY Ahead, AheadCounts, WorkerSets
  <1>2. Cardinality(MayGuess(k)') = p
    OBVIOUS
  <1>3. /\ Covered(k)' /\ ~Covered(k) /\ Guessed(k)' = Guessed(k)
        /\ Before(k)' = Before(k) /\ counter'[k].count = counter[k].count
    <2>1. counter[k].until <= now + WindowTime
      BY DEF CountersNear
    <2>2. counter'[k].until <= lock'[k].until /\ now' < lock'[k].until
      BY <2>1, Entries, LockoutAssumption
    <2>. QED  BY <2>2 DEF Covered, Locked, Guessed, Counting, Before
  <1>4. /\ Superseded(k) => Guessed(k) + p <= Before(k) + OneCounter
        /\ ~Superseded(k) => Guessed(k) <= Before(k) + FirstGuesses + d
        /\ Guessed(k) <= Before(k) + counter[k].count
    BY <1>3 DEF WaveOf
  <1>5. Guessed(k)' + p <= Before(k)' + OneCounter
    BY <1>1, <1>3, <1>4, Entries, OneType
  <1>. HIDE DEF p, d, n
  <1>. QED  BY <1>1, <1>2, <1>3, <1>4, <1>5 DEF WaveOf, n

(* A request finds the lock set, or sets the one of a later version.       *)
LEMMA WaveLockLost ==
    ASSUME TypeOK, NEW k \in Key, WaveOf(k), now' = now,
           Locked(k) \/ Superseded(k), lock'[k] = lock[k],
           counter'[k] = counter[k], Superseded(k)' = Superseded(k),
           MayGuess(k)' = MayGuess(k), MayLock(k)' \subseteq Worker
    PROVE  WaveOf(k)'
  <1>1. /\ Guessed(k)' = Guessed(k) /\ Covered(k)' = Covered(k)
        /\ Locked(k)' = Locked(k) /\ Counting(k)' = Counting(k)
        /\ Before(k)' = Before(k) /\ counter'[k].count = counter[k].count
        /\ Cardinality(MayGuess(k)') = Cardinality(MayGuess(k))
    BY EntriesKept
  <1>2. /\ Cardinality(MayLock(k)') \in Nat /\ Cardinality(MayGuess(k)) \in Nat
        /\ Cardinality(Worker) \in Nat
    BY Ahead, WorkerSets
  <1>3. ~Counting(k) => Guessed(k) = 0
    BY DEF Guessed
  <1>4. (~Covered(k) /\ ~Superseded(k)) => Guessed(k) <= Before(k) + FirstGuesses
    BY <1>2, <1>3, Entries, OneType DEF WaveOf
  <1>5. (~Covered(k)' /\ ~Superseded(k)')
           => Guessed(k)' <= Before(k)' + FirstGuesses + Cardinality(MayLock(k)')
    BY <1>1, <1>2, <1>4, Entries, OneType
  <1>. QED  BY <1>1, <1>5 DEF WaveOf

(* A request dies that was about to lock: it is missed.                    *)
LEMMA WaveMissed ==
    ASSUME TypeOK, NEW k \in Key, WaveOf(k), now' = now,
           NEW w \in MayLock(k), lock'[k] = lock[k],
           counter'[k] = [counter[k] EXCEPT !.missed = @ + 1],
           Superseded(k)' = Superseded(k),
           MayGuess(k)' = MayGuess(k), MayLock(k)' = MayLock(k) \ {w}
    PROVE  WaveOf(k)'
  <1>1. /\ counter'[k].missed = counter[k].missed + 1
        /\ counter'[k].guesses = counter[k].guesses
        /\ counter'[k].until = counter[k].until
        /\ counter'[k].count = counter[k].count
        /\ counter'[k].wiped = counter[k].wiped
    BY Entries, MissedType
  <1>2. /\ Guessed(k)' = Guessed(k) /\ Covered(k)' = Covered(k)
        /\ Locked(k)' = Locked(k) /\ Counting(k)' = Counting(k)
        /\ Cardinality(MayGuess(k)') = Cardinality(MayGuess(k))
    BY <1>1 DEF Guessed, Covered, Locked, Counting
  <1>3. Before(k)' = Before(k) + 1
    <2>1. PICK x \in Nat : x = counter[k].wiped * OneCounter
      BY Entries, OneType, Times
    <2>2. Before(k) = x + counter[k].missed /\ Before(k)' = x + (counter[k].missed + 1)
      BY <1>1, <2>1 DEF Before
    <2>. QED  BY <2>2, Entries
  <1>4. /\ Cardinality(MayLock(k)') = Cardinality(MayLock(k)) - 1
        /\ Cardinality(MayLock(k)) \in Nat /\ Cardinality(MayGuess(k)) \in Nat
        /\ Cardinality(Worker) \in Nat
    <2>1. w \in Worker
      BY Ahead
    <2>. QED  BY <2>1, Ahead, WorkerSets
  <1>. QED  BY <1>1, <1>2, <1>3, <1>4, Entries, OneType DEF WaveOf

(* unlock: the keys of the version it leaves are given to nobody again.    *)
LEMMA WaveUnlocked ==
    ASSUME TypeOK, NEW k \in Key, WaveOf(k), now' = now,
           lock'[k] = lock[k], counter'[k] = counter[k],
           Superseded(k) => Superseded(k)',
           MayGuess(k)' \subseteq MayGuess(k), MayLock(k)' = MayLock(k)
    PROVE  WaveOf(k)'
  <1>. DEFINE p == Cardinality(MayGuess(k))
              q == Cardinality(MayGuess(k)')
              d == Cardinality(MayLock(k))
              n == Cardinality(Worker)
  <1>1. /\ p \in Nat /\ d \in Nat /\ n \in Nat /\ p + d <= n
        /\ q \in Nat /\ q <= p
    BY Ahead, AheadCounts, WorkerSets
  <1>2. /\ Guessed(k)' = Guessed(k) /\ Covered(k)' = Covered(k)
        /\ Locked(k)' = Locked(k) /\ Counting(k)' = Counting(k)
        /\ Before(k)' = Before(k) /\ counter'[k].count = counter[k].count
        /\ Cardinality(MayLock(k)') = d
    BY EntriesKept
  <1>3. Guessed(k) + p <= Before(k) + OneCounter
    <2>1. CASE Covered(k) \/ Superseded(k)
      BY <2>1 DEF WaveOf
    <2>2. CASE ~Covered(k) /\ ~Superseded(k)
      <3>1. Guessed(k) <= Before(k) + FirstGuesses + d
        BY <2>2 DEF WaveOf
      <3>. QED  BY <1>1, <3>1, Entries, OneType
    <2>. QED  BY <2>1, <2>2
  <1>4. /\ Locked(k) => p <= n - 1
        /\ (Locked(k) /\ Counting(k) /\ ~Covered(k)) => Guessed(k) + p <= Before(k) + n - 1
        /\ (~Covered(k) /\ ~Superseded(k)) =>
              Guessed(k) <= Before(k) + FirstGuesses + d
        /\ Guessed(k) <= Before(k) + counter[k].count
    BY DEF WaveOf
  <1>. HIDE DEF p, q, d, n
  <1>5. /\ Locked(k)' => q <= n - 1
        /\ (Locked(k)' /\ Counting(k)' /\ ~Covered(k)')
              => Guessed(k)' + q <= Before(k)' + n - 1
        /\ Guessed(k)' + q <= Before(k)' + OneCounter
    BY <1>1, <1>2, <1>3, <1>4, Entries, OneType
  <1>6. (~Covered(k)' /\ ~Superseded(k)') =>
           Guessed(k)' <= Before(k)' + FirstGuesses + Cardinality(MayLock(k)')
    BY <1>2, <1>4
  <1>. QED  BY <1>2, <1>4, <1>5, <1>6 DEF WaveOf, q, n

(* Time passes: the lock that covers a counter ends after it, and another  *)
(* one leaves only the guesses that were under way when it was set.        *)
LEMMA WaveTick ==
    ASSUME TypeOK, NEW k \in Key, WaveOf(k), now' = now + 1,
           lock'[k] = lock[k], counter'[k] = counter[k],
           Superseded(k)' = Superseded(k),
           MayGuess(k)' = MayGuess(k), MayLock(k)' = MayLock(k)
    PROVE  WaveOf(k)'
  <1>. DEFINE p == Cardinality(MayGuess(k))
              d == Cardinality(MayLock(k))
              n == Cardinality(Worker)
              g == Guessed(k)
              h == Guessed(k)'
              b == Before(k)
              c == counter[k].count
              F == FirstGuesses
              O == OneCounter
  <1>1. /\ p \in Nat /\ d \in Nat /\ n \in Nat /\ p <= n /\ g \in Nat /\ b \in Nat
        /\ c \in Nat /\ F \in Nat /\ O = F + n /\ F >= n - 1
    BY Ahead, AheadCounts, WorkerSets, Entries, OneType
  <1>2. /\ Locked(k)' => Locked(k)
        /\ Counting(k)' => Counting(k) /\ h = g
        /\ ~Counting(k)' => h = 0
        /\ Covered(k)' => Covered(k)
        /\ (Covered(k) /\ ~Covered(k)') => ~Counting(k)'
        /\ (Locked(k)' /\ ~Covered(k)') => ~Covered(k)
    <2>1. /\ now \in Nat /\ lock[k].until \in Nat /\ counter[k].until \in Nat
          /\ lock'[k].until = lock[k].until /\ counter'[k].until = counter[k].until
          /\ counter'[k].guesses = counter[k].guesses
      BY Entries
    <2>2. /\ Locked(k)' => Locked(k)
          /\ Counting(k)' => Counting(k)
          /\ Covered(k)' => Covered(k)
          /\ (Covered(k) /\ ~Covered(k)') => ~Counting(k)'
          /\ (Locked(k)' /\ ~Covered(k)') => ~Covered(k)
      BY <2>1 DEF Locked, Counting, Covered
    <2>. QED  BY <2>2 DEF Guessed
  <1>3. /\ Before(k)' = b /\ counter'[k].count = c
        /\ Cardinality(MayGuess(k)') = p /\ Cardinality(MayLock(k)') = d
    BY DEF Before
  <1>4. /\ Locked(k) => p <= n - 1
        /\ (Locked(k) /\ Counting(k) /\ ~Covered(k)) => g + p <= b + n - 1
        /\ (Covered(k) \/ Superseded(k)) => g + p <= b + O
        /\ (~Covered(k) /\ ~Superseded(k)) => g <= b + F + d
        /\ g <= b + c
    BY DEF WaveOf
  <1>. HIDE DEF p, d, n, g, h, b, c, F, O
  <1>5. /\ Locked(k)' => p <= n - 1
        /\ (Locked(k)' /\ Counting(k)' /\ ~Covered(k)') => h + p <= b + n - 1
    BY <1>1, <1>2, <1>4
  <1>6. (Covered(k)' \/ Superseded(k)') => h + p <= b + O
    BY <1>1, <1>2, <1>4
  <1>7. (~Covered(k)' /\ ~Superseded(k)') => h <= b + F + d
    BY <1>1, <1>2, <1>4
  <1>8. h <= b + c
    BY <1>1, <1>2, <1>4
  <1>. QED  BY <1>2, <1>3, <1>5, <1>6, <1>7, <1>8 DEF WaveOf, p, d, n, h, b, c, F, O

-----------------------------------------------------------------------------
(* The keys of a failure, the versions of locks, the ends of counters.     *)
LEMMA VersionGrows ==
    ASSUME TypeOK, [Next]_vars, NEW i \in Identifier
    PROVE  /\ version[i] \in Version /\ version'[i] \in Version
           /\ version[i] \in Nat /\ version'[i] \in Nat
           /\ version[i] <= version'[i]
  <1>1. version[i] \in Version /\ version[i] \in Nat
    BY LockoutAssumption DEF TypeOK, Version
  <1>2. CASE version' = version
    BY <1>1, <1>2
  <1>3. ASSUME NEW x \in Identifier, Unlock(x)
        PROVE  version'[i] \in Version /\ version[i] <= version'[i]
    <2>1. CASE x = i
      BY <1>1, <1>3, <2>1, LockoutAssumption DEF Unlock, TypeOK, Version
    <2>2. CASE x # i
      BY <1>1, <1>3, <2>2 DEF Unlock, TypeOK
    <2>. QED  BY <2>1, <2>2
  <1>4. version' = version \/ \E x \in Identifier : Unlock(x)
    BY DEF Next, vars, Login, IsLocked, Record, CountKey, LockKey, Seed, Count,
           Reseed, LockOut, Abort, Purge, Tick
  <1>. QED  BY <1>1, <1>2, <1>3, <1>4, LockoutAssumption DEF Version

(* What KeysAgree says of one job.                                         *)
Agree(j, f) ==
    /\ j.op \in Keyed => j.countKey = KeyAt(j.id, j.ip, j.since) /\ j.since <= f[j.id]
    /\ j.op \in Armed => \E v \in j.since..f[j.id] : j.lockKey = KeyAt(j.id, j.ip, v)
    /\ j.op = "ask" => \E v \in 0..f[j.id] : j.lockKey = KeyAt(j.id, j.ip, v)

LEMMA KeysAgreeIs ==
    /\ KeysAgree <=> \A w \in Worker : Agree(job[w], version)
    /\ KeysAgree' <=> \A w \in Worker : Agree(job'[w], version')
  BY DEF KeysAgree, Agree

LEMMA OthersAgree ==
    ASSUME NEW j, NEW f, j.op \in {"idle", "compare", "locked", "failed"}
    PROVE  Agree(j, f)
  BY DEF Agree, Keyed, Armed

LEMMA KeptAgrees ==
    ASSUME TypeOK, KeysOfFailure, KeysAgree, [Next]_vars, NEW w \in Worker
    PROVE  Agree(job[w], version')
  <1>1. /\ Agree(job[w], version) /\ JobFine(job[w], failed) /\ job[w] \in Job
    BY KeysAgreeIs, KeysOfFailureIs DEF TypeOK
  <1>2. CASE job[w].op = "idle"
    BY <1>2, OthersAgree
  <1>3. CASE job[w].op # "idle"
    <2>1. PICK i \in Identifier : i = job[w].id
      BY <1>1, <1>3 DEF JobFine
    <2>2. /\ job[w].since \in Nat /\ version[i] \in Nat /\ version'[i] \in Nat
          /\ version[i] <= version'[i]
      BY <1>1, JobFields, VersionGrows, LockoutAssumption DEF Version
    <2>3. /\ \A v \in job[w].since..version[i] : v \in job[w].since..version'[i]
          /\ \A v \in 0..version[i] : v \in 0..version'[i]
          /\ job[w].since <= version[i] => job[w].since <= version'[i]
      BY <2>2
    <2>. QED  BY <1>1, <2>1, <2>3 DEF Agree
  <1>. QED  BY <1>2, <1>3

LEMMA NextKeysAgree ==
    TypeOK /\ KeysOfFailure /\ KeysAgree /\ [Next]_vars => KeysAgree'
  <1>. SUFFICES ASSUME TypeOK, KeysOfFailure, KeysAgree, [Next]_vars, NEW w \in Worker
                PROVE  Agree(job'[w], version')
    BY KeysAgreeIs
  <1>0. /\ Agree(job[w], version') /\ Agree(job[w], version)
        /\ JobFine(job[w], failed) /\ job[w] \in Job
    BY KeptAgrees, KeysAgreeIs, KeysOfFailureIs DEF TypeOK
  <1>1. CASE job'[w] = job[w]
    BY <1>0, <1>1
  <1>2. ASSUME NEW i \in Identifier, NEW a \in Ip, Login(w, i, a)
        PROVE  Agree(job'[w], version')
    <2>1. /\ job'[w].op = "ask" /\ job'[w].id = i /\ job'[w].ip = a
          /\ job'[w].lockKey = KeyAt(i, a, version[i]) /\ version' = version
      BY <1>2, LoginMoves DEF Login, KeyOf
    <2>2. version[i] \in 0..version[i]
      BY VersionGrows
    <2>. QED  BY <2>1, <2>2 DEF Agree, Keyed, Armed
  <1>3. CASE job'[w].op \in {"idle", "compare", "locked", "failed"}
    BY <1>3, OthersAgree
  <1>4. CASE CountKey(w)
    <2>1. PICK i \in Identifier : i = job[w].id
      BY <1>4, CountKeyMoves
    <2>2. /\ job'[w].op = "keyed" /\ job'[w].id = i /\ job'[w].ip = job[w].ip
          /\ job'[w].since = version[i] /\ version' = version
          /\ job'[w].countKey = KeyAt(i, job[w].ip, version[i])
      BY <1>4, <2>1, CountKeyMoves DEF CountKey, KeyOf
    <2>3. version[i] <= version[i]
      BY VersionGrows
    <2>. QED  BY <2>2, <2>3 DEF Agree, Keyed, Armed
  <1>5. CASE LockKey(w)
    <2>1. PICK i \in Identifier : i = job[w].id
      BY <1>5, LockKeyMoves
    <2>2. /\ job'[w].op = "seed" /\ job'[w].id = i /\ job'[w].ip = job[w].ip
          /\ job'[w].since = job[w].since /\ version' = version
          /\ job'[w].countKey = job[w].countKey
          /\ job'[w].lockKey = KeyAt(i, job[w].ip, version[i])
      BY <1>5, <2>1, LockKeyMoves DEF LockKey, KeyOf
    <2>3. /\ job[w].countKey = KeyAt(i, job[w].ip, job[w].since)
          /\ job[w].since <= version[i]
      BY <1>0, <1>5, <2>1 DEF LockKey, Agree, Keyed
    <2>4. version[i] \in job[w].since..version[i]
      BY <1>0, <2>3, VersionGrows, JobFields, LockoutAssumption DEF Version
    <2>. QED  BY <2>2, <2>3, <2>4 DEF Agree, Keyed, Armed
  <1>6. CASE /\ SameBut(job'[w], job[w]) /\ job[w].op \in Armed /\ job'[w].op \in Armed
             /\ version' = version
    BY <1>0, <1>6 DEF SameBut, Agree, Keyed, Armed
  <1>7. CASE Seed(w)
    <2>1. /\ SameBut(job'[w], job[w]) /\ job[w].op = "seed" /\ job'[w].op = "count"
          /\ version' = version
      BY <1>7, SeedMoves DEF Seed
    <2>. QED  BY <1>6, <2>1 DEF Armed
  <1>8. CASE Count(w)
    <2>1. /\ version' = version /\ job[w].op = "count"
          /\ \/ job'[w] = Idle
             \/ SameBut(job'[w], job[w]) /\ job'[w].op \in {"reseed", "lock"}
      BY <1>8, CountMoves, AfterCountMoves DEF Count
    <2>. QED  BY <1>3, <1>6, <2>1, IdleJob DEF Armed
  <1>9. CASE Reseed(w)
    <2>1. /\ version' = version /\ job[w].op = "reseed"
          /\ job'[w] = Idle \/ (SameBut(job'[w], job[w]) /\ job'[w].op = "lock")
      <3>1. version' = version /\ job[w].op = "reseed" /\ AfterCount(w, 1)
        BY <1>9 DEF Reseed
      <3>. QED  BY <3>1, AfterCountMoves
    <2>. QED  BY <1>3, <1>6, <2>1, IdleJob DEF Armed
  <1>10. CASE IsLocked(w) \/ Record(w) \/ LockOut(w) \/ Abort(w)
    BY <1>3, <1>10, IsLockedMoves, RecordMoves, LockOutMoves, AbortMoves, IdleJob
  <1>11. \/ job'[w] = job[w]
         \/ \E i \in Identifier, a \in Ip : Login(w, i, a)
         \/ IsLocked(w) \/ Record(w) \/ CountKey(w) \/ LockKey(w) \/ Seed(w)
         \/ Count(w) \/ Reseed(w) \/ LockOut(w) \/ Abort(w)
    <2>1. ASSUME NEW v \in Worker, v # w, MovesOnly(v)
          PROVE  job'[w] = job[w]
      BY <2>1 DEF MovesOnly
    <2>. QED
      BY <2>1, LoginMoves, IsLockedMoves, RecordMoves, CountKeyMoves, LockKeyMoves,
         SeedMoves, CountMoves, ReseedMoves, LockOutMoves, AbortMoves
         DEF Next, vars, Unlock, Purge, Tick
  <1>. QED
    BY <1>1, <1>2, <1>4, <1>5, <1>7, <1>8, <1>9, <1>10, <1>11

LEMMA NextLocksBehind ==
    TypeOK /\ KeysOfFailure /\ KeysAgree /\ LocksBehind /\ [Next]_vars => LocksBehind'
  <1>. SUFFICES ASSUME TypeOK, KeysOfFailure, KeysAgree, LocksBehind, [Next]_vars,
                       NEW k \in Key, Scope # "ip", k[1] \in Identifier,
                       lock'[k].until # 0
                PROVE  k[3] <= version'[k[1]]
    BY DEF LocksBehind
  <1>1. k[3] \in Nat
    BY LockoutAssumption DEF Key
  <1>2. ASSUME k[3] <= version[k[1]]  PROVE k[3] <= version'[k[1]]
    BY <1>1, <1>2, VersionGrows
  <1>3. CASE lock'[k] = lock[k]
    BY <1>2, <1>3 DEF LocksBehind
  <1>4. ASSUME NEW w \in Worker, LockOut(w), lock'[k] # lock[k]
        PROVE  k[3] <= version[k[1]]
    <2>1. job[w].lockKey = k /\ job[w].op = "lock" /\ job[w] \in Job
      BY <1>4 DEF LockOut, TypeOK
    <2>2. Agree(job[w], version) /\ JobFine(job[w], failed)
      BY KeysAgreeIs, KeysOfFailureIs
    <2>3. PICK i \in Identifier, a \in Ip : i = job[w].id /\ a = job[w].ip
      BY <2>1, <2>2 DEF JobFine
    <2>4. PICK v \in job[w].since..version[i] : k = KeyAt(i, a, v)
      BY <2>1, <2>2, <2>3 DEF Agree, Armed
    <2>5. v \in Version /\ v <= version[i]
      BY <2>1, <2>4, JobFields, VersionGrows, LockoutAssumption DEF Version
    <2>. QED  BY <2>4, <2>5, KeyAtType
  <1>5. lock' = lock \/ \E w \in Worker : LockOut(w)
    BY DEF Next, vars, Login, IsLocked, Record, CountKey, LockKey, Seed, Count,
           Reseed, Abort, Unlock, Purge, Tick
  <1>. QED  BY <1>2, <1>3, <1>4, <1>5

LEMMA NowGrows ==
    ASSUME TypeOK, [Next]_vars
    PROVE  now \in Nat /\ now' \in Nat /\ now' >= now
  <1>1. now \in Nat
    BY LockoutAssumption DEF TypeOK
  <1>2. now' = now \/ now' = now + 1
    BY DEF Next, vars, Login, IsLocked, Record, CountKey, LockKey, Seed, Count,
           Reseed, LockOut, Abort, Unlock, Purge, Tick
  <1>. QED  BY <1>1, <1>2

(* What a changed counter's end is.                                        *)
LEMMA CounterEnds ==
    ASSUME TypeOK, KeysOfFailure, [Next]_vars, NEW k \in Key
    PROVE  \/ counter'[k].until = counter[k].until
           \/ counter'[k].until = now + WindowTime /\ now' = now
  <1>1. \A w \in Worker : job[w] \in Job
    BY DEF TypeOK
  <1>2. \A w \in Worker : /\ Counted(counter[k], job[w]).until = counter[k].until
                          /\ Reseeded(counter[k], job[w]).until = now + WindowTime
    BY <1>1, Entries, CountedType, ReseededType
  <1>3. /\ New.until = now + WindowTime
        /\ [counter[k] EXCEPT !.missed = @ + 1].until = counter[k].until
    BY Entries, NewType, MissedType
  <1>4. counter'[k] # counter[k] => now' = now
    BY CounterTouched
  <1>5. \/ counter'[k] = counter[k] \/ counter'[k] = New
        \/ counter'[k] = [counter[k] EXCEPT !.missed = @ + 1]
        \/ \E w \in Worker : \/ counter'[k] = Counted(counter[k], job[w])
                             \/ counter'[k] = Reseeded(counter[k], job[w])
    BY CounterTouched DEF Touched
  <1>6. \/ counter'[k].until = counter[k].until
        \/ counter'[k].until = now + WindowTime
    BY <1>2, <1>3, <1>5
  <1>. QED  BY <1>4, <1>6

LEMMA NextCountersNear ==
    TypeOK /\ KeysOfFailure /\ CountersNear /\ [Next]_vars => CountersNear'
  <1>. SUFFICES ASSUME TypeOK, KeysOfFailure, CountersNear, [Next]_vars, NEW k \in Key
                PROVE  counter'[k].until <= now' + WindowTime
    BY DEF CountersNear
  <1>1. counter[k].until <= now + WindowTime
    BY DEF CountersNear
  <1>. QED  BY <1>1, NowGrows, CounterEnds, Entries, LockoutAssumption

-----------------------------------------------------------------------------
(* Who may set a counter back found it without an entry.                   *)
LEMMA WipersFew ==
    ASSUME NEW S \in SUBSET Worker, NEW T \in SUBSET Worker
    PROVE  /\ Cardinality(S) \in Nat /\ Cardinality(T) \in Nat
           /\ S \subseteq T => Cardinality(S) <= Cardinality(T)
           /\ \A w \in Worker : /\ w \notin S => Cardinality(S) < Cardinality(Worker)
                                /\ (w \in T /\ S = T \ {w})
                                      => Cardinality(S) = Cardinality(T) - 1
  <1>1. /\ Cardinality(S) \in Nat /\ Cardinality(T) \in Nat
        /\ Cardinality(Worker) \in Nat
        /\ S \subseteq T => Cardinality(S) <= Cardinality(T)
    BY WorkerSets
  <1>2. ASSUME NEW w \in Worker
        PROVE  /\ w \notin S => Cardinality(S) <= Cardinality(Worker) - 1
               /\ w \in T => Cardinality(T \ {w}) = Cardinality(T) - 1
    BY WorkerSets
  <1>3. ASSUME NEW w \in Worker, w \notin S
        PROVE  Cardinality(S) < Cardinality(Worker)
    <2>1. Cardinality(S) <= Cardinality(Worker) - 1
      BY <1>2, <1>3
    <2>. QED  BY <1>1, <2>1
  <1>4. \A w \in Worker : (w \in T /\ S = T \ {w})
                              => Cardinality(S) = Cardinality(T) - 1
    BY <1>2
  <1>. QED  BY <1>1, <1>3, <1>4

LEMMA WipersMove ==
    ASSUME TypeOK, KeysOfFailure, [Next]_vars, NEW k \in Key
    PROVE  \/ MayWipe(k)' \subseteq MayWipe(k)
           \/ \E w \in Worker : /\ Count(w) /\ ~Counting(job[w].countKey)
                                /\ MayWipe(k)' \subseteq MayWipe(k) \cup {w}
                                /\ counter' = counter /\ now' = now
                                /\ w \in MayWipe(k)' => job[w].countKey = k
  <1>1. ASSUME NEW w \in Worker, MovesOnly(w), job'[w].op # "reseed"
        PROVE  MayWipe(k)' \subseteq MayWipe(k)
    BY <1>1 DEF MovesOnly, MayWipe
  <1>2. ASSUME NEW w \in Worker, Count(w), job'[w].op = "reseed"
        PROVE  /\ ~Counting(job[w].countKey) /\ counter' = counter /\ now' = now
               /\ MayWipe(k)' \subseteq MayWipe(k) \cup {w}
               /\ w \in MayWipe(k)' => job[w].countKey = k
    <2>1. /\ MovesOnly(w) /\ ~Counting(job[w].countKey) /\ counter' = counter
          /\ SameBut(job'[w], job[w])
      BY <1>2, CountMoves, AfterCountMoves, IdleJob
    <2>. QED  BY <1>2, <2>1 DEF Count, MovesOnly, SameBut, MayWipe
  <1>3. CASE job' = job
    BY <1>3 DEF MayWipe
  <1>4. \/ job' = job
        \/ \E w \in Worker : MovesOnly(w) /\ (job'[w].op # "reseed" \/ Count(w))
    <2>1. ASSUME NEW w \in Worker, Reseed(w)
          PROVE  MovesOnly(w) /\ job'[w].op # "reseed"
      BY <2>1, ReseedMoves, AfterCountMoves, IdleJob
    <2>. QED
      BY <2>1, LoginMoves, IsLockedMoves, RecordMoves, CountKeyMoves, LockKeyMoves,
         SeedMoves, CountMoves, LockOutMoves, AbortMoves, IdleJob
         DEF Next, vars, Unlock, Purge, Tick
  <1>. QED  BY <1>1, <1>2, <1>3, <1>4

LEMMA NextWipesFew ==
    TypeOK /\ KeysOfFailure /\ WipesFew /\ [Next]_vars => WipesFew'
  <1>. SUFFICES ASSUME TypeOK, KeysOfFailure, WipesFew, [Next]_vars, NEW k \in Key,
                       Counting(k)'
                PROVE  counter'[k].wiped + Cardinality(MayWipe(k)')
                          < Cardinality(Worker)
    BY DEF WipesFew
  <1>. DEFINE m == Cardinality(MayWipe(k))
              q == Cardinality(MayWipe(k)')
              n == Cardinality(Worker)
              Goal == counter'[k].wiped + q < n
  <1>0. /\ m \in Nat /\ q \in Nat /\ n \in Nat /\ counter[k].wiped \in Nat
        /\ MayWipe(k)' \in SUBSET Worker /\ MayWipe(k) \in SUBSET Worker
        /\ Counting(k) => counter[k].wiped + m < n
        /\ now \in Nat /\ now' \in Nat /\ now' >= now
        /\ \A w \in Worker : job[w] \in Job
    <2>1. MayWipe(k)' \in SUBSET Worker /\ MayWipe(k) \in SUBSET Worker
      BY DEF MayWipe
    <2>. QED  BY <2>1, WipersFew, OneType, Entries, NowGrows DEF WipesFew, TypeOK
  <1>1. ASSUME counter'[k].until = counter[k].until,
               counter'[k].wiped = counter[k].wiped
        PROVE  Goal
    <2>1. Counting(k)
      BY <1>0, <1>1, Entries DEF Counting
    <2>2. CASE MayWipe(k)' \subseteq MayWipe(k)
      <3>1. q <= m
        BY <1>0, <2>2, WipersFew
      <3>. QED  BY <1>0, <1>1, <2>1, <3>1
    <2>3. ASSUME NEW w \in Worker, ~Counting(job[w].countKey),
                 MayWipe(k)' \subseteq MayWipe(k) \cup {w},
                 w \in MayWipe(k)' => job[w].countKey = k
          PROVE  MayWipe(k)' \subseteq MayWipe(k)
      BY <2>1, <2>3
    <2>. QED  BY <2>2, <2>3, WipersMove
  <1>2. ASSUME counter'[k] = New, counter'[k] # counter[k]
        PROVE  Goal
    <2>1. counter'[k].wiped = 0
      BY <1>0, <1>2, NewType
    <2>2. PICK w \in Worker : w \notin MayWipe(k)'
      <3>1. ASSUME NEW v \in Worker, Seed(v)
            PROVE  v \notin MayWipe(k)'
        BY <3>1, SeedMoves DEF MayWipe
      <3>2. ASSUME NEW v \in Worker, Reseed(v)
            PROVE  v \notin MayWipe(k)'
        BY <3>2, ReseedMoves, AfterCountMoves, IdleJob DEF MayWipe
      <3>3. ASSUME NEW v \in Worker, Abort(v)
            PROVE  v \notin MayWipe(k)'
        BY <3>3, AbortMoves, IdleJob DEF MayWipe
      <3>4. ASSUME NEW v \in Worker, Count(v), counter' # counter
            PROVE  v \notin MayWipe(k)'
        <4>1. AfterCount(v, Counted(counter[job[v].countKey], job[v]).count)
          BY <3>4, CountMoves
        <4>. QED  BY <4>1, AfterCountMoves, IdleJob DEF MayWipe
      <3>5. \/ counter' = counter
            \/ \E v \in Worker : Seed(v) \/ Count(v) \/ Reseed(v) \/ Abort(v)
        BY DEF Next, vars, Login, IsLocked, Record, CountKey, LockKey, LockOut,
               Unlock, Purge, Tick
      <3>. QED  BY <1>2, <3>1, <3>2, <3>3, <3>4, <3>5
    <2>3. q < n
      BY <1>0, <2>2, WipersFew
    <2>. QED  BY <1>0, <2>1, <2>3
  <1>3. ASSUME NEW w \in Worker, Reseed(w), job[w].countKey = k,
               counter'[k] = Reseeded(counter[k], job[w])
        PROVE  Goal
    <2>1. MovesOnly(w) /\ job'[w].op # "reseed" /\ job[w].op = "reseed"
      BY <1>3, ReseedMoves, AfterCountMoves, IdleJob
    <2>2. w \in MayWipe(k) /\ MayWipe(k)' = MayWipe(k) \ {w}
      BY <1>3, <2>1 DEF MovesOnly, MayWipe
    <2>3. q = m - 1 /\ q < n
      BY <1>0, <2>2, WipersFew
    <2>4. /\ now < counter[k].until => counter'[k].wiped = counter[k].wiped + 1
          /\ ~(now < counter[k].until) => counter'[k].wiped = 0
      BY <1>0, <1>3, Entries, ReseededType
    <2>5. CASE Counting(k)
      BY <1>0, <2>3, <2>4, <2>5 DEF Counting
    <2>6. CASE ~Counting(k)
      BY <1>0, <2>3, <2>4, <2>6 DEF Counting
    <2>. QED  BY <2>5, <2>6
  <1>4. ASSUME counter'[k] = [counter[k] EXCEPT !.missed = @ + 1]
        PROVE  Goal
    BY <1>1, <1>4, Entries, MissedType
  <1>5. ASSUME NEW w \in Worker, counter'[k] = Counted(counter[k], job[w])
        PROVE  Goal
    BY <1>0, <1>1, <1>5, Entries, CountedType
  <1>6. ASSUME counter'[k] = counter[k]  PROVE Goal
    BY <1>1, <1>6
  <1>. HIDE DEF Goal
  <1>7. Goal
    <2>1. \/ counter'[k] = counter[k] \/ counter'[k] = New
          \/ counter'[k] = [counter[k] EXCEPT !.missed = @ + 1]
          \/ \E w \in Worker : counter'[k] = Counted(counter[k], job[w])
          \/ \E w \in Worker : /\ Reseed(w) /\ job[w].countKey = k
                               /\ counter'[k] = Reseeded(counter[k], job[w])
      BY CounterTouched DEF Touched
    <2>. QED  BY <1>2, <1>3, <1>4, <1>5, <1>6, <2>1
  <1>. QED  BY <1>7 DEF Goal

-----------------------------------------------------------------------------
(* What becomes of a key at each step.                                     *)
LEMMA SupersededKept ==
    ASSUME NEW k, version' = version
    PROVE  Superseded(k)' = Superseded(k)
  BY DEF Superseded

(* A worker that takes up a job in which it can neither guess nor lock, or *)
(* could already before, with the cache as it was.                         *)
LEMMA WaveBystander ==
    ASSUME TypeOK, NEW k \in Key, WaveOf(k), now' = now, version' = version,
           counter'[k] = counter[k], lock'[k] = lock[k],
           NEW w \in Worker, MovesOnly(w),
           GuessJob(job'[w], k) => w \in MayGuess(k),
           w \notin MayLock(k)
    PROVE  WaveOf(k)'
  <1>1. /\ MayGuess(k)' \subseteq MayGuess(k) /\ MayLock(k) \subseteq MayLock(k)'
        /\ MayLock(k)' \subseteq Worker
    BY AfterMove
  <1>. QED  BY <1>1, SupersededKept, WaveKept

LEMMA IdleGuessesNot ==
    ASSUME NEW k, NEW j, j.op \in {"idle", "locked", "lock"}
    PROVE  ~GuessJob(j, k)
  BY DEF GuessJob

(* Who joins those that may guess under k does so while k is current and   *)
(* not locked.                                                             *)
LEMMA WaveAfterJoin ==
    ASSUME TypeOK, NEW k \in Key, WaveOf(k), now' = now, version' = version,
           counter' = counter, lock' = lock, NEW w \in Worker, MovesOnly(w),
           w \notin MayLock(k), job'[w].op # "lock",
           GuessJob(job'[w], k) =>
              w \in MayGuess(k) \/ (~Locked(k) /\ ~Superseded(k))
    PROVE  WaveOf(k)'
  <1>1. CASE GuessJob(job'[w], k) => w \in MayGuess(k)
    BY <1>1, WaveBystander
  <1>2. CASE ~Locked(k) /\ ~Superseded(k)
    <2>1. MayLock(k)' = MayLock(k)
      BY AfterMove
    <2>. QED  BY <1>2, <2>1, SupersededKept, WaveJoined
  <1>. QED  BY <1>1, <1>2

LEMMA CurrentKey ==
    ASSUME TypeOK, NEW i \in Identifier, NEW a \in Ip,
           NEW v \in version[i]..MaxUnlocks
    PROVE  /\ ~Superseded(KeyAt(i, a, v)) /\ v \in Version
           /\ Scope # "ip" => KeyAt(i, a, v)[1] = i /\ KeyAt(i, a, v)[3] = v
           /\ (Scope = "ip" \/ v = version[i]) => KeyAt(i, a, v) = KeyOf(i, a)
           /\ v # version[i] => version[i] < v
  <1>1. version[i] \in Version /\ version[i] \in Nat /\ v \in Version /\ v \in Nat
        /\ version[i] <= v
    BY LockoutAssumption DEF TypeOK, Version
  <1>2. /\ Scope # "ip" => KeyAt(i, a, v)[1] = i /\ KeyAt(i, a, v)[3] = v
        /\ Scope = "ip" => \A u : KeyAt(i, a, u) = KeyAt(i, a, v)
    BY <1>1, KeyAtType
  <1>3. v # version[i] => version[i] < v
    BY <1>1
  <1>4. Scope = "ip" => KeyAt(i, a, version[i]) = KeyAt(i, a, v)
    BY <1>2
  <1>. QED  BY <1>1, <1>2, <1>3, <1>4 DEF Superseded, KeyOf

LEMMA WaveAfterLogin ==
    ASSUME TypeOK, LocksBehind, NEW k \in Key, WaveOf(k),
           NEW w \in Worker, NEW i \in Identifier, NEW a \in Ip, Login(w, i, a)
    PROVE  WaveOf(k)'
  <1>1. /\ now' = now /\ version' = version /\ counter' = counter /\ lock' = lock
        /\ MovesOnly(w) /\ w \notin MayLock(k) /\ job'[w].op = "ask"
        /\ job'[w].id = i /\ job'[w].ip = a /\ job'[w].lockKey = KeyOf(i, a)
    BY LoginMoves, IdleJob DEF Login, MayLock
  <1>2. ASSUME GuessJob(job'[w], k)
        PROVE  ~Locked(k) /\ ~Superseded(k)
    <2>0. PICK u \in 0..MaxUnlocks :
             /\ KeyOf(i, a) = KeyAt(i, a, u) /\ KeyOf(i, a) # k
             /\ \E v \in u..MaxUnlocks : k = KeyAt(i, a, v)
      BY <1>1, <1>2 DEF GuessJob
    <2>1. PICK v \in u..MaxUnlocks : k = KeyAt(i, a, v)
      BY <2>0
    <2>2. u \in Version /\ v \in Version /\ u \in Nat /\ v \in Nat /\ u <= v
      BY <2>1, LockoutAssumption DEF Version
    <2>3. Scope # "ip" /\ u = version[i]
      <3>1. Scope # "ip"
        BY <2>0, <2>1, <2>2, KeyAtType
      <3>. QED  BY <2>0, <2>2, <3>1, KeyAtType, KeyOfType
    <2>4. v \in version[i]..MaxUnlocks /\ v # version[i]
      BY <2>0, <2>1, <2>3 DEF KeyOf
    <2>5. /\ ~Superseded(k) /\ k[1] = i /\ k[3] = v /\ version[i] < v
      BY <2>1, <2>3, <2>4, CurrentKey
    <2>6. ~(v <= version[i])
      <3>1. version[i] \in Nat
        BY LockoutAssumption DEF TypeOK
      <3>. QED  BY <2>2, <2>5, <3>1
    <2>7. lock[k].until = 0
      BY <2>3, <2>5, <2>6 DEF LocksBehind
    <2>. QED  BY <2>5, <2>7, Entries DEF Locked
  <1>. QED  BY <1>1, <1>2, WaveAfterJoin

LEMMA WaveAfterIsLocked ==
    ASSUME TypeOK, KeysOfFailure, KeysAgree, NEW k \in Key, WaveOf(k),
           NEW w \in Worker, IsLocked(w)
    PROVE  WaveOf(k)'
  <1>1. /\ now' = now /\ version' = version /\ counter' = counter /\ lock' = lock
        /\ MovesOnly(w) /\ w \notin MayLock(k) /\ SameBut(job'[w], job[w])
        /\ job'[w].op = IF Locked(job[w].lockKey) THEN "locked" ELSE "compare"
    BY IsLockedMoves DEF IsLocked, MayLock
  <1>2. ASSUME GuessJob(job'[w], k)
        PROVE  w \in MayGuess(k) \/ (~Locked(k) /\ ~Superseded(k))
    <2>1. Agree(job[w], version) /\ JobFine(job[w], failed) /\ job[w].op = "ask"
      BY KeysAgreeIs, KeysOfFailureIs DEF IsLocked
    <2>2. PICK i \in Identifier, a \in Ip : i = job[w].id /\ a = job[w].ip
      BY <2>1 DEF JobFine
    <2>3. job'[w].op = "compare" /\ ~Locked(job[w].lockKey)
      BY <1>1, <1>2 DEF GuessJob
    <2>4. PICK v \in version[i]..MaxUnlocks : k = KeyAt(i, a, v)
      BY <1>1, <1>2, <2>2, <2>3 DEF GuessJob, SameBut
    <2>5. PICK u \in 0..version[i] : job[w].lockKey = KeyAt(i, a, u)
      BY <2>1, <2>2 DEF Agree
    <2>6. u \in 0..MaxUnlocks /\ v \in u..MaxUnlocks
      <3>1. version[i] \in Nat /\ version[i] <= MaxUnlocks
        BY LockoutAssumption DEF TypeOK
      <3>. QED  BY <2>4, <2>5, <3>1, LockoutAssumption
    <2>7. CASE job[w].lockKey = k
      <3>1. ~Superseded(k)
        BY <2>4, CurrentKey
      <3>. QED  BY <2>3, <2>7, <3>1
    <2>8. CASE job[w].lockKey # k
      <3>1. GuessJob(job[w], k)
        BY <2>1, <2>2, <2>4, <2>5, <2>6, <2>8 DEF GuessJob
      <3>. QED  BY <3>1, MayGuessIs
    <2>. QED  BY <2>7, <2>8
  <1>. QED  BY <1>1, <1>2, WaveAfterJoin

(* Up to the counter itself, a failure only keeps what it may do.          *)
LEMMA WaveAfterKeys ==
    ASSUME TypeOK, KeysOfFailure, NEW k \in Key, WaveOf(k),
           NEW w \in Worker, Record(w) \/ CountKey(w) \/ LockKey(w)
    PROVE  WaveOf(k)'
  <1>1. CASE Record(w)
    <2>1. /\ now' = now /\ version' = version /\ counter' = counter /\ lock' = lock
          /\ MovesOnly(w) /\ w \notin MayLock(k)
      BY <1>1, RecordMoves DEF Record, MayLock
    <2>2. GuessJob(job'[w], k) => GuessJob(job[w], k)
      BY <1>1, RecordMoves, IdleJob, IdleGuessesNot DEF GuessJob
    <2>. QED  BY <2>1, <2>2, MayGuessIs, WaveBystander
  <1>2. CASE CountKey(w)
    <2>1. PICK i \in Identifier, a \in Ip : i = job[w].id /\ a = job[w].ip
      BY <1>2, CountKeyMoves
    <2>2. /\ now' = now /\ version' = version /\ counter' = counter /\ lock' = lock
          /\ MovesOnly(w) /\ w \notin MayLock(k)
          /\ job[w].op = "failed" /\ job'[w].op = "keyed"
          /\ job'[w].countKey = KeyAt(i, a, version[i])
          /\ job'[w].compared = job[w].compared
      BY <1>2, <2>1, CountKeyMoves DEF CountKey, MayLock, KeyOf
    <2>3. version[i] \in version[i]..MaxUnlocks
      BY LockoutAssumption DEF TypeOK
    <2>4. GuessJob(job'[w], k) => GuessJob(job[w], k)
      BY <2>1, <2>2, <2>3 DEF GuessJob
    <2>. QED  BY <2>2, <2>4, MayGuessIs, WaveBystander
  <1>3. CASE LockKey(w)
    <2>1. /\ now' = now /\ version' = version /\ counter' = counter /\ lock' = lock
          /\ MovesOnly(w) /\ w \notin MayLock(k)
          /\ job[w].op = "keyed" /\ job'[w].op = "seed"
          /\ job'[w].countKey = job[w].countKey
          /\ job'[w].compared = job[w].compared
      BY <1>3, LockKeyMoves DEF LockKey, MayLock
    <2>2. GuessJob(job'[w], k) => GuessJob(job[w], k)
      BY <2>1 DEF GuessJob
    <2>. QED  BY <2>1, <2>2, MayGuessIs, WaveBystander
  <1>. QED  BY <1>1, <1>2, <1>3

LEMMA WaveAfterSeed ==
    ASSUME TypeOK, KeysOfFailure, NEW k \in Key, WaveOf(k), NEW w \in Worker, Seed(w)
    PROVE  WaveOf(k)'
  <1>1. /\ now' = now /\ version' = version /\ lock' = lock
        /\ MovesOnly(w) /\ w \notin MayLock(k)
        /\ job[w].op = "seed" /\ job'[w].op = "count" /\ SameBut(job'[w], job[w])
    BY SeedMoves DEF Seed, MayLock
  <1>2. GuessJob(job'[w], k) => w \in MayGuess(k)
    BY <1>1, MayGuessIs DEF GuessJob, SameBut
  <1>3. CASE counter'[k] = counter[k]
    BY <1>1, <1>2, <1>3, WaveBystander
  <1>4. CASE counter'[k] = New
    <2>1. MayGuess(k)' \subseteq MayGuess(k) /\ MayLock(k)' \subseteq Worker
      BY <1>1, <1>2, AfterMove
    <2>. QED  BY <1>1, <1>4, <2>1, WaveSeeded
  <1>5. counter'[k] = counter[k] \/ counter'[k] = New
    BY DEF Seed, Seeded, TypeOK
  <1>. QED  BY <1>3, <1>4, <1>5

(* A request that has counted is about to lock, or done.                   *)
LEMMA CountMovesOn ==
    ASSUME TypeOK, NEW w \in Worker, NEW c \in Nat, AfterCount(w, c),
           job[w].op \in {"count", "reseed"}, version' = version, NEW k
    PROVE  /\ MovesOnly(w) /\ w \notin MayLock(k) /\ ~GuessJob(job'[w], k)
           /\ MayGuess(k)' = MayGuess(k) \ {w}
           /\ job[w].countKey = k =>
                 MayLock(k)' = IF c >= MaxAttempts
                               THEN MayLock(k) \cup {w} ELSE MayLock(k)
  <1>1. MovesOnly(w) /\ w \notin MayLock(k)
    BY AfterCountMoves DEF MayLock
  <1>2. /\ ~GuessJob(job'[w], k)
        /\ job'[w].op = "lock" /\ job'[w].countKey = k
              <=> c >= MaxAttempts /\ job[w].countKey = k
    <2>1. CASE c >= MaxAttempts /\ job'[w].op = "lock" /\ SameBut(job'[w], job[w])
      BY <2>1, IdleGuessesNot DEF SameBut
    <2>2. CASE ~(c >= MaxAttempts) /\ job'[w] = Idle
      BY <2>2, IdleJob, IdleGuessesNot
    <2>. QED  BY <2>1, <2>2, AfterCountMoves
  <1>3. MayGuess(k)' = MayGuess(k) \ {w}
    BY <1>1, <1>2, AfterMove
  <1>4. ASSUME job[w].countKey = k
        PROVE  MayLock(k)' = IF c >= MaxAttempts
                             THEN MayLock(k) \cup {w} ELSE MayLock(k)
    <2>1. /\ MayLock(k)' \ {w} = MayLock(k) /\ MayLock(k)' \subseteq Worker
          /\ w \in MayLock(k)' <=> c >= MaxAttempts
      BY <1>1, <1>2, <1>4, AfterMove
    <2>2. CASE c >= MaxAttempts
      BY <2>1, <2>2
    <2>3. CASE ~(c >= MaxAttempts)
      BY <2>1, <2>3
    <2>. QED  BY <2>2, <2>3
  <1>. QED  BY <1>1, <1>2, <1>3, <1>4

LEMMA WaveAfterCount ==
    ASSUME TypeOK, KeysOfFailure, NEW k \in Key, WaveOf(k), NEW w \in Worker, Count(w)
    PROVE  WaveOf(k)'
  <1>. DEFINE x == job[w].countKey
  <1>1. /\ now' = now /\ version' = version /\ lock' = lock
        /\ MovesOnly(w) /\ w \notin MayLock(k) /\ job[w].op = "count" /\ x \in Key
        /\ job[w] \in Job
    BY CountMoves DEF Count, KeysOfFailure, Keyed, MayLock, TypeOK
  <1>2. CASE counter' = counter /\ job'[w].op = "reseed" /\ SameBut(job'[w], job[w])
    <2>1. GuessJob(job'[w], k) => w \in MayGuess(k)
      BY <1>1, <1>2, MayGuessIs DEF GuessJob, SameBut
    <2>. QED  BY <1>1, <1>2, <2>1, WaveBystander
  <1>3. CASE /\ Counting(x)
             /\ counter' = [counter EXCEPT ![x] = Counted(counter[x], job[w])]
             /\ AfterCount(w, Counted(counter[x], job[w]).count)
    <2>1. PICK c \in Nat : c = Counted(counter[x], job[w]).count
      BY <1>1, CountedType, CounterFields DEF TypeOK
    <2>2. /\ ~GuessJob(job'[w], k)
          /\ MayGuess(k)' = MayGuess(k) \ {w}
          /\ x = k => MayLock(k)' = IF c >= MaxAttempts
                                    THEN MayLock(k) \cup {w} ELSE MayLock(k)
      BY <1>1, <1>3, <2>1, CountMovesOn
    <2>3. CASE x # k
      <3>1. counter'[k] = counter[k]
        BY <1>1, <1>3, <2>3 DEF TypeOK
      <3>. QED  BY <1>1, <2>2, <3>1, WaveBystander
    <2>4. CASE x = k
      <3>1. counter'[k] = Counted(counter[k], job[w]) /\ counter'[k].count = c
        BY <1>1, <1>3, <2>1, <2>4 DEF TypeOK
      <3>2. job[w].compared = 1 => w \in MayGuess(k)
        BY <1>1, <2>4 DEF MayGuess
      <3>3. MayLock(k)' = IF counter'[k].count >= MaxAttempts
                          THEN MayLock(k) \cup {w} ELSE MayLock(k)
        BY <2>2, <2>4, <3>1
      <3>4. Superseded(k)' = Superseded(k) /\ lock'[k] = lock[k] /\ Counting(k)
        BY <1>1, <1>3, <2>4, SupersededKept
      <3>. QED  BY <1>1, <2>2, <3>1, <3>2, <3>3, <3>4, WaveCounted
    <2>. QED  BY <2>3, <2>4
  <1>. QED  BY <1>2, <1>3, CountMoves

LEMMA WaveAfterReseed ==
    ASSUME TypeOK, KeysOfFailure, NEW k \in Key, WaveOf(k), NEW w \in Worker,
           Reseed(w), counter[k].guesses <= Before(k) + OneCounter
    PROVE  WaveOf(k)'
  <1>. DEFINE x == job[w].countKey
  <1>1. /\ now' = now /\ version' = version /\ lock' = lock
        /\ MovesOnly(w) /\ w \notin MayLock(k) /\ job[w].op = "reseed" /\ x \in Key
        /\ counter' = [counter EXCEPT ![x] = Reseeded(counter[x], job[w])]
        /\ AfterCount(w, 1)
    BY ReseedMoves DEF Reseed, KeysOfFailure, Keyed, MayLock, TypeOK
  <1>2. /\ ~GuessJob(job'[w], k)
        /\ MayGuess(k)' = MayGuess(k) \ {w}
        /\ x = k => MayLock(k)' = IF 1 >= MaxAttempts
                                  THEN MayLock(k) \cup {w} ELSE MayLock(k)
    BY <1>1, CountMovesOn
  <1>3. CASE x # k
    <2>1. counter'[k] = counter[k]
      BY <1>1, <1>3 DEF TypeOK
    <2>. QED  BY <1>1, <1>2, <2>1, WaveBystander
  <1>4. CASE x = k
    <2>1. counter'[k] = Reseeded(counter[k], job[w])
      BY <1>1, <1>4 DEF TypeOK
    <2>2. job[w].compared = 1 => w \in MayGuess(k)
      BY <1>1, <1>4 DEF MayGuess
    <2>3. Superseded(k)' = Superseded(k) /\ lock'[k] = lock[k]
      BY <1>1, SupersededKept
    <2>. QED  BY <1>1, <1>2, <1>4, <2>1, <2>2, <2>3, WaveReseeded
  <1>. QED  BY <1>3, <1>4

LEMMA IdleLeaves ==
    ASSUME TypeOK, NEW w \in Worker, MovesOnly(w), job'[w] = Idle,
           version' = version, NEW k
    PROVE  /\ ~GuessJob(job'[w], k) /\ MayLock(k)' \subseteq Worker
           /\ w \notin MayGuess(k) => MayGuess(k)' = MayGuess(k)
           /\ MayLock(k)' = MayLock(k) \ {w}
  <1>1. /\ ~GuessJob(job'[w], k) /\ job'[w].op # "lock"
    BY IdleJob, IdleGuessesNot
  <1>2. /\ MayGuess(k)' \ {w} = MayGuess(k) \ {w} /\ w \notin MayGuess(k)'
        /\ MayLock(k)' \ {w} = MayLock(k) \ {w} /\ w \notin MayLock(k)'
        /\ MayLock(k)' \subseteq Worker
    BY <1>1, AfterMove
  <1>. QED  BY <1>1, <1>2

LEMMA WaveAfterLockOut ==
    ASSUME TypeOK, KeysOfFailure, KeysAgree, CountersNear, LockTime >= WindowTime,
           NEW k \in Key, WaveOf(k), NEW w \in Worker, LockOut(w)
    PROVE  WaveOf(k)'
  <1>1. /\ job[w] \in Job /\ now' = now /\ version' = version /\ counter' = counter
        /\ job[w].op = "lock" /\ w \notin MayGuess(k) /\ job[w].lockKey \in Key
        /\ MovesOnly(w) /\ job'[w] = Idle
        /\ Agree(job[w], version) /\ JobFine(job[w], failed)
    BY LockOutMoves, KeysAgreeIs, KeysOfFailureIs
       DEF LockOut, MayGuess, JobFine, Armed, TypeOK
  <1>2. /\ MayGuess(k)' = MayGuess(k) /\ MayLock(k)' = MayLock(k) \ {w}
        /\ MayLock(k)' \subseteq Worker /\ ~GuessJob(job'[w], k)
    BY <1>1, IdleLeaves
  <1>3. Superseded(k)' = Superseded(k)
    BY <1>1, SupersededKept
  <1>4. CASE job[w].lockKey = k /\ ~Locked(k)
    <2>1. lock'[k].until = now + LockTime
      BY <1>1, <1>4 DEF LockOut, TypeOK
    <2>. QED  BY <1>1, <1>2, <1>3, <1>4, <2>1, WaveLocked
  <1>5. CASE job[w].lockKey # k \/ Locked(k)
    <2>1. lock'[k] = lock[k]
      BY <1>1, <1>5 DEF LockOut, TypeOK
    <2>2. CASE job[w].countKey # k
      <3>1. w \notin MayLock(k)
        BY <2>2 DEF MayLock
      <3>. QED  BY <1>1, <1>2, <2>1, <3>1, WaveBystander
    <2>3. CASE job[w].countKey = k /\ ~Locked(k)
      <3>1. PICK i \in Identifier, a \in Ip : i = job[w].id /\ a = job[w].ip
        BY <1>1 DEF JobFine
      <3>2. PICK v \in job[w].since..version[i] : job[w].lockKey = KeyAt(i, a, v)
        BY <1>1, <3>1 DEF Agree, Armed
      <3>3. PICK u \in Version : u = job[w].since
        BY <1>1, JobFields
      <3>4. /\ v \in Version /\ version[i] \in Nat /\ v \in Nat /\ u \in Nat
            /\ u <= v /\ v <= version[i]
        <4>1. version[i] \in 0..MaxUnlocks
          BY DEF TypeOK
        <4>. QED  BY <3>2, <3>3, <4>1, LockoutAssumption DEF Version
      <3>5. k = KeyAt(i, a, u) /\ KeyAt(i, a, u) # KeyAt(i, a, v)
        BY <1>1, <1>5, <2>3, <3>1, <3>2, <3>3 DEF Agree, Keyed
      <3>6. Scope # "ip" /\ u # v
        BY <3>4, <3>5, KeyAtType
      <3>7. k[1] = i /\ k[3] = u /\ u < version[i]
        BY <3>4, <3>5, <3>6, KeyAtType
      <3>8. Superseded(k)
        BY <3>6, <3>7 DEF Superseded
      <3>. QED  BY <1>1, <1>2, <1>3, <2>1, <3>8, WaveLockLost
    <2>4. CASE Locked(k)
      BY <1>1, <1>2, <1>3, <2>1, <2>4, WaveLockLost
    <2>. QED  BY <2>2, <2>3, <2>4
  <1>. QED  BY <1>4, <1>5

LEMMA WaveAfterAbort ==
    ASSUME TypeOK, KeysOfFailure, NEW k \in Key, WaveOf(k), NEW w \in Worker, Abort(w)
    PROVE  WaveOf(k)'
  <1>1. /\ now' = now /\ version' = version /\ lock' = lock
        /\ MovesOnly(w) /\ job'[w] = Idle
    BY AbortMoves DEF Abort
  <1>2. CASE w \notin MayLock(k)
    <2>1. counter'[k] = counter[k]
      BY <1>2 DEF Abort, MayLock, TypeOK
    <2>. QED  BY <1>1, <1>2, <2>1, IdleLeaves, WaveBystander
  <1>3. CASE w \in MayLock(k)
    <2>1. /\ counter'[k] = [counter[k] EXCEPT !.missed = @ + 1]
          /\ w \notin MayGuess(k)
      BY <1>3 DEF Abort, MayLock, MayGuess, TypeOK
    <2>2. MayGuess(k)' = MayGuess(k) /\ MayLock(k)' = MayLock(k) \ {w}
      BY <1>1, <2>1, IdleLeaves
    <2>. QED  BY <1>1, <1>3, <2>1, <2>2, SupersededKept, WaveMissed
  <1>. QED  BY <1>2, <1>3

LEMMA WaveAfterUnlock ==
    ASSUME TypeOK, KeysOfFailure, NEW k \in Key, WaveOf(k),
           NEW i \in Identifier, Unlock(i)
    PROVE  WaveOf(k)'
  <1>1. /\ now' = now /\ counter' = counter /\ lock' = lock /\ job' = job
    BY DEF Unlock
  <1>2. \A x \in Identifier : /\ version[x] \in Nat /\ version'[x] \in Nat
                               /\ version[x] <= version'[x]
    <2>1. [Next]_vars
      BY DEF Next
    <2>. QED  BY <2>1, VersionGrows
  <1>3. Superseded(k) => Superseded(k)'
    <2>1. Scope # "ip" /\ k[1] \in Identifier => k[3] \in Nat
      BY LockoutAssumption DEF Key
    <2>. QED  BY <1>2, <2>1 DEF Superseded
  <1>4. ASSUME NEW w \in MayGuess(k)'  PROVE w \in MayGuess(k)
    <2>1. CASE job[w].op \in {"compare", "failed"}
      <3>1. job[w].id \in Identifier /\ w \in Worker
        BY <2>1, <1>1 DEF KeysOfFailure, MayGuess
      <3>2. PICK v \in version'[job[w].id]..MaxUnlocks :
               k = KeyAt(job[w].id, job[w].ip, v)
        BY <1>1, <2>1 DEF MayGuess
      <3>3. v \in version[job[w].id]..MaxUnlocks
        BY <1>2, <3>1, <3>2, LockoutAssumption
      <3>4. job[w].op = "compare" \/ (job[w].op = "failed" /\ job[w].compared = 1)
        BY <1>1, <2>1 DEF MayGuess
      <3>. QED  BY <3>1, <3>2, <3>3, <3>4 DEF MayGuess
    <2>2. CASE job[w].op \notin {"compare", "failed"}
      BY <1>1, <2>2 DEF MayGuess
    <2>. QED  BY <2>1, <2>2
  <1>5. MayLock(k)' = MayLock(k)
    BY <1>1 DEF MayLock
  <1>. QED  BY <1>1, <1>3, <1>4, <1>5, WaveUnlocked

LEMMA WaveUntouched ==
    ASSUME TypeOK, NEW k \in Key, WaveOf(k), job' = job, version' = version,
           counter' = counter, lock' = lock, now' = now \/ now' = now + 1
    PROVE  WaveOf(k)'
  <1>1. MayGuess(k)' = MayGuess(k) /\ MayLock(k)' = MayLock(k)
    BY DEF MayGuess, MayLock
  <1>2. MayLock(k)' \subseteq Worker
    BY DEF MayLock
  <1>. QED  BY <1>1, <1>2, SupersededKept, WaveKept, WaveTick

LEMMA NextWaves ==
    /\ TypeOK /\ KeysOfFailure /\ KeysAgree /\ LocksBehind /\ CountersNear
    /\ GuessesBounded /\ Waves /\ [Next]_vars
    => Waves'
  <1>. SUFFICES ASSUME TypeOK, KeysOfFailure, KeysAgree, LocksBehind, CountersNear,
                       GuessesBounded, Waves, [Next]_vars, LockTime >= WindowTime,
                       NEW k \in Key
                PROVE  WaveOf(k)'
    BY DEF Waves
  <1>1. WaveOf(k)
    BY DEF Waves
  <1>2. counter[k].guesses <= Before(k) + OneCounter
    <2>1. PICK x \in Nat : x = counter[k].wiped * OneCounter
      BY Entries, OneType, Times
    <2>2. counter[k].guesses <= x + OneCounter + counter[k].missed
      BY <2>1 DEF GuessesBounded
    <2>3. Before(k) = x + counter[k].missed
      BY <2>1 DEF Before
    <2>. QED  BY <2>2, <2>3, Entries, OneType
  <1>3. CASE Purge \/ Tick \/ UNCHANGED vars
    <2>1. /\ job' = job /\ version' = version /\ counter' = counter /\ lock' = lock
          /\ now' = now \/ now' = now + 1
      BY <1>3 DEF Purge, Tick, vars
    <2>. QED  BY <1>1, <2>1, WaveUntouched
  <1>. QED
    BY <1>1, <1>2, <1>3, WaveAfterLogin, WaveAfterIsLocked, WaveAfterKeys,
       WaveAfterSeed, WaveAfterCount, WaveAfterReseed, WaveAfterLockOut,
       WaveAfterAbort, WaveAfterUnlock DEF Next

-----------------------------------------------------------------------------
(* The bound itself: a counter only takes up a guess within it.            *)
Bounded(c) ==
    /\ c.wiped < Cardinality(Worker)
    /\ LockTime >= WindowTime =>
          c.guesses <= c.wiped * OneCounter + OneCounter + c.missed

LEMMA GuessesBoundedIs ==
    /\ GuessesBounded <=> \A k \in Key : Bounded(counter[k])
    /\ GuessesBounded' <=> \A k \in Key : Bounded(counter'[k])
  BY DEF GuessesBounded, Bounded

LEMMA NothingCounted ==
    ASSUME NEW c, c.wiped = 0, c.guesses = 0, c.missed = 0
    PROVE  Bounded(c)
  BY OneType, Times DEF Bounded

(* A counter in force is within the bound by the requests ahead of it.     *)
LEMMA CountingBounded ==
    ASSUME NEW k \in Key, TypeOK', WaveOf(k)', Counting(k)'
    PROVE  counter'[k].guesses <= counter'[k].wiped * OneCounter + OneCounter
                                     + counter'[k].missed
  <1>. DEFINE p == Cardinality(MayGuess(k)')
              d == Cardinality(MayLock(k)')
              n == Cardinality(Worker)
  <1>1. p \in Nat /\ d \in Nat /\ n \in Nat /\ d <= n
    <2>1. MayGuess(k)' \in SUBSET Worker /\ MayLock(k)' \in SUBSET Worker
      BY DEF MayGuess, MayLock
    <2>. QED  BY <2>1, WorkerSets
  <1>2. /\ counter'[k].guesses \in Nat /\ counter'[k].missed \in Nat
        /\ counter'[k].wiped \in Nat
    BY CounterFields DEF TypeOK
  <1>3. PICK x \in Nat : x = counter'[k].wiped * OneCounter
    BY <1>2, OneType, Times
  <1>4. Before(k)' = x + counter'[k].missed /\ Guessed(k)' = counter'[k].guesses
    BY <1>3 DEF Before, Guessed
  <1>5. \/ Guessed(k)' + p <= Before(k)' + OneCounter
        \/ Guessed(k)' <= Before(k)' + FirstGuesses + d
    BY DEF WaveOf
  <1>. HIDE DEF p, d, n
  <1>6. counter'[k].guesses <= x + OneCounter + counter'[k].missed
    BY <1>1, <1>2, <1>4, <1>5, OneType DEF n
  <1>. QED  BY <1>3, <1>6

LEMMA NextGuessesBounded ==
    /\ TypeOK /\ KeysOfFailure /\ GuessesBounded /\ WipesFew
    /\ Waves' /\ TypeOK' /\ [Next]_vars
    => GuessesBounded'
  <1>. SUFFICES ASSUME TypeOK, KeysOfFailure, GuessesBounded, WipesFew,
                       Waves', TypeOK', [Next]_vars, NEW k \in Key
                PROVE  Bounded(counter'[k])
    BY GuessesBoundedIs
  <1>0. Bounded(counter[k]) /\ \A w \in Worker : job[w] \in Job
    BY GuessesBoundedIs DEF TypeOK
  <1>1. ASSUME now' = now, now < counter'[k].until,
               counter'[k].wiped < Cardinality(Worker)
        PROVE  Bounded(counter'[k])
    <2>1. ASSUME LockTime >= WindowTime
          PROVE  counter'[k].guesses <= counter'[k].wiped * OneCounter + OneCounter
                                          + counter'[k].missed
      <3>1. TypeOK' /\ WaveOf(k)' /\ Counting(k)'
        BY <1>1, <2>1 DEF Waves, Counting
      <3>. QED  BY <3>1, CountingBounded
    <2>. QED  BY <1>1, <2>1 DEF Bounded
  <1>2. CASE counter'[k] = counter[k]
    BY <1>0, <1>2
  <1>3. CASE counter'[k] = New
    BY <1>3, Entries, NewType, NothingCounted
  <1>4. CASE counter'[k] = [counter[k] EXCEPT !.missed = @ + 1]
    <2>1. /\ counter'[k].guesses = counter[k].guesses
          /\ counter'[k].missed = counter[k].missed + 1
          /\ counter'[k].wiped = counter[k].wiped
      BY <1>4, Entries, MissedType
    <2>2. PICK x \in Nat : x = counter[k].wiped * OneCounter
      BY Entries, OneType, Times
    <2>3. LockTime >= WindowTime =>
             counter'[k].guesses <= x + OneCounter + counter'[k].missed
      BY <1>0, <2>1, <2>2, Entries, OneType DEF Bounded
    <2>. QED  BY <1>0, <2>1, <2>2, <2>3 DEF Bounded
  <1>5. ASSUME NEW w \in Worker, Counting(k),
               counter'[k] = Counted(counter[k], job[w]), counter'[k] # counter[k]
        PROVE  Bounded(counter'[k])
    <2>1. /\ counter'[k].until = counter[k].until
          /\ counter'[k].wiped = counter[k].wiped /\ now' = now
      BY <1>0, <1>5, Entries, CountedType, CounterTouched
    <2>. QED  BY <1>0, <1>1, <1>5, <2>1 DEF Counting, Bounded
  <1>6. ASSUME NEW w \in Worker, Reseed(w), job[w].countKey = k,
               counter'[k] = Reseeded(counter[k], job[w]), counter'[k] # counter[k]
        PROVE  Bounded(counter'[k])
    <2>1. /\ counter'[k].until = now + WindowTime /\ now' = now
          /\ now < counter[k].until => counter'[k].wiped = counter[k].wiped + 1
          /\ ~(now < counter[k].until) => counter'[k].wiped = 0
      BY <1>0, <1>6, Entries, ReseededType, CounterTouched
    <2>2. now < counter'[k].until
      BY <2>1, Entries, LockoutAssumption
    <2>3. counter'[k].wiped < Cardinality(Worker)
      <3>1. CASE Counting(k)
        <4>1. w \in MayWipe(k)
          BY <1>6, ReseedMoves DEF MayWipe
        <4>2. Cardinality(MayWipe(k)) \in Nat /\ Cardinality(MayWipe(k)) >= 1
          <5>1. IsFiniteSet(MayWipe(k))
            BY LockoutAssumption, FS_Subset DEF MayWipe
          <5>2. Cardinality(MayWipe(k)) \in Nat /\ Cardinality(MayWipe(k)) # 0
            BY <4>1, <5>1, FS_CardinalityType, FS_EmptySet
          <5>. QED  BY <5>2
        <4>3. counter[k].wiped + Cardinality(MayWipe(k)) < Cardinality(Worker)
          BY <3>1 DEF WipesFew
        <4>4. counter'[k].wiped = counter[k].wiped + 1
          BY <2>1, <3>1 DEF Counting
        <4>. QED  BY <4>2, <4>3, <4>4, Entries, OneType
      <3>2. CASE ~Counting(k)
        BY <2>1, <3>2, OneType DEF Counting
      <3>. QED  BY <3>1, <3>2
    <2>. QED  BY <1>1, <2>1, <2>2, <2>3
  <1>7. \/ counter'[k] = counter[k] \/ counter'[k] = New
        \/ counter'[k] = [counter[k] EXCEPT !.missed = @ + 1]
        \/ \E w \in Worker : Counting(k) /\ counter'[k] = Counted(counter[k], job[w])
        \/ \E w \in Worker : /\ Reseed(w) /\ job[w].countKey = k
                             /\ counter'[k] = Reseeded(counter[k], job[w])
    BY CounterTouched DEF Touched
  <1>. QED  BY <1>2, <1>3, <1>4, <1>5, <1>6, <1>7

LEMMA InitGInv == Init => GInv
  <1>. SUFFICES ASSUME Init  PROVE GInv
    OBVIOUS
  <1>1. IInv /\ TypeOK
    BY InitIInv DEF IInv
  <1>2. \A w \in Worker : job[w].op = "idle"
    BY IdleJob DEF Init
  <1>3. KeysAgree
    BY <1>2, OthersAgree, KeysAgreeIs
  <1>4. LocksBehind
    BY DEF Init, LocksBehind
  <1>5. ASSUME NEW k \in Key
        PROVE  /\ counter[k].until = 0 /\ counter[k].guesses = 0
               /\ counter[k].count = 0 /\ counter[k].missed = 0
               /\ counter[k].wiped = 0 /\ lock[k].until = 0 /\ now = 0
    BY DEF Init, NoEntry
  <1>6. CountersNear
    BY <1>5, LockoutAssumption DEF CountersNear
  <1>7. GuessesBounded
    BY <1>5, NothingCounted, GuessesBoundedIs
  <1>8. ASSUME NEW k \in Key  PROVE WaveOf(k) /\ ~Counting(k)
    <2>1. ~Locked(k) /\ ~Covered(k) /\ Guessed(k) = 0 /\ ~Counting(k)
      BY <1>5 DEF Locked, Covered, Guessed, Counting
    <2>2. /\ Cardinality(MayGuess(k)) \in Nat /\ Cardinality(MayLock(k)) \in Nat
          /\ Cardinality(MayGuess(k)) <= Cardinality(Worker)
      BY AheadCounts
    <2>3. Before(k) = 0
      BY <1>5, OneType, Times DEF Before
    <2>. QED  BY <1>5, <2>1, <2>2, <2>3, OneType DEF WaveOf
  <1>9. WipesFew
    BY <1>8 DEF WipesFew
  <1>. QED  BY <1>1, <1>3, <1>4, <1>6, <1>7, <1>8, <1>9 DEF GInv, Waves

(* The requests that may still guess under a key, those that may still     *)
(* lock it, those that may still set its counter back, and the counter     *)
(* itself stay in the proportion that bounds the guesses, through locks,   *)
(* unlocks, expiries and deaths (is_locked before authenticate,            *)
(* record_attempt after it).                                               *)
THEOREM GuessesInvariant == Spec => []GInv
  <1>1. GInv /\ [Next]_vars => GInv'
    BY NextTypeOK, NextKeysOfFailure, NextCountedOnce, NextLocksEarned, NextKeysAgree,
       NextLocksBehind, NextCountersNear, NextWipesFew, NextWaves, NextGuessesBounded
       DEF GInv, IInv
  <1>. QED  BY <1>1, InitGInv, PTL DEF Spec

(* Also with several waves of requests against one counter, and locks that *)
(* end before it, it lets through no more guesses than the first ones, one *)
(* per request and one per request that died, as often as a late set wrote *)
(* it anew, which is less often than there are workers (record_attempt).   *)
THEOREM GuessesBoundedHolds == Spec => []GuessesBounded
  <1>1. GInv => GuessesBounded
    BY DEF GInv
  <1>. QED  BY <1>1, GuessesInvariant, PTL

=============================================================================
