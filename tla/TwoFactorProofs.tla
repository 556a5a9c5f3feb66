-------------------------- MODULE TwoFactorProofs --------------------------
(***************************************************************************)
(* Proofs about TwoFactor, for every number of workers, tokens, codes and  *)
(* trusted devices, and for every setting.                                 *)
(***************************************************************************)
EXTENDS TwoFactor, TLAPS, FiniteSetTheorems

-----------------------------------------------------------------------------
(* Arithmetic.                                                             *)
LEMMA Quotient ==
    ASSUME NEW a \in Nat, NEW n \in Nat \ {0}
    PROVE  a \div n \in Nat /\ (a \div n) * n \in Nat /\ a - (a \div n) * n < n
  OBVIOUS

LEMMA Clock ==
    ASSUME TypeOK
    PROVE  /\ now \in Nat /\ Step \in Nat
           /\ \A k \in Step - Window .. Step + Window : k \in Nat
           /\ (now \div Second + PendingTtl) * Second \in Nat
  BY TwoFactorAssumption, Quotient DEF TypeOK, Step

LEMMA DeviceTyped ==
    ASSUME TypeOK
    PROVE  /\ \A k \in Nat : [device EXCEPT !.last = k] \in Device
           /\ \A k \in Nat : [device EXCEPT !.confirmed = TRUE, !.last = k] \in Device
           /\ [device EXCEPT !.disabled = TRUE] \in Device
           /\ device.secret < MaxSecret => NewDevice \in Device
  <1>1. /\ device \in Device /\ device.secret \in 0..MaxSecret /\ device.last \in Nat
        /\ device.confirmed \in BOOLEAN /\ device.disabled \in BOOLEAN
    BY DEF TypeOK, Device
  <1>2. \A k \in Nat : [device EXCEPT !.last = k] \in Device
    BY <1>1 DEF Device
  <1>3. \A k \in Nat : [device EXCEPT !.confirmed = TRUE, !.last = k] \in Device
    BY <1>1 DEF Device
  <1>4. [device EXCEPT !.disabled = TRUE] \in Device
    BY <1>1 DEF Device
  <1>5. device.secret < MaxSecret => NewDevice \in Device
    <2>1. device.secret < MaxSecret => device.secret + 1 \in 0..MaxSecret
      BY <1>1, TwoFactorAssumption
    <2>. QED  BY <2>1 DEF Device, NewDevice
  <1>. QED  BY <1>2, <1>3, <1>4, <1>5

LEMMA IdleTyped == Idle \in Job
  BY TwoFactorAssumption DEF Idle, Job

LEMMA JobFields ==
    ASSUME TypeOK, NEW w \in Worker
    PROVE  /\ job[w] \in Job
           /\ job[w].op \in {"idle", "confirm", "checked", "matched", "used", "skip",
                             "regenerate", "forceCodes", "forceList", "revoke", "purge"}
           /\ job[w].token \in Pid \cup {None} /\ job[w].method \in Method \cup {None}
           /\ job[w].secret \in 0..MaxSecret /\ job[w].last \in Nat /\ job[w].step \in Nat
           /\ job[w].item \in Rid \cup Did \cup {None} /\ job[w].todo \in SUBSET Did
           /\ job[w].seen \in SUBSET (Rid \cup Did)
  BY DEF TypeOK, Job

LEMMA RowFields ==
    ASSUME TypeOK
    PROVE  /\ \A d \in Did : /\ trusted[d] \in Trusted
                             /\ trusted[d].state \in {"unused", "live", "revoked", "deleted"}
                             /\ trusted[d].expiresAt \in Nat
           /\ \A t \in Pid : /\ pending[t] \in Pending
                             /\ pending[t].primary \in Primary \cup {None}
                             /\ pending[t].exp \in Nat /\ pending[t].consumedUntil \in Nat
           /\ \A r \in Rid : recovery[r] \in {"unborn", "unused", "used", "deleted"}
           /\ device \in Device /\ device.secret \in 0..MaxSecret /\ device.last \in Nat
  BY DEF TypeOK, Trusted, Pending, Device

(* What the actions make of a job is a job.                                *)
LEMMA StartTyped ==
    /\ \A d \in Did : [Idle EXCEPT !.op = "skip", !.item = d] \in Job
    /\ \A t \in Pid, m \in Method, b \in BOOLEAN :
          [Idle EXCEPT !.op = "checked", !.token = t, !.method = m, !.trust = b] \in Job
    /\ \A n \in 0..MaxSecret, l \in Nat, k \in Nat :
          [Idle EXCEPT !.op = "confirm", !.secret = n, !.last = l, !.step = k] \in Job
    /\ \A S \in SUBSET (Rid \cup Did) : [Idle EXCEPT !.op = "regenerate", !.seen = S] \in Job
    /\ \A n \in 0..MaxSecret, S \in SUBSET (Rid \cup Did) :
          [Idle EXCEPT !.op = "forceCodes", !.force = TRUE, !.secret = n, !.seen = S] \in Job
    /\ \A S \in SUBSET Did : /\ [Idle EXCEPT !.op = "revoke", !.todo = S] \in Job
                             /\ [Idle EXCEPT !.op = "purge", !.todo = S] \in Job
  BY IdleTyped DEF Job, Idle

LEMMA ContinueTyped ==
    ASSUME NEW j \in Job
    PROVE  /\ \A n \in 0..MaxSecret, l \in Nat, k \in Nat :
                 [j EXCEPT !.op = "matched", !.secret = n, !.last = l, !.step = k] \in Job
           /\ \A r \in Rid : [j EXCEPT !.op = "matched", !.item = r] \in Job
           /\ [j EXCEPT !.op = "used"] \in Job /\ [j EXCEPT !.op = "forceList"] \in Job
           /\ \A S \in SUBSET Did : /\ [j EXCEPT !.op = "revoke", !.todo = S] \in Job
                                    /\ [j EXCEPT !.todo = S] \in Job
  BY DEF Job

-----------------------------------------------------------------------------
(* The inductive invariant, job by job and table by table.                 *)
JobFine(w) ==
    LET j == job[w]
    IN  /\ j.op = "checked" => j.secret = 0 /\ j.item = None
        /\ MatchedTotp(w) \/ j.op = "confirm"
              => j.secret \in 1..device.secret /\ j.step > j.last
        /\ j.op = "matched" /\ j.method # "totp"
              => j.method = "recovery_code" /\ j.item \in Rid
        /\ j.op = "confirm" => j.secret \in proved
        /\ \A r \in Rid : (j.op = "matched" /\ j.item = r) => recovery[r] # "unborn"
        /\ j.op = "regenerate" => j.seen \subseteq Spent
        /\ Verifying(w) => j.token \in Pid /\ Issued(j.token)
        /\ \A d \in j.todo : trusted[d].state # "unused"

ForceFine(w) ==
    LET j == job[w]
    IN  (j.force /\ j.op # "idle") =>
            /\ j.op \in {"forceCodes", "forceList", "revoke"}
            /\ (j.secret # 0 /\ j.secret = device.secret) => device.disabled
            /\ j.secret <= device.secret
            /\ \A r \in j.seen \cap Rid : recovery[r] # "unborn"
            /\ \A d \in j.seen \cap Did : trusted[d].state # "unused"
            /\ j.op # "forceCodes" => j.seen \cap Unused = {}
            /\ j.op = "revoke" => j.seen \cap Unrevoked \subseteq j.todo

JobsFine == \A w \in Worker : JobFine(w) /\ ForceFine(w)
BeforeSpent == \A r \in Rid : before[r] \subseteq Spent
TotpFine == RecordedBehind /\ ConfirmedProved
CodesFine == RecoveryBounded /\ BeforeSpent
Fine == JobsFine /\ TotpFine /\ CodesFine /\ GrantedConsumed

LEMMA FineOfIInv == IInv => TypeOK /\ Fine
  <1>. SUFFICES ASSUME IInv PROVE TypeOK /\ Fine
    OBVIOUS
  <1>1. ASSUME NEW w \in Worker PROVE JobFine(w)
    BY DEF IInv, JobsMatched, UnbornUnheld, Holders, OlderSpent, VerifyingIssued,
           ListedRows, JobFine
  <1>2. ASSUME NEW w \in Worker PROVE ForceFine(w)
    BY DEF IInv, ForceProgress, ForceFine
  <1>. QED
    BY <1>1, <1>2 DEF IInv, Fine, JobsFine, TotpFine, CodesFine, OlderSpent, BeforeSpent

LEMMA IInvOfFine == TypeOK /\ Fine => IInv
  <1>. SUFFICES ASSUME TypeOK, Fine PROVE IInv
    OBVIOUS
  <1>1. JobsMatched /\ VerifyingIssued /\ ListedRows
    BY DEF Fine, JobsFine, JobFine, JobsMatched, VerifyingIssued, ListedRows
  <1>2. UnbornUnheld
    BY DEF Fine, JobsFine, JobFine, UnbornUnheld, Holders
  <1>3. OlderSpent
    BY DEF Fine, JobsFine, JobFine, OlderSpent, CodesFine, BeforeSpent
  <1>4. ForceProgress
    BY DEF Fine, JobsFine, ForceFine, ForceProgress
  <1>. QED  BY <1>1, <1>2, <1>3, <1>4 DEF Fine, TotpFine, CodesFine, IInv

(* What no step undoes.                                                    *)
ForwardDevice ==
    /\ device.secret <= device'.secret
    /\ (device.disabled /\ device'.secret = device.secret) => device'.disabled
ForwardCodes ==
    \A r \in Rid :
        /\ recovery[r] # "unborn" => recovery'[r] # "unborn"
        /\ recovery[r] \in {"used", "deleted"} => recovery'[r] \in {"used", "deleted"}
ForwardTrusted ==
    \A d \in Did :
        /\ trusted[d].state # "unused" => trusted'[d].state # "unused"
        /\ trusted[d].state \in {"revoked", "deleted"}
              => trusted'[d].state \in {"revoked", "deleted"}
ForwardTokens == \A t \in Pid : Issued(t) => Issued(t)'
Forward == /\ ForwardDevice /\ ForwardCodes /\ ForwardTrusted /\ ForwardTokens
           /\ proved \subseteq proved'

LEMMA OtherKeeps ==
    ASSUME TypeOK, TypeOK', Forward, NEW w \in Worker,
           JobFine(w), ForceFine(w), job'[w] = job[w]
    PROVE  JobFine(w)' /\ ForceFine(w)'
  <1>1. /\ job[w].todo \subseteq Did
        /\ device.secret \in Nat /\ device'.secret \in Nat
        /\ device.secret <= device'.secret
        /\ \A d \in job[w].todo : trusted'[d].state # "unused"
    <2>1. device.secret \in Nat /\ device'.secret \in Nat
      BY TwoFactorAssumption DEF TypeOK, Device
    <2>. QED  BY <2>1, JobFields DEF Forward, ForwardDevice, ForwardTrusted, JobFine
  <1>2. Spent \subseteq Spent'
    BY DEF Spent, Forward, ForwardCodes
  <1>3. JobFine(w)'
    <2>1. MatchedTotp(w)' = MatchedTotp(w) /\ Verifying(w)' = Verifying(w)
      BY DEF MatchedTotp, Verifying
    <2>2. MatchedTotp(w) \/ job[w].op = "confirm"
             => job[w].secret \in 1..device'.secret /\ job[w].step > job[w].last
      <3>1. \A n \in 1..device.secret : n \in 1..device'.secret
        BY <1>1
      <3>. QED  BY <3>1 DEF JobFine
    <2>3. Verifying(w) => job[w].token \in Pid /\ Issued(job[w].token)'
      BY DEF JobFine, Forward, ForwardTokens
    <2>4. \A r \in Rid : (job[w].op = "matched" /\ job[w].item = r) => recovery'[r] # "unborn"
      BY DEF JobFine, Forward, ForwardCodes
    <2>. QED  BY <1>1, <1>2, <2>1, <2>2, <2>3, <2>4 DEF JobFine, Forward
  <1>4. ForceFine(w)'
    <2>. SUFFICES ASSUME job[w].force, job[w].op # "idle" PROVE ForceFine(w)'
      BY DEF ForceFine
    <2>1. (job[w].secret # 0 /\ job[w].secret = device'.secret) => device'.disabled
      <3>1. job[w].secret <= device.secret /\ job[w].secret \in Nat
        BY JobFields, TwoFactorAssumption DEF ForceFine
      <3>2. job[w].secret = device'.secret => device'.secret = device.secret
        BY <1>1, <3>1, RowFields, TwoFactorAssumption
      <3>. QED  BY <3>2 DEF ForceFine, Forward, ForwardDevice
    <2>2. job[w].secret <= device'.secret
      <3>1. job[w].secret <= device.secret /\ job[w].secret \in Nat
        BY JobFields, TwoFactorAssumption DEF ForceFine
      <3>. QED  BY <1>1, <3>1
    <2>3. /\ \A r \in job[w].seen \cap Rid : recovery'[r] # "unborn"
          /\ \A d \in job[w].seen \cap Did : trusted'[d].state # "unused"
      BY DEF ForceFine, Forward, ForwardCodes, ForwardTrusted
    <2>4. job[w].op # "forceCodes" => job[w].seen \cap Unused' = {}
      <3>1. \A r \in job[w].seen \cap Rid : recovery[r] # "unborn"
        BY DEF ForceFine
      <3>2. job[w].op # "forceCodes" => \A r \in job[w].seen \cap Rid : recovery[r] # "unused"
        BY DEF ForceFine, Unused
      <3>. QED  BY <3>1, <3>2, RowFields DEF Unused, Forward, ForwardCodes
    <2>5. job[w].op = "revoke" => job[w].seen \cap Unrevoked' \subseteq job[w].todo
      <3>1. \A d \in job[w].seen \cap Did : trusted[d].state # "unused"
        BY DEF ForceFine
      <3>2. job[w].seen \cap Unrevoked' \subseteq job[w].seen \cap Unrevoked
        BY <3>1, RowFields DEF Unrevoked, Forward, ForwardTrusted
      <3>. QED  BY <3>2 DEF ForceFine
    <2>. QED  BY <2>1, <2>2, <2>3, <2>4, <2>5 DEF ForceFine
  <1>. QED  BY <1>3, <1>4

LEMMA Moved ==
    ASSUME TypeOK, TypeOK', Forward, JobsFine, NEW w \in Worker,
           \A x \in Worker : x # w => job'[x] = job[x],
           JobFine(w)', ForceFine(w)'
    PROVE  JobsFine'
  <1>1. ASSUME NEW x \in Worker PROVE JobFine(x)' /\ ForceFine(x)'
    <2>1. CASE x = w
      BY <2>1
    <2>2. CASE x # w
      BY <2>2, OtherKeeps DEF JobsFine
    <2>. QED  BY <2>1, <2>2
  <1>. QED  BY <1>1 DEF JobsFine

LEMMA Still ==
    ASSUME TypeOK, TypeOK', Forward, JobsFine, job' = job
    PROVE  JobsFine'
  <1>1. ASSUME NEW x \in Worker PROVE JobFine(x)' /\ ForceFine(x)'
    BY OtherKeeps DEF JobsFine
  <1>. QED  BY <1>1 DEF JobsFine

LEMMA Finished ==
    ASSUME TypeOK, TypeOK', Forward, JobsFine, NEW w \in Worker, Finish(w)
    PROVE  JobsFine'
  <1>1. job'[w] = Idle /\ \A x \in Worker : x # w => job'[x] = job[x]
    BY DEF Finish, TypeOK
  <1>2. JobFine(w)' /\ ForceFine(w)'
    BY <1>1 DEF JobFine, ForceFine, Idle, MatchedTotp, Verifying
  <1>. QED  BY <1>1, <1>2, Moved

(* The recovery codes, unless one is used.                                 *)
Holds(w, r) == job[w].op = "matched" /\ job[w].item = r

LEMMA HoldersFinite ==
    ASSUME NEW S, NEW T \in SUBSET S, IsFiniteSet(S)
    PROVE  /\ IsFiniteSet(T) /\ Cardinality(T) \in Nat /\ Cardinality(S) \in Nat
           /\ Cardinality(T) <= Cardinality(S)
  BY FS_Subset, FS_CardinalityType

LEMMA CodesMove ==
    ASSUME TypeOK, CodesFine, uses' = uses,
           \A r \in Rid : \/ recovery'[r] = recovery[r]
                          \/ recovery[r] = "unused" /\ recovery'[r] = "deleted"
                          \/ recovery[r] = "unborn" /\ recovery'[r] = "unused",
           \A r \in Rid : before'[r] = before[r] \/ before'[r] \subseteq Spent,
           \A w \in Worker, r \in Rid : Holds(w, r)' => Holds(w, r) \/ recovery'[r] = "unused"
    PROVE  CodesFine'
  <1>1. ASSUME NEW r \in Rid
        PROVE  IF recovery'[r] \in {"unborn", "unused"} THEN uses'[r] = 0
               ELSE uses'[r] + Cardinality(Holders(r)') <= Cardinality(Worker)
    <2>1. Holders(r) \subseteq Worker /\ Holders(r)' \subseteq Worker /\ uses[r] \in Nat
      BY DEF Holders, TypeOK
    <2>2. /\ Cardinality(Holders(r)') \in Nat /\ Cardinality(Worker) \in Nat
          /\ Cardinality(Holders(r)') <= Cardinality(Worker)
      BY <2>1, HoldersFinite, TwoFactorAssumption
    <2>3. CASE recovery[r] \in {"unborn", "unused"}
      BY <2>2, <2>3 DEF CodesFine, RecoveryBounded
    <2>4. CASE recovery[r] \notin {"unborn", "unused"}
      <3>1. recovery'[r] = recovery[r]
        BY <2>4
      <3>2. Holders(r)' \subseteq Holders(r)
        BY <2>4, <3>1 DEF Holders, Holds
      <3>3. Cardinality(Holders(r)') <= Cardinality(Holders(r)) /\ Cardinality(Holders(r)) \in Nat
        BY <2>1, <3>2, HoldersFinite, TwoFactorAssumption
      <3>4. uses[r] + Cardinality(Holders(r)) <= Cardinality(Worker)
        BY <2>4 DEF CodesFine, RecoveryBounded
      <3>. QED  BY <2>1, <2>2, <2>4, <3>1, <3>3, <3>4
    <2>. QED  BY <2>3, <2>4
  <1>2. RecoveryBounded'
    BY <1>1 DEF RecoveryBounded
  <1>3. BeforeSpent'
    <2>1. Spent \subseteq Spent'
      BY DEF Spent
    <2>. QED  BY <2>1 DEF BeforeSpent, CodesFine
  <1>. QED  BY <1>2, <1>3 DEF CodesFine

(* The device, unless a save lands on it.                                  *)
LEMMA DeviceKeeps ==
    ASSUME TypeOK, TotpFine, UNCHANGED <<recorded, raced>>, proved \subseteq proved',
           device'.secret = device.secret, device'.last = device.last,
           device'.confirmed => device.confirmed
    PROVE  TotpFine'
  BY DEF TotpFine, RecordedBehind, ConfirmedProved

LEMMA EnrollKeeps ==
    ASSUME TypeOK, TotpFine, EnrollTotp
    PROVE  TotpFine'
  <1>1. /\ device'.secret = device.secret + 1 /\ ~device'.confirmed
        /\ UNCHANGED <<recorded, raced, proved>>
    BY DEF EnrollTotp, NewDevice, history
  <1>2. \A r \in recorded : r[1] \in Nat /\ r[1] <= device.secret
    BY DEF TypeOK, Secret, TotpFine, RecordedBehind
  <1>3. \A r \in recorded : r[1] <= device'.secret /\ r[1] # device'.secret
    BY <1>1, <1>2, RowFields, TwoFactorAssumption
  <1>. QED  BY <1>1, <1>3 DEF TotpFine, RecordedBehind, ConfirmedProved

LEMMA SaveKeeps ==
    ASSUME TypeOK, TotpFine, NEW w \in Worker, JobFine(w),
           MatchedTotp(w) \/ job[w].op = "confirm",
           Record(job[w]), device'.secret = device.secret,
           device'.last = job[w].step, UNCHANGED proved,
           device'.confirmed => device.confirmed \/ job[w].op = "confirm"
    PROVE  TotpFine'
  <1>. DEFINE j == job[w]
  <1>1. /\ j.secret \in 1..device.secret /\ j.step > j.last
        /\ j.step \in Nat /\ j.last \in Nat /\ device.last \in Nat /\ device.secret \in Nat
        /\ j.op = "confirm" => j.secret \in proved
    BY JobFields, RowFields, TwoFactorAssumption DEF JobFine
  <1>2. \A r \in recorded : /\ r[1] \in Nat /\ r[2] \in Nat /\ r[1] <= device.secret
                            /\ r[1] = device.secret /\ r[1] \notin raced => r[2] <= device.last
    BY DEF TypeOK, Secret, TotpFine, RecordedBehind
  <1>3. recorded' = recorded \cup {<<j.secret, j.step>>}
    BY DEF Record
  <1>4. CASE Stale(j)
    <2>1. raced' = raced \cup {device.secret}
      BY <1>4 DEF Record
    <2>2. \A r \in recorded' : r[1] <= device.secret
      BY <1>1, <1>2, <1>3
    <2>. QED  BY <2>1, <2>2 DEF TotpFine, RecordedBehind, ConfirmedProved
  <1>5. CASE ~Stale(j)
    <2>1. j.secret = device.secret /\ j.last = device.last /\ raced' = raced
      BY <1>5 DEF Stale, Record
    <2>2. \A r \in recorded' : /\ r[1] <= device.secret
                               /\ r[1] = device.secret /\ r[1] \notin raced => r[2] <= j.step
      BY <1>1, <1>2, <1>3, <2>1
    <2>. QED  BY <1>1, <2>1, <2>2 DEF TotpFine, RecordedBehind, ConfirmedProved
  <1>. QED  BY <1>4, <1>5

(* The pending tokens, unless one is issued or granted.                    *)
LEMMA TokensKeep ==
    ASSUME GrantedConsumed, pending' = pending
    PROVE  GrantedConsumed' /\ ForwardTokens
  BY DEF GrantedConsumed, ForwardTokens, Issued

-----------------------------------------------------------------------------
(* Steps of a job that leave the tables alone.                             *)
Kept == TypeOK' /\ Forward /\ Fine'

LEMMA Frame ==
    ASSUME TypeOK, Fine, proved \subseteq proved',
           UNCHANGED <<device, recovery, trusted, pending, recorded, raced, uses, before>>,
           \A w \in Worker, r \in Rid : Holds(w, r)' => Holds(w, r) \/ recovery[r] = "unused"
    PROVE  Forward /\ TotpFine' /\ CodesFine' /\ GrantedConsumed'
  <1>1. device.secret <= device'.secret
    BY RowFields, TwoFactorAssumption
  <1>2. ForwardDevice /\ ForwardCodes /\ ForwardTrusted
    BY <1>1 DEF ForwardDevice, ForwardCodes, ForwardTrusted
  <1>3. TotpFine'
    BY DeviceKeeps DEF Fine
  <1>4. CodesFine'
    BY CodesMove DEF Fine
  <1>. QED  BY <1>2, <1>3, <1>4, TokensKeep DEF Fine, Forward

LEMMA JobStep ==
    ASSUME TypeOK, Fine, NEW w \in Worker, NEW j \in Job, job' = [job EXCEPT ![w] = j],
           UNCHANGED <<now, device, recovery, verified, trusted, pending,
                       recorded, raced, uses, before>>,
           challenge' \in [Cid -> {"unborn", "two_factor", "other", "spent"}],
           proved \subseteq proved', proved' \subseteq Secret,
           \A r \in Rid : j.op = "matched" /\ j.item = r => recovery[r] = "unused",
           JobFine(w)', ForceFine(w)'
    PROVE  Kept
  <1>1. job'[w] = j /\ \A x \in Worker : x # w => job'[x] = job[x]
    BY DEF TypeOK
  <1>2. TypeOK'
    BY DEF TypeOK
  <1>3. \A x \in Worker, r \in Rid : Holds(x, r)' => Holds(x, r) \/ recovery[r] = "unused"
    BY <1>1 DEF Holds
  <1>4. Forward /\ TotpFine' /\ CodesFine' /\ GrantedConsumed'
    BY <1>3, Frame
  <1>5. JobsFine'
    BY <1>1, <1>2, <1>4, Moved DEF Fine
  <1>. QED  BY <1>2, <1>4, <1>5 DEF Kept, Fine

LEMMA FinishStep ==
    ASSUME TypeOK, Fine, NEW w \in Worker, Finish(w),
           UNCHANGED <<now, device, recovery, verified, trusted, pending, history>>,
           challenge' \in [Cid -> {"unborn", "two_factor", "other", "spent"}]
    PROVE  Kept
  <1>1. job' = [job EXCEPT ![w] = Idle] /\ job'[w] = Idle
    BY DEF Finish, TypeOK
  <1>2. JobFine(w)' /\ ForceFine(w)'
    BY <1>1 DEF JobFine, ForceFine, Idle, MatchedTotp, Verifying
  <1>3. UNCHANGED <<recorded, proved, raced, uses, before>> /\ proved' \subseteq Secret
    BY DEF history, TypeOK
  <1>4. \A r \in Rid : Idle.op = "matched" /\ Idle.item = r => recovery[r] = "unused"
    BY DEF Idle
  <1>. QED  BY <1>1, <1>2, <1>3, <1>4, IdleTyped, JobStep

LEMMA StartStep ==
    ASSUME TypeOK, Fine, NEW w \in Worker, NEW j \in Job, Start(w, j),
           UNCHANGED <<now, device, recovery, verified, trusted, challenge, pending,
                       recorded, raced, uses, before>>,
           proved \subseteq proved', proved' \subseteq Secret, j.op # "matched",
           JobFine(w)', ForceFine(w)'
    PROVE  Kept
  <1>1. job' = [job EXCEPT ![w] = j]
        /\ challenge' \in [Cid -> {"unborn", "two_factor", "other", "spent"}]
    BY DEF Start, TypeOK
  <1>. QED  BY <1>1, JobStep

LEMMA SkipLoginKeeps ==
    ASSUME TypeOK, Fine, NEW w \in Worker, NEW d \in Did, SkipLogin(w, d)
    PROVE  Kept
  <1>. DEFINE j == [Idle EXCEPT !.op = "skip", !.item = d]
  <1>1. /\ j \in Job /\ j.op = "skip" /\ j.todo = {}
        /\ ~j.force
    BY StartTyped DEF Idle
  <1>2. Start(w, j) /\ job'[w] = j
    BY DEF SkipLogin, Start, TypeOK
  <1>3. JobFine(w)' /\ ForceFine(w)'
    BY <1>1, <1>2 DEF JobFine, ForceFine, MatchedTotp, Verifying
  <1>4. UNCHANGED <<now, device, recovery, verified, trusted, challenge, pending,
                    recorded, raced, uses, before, proved>> /\ proved' \subseteq Secret
    BY DEF SkipLogin, history, TypeOK
  <1>. HIDE DEF j
  <1>. QED  BY <1>1, <1>2, <1>3, <1>4, StartStep

LEMMA VerifyKeeps ==
    ASSUME TypeOK, Fine, NEW w \in Worker, NEW t \in Pid, NEW m \in Method,
           NEW b \in BOOLEAN, Verify(w, t, m, b)
    PROVE  Kept
  <1>. DEFINE j == [Idle EXCEPT !.op = "checked", !.token = t, !.method = m, !.trust = b]
  <1>1. /\ j \in Job /\ j.op = "checked" /\ j.todo = {} /\ j.token = t
        /\ j.secret = 0 /\ j.item = None /\ ~j.force
    BY StartTyped DEF Idle
  <1>2. /\ Start(w, j) /\ job'[w] = j /\ Issued(t)'
    BY DEF Verify, Start, TypeOK, Issued
  <1>3. JobFine(w)' /\ ForceFine(w)'
    BY <1>1, <1>2 DEF JobFine, ForceFine, MatchedTotp, Verifying
  <1>4. UNCHANGED <<now, device, recovery, verified, trusted, challenge, pending,
                    recorded, raced, uses, before, proved>> /\ proved' \subseteq Secret
    BY DEF Verify, history, TypeOK
  <1>. HIDE DEF j
  <1>. QED  BY <1>1, <1>2, <1>3, <1>4, StartStep

LEMMA MatchTotpKeeps ==
    ASSUME TypeOK, Fine, NEW w \in Worker, MatchTotp(w)
    PROVE  Kept
  <1>1. PICK k \in Matched(device.last) :
           Continue(w, [job[w] EXCEPT !.op = "matched", !.secret = device.secret,
                                      !.last = device.last, !.step = k])
    BY DEF MatchTotp
  <1>. DEFINE j == [job[w] EXCEPT !.op = "matched", !.secret = device.secret,
                                  !.last = device.last, !.step = k]
  <1>2. k \in Nat /\ k > device.last /\ device.secret \in 1..device.secret
    BY Clock, RowFields, TwoFactorAssumption DEF Matched, MatchTotp, Live
  <1>3. /\ job[w] \in Job /\ job[w].op = "checked" /\ job[w].method = "totp"
        /\ job[w].item = None /\ ~job[w].force
        /\ job[w].token \in Pid /\ Issued(job[w].token)
        /\ \A d \in job[w].todo : trusted[d].state # "unused"
    BY JobFields DEF MatchTotp, Fine, JobsFine, JobFine, ForceFine, Verifying
  <1>4. /\ j \in Job /\ j.op = "matched" /\ j.secret = device.secret /\ j.step = k
        /\ j.last = device.last /\ j.method = "totp" /\ j.item = None
        /\ j.token = job[w].token /\ j.todo = job[w].todo
    <2>1. j \in Job
      <3>1. device.secret \in 0..MaxSecret /\ device.last \in Nat
        BY RowFields
      <3>. QED  BY <3>1, <1>2, <1>3, ContinueTyped
    <2>. QED  BY <2>1, <1>3 DEF Job
  <1>5. ~j.force
    BY <1>3 DEF Job
  <1>6. /\ job' = [job EXCEPT ![w] = j] /\ job'[w] = j
        /\ UNCHANGED <<now, device, recovery, verified, trusted, challenge, pending,
                       recorded, raced, uses, before, proved>>
        /\ proved' \subseteq Secret
        /\ challenge' \in [Cid -> {"unborn", "two_factor", "other", "spent"}]
    BY <1>1 DEF Continue, TypeOK, MatchTotp, history
  <1>. HIDE DEF j
  <1>7. JobFine(w)' /\ ForceFine(w)'
    <2>1. JobFine(w)'
      BY <1>2, <1>3, <1>4, <1>6, TwoFactorAssumption
         DEF JobFine, MatchedTotp, Verifying, Issued
    <2>2. ForceFine(w)'
      BY <1>5, <1>6 DEF ForceFine
    <2>. QED  BY <2>1, <2>2
  <1>8. \A r \in Rid : j.op = "matched" /\ j.item = r => recovery[r] = "unused"
    BY <1>4, TwoFactorAssumption
  <1>. QED  BY <1>4, <1>6, <1>7, <1>8, JobStep

LEMMA MatchRecoveryKeeps ==
    ASSUME TypeOK, Fine, NEW w \in Worker, MatchRecovery(w)
    PROVE  Kept
  <1>1. PICK r \in Unused : Continue(w, [job[w] EXCEPT !.op = "matched", !.item = r])
    BY DEF MatchRecovery
  <1>. DEFINE j == [job[w] EXCEPT !.op = "matched", !.item = r]
  <1>2. r \in Rid /\ recovery[r] = "unused"
    BY DEF Unused
  <1>3. /\ job[w] \in Job /\ job[w].op = "checked" /\ job[w].method = "recovery_code"
        /\ ~job[w].force
        /\ job[w].token \in Pid /\ Issued(job[w].token)
        /\ \A d \in job[w].todo : trusted[d].state # "unused"
    BY JobFields DEF MatchRecovery, Fine, JobsFine, JobFine, ForceFine, Verifying
  <1>4. /\ j \in Job /\ j.op = "matched" /\ j.method = "recovery_code" /\ j.item = r
        /\ j.token = job[w].token /\ j.todo = job[w].todo
    <2>1. j \in Job
      BY <1>2, <1>3, ContinueTyped
    <2>. QED  BY <2>1, <1>3 DEF Job
  <1>5. ~j.force
    BY <1>3 DEF Job
  <1>6. /\ job' = [job EXCEPT ![w] = j] /\ job'[w] = j
        /\ UNCHANGED <<now, device, recovery, verified, trusted, challenge, pending,
                       recorded, raced, uses, before, proved>>
        /\ proved' \subseteq Secret
        /\ challenge' \in [Cid -> {"unborn", "two_factor", "other", "spent"}]
    BY <1>1 DEF Continue, TypeOK, MatchRecovery, history
  <1>. HIDE DEF j
  <1>7. JobFine(w)' /\ ForceFine(w)'
    <2>1. JobFine(w)'
      BY <1>2, <1>3, <1>4, <1>6 DEF JobFine, MatchedTotp, Verifying, Issued
    <2>2. ForceFine(w)'
      BY <1>5, <1>6 DEF ForceFine
    <2>. QED  BY <2>1, <2>2
  <1>8. \A q \in Rid : j.op = "matched" /\ j.item = q => recovery[q] = "unused"
    BY <1>2, <1>4
  <1>. QED  BY <1>4, <1>6, <1>7, <1>8, JobStep

LEMMA MatchOtpKeeps ==
    ASSUME TypeOK, Fine, NEW w \in Worker, MatchOtp(w)
    PROVE  Kept
  <1>1. /\ UNCHANGED <<now, device, recovery, verified, trusted, pending, history>>
        /\ challenge' \in [Cid -> {"unborn", "two_factor", "other", "spent"}]
        /\ Continue(w, [job[w] EXCEPT !.op = "used"]) \/ Finish(w)
    BY DEF MatchOtp, TypeOK
  <1>2. CASE Finish(w)
    BY <1>1, <1>2, FinishStep
  <1>3. CASE Continue(w, [job[w] EXCEPT !.op = "used"])
    <2>. DEFINE j == [job[w] EXCEPT !.op = "used"]
    <2>1. /\ job[w] \in Job /\ job[w].op = "checked" /\ ~job[w].force
          /\ job[w].token \in Pid /\ Issued(job[w].token)
          /\ \A d \in job[w].todo : trusted[d].state # "unused"
      BY JobFields DEF MatchOtp, Fine, JobsFine, JobFine, ForceFine, Verifying
    <2>2. /\ j \in Job /\ j.op = "used" /\ j.token = job[w].token /\ j.todo = job[w].todo
      BY <2>1, ContinueTyped DEF Job
    <2>3. ~j.force
      BY <2>1 DEF Job
    <2>4. /\ job' = [job EXCEPT ![w] = j] /\ job'[w] = j
          /\ UNCHANGED <<recorded, raced, uses, before, proved>> /\ proved' \subseteq Secret
      BY <1>1, <1>3 DEF Continue, TypeOK, history
    <2>. HIDE DEF j
    <2>5. JobFine(w)' /\ ForceFine(w)'
      BY <1>1, <2>1, <2>2, <2>3, <2>4 DEF JobFine, ForceFine, MatchedTotp, Verifying, Issued
    <2>. QED  BY <1>1, <2>2, <2>4, <2>5, JobStep
  <1>. QED  BY <1>1, <1>2, <1>3

LEMMA ConfirmTotpKeeps ==
    ASSUME TypeOK, Fine, NEW w \in Worker, ConfirmTotp(w)
    PROVE  Kept
  <1>1. PICK k \in Matched(device.last) :
           Start(w, [Idle EXCEPT !.op = "confirm", !.secret = device.secret,
                                 !.last = device.last, !.step = k])
    BY DEF ConfirmTotp
  <1>. DEFINE j == [Idle EXCEPT !.op = "confirm", !.secret = device.secret,
                                !.last = device.last, !.step = k]
  <1>2. k \in Nat /\ k > device.last /\ device.secret \in 1..device.secret
        /\ device.secret \in Secret
    BY Clock, RowFields, TwoFactorAssumption DEF Matched, ConfirmTotp, Secret
  <1>3. /\ j \in Job /\ j.op = "confirm" /\ j.secret = device.secret /\ j.step = k
        /\ j.last = device.last /\ j.todo = {} /\ ~j.force
    BY <1>2, RowFields, StartTyped DEF Idle
  <1>4. /\ Start(w, j) /\ job'[w] = j
        /\ UNCHANGED <<now, device, recovery, verified, trusted, challenge, pending,
                       recorded, raced, uses, before>>
        /\ proved' = proved \cup {device.secret} /\ proved' \subseteq Secret
    BY <1>1, <1>2 DEF Start, TypeOK, ConfirmTotp
  <1>. HIDE DEF j
  <1>5. JobFine(w)' /\ ForceFine(w)'
    BY <1>2, <1>3, <1>4 DEF JobFine, ForceFine, MatchedTotp, Verifying
  <1>. QED  BY <1>3, <1>4, <1>5, StartStep

LEMMA ForceListKeeps ==
    ASSUME TypeOK, Fine, NEW w \in Worker, ForceList(w)
    PROVE  Kept
  <1>. DEFINE j == [job[w] EXCEPT !.op = "revoke", !.todo = Unrevoked]
  <1>1. /\ job[w] \in Job /\ job[w].op = "forceList" /\ ForceFine(w)
        /\ \A d \in Unrevoked : d \in Did /\ trusted[d].state = "live"
    BY JobFields DEF ForceList, Fine, JobsFine, Unrevoked
  <1>2. /\ j.op = "revoke" /\ j.todo = Unrevoked /\ j.secret = job[w].secret
        /\ j.seen = job[w].seen
    BY <1>1 DEF Job
  <1>3. j.force => job[w].force
    BY <1>1 DEF Job
  <1>4. j \in Job
    <2>1. Unrevoked \in SUBSET Did
      BY <1>1
    <2>. QED  BY <1>1, <2>1, ContinueTyped
  <1>5. /\ job' = [job EXCEPT ![w] = j] /\ job'[w] = j
        /\ UNCHANGED <<now, device, recovery, verified, trusted, challenge, pending,
                       recorded, raced, uses, before, proved>>
        /\ proved' \subseteq Secret
        /\ challenge' \in [Cid -> {"unborn", "two_factor", "other", "spent"}]
    BY DEF ForceList, Continue, Listed, TypeOK, history
  <1>. HIDE DEF j
  <1>6. JobFine(w)'
    BY <1>1, <1>2, <1>5 DEF JobFine, MatchedTotp, Verifying
  <1>7. ForceFine(w)'
    <2>. SUFFICES ASSUME j.force PROVE ForceFine(w)'
      BY <1>5 DEF ForceFine
    <2>1. /\ (job[w].secret # 0 /\ job[w].secret = device.secret) => device.disabled
          /\ job[w].secret <= device.secret
          /\ \A r \in job[w].seen \cap Rid : recovery[r] # "unborn"
          /\ \A d \in job[w].seen \cap Did : trusted[d].state # "unused"
          /\ job[w].seen \cap Unused = {}
      BY <1>1, <1>3 DEF ForceFine
    <2>. QED  BY <2>1, <1>2, <1>5 DEF ForceFine, Unused, Unrevoked
  <1>8. \A r \in Rid : j.op = "matched" /\ j.item = r => recovery[r] = "unused"
    BY <1>2
  <1>. QED  BY <1>4, <1>5, <1>6, <1>7, <1>8, JobStep

LEMMA ListKeeps ==
    ASSUME TypeOK, Fine, NEW w \in Worker, NEW op \in {"revoke", "purge"},
           NEW S \in SUBSET Did, \A d \in S : trusted[d].state # "unused",
           Start(w, [Idle EXCEPT !.op = op, !.todo = S]),
           UNCHANGED <<now, device, recovery, verified, trusted, challenge, pending, history>>
    PROVE  Kept
  <1>. DEFINE j == [Idle EXCEPT !.op = op, !.todo = S]
  <1>1. /\ j \in Job /\ j.op = op /\ j.todo = S /\ ~j.force
    BY StartTyped DEF Idle
  <1>2. /\ Start(w, j) /\ job'[w] = j
        /\ UNCHANGED <<now, device, recovery, verified, trusted, challenge, pending,
                       recorded, raced, uses, before, proved>>
        /\ proved' \subseteq Secret
    BY DEF Start, TypeOK, history
  <1>. HIDE DEF j
  <1>3. JobFine(w)' /\ ForceFine(w)'
    BY <1>1, <1>2 DEF JobFine, ForceFine, MatchedTotp, Verifying
  <1>. QED  BY <1>1, <1>2, <1>3, StartStep

LEMMA RevokeKeeps ==
    ASSUME TypeOK, Fine, NEW w \in Worker, NEW d \in Did, Revoke(w, d)
    PROVE  Kept
  BY ListKeeps DEF Revoke

LEMMA PurgeListKeeps ==
    ASSUME TypeOK, Fine, NEW w \in Worker, PurgeList(w)
    PROVE  Kept
  BY ListKeeps DEF PurgeList

LEMMA DoneKeeps ==
    ASSUME TypeOK, Fine, NEW w \in Worker, RevokeDone(w) \/ PurgeDone(w) \/ Abort(w)
    PROVE  Kept
  <1>1. /\ Finish(w)
        /\ UNCHANGED <<now, device, recovery, verified, trusted, pending, history>>
        /\ challenge' \in [Cid -> {"unborn", "two_factor", "other", "spent"}]
    BY DEF RevokeDone, PurgeDone, Abort, TypeOK
  <1>. QED  BY <1>1, FinishStep

-----------------------------------------------------------------------------
(* Steps of no job.                                                        *)
LEMMA TableStep ==
    ASSUME TypeOK, Fine, UNCHANGED <<device, recovery, trusted, pending, job, history>>,
           now' \in 0..MaxTime, verified' \in SUBSET Contact,
           challenge' \in [Cid -> {"unborn", "two_factor", "other", "spent"}]
    PROVE  Kept
  <1>1. UNCHANGED <<recorded, raced, uses, before, proved>>
    BY DEF history
  <1>2. TypeOK'
    BY <1>1 DEF TypeOK
  <1>3. \A x \in Worker, r \in Rid : Holds(x, r)' => Holds(x, r) \/ recovery[r] = "unused"
    BY DEF Holds
  <1>4. Forward /\ TotpFine' /\ CodesFine' /\ GrantedConsumed'
    BY <1>1, <1>3, Frame
  <1>5. JobsFine'
    BY <1>2, <1>4, Still DEF Fine
  <1>. QED  BY <1>2, <1>4, <1>5 DEF Kept, Fine

LEMMA TableKeeps ==
    ASSUME TypeOK, Fine,
           \/ \E t \in Pid, m \in Method, c \in Cid : OtpRequest(t, m, c)
           \/ \E c \in Cid : OtherRequest(c)
           \/ \E c \in Contact : DisableContact(c) \/ VerifyContact(c)
           \/ Tick
           \/ UNCHANGED vars
    PROVE  Kept
  <1>1. UNCHANGED <<device, recovery, trusted, pending, job, history>>
    BY DEF OtpRequest, OtherRequest, DisableContact, VerifyContact, Tick, vars, history
  <1>2. challenge' \in [Cid -> {"unborn", "two_factor", "other", "spent"}]
    BY DEF TypeOK, OtpRequest, OtherRequest, DisableContact, VerifyContact, Tick, vars
  <1>3. verified' \in SUBSET Contact
    BY DEF TypeOK, OtpRequest, OtherRequest, DisableContact, VerifyContact, Tick, vars
  <1>4. now' \in 0..MaxTime
    BY TwoFactorAssumption
       DEF TypeOK, OtpRequest, OtherRequest, DisableContact, VerifyContact, Tick, vars
  <1>. QED  BY <1>1, <1>2, <1>3, <1>4, TableStep

LEMMA LoginKeeps ==
    ASSUME TypeOK, Fine, NEW t \in Pid, NEW p \in Primary, Login(t, p)
    PROVE  Kept
  <1>. DEFINE e == (now \div Second + PendingTtl) * Second
  <1>1. /\ e \in Nat /\ pending[t] \in Pending
        /\ pending' = [pending EXCEPT ![t] = [pending[t] EXCEPT !.primary = p, !.exp = e]]
        /\ UNCHANGED <<now, device, recovery, verified, trusted, challenge, job,
                       recorded, raced, uses, before, proved>>
    BY Clock, RowFields DEF Login, history
  <1>. HIDE DEF e
  <1>2. [pending[t] EXCEPT !.primary = p, !.exp = e] \in Pending
    BY <1>1 DEF Pending
  <1>3. TypeOK'
    BY <1>1, <1>2 DEF TypeOK
  <1>4. /\ pending'[t].primary = p /\ p # None
        /\ pending'[t].granted => pending[t].granted
        /\ \A u \in Pid : u # t => pending'[u] = pending[u]
    <2>1. p # None
      BY TwoFactorAssumption DEF Primary
    <2>. QED  BY <1>1, <2>1 DEF TypeOK, Pending
  <1>5. ForwardTokens
    BY <1>4 DEF ForwardTokens, Issued
  <1>6. GrantedConsumed'
    <2>1. ~pending[t].granted
      BY DEF Login, Fine, GrantedConsumed
    <2>. QED  BY <1>4, <2>1 DEF Fine, GrantedConsumed, Issued
  <1>7. Forward /\ TotpFine' /\ CodesFine'
    <2>1. device.secret <= device'.secret
      BY <1>1, RowFields, TwoFactorAssumption
    <2>2. TotpFine'
      BY <1>1, DeviceKeeps DEF Fine
    <2>3. CodesFine'
      <3>1. \A x \in Worker, r \in Rid : Holds(x, r)' => Holds(x, r)
        BY <1>1 DEF Holds
      <3>. QED  BY <1>1, <3>1, CodesMove DEF Fine
    <2>. QED  BY <1>1, <1>5, <2>1, <2>2, <2>3
             DEF Forward, ForwardDevice, ForwardCodes, ForwardTrusted
  <1>8. JobsFine'
    BY <1>1, <1>3, <1>7, Still DEF Fine
  <1>. QED  BY <1>3, <1>6, <1>7, <1>8 DEF Kept, Fine

-----------------------------------------------------------------------------
(* Steps that write the device.                                            *)
LEMMA DeviceStep ==
    ASSUME TypeOK, Fine, UNCHANGED <<recovery, trusted, pending, uses, before>>,
           ForwardDevice, proved \subseteq proved',
           \A w \in Worker, r \in Rid : Holds(w, r)' => Holds(w, r)
    PROVE  Forward /\ CodesFine' /\ GrantedConsumed'
  <1>1. ForwardCodes /\ ForwardTrusted
    BY DEF ForwardCodes, ForwardTrusted
  <1>2. CodesFine'
    BY CodesMove DEF Fine
  <1>. QED  BY <1>1, <1>2, TokensKeep DEF Fine, Forward

LEMMA EnrollTotpKeeps ==
    ASSUME TypeOK, Fine, EnrollTotp
    PROVE  Kept
  <1>1. /\ UNCHANGED <<now, recovery, verified, trusted, challenge, pending, job,
                       recorded, raced, uses, before, proved>>
        /\ device' = NewDevice /\ device.secret < MaxSecret
    BY DEF EnrollTotp, history
  <1>2. TypeOK'
    BY <1>1, DeviceTyped DEF TypeOK
  <1>3. device'.secret = device.secret + 1
    BY <1>1 DEF NewDevice
  <1>4. ForwardDevice
    BY <1>3, RowFields, TwoFactorAssumption DEF ForwardDevice
  <1>5. Forward /\ CodesFine' /\ GrantedConsumed'
    <2>1. \A x \in Worker, r \in Rid : Holds(x, r)' => Holds(x, r)
      BY <1>1 DEF Holds
    <2>. QED  BY <1>1, <1>4, <2>1, DeviceStep
  <1>6. TotpFine'
    BY EnrollKeeps DEF Fine
  <1>7. JobsFine'
    BY <1>1, <1>2, <1>5, Still DEF Fine
  <1>. QED  BY <1>2, <1>5, <1>6, <1>7 DEF Kept, Fine

LEMMA DisableTotpKeeps ==
    ASSUME TypeOK, Fine, DisableTotp
    PROVE  Kept
  <1>1. /\ UNCHANGED <<now, recovery, verified, trusted, challenge, pending, job,
                       recorded, raced, uses, before, proved>>
        /\ device' = [device EXCEPT !.disabled = TRUE]
    BY DEF DisableTotp, history
  <1>2. TypeOK'
    BY <1>1, DeviceTyped DEF TypeOK
  <1>3. /\ device'.secret = device.secret /\ device'.last = device.last
        /\ device'.confirmed = device.confirmed /\ device'.disabled
    BY <1>1, RowFields DEF Device
  <1>4. ForwardDevice
    BY <1>3, RowFields, TwoFactorAssumption DEF ForwardDevice
  <1>5. Forward /\ CodesFine' /\ GrantedConsumed'
    <2>1. \A x \in Worker, r \in Rid : Holds(x, r)' => Holds(x, r)
      BY <1>1 DEF Holds
    <2>. QED  BY <1>1, <1>4, <2>1, DeviceStep
  <1>6. TotpFine'
    BY <1>1, <1>3, DeviceKeeps DEF Fine
  <1>7. JobsFine'
    BY <1>1, <1>2, <1>5, Still DEF Fine
  <1>. QED  BY <1>2, <1>5, <1>6, <1>7 DEF Kept, Fine

LEMMA RecordTyped ==
    ASSUME TypeOK, Fine, NEW w \in Worker, MatchedTotp(w) \/ job[w].op = "confirm",
           Record(job[w])
    PROVE  recorded' \in SUBSET (Secret \X Nat) /\ raced' \in SUBSET Secret
  <1>1. job[w].secret \in 1..device.secret /\ job[w].step \in Nat
    BY JobFields DEF Fine, JobsFine, JobFine
  <1>2. job[w].secret \in Secret /\ device.secret \in Secret
    BY <1>1, RowFields, TwoFactorAssumption DEF Secret
  <1>. QED  BY <1>1, <1>2 DEF Record, TypeOK

LEMMA UseTotpKeeps ==
    ASSUME TypeOK, Fine, NEW w \in Worker, UseTotp(w)
    PROVE  Kept
  <1>. DEFINE j == [job[w] EXCEPT !.op = "used"]
  <1>1. /\ UNCHANGED <<now, recovery, verified, trusted, challenge, pending,
                       uses, before, proved>>
        /\ device' = [device EXCEPT !.last = job[w].step]
        /\ Record(job[w]) /\ job' = [job EXCEPT ![w] = j]
        /\ job[w].op = "matched" /\ MatchedTotp(w)
    BY DEF UseTotp, AfterUse, Continue, MatchedTotp
  <1>2. /\ job[w] \in Job /\ job[w].step \in Nat /\ ~job[w].force /\ JobFine(w)
        /\ job[w].token \in Pid /\ Issued(job[w].token)
        /\ \A d \in job[w].todo : trusted[d].state # "unused"
    BY <1>1, JobFields DEF Fine, JobsFine, JobFine, ForceFine, Verifying
  <1>3. j \in Job
    BY <1>2, ContinueTyped
  <1>4. j.op = "used" /\ j.token = job[w].token /\ j.todo = job[w].todo /\ ~j.force
    BY <1>2 DEF Job
  <1>5. /\ device'.secret = device.secret /\ device'.last = job[w].step
        /\ device'.confirmed = device.confirmed /\ device'.disabled = device.disabled
    BY <1>1, RowFields DEF Device
  <1>. HIDE DEF j
  <1>6. job'[w] = j /\ \A x \in Worker : x # w => job'[x] = job[x]
    BY <1>1 DEF TypeOK
  <1>7. TypeOK'
    <2>1. device' \in Device
      BY <1>1, <1>2, DeviceTyped
    <2>2. recorded' \in SUBSET (Secret \X Nat) /\ raced' \in SUBSET Secret
      BY <1>1, RecordTyped
    <2>. QED  BY <1>1, <1>3, <2>1, <2>2 DEF TypeOK
  <1>8. ForwardDevice
    BY <1>5, RowFields, TwoFactorAssumption DEF ForwardDevice
  <1>9. Forward /\ CodesFine' /\ GrantedConsumed'
    <2>1. \A x \in Worker, r \in Rid : Holds(x, r)' => Holds(x, r)
      BY <1>4, <1>6 DEF Holds
    <2>. QED  BY <1>1, <1>8, <2>1, DeviceStep
  <1>10. TotpFine'
    BY <1>1, <1>2, <1>5, SaveKeeps DEF Fine
  <1>11. JobFine(w)' /\ ForceFine(w)'
    BY <1>1, <1>2, <1>4, <1>6 DEF JobFine, ForceFine, MatchedTotp, Verifying, Issued
  <1>12. JobsFine'
    BY <1>6, <1>7, <1>9, <1>11, Moved DEF Fine
  <1>. QED  BY <1>7, <1>9, <1>10, <1>12 DEF Kept, Fine

LEMMA FinishHolds ==
    ASSUME TypeOK, NEW w \in Worker, Finish(w)
    PROVE  \A x \in Worker, r \in Rid : Holds(x, r)' => Holds(x, r)
  <1>1. job'[w] = Idle /\ \A x \in Worker : x # w => job'[x] = job[x]
    BY DEF Finish, TypeOK
  <1>. QED  BY <1>1 DEF Holds, Idle

LEMMA SaveConfirmKeeps ==
    ASSUME TypeOK, Fine, NEW w \in Worker, SaveConfirm(w)
    PROVE  Kept
  <1>1. /\ UNCHANGED <<now, recovery, verified, trusted, challenge, pending,
                       uses, before, proved>>
        /\ device' = [device EXCEPT !.confirmed = TRUE, !.last = job[w].step]
        /\ Record(job[w]) /\ Finish(w) /\ job[w].op = "confirm"
    BY DEF SaveConfirm, AfterConfirm
  <1>2. job[w].step \in Nat /\ JobFine(w)
    BY JobFields DEF Fine, JobsFine
  <1>3. /\ device'.secret = device.secret /\ device'.last = job[w].step
        /\ device'.disabled = device.disabled
    BY <1>1, RowFields DEF Device
  <1>4. TypeOK'
    <2>1. device' \in Device
      BY <1>1, <1>2, DeviceTyped
    <2>2. recorded' \in SUBSET (Secret \X Nat) /\ raced' \in SUBSET Secret
      BY <1>1, RecordTyped
    <2>3. job' \in [Worker -> Job]
      BY <1>1, IdleTyped DEF Finish, TypeOK
    <2>. QED  BY <1>1, <2>1, <2>2, <2>3 DEF TypeOK
  <1>5. ForwardDevice
    BY <1>3, RowFields, TwoFactorAssumption DEF ForwardDevice
  <1>6. Forward /\ CodesFine' /\ GrantedConsumed'
    BY <1>1, <1>5, FinishHolds, DeviceStep
  <1>7. TotpFine'
    BY <1>1, <1>2, <1>3, SaveKeeps DEF Fine
  <1>8. JobsFine'
    BY <1>1, <1>4, <1>6, Finished DEF Fine
  <1>. QED  BY <1>4, <1>6, <1>7, <1>8 DEF Kept, Fine

LEMMA ForceDisableKeeps ==
    ASSUME TypeOK, Fine, NEW w \in Worker, ForceDisable(w)
    PROVE  Kept
  <1>. DEFINE n == IF Live THEN device.secret ELSE 0
              j == [Idle EXCEPT !.op = "forceCodes", !.force = TRUE,
                      !.secret = n, !.seen = Unused \cup Unrevoked]
  <1>1. /\ UNCHANGED <<now, recovery, verified, trusted, challenge, pending,
                       recorded, raced, uses, before, proved>>
        /\ device' = IF Live THEN [device EXCEPT !.disabled = TRUE] ELSE device
        /\ Start(w, j)
    BY DEF ForceDisable, history
  <1>2. /\ n \in 0..MaxSecret /\ n <= device.secret
        /\ Unused \cup Unrevoked \in SUBSET (Rid \cup Did)
        /\ \A r \in (Unused \cup Unrevoked) \cap Rid : recovery[r] = "unused"
        /\ \A d \in (Unused \cup Unrevoked) \cap Did : trusted[d].state = "live"
    BY RowFields, TwoFactorAssumption DEF Unused, Unrevoked
  <1>3. /\ device'.secret = device.secret /\ device'.last = device.last
        /\ device'.confirmed = device.confirmed
        /\ device.disabled => device'.disabled
        /\ Live => device'.disabled
    BY <1>1, RowFields DEF Device
  <1>4. /\ j.op = "forceCodes" /\ j.secret = n /\ j.todo = {}
        /\ j.seen = Unused \cup Unrevoked
    BY DEF Idle
  <1>5. j \in Job
    BY <1>2, StartTyped
  <1>6. n # 0 => Live
    OBVIOUS
  <1>. HIDE DEF j, n
  <1>7. job'[w] = j /\ job' \in [Worker -> Job] /\ \A x \in Worker : x # w => job'[x] = job[x]
    BY <1>1, <1>5 DEF Start, TypeOK
  <1>8. TypeOK'
    <2>1. device' \in Device
      BY <1>1, RowFields, DeviceTyped
    <2>. QED  BY <1>1, <1>7, <2>1 DEF TypeOK
  <1>9. ForwardDevice
    BY <1>3, RowFields, TwoFactorAssumption DEF ForwardDevice
  <1>10. Forward /\ CodesFine' /\ GrantedConsumed'
    <2>1. \A x \in Worker, r \in Rid : Holds(x, r)' => Holds(x, r)
      BY <1>4, <1>7 DEF Holds
    <2>. QED  BY <1>1, <1>9, <2>1, DeviceStep
  <1>11. TotpFine'
    BY <1>1, <1>3, DeviceKeeps DEF Fine
  <1>12. JobFine(w)'
    BY <1>4, <1>7 DEF JobFine, MatchedTotp, Verifying
  <1>13. ForceFine(w)'
    <2>1. (n # 0 /\ n = device'.secret) => device'.disabled
      BY <1>3, <1>6
    <2>. QED  BY <1>1, <1>2, <1>3, <1>4, <1>7, <2>1 DEF ForceFine
  <1>14. JobsFine'
    BY <1>7, <1>8, <1>10, <1>12, <1>13, Moved DEF Fine
  <1>. QED  BY <1>8, <1>10, <1>11, <1>14 DEF Kept, Fine

-----------------------------------------------------------------------------
(* Steps that write the recovery codes.                                    *)
LEMMA CodesStep ==
    ASSUME TypeOK, Fine, UNCHANGED <<device, trusted, pending, recorded, raced, proved>>,
           ForwardCodes
    PROVE  Forward /\ TotpFine' /\ GrantedConsumed'
  <1>1. device.secret <= device'.secret
    BY RowFields, TwoFactorAssumption
  <1>2. ForwardDevice /\ ForwardTrusted
    BY <1>1 DEF ForwardDevice, ForwardTrusted
  <1>3. TotpFine'
    BY DeviceKeeps DEF Fine
  <1>. QED  BY <1>2, <1>3, TokensKeep DEF Fine, Forward

LEMMA Deleted ==
    ASSUME TypeOK, recovery' = DeleteUnused
    PROVE  /\ recovery' \in [Rid -> {"unborn", "unused", "used", "deleted"}]
           /\ \A r \in Rid : \/ recovery'[r] = recovery[r]
                             \/ recovery[r] = "unused" /\ recovery'[r] = "deleted"
           /\ ForwardCodes /\ Unused' = {}
           /\ \A r \in Rid : recovery[r] # "unborn" => r \in Spent'
  <1>1. recovery' \in [Rid -> {"unborn", "unused", "used", "deleted"}]
    BY DEF TypeOK, DeleteUnused
  <1>2. \A r \in Rid : \/ recovery[r] = "unused" /\ recovery'[r] = "deleted"
                       \/ recovery[r] # "unused" /\ recovery'[r] = recovery[r]
    BY DEF DeleteUnused
  <1>. QED  BY <1>1, <1>2, RowFields DEF ForwardCodes, Unused, Spent

LEMMA DisableRecoveryKeeps ==
    ASSUME TypeOK, Fine, DisableRecovery
    PROVE  Kept
  <1>1. /\ UNCHANGED <<now, device, verified, trusted, challenge, pending, job,
                       recorded, raced, uses, before, proved>>
        /\ recovery' = DeleteUnused
    BY DEF DisableRecovery, history
  <1>2. TypeOK'
    BY <1>1, Deleted DEF TypeOK
  <1>3. Forward /\ TotpFine' /\ GrantedConsumed'
    BY <1>1, Deleted, CodesStep
  <1>4. CodesFine'
    <2>1. \A x \in Worker, r \in Rid : Holds(x, r)' => Holds(x, r)
      BY <1>1 DEF Holds
    <2>. QED  BY <1>1, <2>1, Deleted, CodesMove DEF Fine
  <1>5. JobsFine'
    BY <1>1, <1>2, <1>3, Still DEF Fine
  <1>. QED  BY <1>2, <1>3, <1>4, <1>5 DEF Kept, Fine

LEMMA RegenerateKeeps ==
    ASSUME TypeOK, Fine, NEW w \in Worker, Regenerate(w)
    PROVE  Kept
  <1>. DEFINE S == {r \in Rid : recovery[r] # "unborn"}
              j == [Idle EXCEPT !.op = "regenerate", !.seen = S]
  <1>1. /\ UNCHANGED <<now, device, verified, trusted, challenge, pending,
                       recorded, raced, uses, before, proved>>
        /\ recovery' = DeleteUnused /\ Start(w, j)
    BY DEF Regenerate, history
  <1>2. S \subseteq Spent' /\ S \in SUBSET (Rid \cup Did)
    BY <1>1, Deleted
  <1>3. j.op = "regenerate" /\ j.seen = S /\ j.todo = {} /\ ~j.force
    BY DEF Idle
  <1>4. j \in Job
    BY <1>2, StartTyped
  <1>. HIDE DEF j, S
  <1>5. job'[w] = j /\ job' \in [Worker -> Job] /\ \A x \in Worker : x # w => job'[x] = job[x]
    BY <1>1, <1>4 DEF Start, TypeOK
  <1>6. TypeOK'
    BY <1>1, <1>5, Deleted DEF TypeOK
  <1>7. Forward /\ TotpFine' /\ GrantedConsumed'
    BY <1>1, Deleted, CodesStep
  <1>8. CodesFine'
    <2>1. \A x \in Worker, r \in Rid : Holds(x, r)' => Holds(x, r)
      BY <1>3, <1>5 DEF Holds
    <2>. QED  BY <1>1, <2>1, Deleted, CodesMove DEF Fine
  <1>9. JobFine(w)' /\ ForceFine(w)'
    BY <1>2, <1>3, <1>5 DEF JobFine, ForceFine, MatchedTotp, Verifying
  <1>10. JobsFine'
    BY <1>5, <1>6, <1>7, <1>9, Moved DEF Fine
  <1>. QED  BY <1>6, <1>7, <1>8, <1>10 DEF Kept, Fine

LEMMA InsertCodesKeeps ==
    ASSUME TypeOK, Fine, NEW w \in Worker, InsertCodes(w)
    PROVE  Kept
  <1>1. PICK new \in SUBSET {r \in Rid : recovery[r] = "unborn"} :
          /\ recovery' = [r \in Rid |-> IF r \in new THEN "unused" ELSE recovery[r]]
          /\ before' = [r \in Rid |-> IF r \in new THEN job[w].seen ELSE before[r]]
    BY DEF InsertCodes
  <1>2. /\ UNCHANGED <<now, device, verified, trusted, challenge, pending,
                       recorded, raced, uses, proved>>
        /\ Finish(w)
    BY DEF InsertCodes, totpHistory
  <1>3. job[w].seen \subseteq Spent
    BY DEF InsertCodes, Fine, JobsFine, JobFine
  <1>4. /\ \A r \in Rid : \/ recovery'[r] = recovery[r]
                          \/ recovery[r] = "unborn" /\ recovery'[r] = "unused"
        /\ \A r \in Rid : before'[r] = before[r] \/ before'[r] \subseteq Spent
    BY <1>1, <1>3
  <1>5. ForwardCodes
    BY <1>4 DEF ForwardCodes
  <1>6. TypeOK'
    <2>1. recovery' \in [Rid -> {"unborn", "unused", "used", "deleted"}]
      BY <1>1 DEF TypeOK
    <2>2. before' \in [Rid -> SUBSET Rid]
      BY <1>1, <1>3 DEF TypeOK, Spent
    <2>3. job' \in [Worker -> Job]
      BY <1>2, IdleTyped DEF Finish, TypeOK
    <2>. QED  BY <1>2, <2>1, <2>2, <2>3 DEF TypeOK
  <1>7. Forward /\ TotpFine' /\ GrantedConsumed'
    BY <1>2, <1>5, CodesStep
  <1>8. CodesFine'
    BY <1>2, <1>4, FinishHolds, CodesMove DEF Fine
  <1>9. JobsFine'
    BY <1>2, <1>6, <1>7, Finished DEF Fine
  <1>. QED  BY <1>6, <1>7, <1>8, <1>9 DEF Kept, Fine

LEMMA ForceCodesKeeps ==
    ASSUME TypeOK, Fine, NEW w \in Worker, ForceCodes(w)
    PROVE  Kept
  <1>. DEFINE j == [job[w] EXCEPT !.op = "forceList"]
  <1>1. /\ UNCHANGED <<now, device, verified, trusted, challenge, pending,
                       recorded, raced, uses, before, proved>>
        /\ recovery' = DeleteUnused /\ job' = [job EXCEPT ![w] = j]
        /\ job[w].op = "forceCodes" /\ job[w] \in Job
    BY JobFields DEF ForceCodes, history, Continue
  <1>2. j \in Job
    BY <1>1, ContinueTyped
  <1>3. /\ j.op = "forceList" /\ j.seen = job[w].seen /\ j.todo = job[w].todo
        /\ j.secret = job[w].secret
    BY <1>1 DEF Job
  <1>4. j.force => job[w].force
    BY <1>1 DEF Job
  <1>. HIDE DEF j
  <1>5. job'[w] = j /\ job' \in [Worker -> Job] /\ \A x \in Worker : x # w => job'[x] = job[x]
    BY <1>1, <1>2 DEF TypeOK
  <1>6. TypeOK'
    BY <1>1, <1>5, Deleted DEF TypeOK
  <1>7. Forward /\ TotpFine' /\ GrantedConsumed'
    BY <1>1, Deleted, CodesStep
  <1>8. CodesFine'
    <2>1. \A x \in Worker, r \in Rid : Holds(x, r)' => Holds(x, r)
      BY <1>3, <1>5 DEF Holds
    <2>. QED  BY <1>1, <2>1, Deleted, CodesMove DEF Fine
  <1>9. JobFine(w)'
    <2>1. \A d \in job[w].todo : trusted[d].state # "unused"
      BY DEF Fine, JobsFine, JobFine
    <2>. QED  BY <1>1, <1>3, <1>5, <2>1 DEF JobFine, MatchedTotp, Verifying
  <1>10. ForceFine(w)'
    <2>. SUFFICES ASSUME j.force PROVE ForceFine(w)'
      BY <1>5 DEF ForceFine
    <2>1. /\ (job[w].secret # 0 /\ job[w].secret = device.secret) => device.disabled
          /\ job[w].secret <= device.secret
          /\ \A r \in job[w].seen \cap Rid : recovery[r] # "unborn"
          /\ \A d \in job[w].seen \cap Did : trusted[d].state # "unused"
      BY <1>1, <1>4 DEF Fine, JobsFine, ForceFine
    <2>2. \A r \in job[w].seen \cap Rid : recovery'[r] # "unborn"
      BY <2>1, <1>7 DEF Forward, ForwardCodes
    <2>3. Unused' = {}
      BY <1>1, Deleted
    <2>. QED  BY <2>1, <2>2, <2>3, <1>1, <1>3, <1>5 DEF ForceFine
  <1>11. JobsFine'
    BY <1>5, <1>6, <1>7, <1>9, <1>10, Moved DEF Fine
  <1>. QED  BY <1>6, <1>7, <1>8, <1>11 DEF Kept, Fine

LEMMA UseRecoveryKeeps ==
    ASSUME TypeOK, Fine, NEW w \in Worker, UseRecovery(w)
    PROVE  Kept
  <1>. DEFINE r == job[w].item
              j == [job[w] EXCEPT !.op = "used"]
  <1>1. /\ UNCHANGED <<now, device, verified, trusted, challenge, pending,
                       recorded, raced, before, proved>>
        /\ recovery' = [recovery EXCEPT ![r] = "used"]
        /\ uses' = [uses EXCEPT ![r] = @ + 1]
        /\ job' = [job EXCEPT ![w] = j]
        /\ job[w].op = "matched" /\ job[w].method = "recovery_code"
        /\ recovery[r] # "deleted"
    BY DEF UseRecovery, Used, totpHistory, Continue
  <1>2. /\ job[w] \in Job /\ ~job[w].force /\ r \in Rid /\ recovery[r] # "unborn"
        /\ job[w].token \in Pid /\ Issued(job[w].token)
        /\ \A d \in job[w].todo : trusted[d].state # "unused"
    <2>1. job[w] \in Job /\ JobFine(w) /\ ForceFine(w)
      BY JobFields DEF Fine, JobsFine
    <2>. QED  BY <1>1, <2>1 DEF JobFine, ForceFine, Verifying
  <1>3. j \in Job
    BY <1>2, ContinueTyped
  <1>4. j.op = "used" /\ j.token = job[w].token /\ j.todo = job[w].todo /\ ~j.force
    BY <1>2 DEF Job
  <1>. HIDE DEF j
  <1>5. job'[w] = j /\ job' \in [Worker -> Job] /\ \A x \in Worker : x # w => job'[x] = job[x]
    BY <1>1, <1>3 DEF TypeOK
  <1>6. /\ recovery' \in [Rid -> {"unborn", "unused", "used", "deleted"}]
        /\ uses' \in [Rid -> Nat] /\ recovery'[r] = "used" /\ uses'[r] = uses[r] + 1
        /\ \A q \in Rid : q # r => recovery'[q] = recovery[q] /\ uses'[q] = uses[q]
    BY <1>1, <1>2 DEF TypeOK
  <1>7. TypeOK'
    BY <1>1, <1>5, <1>6 DEF TypeOK
  <1>8. ForwardCodes
    BY <1>6 DEF ForwardCodes
  <1>9. Forward /\ TotpFine' /\ GrantedConsumed'
    BY <1>1, <1>8, CodesStep
  <1>10. RecoveryBounded'
    <2>1. ASSUME NEW q \in Rid
          PROVE  IF recovery'[q] \in {"unborn", "unused"} THEN uses'[q] = 0
                 ELSE uses'[q] + Cardinality(Holders(q)') <= Cardinality(Worker)
      <3>1. /\ Holders(q) \subseteq Worker /\ Holders(q)' = Holders(q) \ {w}
            /\ q = r => w \in Holders(q)
        BY <1>1, <1>4, <1>5 DEF Holders
      <3>2. /\ IsFiniteSet(Holders(q)) /\ Cardinality(Holders(q)) \in Nat
            /\ Cardinality(Holders(q)) <= Cardinality(Worker) /\ Cardinality(Worker) \in Nat
        BY <3>1, HoldersFinite, TwoFactorAssumption
      <3>3. CASE q # r
        <4>1. Cardinality(Holders(q)') <= Cardinality(Holders(q))
              /\ Cardinality(Holders(q)') \in Nat
          <5>1. Holders(q)' \in SUBSET Holders(q)
            BY <3>1
          <5>. QED  BY <5>1, <3>2, HoldersFinite
        <4>2. uses[q] \in Nat
          BY DEF TypeOK
        <4>3. IF recovery[q] \in {"unborn", "unused"} THEN uses[q] = 0
              ELSE uses[q] + Cardinality(Holders(q)) <= Cardinality(Worker)
          BY DEF Fine, CodesFine, RecoveryBounded
        <4>. QED  BY <3>2, <3>3, <4>1, <4>2, <4>3, <1>6
      <3>4. CASE q = r
        <4>1. Cardinality(Holders(q)') = Cardinality(Holders(q)) - 1
          BY <3>1, <3>2, <3>4, FS_RemoveElement
        <4>2. uses[q] \in Nat
          BY DEF TypeOK
        <4>3. CASE recovery[q] = "unused"
          <5>1. uses[q] = 0
            BY <4>3 DEF Fine, CodesFine, RecoveryBounded
          <5>. QED  BY <5>1, <4>1, <3>2, <3>4, <1>6
        <4>4. CASE recovery[q] # "unused"
          <5>1. uses[q] + Cardinality(Holders(q)) <= Cardinality(Worker)
            BY <4>4, <3>4, <1>2 DEF Fine, CodesFine, RecoveryBounded
          <5>. QED  BY <5>1, <4>1, <4>2, <3>2, <3>4, <1>6
        <4>. QED  BY <4>3, <4>4
      <3>. QED  BY <3>3, <3>4
    <2>. QED  BY <2>1 DEF RecoveryBounded
  <1>11. BeforeSpent'
    <2>1. Spent \subseteq Spent'
      BY <1>6 DEF Spent
    <2>. QED  BY <1>1, <2>1 DEF Fine, CodesFine, BeforeSpent
  <1>12. JobFine(w)' /\ ForceFine(w)'
    BY <1>1, <1>2, <1>4, <1>5 DEF JobFine, ForceFine, MatchedTotp, Verifying, Issued
  <1>13. JobsFine'
    BY <1>5, <1>7, <1>9, <1>12, Moved DEF Fine
  <1>. QED  BY <1>7, <1>9, <1>10, <1>11, <1>13 DEF Kept, Fine, CodesFine

-----------------------------------------------------------------------------
(* Steps that write the trusted devices.                                   *)
LEMMA TrustedStep ==
    ASSUME TypeOK, Fine,
           UNCHANGED <<device, recovery, recorded, raced, proved, uses, before>>,
           ForwardTrusted, ForwardTokens,
           \A w \in Worker, r \in Rid : Holds(w, r)' => Holds(w, r)
    PROVE  Forward /\ TotpFine' /\ CodesFine'
  <1>1. device.secret <= device'.secret
    BY RowFields, TwoFactorAssumption
  <1>2. ForwardDevice /\ ForwardCodes
    BY <1>1 DEF ForwardDevice, ForwardCodes
  <1>3. TotpFine'
    BY DeviceKeeps DEF Fine
  <1>4. CodesFine'
    BY CodesMove DEF Fine
  <1>. QED  BY <1>2, <1>3, <1>4 DEF Forward

LEMMA RowTyped ==
    ASSUME TypeOK, NEW d \in Did, NEW s \in {"unused", "live", "revoked", "deleted"}
    PROVE  /\ [trusted[d] EXCEPT !.state = s] \in Trusted
           /\ [trusted[d] EXCEPT !.state = s].state = s
  <1>1. trusted[d] \in Trusted
    BY RowFields
  <1>. QED  BY <1>1 DEF Trusted

LEMMA SkipDoneKeeps ==
    ASSUME TypeOK, Fine, NEW w \in Worker, SkipDone(w)
    PROVE  Kept
  <1>1. /\ UNCHANGED <<now, device, recovery, verified, challenge, pending,
                       recorded, raced, proved, uses, before>>
        /\ Finish(w)
    BY DEF SkipDone, history
  <1>2. trusted' = trusted
    BY DEF SkipDone, Touched, TypeOK
  <1>3. TypeOK'
    BY <1>1, <1>2, IdleTyped DEF Finish, TypeOK
  <1>4. ForwardTrusted
    BY <1>2 DEF ForwardTrusted
  <1>5. GrantedConsumed' /\ ForwardTokens
    BY <1>1, TokensKeep DEF Fine
  <1>6. Forward /\ TotpFine' /\ CodesFine'
    BY <1>1, <1>4, <1>5, FinishHolds, TrustedStep
  <1>7. JobsFine'
    BY <1>1, <1>3, <1>6, Finished DEF Fine
  <1>. QED  BY <1>3, <1>5, <1>6, <1>7 DEF Kept, Fine

LEMMA GrantKeeps ==
    ASSUME TypeOK, Fine, NEW w \in Worker, Grant(w)
    PROVE  Kept
  <1>. DEFINE t == job[w].token
              u == now + Remaining(t) * Second
  <1>1. /\ UNCHANGED <<now, device, recovery, verified, challenge,
                       recorded, raced, proved, uses, before>>
        /\ pending' = [pending EXCEPT ![t] = [pending[t] EXCEPT !.granted = TRUE,
                                                                !.consumedUntil = u]]
        /\ Finish(w)
    BY DEF Grant, history
  <1>2. t \in Pid /\ Issued(t)
    BY DEF Grant, Fine, JobsFine, JobFine, Verifying
  <1>3. u \in Nat /\ pending[t].exp - u < Second
    <2>. DEFINE a == pending[t].exp - now
    <2>1. a \in Int /\ now \in Nat /\ pending[t].exp \in Nat /\ Second \in Nat \ {0}
      BY <1>2, RowFields, Clock, TwoFactorAssumption
    <2>2. CASE a < Second
      <3>1. Remaining(t) = 1
        BY <2>2 DEF Remaining
      <3>. QED  BY <2>1, <2>2, <3>1
    <2>3. CASE ~(a < Second)
      <3>1. a \in Nat
        BY <2>1, <2>3
      <3>2. (a \div Second) * Second \in Nat /\ a - (a \div Second) * Second < Second
        BY <2>1, <3>1, Quotient
      <3>3. Remaining(t) = a \div Second
        BY <2>3 DEF Remaining
      <3>. QED  BY <2>1, <3>1, <3>2, <3>3
    <2>. QED  BY <2>2, <2>3
  <1>. HIDE DEF u
  <1>4. pending[t] \in Pending
    BY <1>2, RowFields
  <1>5. [pending[t] EXCEPT !.granted = TRUE, !.consumedUntil = u] \in Pending
    BY <1>3, <1>4 DEF Pending
  <1>6. /\ pending'[t].primary = pending[t].primary /\ pending'[t].exp = pending[t].exp
        /\ pending'[t].consumedUntil = u
        /\ \A x \in Pid : x # t => pending'[x] = pending[x]
    BY <1>1, <1>2, <1>4 DEF TypeOK, Pending
  <1>7. trusted' \in [Did -> Trusted] /\ ForwardTrusted
    <2>1. CASE trusted' = trusted
      BY <2>1 DEF TypeOK, ForwardTrusted
    <2>2. CASE \E d \in Did :
                  /\ trusted[d].state = "unused"
                  /\ trusted' = [trusted EXCEPT ![d] =
                                   [state |-> "live", expiresAt |-> now + TrustedTtl]]
      <3>1. [state |-> "live", expiresAt |-> now + TrustedTtl] \in Trusted
        BY Clock, TwoFactorAssumption DEF Trusted
      <3>. QED  BY <2>2, <3>1 DEF TypeOK, ForwardTrusted
    <2>. QED  BY <2>1, <2>2 DEF Grant
  <1>8. TypeOK'
    BY <1>1, <1>5, <1>7, IdleTyped DEF Finish, TypeOK
  <1>9. ForwardTokens
    BY <1>6 DEF ForwardTokens, Issued
  <1>10. GrantedConsumed'
    BY <1>2, <1>3, <1>6 DEF Fine, GrantedConsumed, Issued
  <1>11. Forward /\ TotpFine' /\ CodesFine'
    BY <1>1, <1>7, <1>9, FinishHolds, TrustedStep
  <1>12. JobsFine'
    BY <1>1, <1>8, <1>11, Finished DEF Fine
  <1>. QED  BY <1>8, <1>10, <1>11, <1>12 DEF Kept, Fine

(* One row of a list: it is revoked, or deleted, and leaves the list.      *)
LEMMA ListedKeeps ==
    ASSUME TypeOK, Fine, NEW w \in Worker, NEW d \in job[w].todo,
           job[w].op \in {"revoke", "purge"},
           NEW s \in {"revoked", "deleted"},
           s = "revoked" => trusted[d].state # "deleted",
           trusted' = [trusted EXCEPT ![d].state = s],
           Continue(w, [job[w] EXCEPT !.todo = @ \ {d}]),
           UNCHANGED <<now, device, recovery, verified, challenge, pending, history>>
    PROVE  Kept
  <1>. DEFINE j == [job[w] EXCEPT !.todo = job[w].todo \ {d}]
  <1>1. /\ job[w] \in Job /\ d \in Did /\ job[w].todo \ {d} \in SUBSET Did
        /\ JobFine(w) /\ ForceFine(w)
        /\ UNCHANGED <<recorded, raced, proved, uses, before>>
    BY JobFields DEF Fine, JobsFine, history
  <1>2. /\ j.op = job[w].op /\ j.todo = job[w].todo \ {d} /\ j.seen = job[w].seen
        /\ j.secret = job[w].secret
    BY <1>1 DEF Job
  <1>3. j.force => job[w].force
    BY <1>1 DEF Job
  <1>4. j \in Job
    BY <1>1, ContinueTyped
  <1>5. /\ trusted'[d].state = s /\ trusted' \in [Did -> Trusted]
        /\ \A e \in Did : e # d => trusted'[e] = trusted[e]
    BY <1>1, RowTyped DEF TypeOK
  <1>6. job' = [job EXCEPT ![w] = j]
    BY DEF Continue
  <1>. HIDE DEF j
  <1>7. job'[w] = j /\ job' \in [Worker -> Job] /\ \A x \in Worker : x # w => job'[x] = job[x]
    BY <1>4, <1>6 DEF TypeOK
  <1>8. TypeOK'
    BY <1>1, <1>5, <1>7 DEF TypeOK
  <1>9. ForwardTrusted
    BY <1>5 DEF ForwardTrusted
  <1>10. GrantedConsumed' /\ ForwardTokens
    BY TokensKeep DEF Fine
  <1>11. Forward /\ TotpFine' /\ CodesFine'
    <2>1. \A x \in Worker, r \in Rid : Holds(x, r)' => Holds(x, r)
      BY <1>2, <1>7 DEF Holds
    <2>. QED  BY <1>1, <1>9, <1>10, <2>1, TrustedStep
  <1>12. JobFine(w)'
    <2>1. \A e \in j.todo : trusted'[e].state # "unused"
      BY <1>1, <1>2, <1>5 DEF JobFine
    <2>. QED  BY <2>1, <1>2, <1>7 DEF JobFine, MatchedTotp, Verifying
  <1>13. ForceFine(w)'
    <2>. SUFFICES ASSUME j.force PROVE ForceFine(w)'
      BY <1>7 DEF ForceFine
    <2>1. /\ job[w].op = "revoke"
          /\ (job[w].secret # 0 /\ job[w].secret = device.secret) => device.disabled
          /\ job[w].secret <= device.secret
          /\ \A r \in job[w].seen \cap Rid : recovery[r] # "unborn"
          /\ \A e \in job[w].seen \cap Did : trusted[e].state # "unused"
          /\ job[w].seen \cap Unused = {}
          /\ job[w].seen \cap Unrevoked \subseteq job[w].todo
      BY <1>1, <1>3 DEF ForceFine
    <2>2. \A e \in job[w].seen \cap Did : trusted'[e].state # "unused"
      BY <2>1, <1>9 DEF ForwardTrusted
    <2>3. job[w].seen \cap Unrevoked' \subseteq job[w].todo \ {d}
      <3>1. Unrevoked' \subseteq Unrevoked \ {d}
        BY <1>5 DEF Unrevoked
      <3>. QED  BY <2>1, <3>1
    <2>4. Unused' = Unused
      BY DEF Unused
    <2>. QED  BY <2>1, <2>2, <2>3, <2>4, <1>2, <1>7 DEF ForceFine
  <1>14. JobsFine'
    BY <1>7, <1>8, <1>11, <1>12, <1>13, Moved DEF Fine
  <1>. QED  BY <1>8, <1>10, <1>11, <1>14 DEF Kept, Fine

LEMMA RevokeNextKeeps ==
    ASSUME TypeOK, Fine, NEW w \in Worker, RevokeNext(w)
    PROVE  Kept
  <1>1. PICK d \in job[w].todo :
           /\ trusted[d].state # "deleted"
           /\ trusted' = [trusted EXCEPT ![d].state = "revoked"]
           /\ Continue(w, [job[w] EXCEPT !.todo = @ \ {d}])
    BY DEF RevokeNext
  <1>2. /\ job[w].op = "revoke"
        /\ UNCHANGED <<now, device, recovery, verified, challenge, pending, history>>
    BY DEF RevokeNext
  <1>. QED  BY <1>1, <1>2, ListedKeeps

LEMMA PurgeNextKeeps ==
    ASSUME TypeOK, Fine, NEW w \in Worker, PurgeNext(w)
    PROVE  Kept
  <1>1. PICK d \in job[w].todo :
           /\ trusted' = [trusted EXCEPT ![d].state = "deleted"]
           /\ Continue(w, [job[w] EXCEPT !.todo = @ \ {d}])
    BY DEF PurgeNext
  <1>2. /\ job[w].op = "purge"
        /\ UNCHANGED <<now, device, recovery, verified, challenge, pending, history>>
    BY DEF PurgeNext
  <1>. QED  BY <1>1, <1>2, ListedKeeps

-----------------------------------------------------------------------------
(* The three facts.                                                        *)
LEMMA InvariantInit == Init => IInv
  <1>. SUFFICES ASSUME Init PROVE TypeOK /\ Fine
    BY IInvOfFine
  <1>1. TypeOK
    <2>1. [secret |-> 0, confirmed |-> FALSE, disabled |-> FALSE, last |-> 0] \in Device
      BY TwoFactorAssumption DEF Device
    <2>2. [primary |-> None, exp |-> 0, consumedUntil |-> 0, granted |-> FALSE] \in Pending
      BY DEF Pending
    <2>3. [state |-> "unused", expiresAt |-> 0] \in Trusted
      BY DEF Trusted
    <2>. QED  BY <2>1, <2>2, <2>3, IdleTyped, TwoFactorAssumption DEF Init, TypeOK
  <1>2. JobsFine
    <2>1. \A w \in Worker : job[w] = Idle
      BY DEF Init
    <2>. QED  BY <2>1 DEF JobsFine, JobFine, ForceFine, Idle, MatchedTotp, Verifying
  <1>3. TotpFine
    BY DEF Init, TotpFine, RecordedBehind, ConfirmedProved
  <1>4. CodesFine
    <2>1. /\ \A r \in Rid : uses[r] = 0 /\ before[r] = {} /\ recovery[r] = "unborn"
      BY DEF Init
    <2>. QED  BY <2>1 DEF CodesFine, RecoveryBounded, BeforeSpent
  <1>5. GrantedConsumed
    <2>1. \A t \in Pid : ~pending[t].granted
      BY DEF Init
    <2>. QED  BY <2>1 DEF GrantedConsumed
  <1>. QED  BY <1>1, <1>2, <1>3, <1>4, <1>5 DEF Fine

LEMMA StepKept == IInv /\ [Next]_vars => Kept
  <1>. SUFFICES ASSUME IInv, [Next]_vars PROVE Kept
    OBVIOUS
  <1>1. TypeOK /\ Fine
    BY FineOfIInv
  <1>2. ASSUME NEW w \in Worker, NEW d \in Did, SkipLogin(w, d) \/ Revoke(w, d)
        PROVE  Kept
    BY <1>1, <1>2, SkipLoginKeeps, RevokeKeeps
  <1>3. ASSUME NEW t \in Pid, NEW p \in Primary, Login(t, p)
        PROVE  Kept
    BY <1>1, <1>3, LoginKeeps
  <1>4. ASSUME NEW w \in Worker, NEW t \in Pid, NEW m \in Method,
               NEW trust \in {FALSE, TrustedEnabled}, Verify(w, t, m, trust)
        PROVE  Kept
    <2>1. trust \in BOOLEAN
      BY TwoFactorAssumption
    <2>. QED  BY <1>1, <1>4, <2>1, VerifyKeeps
  <1>5. ASSUME NEW w \in Worker, SecondFactor(w)
        PROVE  Kept
    BY <1>1, <1>5, MatchTotpKeeps, MatchRecoveryKeeps, MatchOtpKeeps, UseTotpKeeps,
       UseRecoveryKeeps, GrantKeeps DEF SecondFactor
  <1>6. ASSUME NEW w \in Worker, Manage(w)
        PROVE  Kept
    BY <1>1, <1>6, ConfirmTotpKeeps, SaveConfirmKeeps, RegenerateKeeps,
       InsertCodesKeeps, ForceDisableKeeps, ForceCodesKeeps, ForceListKeeps DEF Manage
  <1>7. ASSUME NEW w \in Worker, Devices(w) \/ Abort(w)
        PROVE  Kept
    BY <1>1, <1>7, SkipDoneKeeps, RevokeNextKeeps, PurgeListKeeps, PurgeNextKeeps,
       DoneKeeps DEF Devices
  <1>8. CASE EnrollTotp \/ DisableTotp \/ DisableRecovery
    BY <1>1, <1>8, EnrollTotpKeeps, DisableTotpKeeps, DisableRecoveryKeeps
  <1>9. CASE \/ \E t \in Pid, m \in Method, c \in Cid : OtpRequest(t, m, c)
             \/ \E c \in Cid : OtherRequest(c)
             \/ \E c \in Contact : DisableContact(c) \/ VerifyContact(c)
             \/ Tick
             \/ UNCHANGED vars
    BY <1>1, <1>9, TableKeeps
  <1>. QED
    BY <1>2, <1>3, <1>4, <1>5, <1>6, <1>7, <1>8, <1>9 DEF Next

LEMMA InvariantStep == IInv /\ [Next]_vars => IInv'
  <1>1. TypeOK' /\ Fine' => IInv'
    BY IInvOfFine, PTL
  <1>. QED  BY <1>1, StepKept DEF Kept

-----------------------------------------------------------------------------
(* Where a job that is checked, matched or confirms comes from.            *)
Elsewhere(w) ==
    \/ job'[w] = job[w]
    \/ job'[w].op \notin {"checked", "matched", "confirm"}

LEMMA WriteElsewhere ==
    ASSUME TypeOK, NEW x \in Worker, NEW w \in Worker, NEW j,
           j.op \notin {"checked", "matched", "confirm"}, job' = [job EXCEPT ![x] = j]
    PROVE  Elsewhere(w)
  BY DEF TypeOK, Elsewhere

LEMMA OtherWorker ==
    ASSUME TypeOK, NEW x \in Worker, NEW w \in Worker, x # w,
           NEW j, job' = [job EXCEPT ![x] = j]
    PROVE  Elsewhere(w)
  BY DEF TypeOK, Elsewhere

LEMMA FinishElsewhere ==
    ASSUME TypeOK, NEW x \in Worker, NEW w \in Worker, Finish(x)
    PROVE  Elsewhere(w)
  BY WriteElsewhere DEF Finish, Idle

LEMMA SecondFactorOrigin ==
    ASSUME TypeOK, NEW x \in Worker, NEW w \in Worker, SecondFactor(x)
    PROVE  Elsewhere(w) \/ MatchTotp(w) \/ MatchRecovery(w)
  <1>1. job[x] \in Job
    BY JobFields
  <1>2. CASE MatchTotp(x) \/ MatchRecovery(x)
    <2>1. \E j : job' = [job EXCEPT ![x] = j]
      BY <1>2 DEF MatchTotp, MatchRecovery, Continue
    <2>. QED  BY <1>2, <2>1, OtherWorker
  <1>3. CASE MatchOtp(x) \/ UseTotp(x) \/ UseRecovery(x) \/ Grant(x)
    <2>1. Finish(x) \/ job' = [job EXCEPT ![x] = [job[x] EXCEPT !.op = "used"]]
      BY <1>3 DEF MatchOtp, UseTotp, UseRecovery, Grant, Continue
    <2>2. [job[x] EXCEPT !.op = "used"].op = "used"
      BY <1>1 DEF Job
    <2>. QED  BY <2>1, <2>2, FinishElsewhere, WriteElsewhere
  <1>. QED  BY <1>2, <1>3 DEF SecondFactor

LEMMA ManageOrigin ==
    ASSUME TypeOK, NEW x \in Worker, NEW w \in Worker, Manage(x)
    PROVE  Elsewhere(w) \/ ConfirmTotp(w)
  <1>1. job[x] \in Job
    BY JobFields
  <1>2. CASE ConfirmTotp(x)
    <2>1. \E j : job' = [job EXCEPT ![x] = j]
      BY <1>2 DEF ConfirmTotp, Start
    <2>. QED  BY <1>2, <2>1, OtherWorker
  <1>3. CASE SaveConfirm(x) \/ InsertCodes(x)
    BY <1>3, FinishElsewhere DEF SaveConfirm, InsertCodes
  <1>4. CASE Regenerate(x)
    <2>1. PICK S : job' = [job EXCEPT ![x] = [Idle EXCEPT !.op = "regenerate", !.seen = S]]
      BY <1>4 DEF Regenerate, Start
    <2>2. [Idle EXCEPT !.op = "regenerate", !.seen = S].op = "regenerate"
      BY DEF Idle
    <2>. QED  BY <2>1, <2>2, WriteElsewhere
  <1>5. CASE ForceDisable(x)
    <2>1. PICK S, n : job' = [job EXCEPT ![x] = [Idle EXCEPT !.op = "forceCodes",
                                          !.force = TRUE, !.secret = n, !.seen = S]]
      BY <1>5 DEF ForceDisable, Start
    <2>2. [Idle EXCEPT !.op = "forceCodes", !.force = TRUE,
                       !.secret = n, !.seen = S].op = "forceCodes"
      BY DEF Idle
    <2>. QED  BY <2>1, <2>2, WriteElsewhere
  <1>6. CASE ForceCodes(x)
    <2>1. job' = [job EXCEPT ![x] = [job[x] EXCEPT !.op = "forceList"]]
      BY <1>6 DEF ForceCodes, Continue
    <2>2. [job[x] EXCEPT !.op = "forceList"].op = "forceList"
      BY <1>1 DEF Job
    <2>. QED  BY <2>1, <2>2, WriteElsewhere
  <1>7. CASE ForceList(x)
    <2>1. job' = [job EXCEPT ![x] = [job[x] EXCEPT !.op = "revoke", !.todo = Listed]]
      BY <1>7 DEF ForceList, Continue
    <2>2. [job[x] EXCEPT !.op = "revoke", !.todo = Listed].op = "revoke"
      BY <1>1 DEF Job
    <2>. QED  BY <2>1, <2>2, WriteElsewhere
  <1>. QED  BY <1>2, <1>3, <1>4, <1>5, <1>6, <1>7 DEF Manage

LEMMA ListElsewhere ==
    ASSUME TypeOK, NEW x \in Worker, NEW w \in Worker, NEW S,
           NEW op \in {"revoke", "purge"}, Start(x, [Idle EXCEPT !.op = op, !.todo = S])
    PROVE  Elsewhere(w)
  <1>1. [Idle EXCEPT !.op = op, !.todo = S].op = op
    BY DEF Idle
  <1>. QED  BY <1>1, WriteElsewhere DEF Start

LEMMA DevicesOrigin ==
    ASSUME TypeOK, NEW x \in Worker, NEW w \in Worker,
           \/ Devices(x)
           \/ Abort(x)
           \/ \E d \in Did : SkipLogin(x, d) \/ Revoke(x, d)
    PROVE  Elsewhere(w)
  <1>1. job[x] \in Job
    BY JobFields
  <1>2. CASE SkipDone(x) \/ RevokeDone(x) \/ PurgeDone(x) \/ Abort(x)
    BY <1>2, FinishElsewhere DEF SkipDone, RevokeDone, PurgeDone, Abort
  <1>3. CASE RevokeNext(x) \/ PurgeNext(x)
    <2>1. PICK d : job' = [job EXCEPT ![x] = [job[x] EXCEPT !.todo = job[x].todo \ {d}]]
      BY <1>3 DEF RevokeNext, PurgeNext, Continue
    <2>2. [job[x] EXCEPT !.todo = job[x].todo \ {d}].op \in {"revoke", "purge"}
      BY <1>1, <1>3 DEF Job, RevokeNext, PurgeNext
    <2>. QED  BY <2>1, <2>2, WriteElsewhere
  <1>4. CASE PurgeList(x) \/ \E d \in Did : Revoke(x, d)
    BY <1>4, ListElsewhere DEF PurgeList, Revoke
  <1>5. CASE \E d \in Did : SkipLogin(x, d)
    <2>1. PICK d : job' = [job EXCEPT ![x] = [Idle EXCEPT !.op = "skip", !.item = d]]
      BY <1>5 DEF SkipLogin, Start
    <2>2. [Idle EXCEPT !.op = "skip", !.item = d].op = "skip"
      BY DEF Idle
    <2>. QED  BY <2>1, <2>2, WriteElsewhere
  <1>. QED  BY <1>2, <1>3, <1>4, <1>5 DEF Devices

LEMMA JobOrigin ==
    ASSUME TypeOK, [Next]_vars, NEW w \in Worker
    PROVE  \/ Elsewhere(w) \/ MatchTotp(w) \/ MatchRecovery(w) \/ ConfirmTotp(w)
           \/ \E t \in Pid, m \in Method, b \in BOOLEAN : Verify(w, t, m, b)
  <1>1. ASSUME NEW x \in Worker, NEW t \in Pid, NEW m \in Method,
               NEW b \in {FALSE, TrustedEnabled}, Verify(x, t, m, b)
        PROVE  Elsewhere(w) \/ \E t_1 \in Pid, m_1 \in Method, b_1 \in BOOLEAN :
                                  Verify(w, t_1, m_1, b_1)
    <2>1. b \in BOOLEAN
      BY TwoFactorAssumption
    <2>2. CASE x = w
      BY <1>1, <2>1, <2>2
    <2>3. CASE x # w
      <3>1. \E j : job' = [job EXCEPT ![x] = j]
        BY <1>1 DEF Verify, Start
      <3>. QED  BY <2>3, <3>1, OtherWorker
    <2>. QED  BY <2>2, <2>3
  <1>2. ASSUME NEW t \in Pid, NEW p \in Primary, Login(t, p) PROVE Elsewhere(w)
    BY <1>2 DEF Login, Elsewhere
  <1>3. CASE \/ \E t \in Pid, m \in Method, c \in Cid : OtpRequest(t, m, c)
             \/ \E c \in Cid : OtherRequest(c)
             \/ \E c \in Contact : DisableContact(c) \/ VerifyContact(c)
             \/ Tick \/ UNCHANGED vars
    BY <1>3 DEF OtpRequest, OtherRequest, DisableContact, VerifyContact, Tick, vars,
                Elsewhere
  <1>4. CASE EnrollTotp \/ DisableTotp \/ DisableRecovery
    BY <1>4 DEF EnrollTotp, DisableTotp, DisableRecovery, Elsewhere
  <1>. QED
    BY <1>1, <1>2, <1>3, <1>4, SecondFactorOrigin, ManageOrigin, DevicesOrigin DEF Next

-----------------------------------------------------------------------------
(* The inductive invariant: how far each handler has come, and what the    *)
(* rows it read have become since (TwoFactorService, login_response).      *)
THEOREM InductiveInvariant == Spec => []IInv
  <1>1. Init => IInv
    BY InvariantInit
  <1>2. IInv /\ [Next]_vars => IInv'
    BY InvariantStep
  <1>. QED  BY <1>1, <1>2, PTL DEF Spec

(* A confirmed TOTP device was confirmed with a code of its own secret,    *)
(* unless a save raced the row (confirm, enroll).                          *)
THEOREM ConfirmedProvedHolds == Spec => []ConfirmedProved
  <1>1. IInv => ConfirmedProved
    BY DEF IInv
  <1>. QED  BY <1>1, InductiveInvariant, PTL

(* A recovery code opens at most as many sessions as there are workers     *)
(* that held it before the first used it (verify_second_factor).           *)
THEOREM RecoveryBoundedHolds == Spec => []RecoveryBounded
  <1>1. IInv => RecoveryBounded
    BY DEF IInv
  <1>. QED  BY <1>1, InductiveInvariant, PTL

(* Unused codes of two batches are there together only when the two        *)
(* regenerations overlapped (generate_recovery_codes).                     *)
THEOREM OnlyOverlappingBatchesHolds == Spec => []OnlyOverlappingBatches
  <1>1. IInv => OnlyOverlappingBatches
    BY DEF IInv, OlderSpent, OnlyOverlappingBatches, Spent, Unused
  <1>. QED  BY <1>1, InductiveInvariant, PTL

(* What was disabled, used, deleted or revoked stays so, whatever handler  *)
(* read it before (disable, revoke_trusted_device, login_response).        *)
THEOREM RetiredStaysRetiredHolds == Spec => RetiredStaysRetired
  <1>1. IInv /\ [Next]_vars =>
          [ /\ (device.disabled /\ device'.secret = device.secret) => device'.disabled
            /\ \A r \in Rid : recovery[r] \in {"used", "deleted"} => recovery'[r] # "unused"
            /\ \A d \in Did : trusted[d].state \in {"revoked", "deleted"}
                                 => trusted'[d].state \in {"revoked", "deleted"} ]_vars
    <2>. SUFFICES ASSUME IInv, [Next]_vars
                  PROVE  /\ (device.disabled /\ device'.secret = device.secret)
                               => device'.disabled
                         /\ \A r \in Rid : recovery[r] \in {"used", "deleted"}
                               => recovery'[r] # "unused"
                         /\ \A d \in Did : trusted[d].state \in {"revoked", "deleted"}
                               => trusted'[d].state \in {"revoked", "deleted"}
      OBVIOUS
    <2>1. Forward
      BY StepKept DEF Kept
    <2>. QED  BY <2>1 DEF Forward, ForwardDevice, ForwardCodes, ForwardTrusted
  <1>. QED  BY <1>1, InductiveInvariant, PTL DEF Spec, RetiredStaysRetired

(* A TOTP step recorded as used, or an earlier one, is accepted again only *)
(* for a secret whose row some save has overwritten after it changed       *)
(* (_totp_matched_step).                                                   *)
THEOREM ReplaysOnlyRacedHolds == Spec => ReplaysOnlyRaced
  <1>1. IInv /\ [Next]_vars =>
          [\A w \in Worker, r \in recorded : AcceptsAgain(w, r) => r[1] \in raced]_vars
    <2>. SUFFICES ASSUME IInv, [Next]_vars, NEW w \in Worker, NEW r \in recorded,
                         AcceptsAgain(w, r)
                  PROVE  r[1] \in raced
      OBVIOUS
    <2>1. /\ TypeOK /\ r[1] \in Nat \ {0} /\ r[2] \in Nat
          /\ (r[1] = device.secret /\ r[1] \notin raced) => r[2] <= device.last
      BY DEF IInv, TypeOK, Secret, RecordedBehind
    <2>2. \A k \in Matched(device.last) : k \in Nat /\ k > device.last
      BY <2>1, Clock DEF Matched
    <2>3. CASE MatchTotp(w) \/ ConfirmTotp(w)
      <3>1. /\ job'[w].secret = device.secret
            /\ \E k \in Matched(device.last) : job'[w].step = k
        <4>1. job[w] \in Job
          BY <2>1, JobFields
        <4>2. CASE MatchTotp(w)
          <5>1. PICK k \in Matched(device.last) :
                   Continue(w, [job[w] EXCEPT !.op = "matched", !.secret = device.secret,
                                              !.last = device.last, !.step = k])
            BY <4>2 DEF MatchTotp
          <5>2. job'[w] = [job[w] EXCEPT !.op = "matched", !.secret = device.secret,
                                         !.last = device.last, !.step = k]
            BY <5>1, <2>1 DEF Continue, TypeOK
          <5>3. job'[w].secret = device.secret /\ job'[w].step = k
            BY <5>2, <4>1 DEF Job
          <5>. QED  BY <5>3
        <4>3. CASE ConfirmTotp(w)
          <5>1. PICK k \in Matched(device.last) :
                   Start(w, [Idle EXCEPT !.op = "confirm", !.secret = device.secret,
                                         !.last = device.last, !.step = k])
            BY <4>3 DEF ConfirmTotp
          <5>2. job'[w] = [Idle EXCEPT !.op = "confirm", !.secret = device.secret,
                                       !.last = device.last, !.step = k]
            BY <5>1, <2>1 DEF Start, TypeOK
          <5>3. job'[w].secret = device.secret /\ job'[w].step = k
            BY <5>2 DEF Idle
          <5>. QED  BY <5>3
        <4>. QED  BY <2>3, <4>2, <4>3
      <3>. QED  BY <2>1, <2>2, <3>1, RowFields DEF AcceptsAgain
    <2>4. CASE MatchRecovery(w)
      <3>1. job[w] \in Job /\ job[w].secret = 0
        BY <2>1, <2>4, JobFields DEF MatchRecovery, IInv, JobsMatched
      <3>2. PICK q : job'[w] = [job[w] EXCEPT !.op = "matched", !.item = q]
        BY <2>1, <2>4 DEF MatchRecovery, Continue, TypeOK
      <3>3. job'[w].secret = 0
        BY <3>1, <3>2 DEF Job
      <3>. QED  BY <2>1, <3>3 DEF AcceptsAgain
    <2>5. ASSUME NEW t \in Pid, NEW m \in Method, NEW b \in BOOLEAN, Verify(w, t, m, b)
          PROVE  FALSE
      <3>1. job'[w] = [Idle EXCEPT !.op = "checked", !.token = t, !.method = m, !.trust = b]
        BY <2>1, <2>5 DEF Verify, Start, TypeOK
      <3>. QED  BY <3>1 DEF AcceptsAgain, Idle
    <2>. QED  BY <2>1, <2>3, <2>4, <2>5, JobOrigin DEF AcceptsAgain, Elsewhere
  <1>. QED  BY <1>1, InductiveInvariant, PTL DEF Spec, ReplaysOnlyRaced

(* When admin_force_disable returns, the TOTP device, the recovery codes   *)
(* and the trusted devices that were in force when it began no longer are, *)
(* for any number of them and of workers that had read their rows.         *)
(* Verified contacts, which it leaves alone, are not meant.                *)
THEOREM ForceDisableClearsHolds == Spec => ForceDisableClears
  <1>1. IInv =>
          [\A w \in Worker :
             (RevokeDone(w) /\ job[w].force) =>
                 /\ ~(Live /\ device.secret = job[w].secret)
                 /\ job[w].seen \cap (Unused \cup Unrevoked) = {}]_vars
    <2>. SUFFICES ASSUME IInv, NEW w \in Worker, RevokeDone(w), job[w].force
                  PROVE  /\ ~(Live /\ device.secret = job[w].secret)
                         /\ job[w].seen \cap (Unused \cup Unrevoked) = {}
      OBVIOUS
    <2>1. job[w].op = "revoke" /\ job[w].todo = {}
      BY DEF RevokeDone
    <2>2. /\ (job[w].secret # 0 /\ job[w].secret = device.secret) => device.disabled
          /\ job[w].seen \cap Unused = {} /\ job[w].seen \cap Unrevoked = {}
      BY <2>1 DEF IInv, ForceProgress
    <2>. QED  BY <2>2 DEF Live
  <1>. QED  BY <1>1, InductiveInvariant, PTL DEF Spec, ForceDisableClears

(* Once a verification with a pending token has succeeded, the token is    *)
(* taken again only in the last second before its exp.                     *)
THEOREM ReplaysOnlyLastSecondHolds == Spec => ReplaysOnlyLastSecond
  <1>1. IInv /\ [Next]_vars =>
          [\A w \in Worker :
             (job[w].op = "idle" /\ job'[w].op = "checked" /\ pending[job'[w].token].granted)
                 => pending[job'[w].token].exp - now < Second]_vars
    <2>. SUFFICES ASSUME IInv, [Next]_vars, NEW w \in Worker, job[w].op = "idle",
                         job'[w].op = "checked", pending[job'[w].token].granted
                  PROVE  pending[job'[w].token].exp - now < Second
      OBVIOUS
    <2>1. TypeOK
      BY DEF IInv
    <2>2. \E t \in Pid, m \in Method, b \in BOOLEAN : Verify(w, t, m, b)
      <3>1. ~Elsewhere(w)
        BY DEF Elsewhere
      <3>2. ~MatchTotp(w) /\ ~MatchRecovery(w)
        BY DEF MatchTotp, MatchRecovery
      <3>3. ~ConfirmTotp(w)
        <4>. SUFFICES ASSUME ConfirmTotp(w) PROVE FALSE
          OBVIOUS
        <4>1. PICK k \in Matched(device.last) :
                 Start(w, [Idle EXCEPT !.op = "confirm", !.secret = device.secret,
                                       !.last = device.last, !.step = k])
          BY DEF ConfirmTotp
        <4>2. job'[w] = [Idle EXCEPT !.op = "confirm", !.secret = device.secret,
                                     !.last = device.last, !.step = k]
          BY <4>1, <2>1 DEF Start, TypeOK
        <4>. QED  BY <4>2 DEF Idle
      <3>. QED  BY <2>1, <3>1, <3>2, <3>3, JobOrigin
    <2>3. PICK t \in Pid, m \in Method, b \in BOOLEAN : Verify(w, t, m, b)
      BY <2>2
    <2>4. job'[w] = [Idle EXCEPT !.op = "checked", !.token = t, !.method = m, !.trust = b]
      BY <2>1, <2>3 DEF Verify, Start, TypeOK
    <2>5. job'[w].token = t
      BY <2>4 DEF Idle
    <2>6. pending[t].exp - pending[t].consumedUntil < Second
      BY <2>5 DEF IInv, GrantedConsumed
    <2>7. ~(now < pending[t].consumedUntil)
      BY <2>3 DEF Verify, Consumed
    <2>8. now \in Nat /\ pending[t].exp \in Nat /\ pending[t].consumedUntil \in Nat
          /\ Second \in Nat
      BY <2>1, RowFields, Clock, TwoFactorAssumption
    <2>. QED  BY <2>5, <2>6, <2>7, <2>8
  <1>. QED  BY <1>1, InductiveInvariant, PTL DEF Spec, ReplaysOnlyLastSecond

=============================================================================
