----------------------------- MODULE TwoFactor -----------------------------
(***************************************************************************)
(* The second factor of one account: the login response that asks for it   *)
(* or lets a trusted device skip it, the pending token in between, and     *)
(* TwoFactorService over the TwoFactorDevice, RecoveryCode, VerifiedContact*)
(* and TrustedDevice rows of the account, interleaved by workers.          *)
(*                                                                         *)
(* None of these handlers locks a row or opens a transaction, so a handler *)
(* that reads a row and writes it later is a job with a step for each.  A  *)
(* save(update_fields=...) writes only the fields it names, to whatever    *)
(* the row has become, and raises when the row is gone.  Every refusal     *)
(* changes nothing but the job.  Saves raise inside a request, so that an  *)
(* aborted job and one whose worker died are the same step, Abort.         *)
(*                                                                         *)
(* The clock counts ticks, Second of them to a second: exp and the cache   *)
(* timeouts are whole seconds, the clock is not.  Secret n is the n-th one *)
(* enrolled, and its code of time step k is the pair of n and k.  A login  *)
(* that has just created its account skips all this and is not part of it, *)
(* nor is the OTP challenge beyond its being spent once: module Otp has    *)
(* its life, and module Accounts the channel it was sent over.             *)
(***************************************************************************)
EXTENDS Integers, FiniteSets

CONSTANTS Worker,
          Pid, Rid, Did, Cid,   \* pending tokens, recovery codes, trusted
                                \* devices and OTP challenges there can be
          Allowed,              \* TWO_FACTOR ALLOWED_METHODS
          Contact,              \* USER_FIELDS with a value: "email", "phone"
          DifferentChannel,     \* TWO_FACTOR REQUIRE_DIFFERENT_CHANNEL
          TrustedEnabled,       \* TWO_FACTOR TRUSTED_DEVICE ENABLED
          Batch,                \* RECOVERY_CODE_COUNT
          Window,               \* TOTP_DRIFT_WINDOW
          Second, Interval,     \* ticks in a second, and in a TOTP step
          PendingTtl,           \* PENDING_TOKEN_TTL_SECONDS
          TrustedTtl, Grace,    \* TRUSTED_DEVICE TTL, tasks._TRUSTED_DEVICE_GRACE
          None,
          MaxSecret, MaxTime    \* bounds: enrolments, and the clock

ASSUME TwoFactorAssumption ==
    /\ None \notin Pid \cup Rid \cup Did \cup Cid
    /\ None \notin {"password", "totp", "email_otp", "phone_otp", "recovery_code"}
    /\ Rid \cap Did = {}
    /\ IsFiniteSet(Worker)
    /\ Allowed \subseteq {"totp", "email_otp", "phone_otp", "recovery_code"}
    /\ Contact \subseteq {"email", "phone"}
    /\ DifferentChannel \in BOOLEAN /\ TrustedEnabled \in BOOLEAN
    /\ Batch \in Nat /\ Window \in Nat
    /\ Second \in Nat \ {0} /\ Interval \in Nat \ {0}
    /\ PendingTtl \in Nat \ {0} /\ TrustedTtl \in Nat /\ Grace \in Nat
    /\ MaxSecret \in Nat /\ MaxTime \in Nat

VARIABLES now,
          device,        \* the TwoFactorDevice row
          recovery,      \* RecoveryCode rows
          verified,      \* contacts with a VerifiedContact row for their value
          trusted,       \* TrustedDevice rows
          challenge,     \* OTP challenges sent to the account's contact
          pending,       \* pending tokens and their consumed entry in the cache
          job,           \* what each worker is in the middle of
          recorded,      \* history: <<secret, step>> some save recorded
          proved,        \* history: secrets a confirmation saw a code of
          raced,         \* history: secrets saved over a row changed since read
          uses,          \* history: sessions opened per recovery code
          before         \* history: codes there were when the regeneration
                         \* of this one ran its DELETE

vars == <<now, device, recovery, verified, trusted, challenge, pending, job,
          recorded, proved, raced, uses, before>>
totpHistory == <<recorded, proved, raced>>
history == <<recorded, proved, raced, uses, before>>

-----------------------------------------------------------------------------
Secret == 1..MaxSecret
ChannelOf(m) == CASE m = "email_otp" -> "email"
                  [] m = "phone_otp" -> "phone"
                  [] OTHER -> m

Primary == {m \in {"password", "email_otp", "phone_otp"} :
              m = "password" \/ ChannelOf(m) \in Contact}
Method == {"totp", "email_otp", "phone_otp", "recovery_code"}

Device == [secret : 0..MaxSecret, confirmed : BOOLEAN, disabled : BOOLEAN,
           last : Nat]               \* secret 0: no row
Trusted == [state : {"unused", "live", "revoked", "deleted"}, expiresAt : Nat]
Pending == [primary : Primary \cup {None}, exp : Nat,
            consumedUntil : Nat,     \* 0: no cache entry
            granted : BOOLEAN]       \* history

Job == [op : {"idle", "confirm", "checked", "matched", "used", "skip",
              "regenerate", "forceCodes", "forceList", "revoke", "purge"},
        token : Pid \cup {None}, method : Method \cup {None}, trust : BOOLEAN,
        secret : 0..MaxSecret, last : Nat, step : Nat,  \* of the device it read
        item : Rid \cup Did \cup {None},                \* the row it read
        todo : SUBSET Did,
        force : BOOLEAN,                                \* admin_force_disable
        seen : SUBSET (Rid \cup Did)]                   \* history: what lived
                                                        \* when it began

Idle == [op |-> "idle", token |-> None, method |-> None, trust |-> FALSE,
         secret |-> 0, last |-> 0, step |-> 0, item |-> None, todo |-> {},
         force |-> FALSE, seen |-> {}]

TypeOK ==
    /\ now \in 0..MaxTime
    /\ device \in Device
    /\ recovery \in [Rid -> {"unborn", "unused", "used", "deleted"}]
    /\ verified \in SUBSET Contact
    /\ trusted \in [Did -> Trusted]
    /\ challenge \in [Cid -> {"unborn", "two_factor", "other", "spent"}]
    /\ pending \in [Pid -> Pending]
    /\ job \in [Worker -> Job]
    /\ recorded \in SUBSET (Secret \X Nat)
    /\ proved \in SUBSET Secret /\ raced \in SUBSET Secret
    /\ uses \in [Rid -> Nat] /\ before \in [Rid -> SUBSET Rid]

Init ==
    /\ now = 0
    /\ device = [secret |-> 0, confirmed |-> FALSE, disabled |-> FALSE, last |-> 0]
    /\ recovery = [r \in Rid |-> "unborn"]
    /\ verified \in SUBSET Contact
    /\ trusted = [d \in Did |-> [state |-> "unused", expiresAt |-> 0]]
    /\ challenge = [c \in Cid |-> "unborn"]
    /\ pending = [t \in Pid |-> [primary |-> None, exp |-> 0,
                                 consumedUntil |-> 0, granted |-> FALSE]]
    /\ job = [w \in Worker |-> Idle]
    /\ recorded = {} /\ proved = {} /\ raced = {}
    /\ uses = [r \in Rid |-> 0] /\ before = [r \in Rid |-> {}]

-----------------------------------------------------------------------------
Live == device.secret # 0 /\ device.confirmed /\ ~device.disabled
Unused == {r \in Rid : recovery[r] = "unused"}
Unrevoked == {d \in Did : trusted[d].state = "live"}
Issued(t) == pending[t].primary # None

(* The time step of now.  The clock starts late enough for no step of the  *)
(* drift window to be negative.                                            *)
Step == now \div Interval + Window + 1

Enrolled(m) == CASE m = "totp" -> Live
                 [] m = "recovery_code" -> Unused # {}
                 [] OTHER -> ChannelOf(m) \in verified

(* eligible_methods: recovery codes come last, and never alone.            *)
Eligible(primary) ==
    LET enrolled == {m \in Allowed \ {"recovery_code"} : Enrolled(m)}
        others == {m \in enrolled :
                     DifferentChannel => ChannelOf(m) # ChannelOf(primary)}
    IN  others \cup {m \in Allowed \cap {"recovery_code"} :
                       others # {} /\ Enrolled(m)}

Start(w, j) == job[w] = Idle /\ job' = [job EXCEPT ![w] = j]
Continue(w, j) == job' = [job EXCEPT ![w] = j]
Finish(w) == job' = [job EXCEPT ![w] = Idle]

-----------------------------------------------------------------------------
(* login_response: a trusted device's cookie skips the second factor; it   *)
(* is read here, and its last_used_at saved before the tokens are issued.  *)
SkipLogin(w, d) ==
    /\ TrustedEnabled
    /\ trusted[d].state = "live" /\ now < trusted[d].expiresAt
    /\ Start(w, [Idle EXCEPT !.op = "skip", !.item = d])
    /\ UNCHANGED <<now, device, recovery, verified, trusted, challenge, pending, history>>

MutTouched(d) == [trusted[d] EXCEPT !.state = "live"]
Touched(d) == trusted[d]

SkipDone(w) ==
    LET d == job[w].item
    IN  /\ job[w].op = "skip" /\ trusted[d].state # "deleted"
        /\ trusted' = [trusted EXCEPT ![d] = Touched(d)]
        /\ Finish(w)
        /\ UNCHANGED <<now, device, recovery, verified, challenge, pending, history>>

(* Otherwise the user is handed a pending token, unless POLICY is "off" or *)
(* nothing is eligible: what happens then changes nothing here (Policy).   *)
Login(t, primary) ==
    /\ ~Issued(t) /\ Eligible(primary) # {}
    /\ pending' = [pending EXCEPT ![t].primary = primary,
                     ![t].exp = (now \div Second + PendingTtl) * Second]
    /\ UNCHANGED <<now, device, recovery, verified, trusted, challenge, job, history>>

(* /2fa/otp/request/, and the other endpoints that send such a challenge.  *)
OtpRequest(t, m, c) ==
    /\ Issued(t) /\ now < pending[t].exp
    /\ m \in Eligible(pending[t].primary) \cap {"email_otp", "phone_otp"}
    /\ challenge[c] = "unborn"
    /\ challenge' = [challenge EXCEPT ![c] = "two_factor"]
    /\ UNCHANGED <<now, device, recovery, verified, trusted, pending, job, history>>

OtherRequest(c) ==
    /\ challenge[c] = "unborn" /\ Contact # {}
    /\ challenge' = [challenge EXCEPT ![c] = "other"]
    /\ UNCHANGED <<now, device, recovery, verified, trusted, pending, job, history>>

-----------------------------------------------------------------------------
(* verify_second_factor: the pending token resolves, it has no consumed    *)
(* entry, and the method is eligible for the login it was issued for.      *)
Consumed(t) == now < pending[t].consumedUntil

Verify(w, t, m, trust) ==
    /\ Issued(t) /\ now < pending[t].exp
    /\ ~Consumed(t)
    /\ m \in Eligible(pending[t].primary)
    /\ Start(w, [Idle EXCEPT !.op = "checked", !.token = t, !.method = m,
                             !.trust = trust])
    /\ UNCHANGED <<now, device, recovery, verified, trusted, challenge, pending, history>>

(* _totp_matched_step: the steps a code can match for a row read with this *)
(* last_used_step.                                                         *)
MutMatched(last) == {k \in Step - Window .. Step + Window : k >= last}
Matched(last) == {k \in Step - Window .. Step + Window : k > last}

MatchTotp(w) ==
    /\ job[w].op = "checked" /\ job[w].method = "totp"
    /\ Live
    /\ \E k \in Matched(device.last) :
          Continue(w, [job[w] EXCEPT !.op = "matched", !.secret = device.secret,
                                     !.last = device.last, !.step = k])
    /\ UNCHANGED <<now, device, recovery, verified, trusted, challenge, pending, history>>

MatchRecovery(w) ==
    /\ job[w].op = "checked" /\ job[w].method = "recovery_code"
    /\ \E r \in Unused :
          Continue(w, [job[w] EXCEPT !.op = "matched", !.item = r])
    /\ UNCHANGED <<now, device, recovery, verified, trusted, challenge, pending, history>>

(* OtpService.verify spends the challenge; its purpose is looked at after. *)
MatchOtp(w) ==
    /\ job[w].op = "checked" /\ job[w].method \in {"email_otp", "phone_otp"}
    /\ \E c \in Cid :
          /\ challenge[c] \in {"two_factor", "other"}
          /\ challenge' = [challenge EXCEPT ![c] = "spent"]
          /\ IF challenge[c] = "two_factor"
             THEN Continue(w, [job[w] EXCEPT !.op = "used"])
             ELSE Finish(w)
    /\ UNCHANGED <<now, device, recovery, verified, trusted, pending, history>>

(* The save of last_used_step, and of used_at.                             *)
MutAfterUse(j) == [device EXCEPT !.last = j.step, !.disabled = FALSE]
AfterUse(j) == [device EXCEPT !.last = j.step]

Stale(j) == j.secret # device.secret \/ j.last # device.last
Record(j) ==
    /\ recorded' = recorded \cup {<<j.secret, j.step>>}
    /\ raced' = IF Stale(j) THEN raced \cup {device.secret} ELSE raced

UseTotp(w) ==
    LET j == job[w]
    IN  /\ j.op = "matched" /\ j.method = "totp"
        /\ device' = AfterUse(j)
        /\ Record(j)
        /\ Continue(w, [j EXCEPT !.op = "used"])
        /\ UNCHANGED <<now, recovery, verified, trusted, challenge, pending,
                       proved, uses, before>>

MutUsed(r) == [recovery EXCEPT ![r] = "unused"]
Used(r) == [recovery EXCEPT ![r] = "used"]

UseRecovery(w) ==
    LET r == job[w].item
    IN  /\ job[w].op = "matched" /\ job[w].method = "recovery_code"
        /\ recovery[r] # "deleted"
        /\ recovery' = Used(r)
        /\ uses' = [uses EXCEPT ![r] = @ + 1]
        /\ Continue(w, [job[w] EXCEPT !.op = "used"])
        /\ UNCHANGED <<now, device, verified, trusted, challenge, pending,
                       totpHistory, before>>

(* The consumed entry, the trusted device and the token pair, in one step: *)
(* nothing here reads one of them where the others would matter.           *)
MutRemaining(t) == 1
Remaining(t) ==
    IF pending[t].exp - now < Second THEN 1 ELSE (pending[t].exp - now) \div Second

Grant(w) ==
    LET t == job[w].token
    IN  /\ job[w].op = "used"
        /\ pending' = [pending EXCEPT ![t].granted = TRUE,
                         ![t].consumedUntil = now + Remaining(t) * Second]
        /\ IF job[w].trust
           THEN \E d \in Did :
                   /\ trusted[d].state = "unused"
                   /\ trusted' = [trusted EXCEPT ![d] =
                          [state |-> "live", expiresAt |-> now + TrustedTtl]]
           ELSE trusted' = trusted
        /\ Finish(w)
        /\ UNCHANGED <<now, device, recovery, verified, challenge, history>>

-----------------------------------------------------------------------------
(* enroll_totp replaces whatever row there is.                             *)
MutNewDevice == [device EXCEPT !.secret = @ + 1, !.disabled = FALSE, !.last = 0]
NewDevice == [secret |-> device.secret + 1, confirmed |-> FALSE,
              disabled |-> FALSE, last |-> 0]

EnrollTotp ==
    /\ device.secret < MaxSecret
    /\ device' = NewDevice
    /\ UNCHANGED <<now, recovery, verified, trusted, challenge, pending, job, history>>

(* confirm_totp reads the row and matches the code, then saves.            *)
ConfirmTotp(w) ==
    /\ device.secret # 0 /\ ~device.confirmed
    /\ \E k \in Matched(device.last) :
          Start(w, [Idle EXCEPT !.op = "confirm", !.secret = device.secret,
                                !.last = device.last, !.step = k])
    /\ proved' = proved \cup {device.secret}
    /\ UNCHANGED <<now, device, recovery, verified, trusted, challenge, pending,
                   recorded, raced, uses, before>>

AfterConfirm(j) == [device EXCEPT !.confirmed = TRUE, !.last = j.step]

SaveConfirm(w) ==
    LET j == job[w]
    IN  /\ j.op = "confirm"
        /\ device' = AfterConfirm(j)
        /\ Record(j)
        /\ Finish(w)
        /\ UNCHANGED <<now, recovery, verified, trusted, challenge, pending,
                       proved, uses, before>>

(* disable, one statement for each method; the password was checked.       *)
MutDeleteUnused == recovery
DeleteUnused == [r \in Rid |-> IF recovery[r] = "unused" THEN "deleted"
                               ELSE recovery[r]]

DisableTotp ==
    /\ Live
    /\ device' = [device EXCEPT !.disabled = TRUE]
    /\ UNCHANGED <<now, recovery, verified, trusted, challenge, pending, job, history>>

DisableRecovery ==
    /\ Unused # {}
    /\ recovery' = DeleteUnused
    /\ UNCHANGED <<now, device, verified, trusted, challenge, pending, job, history>>

DisableContact(c) ==
    /\ c \in verified
    /\ verified' = verified \ {c}
    /\ UNCHANGED <<now, device, recovery, trusted, challenge, pending, job, history>>

(* VerificationService.confirm, when it creates the row.                   *)
VerifyContact(c) ==
    /\ c \in Contact \ verified
    /\ verified' = verified \cup {c}
    /\ UNCHANGED <<now, device, recovery, trusted, challenge, pending, job, history>>

(* generate_recovery_codes: the DELETE, and later the INSERT of a batch.   *)
Regenerate(w) ==
    /\ recovery' = DeleteUnused
    /\ Start(w, [Idle EXCEPT !.op = "regenerate",
                             !.seen = {r \in Rid : recovery[r] # "unborn"}])
    /\ UNCHANGED <<now, device, verified, trusted, challenge, pending, history>>

InsertCodes(w) ==
    /\ job[w].op = "regenerate"
    /\ \E new \in SUBSET {r \in Rid : recovery[r] = "unborn"} :
          /\ Cardinality(new) = Batch
          /\ recovery' = [r \in Rid |-> IF r \in new THEN "unused" ELSE recovery[r]]
          /\ before' = [r \in Rid |-> IF r \in new THEN job[w].seen ELSE before[r]]
    /\ Finish(w)
    /\ UNCHANGED <<now, device, verified, trusted, challenge, pending,
                   totpHistory, uses>>

-----------------------------------------------------------------------------
(* admin_force_disable: the device, the codes, the list of trusted devices *)
(* and their revocation, one after the other.                              *)
ForceDisable(w) ==
    /\ device' = IF Live THEN [device EXCEPT !.disabled = TRUE] ELSE device
    /\ Start(w, [Idle EXCEPT !.op = "forceCodes", !.force = TRUE,
                   !.secret = IF Live THEN device.secret ELSE 0,
                   !.seen = Unused \cup Unrevoked])
    /\ UNCHANGED <<now, recovery, verified, trusted, challenge, pending, history>>

ForceCodes(w) ==
    /\ job[w].op = "forceCodes"
    /\ recovery' = DeleteUnused
    /\ Continue(w, [job[w] EXCEPT !.op = "forceList"])
    /\ UNCHANGED <<now, device, verified, trusted, challenge, pending, history>>

MutListed == {d \in Unrevoked :
                \A e \in Unrevoked : trusted[d].expiresAt <= trusted[e].expiresAt}
Listed == Unrevoked

ForceList(w) ==
    /\ job[w].op = "forceList"
    /\ Continue(w, [job[w] EXCEPT !.op = "revoke", !.todo = Listed])
    /\ UNCHANGED <<now, device, recovery, verified, trusted, challenge, pending, history>>

(* revoke_trusted_device, for one device or for those of the list.         *)
Revoke(w, d) ==
    /\ trusted[d].state = "live"
    /\ Start(w, [Idle EXCEPT !.op = "revoke", !.todo = {d}])
    /\ UNCHANGED <<now, device, recovery, verified, trusted, challenge, pending, history>>

RevokeNext(w) ==
    /\ job[w].op = "revoke"
    /\ \E d \in job[w].todo :
          /\ trusted[d].state # "deleted"
          /\ trusted' = [trusted EXCEPT ![d].state = "revoked"]
          /\ Continue(w, [job[w] EXCEPT !.todo = @ \ {d}])
    /\ UNCHANGED <<now, device, recovery, verified, challenge, pending, history>>

RevokeDone(w) ==
    /\ job[w].op = "revoke" /\ job[w].todo = {}
    /\ Finish(w)
    /\ UNCHANGED <<now, device, recovery, verified, trusted, challenge, pending, history>>

(* The purge of trusted devices: list, then delete by primary key.         *)
PurgeList(w) ==
    /\ Start(w, [Idle EXCEPT !.op = "purge",
                   !.todo = {d \in Did : /\ trusted[d].state \in {"live", "revoked"}
                                         /\ trusted[d].expiresAt < now - Grace}])
    /\ UNCHANGED <<now, device, recovery, verified, trusted, challenge, pending, history>>

PurgeNext(w) ==
    /\ job[w].op = "purge"
    /\ \E d \in job[w].todo :
          /\ trusted' = [trusted EXCEPT ![d].state = "deleted"]
          /\ Continue(w, [job[w] EXCEPT !.todo = @ \ {d}])
    /\ UNCHANGED <<now, device, recovery, verified, challenge, pending, history>>

PurgeDone(w) ==
    /\ job[w].op = "purge" /\ job[w].todo = {}
    /\ Finish(w)
    /\ UNCHANGED <<now, device, recovery, verified, trusted, challenge, pending, history>>

Abort(w) ==
    /\ job[w] # Idle
    /\ Finish(w)
    /\ UNCHANGED <<now, device, recovery, verified, trusted, challenge, pending, history>>

Tick ==
    /\ now < MaxTime
    /\ now' = now + 1
    /\ UNCHANGED <<device, recovery, verified, trusted, challenge, pending, job, history>>

SecondFactor(w) ==
    \/ MatchTotp(w) \/ MatchRecovery(w) \/ MatchOtp(w)
    \/ UseTotp(w) \/ UseRecovery(w) \/ Grant(w)

Manage(w) ==
    \/ ConfirmTotp(w) \/ SaveConfirm(w) \/ Regenerate(w) \/ InsertCodes(w)
    \/ ForceDisable(w) \/ ForceCodes(w) \/ ForceList(w)

Devices(w) ==
    \/ SkipDone(w) \/ RevokeNext(w) \/ RevokeDone(w)
    \/ PurgeList(w) \/ PurgeNext(w) \/ PurgeDone(w)

Next ==
    \/ \E w \in Worker, d \in Did : SkipLogin(w, d) \/ Revoke(w, d)
    \/ \E t \in Pid, p \in Primary : Login(t, p)
    \/ \E t \in Pid, m \in Method, c \in Cid : OtpRequest(t, m, c)
    \/ \E c \in Cid : OtherRequest(c)
    \/ \E w \in Worker, t \in Pid, m \in Method, trust \in {FALSE, TrustedEnabled} :
          Verify(w, t, m, trust)
    \/ \E w \in Worker : SecondFactor(w) \/ Manage(w) \/ Devices(w) \/ Abort(w)
    \/ EnrollTotp \/ DisableTotp \/ DisableRecovery
    \/ \E c \in Contact : DisableContact(c) \/ VerifyContact(c)
    \/ Tick

Spec == Init /\ [][Next]_vars

-----------------------------------------------------------------------------
(* Properties.                                                             *)

(* A TOTP step that was recorded as used, or an earlier one, is accepted   *)
(* again only for a secret whose row some save has overwritten after it    *)
(* changed under the saver (_totp_matched_step, confirm_totp,              *)
(* verify_second_factor).                                                  *)
AcceptsAgain(w, r) ==
    /\ job'[w] # job[w] /\ job'[w].op \in {"matched", "confirm"}
    /\ job'[w].secret = r[1] /\ job'[w].step <= r[2]
ReplaysOnlyRaced ==
    [][\A w \in Worker, r \in recorded :
          AcceptsAgain(w, r) => r[1] \in raced]_vars

(* A confirmed device was confirmed with a code of its own secret, unless  *)
(* the confirmation of an earlier one landed on it (enroll, confirm).      *)
ConfirmedProved == device.confirmed => device.secret \in proved \cup raced

(* What a user or an administrator has switched off stays off, whatever    *)
(* handler had read it before: only a new enrolment clears a disabled      *)
(* device, and a used or deleted code and a revoked device never return.   *)
RetiredStaysRetired ==
    [][ /\ (device.disabled /\ device'.secret = device.secret) => device'.disabled
        /\ \A r \in Rid : recovery[r] \in {"used", "deleted"} => recovery'[r] # "unused"
        /\ \A d \in Did : trusted[d].state \in {"revoked", "deleted"}
                             => trusted'[d].state \in {"revoked", "deleted"} ]_vars

(* When admin_force_disable returns, the TOTP device, the recovery codes   *)
(* and the trusted devices that were in force when it began no longer are, *)
(* whatever verifications, confirmations and logins that had read their    *)
(* rows save meanwhile.  It leaves verified contacts alone, on purpose     *)
(* (its docstring), and what comes into force while it runs may stay: a    *)
(* device confirmed, codes inserted, and a trusted device created after    *)
(* the others were listed.                                                 *)
ForceDisableClears ==
    [][\A w \in Worker :
          (RevokeDone(w) /\ job[w].force) =>
              /\ ~(Live /\ device.secret = job[w].secret)
              /\ job[w].seen \cap (Unused \cup Unrevoked) = {}]_vars

(* A recovery code opens more than one session only for verifications that *)
(* had all read it before the first marked it used.                        *)
Holders(r) == {w \in Worker : job[w].op = "matched" /\ job[w].item = r}
RecoveryBounded ==
    \A r \in Rid :
        IF recovery[r] \in {"unborn", "unused"} THEN uses[r] = 0
        ELSE uses[r] + Cardinality(Holders(r)) <= Cardinality(Worker)

(* Unused codes of two batches are there together only when the two        *)
(* regenerations overlapped (generate_recovery_codes).                     *)
OnlyOverlappingBatches ==
    \A r, q \in Unused : q \notin before[r]

(* A pending token is taken again, once a verification with it has         *)
(* succeeded, only in the last second before its exp: the consumed entry   *)
(* lives for whole seconds.                                                *)
ReplaysOnlyLastSecond ==
    [][\A w \in Worker :
          (job[w].op = "idle" /\ job'[w].op = "checked" /\ pending[job'[w].token].granted)
              => pending[job'[w].token].exp - now < Second]_vars

-----------------------------------------------------------------------------
(* The inductive invariant.  A job that has matched a TOTP code knows the  *)
(* secret it read and a later step than the row had.                       *)
MatchedTotp(w) == job[w].op = "matched" /\ job[w].method = "totp"
JobsMatched ==
    \A w \in Worker :
        /\ job[w].op = "checked" => job[w].secret = 0 /\ job[w].item = None
        /\ MatchedTotp(w) \/ job[w].op = "confirm"
              => job[w].secret \in 1..device.secret /\ job[w].step > job[w].last
        /\ job[w].op = "matched" /\ job[w].method # "totp"
              => job[w].method = "recovery_code" /\ job[w].item \in Rid
        /\ job[w].op = "confirm" => job[w].secret \in proved

(* Every step recorded for the secret of the row is behind its             *)
(* last_used_step, unless a save has raced another one there.              *)
RecordedBehind ==
    \A r \in recorded :
        /\ r[1] <= device.secret
        /\ (r[1] = device.secret /\ r[1] \notin raced) => r[2] <= device.last

(* No worker holds a code that was never issued.                           *)
UnbornUnheld == \A r \in Rid : recovery[r] = "unborn" => Holders(r) = {}

(* What a regeneration, or a code's, found there is spent or deleted.      *)
Spent == {r \in Rid : recovery[r] \in {"used", "deleted"}}
OlderSpent ==
    /\ \A r \in Rid : before[r] \subseteq Spent
    /\ \A w \in Worker : job[w].op = "regenerate" => job[w].seen \subseteq Spent

(* How far a forced disable has come with what it found.                   *)
ForceProgress ==
    \A w \in Worker : (job[w].force /\ job[w].op # "idle") =>
        /\ job[w].op \in {"forceCodes", "forceList", "revoke"}
        /\ (job[w].secret # 0 /\ job[w].secret = device.secret) => device.disabled
        /\ job[w].secret <= device.secret
        /\ \A r \in job[w].seen \cap Rid : recovery[r] # "unborn"
        /\ \A d \in job[w].seen \cap Did : trusted[d].state # "unused"
        /\ job[w].op # "forceCodes" => job[w].seen \cap Unused = {}
        /\ job[w].op = "revoke" => job[w].seen \cap Unrevoked \subseteq job[w].todo

(* A verification under way has an issued token, and only an issued token  *)
(* has been granted.                                                       *)
Verifying(w) == job[w].op \in {"checked", "matched", "used"}
VerifyingIssued ==
    \A w \in Worker :
        Verifying(w) => job[w].token \in Pid /\ Issued(job[w].token)

GrantedConsumed ==
    \A t \in Pid : pending[t].granted =>
        Issued(t) /\ pending[t].exp - pending[t].consumedUntil < Second

(* Listed devices are rows.                                                *)
ListedRows ==
    \A w \in Worker : \A d \in job[w].todo : trusted[d].state # "unused"

IInv == /\ TypeOK /\ JobsMatched /\ RecordedBehind /\ ConfirmedProved
        /\ UnbornUnheld /\ RecoveryBounded /\ OlderSpent
        /\ ForceProgress /\ VerifyingIssued /\ GrantedConsumed
        /\ ListedRows

=============================================================================
