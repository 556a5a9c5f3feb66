# django-jwt-multiauth: TLA+ models, model checking and proofs

This directory specifies the stateful parts of `jwt_multiauth` (the Django
package under `src/backend/src/jwt_multiauth/`, called *backend* below) and of
its browser client (`src/frontend/src/`). The modules are translated from the
code; `PROJECT.json` maps every definition that models code to its lines.

Contents: [inventory](#1-inventory), [modules](#2-modules-and-how-they-correspond-to-the-code),
[runs](#3-what-the-runs-check), [proofs](#4-what-is-proved),
[disagreements](#5-where-the-code-and-its-documentation-disagree),
[not modelled](#6-not-modelled), [plan](#7-plan).

## 1. Inventory

| component | state | operations | code |
|---|---|---|---|
| **TokenService** | `AuthSession` rows: current jti, expiry, revocation | issue a pair, rotate (with reuse detection), revoke one, revoke all, delete, purge | `services.py:173-348`, `models.py:129-189`, `tasks.py:66-107`, `views_token.py`, `views_session.py`, `admin.py`, `admin_views.py` |
| **PasswordService** | the user's password hash | authenticate, change, request and confirm a reset, shared tail `_finish_password_reset_or_change` | `services.py:823-967`, `views_password.py` |
| **OtpService, UserProvisioningService** | `OtpChallenge` rows: hash, attempts, resends, expiry, consumption; the user table | request, verify (which may create the account), resend, purge | `services.py:457-820`, `models.py:52-126` |
| **TwoFactorService** | `TwoFactorDevice`, `RecoveryCode`, `TrustedDevice` rows, consumed pending tokens in the cache | enrol, confirm, disable, force-disable, regenerate, verify a second factor, revoke and purge trusted devices | `services.py:1242-1772`, `views_twofactor.py`, `tasks.py:124-132` |
| **Login response** | none of its own | which logins need a second factor, skip on a trusted device, cookies | `login_flow.py` |
| **LockoutService** | failure counters, locks and namespace versions in the cache, `LoginAttempt` rows | is locked, record, unlock, purge | `services.py:969-1156`, `views_password.py:86-137` |
| **VerificationService** | `VerifiedContact` rows | request, confirm | `services.py:1165-1227` |
| **Browser client** | the access token of a tab, the in-flight refresh, a broadcast channel, the refresh cookie | attach a header, refresh, retry after 401, log in, log out | `authStore.ts`, `refresh.ts`, `withAuthRetry.ts`, `authHeaderSource.ts`, `hooks/` |
| Pure algorithms | none | resolve OTP settings, eligible methods, TOTP step | `conf.py`, `otp.py`, `services.py:1267-1377` |
| HTTP surface, crypto, admin site, checks, schema | none of their own | validation, throttling, signatures, presentation | `views_*.py`, `serializers.py`, `keys.py`, `checks.py`, ... |

**Interactions.** Everything meets in the database and the cache. Views call the
services directly. `PasswordService` calls `TokenService.revoke_all_sessions`
and, for a reset, `OtpService`. `login_response` asks `TwoFactorService` whether
a second factor is due and calls `TokenService`; `verify_second_factor` may call
`OtpService.verify` and ends in `TokenService.issue_token_pair`. Four features
(login, reset, contact verification, second factor) share `OtpService` and tell
their codes apart by `purpose`. Services send Django signals to receivers of the
host application, some inside a transaction (`session_revoked` from
`rotate_refresh`) and some after it (`password_changed`). Celery tasks purge the
tables next to running requests. Browser tabs share one refresh cookie and tell
each other "logged-out" and "token-refreshed".

**What is hard.** There are no threads inside a request, but every pair of
requests, and every request and task, interleave between statements:

- only some read-modify-write sequences hold a row lock
  (`rotate_refresh`, `revoke_session`, `resend`, the second half of `verify`);
  others read first and lock later (`verify` and its expected hash), or never
  (password change, everything in `TwoFactorService`, the lockout cache);
- bulk operations list keys in one transaction and act on them in later ones
  (`revoke_all_sessions`, `admin_force_disable`, the purge tasks);
- a code is spent before its caller looks at what it was for;
- a `transaction.atomic` block inside another is a savepoint: a receiver that
  raises undoes more than its caller expects;
- a worker may die between two statements; requests and responses get lost;
- time passes between reading an expiry and relying on it, and cache timeouts
  are whole seconds;
- access tokens are checked by their claims only, so they outlive their session;
- two tabs each believe that their refresh is the only one.

**What makes each component correct.** *Sessions*: a refresh token is exchanged
at most once; reuse ends the session; a revocation is final; revoke-all misses
nothing it listed; no token outlives the session, or the session's end by more
than an access lifetime. *Passwords*: a session opened under an older password
is dead when the new one is announced, and they all die. *One-time codes*: one
budget of guesses per challenge whatever is resent, at most one success, one
open challenge per user and purpose; a code does the work of its own purpose and
account only. *Two factors*: no login degrades to one factor but on a trusted
device; the factors come over two channels; a TOTP step, a recovery code and a
pending token work once; a forced disable leaves no TOTP device, recovery code
or trusted device of before in force. *Lockout*: the guesses against one counter
are bounded, an unlock forgets old failures. *Client*: a browser is never taken
for a thief without cause, a logout reaches every tab, every call ends.

`PROJECT.json` lists the hazards behind these, each at its line with the
properties aimed at it.

## 2. Modules and how they correspond to the code

| module | contents |
|---|---|
| `TokenFamily` | abstract: a login is a family of token generations, each redeemed in order, until the family is closed for good |
| `Sessions` | the `AuthSession` table and everything that writes it |
| `PasswordSessions` | `EXTENDS Sessions`: login, change and reset as flows of the same workers |
| `OneTimeCode` | abstract: a challenge has a budget of guesses nothing refills and is redeemed at most once |
| `Otp` | the `OtpChallenge` table, provisioning and the purge |
| `TwoFactor` | one account's second factors, pending tokens and trusted devices, handlers interleaved |
| `Accounts` | several accounts, every caller of `OtpService`, every setting of the login policy, handlers atomic |
| `Lockout` | the lockout cache and the password login around it |
| `Client` | tabs, calls and the refresh cookie, over `TokenFamily` as the server |
| `SessionsProofs`, `PasswordProofs`, `OtpProofs`, `LockoutProofs`, `GuessesProofs`, `AccountsProofs`, `ClientProofs`, `TwoFactorProofs` | the theorems of section 4 |
| `MCSessions`, `MCPasswordSessions`, `MCOtp`, `MCTwoFactor`, `MCAccounts`, `MCLockout`, `MCClient` | symmetry sets for TLC; the `.cfg` files give the constants |

The detailed modules meet in three ways. `PasswordSessions` extends `Sessions`
and is shown to implement it. `Client` uses the abstract server that `Sessions`
is shown to implement. `Accounts` and `TwoFactor` are two views of the second
factor: the former is about *which* code, account and channel and takes each
request as one step, the latter about *when* and takes one step per statement.

Conventions shared by all of them:

- A handler that holds the row lock for all of its work is one action. A
  handler that commits, or reads without a lock, in between is a **job** of a
  worker (`job[w]`), one action per statement that another request can see or
  change. Requests the code refuses without writing are stuttering steps.
  A handler under a lock reads the clock once (`rotate_refresh` reads it several
  times while it holds the row).
- Rows live in a function from identifiers to records with a `state`.
  Identifiers are uuid4 or fresh primary keys, so a deleted one is not used
  again (in `Accounts`, where only what is open matters, slots are).
- Secrets are numbers. The rotation count stands for `current_jti`; the number
  of resends stands for the code in force; secret *n* of a TOTP device is the
  *n*-th enrolled, and a code of it is a secret and a time step.
- `now` is one clock, in units of a setting's granularity; expiry comparisons
  keep the code's strictness (`expires_at <= now` is dead).
- History variables (named as such where they are declared) are read by no
  guard.

**Sessions.** `row` is the table, `refresh` and `access` all tokens minted so
far: any may be presented at any time, so replay, delay and loss of responses
need no actions of their own. `CreateSession` then `IssuePair` are
`issue_token_pair`, which inserts the row in one transaction and mints after it.
`Rotate` and `DetectReuse` are the two outcomes of `rotate_refresh` under its
lock; with `FaultyReceivers` the latter may also be rolled back.
`StartRevoking`/`RevokeNext` are the query and the loop of
`revoke_all_sessions` and are shared by logout-everywhere, the password tail and
the admin action. `PurgeList`/`PurgeNext` are `_purge_by_pks`. `Abort` is a
worker that dies.

**PasswordSessions.** `flow[w]` is the view a worker runs: `login` between
comparing the password and inserting the session (a second factor may lie in
between), `change`/`reset` between loading the user and saving, `saved`, and
`revoking` until `password_changed` is sent. `pwd[u]` is a generation number.

**Otp.** A request resolves its identifier and runs the `UPDATE` of
`SINGLE_ACTIVE_CHALLENGE` in `Request`, and inserts and commits in
`CommitRequest`. `Verify` is the unlocked read, which keeps the expected code;
`RejectDead`, `CountMiss`, `Accept` are the outcomes under the lock. A challenge
with `user=None` goes through `LookUp` and then `Attach` or `Provision`, with
the row lock held in between; the unique column that system check E003 demands
makes the second insert fail (`Collides`). `Resend` is one action. One channel
is modelled, since rows of different channels never meet.

**TwoFactor.** No handler of `TwoFactorService` locks a row, so nearly all are
jobs. A `save(update_fields=...)` writes the fields it names into whatever the
row has become, and raises when the row is gone. `Verify`, then `MatchTotp`/
`MatchRecovery`/`MatchOtp`, then `UseTotp`/`UseRecovery`, then `Grant` are the
statements of `verify_second_factor`; `Grant` writes the consumed entry, whose
timeout is the whole seconds that the token has left (`Remaining`), adds the
trusted device if asked to, and opens the session, in one step. `EnrollTotp` is
`update_or_create`; `ConfirmTotp` reads and `SaveConfirm` writes.
`Regenerate`/`InsertCodes` are the DELETE and the INSERT of
`generate_recovery_codes`. `ForceDisable`, `ForceCodes`, `ForceList`,
`RevokeNext`, `RevokeDone` are `admin_force_disable` statement by statement.
`SkipLogin`/`SkipDone` are a login on a trusted device, whose `last_used_at` is
saved after the row was read. One `Abort` is both a request that raises and a
worker that dies.

**Accounts.** `settings` is chosen once, from the sets the constants name.
`Redeem` is `OtpService.verify`: it spends the code and yields the user it was
for or creates one, and each caller (`LoginWithCode`, `ConfirmReset`,
`ConfirmContact`, `SecondWithCode`) then does its own check of the result
(`OfPurpose`, `Resets`, `VerifiedNow`, `Matches`), or refuses with the code
spent. `LoginResponse` is `login_response`, with `Eligible` the
different-channel rule. `SignUp` and `ChangeContact` belong to the host
application and are marked external. A challenge remembers under which login its
code was asked for (`for`, history), which the code's rows do not. `trusted` are
the accounts with a trusted device in force, which `LoginResponse` looks at
first (`Skips`), before `POLICY`: the browser may or may not have the cookie. A
second factor may add one, `Distrust` is the end of the last.

**Lockout.** A key is an identifier, an address and the version of the
identifier's namespace when the key was built; `Unlock` bumps the version. Every
operation on the cache is a step. `Login` builds the key that `is_locked` reads
in `IsLocked`. `Record` compares the password and inserts the row, `CountKey`
and `LockKey` build the two keys of a failure, one after the other, so that an
unlock can come before, between or after them. `Seed` is the counter's
`cache.add`, `Count` its `incr`, `Reseed` the `set` to 1 after an `incr` that
found the entry expired, `LockOut` the lock's `add`. A `set` does not look at
what has been counted since: `wiped` (history) counts those that overwrote an
entry in force. `Purge` deletes rows of `LoginAttempt`.

**Client.** A call of a tab is `header` (waiting for a refresh to get a token),
`ready`, `sent`, or `retry` (waiting for a refresh after its 401). `Join` is the
single flight of `refreshAccessToken`; `request[t]` is the refresh of tab `t`
and `request[c]` that of a call. The browser attaches the cookie when a request
leaves (`Present`) and stores the new one when the answer arrives (`Adopt`).
`Clear` is `clear()`, silent in a tab that holds no token. `Hear` is
`channel.onmessage`. The server is `TokenFamily`: `ServeRefresh` redeems,
detects reuse or refuses. A refresh the browser gives up (`LoseRefresh`) is one
the server has served or never serves; that the server serves it only later is
not an ordering of its own.

## 3. What the runs check

| run | instance | question and result |
|---|---|---|
| `sessions_one` | 1 session, 2 workers that may die, time 0..4, 2 rotations | single use (`NoDoubleSpend`), access and refresh lifetimes, what reuse ends, finality of a revocation, the purge, the inductive invariant; implements `TokenFamily` |
| `password_sessions` | 2 sessions, 2 workers that may die, 2 changes, time 0..1 | sessions opened under an older password are dead when the change is announced; whatever overtakes revoke-all between its two sessions, what it is past is dead (`RevokeAllComplete`); the composition implements `Sessions` |
| `password_live` | as above, 1 change, no deaths, the clock stopped so that nothing dies by expiring | under fairness all of them die, and so does all that revoke-all listed |
| `otp` | 2 challenges of one identifier, 2 workers, 1 resend, 2 attempts, time 0..2, no grace period | budget, overlap, finality, what the purge deletes; implements `OneTimeCode` |
| `two_factor_totp` | 2 enrolments, 2 workers, 1 pending token, half-second ticks, steps of 2 ticks, drift window 1, time 0..3 | which TOTP steps and pending tokens are accepted again, which secret a confirmed device holds, and that a disabled device stays disabled, by its owner or by force |
| `two_factor_rows` | 2 recovery codes, 2 trusted devices, 1 challenge, 1 pending token, 2 workers, time 0..2 | how often a recovery code works, which batches coexist, what a forced disable leaves, what never comes back |
| `lockout` | 1 identifier, 1 address, 2 workers, 2 attempts allowed, 4 failures per version, 1 unlock, windows and locks of 1, time 0..1 | guesses per counter and how often one is set back, failures per lock |
| `accounts` | 2 accounts, 1 address, 1 number, 1 challenge and 1 pending token at a time, `staff_only`, two sets of factors, trusted devices | no degrading but on a trusted device, codes keep purpose and account, verified contacts, resets, and how two factors can share a channel |
| `client` | 2 tabs with 1 call each, 2 sessions, 3 calls, losses | when a refresh is taken for reuse, what a logout leaves in other tabs, the inductive invariant |
| `client_live` | 1 tab with 2 calls at a time, 1 session, 3 calls, losses | every move takes a call closer to its end (`CallsAdvance`), and every call ends |
| `accounts_channel` | 1 account, 2 challenges, 2 pending tokens | counterexample, section 5 |
| `client_tabs` | 2 tabs, nothing lost, 4 calls | counterexample, section 5 |

*What the weaker-looking properties say.* Where the code does not lock, the
strong property is false, and the run checks what exactly it keeps:
`OnlyOverlappingCoexist` (two usable codes come only from overlapping requests),
`PurgesExpiredOrResent` (a live challenge is purged only if it was resent since
the purge listed it), `ReplaysOnlyRaced` (a TOTP step is accepted again only if
a save has overwritten a row that changed after it was read), `ConfirmedProved`
(likewise), `RecoveryBounded` (a recovery code opens at most one session per
verification that had read it in time), `OnlyOverlappingBatches`,
`ReplaysOnlyLastSecond` (a pending token works again only in the last second
before its `exp`, since the consumed entry lives for whole seconds),
`SameChannelOnlyBorrowed`, `ReuseOnlyOverlapped`. Each is a claim that a lock or
a constraint added to the code would make exact.

*Why the bounds are enough.* Each action touches one row, or the rows of one
user, and one other worker is enough for every interleaving the properties speak
of. Two sessions are needed for a loop over sessions to be overtaken, two
rotations for a token two generations old, two password changes for two
announcements out of order, two enrolments for a confirmation that lands on the
wrong secret, two recovery codes for two batches, two logins for a code to be
carried from one to the other (one after the other in `accounts`, where the slot
of a pending token is used again, at once in `accounts_channel`), two accounts
for a contact value that moves. One unlock separates two versions of a
namespace, and twice `MAX_ATTEMPTS` failures fill both. Three calls let a tab
log in, refresh and present what it has while the other logs out. The clocks run
past the expiry and the grace period of what is made first in their instance.
What an instance cannot show, the theorems cover for all values where there is
one. Interchangeable constants are symmetry sets in the safety runs; the
liveness runs use none. `CHECK_DEADLOCK FALSE` is set because the models do
stop: clocks, calls and identifiers are bounded.

Bounds: `MaxTime` (the clock), `MaxRotation` (rotations per session),
`MaxChange` (password changes), `MaxSecret` (enrolments), `MaxUnlocks`,
`MaxFailed` (failures per version), `MaxRows` (`LoginAttempt` rows at a time),
`MaxCalls` (calls of a browser), and the sizes of the identifier sets.
`MaxAttempts` and `MaxResends` are settings of the program, not bounds.

*Fairness.* `PFairSpec` assumes weak fairness of a worker's next statement in
the revocation loop and in the password tail: a request runs to its end unless
the worker is killed, which that run excludes by `MayAbort = FALSE` (the tail is
several transactions, so a killed worker does leave sessions alive). `FairSpec`
of `Client` assumes that a call that is ready departs, that the server answers
what reaches it and that callbacks run on what arrives; requests and answers may
still be lost, which the browser reports as an error. Users, administrators,
other sessions' ends and the clock owe nothing.

Every property of a passing run has a mutant in `PROJECT.json`: a definition of
the model changed the way a bug in the mapped lines would change it (`Mut...` in
the modules), under which TLC reports that property.

## 4. What is proved

TLAPS checks all of the following for every value of the constants that the
modules' `ASSUME`s allow (distinct null values, natural numbers where the
settings are counts or durations, finite sets of workers where they are
counted). Each theorem follows from an inductive invariant; `IInv` has the named
conjuncts that the safety properties are not inductive without.

**`SessionsProofs`.** Beside the type invariant and the safety properties:
nothing refers to a session id before its row is written (`OnlyWritten`;
otherwise a new row would inherit old tokens), every spent jti lies behind the
current one (`SpentBehind`, from which single use follows because jtis only
grow), access tokens of rotations end within one lifetime of now (`AccessNear`),
and what a purge listed has stayed purgeable (`PurgeListed`). From it:
`TypeCorrect`, `NoDoubleSpendHolds`, `AccessBoundedHolds`,
`RefreshWithinSessionHolds`, `RevokeAllCompleteHolds`, `RevocationIsFinalHolds`,
`PurgeOnlyExpiredHolds`, `ReuseEndsSessionHolds` (assuming receivers do not
raise), and `ImplementsFamilyHolds`: every step of `Sessions` is a step of
`TokenFamily` or leaves it unchanged. `RevokingAdvancesHolds` is the part of
`RevokeAllTerminates` that needs no fairness: the list of a worker that revokes
only gets shorter, by sessions that are revoked or gone.

**`PasswordProofs`.** `PIInv` adds to the `IInv` of `Sessions` that every row
and every flow has its user (`Owned`), that no flow and no announcement is ahead
of the password (`GenerationsBehind`), and that while a flow revokes, a live
session older than its password is still in its list (`StillToRevoke`). The
steps of `Sessions` are those lemmas of `SessionsProofs` again. From it:
`OlderSessionsDeadHolds`; `DueUntilDeadHolds`, the part of
`SavedPasswordEndsSessions` that needs no fairness (an older session is due to
be revoked until it is dead or the worker is killed); and
`ImplementsSessionsHolds`, which carries every theorem of `SessionsProofs` over
to the composition, as `SessionsKeptHolds` does for single use, access
lifetimes, bulk revocation, finality and the refinement of `TokenFamily`.

**`OtpProofs`.** `IInv` conjoins the type invariant (which bounds attempts and
resends), `RowsCounted` (guesses counted are attempts stored, an unconsumed row
has no success), `JobsSound` (a request will invalidate every rival it has seen
that is still open; a provisioning verify holds an open, unowned challenge with
guesses left), `LockExclusive` (one holder per row lock) and
`OnlyOverlappingCoexist`. The proof goes through `RowMove`, which lists the ways
a step can change one row, and `Forward`, what all of them keep. From it:
`TypeCorrect`, `BudgetHolds`, `OverlapHolds`, `ConsumedIsFinalHolds`,
`PurgesExpiredOrResentHolds`, `ImplementsOneTimeCodeHolds`.

**`LockoutProofs`.** `CountedOnce` is the heart: what a counter holds and what
is about to be added to it were all recorded as failures at its version. With
the keys that jobs carry (`KeysOfFailure`) and the locks that are set
(`LocksEarned`) it is inductive. From it: `TypeCorrect` and
`LockedByFailuresHolds`. Both hold whether or not a `set` overwrites a counter,
as it only loses counts.

**`GuessesProofs`.** That a counter admits boundedly many guesses cannot be seen
from the counter alone: requests that have passed `is_locked` have yet to be
counted, some of those counted have yet to set the lock, and a lock may end
under a counter that goes on. `WaveOf(k)` weighs the three for each key. Before
the lock, a counter holds the first guesses and one for each request about to
lock (`MayLock`). While a lock covers the counter to its end (`Covered`), or
after an unlock has superseded the key (`Superseded`), what it holds and the
requests that may still add to it (`MayGuess`) stay within the bound together.
Under a lock that ends before the counter, they are fewer than the workers, as
the request that set the lock is not among them. All of it comes on top of what
a `set` has forgotten (`Before`): a `set` that overwrites an entry in force lets
a whole counter's guesses through again, and `WipesFew` bounds how often, since
only requests that found the key without an entry can still do it, and the
request that made the entry is not one of them. The rest is `KeysAgree` (both
keys of an attempt are of its identifier and address, the lock's of the same
version or a later one, and `is_locked`'s of none to come), `LocksBehind` and
`CountersNear` (a counter ends within one window of now), which with `IInv` make
up `GInv` (`GuessesInvariant`). From it: `GuessesBoundedHolds`, for every number
of workers, identifiers and addresses, every scope, and `MAX_ATTEMPTS` above or
below the number of workers. It takes a lock that lasts at least as long as the
window, as the defaults do (`conf.py:92-93`); with a shorter one each lock that
ends under its counter admits another wave of requests, and this bound does not
hold.

**`AccountsProofs`.** A code for a second factor was sent on a channel that fits
the login it was asked for under (`BorrowedOnly`), challenges are for existing
accounts (`SentToAccounts`), and no two accounts share a contact value
(`ContactsUnique`). From it: `NoDegradingHolds` (one factor only in the request
that creates the account, on a device of the same account trusted and not
revoked since, or where policy and factors ask for no second),
`SameChannelOnlyBorrowedHolds`, `VerifiedByCodeHolds`, `CodesKeepPurposeHolds`,
`ResetNeedsAccountHolds`, for every policy, allowlist, provisioning and
identifier setting, which the run `accounts` fixes.

**`ClientProofs`.** Of a session that is not excused, at most one refresh is on
the wire (`OneOnWire`), and what the browser presents, is about to be answered
or stores is the generation the server would redeem (`PresentedFresh`,
`AnswersFresh`, `CookieFresh`); an answer belongs to the refresh that presented
its session or to the login that opened it (`AnswersOwn`); an unborn session is
spoken of nowhere, and a session whose logout was announced has ended and is
carried by no answer (`GoneEnded`). The proof restates this requester by
requester (`PointWire`, `Calls`) and has one lemma for each thing that can
happen to a request: it is sent, dropped, or answered. A last conjunct is about
calls: one that waits for a refresh waits for one that its tab has under way,
and one that was sent has its request or answer on the wire
(`NobodyWaitsInVain`). From it: `ReuseOnlyOverlappedHolds`, `TabsForgetHolds`,
`NobodyWaitsInVainHolds`, `ImplementsFamilyHolds` (the server of the tabs takes
the steps of `TokenFamily` only) and `CallsAdvanceHolds`, for any number of tabs
and calls, with and without loss. The last gives each call a measure of six
moves that everything that happens to it lowers. With `NobodyWaitsInVain` it is
the argument for `CallsEnd` but for fairness: a call that has not ended always
has something under way, and can move only so often.

**`TwoFactorProofs`.** Handlers that write what they read long before leave
little that is invariant, so `IInv` goes job by job (`JobFine`, `ForceFine`:
what each statement may rely on of what its predecessors read) and table by
table: `TotpFine` for the device, `CodesFine` for recovery codes and their
batches, `GrantedConsumed` for pending tokens, whose consumed entry lives to the
last second. `Forward` lists what no step undoes, `JobOrigin` where a job about
to write came from. From them: `ConfirmedProvedHolds`, `RecoveryBoundedHolds`,
`OnlyOverlappingBatchesHolds`, `RetiredStaysRetiredHolds`,
`ReplaysOnlyRacedHolds`, `ForceDisableClearsHolds`,
`ReplaysOnlyLastSecondHolds`.

Every safety property and action property that a passing run checks is proved.
Only model-checked: the liveness properties `CallsEnd`, `RevokeAllTerminates`
and `SavedPasswordEndsSessions` (fairness and ENABLED are outside what the
prover handles; `CallsAdvance`, `NobodyWaitsInVain`, `RevokingAdvances` and
`DueUntilDead` are what is proved towards them), and the disagreements. Before
it was proved, each inductive invariant was checked by TLC as an invariant of
the instances above (`GInv` also with one address as the scope, one attempt
allowed, and three workers), and so were `RevokingAdvances`, `DueUntilDead` and
the `ImplementsFamily` of `Client`.

## 5. Where the code and its documentation disagree

Two runs end with a counterexample; `PROJECT.json` quotes the lines.

- `accounts_channel`: with one login by e-mail code and one by phone code
  pending, the e-mail code asked for under the *phone* login passes as the
  second factor of the *e-mail* login, presented as `phone_otp`.
  `verify_second_factor` checks the challenge's purpose and user, but neither
  its channel nor the login it was asked for under, although the docstring calls
  it the enforcement point of the different-channel rule. It takes another login
  of the same user (`SameChannelOnlyBorrowed`, proved).
- `client_tabs`: the single flight of `refreshAccessToken` covers one tab. Two
  tabs that refresh at once present one cookie, and the second ends the session
  as reuse. Within a tab, and without loss, it cannot happen
  (`ReuseOnlyOverlapped`).

Other behaviour that the models exhibit and the code's comments or documents do
not lead one to expect; it is in the modules' actions, and the properties above
are stated around it:

- *Sessions.* `revoke_session` inside `rotate_refresh` is a savepoint, so a
  raising `session_revoked` receiver rolls the revocation back although
  `services.py:258-259` says it is part of raising (`FaultyReceivers`).
- *Passwords.* A login that proved the old password may insert its session after
  the revocation query, so the "every session already being dead" of
  `services.py:839-840` holds only of sessions inserted earlier.
- *One-time codes.* `verify` compares with the hash it read before the lock
  (`services.py:673`): after a concurrent resend the replaced code is accepted
  and the new one counted as a miss. Two overlapping requests leave two usable
  codes (`:601-602`). Challenges with `user=None` are never invalidated
  (`:602-604`). `resend` revives an expired challenge (`:145-147`), and the
  purge may delete it while it is live (`tasks.py:87-88`).
- *Two factors.* A TOTP step can be accepted twice by overlapping verifications
  (`:1268-1271` against the unlocked save at `:1719`), and a confirmation of the
  old secret can confirm the new one (`:1486`). A pending token is accepted
  again in the last second of its life.
- *Accounts.* A code presented at the wrong endpoint, or with a new password
  that `validate_password` refuses, is spent (`:951`). At the default
  configuration a reset whose preferred channel has no field raises
  `ImproperlyConfigured` (`:912-918`), which no system check reports. Check E007
  takes `USERNAME_FIELD` alone as filled by default (`checks.py:291`), against
  its docstring (275-278).
- *Lockout.* `docs/CONTRACT.md:947` calls `WINDOW_SECONDS` a rolling window; the
  code's begins with the counter's entry and is fixed, so failures on both sides
  of its end do not add up. The `set` after a failed `incr` (`:1069`) may
  overwrite a counter made meanwhile, which the comment above it does not
  consider, and the guesses counted there are forgotten (`GuessesBounded` allows
  fewer of these than there are workers). A lock in force is not extended
  (`:1077`). When the counter it outlived is followed by one that reaches
  `MAX_ATTEMPTS` under it, the lock ends first, and that counter admits the
  requests then under way before it locks (`GuessesBounded`, which therefore
  counts them). A login by one-time code has no lockout check;
  `docs/CONTRACT.md` (1564-1569) says so, while `is_locked`'s docstring says
  that it is asked before `OtpService.verify` at every call site (`:1087-1089`).
- *Client.* `useRefreshToken` sends its own refresh, past the single flight. A
  logout from a tab that holds an older session's token clears the browser's
  newer cookie. The late 401 of an old refresh clears a token the tab has got
  since. A wrong password at `/login/` with a live cookie is refreshed and
  retried, and counts as two failures. A lost answer of a refresh makes the next
  one reuse. The guide (line 1074) expects a password change to log the other
  tabs out; `usePasswordChange` clears nothing.

## 6. Not modelled

Abstracted everywhere: passwords, codes, jtis and hashes are numbers (two
different ones never collide, signatures hold); a row's descriptive columns (ip,
user agent, label, `last_used_at`) are left out; validation and throttling only
restrict who may call, so the actions leave the caller free. Deliveries (mail,
SMS) are signals to the host. Database isolation is READ COMMITTED with row
locks, as `select_for_update` assumes; cache operations are atomic one by one.

In particular modules: `Otp` keeps the account table as one counter per
identifier; `Accounts` takes each request as one step and has no expiry and no
attempts, and of trusted devices only which accounts have one; `TwoFactor` is
about one account and takes the challenge as spent once; `Lockout` leaves out
the cache's eviction of entries before their timeout; `Client` leaves out
`configure()` and subscribers of the store, and takes the server's answers as
certain once sent unless they are lost.

Not modelled at all, because they keep no state that a property could speak of:
cryptography and key settings; serializers, urls, throttles, permissions, the
middleware and discovery; admin presentation, management commands, system checks
and migrations (what the checks guarantee is assumed where it matters); the
resolution of nested settings and the generation of codes; hooks that only send
a request; the generated schema.

## 7. Plan

1. *Done*: `TokenFamily`, `Sessions`, `PasswordSessions`, `OneTimeCode`, `Otp`,
   `TwoFactor`, `Accounts`, `Lockout`, `Client`; proofs about all of them.
2. *Done*: proof of `GuessesBounded`, and the parts of the liveness properties
   that need no fairness.
3. A bound on the guesses for locks shorter than the window, by the number of
   locks that fit into one.
4. A composition of `Otp` and `PasswordSessions` for the life of a reset, so
   that a reset's challenge and its revocations are seen together.
5. `Algorithms`: the resolution of nested OTP settings and the TOTP step match
   as operators, against reference definitions.
