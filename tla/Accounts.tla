------------------------------ MODULE Accounts ------------------------------
(***************************************************************************)
(* Accounts and the one-time codes that open, verify, reset or create      *)
(* them.  OtpService is shared by four features, each with a purpose; its  *)
(* verify spends a code whatever the purpose, and may create an account,   *)
(* and only then does the caller look at what the code was for.  This      *)
(* module is about who may do what with which code, under any settings, as *)
(* the host changes contact values and users change their factors.  A      *)
(* request is one step: how requests overlap is the matter of Otp,         *)
(* TwoFactor and PasswordSessions, which also hold what is left out here,  *)
(* expiry, attempts and the rows of trusted devices.                       *)
(*                                                                         *)
(* A code is known to whoever reads the value it was sent to, and slots of *)
(* challenges and of pending tokens are used again once spent or expired.  *)
(***************************************************************************)
EXTENDS Integers, FiniteSets

CONSTANTS User, Staff,
          Email, Phone,       \* values of EMAIL_FIELD and of PHONE_FIELD
          Cid, Pid,           \* challenges, pending tokens at a time
          None,
          Policies,           \* the settings to choose from: POLICY,
          LoginCodes,         \* ALLOWED_AUTH_METHODS with a code,
          Provisioned,        \* AUTO_PROVISION_METHODS,
          SecondFactors,      \* TWO_FACTOR ALLOWED_METHODS,
          Differing,          \* REQUIRE_DIFFERENT_CHANNEL,
          Trusting,           \* TRUSTED_DEVICE ENABLED,
          Identifiers,        \* IDENTIFIER_FIELDS that hold a contact
          FirstReset          \* the head of RESET_CHANNEL_PREFERENCE

Channel == {"email", "phone"}
Method == {"email_otp", "phone_otp"}
MethodOf(ch) == IF ch = "email" THEN "email_otp" ELSE "phone_otp"
ChannelOf(m) == CASE m = "email_otp" -> "email"
                  [] m = "phone_otp" -> "phone"
                  [] OTHER -> m

ASSUME AccountsAssumption ==
    /\ None \notin User \cup Email \cup Phone \cup Pid \cup Channel
    /\ None \notin Method \cup {"password", "totp", "recovery_code", "trusted_device"}
    /\ Staff \subseteq User
    /\ Policies \subseteq {"off", "opt_in", "required", "staff_only"}
    /\ LoginCodes \subseteq SUBSET Method /\ Provisioned \subseteq SUBSET Method
    /\ SecondFactors \subseteq SUBSET (Method \cup {"totp", "recovery_code"})
    /\ Differing \subseteq BOOLEAN /\ Trusting \subseteq BOOLEAN
    /\ Identifiers \subseteq SUBSET Channel /\ FirstReset \subseteq Channel

VARIABLES settings,
          exists,             \* accounts
          contact,            \* their EMAIL_FIELD and PHONE_FIELD
          password,           \* accounts with a usable password
          verified,           \* VerifiedContact rows
          factors,            \* a live TOTP device, unused recovery codes
          trusted,            \* accounts with a TrustedDevice in force
          challenge,          \* open OtpChallenge rows
          pending,            \* pending tokens out
          session             \* history: the session the last step opened

vars == <<settings, exists, contact, password, verified, factors, trusted,
          challenge, pending, session>>

-----------------------------------------------------------------------------
Value == Email \cup Phone
ValueOf(ch) == IF ch = "email" THEN Email ELSE Phone
Purpose == {"login", "password_reset", "verify_contact", "two_factor"}
Primary == {"password"} \cup Method

Settings == [policy : Policies, loginCodes : LoginCodes,
             provisioned : Provisioned, seconds : SecondFactors,
             identifiers : Identifiers, different : Differing,
             trusting : Trusting, firstReset : FirstReset]
Challenge == [user : User \cup {None}, channel : Channel, sentTo : Value,
              purpose : Purpose,
              for : Primary \cup {None}]  \* history: the primary method of the
                                          \* login that asked for it, if any
Pending == [user : User, primary : Primary]

(* Who opened a session with what: the channel each factor really used, or *)
(* the trusted device that stood for the second.                           *)
Second == {None, "totp", "recovery_code", "trusted_device"} \cup Channel
Session == [user : User, first : {"password"} \cup Channel, second : Second,
            for : Primary \cup {None}, created : BOOLEAN]

TypeOK ==
    /\ settings \in Settings
    /\ exists \in SUBSET User /\ password \in SUBSET exists
    /\ contact \in [User -> [Channel -> Value \cup {None}]]
    /\ verified \in SUBSET (User \X Channel \X Value)
    /\ factors \in [User -> SUBSET {"totp", "recovery_code"}]
    /\ trusted \in SUBSET User
    /\ challenge \in [Cid -> Challenge \cup {None}]
    /\ pending \in [Pid -> Pending \cup {None}]
    /\ session \in Session \cup {None}

NoContact == [ch \in Channel |-> None]

Init ==
    /\ settings \in Settings
    /\ exists = {} /\ password = {} /\ verified = {} /\ trusted = {}
    /\ contact = [u \in User |-> NoContact]
    /\ factors = [u \in User |-> {}]
    /\ challenge = [c \in Cid |-> None] /\ pending = [t \in Pid |-> None]
    /\ session = None

facts == <<exists, contact, password, verified, factors, trusted>>

-----------------------------------------------------------------------------
Owner(ch, v) == {u \in exists : contact[u][ch] = v}

(* eligible_methods, for a login over the channel used.                    *)
Enrolled(u, m) == IF m \in Method
                  THEN <<u, ChannelOf(m), contact[u][ChannelOf(m)]>> \in verified
                  ELSE m \in factors[u]

MutEligible(u, used) == {m \in settings.seconds : Enrolled(u, m)}
Eligible(u, used) ==
    LET real == {m \in settings.seconds \ {"recovery_code"} :
                   Enrolled(u, m) /\ (settings.different => ChannelOf(m) # used)}
    IN  real \cup {m \in settings.seconds \cap {"recovery_code"} :
                     real # {} /\ Enrolled(u, m)}

(* OtpService.request: an identifier that is nobody's only gets a decoy,   *)
(* unless its method may create accounts; otherwise the user's other open  *)
(* challenges of the purpose and channel are consumed.                     *)
Sent(c, ch, v, purpose, for) ==
    \E u \in IF Owner(ch, v) # {} THEN Owner(ch, v) ELSE {None} :
        /\ u = None => MethodOf(ch) \in settings.provisioned
        /\ challenge[c] = None
        /\ challenge' = [d \in Cid |->
              IF d = c THEN [user |-> u, channel |-> ch, sentTo |-> v,
                             purpose |-> purpose, for |-> for]
              ELSE IF /\ challenge[d] # None /\ u # None
                      /\ challenge[d].user = u /\ challenge[d].purpose = purpose
                      /\ challenge[d].channel = ch
                   THEN None ELSE challenge[d]]
        /\ session' = None
        /\ UNCHANGED <<settings, facts, pending>>

RequestLogin(c, ch, v) ==
    /\ MethodOf(ch) \in settings.loginCodes
    /\ Sent(c, ch, v, "login", None)

(* request_reset: the account the identifier is of, here its username or a *)
(* contact value, gets the code on the first preferred channel it has a    *)
(* value for; an identifier that is nobody's goes to OtpService as typed.  *)
Other(ch) == IF ch = "email" THEN "phone" ELSE "email"
ResetChannel(u) == IF contact[u][settings.firstReset] # None
                   THEN settings.firstReset ELSE Other(settings.firstReset)

RequestReset(c, u) ==
    /\ u \in exists /\ contact[u] # NoContact
    /\ Sent(c, ResetChannel(u), contact[u][ResetChannel(u)], "password_reset", None)

RequestResetUnknown(c, v) ==
    /\ \A ch \in settings.identifiers : Owner(ch, v) = {}
    /\ v \in ValueOf(settings.firstReset)
    /\ Sent(c, settings.firstReset, v, "password_reset", None)

RequestContactVerification(c, u, ch) ==
    /\ u \in exists /\ contact[u][ch] # None
    /\ Sent(c, ch, contact[u][ch], "verify_contact", None)

RequestSecond(c, t, m) ==
    /\ pending[t] # None
    /\ m \in Eligible(pending[t].user, ChannelOf(pending[t].primary)) \cap Method
    /\ Sent(c, ChannelOf(m), contact[pending[t].user][ChannelOf(m)],
            "two_factor", pending[t].primary)

-----------------------------------------------------------------------------
(* OtpService.verify with the right code, and what it found: the user, and *)
(* whether UserProvisioningService has just created it.                    *)
Redeemed(c) ==
    LET d == challenge[c]
        owner == Owner(d.channel, d.sentTo)
    IN  IF d.user # None THEN {[user |-> d.user, created |-> FALSE]}
        ELSE IF owner # {} THEN [user : owner, created : {FALSE}]
        ELSE [user : User \ exists, created : {TRUE}]

Redeem(c, r) ==
    LET d == challenge[c]
    IN  /\ d # None /\ r \in Redeemed(c)
        /\ challenge' = [challenge EXCEPT ![c] = None]
        /\ exists' = exists \cup {r.user}
        /\ contact' = IF r.created
                      THEN [contact EXCEPT ![r.user][d.channel] = d.sentTo]
                      ELSE contact

(* The VerifiedContact row that verify itself adds for a code that was     *)
(* nobody's when it was sent.                                              *)
Proven(c, u) == IF challenge[c].user = None
                THEN verified \cup {<<u, challenge[c].channel, challenge[c].sentTo>>}
                ELSE verified

Open(u, first, second, for, created) ==
    session' = [user |-> u, first |-> first, second |-> second, for |-> for,
                created |-> created]

(* login_response: tokens at once for an account this request has created, *)
(* and on a browser that has the cookie of a trusted device of this user   *)
(* (any other cookie is ignored); else a pending token when something is   *)
(* eligible, tokens when nothing is and POLICY allows it, and otherwise an *)
(* error.  The primes: what verify has just written is there already.      *)
MutSkips(u) == settings.trusting /\ trusted # {}
Skips(u) == settings.trusting /\ u \in trusted

Required(u) == settings.policy = "required"
                  \/ (settings.policy = "staff_only" /\ u \in Staff)

LoginResponse(u, used, primary, created) ==
    \/ /\ ~created /\ Skips(u)
       /\ Open(u, used, "trusted_device", None, FALSE) /\ pending' = pending
    \/ /\ created \/ settings.policy = "off"
       /\ Open(u, used, None, None, created) /\ pending' = pending
    \/ /\ ~created /\ settings.policy # "off"
       /\ IF Eligible(u, used)' # {}
          THEN \E t \in Pid :
                  /\ pending[t] = None /\ session' = None
                  /\ pending' = [pending EXCEPT ![t] = [user |-> u, primary |-> primary]]
          ELSE /\ pending' = pending
               /\ IF Required(u) THEN session' = None
                  ELSE Open(u, used, None, None, FALSE)

LoginWithPassword(u) ==
    /\ u \in password
    /\ UNCHANGED <<settings, facts, challenge>>
    /\ LoginResponse(u, "password", "password", FALSE)

(* The four endpoints that take a code, and what a code of another purpose *)
(* leaves behind there.                                                    *)
OfPurpose(c, purpose) == challenge[c].purpose = purpose

LoginWithCode(c, r) ==
    \E ch \in Channel :
        /\ Redeem(c, r) /\ challenge[c].channel = ch
        /\ verified' = Proven(c, r.user)
        /\ UNCHANGED <<settings, password, factors, trusted>>
        /\ IF OfPurpose(c, "login")
           THEN LoginResponse(r.user, ch, MethodOf(ch), r.created)
           ELSE session' = None /\ pending' = pending

(* ... where validate_password may still refuse the new password.          *)
MutResets(c, r) == OfPurpose(c, "password_reset")
Resets(c, r) == OfPurpose(c, "password_reset") /\ ~r.created

ConfirmReset(c, r, accepted) ==
    /\ Redeem(c, r)
    /\ verified' = Proven(c, r.user)
    /\ password' = IF Resets(c, r) /\ accepted THEN password \cup {r.user}
                   ELSE password
    /\ session' = None
    /\ UNCHANGED <<settings, factors, trusted, pending>>

(* VerificationService.confirm, called by u.                               *)
MutVerifiedNow(c, u) == <<u, challenge[c].channel, contact[u][challenge[c].channel]>>
VerifiedNow(c, u) == <<u, challenge[c].channel, challenge[c].sentTo>>

ConfirmContact(c, r, u) ==
    /\ u \in exists
    /\ Redeem(c, r)
    /\ verified' = IF OfPurpose(c, "verify_contact") /\ ~r.created /\ r.user = u
                   THEN Proven(c, r.user) \cup {VerifiedNow(c, u)}
                   ELSE Proven(c, r.user)
    /\ session' = None
    /\ UNCHANGED <<settings, password, factors, trusted, pending>>

(* verify_second_factor.  The method is checked against the login, the     *)
(* challenge against the user and its purpose.                             *)
Chosen(t, m) ==
    pending[t] # None /\ m \in Eligible(pending[t].user, ChannelOf(pending[t].primary))

Spend(t, second, for) ==
    /\ \/ trusted' = trusted
       \/ settings.trusting /\ trusted' = trusted \cup {pending[t].user}
    /\ Open(pending[t].user, ChannelOf(pending[t].primary), second, for, FALSE)
    /\ pending' = [pending EXCEPT ![t] = None]

SecondWithFactor(t, m) ==
    /\ Chosen(t, m) /\ m \notin Method
    /\ Spend(t, m, None)
    /\ factors' \in [User -> SUBSET {"totp", "recovery_code"}]
    /\ \A u \in User : factors'[u] = factors[u]
          \/ (u = pending[t].user /\ m = "recovery_code" /\ factors'[u] = factors[u] \ {m})
    /\ UNCHANGED <<settings, exists, contact, password, verified, challenge>>

MutMatches(t, c, r) == OfPurpose(c, "two_factor")
Matches(t, c, r) ==
    OfPurpose(c, "two_factor") /\ ~r.created /\ r.user = pending[t].user

SecondWithCode(t, m, c, r) ==
    /\ Chosen(t, m) /\ m \in Method
    /\ Redeem(c, r)
    /\ verified' = Proven(c, r.user)
    /\ IF Matches(t, c, r)
       THEN Spend(t, challenge[c].channel, challenge[c].for)
       ELSE session' = None /\ UNCHANGED <<pending, trusted>>
    /\ UNCHANGED <<settings, password, factors>>

-----------------------------------------------------------------------------
(* The host: sign-up, a changed contact value, unique per field.           *)
SignUp(u) ==
    /\ u \notin exists
    /\ exists' = exists \cup {u} /\ password' = password \cup {u}
    /\ session' = None
    /\ UNCHANGED <<settings, contact, verified, factors, trusted,
                   challenge, pending>>

ChangeContact(u, ch, v) ==
    /\ u \in exists /\ contact[u][ch] # v
    /\ v # None => Owner(ch, v) = {}
    /\ contact' = [contact EXCEPT ![u][ch] = v]
    /\ session' = None
    /\ UNCHANGED <<settings, exists, password, verified, factors, trusted,
                   challenge, pending>>

(* The outcome of enrolling, regenerating and disabling (TwoFactor), and   *)
(* of disable for a contact method: its row for the current value goes.    *)
ChangeFactor(u, m) ==
    /\ u \in exists /\ m \in settings.seconds
    /\ factors' = [factors EXCEPT ![u] = IF m \in @ THEN @ \ {m} ELSE @ \cup {m}]
    /\ session' = None
    /\ UNCHANGED <<settings, exists, contact, password, verified, trusted,
                   challenge, pending>>

DisableContact(u, m) ==
    /\ u \in exists /\ m \in Method /\ Enrolled(u, m)
    /\ verified' = verified \ {<<u, ChannelOf(m), contact[u][ChannelOf(m)]>>}
    /\ session' = None
    /\ UNCHANGED <<settings, exists, contact, password, factors, trusted,
                   challenge, pending>>

(* The last trusted device of an account is revoked, or expires.           *)
Distrust(u) ==
    /\ u \in trusted /\ trusted' = trusted \ {u}
    /\ session' = None
    /\ UNCHANGED <<settings, exists, contact, password, verified, factors,
                   challenge, pending>>

(* A challenge or a pending token expires.                                 *)
Expire(t) ==
    /\ pending[t] # None
    /\ pending' = [pending EXCEPT ![t] = None] /\ session' = None
    /\ UNCHANGED <<settings, facts, challenge>>

Lapse(c) ==
    /\ challenge[c] # None
    /\ challenge' = [challenge EXCEPT ![c] = None] /\ session' = None
    /\ UNCHANGED <<settings, facts, pending>>

Request(c) ==
    \/ \E ch \in Channel : \E v \in ValueOf(ch) : RequestLogin(c, ch, v)
    \/ \E u \in User : RequestReset(c, u)
    \/ \E v \in Value : RequestResetUnknown(c, v)
    \/ \E u \in User, ch \in Channel : RequestContactVerification(c, u, ch)
    \/ \E t \in Pid, m \in Method : RequestSecond(c, t, m)

Present(c) ==
    \E r \in [user : User, created : BOOLEAN] :
        \/ LoginWithCode(c, r)
        \/ \E accepted \in BOOLEAN : ConfirmReset(c, r, accepted)
        \/ \E u \in User : ConfirmContact(c, r, u)
        \/ \E t \in Pid, m \in Method : SecondWithCode(t, m, c, r)

Next ==
    \/ \E c \in Cid : Request(c) \/ Present(c) \/ Lapse(c)
    \/ \E t \in Pid, m \in {"totp", "recovery_code"} : SecondWithFactor(t, m)
    \/ \E u \in User : SignUp(u) \/ LoginWithPassword(u) \/ Distrust(u)
    \/ \E u \in User, ch \in Channel :
          \E v \in ValueOf(ch) \cup {None} : ChangeContact(u, ch, v)
    \/ \E u \in User, m \in {"totp", "recovery_code"} : ChangeFactor(u, m)
    \/ \E u \in User, m \in Method : DisableContact(u, m)
    \/ \E t \in Pid : Expire(t)

Spec == Init /\ [][Next]_vars

-----------------------------------------------------------------------------
(* Properties.                                                             *)

(* A contact is verified for an account only by a code sent to that very   *)
(* value and redeemed for that account, though the account's value may     *)
(* have changed between request and confirmation (VerificationService,     *)
(* UserProvisioningService).                                               *)
VerifiedByCode ==
    [][\A x \in verified' \ verified :
          \E c \in Cid :
              /\ challenge[c] # None /\ challenge'[c] = None
              /\ challenge[c].user \in {x[1], None}
              /\ <<challenge[c].channel, challenge[c].sentTo>> = <<x[2], x[3]>>]_vars

(* A session with one factor is opened only in the request that created    *)
(* the account, on a device that the same account has had trusted and not  *)
(* revoked since, or where POLICY, for this user, neither demands a second *)
(* factor nor has one to ask for (login_response, at its two callers).     *)
NoDegrading ==
    (session # None /\ ~session.created) =>
        /\ session.second = "trusted_device" =>
              settings.trusting /\ session.user \in trusted
        /\ session.second = None =>
              /\ settings.policy \notin {"off", "required"}
                    => Eligible(session.user, session.first) = {}
              /\ settings.policy # "required"
              /\ settings.policy = "staff_only" => session.user \notin Staff

(* The different-channel rule: the second factor is never on the channel   *)
(* of the first.                                                           *)
DifferentChannels ==
    (session # None /\ settings.different) => session.second # session.first

(* What the code does keep: both factors come over one channel only when   *)
(* the code was asked for under another login, one over another channel.   *)
SameChannelOnlyBorrowed ==
    (session # None /\ settings.different /\ session.second = session.first)
        => session.for # None /\ ChannelOf(session.for) # session.first

(* The code of one purpose never does the work of another, at whichever    *)
(* endpoint it is presented: a login, a second factor, a reset, a          *)
(* confirmation each take a code sent for it.                              *)
CodesKeepPurpose ==
    [][\A c \in Cid, r \in [user : User, created : BOOLEAN] :
          Redeem(c, r) =>
              /\ (session' # None /\ session'.second \in Channel)
                    => challenge[c].purpose = "two_factor" /\ r.user = session'.user
              /\ (session' # None /\ session'.second \in {None, "trusted_device"})
                    => challenge[c].purpose = "login" /\ r.user = session'.user
              /\ password' # password => challenge[c].purpose = "password_reset"
              /\ (verified' # verified /\ challenge[c].user # None)
                    => challenge[c].purpose = "verify_contact"]_vars

(* A reset never gives a password to an account that its own code has just *)
(* created, though the account is there by then: confirm_reset refuses it, *)
(* and a password takes a later reset, with another code.                  *)
ResetNeedsAccount ==
    [][\A u \in password' \ password : u \in exists \/ SignUp(u)]_vars

-----------------------------------------------------------------------------
(* The inductive invariant.  A code for a second factor was sent on a      *)
(* channel that fits the login it was asked for under; a challenge is for  *)
(* an account there is; and no two accounts share a contact value.         *)
BorrowedOnly ==
    \A c \in Cid :
        ( /\ challenge[c] # None /\ challenge[c].purpose = "two_factor"
          /\ settings.different = TRUE )
            => /\ challenge[c].for # None
               /\ ChannelOf(challenge[c].for) # challenge[c].channel

SentToAccounts ==
    \A c \in Cid :
        (challenge[c] # None /\ challenge[c].user # None)
            => challenge[c].user \in exists

ContactsUnique ==
    /\ \A u \in User \ exists, ch \in Channel : contact[u][ch] = None
    /\ \A u, v \in User, ch \in Channel :
          (contact[u][ch] = contact[v][ch] /\ contact[u][ch] # None) => u = v

IInv == /\ TypeOK /\ BorrowedOnly /\ SentToAccounts /\ ContactsUnique
        /\ NoDegrading /\ SameChannelOnlyBorrowed

=============================================================================
