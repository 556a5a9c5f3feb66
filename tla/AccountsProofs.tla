--------------------------- MODULE AccountsProofs ---------------------------
(***************************************************************************)
(* Proofs about Accounts, for any number of accounts, contact values,      *)
(* challenges and pending tokens, and any settings.                        *)
(***************************************************************************)
EXTENDS Accounts, TLAPS

-----------------------------------------------------------------------------
(* Every reachable state is well typed.                                    *)
LEMMA Channels ==
    ASSUME NEW ch \in Channel
    PROVE  /\ MethodOf(ch) \in Method /\ ChannelOf(MethodOf(ch)) = ch
           /\ Other(ch) \in Channel /\ ValueOf(ch) \subseteq Value
           /\ ch # None
  BY AccountsAssumption DEF Channel, Method, MethodOf, ChannelOf, Other, ValueOf, Value

LEMMA PrimaryChannel ==
    ASSUME NEW m \in Primary
    PROVE  ChannelOf(m) \in {"password"} \cup Channel
  BY DEF Primary, Method, ChannelOf, Channel

LEMMA SentType ==
    ASSUME TypeOK, NEW c \in Cid, NEW ch \in Channel, NEW v \in Value,
           NEW p \in Purpose, NEW for \in Primary \cup {None},
           Sent(c, ch, v, p, for)
    PROVE  TypeOK'
  <1>1. PICK u \in User \cup {None} :
           challenge' = [d \in Cid |->
              IF d = c THEN [user |-> u, channel |-> ch, sentTo |-> v,
                             purpose |-> p, for |-> for]
              ELSE IF /\ challenge[d] # None /\ u # None
                      /\ challenge[d].user = u /\ challenge[d].purpose = p
                      /\ challenge[d].channel = ch
                   THEN None ELSE challenge[d]]
    BY DEF Sent, Owner, TypeOK
  <1>2. [user |-> u, channel |-> ch, sentTo |-> v, purpose |-> p, for |-> for]
           \in Challenge
    BY DEF Challenge
  <1>3. challenge' \in [Cid -> Challenge \cup {None}]
    BY <1>1, <1>2 DEF TypeOK
  <1>. QED  BY <1>3 DEF Sent, TypeOK, facts

(* A redeemed code changes the challenge, the accounts and their contacts. *)
Redemption == [user : User, created : BOOLEAN]

LEMMA RedeemType ==
    ASSUME TypeOK, NEW c \in Cid, NEW r \in Redemption, Redeem(c, r)
    PROVE  /\ challenge' \in [Cid -> Challenge \cup {None}]
           /\ exists' \in SUBSET User /\ exists \subseteq exists' /\ r.user \in exists'
           /\ contact' \in [User -> [Channel -> Value \cup {None}]]
           /\ Proven(c, r.user) \in SUBSET (User \X Channel \X Value)
           /\ challenge[c] \in Challenge
           /\ challenge[c].channel \in Channel /\ challenge[c].sentTo \in Value
           /\ challenge[c].for \in Primary \cup {None}
           /\ r.user \in User /\ challenge'[c] = None
  <1>1. /\ challenge[c] \in Challenge /\ r.user \in User
        /\ challenge[c].channel \in Channel /\ challenge[c].sentTo \in Value
        /\ challenge[c].for \in Primary \cup {None}
    BY DEF Redeem, TypeOK, Challenge, Redemption
  <1>2. /\ challenge' \in [Cid -> Challenge \cup {None}] /\ challenge'[c] = None
    BY DEF Redeem, TypeOK
  <1>3. exists' \in SUBSET User /\ exists \subseteq exists' /\ r.user \in exists'
    BY <1>1 DEF Redeem, TypeOK
  <1>4. contact' \in [User -> [Channel -> Value \cup {None}]]
    <2>1. CASE contact' = contact
      BY <2>1 DEF TypeOK
    <2>2. CASE contact' = [contact EXCEPT
                             ![r.user][challenge[c].channel] = challenge[c].sentTo]
      <3>1. [contact[r.user] EXCEPT ![challenge[c].channel] = challenge[c].sentTo]
               \in [Channel -> Value \cup {None}]
        BY <1>1 DEF TypeOK
      <3>. QED  BY <1>1, <2>2, <3>1 DEF TypeOK
    <2>. QED  BY <2>1, <2>2 DEF Redeem
  <1>5. Proven(c, r.user) \in SUBSET (User \X Channel \X Value)
    BY <1>1 DEF Proven, TypeOK
  <1>. QED  BY <1>1, <1>2, <1>3, <1>4, <1>5

(* What a session or a pending token is made of.                           *)
LEMMA OpenType ==
    ASSUME NEW u \in User, NEW first \in {"password"} \cup Channel,
           NEW second \in Second,
           NEW for \in Primary \cup {None}, NEW created \in BOOLEAN,
           Open(u, first, second, for, created)
    PROVE  session' \in Session \cup {None}
  BY DEF Open, Session

LEMMA LoginResponseType ==
    ASSUME TypeOK, NEW u \in User, NEW used \in {"password"} \cup Channel,
           NEW primary \in Primary, NEW created \in BOOLEAN,
           LoginResponse(u, used, primary, created)
    PROVE  /\ session' \in Session \cup {None}
           /\ pending' \in [Pid -> Pending \cup {None}]
  <1>1. CASE Open(u, used, None, None, created) /\ pending' = pending
    <2>1. /\ None \in Second
          /\ None \in Primary \cup {None}
      BY DEF Second
    <2>2. session' \in Session \cup {None}
      BY <1>1, <2>1, OpenType, Zenon
    <2>. QED  BY <1>1, <2>2 DEF TypeOK
  <1>2. CASE Open(u, used, None, None, FALSE) /\ pending' = pending
    <2>1. /\ None \in Second
          /\ None \in Primary \cup {None}
      BY DEF Second
    <2>2. session' \in Session \cup {None}
      BY <1>2, <2>1, OpenType, Zenon
    <2>. QED  BY <1>2, <2>2 DEF TypeOK
  <1>3. CASE session' = None /\ pending' = pending
    BY <1>3 DEF TypeOK
  <1>4. ASSUME NEW t \in Pid, session' = None,
               pending' = [pending EXCEPT ![t] = [user |-> u, primary |-> primary]]
        PROVE  /\ session' \in Session \cup {None}
               /\ pending' \in [Pid -> Pending \cup {None}]
    BY <1>4 DEF TypeOK, Pending
  <1>5. CASE Open(u, used, "trusted_device", None, FALSE) /\ pending' = pending
    <2>1. /\ "trusted_device" \in Second
          /\ None \in Primary \cup {None}
      BY DEF Second
    <2>2. session' \in Session \cup {None}
      BY <1>5, <2>1, OpenType, Zenon
    <2>. QED  BY <1>5, <2>2 DEF TypeOK
  <1>. QED  BY <1>1, <1>2, <1>3, <1>4, <1>5 DEF LoginResponse

LEMMA SpendType ==
    ASSUME TypeOK, NEW t \in Pid, pending[t] # None,
           NEW second \in Second,
           NEW for \in Primary \cup {None}, Spend(t, second, for)
    PROVE  /\ session' \in Session \cup {None}
           /\ pending' \in [Pid -> Pending \cup {None}]
           /\ ChannelOf(pending[t].primary) \in {"password"} \cup Channel
           /\ pending[t].user \in User
           /\ trusted' \in SUBSET User
  <1>1. pending[t].user \in User /\ pending[t].primary \in Primary
    BY DEF TypeOK, Pending
  <1>2. ChannelOf(pending[t].primary) \in {"password"} \cup Channel
    BY <1>1, PrimaryChannel
  <1>3. session' \in Session \cup {None}
    BY <1>1, <1>2, OpenType DEF Spend
  <1>4. pending' \in [Pid -> Pending \cup {None}]
    BY DEF Spend, TypeOK
  <1>5. trusted' \in SUBSET User
    BY <1>1 DEF Spend, TypeOK
  <1>. QED  BY <1>1, <1>2, <1>3, <1>4, <1>5

-----------------------------------------------------------------------------
LEMMA InitTypeOK == Init => TypeOK
  BY DEF Init, TypeOK, NoContact

LEMMA ResetGoes ==
    ASSUME TypeOK, NEW u \in User, contact[u] # NoContact
    PROVE  /\ ResetChannel(u) \in Channel
           /\ contact[u][ResetChannel(u)] \in Value
  <1>1. ResetChannel(u) \in Channel
    BY AccountsAssumption, Channels DEF ResetChannel, TypeOK, Settings
  <1>2. contact[u] \in [Channel -> Value \cup {None}]
    BY DEF TypeOK
  <1>3. \E ch \in Channel : contact[u][ch] # None
    <2>1. SUFFICES ASSUME \A ch \in Channel : contact[u][ch] = None  PROVE FALSE
      OBVIOUS
    <2>2. contact[u] = NoContact
      BY <1>2, <2>1 DEF NoContact
    <2>. QED  BY <2>2
  <1>4. contact[u][ResetChannel(u)] # None
    BY <1>3, AccountsAssumption DEF ResetChannel, Other, Channel, TypeOK, Settings
  <1>. QED  BY <1>1, <1>2, <1>4

LEMMA SecondGoes ==
    ASSUME TypeOK, NEW t \in Pid, NEW m \in Method, pending[t] # None,
           m \in Eligible(pending[t].user, ChannelOf(pending[t].primary))
    PROVE  /\ pending[t].user \in User /\ pending[t].primary \in Primary
           /\ ChannelOf(m) \in Channel
           /\ contact[pending[t].user][ChannelOf(m)] \in Value
  <1>1. /\ pending[t].user \in User /\ pending[t].primary \in Primary
        /\ ChannelOf(m) \in Channel
    BY DEF TypeOK, Pending, Method, ChannelOf, Channel
  <1>2. Enrolled(pending[t].user, m)
    BY DEF Eligible
  <1>3. <<pending[t].user, ChannelOf(m), contact[pending[t].user][ChannelOf(m)]>>
           \in verified
    BY <1>2 DEF Enrolled
  <1>. QED  BY <1>1, <1>3 DEF TypeOK

LEMMA RequestType ==
    ASSUME TypeOK, NEW c \in Cid, Request(c)
    PROVE  TypeOK'
  <1>1. ASSUME NEW ch \in Channel, NEW v \in ValueOf(ch), RequestLogin(c, ch, v)
        PROVE  TypeOK'
    BY <1>1, Channels, SentType DEF RequestLogin, Purpose
  <1>2. ASSUME NEW u \in User, RequestReset(c, u)  PROVE TypeOK'
    BY <1>2, ResetGoes, SentType DEF RequestReset, Purpose
  <1>3. ASSUME NEW v \in Value, RequestResetUnknown(c, v)  PROVE TypeOK'
    <2>1. settings.firstReset \in Channel
      BY AccountsAssumption DEF TypeOK, Settings
    <2>. QED  BY <1>3, <2>1, SentType DEF RequestResetUnknown, Purpose
  <1>4. ASSUME NEW u \in User, NEW ch \in Channel, RequestContactVerification(c, u, ch)
        PROVE  TypeOK'
    <2>1. contact[u][ch] \in Value
      BY <1>4 DEF RequestContactVerification, TypeOK
    <2>. QED  BY <1>4, <2>1, SentType DEF RequestContactVerification, Purpose
  <1>5. ASSUME NEW t \in Pid, NEW m \in Method, RequestSecond(c, t, m)  PROVE TypeOK'
    BY <1>5, SecondGoes, SentType DEF RequestSecond, Purpose
  <1>. QED  BY <1>1, <1>2, <1>3, <1>4, <1>5 DEF Request

LEMMA PresentType ==
    ASSUME TypeOK, NEW c \in Cid, Present(c)
    PROVE  TypeOK'
  <1>. PICK r \in Redemption :
          \/ LoginWithCode(c, r)
          \/ \E accepted \in BOOLEAN : ConfirmReset(c, r, accepted)
          \/ \E u \in User : ConfirmContact(c, r, u)
          \/ \E t \in Pid, m \in Method : SecondWithCode(t, m, c, r)
    BY DEF Present, Redemption
  <1>0. r.created \in BOOLEAN
    BY DEF Redemption
  <1>1. CASE LoginWithCode(c, r)
    <2>1. PICK ch \in Channel :
             /\ Redeem(c, r) /\ challenge[c].channel = ch
             /\ verified' = Proven(c, r.user)
             /\ UNCHANGED <<settings, password, factors, trusted>>
             /\ IF OfPurpose(c, "login")
                THEN LoginResponse(r.user, ch, MethodOf(ch), r.created)
                ELSE session' = None /\ pending' = pending
      BY <1>1 DEF LoginWithCode
    <2>2. MethodOf(ch) \in Primary /\ ch \in {"password"} \cup Channel
      BY Channels DEF Primary
    <2>3. r.user \in User
      BY DEF Redemption
    <2>4. session' \in Session \cup {None} /\ pending' \in [Pid -> Pending \cup {None}]
      <3>1. CASE LoginResponse(r.user, ch, MethodOf(ch), r.created)
        BY <1>0, <2>2, <2>3, <3>1, LoginResponseType, Zenon
      <3>2. CASE session' = None /\ pending' = pending
        BY <3>2 DEF TypeOK
      <3>. QED  BY <2>1, <3>1, <3>2
    <2>. QED  BY <2>1, <2>4, RedeemType DEF TypeOK
  <1>2. ASSUME NEW accepted \in BOOLEAN, ConfirmReset(c, r, accepted)  PROVE TypeOK'
    <2>1. password' = password \/ password' = password \cup {r.user}
      BY <1>2 DEF ConfirmReset
    <2>2. /\ Redeem(c, r) /\ verified' = Proven(c, r.user)
          /\ session' = None /\ UNCHANGED <<settings, factors, trusted, pending>>
      BY <1>2 DEF ConfirmReset
    <2>. QED  BY <2>1, <2>2, RedeemType DEF TypeOK
  <1>3. ASSUME NEW u \in User, ConfirmContact(c, r, u)  PROVE TypeOK'
    <2>1. /\ Redeem(c, r)
          /\ session' = None /\ UNCHANGED <<settings, password, factors, trusted, pending>>
          /\ \/ verified' = Proven(c, r.user)
             \/ verified' = Proven(c, r.user) \cup {VerifiedNow(c, u)}
      BY <1>3 DEF ConfirmContact
    <2>2. VerifiedNow(c, u) \in User \X Channel \X Value
      BY <2>1, RedeemType DEF VerifiedNow
    <2>. QED  BY <2>1, <2>2, RedeemType DEF TypeOK
  <1>4. ASSUME NEW t \in Pid, NEW m \in Method, SecondWithCode(t, m, c, r)
        PROVE  TypeOK'
    <2>1. /\ Redeem(c, r) /\ verified' = Proven(c, r.user) /\ pending[t] # None
          /\ UNCHANGED <<settings, password, factors>>
          /\ \/ Spend(t, challenge[c].channel, challenge[c].for)
             \/ session' = None /\ UNCHANGED <<pending, trusted>>
      BY <1>4 DEF SecondWithCode, Chosen
    <2>2. /\ session' \in Session \cup {None} /\ pending' \in [Pid -> Pending \cup {None}]
          /\ trusted' \in SUBSET User
      <3>1. CASE Spend(t, challenge[c].channel, challenge[c].for)
        <4>1. challenge[c].channel \in Second
          BY <2>1, RedeemType DEF Second
        <4>. QED  BY <2>1, <3>1, <4>1, RedeemType, SpendType
      <3>2. CASE session' = None /\ UNCHANGED <<pending, trusted>>
        BY <3>2 DEF TypeOK
      <3>. QED  BY <2>1, <3>1, <3>2
    <2>. QED  BY <2>1, <2>2, RedeemType DEF TypeOK
  <1>. QED  BY <1>1, <1>2, <1>3, <1>4

LEMMA NextTypeOK == TypeOK /\ [Next]_vars => TypeOK'
  <1>. SUFFICES ASSUME TypeOK, [Next]_vars  PROVE TypeOK'
    OBVIOUS
  <1>1. ASSUME NEW c \in Cid, Lapse(c)  PROVE TypeOK'
    BY <1>1 DEF Lapse, facts, TypeOK
  <1>2. ASSUME NEW t \in Pid, NEW m \in {"totp", "recovery_code"},
               SecondWithFactor(t, m)
        PROVE  TypeOK'
    <2>1. /\ session' \in Session \cup {None} /\ pending' \in [Pid -> Pending \cup {None}]
          /\ trusted' \in SUBSET User
      <3>1. m \in Second /\ None \in Primary \cup {None}
        BY DEF Second
      <3>2. Spend(t, m, None) /\ pending[t] # None
        BY <1>2 DEF SecondWithFactor, Chosen
      <3>. QED  BY <3>1, <3>2, SpendType
    <2>. QED  BY <1>2, <2>1 DEF SecondWithFactor, TypeOK
  <1>3. ASSUME NEW u \in User, SignUp(u)  PROVE TypeOK'
    BY <1>3 DEF SignUp, TypeOK
  <1>4. ASSUME NEW u \in User, LoginWithPassword(u)  PROVE TypeOK'
    <2>1. session' \in Session \cup {None} /\ pending' \in [Pid -> Pending \cup {None}]
      BY <1>4, LoginResponseType DEF LoginWithPassword, Primary
    <2>. QED  BY <1>4, <2>1 DEF LoginWithPassword, TypeOK, facts
  <1>5. ASSUME NEW u \in User, NEW ch \in Channel, NEW v \in ValueOf(ch) \cup {None},
               ChangeContact(u, ch, v)
        PROVE  TypeOK'
    <2>1. v \in Value \cup {None}
      BY Channels
    <2>2. [contact[u] EXCEPT ![ch] = v] \in [Channel -> Value \cup {None}]
      BY <2>1 DEF TypeOK
    <2>3. contact' \in [User -> [Channel -> Value \cup {None}]]
      BY <1>5, <2>2 DEF ChangeContact, TypeOK
    <2>. QED  BY <1>5, <2>3 DEF ChangeContact, TypeOK
  <1>6. ASSUME NEW u \in User, NEW m \in {"totp", "recovery_code"}, ChangeFactor(u, m)
        PROVE  TypeOK'
    BY <1>6 DEF ChangeFactor, TypeOK
  <1>7. ASSUME NEW u \in User, NEW m \in Method, DisableContact(u, m)  PROVE TypeOK'
    BY <1>7 DEF DisableContact, TypeOK
  <1>8. ASSUME NEW t \in Pid, Expire(t)  PROVE TypeOK'
    BY <1>8 DEF Expire, facts, TypeOK
  <1>9. ASSUME NEW u \in User, Distrust(u)  PROVE TypeOK'
    BY <1>9 DEF Distrust, TypeOK
  <1>10. CASE UNCHANGED vars
    BY <1>10 DEF vars, TypeOK
  <1>. QED
    BY <1>1, <1>2, <1>3, <1>4, <1>5, <1>6, <1>7, <1>8, <1>9, <1>10, RequestType, PresentType
       DEF Next

-----------------------------------------------------------------------------
(* How a request sends a code, and the challenge it leaves.                *)
LEMMA SentHow ==
    ASSUME TypeOK, NEW c \in Cid, Request(c)
    PROVE  \E ch \in Channel, v \in Value, p \in Purpose, for \in Primary \cup {None} :
              /\ Sent(c, ch, v, p, for)
              /\ p = "two_factor" =>
                    \E t \in Pid, m \in Method :
                       /\ m \in Eligible(pending[t].user, ChannelOf(pending[t].primary))
                       /\ ch = ChannelOf(m) /\ for = pending[t].primary
                       /\ pending[t].primary \in Primary
  <1>. DEFINE Goal ==
         \E ch \in Channel, v \in Value, p \in Purpose, for \in Primary \cup {None} :
              /\ Sent(c, ch, v, p, for)
              /\ p = "two_factor" =>
                    \E t \in Pid, m \in Method :
                       /\ m \in Eligible(pending[t].user, ChannelOf(pending[t].primary))
                       /\ ch = ChannelOf(m) /\ for = pending[t].primary
                       /\ pending[t].primary \in Primary
  <1>1. ASSUME NEW ch \in Channel, NEW v \in Value,
               NEW p \in Purpose \ {"two_factor"}, Sent(c, ch, v, p, None)
        PROVE  Goal
    BY <1>1
  <1>2. ASSUME NEW ch \in Channel, NEW v \in ValueOf(ch), RequestLogin(c, ch, v)
        PROVE  Goal
    BY <1>1, <1>2, Channels DEF RequestLogin, Purpose
  <1>3. ASSUME NEW u \in User, RequestReset(c, u)  PROVE Goal
    BY <1>1, <1>3, ResetGoes DEF RequestReset, Purpose
  <1>4. ASSUME NEW v \in Value, RequestResetUnknown(c, v)  PROVE Goal
    <2>1. settings.firstReset \in Channel
      BY AccountsAssumption DEF TypeOK, Settings
    <2>. QED  BY <1>1, <1>4, <2>1 DEF RequestResetUnknown, Purpose
  <1>5. ASSUME NEW u \in User, NEW ch \in Channel, RequestContactVerification(c, u, ch)
        PROVE  Goal
    <2>1. contact[u][ch] \in Value
      BY <1>5 DEF RequestContactVerification, TypeOK
    <2>. QED  BY <1>1, <1>5, <2>1 DEF RequestContactVerification, Purpose
  <1>6. ASSUME NEW t \in Pid, NEW m \in Method, RequestSecond(c, t, m)  PROVE Goal
    <2>1. /\ ChannelOf(m) \in Channel /\ pending[t].primary \in Primary
          /\ contact[pending[t].user][ChannelOf(m)] \in Value
          /\ m \in Eligible(pending[t].user, ChannelOf(pending[t].primary))
      BY <1>6, SecondGoes DEF RequestSecond
    <2>2. PICK ch \in Channel, v \in Value, for \in Primary \cup {None} :
             /\ ch = ChannelOf(m) /\ for = pending[t].primary
             /\ v = contact[pending[t].user][ChannelOf(m)]
      BY <2>1
    <2>3. Sent(c, ch, v, "two_factor", for)
      BY <1>6, <2>2 DEF RequestSecond
    <2>. QED  BY <2>1, <2>2, <2>3 DEF Purpose
  <1>. HIDE DEF Goal
  <1>7. Goal
    BY <1>2, <1>3, <1>4, <1>5, <1>6 DEF Request
  <1>. QED  BY <1>7 DEF Goal

LEMMA NewChallenge ==
    ASSUME TypeOK, NEW c \in Cid, NEW d \in Cid, Request(c),
           challenge'[d] # challenge[d], challenge'[d] # None
    PROVE  /\ challenge'[d].user \in exists \cup {None}
           /\ challenge'[d].purpose = "two_factor" =>
                 \E t \in Pid, m \in Method :
                    /\ m \in Eligible(pending[t].user, ChannelOf(pending[t].primary))
                    /\ challenge'[d].channel = ChannelOf(m)
                    /\ challenge'[d].for = pending[t].primary
                    /\ pending[t].primary \in Primary
  <1>1. PICK ch \in Channel, v \in Value, p \in Purpose, for \in Primary \cup {None} :
            /\ Sent(c, ch, v, p, for)
            /\ p = "two_factor" =>
                  \E t \in Pid, m \in Method :
                     /\ m \in Eligible(pending[t].user, ChannelOf(pending[t].primary))
                     /\ ch = ChannelOf(m) /\ for = pending[t].primary
                     /\ pending[t].primary \in Primary
    BY SentHow
  <1>2. Sent(c, ch, v, p, for)
    BY <1>1
  <1>3. \/ challenge'[d] = challenge[d] \/ challenge'[d] = None
        \/ \E u \in exists \cup {None} :
              challenge'[d] = [user |-> u, channel |-> ch, sentTo |-> v,
                               purpose |-> p, for |-> for]
    BY <1>2 DEF Sent, Owner
  <1>4. PICK u \in exists \cup {None} :
           challenge'[d] = [user |-> u, channel |-> ch, sentTo |-> v,
                            purpose |-> p, for |-> for]
    BY <1>3
  <1>. QED  BY <1>1, <1>4

(* Whatever is not a request or a redemption leaves a challenge or drops   *)
(* it, and every redemption drops its own only.                            *)
LEMMA ChallengeMove ==
    ASSUME TypeOK, [Next]_vars, ~\E c \in Cid : Request(c), NEW d \in Cid
    PROVE  challenge'[d] \in {challenge[d], None}
  <1>1. ASSUME NEW c \in Cid, Present(c) \/ Lapse(c)
        PROVE  challenge'[d] \in {challenge[d], None}
    <2>1. challenge' = [challenge EXCEPT ![c] = None]
      BY <1>1 DEF Present, Lapse, LoginWithCode, ConfirmReset, ConfirmContact,
                  SecondWithCode, Redeem
    <2>. QED  BY <2>1 DEF TypeOK
  <1>. QED
    BY <1>1 DEF Next, vars, facts, SecondWithFactor, SignUp, LoginWithPassword,
                ChangeContact, ChangeFactor, DisableContact, Distrust, Expire

LEMMA SettingsKept ==
    ASSUME [Next]_vars
    PROVE  settings' = settings
  <1>1. ASSUME NEW c \in Cid, Request(c)  PROVE settings' = settings
    BY <1>1 DEF Request, RequestLogin, RequestReset, RequestResetUnknown,
                RequestContactVerification, RequestSecond, Sent
  <1>2. ASSUME NEW c \in Cid, Present(c)  PROVE settings' = settings
    BY <1>2 DEF Present, LoginWithCode, ConfirmReset, ConfirmContact, SecondWithCode
  <1>. QED
    BY <1>1, <1>2 DEF Next, vars, Lapse, SecondWithFactor, SignUp,
         LoginWithPassword, ChangeContact, ChangeFactor, DisableContact, Distrust, Expire

(* A second factor sent for a login goes over another channel than it.     *)
LEMMA EligibleDiffers ==
    ASSUME NEW u, NEW used, NEW m \in Method, m \in Eligible(u, used),
           settings.different = TRUE
    PROVE  ChannelOf(m) # used
  BY DEF Eligible, Method

LEMMA NextBorrowedOnly == TypeOK /\ BorrowedOnly /\ [Next]_vars => BorrowedOnly'
  <1>. SUFFICES ASSUME TypeOK, BorrowedOnly, [Next]_vars, NEW d \in Cid,
                       challenge'[d] # None, challenge'[d].purpose = "two_factor",
                       settings'.different = TRUE
                PROVE  /\ challenge'[d].for # None
                       /\ ChannelOf(challenge'[d].for) # challenge'[d].channel
    BY DEF BorrowedOnly, ChannelOf
  <1>0. settings.different = TRUE
    BY SettingsKept
  <1>1. CASE challenge'[d] = challenge[d]
    BY <1>0, <1>1 DEF BorrowedOnly
  <1>2. ASSUME NEW c \in Cid, Request(c), challenge'[d] # challenge[d]
        PROVE  /\ challenge'[d].for # None
               /\ ChannelOf(challenge'[d].for) # challenge'[d].channel
    <2>1. PICK t \in Pid, m \in Method :
             /\ m \in Eligible(pending[t].user, ChannelOf(pending[t].primary))
             /\ challenge'[d].channel = ChannelOf(m)
             /\ challenge'[d].for = pending[t].primary
             /\ pending[t].primary \in Primary
      BY <1>2, NewChallenge
    <2>2. ChannelOf(m) # ChannelOf(pending[t].primary)
      BY <1>0, <2>1, EligibleDiffers
    <2>3. pending[t].primary # None
      BY <2>1, AccountsAssumption DEF Primary
    <2>. QED  BY <2>1, <2>2, <2>3
  <1>. QED  BY <1>1, <1>2, ChallengeMove

(* Accounts are never removed.                                             *)
LEMMA ExistsGrows ==
    ASSUME TypeOK, [Next]_vars
    PROVE  exists \subseteq exists'
  <1>1. ASSUME NEW c \in Cid, Request(c)  PROVE exists' = exists
    BY <1>1 DEF Request, RequestLogin, RequestReset, RequestResetUnknown,
                RequestContactVerification, RequestSecond, Sent, facts
  <1>2. ASSUME NEW c \in Cid, Present(c)  PROVE exists \subseteq exists'
    BY <1>2 DEF Present, LoginWithCode, ConfirmReset, ConfirmContact,
                SecondWithCode, Redeem
  <1>. QED
    BY <1>1, <1>2 DEF Next, vars, facts, Lapse, SecondWithFactor, SignUp,
         LoginWithPassword, ChangeContact, ChangeFactor, DisableContact, Distrust, Expire

LEMMA NextSentToAccounts == TypeOK /\ SentToAccounts /\ [Next]_vars => SentToAccounts'
  <1>. SUFFICES ASSUME TypeOK, SentToAccounts, [Next]_vars, NEW d \in Cid,
                       challenge'[d] # None, challenge'[d].user # None
                PROVE  challenge'[d].user \in exists'
    BY DEF SentToAccounts
  <1>1. CASE challenge'[d] = challenge[d]
    BY <1>1, ExistsGrows DEF SentToAccounts
  <1>2. ASSUME NEW c \in Cid, Request(c), challenge'[d] # challenge[d]
        PROVE  challenge'[d].user \in exists'
    BY <1>2, NewChallenge, ExistsGrows
  <1>. QED  BY <1>1, <1>2, ChallengeMove

-----------------------------------------------------------------------------
(* Who redeems a code, and whose contact value it leaves where.            *)
LEMMA RedeemedUser ==
    ASSUME TypeOK, SentToAccounts, NEW c \in Cid, NEW r \in Redemption, Redeem(c, r)
    PROVE  /\ challenge[c].user # None =>
                 r.user = challenge[c].user /\ r.created = FALSE
           /\ challenge[c].user = None /\ r.created = FALSE =>
                 r.user \in Owner(challenge[c].channel, challenge[c].sentTo)
           /\ r.created = FALSE => r.user \in exists
           /\ r.created # FALSE =>
                 /\ r.created = TRUE /\ r.user \in User \ exists
                 /\ Owner(challenge[c].channel, challenge[c].sentTo) = {}
  <1>1. /\ r \in Redeemed(c) /\ challenge[c] # None
    BY DEF Redeem
  <1>2. CASE challenge[c].user # None
    <2>1. r = [user |-> challenge[c].user, created |-> FALSE]
      BY <1>1, <1>2 DEF Redeemed
    <2>. QED  BY <1>1, <1>2, <2>1 DEF SentToAccounts
  <1>3. CASE /\ challenge[c].user = None
             /\ Owner(challenge[c].channel, challenge[c].sentTo) # {}
    <2>1. r \in [user : Owner(challenge[c].channel, challenge[c].sentTo),
                 created : {FALSE}]
      BY <1>1, <1>3 DEF Redeemed
    <2>. QED  BY <1>3, <2>1 DEF Owner
  <1>4. CASE /\ challenge[c].user = None
             /\ Owner(challenge[c].channel, challenge[c].sentTo) = {}
    <2>1. r \in [user : User \ exists, created : {TRUE}]
      BY <1>1, <1>4 DEF Redeemed
    <2>2. r.user \in User \ exists /\ r.created = TRUE
      BY <2>1
    <2>. QED  BY <1>4, <2>2
  <1>. QED  BY <1>2, <1>3, <1>4

LEMMA RedeemUnique ==
    ASSUME TypeOK, SentToAccounts, ContactsUnique, NEW c \in Cid,
           NEW r \in Redemption, Redeem(c, r)
    PROVE  ContactsUnique'
  <1>0. /\ challenge[c].channel \in Channel /\ challenge[c].sentTo \in Value
        /\ r.user \in User
    BY RedeemType
  <1>1. /\ challenge[c].channel \in Channel /\ challenge[c].sentTo \in Value
        /\ exists' = exists \cup {r.user} /\ r.user \in User
        /\ challenge[c].sentTo # None
    BY <1>0, AccountsAssumption DEF Redeem, Value
  <1>2. CASE r.created = FALSE
    <2>1. contact' = contact /\ exists' = exists
      BY <1>1, <1>2, RedeemedUser DEF Redeem
    <2>. QED  BY <2>1 DEF ContactsUnique
  <1>3. CASE r.created # FALSE
    <2>1. /\ r.user \in User \ exists /\ r.created = TRUE
          /\ \A w \in exists : contact[w][challenge[c].channel] # challenge[c].sentTo
      BY <1>3, RedeemedUser DEF Owner
    <2>2. contact' = [contact EXCEPT ![r.user][challenge[c].channel] = challenge[c].sentTo]
      BY <2>1 DEF Redeem
    <2>3. \A w \in User, ch \in Channel :
             contact'[w][ch] = IF w = r.user /\ ch = challenge[c].channel
                               THEN challenge[c].sentTo ELSE contact[w][ch]
      BY <2>2 DEF TypeOK
    <2>4. \A w \in User : contact[w][challenge[c].channel] # challenge[c].sentTo
      BY <1>1, <2>1 DEF ContactsUnique
    <2>5. \A w \in User \ exists', ch \in Channel : contact'[w][ch] = None
      BY <1>1, <2>3 DEF ContactsUnique
    <2>6. \A w, x \in User, ch \in Channel :
             (contact'[w][ch] = contact'[x][ch] /\ contact'[w][ch] # None) => w = x
      BY <2>3, <2>4 DEF ContactsUnique
    <2>. QED  BY <2>5, <2>6 DEF ContactsUnique
  <1>. QED  BY <1>2, <1>3

LEMMA NextContactsUnique ==
    TypeOK /\ SentToAccounts /\ ContactsUnique /\ [Next]_vars => ContactsUnique'
  <1>. SUFFICES ASSUME TypeOK, SentToAccounts, ContactsUnique, [Next]_vars
                PROVE  ContactsUnique'
    OBVIOUS
  <1>1. CASE exists \subseteq exists' /\ contact' = contact
    BY <1>1 DEF ContactsUnique
  <1>2. ASSUME NEW c \in Cid, Request(c)  PROVE exists' = exists /\ contact' = contact
    BY <1>2 DEF Request, RequestLogin, RequestReset, RequestResetUnknown,
                RequestContactVerification, RequestSecond, Sent, facts
  <1>3. ASSUME NEW c \in Cid, Present(c)
        PROVE  \E r \in Redemption : Redeem(c, r)
    BY <1>3 DEF Present, Redemption, LoginWithCode, ConfirmReset, ConfirmContact,
                SecondWithCode
  <1>4. ASSUME NEW u \in User, NEW ch \in Channel, NEW v \in ValueOf(ch) \cup {None},
               ChangeContact(u, ch, v)
        PROVE  ContactsUnique'
    <2>1. /\ u \in exists /\ exists' = exists
          /\ v # None => \A w \in exists : contact[w][ch] # v
      BY <1>4 DEF ChangeContact, Owner
    <2>2. \A w \in User, x \in Channel :
             contact'[w][x] = IF w = u /\ x = ch THEN v ELSE contact[w][x]
      BY <1>4 DEF ChangeContact, TypeOK
    <2>3. v # None => \A w \in User : contact[w][ch] # v
      BY <2>1 DEF ContactsUnique
    <2>4. \A w \in User \ exists', x \in Channel : contact'[w][x] = None
      BY <2>1, <2>2 DEF ContactsUnique
    <2>5. \A w, y \in User, x \in Channel :
             (contact'[w][x] = contact'[y][x] /\ contact'[w][x] # None) => w = y
      BY <2>2, <2>3 DEF ContactsUnique
    <2>. QED  BY <2>4, <2>5 DEF ContactsUnique
  <1>5. CASE UNCHANGED vars
    BY <1>1, <1>5 DEF vars
  <1>6. CASE \E c \in Cid : Request(c) \/ Present(c) \/ Lapse(c)
    <2>1. ASSUME NEW c \in Cid, Lapse(c)  PROVE exists' = exists /\ contact' = contact
      BY <2>1 DEF Lapse, facts
    <2>. QED  BY <1>1, <1>2, <1>3, <1>6, <2>1, RedeemUnique
  <1>7. CASE \/ \E t \in Pid, m \in {"totp", "recovery_code"} : SecondWithFactor(t, m)
             \/ \E u \in User : SignUp(u) \/ LoginWithPassword(u) \/ Distrust(u)
             \/ \E u \in User, m \in {"totp", "recovery_code"} : ChangeFactor(u, m)
             \/ \E u \in User, m \in Method : DisableContact(u, m)
             \/ \E t \in Pid : Expire(t)
    <2>1. exists \subseteq exists' /\ contact' = contact
      BY <1>7, ExistsGrows DEF SecondWithFactor, SignUp, LoginWithPassword, facts,
         ChangeFactor, DisableContact, Distrust, Expire
    <2>. QED  BY <1>1, <2>1
  <1>. QED  BY <1>4, <1>5, <1>6, <1>7 DEF Next

-----------------------------------------------------------------------------
(* How a session opens: with one factor, by login_response, on a trusted   *)
(* device or not; with a factor of the account; or with a code, the only   *)
(* one the step redeems.                                                   *)
OneFactor(u, used, created) ==
    \/ /\ Open(u, used, None, None, created)
       /\ \/ created = TRUE \/ settings.policy = "off"
          \/ Eligible(u, used)' = {} /\ ~Required(u)
    \/ /\ Open(u, used, "trusted_device", None, FALSE)
       /\ created = FALSE /\ Skips(u) /\ trusted' = trusted

OwnFactor(t, m) ==
    /\ pending[t] # None
    /\ Open(pending[t].user, ChannelOf(pending[t].primary), m, None, FALSE)

CodeFactor(t, c, r) ==
    /\ Redeem(c, r) /\ Matches(t, c, r) /\ pending[t] # None
    /\ Open(pending[t].user, ChannelOf(pending[t].primary),
            challenge[c].channel, challenge[c].for, FALSE)

LEMMA LoginResponseOpens ==
    ASSUME NEW u, NEW used, NEW primary, NEW created \in BOOLEAN,
           LoginResponse(u, used, primary, created), session' # None,
           trusted' = trusted
    PROVE  \E made \in BOOLEAN : OneFactor(u, used, made) /\ (made = TRUE => created = TRUE)
  <1>1. CASE /\ created \/ settings.policy = "off"
             /\ Open(u, used, None, None, created)
    BY <1>1 DEF OneFactor
  <1>2. CASE /\ Eligible(u, used)' = {} /\ ~Required(u)
             /\ Open(u, used, None, None, FALSE)
    BY <1>2 DEF OneFactor
  <1>3. CASE Skips(u) /\ Open(u, used, "trusted_device", None, FALSE)
    BY <1>3 DEF OneFactor
  <1>. QED  BY <1>1, <1>2, <1>3 DEF LoginResponse

LEMMA OneRedemption ==
    ASSUME TypeOK, SentToAccounts, ContactsUnique, NEW c \in Cid, NEW d \in Cid,
           NEW r \in Redemption, NEW q \in Redemption, Redeem(c, r), Redeem(d, q)
    PROVE  c = d /\ r.user = q.user /\ (r.created = FALSE => q.created = FALSE)
  <1>1. c = d
    BY DEF Redeem, TypeOK
  <1>2. /\ challenge[c].channel \in Channel
        /\ challenge[c].sentTo \in Value /\ challenge[c].sentTo # None
    BY RedeemType, AccountsAssumption DEF Value
  <1>3. exists' = exists \cup {r.user} /\ exists' = exists \cup {q.user}
    BY DEF Redeem
  <1>4. CASE r.created = FALSE /\ q.created = FALSE
    <2>1. CASE challenge[c].user # None
      BY <1>1, <1>4, <2>1, RedeemedUser
    <2>2. CASE challenge[c].user = None
      <3>1. /\ r.user \in Owner(challenge[c].channel, challenge[c].sentTo)
            /\ q.user \in Owner(challenge[c].channel, challenge[c].sentTo)
        BY <1>1, <1>4, <2>2, RedeemedUser
      <3>2. r.user = q.user
        BY <1>2, <3>1 DEF Owner, ContactsUnique, TypeOK
      <3>. QED  BY <1>1, <1>4, <3>2
    <2>. QED  BY <2>1, <2>2
  <1>5. CASE r.created # FALSE /\ q.created # FALSE
    BY <1>1, <1>3, <1>5, RedeemedUser
  <1>6. ASSUME NEW a \in Redemption, NEW b \in Redemption, Redeem(c, a), Redeem(c, b),
               a.created = FALSE, b.created # FALSE
        PROVE  FALSE
    <2>1. Owner(challenge[c].channel, challenge[c].sentTo) = {}
          /\ challenge[c].user = None
      BY <1>6, RedeemedUser
    <2>. QED  BY <1>6, <2>1, RedeemedUser
  <1>. QED  BY <1>1, <1>4, <1>5, <1>6

LEMMA SessionHow ==
    ASSUME TypeOK, SentToAccounts, ContactsUnique, Next, session' # None
    PROVE  \/ \E u \in User, used \in {"password"} \cup Channel, made \in BOOLEAN :
                 /\ OneFactor(u, used, made)
                 /\ \A c \in Cid, r \in Redemption :
                       Redeem(c, r) => OfPurpose(c, "login") /\ r.user = u
           \/ \E t \in Pid, m \in {"totp", "recovery_code"} :
                 OwnFactor(t, m) /\ challenge' = challenge
           \/ \E t \in Pid, c \in Cid, r \in Redemption : CodeFactor(t, c, r)
  <1>. DEFINE Alone ==
                \E u \in User, used \in {"password"} \cup Channel, made \in BOOLEAN :
                   /\ OneFactor(u, used, made)
                   /\ \A c \in Cid, r \in Redemption :
                         Redeem(c, r) => OfPurpose(c, "login") /\ r.user = u
              Own == \E t \in Pid, m \in {"totp", "recovery_code"} :
                        OwnFactor(t, m) /\ challenge' = challenge
              Code == \E t \in Pid, c \in Cid, r \in Redemption : CodeFactor(t, c, r)
  <1>1. ASSUME NEW u \in User, LoginWithPassword(u)  PROVE Alone
    <2>1. /\ LoginResponse(u, "password", "password", FALSE)
          /\ challenge' = challenge /\ trusted' = trusted
      BY <1>1 DEF LoginWithPassword, facts
    <2>2. PICK made \in BOOLEAN : OneFactor(u, "password", made)
      BY <2>1, LoginResponseOpens, Zenon
    <2>3. \A c \in Cid, r \in Redemption : ~Redeem(c, r)
      BY <2>1 DEF Redeem, TypeOK
    <2>. QED  BY <2>2, <2>3
  <1>2. ASSUME NEW c \in Cid, NEW r \in Redemption, LoginWithCode(c, r)  PROVE Alone
    <2>1. PICK ch \in Channel :
             /\ Redeem(c, r) /\ challenge[c].channel = ch
             /\ OfPurpose(c, "login") /\ trusted' = trusted
             /\ LoginResponse(r.user, ch, MethodOf(ch), r.created)
      BY <1>2 DEF LoginWithCode
    <2>2. r.created \in BOOLEAN /\ r.user \in User
      BY DEF Redemption
    <2>3. PICK made \in BOOLEAN : OneFactor(r.user, ch, made)
      BY <2>1, <2>2, LoginResponseOpens, Zenon
    <2>4. \A d \in Cid, q \in Redemption :
             Redeem(d, q) => OfPurpose(d, "login") /\ q.user = r.user
      BY <2>1, OneRedemption
    <2>. QED  BY <2>2, <2>3, <2>4
  <1>3. ASSUME NEW t \in Pid, NEW m \in {"totp", "recovery_code"},
               SecondWithFactor(t, m)
        PROVE  Own
    BY <1>3 DEF SecondWithFactor, Chosen, Spend, OwnFactor
  <1>4. ASSUME NEW t \in Pid, NEW m \in Method, NEW c \in Cid, NEW r \in Redemption,
               SecondWithCode(t, m, c, r)
        PROVE  Code
    BY <1>4 DEF SecondWithCode, Chosen, Spend, CodeFactor
  <1>. HIDE DEF Alone, Own, Code
  <1>5. ASSUME NEW c \in Cid, Request(c) \/ Lapse(c)  PROVE FALSE
    BY <1>5 DEF Request, RequestLogin, RequestReset, RequestResetUnknown, Lapse,
                RequestContactVerification, RequestSecond, Sent
  <1>6. ASSUME NEW c \in Cid, Present(c)  PROVE Alone \/ Code
    <2>1. PICK r \in Redemption :
             \/ LoginWithCode(c, r)
             \/ \E accepted \in BOOLEAN : ConfirmReset(c, r, accepted)
             \/ \E u \in User : ConfirmContact(c, r, u)
             \/ \E t \in Pid, m \in Method : SecondWithCode(t, m, c, r)
      BY <1>6 DEF Present, Redemption
    <2>. QED  BY <1>2, <1>4, <2>1 DEF ConfirmReset, ConfirmContact
  <1>7. ASSUME \/ \E u \in User : SignUp(u)
               \/ \E u \in User, ch \in Channel :
                     \E v \in ValueOf(ch) \cup {None} : ChangeContact(u, ch, v)
               \/ \E u \in User, m \in {"totp", "recovery_code"} : ChangeFactor(u, m)
               \/ \E u \in User, m \in Method : DisableContact(u, m)
               \/ \E u \in User : Distrust(u)
               \/ \E t \in Pid : Expire(t)
        PROVE  FALSE
    BY <1>7 DEF SignUp, ChangeContact, ChangeFactor, DisableContact, Distrust, Expire
  <1>8. Alone \/ Own \/ Code
    BY <1>1, <1>3, <1>5, <1>6, <1>7 DEF Next
  <1>. QED  BY <1>8 DEF Alone, Own, Code

-----------------------------------------------------------------------------
LEMMA NextNoDegrading ==
    TypeOK /\ SentToAccounts /\ ContactsUnique /\ NoDegrading /\ [Next]_vars
       => NoDegrading'
  <1>. SUFFICES ASSUME TypeOK, SentToAccounts, ContactsUnique, NoDegrading, [Next]_vars
                PROVE  NoDegrading'
    OBVIOUS
  <1>1. CASE UNCHANGED vars
    BY <1>1 DEF vars, NoDegrading, Eligible, Enrolled
  <1>2. ASSUME NEW u \in User, NEW used \in {"password"} \cup Channel,
               NEW made \in BOOLEAN, OneFactor(u, used, made)
        PROVE  NoDegrading'
    <2>1. settings' = settings
      BY SettingsKept
    <2>2. CASE /\ session' = [user |-> u, first |-> used, second |-> None,
                              for |-> None, created |-> made]
               /\ \/ made = TRUE \/ settings.policy = "off"
                  \/ Eligible(u, used)' = {} /\ ~Required(u)
      <3>1. /\ session'.user = u /\ session'.first = used
            /\ session'.second # "trusted_device" /\ session'.created = made
        BY <2>2, AccountsAssumption
      <3>2. CASE made = TRUE
        BY <3>1, <3>2 DEF NoDegrading
      <3>3. CASE settings.policy = "off"
        BY <2>1, <3>1, <3>3 DEF NoDegrading
      <3>4. CASE Eligible(u, used)' = {} /\ ~Required(u)
        <4>1. Eligible(session.user, session.first)' = {}
          BY <3>1, <3>4 DEF Eligible, Enrolled
        <4>2. settings.policy # "required"
              /\ (settings.policy = "staff_only" => u \notin Staff)
          BY <3>4 DEF Required
        <4>. QED  BY <2>1, <3>1, <4>1, <4>2 DEF NoDegrading
      <3>. QED  BY <2>2, <3>2, <3>3, <3>4
    <2>3. CASE /\ session' = [user |-> u, first |-> used, second |-> "trusted_device",
                              for |-> None, created |-> FALSE]
               /\ Skips(u) /\ trusted' = trusted
      <3>1. session'.user = u /\ session'.second = "trusted_device"
            /\ session'.second # None
        BY <2>3, AccountsAssumption
      <3>. QED  BY <2>1, <2>3, <3>1 DEF NoDegrading, Skips
    <2>. QED  BY <1>2, <2>2, <2>3 DEF OneFactor, Open
  <1>3. ASSUME NEW t \in Pid, NEW m \in {"totp", "recovery_code"}, OwnFactor(t, m)
        PROVE  NoDegrading'
    BY <1>3, AccountsAssumption DEF OwnFactor, Open, NoDegrading
  <1>4. ASSUME NEW t \in Pid, NEW c \in Cid, NEW r \in Redemption, CodeFactor(t, c, r)
        PROVE  NoDegrading'
    <2>1. challenge[c].channel \notin {None, "trusted_device"}
      BY <1>4, RedeemType, AccountsAssumption DEF CodeFactor, Channel
    <2>. QED  BY <1>4, <2>1 DEF CodeFactor, Open, NoDegrading
  <1>5. CASE session' = None
    BY <1>5 DEF NoDegrading
  <1>. QED  BY <1>1, <1>2, <1>3, <1>4, <1>5, SessionHow

LEMMA NextSameChannelOnlyBorrowed ==
    TypeOK /\ SentToAccounts /\ ContactsUnique /\ BorrowedOnly
    /\ SameChannelOnlyBorrowed /\ [Next]_vars
       => SameChannelOnlyBorrowed'
  <1>. SUFFICES ASSUME TypeOK, SentToAccounts, ContactsUnique, BorrowedOnly,
                       SameChannelOnlyBorrowed, [Next]_vars
                PROVE  SameChannelOnlyBorrowed'
    OBVIOUS
  <1>0. settings' = settings
    BY SettingsKept
  <1>1. CASE UNCHANGED vars
    BY <1>1 DEF vars, SameChannelOnlyBorrowed
  <1>2. ASSUME NEW u \in User, NEW used \in {"password"} \cup Channel,
               NEW made \in BOOLEAN, OneFactor(u, used, made)
        PROVE  SameChannelOnlyBorrowed'
    <2>1. used # None /\ used # "trusted_device"
      BY AccountsAssumption DEF Channel
    <2>2. session'.first = used /\ session'.second \in {None, "trusted_device"}
      BY <1>2 DEF OneFactor, Open
    <2>. QED  BY <2>1, <2>2 DEF SameChannelOnlyBorrowed
  <1>3. ASSUME NEW t \in Pid, NEW m \in {"totp", "recovery_code"}, OwnFactor(t, m)
        PROVE  SameChannelOnlyBorrowed'
    <2>1. pending[t].primary \in Primary
      BY <1>3 DEF OwnFactor, TypeOK, Pending
    <2>2. ChannelOf(pending[t].primary) # m
      BY <2>1, PrimaryChannel DEF Channel
    <2>. QED  BY <1>3, <2>2 DEF OwnFactor, Open, SameChannelOnlyBorrowed
  <1>4. ASSUME NEW t \in Pid, NEW c \in Cid, NEW r \in Redemption, CodeFactor(t, c, r)
        PROVE  SameChannelOnlyBorrowed'
    <2>1. CASE settings.different = TRUE
      <3>1. /\ challenge[c].for # None
            /\ ChannelOf(challenge[c].for) # challenge[c].channel
        BY <1>4, <2>1 DEF CodeFactor, Redeem, Matches, OfPurpose, BorrowedOnly
      <3>2. /\ session'.second = challenge[c].channel
            /\ session'.for = challenge[c].for
        BY <1>4 DEF CodeFactor, Open
      <3>. QED  BY <3>1, <3>2 DEF SameChannelOnlyBorrowed, ChannelOf
    <2>2. CASE settings.different = FALSE
      BY <1>0, <2>2 DEF SameChannelOnlyBorrowed
    <2>. QED  BY <2>1, <2>2, AccountsAssumption DEF TypeOK, Settings
  <1>5. CASE session' = None
    BY <1>5 DEF SameChannelOnlyBorrowed
  <1>. QED  BY <1>1, <1>2, <1>3, <1>4, <1>5, SessionHow

-----------------------------------------------------------------------------
LEMMA InitIInv == Init => IInv
  <1>. SUFFICES ASSUME Init  PROVE IInv
    OBVIOUS
  <1>1. ContactsUnique
    BY DEF Init, ContactsUnique, NoContact
  <1>. QED
    BY <1>1, InitTypeOK DEF Init, IInv, BorrowedOnly, SentToAccounts, NoDegrading,
       SameChannelOnlyBorrowed

LEMMA NextIInv == IInv /\ [Next]_vars => IInv'
  BY NextTypeOK, NextBorrowedOnly, NextSentToAccounts, NextContactsUnique,
     NextNoDegrading, NextSameChannelOnlyBorrowed DEF IInv

(* The parts of the inductive invariant hold together in every reachable   *)
(* state: every code for a second factor was sent on a channel that fits   *)
(* its login (request of OtpService, called by TwoFactorOtpRequestView),   *)
(* every challenge is for an account there is, contact values are unique,  *)
(* and no session was opened with less than POLICY asks, but for the two   *)
(* exceptions login_response makes.                                        *)
THEOREM InductiveInvariant == Spec => []IInv
  BY InitIInv, NextIInv, PTL DEF Spec

(* No session is opened with one factor where POLICY or the account's own  *)
(* factors ask for two, except by the request that creates the account and *)
(* on a device the same account has had trusted and not revoked            *)
(* (login_response), for every setting.                                    *)
THEOREM NoDegradingHolds == Spec => []NoDegrading
  <1>1. IInv => NoDegrading
    BY DEF IInv
  <1>. QED  BY <1>1, InductiveInvariant, PTL

(* With REQUIRE_DIFFERENT_CHANNEL, two factors over one channel need a     *)
(* code that was asked for under a login over another channel              *)
(* (verify_second_factor, eligible_methods).                               *)
THEOREM SameChannelOnlyBorrowedHolds == Spec => []SameChannelOnlyBorrowed
  <1>1. IInv => SameChannelOnlyBorrowed
    BY DEF IInv
  <1>. QED  BY <1>1, InductiveInvariant, PTL

-----------------------------------------------------------------------------
(* What verifies a contact, and what gives an account a password.          *)
LEMMA WhoVerifies ==
    ASSUME TypeOK, Next, NEW x \in verified' \ verified
    PROVE  \E c \in Cid, r \in Redemption :
              /\ Redeem(c, r) /\ challenge[c].user \in {x[1], None}
              /\ <<challenge[c].channel, challenge[c].sentTo>> = <<x[2], x[3]>>
              /\ challenge[c].user # None => challenge[c].purpose = "verify_contact"
  <1>. DEFINE Goal ==
           \E c \in Cid, r \in Redemption :
              /\ Redeem(c, r) /\ challenge[c].user \in {x[1], None}
              /\ <<challenge[c].channel, challenge[c].sentTo>> = <<x[2], x[3]>>
              /\ challenge[c].user # None => challenge[c].purpose = "verify_contact"
  <1>1. ASSUME NEW c \in Cid, NEW r \in Redemption, Redeem(c, r),
               verified' = Proven(c, r.user)
        PROVE  Goal
    <2>1. /\ challenge[c].user = None
          /\ x = <<r.user, challenge[c].channel, challenge[c].sentTo>>
      BY <1>1 DEF Proven
    <2>. QED  BY <1>1, <2>1
  <1>2. ASSUME NEW c \in Cid, NEW r \in Redemption, NEW u \in User,
               ConfirmContact(c, r, u)
        PROVE  Goal
    <2>1. CASE verified' = Proven(c, r.user)
      BY <1>1, <1>2, <2>1 DEF ConfirmContact
    <2>2. CASE /\ OfPurpose(c, "verify_contact") /\ r.user = u
               /\ verified' = Proven(c, r.user) \cup {VerifiedNow(c, u)}
      <3>1. x = <<u, challenge[c].channel, challenge[c].sentTo>>
        BY <2>2 DEF Proven, VerifiedNow
      <3>2. Redeem(c, r) /\ r \in Redeemed(c)
        BY <1>2 DEF ConfirmContact, Redeem
      <3>3. challenge[c].user # None => r = [user |-> challenge[c].user, created |-> FALSE]
        BY <3>2 DEF Redeemed
      <3>4. challenge[c].user # None => challenge[c].user = u
        BY <2>2, <3>3
      <3>. QED  BY <2>2, <3>1, <3>2, <3>4 DEF OfPurpose
    <2>. QED  BY <1>2, <2>1, <2>2 DEF ConfirmContact
  <1>. HIDE DEF Goal
  <1>3. ASSUME NEW c \in Cid, Present(c)  PROVE Goal
    <2>1. PICK r \in Redemption :
             \/ LoginWithCode(c, r)
             \/ \E accepted \in BOOLEAN : ConfirmReset(c, r, accepted)
             \/ \E u \in User : ConfirmContact(c, r, u)
             \/ \E t \in Pid, m \in Method : SecondWithCode(t, m, c, r)
      BY <1>3 DEF Present, Redemption
    <2>. QED  BY <1>1, <1>2, <2>1 DEF LoginWithCode, ConfirmReset, SecondWithCode
  <1>4. ASSUME NEW c \in Cid, Request(c) \/ Lapse(c)  PROVE FALSE
    BY <1>4 DEF Request, RequestLogin, RequestReset, RequestResetUnknown, Lapse,
                RequestContactVerification, RequestSecond, Sent, facts
  <1>5. Goal
    BY <1>3, <1>4 DEF Next, SecondWithFactor, SignUp, LoginWithPassword, facts,
                ChangeContact, ChangeFactor, DisableContact, Distrust, Expire
  <1>. QED  BY <1>5 DEF Goal

(* A contact becomes verified for an account only when a code sent to that *)
(* very value is redeemed, by that account or for one that was nobody's    *)
(* when it was sent (VerificationService, OtpService.verify).              *)
THEOREM VerifiedByCodeHolds == Spec => VerifiedByCode
  <1>. DEFINE Step == \A x \in verified' \ verified :
          \E c \in Cid :
              /\ challenge[c] # None /\ challenge'[c] = None
              /\ challenge[c].user \in {x[1], None}
              /\ <<challenge[c].channel, challenge[c].sentTo>> = <<x[2], x[3]>>
  <1>1. IInv /\ [Next]_vars => [Step]_vars
    <2>. SUFFICES ASSUME IInv, Next, NEW x \in verified' \ verified
                  PROVE  \E c \in Cid :
              /\ challenge[c] # None /\ challenge'[c] = None
              /\ challenge[c].user \in {x[1], None}
              /\ <<challenge[c].channel, challenge[c].sentTo>> = <<x[2], x[3]>>
      OBVIOUS
    <2>1. PICK c \in Cid, r \in Redemption :
              /\ Redeem(c, r) /\ challenge[c].user \in {x[1], None}
              /\ <<challenge[c].channel, challenge[c].sentTo>> = <<x[2], x[3]>>
      BY WhoVerifies DEF IInv
    <2>2. challenge[c] # None /\ challenge'[c] = None
      BY <2>1 DEF IInv, TypeOK, Redeem
    <2>. QED  BY <2>1, <2>2
  <1>. QED  BY <1>1, InductiveInvariant, PTL DEF Spec, VerifiedByCode

LEMMA WhoResets ==
    ASSUME TypeOK, SentToAccounts, Next, NEW u \in password' \ password
    PROVE  \/ SignUp(u)
           \/ \E c \in Cid, r \in Redemption :
                 /\ Redeem(c, r) /\ OfPurpose(c, "password_reset")
                 /\ r.user = u /\ u \in exists
  <1>1. ASSUME NEW c \in Cid, NEW r \in Redemption, NEW accepted \in BOOLEAN,
               ConfirmReset(c, r, accepted)
        PROVE  /\ Redeem(c, r) /\ OfPurpose(c, "password_reset")
               /\ r.user = u /\ u \in exists
    <2>1. Redeem(c, r) /\ Resets(c, r) /\ r.user = u
      BY <1>1 DEF ConfirmReset
    <2>2. OfPurpose(c, "password_reset") /\ r.created = FALSE
      BY <2>1 DEF Resets, Redemption
    <2>. QED  BY <2>1, <2>2, RedeemedUser
  <1>2. ASSUME NEW c \in Cid, Present(c)
        PROVE  \E r \in Redemption, accepted \in BOOLEAN : ConfirmReset(c, r, accepted)
    BY <1>2 DEF Present, Redemption, LoginWithCode, ConfirmContact, SecondWithCode
  <1>3. ASSUME NEW c \in Cid, Request(c) \/ Lapse(c)  PROVE FALSE
    BY <1>3 DEF Request, RequestLogin, RequestReset, RequestResetUnknown, Lapse,
                RequestContactVerification, RequestSecond, Sent, facts
  <1>4. ASSUME NEW w \in User, SignUp(w)  PROVE SignUp(u)
    <2>1. w = u
      BY <1>4 DEF SignUp
    <2>. QED  BY <1>4, <2>1
  <1>5. CASE \E c \in Cid : Request(c) \/ Present(c) \/ Lapse(c)
    BY <1>1, <1>2, <1>3, <1>5
  <1>6. CASE \E w \in User : SignUp(w)
    BY <1>4, <1>6
  <1>. QED
    BY <1>5, <1>6 DEF Next, SecondWithFactor, LoginWithPassword, facts,
                ChangeContact, ChangeFactor, DisableContact, Distrust, Expire

(* No reset gives a password to an account that did not exist before the   *)
(* step (PasswordService.confirm_reset after OtpService.verify).           *)
THEOREM ResetNeedsAccountHolds == Spec => ResetNeedsAccount
  <1>1. IInv /\ [Next]_vars
           => [\A u \in password' \ password : u \in exists \/ SignUp(u)]_vars
    BY WhoResets DEF IInv, vars
  <1>. QED  BY <1>1, InductiveInvariant, PTL DEF Spec, ResetNeedsAccount

(* A step that redeems a code takes no contact and no password away.       *)
LEMMA RedeemingOnlyAdds ==
    ASSUME TypeOK, Next, NEW c \in Cid, NEW r \in Redemption, Redeem(c, r)
    PROVE  verified \subseteq verified' /\ password \subseteq password'
  <1>1. challenge' # challenge
    BY DEF Redeem, TypeOK
  <1>2. ASSUME NEW d \in Cid, Present(d)
        PROVE  verified \subseteq verified' /\ password \subseteq password'
    BY <1>2 DEF Present, LoginWithCode, ConfirmReset, ConfirmContact, SecondWithCode,
                Proven
  <1>3. ASSUME NEW d \in Cid, Request(d) \/ Lapse(d)
        PROVE  verified \subseteq verified' /\ password \subseteq password'
    BY <1>3 DEF Request, RequestLogin, RequestReset, RequestResetUnknown, Lapse,
                RequestContactVerification, RequestSecond, Sent, facts
  <1>. QED
    BY <1>1, <1>2, <1>3 DEF Next, SecondWithFactor, SignUp, LoginWithPassword, facts,
                ChangeContact, ChangeFactor, DisableContact, Distrust, Expire

LEMMA RedeemedFor ==
    ASSUME IInv, Next, NEW c \in Cid, NEW r \in Redemption, Redeem(c, r)
    PROVE  /\ (session' # None /\ session'.second \in Channel)
                 => challenge[c].purpose = "two_factor" /\ r.user = session'.user
           /\ (session' # None /\ session'.second \in {None, "trusted_device"})
                 => challenge[c].purpose = "login" /\ r.user = session'.user
           /\ password' # password => challenge[c].purpose = "password_reset"
           /\ (verified' # verified /\ challenge[c].user # None)
                 => challenge[c].purpose = "verify_contact"
  <1>. USE DEF IInv
  <1>1. ASSUME session' # None
        PROVE  /\ session'.second \in Channel
                    => challenge[c].purpose = "two_factor" /\ r.user = session'.user
               /\ session'.second \in {None, "trusted_device"}
                    => challenge[c].purpose = "login" /\ r.user = session'.user
    <2>1. ASSUME NEW u \in User, NEW used, NEW made, OneFactor(u, used, made),
                 OfPurpose(c, "login"), r.user = u
          PROVE  /\ session'.second \notin Channel
                 /\ challenge[c].purpose = "login" /\ r.user = session'.user
      <3>1. session'.second \in {None, "trusted_device"} /\ session'.user = u
        BY <2>1 DEF OneFactor, Open
      <3>. QED  BY <2>1, <3>1, AccountsAssumption DEF OfPurpose, Channel
    <2>2. ASSUME NEW t \in Pid, NEW m \in {"totp", "recovery_code"},
                 OwnFactor(t, m)
          PROVE  session'.second \notin Channel \cup {None, "trusted_device"}
      BY <2>2, AccountsAssumption DEF OwnFactor, Open, Channel
    <2>3. ASSUME NEW t \in Pid, NEW d \in Cid, NEW q \in Redemption,
                 CodeFactor(t, d, q)
          PROVE  /\ session'.second \notin {None, "trusted_device"}
                 /\ challenge[c].purpose = "two_factor" /\ r.user = session'.user
      <3>1. c = d /\ r.user = q.user
        BY <2>3, OneRedemption DEF CodeFactor
      <3>2. challenge[d].channel \notin {None, "trusted_device"}
        BY <2>3, RedeemType, AccountsAssumption DEF CodeFactor, Channel
      <3>. QED  BY <2>3, <3>1, <3>2 DEF CodeFactor, Open, Matches, OfPurpose
    <2>. QED  BY <1>1, <2>1, <2>2, <2>3, SessionHow
  <1>2. ASSUME password' # password  PROVE challenge[c].purpose = "password_reset"
    <2>1. PICK u \in password' \ password : TRUE
      BY <1>2, RedeemingOnlyAdds
    <2>2. ~SignUp(u)
      BY DEF SignUp, Redeem, TypeOK
    <2>3. PICK d \in Cid, q \in Redemption :
             Redeem(d, q) /\ OfPurpose(d, "password_reset")
      BY <2>1, <2>2, WhoResets
    <2>. QED  BY <2>3, OneRedemption DEF OfPurpose
  <1>3. ASSUME verified' # verified, challenge[c].user # None
        PROVE  challenge[c].purpose = "verify_contact"
    <2>1. PICK x \in verified' \ verified : TRUE
      BY <1>3, RedeemingOnlyAdds
    <2>2. PICK d \in Cid, q \in Redemption :
             /\ Redeem(d, q)
             /\ challenge[d].user # None => challenge[d].purpose = "verify_contact"
      BY <2>1, WhoVerifies
    <2>. QED  BY <1>3, <2>2, OneRedemption
  <1>. QED  BY <1>1, <1>2, <1>3

(* A code does only the work of its purpose, for the account it opens, at  *)
(* whichever endpoint it is presented (the callers of OtpService.verify).  *)
THEOREM CodesKeepPurposeHolds == Spec => CodesKeepPurpose
  <1>1. IInv /\ [Next]_vars =>
           [\A c \in Cid, r \in [user : User, created : BOOLEAN] :
              Redeem(c, r) =>
                /\ (session' # None /\ session'.second \in Channel)
                      => challenge[c].purpose = "two_factor" /\ r.user = session'.user
                /\ (session' # None /\ session'.second \in {None, "trusted_device"})
                      => challenge[c].purpose = "login" /\ r.user = session'.user
                /\ password' # password => challenge[c].purpose = "password_reset"
                /\ (verified' # verified /\ challenge[c].user # None)
                      => challenge[c].purpose = "verify_contact"]_vars
    BY RedeemedFor DEF Redemption
  <1>. QED  BY <1>1, InductiveInvariant, PTL DEF Spec, CodesKeepPurpose

=============================================================================
