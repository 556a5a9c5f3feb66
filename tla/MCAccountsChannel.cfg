\* One account with both contacts verified, two logins over different channels.
CONSTANTS
    User = {u1}
    Staff = {u1}
    Email = {e1}
    Phone = {f1}
    Cid = {c1, c2}
    Pid = {t1, t2}
    None = None
    Policies = {"staff_only"}
    LoginCodes = {{"email_otp", "phone_otp"}}
    Provisioned = {{"email_otp"}}
    SecondFactors = {{"email_otp", "phone_otp"}}
    Differing = {TRUE}
    Trusting = {FALSE}
    Identifiers = {{"email"}}
    FirstReset = {"email"}
SPECIFICATION Spec
INVARIANTS
    DifferentChannels
CHECK_DEADLOCK FALSE
