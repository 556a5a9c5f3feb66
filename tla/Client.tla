------------------------------- MODULE Client -------------------------------
(***************************************************************************)
(* The browser side: the tabs of one browser share the HttpOnly refresh    *)
(* cookie and nothing else.  Each tab keeps its own access token           *)
(* (authStore.ts), at most one refresh on the wire (refresh.ts), and calls *)
(* that fetch a header first (authHeaderSource.ts), and refresh and try    *)
(* again after a 401 (withAuthRetry.ts).  Tabs tell each other only        *)
(* "logged-out".                                                           *)
(*                                                                         *)
(* The server is TokenFamily, which Sessions implements: rotation with     *)
(* reuse detection.  The browser attaches the cookie when a request leaves *)
(* and stores the new one when the response arrives; a tab runs one        *)
(* callback at a time, so that each callback is an action.                 *)
(***************************************************************************)
EXTENDS Naturals, FiniteSets

CONSTANTS Tab,
          Slot,               \* calls that a tab may have under way at a time
          Sid,
          None,
          MayLose,            \* may a response be lost?
          MaxCalls            \* bound: calls made in all

ASSUME ClientAssumption ==
    /\ MayLose \in BOOLEAN /\ MaxCalls \in Nat
    /\ Tab \cap (Tab \X Slot) = {}
    /\ None \notin [sid : Sid, gen : Nat]

VARIABLES status, generation, served,   \* the server
          cookie,             \* the refresh cookie of the browser
          expired,            \* access tokens whose exp has passed
          token,              \* authStore: the access token of each tab
          inbox,              \* "logged-out" messages a tab has yet to handle
          call,               \* what each call is waiting for
          request,            \* what is on the wire for each tab and call
          started,            \* how many calls there were
          reused,             \* history: sessions on which reuse was detected
          excused,            \* history: sessions two refreshes of which were
                              \* on the wire at once, or lost an answer
          gone                \* history: sessions whose logout was announced
                              \* with none of their tokens on the wire

server == <<status, generation, served>>
vars == <<server, cookie, expired, token, inbox, call, request, started,
          reused, excused, gone>>

Family == INSTANCE TokenFamily

-----------------------------------------------------------------------------
(* Types.                                                                  *)

(* A refresh or an access token: its session, and the rotation that minted *)
(* it.                                                                     *)
Token == [sid : Sid, gen : Nat]
Maybe == Token \cup {None}

CallId == Tab \X Slot
TabOf(c) == c[1]
Requester == Tab \cup CallId            \* a tab: its refresh.ts

Kind == {"api", "login", "logout", "logout_all", "refresh"}
CallState == [kind : Kind,
              at : {"idle", "header", "ready", "sent", "retry"},
              try : 1..2,               \* 2: the one retry
              auth : Maybe]             \* its Authorization header
CallAt(k, at, try, auth) == [kind |-> k, at |-> at, try |-> try, auth |-> auth]
NoCall == CallAt("api", "idle", 1, None)

Request == [at : {"none", "sent", "granted", "refused"},  \* refused: a 401
            cookie : Maybe,             \* presented to /token/refresh/
            answer : Maybe]             \* tokens the answer carries
NoRequest == [at |-> "none", cookie |-> None, answer |-> None]
Sent(k) == [at |-> "sent", cookie |-> k, answer |-> None]

TypeOK ==
    /\ status \in [Sid -> {"unborn", "live", "dead"}]
    /\ generation \in [Sid -> Nat]
    /\ served \subseteq [sid : Sid, jti : Nat]
    /\ cookie \in Maybe
    /\ expired \subseteq Token
    /\ token \in [Tab -> Maybe]
    /\ inbox \in [Tab -> Nat]
    /\ call \in [CallId -> CallState]
    /\ request \in [Requester -> Request]
    /\ started \in 0..MaxCalls
    /\ reused \subseteq Sid /\ excused \subseteq Sid /\ gone \subseteq Sid

Init ==
    /\ Family!FamilyInit
    /\ cookie = None /\ expired = {}
    /\ token = [t \in Tab |-> None] /\ inbox = [t \in Tab |-> 0]
    /\ call = [c \in CallId |-> NoCall]
    /\ request = [r \in Requester |-> NoRequest]
    /\ started = 0
    /\ reused = {} /\ excused = {} /\ gone = {}

-----------------------------------------------------------------------------
(* A request leaves.  OnWire: the refreshes of a session under way.        *)
Of(k, s) == k \in Token /\ k.sid = s
OnWire(s) == {r \in Requester : Of(request[r].cookie, s)}
InCookie(s) == Of(cookie, s)

Present(r) ==
    /\ request' = [request EXCEPT ![r] = Sent(cookie)]
    /\ excused' = excused \cup {s \in Sid : InCookie(s) /\ OnWire(s) # {}}

(* refreshAccessToken: the refresh under way, if there is one.             *)
Join(t) == IF request[t].at = "none" THEN Present(t)
           ELSE UNCHANGED <<request, excused>>

(* authHeaderSource: the token at hand, unless there is none or the tab's  *)
(* clock says that it is about to expire, which it may say at any time.    *)
Start(c, k) ==
    /\ call[c] = NoCall /\ started < MaxCalls
    /\ started' = started + 1
    /\ \/ /\ token[TabOf(c)] # None
          /\ call' = [call EXCEPT ![c] = CallAt(k, "ready", 1, token[TabOf(c)])]
          /\ UNCHANGED <<request, excused>>
       \/ /\ call' = [call EXCEPT ![c] = CallAt(k, "header", 1, None)]
          /\ Join(TabOf(c))
    /\ UNCHANGED <<server, cookie, expired, token, inbox, reused, gone>>

Depart(c) ==
    /\ call[c].at = "ready"
    /\ call' = [call EXCEPT
                  ![c] = CallAt(call[c].kind, "sent", call[c].try, call[c].auth)]
    /\ IF call[c].kind = "refresh" THEN Present(c)
       ELSE /\ request' = [request EXCEPT ![c] = Sent(None)]
            /\ UNCHANGED excused
    /\ UNCHANGED <<server, cookie, expired, token, inbox, started, reused, gone>>

-----------------------------------------------------------------------------
(* The server.                                                             *)
Reply(r, at, k) ==
    request' = [request EXCEPT ![r] = [at |-> at, cookie |-> request[r].cookie,
                                       answer |-> k]]

(* JWTAuthentication refuses an expired token wherever it is presented.    *)
Refused(c) == call[c].auth \in expired
Authentic(c) == call[c].auth # None /\ ~Refused(c)

IsRefresh(r) == \/ r \in Tab
                \/ r \in CallId /\ call[r].kind = "refresh" /\ ~Refused(r)

Unserved == UNCHANGED <<cookie, expired, token, inbox, call, started, excused, gone>>

(* TokenRefreshView.  The presented token is redeemed, or is one of a live *)
(* session that was redeemed before, or neither.                           *)
Current(k) == k.gen = generation[k.sid]

ServeRefresh(r) ==
    LET k == request[r].cookie
    IN  /\ request[r].at = "sent" /\ IsRefresh(r)
        /\ \/ /\ k \in Token /\ status[k.sid] = "live" /\ Current(k)
              /\ Family!Redeem(k.sid)
              /\ Reply(r, "granted", [sid |-> k.sid, gen |-> generation[k.sid] + 1])
              /\ UNCHANGED reused
           \/ /\ k \in Token /\ status[k.sid] = "live" /\ ~Current(k)
              /\ Family!Close({k.sid})
              /\ reused' = reused \cup {k.sid}
              /\ Reply(r, "refused", None)
           \/ /\ k \in Token => status[k.sid] # "live"
              /\ Reply(r, "refused", None)
              /\ UNCHANGED <<server, reused>>
        /\ Unserved

(* The other views.  A login opens a session or is refused; a logout ends  *)
(* its own session and is answered alike when that had ended before.       *)
Close(S) == LET live == {s \in S : status[s] = "live"}
            IN  IF live = {} THEN UNCHANGED server ELSE Family!Close(live)

Pending(c, k) == request[c].at = "sent" /\ call[c].kind = k

ServeLogin(c) ==
    /\ Pending(c, "login") /\ ~Refused(c)
    /\ \E s \in Sid : /\ Family!Open(s)
                      /\ Reply(c, "granted", [sid |-> s, gen |-> generation[s]])
    /\ Unserved /\ UNCHANGED reused

ServeLogout(c) ==
    /\ Authentic(c)
    /\ \/ Pending(c, "logout") /\ Close({call[c].auth.sid})
       \/ Pending(c, "logout_all") /\ Close(Sid)
    /\ Reply(c, "granted", None)
    /\ Unserved /\ UNCHANGED reused

ServeApi(c) ==
    /\ Pending(c, "api") /\ Authentic(c)
    /\ Reply(c, "granted", None)
    /\ Unserved /\ UNCHANGED <<server, reused>>

(* 401: no token, an expired token, or wrong credentials.                  *)
Refuse(c) ==
    /\ request[c].at = "sent"
    /\ ~Authentic(c) \/ call[c].kind = "login"
    /\ call[c].kind = "refresh" => Refused(c)
    /\ Reply(c, "refused", None)
    /\ Unserved /\ UNCHANGED <<server, reused>>

(* A session ends by itself: it expires or is revoked elsewhere.           *)
EndSession(s) ==
    /\ status[s] = "live" /\ Family!Close({s})
    /\ Unserved /\ UNCHANGED <<request, reused>>

Held(k) == \/ \E t \in Tab : token[t] = k
           \/ \E c \in CallId : call[c].auth = k

Expire(k) ==
    /\ k \notin expired /\ Held(k)
    /\ expired' = expired \cup {k}
    /\ UNCHANGED <<server, cookie, token, inbox, call, request, started,
                   reused, excused, gone>>

-----------------------------------------------------------------------------
(* Answers arrive.  Adopt: the browser stores the cookie, the tab the      *)
(* access token.  Clear: clear() is silent in a tab that has no token.     *)
MutAdopt(t, k) == /\ cookie' = IF InCookie(k.sid) THEN cookie ELSE k
                  /\ token' = [token EXCEPT ![t] = k]
                  /\ UNCHANGED inbox
Adopt(t, k) == /\ cookie' = k
               /\ token' = [token EXCEPT ![t] = k]
               /\ UNCHANGED inbox

MutClear(t) == /\ token' = [token EXCEPT ![t] = None]
               /\ UNCHANGED inbox
Clear(t) ==
    /\ token' = [token EXCEPT ![t] = None]
    /\ inbox' = [u \in Tab |-> IF u # t /\ token[t] # None THEN inbox[u] + 1
                               ELSE inbox[u]]

MutWaiting(t) == {c \in CallId : TabOf(c) = t /\ call[c].at = "header"}
Waiting(t) == {c \in CallId : TabOf(c) = t /\ call[c].at \in {"header", "retry"}}

(* What becomes of a call when the refresh it waits for has ended.         *)
Resume(c, k) ==
    IF call[c].at = "header" THEN CallAt(call[c].kind, "ready", 1, k)
    ELSE IF k # None THEN CallAt(call[c].kind, "ready", 2, k)
    ELSE NoCall

(* performRefresh, its response there, and all who wait for it.            *)
RefreshArrives(t) ==
    /\ request[t].at \in {"granted", "refused"}
    /\ request' = [request EXCEPT ![t] = NoRequest]
    /\ call' = [c \in CallId |-> IF c \in Waiting(t) THEN Resume(c, request[t].answer)
                                 ELSE call[c]]
    /\ \/ request[t].at = "granted" /\ Adopt(t, request[t].answer)
       \/ request[t].at = "refused" /\ Clear(t) /\ UNCHANGED cookie
    /\ UNCHANGED <<server, expired, started, reused, excused, gone>>

(* The request or its response is lost: refreshAccessToken rejects, and so *)
(* does every call that waits for it.                                      *)
Lost(r) == {s \in Sid : Of(request[r].answer, s)}

LoseRefresh(t) ==
    /\ MayLose /\ request[t].at # "none"
    /\ request' = [request EXCEPT ![t] = NoRequest]
    /\ call' = [c \in CallId |-> IF c \in Waiting(t) THEN NoCall ELSE call[c]]
    /\ excused' = excused \cup Lost(t)
    /\ UNCHANGED <<server, cookie, expired, token, inbox, started, reused, gone>>

LoseCall(c) ==
    /\ MayLose /\ request[c].at # "none"
    /\ request' = [request EXCEPT ![c] = NoRequest]
    /\ call' = [call EXCEPT ![c] = NoCall]
    /\ excused' = excused \cup Lost(c)
    /\ UNCHANGED <<server, cookie, expired, token, inbox, started, reused, gone>>

(* A call is answered.  Success: useLogin, useOtpVerify, useVerifyTwoFactor *)
(* and useRefreshToken adopt, useLogout and useLogoutAll clear.             *)
Granted(c) == request[c].at = "granted"
MutDenied(c, try) == request[c].at = "refused"
Denied(c, try) == request[c].at = "refused" /\ call[c].try = try
End(c) == /\ call' = [call EXCEPT ![c] = NoCall]
          /\ request' = [request EXCEPT ![c] = NoRequest]
Settled == UNCHANGED <<server, expired, started, reused>>

CallDone(c) ==
    /\ Granted(c)
    /\ call[c].kind \in {"api", "login", "refresh"}
    /\ \/ request[c].answer # None /\ Adopt(TabOf(c), request[c].answer)
       \/ request[c].answer = None /\ UNCHANGED <<cookie, token, inbox>>
    /\ End(c)
    /\ Settled /\ UNCHANGED <<excused, gone>>

Carried(s) == \E r \in Requester : Of(request[r].answer, s)

LogoutDone(c) ==
    LET s == call[c].auth.sid
    IN  /\ Granted(c)
        /\ call[c].kind \in {"logout", "logout_all"}
        /\ cookie' = None
        /\ Clear(TabOf(c))
        /\ gone' = IF token[TabOf(c)] = None \/ Carried(s) THEN gone
                   ELSE gone \cup {s}
        /\ End(c)
        /\ Settled /\ UNCHANGED excused

(* ... or with a 401: refresh and retry, once.                             *)
RetryAfter401(c) ==
    /\ Denied(c, 1)
    /\ call' = [call EXCEPT ![c] = CallAt(call[c].kind, "retry", 1, None)]
    /\ IF request[TabOf(c)].at # "none"
       THEN request' = [request EXCEPT ![c] = NoRequest] /\ UNCHANGED excused
       ELSE /\ request' = [request EXCEPT ![c] = NoRequest, ![TabOf(c)] = Sent(cookie)]
            /\ excused' = excused \cup
                            {s \in Sid : InCookie(s) /\ OnWire(s) \ {c} # {}}
    /\ Settled /\ UNCHANGED <<cookie, token, inbox, gone>>

GiveUp(c) ==
    /\ Denied(c, 2)
    /\ Clear(TabOf(c))
    /\ End(c)
    /\ Settled /\ UNCHANGED <<cookie, excused, gone>>

(* channel.onmessage: clearLocal, which does not broadcast.                *)
Hear(t) ==
    /\ inbox[t] > 0
    /\ inbox' = [inbox EXCEPT ![t] = @ - 1]
    /\ token' = [token EXCEPT ![t] = None]
    /\ UNCHANGED <<server, cookie, expired, call, request, started, reused,
                   excused, gone>>

-----------------------------------------------------------------------------
Serve(c) == ServeLogin(c) \/ ServeLogout(c) \/ ServeApi(c) \/ Refuse(c)
Arrive(c) == CallDone(c) \/ LogoutDone(c) \/ RetryAfter401(c) \/ GiveUp(c)

Next ==
    \/ \E c \in CallId, k \in Kind : Start(c, k)
    \/ \E c \in CallId : Depart(c) \/ Serve(c) \/ Arrive(c) \/ LoseCall(c)
    \/ \E r \in Requester : ServeRefresh(r)
    \/ \E t \in Tab : RefreshArrives(t) \/ LoseRefresh(t) \/ Hear(t)
    \/ \E s \in Sid : EndSession(s)
    \/ \E s \in Sid, g \in 0..2 * MaxCalls : Expire([sid |-> s, gen |-> g])

Spec == Init /\ [][Next]_vars

(* The network delivers, the server answers and callbacks run.             *)
FairSpec ==
    /\ Spec
    /\ \A c \in CallId : WF_vars(Depart(c)) /\ WF_vars(Serve(c)) /\ WF_vars(Arrive(c))
    /\ \A r \in Requester : WF_vars(ServeRefresh(r))
    /\ \A t \in Tab : WF_vars(RefreshArrives(t))

-----------------------------------------------------------------------------
(* Properties.                                                             *)

(* The browser is taken for a thief only after two refreshes of one        *)
(* session were on the wire at once, which refresh.ts prevents within a    *)
(* tab but not between tabs, or an answer was lost.                        *)
ReuseOnlyOverlapped == reused \subseteq excused

(* "every tab re-derives its own access token by calling refresh against   *)
(* the shared HttpOnly cookie" (authStore.ts): the tabs' own refreshes     *)
(* never end the session they share.                                       *)
TabsNeverReuse == reused = {}

(* Once a logout was announced, a tab that still holds a token of that     *)
(* session has the announcement before it, unless the token was on the     *)
(* wire at that moment (clear, channel.onmessage).                         *)
TabsForget ==
    \A t \in Tab :
        (token[t] \in Token /\ token[t].sid \in gone) => inbox[t] > 0

(* Every call ends, whatever refresh it waits for: one that resolves,      *)
(* finds no session or rejects lets all of them go (refresh.ts).           *)
CallsEnd == \A c \in CallId : (call[c].at # "idle") ~> (call[c].at = "idle")

(* The server of these browsers is the one that Sessions implements.       *)
ImplementsFamily == Family!FamilySpec

(* Why every call ends.  A call that waits for a refresh waits for one     *)
(* that is under way in its tab, and one that was sent has its request or  *)
(* its answer on the wire (inFlightRefresh, withAuthRetry) ...             *)
NobodyWaitsInVain ==
    \A c \in CallId :
        /\ call[c].at \in {"header", "retry"} => request[TabOf(c)].at # "none"
        /\ call[c].at = "sent" => request[c].at # "none"

(* ... and each move takes it closer to its end: it refreshes for a header *)
(* before its first request only, and retries that once.                   *)
MovesLeft(x) ==
    CASE x.at = "idle" -> 0
      [] x.at = "sent" /\ x.try = 2 -> 1
      [] x.at = "ready" /\ x.try = 2 -> 2
      [] x.at = "retry" -> 3
      [] x.at = "sent" /\ x.try = 1 -> 4
      [] x.at = "ready" /\ x.try = 1 -> 5
      [] x.at = "header" -> 6

CallsAdvance ==
    [][\A c \in CallId :
          (call[c].at # "idle" /\ call'[c] # call[c])
             => MovesLeft(call'[c]) < MovesLeft(call[c])]_vars

(* The inductive invariant.  Of a session that is not excused, at most one *)
(* refresh is under way, and what the browser presents or will store is    *)
(* the generation that the server would redeem; a session not yet opened   *)
(* is spoken of nowhere, and one just opened only in the answer to its     *)
(* login; and a session that is gone has ended for good.                   *)
Fresh(k) == k.gen = generation[k.sid] \/ k.sid \in excused

Quiet ==
    /\ \A r \in Requester : request[r].at = "none" => request[r] = NoRequest
    /\ \A c \in CallId : call[c].at # "sent" => request[c] = NoRequest

OneOnWire ==
    \A s \in Sid : \A q, r \in OnWire(s) : q = r \/ s \in excused

PresentedFresh ==
    \A r \in Requester :
        (request[r].at = "sent" /\ request[r].cookie \in Token)
            => Fresh(request[r].cookie)

AnswersFresh ==
    \A r \in Requester : request[r].answer \in Token => Fresh(request[r].answer)

CookieFresh ==
    cookie \in Token => \/ Fresh(cookie)
                        \/ \E r \in OnWire(cookie.sid) :
                              Of(request[r].answer, cookie.sid)

AnswersOwn ==
    \A r \in Requester :
        LET q == request[r]
        IN  q.answer \in Token =>
               /\ q.at = "granted"
               /\ \/ Of(q.cookie, q.answer.sid)
                  \/ /\ OnWire(q.answer.sid) = {} /\ ~InCookie(q.answer.sid)
                     /\ \A p \in Requester : Of(request[p].answer, q.answer.sid) => p = r

UnbornUnheard ==
    \A s \in Sid :
        status[s] = "unborn" =>
            /\ ~InCookie(s) /\ OnWire(s) = {} /\ ~Carried(s)
            /\ \A c \in CallId : ~Of(call[c].auth, s)
            /\ \A t \in Tab : ~Of(token[t], s)

LogoutsEnd ==
    \A c \in CallId :
        ( /\ request[c].at = "granted"
          /\ call[c].kind \in {"logout", "logout_all"} )
            => call[c].auth \in Token /\ status[call[c].auth.sid] = "dead"

GoneEnded == \A s \in gone : status[s] = "dead" /\ ~Carried(s)

IInv ==
    /\ TypeOK /\ Quiet /\ NobodyWaitsInVain
    /\ OneOnWire /\ PresentedFresh /\ AnswersFresh /\ CookieFresh
    /\ AnswersOwn /\ UnbornUnheard /\ LogoutsEnd /\ GoneEnded
    /\ ReuseOnlyOverlapped
    /\ TabsForget

=============================================================================
