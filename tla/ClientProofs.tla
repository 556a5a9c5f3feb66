---------------------------- MODULE ClientProofs ----------------------------
(***************************************************************************)
(* Proofs about Client, for every number of tabs, of calls a tab has under *)
(* way and of sessions, and whether or not anything is lost.               *)
(***************************************************************************)
EXTENDS Client, TLAPS

-----------------------------------------------------------------------------
(* A call and its tab are two requesters.                                  *)
LEMMA Callers ==
    /\ \A c \in CallId : c \in Requester /\ c \notin Tab
    /\ \A c \in CallId : TabOf(c) \in Tab /\ TabOf(c) \in Requester /\ TabOf(c) # c
    /\ \A t \in Tab : t \in Requester /\ t \notin CallId
  BY ClientAssumption DEF CallId, TabOf, Requester

LEMMA NoneIsNoToken == None \notin Token
  BY ClientAssumption DEF Token

(* The values that the actions write are of their types.                   *)
LEMMA CallTyped ==
    ASSUME NEW k \in Kind, NEW n \in 1..2, NEW a \in Maybe,
           NEW at \in {"idle", "header", "ready", "sent", "retry"}
    PROVE  CallAt(k, at, n, a) \in CallState
  BY DEF CallAt, CallState

LEMMA NoCallTyped == NoCall \in CallState
  BY DEF NoCall, CallAt, CallState, Maybe, Kind

LEMMA CallParts ==
    ASSUME NEW k, NEW at, NEW n, NEW a
    PROVE  /\ CallAt(k, at, n, a).kind = k /\ CallAt(k, at, n, a).at = at
           /\ CallAt(k, at, n, a).try = n /\ CallAt(k, at, n, a).auth = a
  BY DEF CallAt

LEMMA CallFields ==
    ASSUME NEW x \in CallState
    PROVE  /\ x.kind \in Kind /\ x.try \in 1..2 /\ x.auth \in Maybe
           /\ x.at \in {"idle", "header", "ready", "sent", "retry"}
  BY DEF CallState

LEMMA RequestTyped ==
    /\ NoRequest \in Request
    /\ \A k \in Maybe : Sent(k) \in Request
    /\ \A q \in Request, k \in Maybe :
          /\ [at |-> "granted", cookie |-> q.cookie, answer |-> k] \in Request
          /\ [at |-> "refused", cookie |-> q.cookie, answer |-> k] \in Request
  BY DEF NoRequest, Sent, Request, Maybe

LEMMA RequestFields ==
    ASSUME NEW q \in Request
    PROVE  /\ q.at \in {"none", "sent", "granted", "refused"}
           /\ q.cookie \in Maybe /\ q.answer \in Maybe
  BY DEF Request

LEMMA TokenTyped ==
    ASSUME NEW s \in Sid, NEW n \in Nat
    PROVE  /\ [sid |-> s, gen |-> n] \in Token /\ [sid |-> s, gen |-> n] \in Maybe
           /\ [sid |-> s, gen |-> n].sid = s /\ [sid |-> s, gen |-> n].gen = n
  BY DEF Token, Maybe

LEMMA TokenFields ==
    ASSUME NEW k \in Token
    PROVE  k.sid \in Sid /\ k.gen \in Nat
  BY DEF Token

-----------------------------------------------------------------------------
(* Every reachable state is well typed.                                    *)
LEMMA ResumeTyped ==
    ASSUME TypeOK, NEW c \in CallId, NEW k \in Maybe
    PROVE  Resume(c, k) \in CallState
  <1>1. call[c] \in CallState
    BY DEF TypeOK
  <1>. QED  BY <1>1, CallFields, CallTyped, NoCallTyped DEF Resume

LEMMA PresentTyped ==
    ASSUME TypeOK, NEW r \in Requester, Present(r)
    PROVE  request' \in [Requester -> Request] /\ excused' \subseteq Sid
  BY RequestTyped DEF TypeOK, Present

LEMMA ReplyTyped ==
    ASSUME TypeOK, NEW r \in Requester, NEW k \in Maybe,
           NEW a \in {"granted", "refused"}, Reply(r, a, k)
    PROVE  request' \in [Requester -> Request]
  <1>1. request[r] \in Request
    BY DEF TypeOK
  <1>. QED  BY <1>1, RequestTyped DEF TypeOK, Reply

LEMMA CloseTyped ==
    ASSUME TypeOK, NEW S \in SUBSET Sid, Close(S)
    PROVE  /\ status' \in [Sid -> {"unborn", "live", "dead"}]
           /\ generation' = generation /\ served' = served
           /\ \A s \in Sid :
                 \/ status'[s] = status[s]
                 \/ s \in S /\ status[s] = "live" /\ status'[s] = "dead"
           /\ \A s \in S : status[s] = "live" => status'[s] = "dead"
  <1>. DEFINE live == {s \in S : status[s] = "live"}
  <1>1. CASE live = {}
    <2>1. \A s \in S : status[s] # "live"
      BY <1>1
    <2>2. UNCHANGED server
      BY <1>1 DEF Close
    <2>. QED  BY <2>1, <2>2 DEF TypeOK, server
  <1>2. CASE live # {}
    <2>1. Family!Close(live)
      BY <1>2 DEF Close
    <2>2. /\ status' = [s \in Sid |-> IF s \in live THEN "dead" ELSE status[s]]
          /\ generation' = generation /\ served' = served
      BY <2>1 DEF Family!Close
    <2>. QED  BY <2>2 DEF TypeOK
  <1>. QED  BY <1>1, <1>2

LEMMA ClearTyped ==
    ASSUME TypeOK, NEW t \in Tab, Clear(t)
    PROVE  token' \in [Tab -> Maybe] /\ inbox' \in [Tab -> Nat]
  BY DEF TypeOK, Clear, Maybe

LEMMA AdoptTyped ==
    ASSUME TypeOK, NEW t \in Tab, NEW k \in Maybe, Adopt(t, k)
    PROVE  token' \in [Tab -> Maybe] /\ inbox' \in [Tab -> Nat] /\ cookie' \in Maybe
  BY DEF TypeOK, Adopt

LEMMA TypeCorrectInit == Init => TypeOK
  BY ClientAssumption, RequestTyped, NoCallTyped
     DEF Init, TypeOK, Family!FamilyInit, Maybe

LEMMA StartTyped ==
    ASSUME TypeOK, NEW c \in CallId, NEW k \in Kind, Start(c, k)
    PROVE  TypeOK'
  <1>1. TabOf(c) \in Tab /\ TabOf(c) \in Requester /\ token[TabOf(c)] \in Maybe
    BY Callers DEF TypeOK
  <1>2. None \in Maybe
    BY DEF Maybe
  <1>3. call' \in [CallId -> CallState]
    BY <1>1, <1>2, CallTyped DEF Start, TypeOK
  <1>4. request' \in [Requester -> Request] /\ excused' \subseteq Sid
    <2>1. Present(TabOf(c)) \/ UNCHANGED <<request, excused>>
      BY DEF Start, Join
    <2>. QED  BY <1>1, <2>1, PresentTyped DEF TypeOK
  <1>5. started' \in 0..MaxCalls
    BY ClientAssumption DEF Start, TypeOK
  <1>. QED  BY <1>3, <1>4, <1>5 DEF Start, TypeOK, server

LEMMA DepartTyped ==
    ASSUME TypeOK, NEW c \in CallId, Depart(c)
    PROVE  TypeOK'
  <1>1. call[c] \in CallState /\ c \in Requester
    BY Callers DEF TypeOK
  <1>2. call' \in [CallId -> CallState]
    BY <1>1, CallFields, CallTyped DEF Depart, TypeOK
  <1>3. request' \in [Requester -> Request] /\ excused' \subseteq Sid
    BY <1>1, PresentTyped, RequestTyped DEF Depart, TypeOK, Maybe
  <1>. QED  BY <1>2, <1>3 DEF Depart, TypeOK, server

LEMMA ServeRefreshTyped ==
    ASSUME TypeOK, NEW r \in Requester, ServeRefresh(r)
    PROVE  TypeOK'
  <1>. DEFINE k == request[r].cookie
  <1>1. k \in Maybe /\ None \in Maybe
    BY RequestFields DEF TypeOK, Maybe
  <1>2. CASE k \in Token /\ Family!Redeem(k.sid)
             /\ Reply(r, "granted", [sid |-> k.sid, gen |-> generation[k.sid] + 1])
             /\ UNCHANGED reused
    <2>1. k.sid \in Sid /\ generation[k.sid] \in Nat
      BY <1>2, TokenFields DEF TypeOK
    <2>2. request' \in [Requester -> Request]
      <3>1. [sid |-> k.sid, gen |-> generation[k.sid] + 1] \in Maybe
        BY <2>1, TokenTyped
      <3>. QED  BY <1>2, <3>1, ReplyTyped
    <2>3. /\ generation' \in [Sid -> Nat] /\ status' = status
          /\ served' \subseteq [sid : Sid, jti : Nat]
      BY <1>2, <2>1 DEF Family!Redeem, TypeOK
    <2>. QED  BY <1>2, <2>2, <2>3 DEF ServeRefresh, Unserved, TypeOK
  <1>3. CASE k \in Token /\ Family!Close({k.sid}) /\ reused' = reused \cup {k.sid}
             /\ Reply(r, "refused", None)
    <2>1. k.sid \in Sid
      BY <1>3, TokenFields
    <2>2. request' \in [Requester -> Request]
      BY <1>1, <1>3, ReplyTyped
    <2>3. /\ status' \in [Sid -> {"unborn", "live", "dead"}]
          /\ generation' = generation /\ served' = served
      BY <1>3, <2>1 DEF Family!Close, TypeOK
    <2>. QED  BY <1>3, <2>1, <2>2, <2>3 DEF ServeRefresh, Unserved, TypeOK
  <1>4. CASE Reply(r, "refused", None) /\ UNCHANGED <<server, reused>>
    <2>2. request' \in [Requester -> Request]
      BY <1>1, <1>4, ReplyTyped
    <2>. QED  BY <1>4, <2>2 DEF ServeRefresh, Unserved, TypeOK, server
  <1>. QED  BY <1>2, <1>3, <1>4 DEF ServeRefresh

LEMMA ServeTyped ==
    ASSUME TypeOK, NEW c \in CallId, Serve(c)
    PROVE  TypeOK'
  <1>1. c \in Requester /\ call[c] \in CallState /\ None \in Maybe
    BY Callers DEF TypeOK, Maybe
  <1>2. CASE ServeLogin(c)
    <2>1. PICK s \in Sid : /\ Family!Open(s)
                           /\ Reply(c, "granted", [sid |-> s, gen |-> generation[s]])
      BY <1>2 DEF ServeLogin
    <2>2. [sid |-> s, gen |-> generation[s]] \in Maybe
      BY TokenTyped DEF TypeOK
    <2>3. request' \in [Requester -> Request]
      BY <1>1, <2>1, <2>2, ReplyTyped
    <2>4. /\ status' \in [Sid -> {"unborn", "live", "dead"}]
          /\ generation' = generation /\ served' = served
      BY <2>1 DEF Family!Open, TypeOK
    <2>. QED  BY <1>2, <2>3, <2>4 DEF ServeLogin, Unserved, TypeOK
  <1>3. CASE ServeLogout(c)
    <2>1. request' \in [Requester -> Request]
      BY <1>1, <1>3, ReplyTyped DEF ServeLogout
    <2>2. /\ status' \in [Sid -> {"unborn", "live", "dead"}]
          /\ generation' = generation /\ served' = served
      <3>1. call[c].auth \in Maybe /\ call[c].auth # None
        BY <1>1, <1>3, CallFields DEF ServeLogout, Authentic
      <3>2. {call[c].auth.sid} \in SUBSET Sid /\ Sid \in SUBSET Sid
        BY <3>1, TokenFields DEF Maybe
      <3>3. Close({call[c].auth.sid}) \/ Close(Sid)
        BY <1>3 DEF ServeLogout
      <3>. QED  BY <3>2, <3>3, CloseTyped
    <2>. QED  BY <1>3, <2>1, <2>2 DEF ServeLogout, Unserved, TypeOK
  <1>4. CASE ServeApi(c)
    <2>1. request' \in [Requester -> Request]
      BY <1>1, <1>4, ReplyTyped DEF ServeApi
    <2>. QED  BY <1>4, <2>1 DEF ServeApi, Unserved, TypeOK, server
  <1>5. CASE Refuse(c)
    <2>1. request' \in [Requester -> Request]
      BY <1>1, <1>5, ReplyTyped DEF Refuse
    <2>. QED  BY <1>5, <2>1 DEF Refuse, Unserved, TypeOK, server
  <1>. QED  BY <1>2, <1>3, <1>4, <1>5 DEF Serve

LEMMA EndSessionTyped ==
    ASSUME TypeOK, NEW s \in Sid, EndSession(s)
    PROVE  TypeOK'
  <1>1. /\ status' \in [Sid -> {"unborn", "live", "dead"}]
        /\ generation' = generation /\ served' = served
    BY DEF EndSession, Family!Close, TypeOK
  <1>. QED  BY <1>1 DEF EndSession, Unserved, TypeOK

LEMMA ExpireTyped ==
    ASSUME TypeOK, NEW k \in Token, Expire(k)
    PROVE  TypeOK'
  BY DEF Expire, TypeOK, server

LEMMA RefreshArrivesTyped ==
    ASSUME TypeOK, NEW t \in Tab, RefreshArrives(t)
    PROVE  TypeOK'
  <1>1. t \in Requester /\ request[t].answer \in Maybe
    BY Callers, RequestFields DEF TypeOK
  <1>2. request' \in [Requester -> Request]
    BY <1>1, RequestTyped DEF RefreshArrives, TypeOK
  <1>3. call' \in [CallId -> CallState]
    BY <1>1, ResumeTyped DEF RefreshArrives, TypeOK
  <1>4. token' \in [Tab -> Maybe] /\ inbox' \in [Tab -> Nat] /\ cookie' \in Maybe
    <2>1. Adopt(t, request[t].answer) \/ (Clear(t) /\ UNCHANGED cookie)
      BY DEF RefreshArrives
    <2>. QED  BY <1>1, <2>1, AdoptTyped, ClearTyped DEF TypeOK
  <1>. QED  BY <1>2, <1>3, <1>4 DEF RefreshArrives, TypeOK, server

LEMMA LostTyped ==
    ASSUME TypeOK, NEW t \in Tab, LoseRefresh(t)
    PROVE  TypeOK'
  <1>1. request' \in [Requester -> Request]
    BY Callers, RequestTyped DEF LoseRefresh, TypeOK
  <1>2. call' \in [CallId -> CallState]
    BY NoCallTyped DEF LoseRefresh, TypeOK
  <1>. QED  BY <1>1, <1>2 DEF LoseRefresh, TypeOK, server, Lost

LEMMA EndTyped ==
    ASSUME TypeOK, NEW c \in CallId, End(c)
    PROVE  call' \in [CallId -> CallState] /\ request' \in [Requester -> Request]
  BY Callers, RequestTyped, NoCallTyped DEF End, TypeOK

LEMMA ArriveTyped ==
    ASSUME TypeOK, LogoutsEnd, NEW c \in CallId, Arrive(c) \/ LoseCall(c)
    PROVE  TypeOK'
  <1>1. /\ c \in Requester /\ TabOf(c) \in Tab /\ TabOf(c) \in Requester
        /\ call[c] \in CallState /\ request[c].answer \in Maybe
    BY Callers, RequestFields DEF TypeOK
  <1>2. CASE CallDone(c)
    <2>1. token' \in [Tab -> Maybe] /\ inbox' \in [Tab -> Nat] /\ cookie' \in Maybe
      <3>1. Adopt(TabOf(c), request[c].answer) \/ UNCHANGED <<cookie, token, inbox>>
        BY <1>2 DEF CallDone
      <3>. QED  BY <1>1, <3>1, AdoptTyped DEF TypeOK
    <2>2. call' \in [CallId -> CallState] /\ request' \in [Requester -> Request]
      BY <1>2, EndTyped DEF CallDone
    <2>. QED  BY <1>2, <2>1, <2>2 DEF CallDone, Settled, TypeOK, server
  <1>3. CASE LogoutDone(c)
    <2>1. token' \in [Tab -> Maybe] /\ inbox' \in [Tab -> Nat] /\ cookie' \in Maybe
      BY <1>1, <1>3, ClearTyped DEF LogoutDone, Maybe
    <2>2. call' \in [CallId -> CallState] /\ request' \in [Requester -> Request]
      BY <1>3, EndTyped DEF LogoutDone
    <2>3. gone' \subseteq Sid
      <3>1. call[c].auth \in Token
        BY <1>3 DEF LogoutDone, Granted, LogoutsEnd
      <3>. QED  BY <1>3, <3>1, TokenFields DEF LogoutDone, TypeOK
    <2>. QED  BY <1>3, <2>1, <2>2, <2>3 DEF LogoutDone, Settled, TypeOK, server
  <1>4. CASE RetryAfter401(c)
    <2>1. call' \in [CallId -> CallState]
      BY <1>1, <1>4, CallFields, CallTyped DEF RetryAfter401, TypeOK, Maybe
    <2>2. request' \in [Requester -> Request] /\ excused' \subseteq Sid
      BY <1>1, <1>4, RequestTyped DEF RetryAfter401, TypeOK
    <2>. QED  BY <1>4, <2>1, <2>2 DEF RetryAfter401, Settled, TypeOK, server
  <1>5. CASE GiveUp(c)
    <2>1. token' \in [Tab -> Maybe] /\ inbox' \in [Tab -> Nat]
      BY <1>1, <1>5, ClearTyped DEF GiveUp
    <2>2. call' \in [CallId -> CallState] /\ request' \in [Requester -> Request]
      BY <1>5, EndTyped DEF GiveUp
    <2>. QED  BY <1>5, <2>1, <2>2 DEF GiveUp, Settled, TypeOK, server
  <1>6. CASE LoseCall(c)
    <2>1. call' \in [CallId -> CallState] /\ request' \in [Requester -> Request]
      BY <1>1, <1>6, NoCallTyped, RequestTyped DEF LoseCall, TypeOK
    <2>. QED  BY <1>6, <2>1 DEF LoseCall, TypeOK, server, Lost
  <1>. QED  BY <1>2, <1>3, <1>4, <1>5, <1>6 DEF Arrive

LEMMA HearTyped ==
    ASSUME TypeOK, NEW t \in Tab, Hear(t)
    PROVE  TypeOK'
  BY DEF Hear, TypeOK, server, Maybe

-----------------------------------------------------------------------------
(* The wire: what is said of requests, answers and the cookie is kept by   *)
(* each of the five things that happen to a request.                       *)
UnbornOffWire ==
    \A s \in Sid :
        status[s] = "unborn" => ~InCookie(s) /\ OnWire(s) = {} /\ ~Carried(s)

Wire == /\ OneOnWire /\ PresentedFresh /\ AnswersFresh /\ CookieFresh
        /\ AnswersOwn /\ UnbornOffWire

(* The same, requester by requester.                                       *)
Presents(r, s) == Of(request[r].cookie, s)
Answers(r, s) == Of(request[r].answer, s)
Alone ==
    \A s \in Sid, q \in Requester, r \in Requester :
        Presents(q, s) /\ Presents(r, s) => q = r \/ s \in excused
Owned ==
    \A s \in Sid, r \in Requester :
        Answers(r, s) =>
            /\ request[r].at = "granted"
            /\ \/ Presents(r, s)
               \/ /\ ~Of(cookie, s)
                  /\ \A q \in Requester : ~Presents(q, s) /\ (Answers(q, s) => q = r)
Stored ==
    \A s \in Sid :
        Of(cookie, s) => \/ Fresh(cookie)
                         \/ \E r \in Requester : Presents(r, s) /\ Answers(r, s)
Unspoken ==
    \A s \in Sid :
        status[s] = "unborn" =>
            /\ ~Of(cookie, s)
            /\ \A r \in Requester : ~Presents(r, s) /\ ~Answers(r, s)
Renewed ==
    \A s \in Sid, r \in Requester :
        /\ (request[r].at = "sent" /\ Presents(r, s)) => Fresh(request[r].cookie)
        /\ Answers(r, s) => Fresh(request[r].answer)

PointWire == Alone /\ Owned /\ Stored /\ Unspoken /\ Renewed

LEMMA WireToPoints == Wire => PointWire
  <1>. SUFFICES ASSUME Wire PROVE PointWire
    OBVIOUS
  <1>. USE DEF Presents, Answers, Of, OnWire, InCookie, Carried
  <1>1. Alone
    BY DEF Wire, OneOnWire, Alone
  <1>2. Owned
    <2>. SUFFICES ASSUME NEW s \in Sid, NEW r \in Requester, Answers(r, s)
                  PROVE  /\ request[r].at = "granted"
                         /\ \/ Presents(r, s)
                            \/ /\ ~Of(cookie, s)
                               /\ \A q \in Requester :
                                     ~Presents(q, s) /\ (Answers(q, s) => q = r)
      BY DEF Owned
    <2>1. request[r].answer \in Token /\ request[r].answer.sid = s
      OBVIOUS
    <2>2. /\ request[r].at = "granted"
          /\ \/ Of(request[r].cookie, s)
             \/ /\ OnWire(s) = {} /\ ~InCookie(s)
                /\ \A p_1 \in Requester : Of(request[p_1].answer, s) => p_1 = r
      BY <2>1 DEF Wire, AnswersOwn
    <2>. QED  BY <2>2
  <1>3. Stored
    BY DEF Wire, CookieFresh, Stored
  <1>4. Unspoken
    BY DEF Wire, UnbornOffWire, Unspoken
  <1>5. Renewed
    BY DEF Wire, PresentedFresh, AnswersFresh, Renewed
  <1>. QED  BY <1>1, <1>2, <1>3, <1>4, <1>5 DEF PointWire

LEMMA PointsToWire == TypeOK /\ PointWire => Wire
  <1>. SUFFICES ASSUME TypeOK, PointWire PROVE Wire
    OBVIOUS
  <1>. USE DEF Presents, Answers, Of, OnWire, InCookie, Carried
  <1>1. OneOnWire
    BY DEF PointWire, OneOnWire, Alone
  <1>2. AnswersOwn
    <2>. SUFFICES ASSUME NEW r \in Requester, request[r].answer \in Token
                  PROVE  /\ request[r].at = "granted"
                         /\ \/ Of(request[r].cookie, request[r].answer.sid)
                            \/ /\ OnWire(request[r].answer.sid) = {}
                               /\ ~InCookie(request[r].answer.sid)
                               /\ \A p_1 \in Requester :
                                     Of(request[p_1].answer, request[r].answer.sid)
                                        => p_1 = r
      BY DEF AnswersOwn
    <2>1. request[r].answer.sid \in Sid /\ Answers(r, request[r].answer.sid)
      BY TokenFields
    <2>. QED  BY <2>1 DEF PointWire, Owned
  <1>3. CookieFresh
    BY TokenFields DEF PointWire, CookieFresh, Stored
  <1>4. UnbornOffWire
    BY DEF PointWire, UnbornOffWire, Unspoken
  <1>5. PresentedFresh
    BY TokenFields DEF PointWire, PresentedFresh, Renewed
  <1>6. AnswersFresh
    BY TokenFields DEF PointWire, AnswersFresh, Renewed
  <1>. QED  BY <1>1, <1>2, <1>3, <1>4, <1>5, <1>6 DEF Wire

(* A request is sent, with the cookie or without; another may be given up. *)
LEMMA SendKeeps ==
    ASSUME TypeOK, PointWire,
           NEW r \in Requester, NEW d \in Requester, NEW k \in {None, cookie},
           request[r] = NoRequest, request[d].answer = None,
           request'[r] = Sent(k), d # r => request'[d] = NoRequest,
           \A q \in Requester \ {d, r} : request'[q] = request[q],
           UNCHANGED <<status, generation, cookie>>,
           excused \subseteq excused',
           \A s \in Sid, q \in Requester \ {d, r} :
               Of(k, s) /\ Presents(q, s) => s \in excused'
    PROVE  PointWire'
  <1>. DEFINE old(q) == q # r /\ q # d
  <1>1. /\ request'[r] = Sent(k)
        /\ \A q \in Requester : old(q) => request'[q] = request[q]
        /\ \A q \in Requester : ~old(q) /\ q # r => request'[q] = NoRequest
    OBVIOUS
  <1>2. /\ Sent(k).at = "sent" /\ Sent(k).cookie = k /\ Sent(k).answer = None
        /\ NoRequest.at = "none" /\ NoRequest.cookie = None /\ NoRequest.answer = None
    BY DEF Sent, NoRequest
  <1>3. /\ \A q \in Requester, s \in Sid : Answers(q, s)' => old(q) /\ Answers(q, s)
        /\ \A q \in Requester, s \in Sid : old(q) => /\ Answers(q, s)' = Answers(q, s)
                                                     /\ Presents(q, s)' = Presents(q, s)
        /\ \A q \in Requester, s \in Sid :
              Presents(q, s)' => (old(q) /\ Presents(q, s)) \/ (q = r /\ Of(k, s))
        /\ \A q \in Requester, s \in Sid : Answers(q, s) => old(q)
    BY <1>1, <1>2, NoneIsNoToken DEF Answers, Presents, Of
  <1>4. \A s \in Sid : Of(k, s) => Of(cookie, s)
    BY NoneIsNoToken DEF Of
  <1>5. Alone'
    BY <1>3 DEF PointWire, Alone
  <1>6. Owned'
    <2>. SUFFICES ASSUME NEW s \in Sid, NEW q \in Requester, Answers(q, s)'
                  PROVE  /\ request'[q].at = "granted"
                         /\ \/ Presents(q, s)'
                            \/ /\ ~Of(cookie', s)
                               /\ \A p \in Requester :
                                     ~Presents(p, s)' /\ (Answers(p, s)' => p = q)
      BY DEF Owned
    <2>1. old(q) /\ Answers(q, s)
      BY <1>3
    <2>2. /\ request[q].at = "granted"
          /\ \/ Presents(q, s)
             \/ /\ ~Of(cookie, s)
                /\ \A p \in Requester : ~Presents(p, s) /\ (Answers(p, s) => p = q)
      BY <2>1 DEF PointWire, Owned
    <2>3. Presents(q, s) => Presents(q, s)'
      BY <2>1, <1>3
    <2>. QED  BY <2>1, <2>2, <2>3, <1>1, <1>3, <1>4
  <1>7. Stored'
    <2>. SUFFICES ASSUME NEW s \in Sid, Of(cookie, s)
                  PROVE  \/ Fresh(cookie)'
                         \/ \E q \in Requester : Presents(q, s)' /\ Answers(q, s)'
      BY DEF Stored, Of
    <2>1. CASE Fresh(cookie)
      BY <2>1 DEF Fresh
    <2>2. CASE \E q \in Requester : Presents(q, s) /\ Answers(q, s)
      BY <2>2, <1>3
    <2>. QED  BY <2>1, <2>2 DEF PointWire, Stored
  <1>8. Unspoken'
    BY <1>3, <1>4 DEF PointWire, Unspoken, Of
  <1>9. Renewed'
    <2>1. ASSUME NEW s \in Sid, NEW q \in Requester, Answers(q, s)'
          PROVE  Fresh(request[q].answer)'
      <3>1. old(q) /\ Fresh(request[q].answer)
        BY <2>1, <1>3 DEF PointWire, Renewed
      <3>. QED  BY <3>1, <1>1 DEF Fresh
    <2>2. ASSUME NEW s \in Sid, NEW q \in Requester, Presents(q, s)',
                 request'[q].at = "sent"
          PROVE  Fresh(request[q].cookie)'
      <3>1. CASE old(q)
        <4>1. Fresh(request[q].cookie)
          BY <3>1, <2>2, <1>1, <1>3 DEF PointWire, Renewed
        <4>. QED  BY <4>1, <3>1, <1>1 DEF Fresh
      <3>2. CASE q = r
        <4>1. Of(k, s) /\ Of(cookie, s) /\ request'[q].cookie = k /\ k = cookie
          BY <3>2, <2>2, <1>1, <1>2, <1>4, NoneIsNoToken DEF Presents, Of
        <4>2. CASE Fresh(cookie)
          BY <4>1, <4>2 DEF Fresh
        <4>3. CASE \E p \in Requester : Presents(p, s) /\ Answers(p, s)
          <5>1. s \in excused'
            BY <4>1, <4>3, <1>3
          <5>. QED  BY <5>1, <4>1 DEF Fresh, Of
        <4>. QED  BY <4>1, <4>2, <4>3 DEF PointWire, Stored
      <3>. QED  BY <2>2, <3>1, <3>2, <1>3
    <2>. QED  BY <2>1, <2>2 DEF Renewed
  <1>. QED  BY <1>5, <1>6, <1>7, <1>8, <1>9 DEF PointWire

(* A request is over: what it carried reaches the browser or, unless the   *)
(* cookie goes as well, is accounted for as lost.                          *)
DropCase(d) ==
    \/ cookie' = None
    \/ cookie' = request[d].answer
    \/ cookie' = cookie /\ (request[d].answer = None \/ Lost(d) \subseteq excused')

LEMMA DropKeeps ==
    ASSUME TypeOK, PointWire, NEW d \in Requester,
           request' = [request EXCEPT ![d] = NoRequest],
           UNCHANGED <<status, generation>>,
           excused \subseteq excused', DropCase(d)
    PROVE  PointWire'
  <1>1. /\ request'[d] = NoRequest
        /\ \A q \in Requester : q # d => request'[q] = request[q]
        /\ NoRequest.at = "none" /\ NoRequest.cookie = None /\ NoRequest.answer = None
    BY DEF NoRequest, TypeOK
  <1>2. /\ \A q \in Requester, s \in Sid : Answers(q, s)' => q # d /\ Answers(q, s)
        /\ \A q \in Requester, s \in Sid : Presents(q, s)' => q # d /\ Presents(q, s)
        /\ \A q \in Requester, s \in Sid : q # d => /\ Answers(q, s)' = Answers(q, s)
                                                    /\ Presents(q, s)' = Presents(q, s)
    BY <1>1, NoneIsNoToken DEF Answers, Presents, Of
  <1>3. \A s \in Sid : Of(cookie', s) =>
           \/ Answers(d, s) /\ cookie' = request[d].answer
           \/ Of(cookie, s) /\ cookie' = cookie
    BY NoneIsNoToken DEF DropCase, Answers, Of
  <1>4. Alone'
    BY <1>2 DEF PointWire, Alone
  <1>5. Owned'
    <2>. SUFFICES ASSUME NEW s \in Sid, NEW q \in Requester, Answers(q, s)'
                  PROVE  /\ request'[q].at = "granted"
                         /\ \/ Presents(q, s)'
                            \/ /\ ~Of(cookie', s)
                               /\ \A p \in Requester :
                                     ~Presents(p, s)' /\ (Answers(p, s)' => p = q)
      BY DEF Owned
    <2>1. q # d /\ Answers(q, s)
      BY <1>2
    <2>2. /\ request[q].at = "granted"
          /\ \/ Presents(q, s)
             \/ /\ ~Of(cookie, s)
                /\ \A p \in Requester : ~Presents(p, s) /\ (Answers(p, s) => p = q)
      BY <2>1 DEF PointWire, Owned
    <2>3. Presents(q, s) => Presents(q, s)'
      BY <2>1, <1>2
    <2>. QED  BY <2>1, <2>2, <2>3, <1>1, <1>2, <1>3
  <1>6. Stored'
    <2>. SUFFICES ASSUME NEW s \in Sid, Of(cookie', s)
                  PROVE  \/ Fresh(cookie)'
                         \/ \E q \in Requester : Presents(q, s)' /\ Answers(q, s)'
      BY DEF Stored, Of
    <2>1. CASE Answers(d, s) /\ cookie' = request[d].answer
      <3>1. Fresh(request[d].answer)
        BY <2>1 DEF PointWire, Renewed
      <3>. QED  BY <3>1, <2>1 DEF Fresh
    <2>2. CASE Of(cookie, s) /\ cookie' = cookie /\ ~Answers(d, s)
      <3>1. CASE Fresh(cookie)
        BY <3>1, <2>2 DEF Fresh
      <3>2. CASE \E q \in Requester : Presents(q, s) /\ Answers(q, s)
        BY <3>2, <2>2, <1>2
      <3>. QED  BY <2>2, <3>1, <3>2 DEF PointWire, Stored
    <2>3. CASE Of(cookie, s) /\ cookie' = cookie /\ Answers(d, s) /\ cookie # request[d].answer
      <3>1. s \in Lost(d) /\ request[d].answer # None /\ cookie' # None
        BY <2>3, NoneIsNoToken DEF Lost, Answers, Of
      <3>2. s \in excused'
        BY <3>1, <2>3 DEF DropCase
      <3>. QED  BY <3>2, <2>3 DEF Fresh, Of
    <2>. QED  BY <2>1, <2>2, <2>3, <1>3
  <1>7. Unspoken'
    BY <1>2, <1>3 DEF PointWire, Unspoken, Of
  <1>8. Renewed'
    <2>1. ASSUME NEW s \in Sid, NEW q \in Requester, Answers(q, s)'
          PROVE  Fresh(request[q].answer)'
      <3>1. q # d /\ Fresh(request[q].answer)
        BY <2>1, <1>2 DEF PointWire, Renewed
      <3>. QED  BY <3>1, <1>1 DEF Fresh
    <2>2. ASSUME NEW s \in Sid, NEW q \in Requester, Presents(q, s)',
                 request'[q].at = "sent"
          PROVE  Fresh(request[q].cookie)'
      <3>1. q # d /\ Fresh(request[q].cookie)
        BY <2>2, <1>1, <1>2 DEF PointWire, Renewed
      <3>. QED  BY <3>1, <1>1 DEF Fresh
    <2>. QED  BY <2>1, <2>2 DEF Renewed
  <1>. QED  BY <1>4, <1>5, <1>6, <1>7, <1>8 DEF PointWire

(* Nothing happens to a request, or it is answered without tokens, while   *)
(* sessions end.                                                           *)
AnsweredWithout(r, a) ==
    request' = [request EXCEPT ![r] = [at |-> a, cookie |-> request[r].cookie,
                                       answer |-> None]]
Ending == \A s \in Sid : status'[s] = "unborn" => status[s] = "unborn"

LEMMA AnswerKeeps ==
    ASSUME TypeOK, PointWire, Ending, excused \subseteq excused',
           UNCHANGED <<generation, cookie>>,
           \/ UNCHANGED request
           \/ \E r \in Requester, a \in {"granted", "refused"} :
                 request[r].at = "sent" /\ AnsweredWithout(r, a)
    PROVE  PointWire'
  <1>1. \A q \in Requester, s \in Sid : request[q].at = "sent" => ~Answers(q, s)
    BY DEF PointWire, Owned
  <1>2. \A q \in Requester :
           /\ request'[q].cookie = request[q].cookie
           /\ \/ request'[q] = request[q]
              \/ request[q].at = "sent" /\ request'[q].at # "sent" /\ request'[q].answer = None
    BY DEF AnsweredWithout, TypeOK
  <1>3. /\ \A q \in Requester, s \in Sid : Presents(q, s)' = Presents(q, s)
        /\ \A q \in Requester, s \in Sid : Answers(q, s)' = Answers(q, s)
        /\ \A q \in Requester, s \in Sid : Answers(q, s)' => request'[q] = request[q]
        /\ \A q \in Requester : request'[q].at = "sent" => request'[q] = request[q]
    BY <1>1, <1>2, NoneIsNoToken DEF Answers, Presents, Of
  <1>4. Alone'
    BY <1>3 DEF PointWire, Alone
  <1>5. Owned'
    BY <1>3 DEF PointWire, Owned, Of
  <1>6. Stored'
    BY <1>3 DEF PointWire, Stored, Of, Fresh
  <1>7. Unspoken'
    BY <1>3 DEF PointWire, Unspoken, Of, Ending
  <1>8. Renewed'
    BY <1>3 DEF PointWire, Renewed, Fresh
  <1>. QED  BY <1>4, <1>5, <1>6, <1>7, <1>8 DEF PointWire

(* A refresh is answered with the next generation.                         *)
LEMMA RedeemKeeps ==
    ASSUME TypeOK, PointWire, NEW r \in Requester, NEW s \in Sid,
           request[r].at = "sent", request[r].cookie \in Token,
           request[r].cookie.sid = s,
           generation' = [generation EXCEPT ![s] = @ + 1],
           status[s] # "unborn", UNCHANGED <<status, cookie, excused>>,
           request' = [request EXCEPT
                         ![r] = [at |-> "granted", cookie |-> request[r].cookie,
                                 answer |-> [sid |-> s, gen |-> generation[s] + 1]]]
    PROVE  PointWire'
  <1>. DEFINE k == [sid |-> s, gen |-> generation[s] + 1]
  <1>1. /\ request'[r].at = "granted" /\ request'[r].cookie = request[r].cookie
        /\ request'[r].answer = k
        /\ \A q \in Requester : q # r => request'[q] = request[q]
        /\ \A z \in Sid : z # s => generation'[z] = generation[z]
        /\ generation'[s] = generation[s] + 1 /\ generation[s] \in Nat
    BY DEF TypeOK
  <1>2. k \in Token /\ k.sid = s /\ k.gen = generation'[s]
    BY <1>1, TokenTyped
  <1>. HIDE DEF k
  <1>3. Presents(r, s) /\ \A z \in Sid : ~Answers(r, z)
    BY DEF Presents, Of, PointWire, Owned
  <1>4. \A q \in Requester : q # r /\ (Presents(q, s) \/ Answers(q, s)) => s \in excused
    BY <1>3 DEF PointWire, Alone, Owned
  <1>5. /\ \A q \in Requester, z \in Sid : Presents(q, z)' = Presents(q, z)
        /\ \A q \in Requester, z \in Sid :
              q # r => Answers(q, z)' = Answers(q, z)
        /\ \A z \in Sid : Answers(r, z)' => z = s
        /\ Answers(r, s)'
    BY <1>1, <1>2 DEF Answers, Presents, Of
  <1>6. Alone'
    BY <1>5 DEF PointWire, Alone
  <1>7. Owned'
    <2>. SUFFICES ASSUME NEW z \in Sid, NEW q \in Requester, Answers(q, z)'
                  PROVE  /\ request'[q].at = "granted"
                         /\ \/ Presents(q, z)'
                            \/ /\ ~Of(cookie', z)
                               /\ \A p \in Requester :
                                     ~Presents(p, z)' /\ (Answers(p, z)' => p = q)
      BY DEF Owned
    <2>1. CASE q = r
      BY <2>1, <1>1, <1>3, <1>5
    <2>2. CASE q # r
      <3>1. /\ request[q].at = "granted"
            /\ \/ Presents(q, z)
               \/ /\ ~Of(cookie, z)
                  /\ \A p \in Requester : ~Presents(p, z) /\ (Answers(p, z) => p = q)
        BY <2>2, <1>5 DEF PointWire, Owned
      <3>2. CASE Presents(q, z)
        BY <3>1, <3>2, <2>2, <1>1, <1>5
      <3>3. CASE ~Presents(q, z)
        <4>1. z # s
          BY <3>1, <3>3, <1>3
        <4>. QED  BY <3>1, <3>3, <4>1, <2>2, <1>1, <1>5
      <3>. QED  BY <3>2, <3>3
    <2>. QED  BY <2>1, <2>2
  <1>8. Stored'
    <2>. SUFFICES ASSUME NEW z \in Sid, Of(cookie, z)
                  PROVE  \/ Fresh(cookie)'
                         \/ \E q \in Requester : Presents(q, z)' /\ Answers(q, z)'
      BY DEF Stored, Of
    <2>1. CASE z = s
      BY <2>1, <1>3, <1>5
    <2>2. CASE z # s
      <3>1. CASE Fresh(cookie)
        <4>1. cookie.sid = z
          BY DEF Of
        <4>. QED  BY <3>1, <2>2, <4>1, <1>1 DEF Fresh
      <3>2. CASE \E q \in Requester : Presents(q, z) /\ Answers(q, z)
        BY <3>2, <1>3, <1>5
      <3>. QED  BY <3>1, <3>2 DEF PointWire, Stored
    <2>. QED  BY <2>1, <2>2
  <1>9. Unspoken'
    BY <1>5 DEF PointWire, Unspoken, Of
  <1>10. Renewed'
    <2>1. ASSUME NEW z \in Sid, NEW q \in Requester, Answers(q, z)'
          PROVE  Fresh(request[q].answer)'
      <3>1. CASE q = r
        BY <3>1, <1>1, <1>2 DEF Fresh
      <3>2. CASE q # r
        <4>1. Answers(q, z) /\ Fresh(request[q].answer) /\ request[q].answer.sid = z
          BY <2>1, <3>2, <1>5 DEF PointWire, Renewed, Answers, Of
        <4>. QED  BY <4>1, <3>2, <1>1, <1>4 DEF Fresh
      <3>. QED  BY <3>1, <3>2
    <2>2. ASSUME NEW z \in Sid, NEW q \in Requester, Presents(q, z)',
                 request'[q].at = "sent"
          PROVE  Fresh(request[q].cookie)'
      <3>1. q # r /\ request'[q] = request[q]
        BY <2>2, <1>1
      <3>2. Presents(q, z) /\ Fresh(request[q].cookie) /\ request[q].cookie.sid = z
        BY <2>2, <3>1, <1>5 DEF PointWire, Renewed, Presents, Of
      <3>. QED  BY <3>1, <3>2, <1>1, <1>4 DEF Fresh
    <2>. QED  BY <2>1, <2>2 DEF Renewed
  <1>. QED  BY <1>6, <1>7, <1>8, <1>9, <1>10 DEF PointWire

(* A login is answered with the tokens of a session that is new.           *)
LEMMA LoginKeeps ==
    ASSUME TypeOK, PointWire, NEW r \in Requester, NEW s \in Sid,
           request[r].at = "sent", status[s] = "unborn",
           status' = [status EXCEPT ![s] = "live"],
           UNCHANGED <<generation, cookie, excused>>,
           request' = [request EXCEPT
                         ![r] = [at |-> "granted", cookie |-> request[r].cookie,
                                 answer |-> [sid |-> s, gen |-> generation[s]]]]
    PROVE  PointWire'
  <1>. DEFINE k == [sid |-> s, gen |-> generation[s]]
  <1>1. /\ request'[r].at = "granted" /\ request'[r].cookie = request[r].cookie
        /\ request'[r].answer = k
        /\ \A q \in Requester : q # r => request'[q] = request[q]
        /\ \A z \in Sid : status'[z] = "unborn" => z # s /\ status[z] = "unborn"
    BY DEF TypeOK
  <1>2. k \in Token /\ k.sid = s /\ k.gen = generation[s]
    BY TokenTyped DEF TypeOK
  <1>. HIDE DEF k
  <1>3. \A z \in Sid : ~Answers(r, z)
    BY DEF PointWire, Owned
  <1>4. ~Of(cookie, s) /\ \A q \in Requester : ~Presents(q, s) /\ ~Answers(q, s)
    BY DEF PointWire, Unspoken
  <1>5. /\ \A q \in Requester, z \in Sid : Presents(q, z)' = Presents(q, z)
        /\ \A q \in Requester, z \in Sid :
              q # r => Answers(q, z)' = Answers(q, z)
        /\ \A z \in Sid : Answers(r, z)' => z = s
    BY <1>1, <1>2 DEF Answers, Presents, Of
  <1>6. Alone'
    BY <1>5 DEF PointWire, Alone
  <1>7. Owned'
    <2>. SUFFICES ASSUME NEW z \in Sid, NEW q \in Requester, Answers(q, z)'
                  PROVE  /\ request'[q].at = "granted"
                         /\ \/ Presents(q, z)'
                            \/ /\ ~Of(cookie', z)
                               /\ \A p \in Requester :
                                     ~Presents(p, z)' /\ (Answers(p, z)' => p = q)
      BY DEF Owned
    <2>1. CASE q = r
      BY <2>1, <1>1, <1>4, <1>5
    <2>2. CASE q # r
      <3>1. /\ Answers(q, z) /\ z # s /\ request[q].at = "granted"
            /\ \/ Presents(q, z)
               \/ /\ ~Of(cookie, z)
                  /\ \A p \in Requester : ~Presents(p, z) /\ (Answers(p, z) => p = q)
        BY <2>2, <1>4, <1>5 DEF PointWire, Owned
      <3>. QED  BY <3>1, <2>2, <1>1, <1>5
    <2>. QED  BY <2>1, <2>2
  <1>8. Stored'
    <2>. SUFFICES ASSUME NEW z \in Sid, Of(cookie, z)
                  PROVE  \/ Fresh(cookie)'
                         \/ \E q \in Requester : Presents(q, z)' /\ Answers(q, z)'
      BY DEF Stored, Of
    <2>1. CASE Fresh(cookie)
      BY <2>1 DEF Fresh
    <2>2. CASE \E q \in Requester : Presents(q, z) /\ Answers(q, z)
      BY <2>2, <1>3, <1>5
    <2>. QED  BY <2>1, <2>2 DEF PointWire, Stored
  <1>9. Unspoken'
    BY <1>1, <1>5 DEF PointWire, Unspoken, Of
  <1>10. Renewed'
    <2>1. ASSUME NEW z \in Sid, NEW q \in Requester, Answers(q, z)'
          PROVE  Fresh(request[q].answer)'
      <3>1. CASE q = r
        BY <3>1, <1>1, <1>2 DEF Fresh
      <3>2. CASE q # r
        BY <2>1, <3>2, <1>1, <1>5 DEF PointWire, Renewed, Fresh
      <3>. QED  BY <3>1, <3>2
    <2>2. ASSUME NEW z \in Sid, NEW q \in Requester, Presents(q, z)',
                 request'[q].at = "sent"
          PROVE  Fresh(request[q].cookie)'
      <3>1. request'[q] = request[q]
        BY <2>2, <1>1
      <3>. QED  BY <2>2, <3>1, <1>5 DEF PointWire, Renewed, Fresh
    <2>. QED  BY <2>1, <2>2 DEF Renewed
  <1>. QED  BY <1>6, <1>7, <1>8, <1>9, <1>10 DEF PointWire

-----------------------------------------------------------------------------
(* The calls and the tabs: what is said of them is kept by requests that   *)
(* leave, by the server, and by what arrives.                              *)
UnbornUnheld ==
    \A s \in Sid :
        status[s] = "unborn" => /\ \A c \in CallId : ~Of(call[c].auth, s)
                                /\ \A t \in Tab : ~Of(token[t], s)

(* Quiet and GoneEnded, requester by requester.                            *)
Silent ==
    /\ \A r \in Requester : request[r].at = "none" => request[r] = NoRequest
    /\ \A c \in CallId : call[c].at # "sent" => request[c] = NoRequest
Ended ==
    \A s \in gone : status[s] = "dead" /\ \A r \in Requester : ~Answers(r, s)

Calls == Silent /\ UnbornUnheld /\ LogoutsEnd /\ Ended /\ TabsForget

LEMMA SendCalls ==
    ASSUME TypeOK, Calls, UNCHANGED <<status, token, inbox, gone>>,
           \A r \in Requester : \/ request'[r] = request[r]
                                \/ request'[r] = NoRequest
                                \/ request'[r].at = "sent" /\ request'[r].answer = None,
           \A c \in CallId :
              \/ call'[c] = call[c] /\ request'[c] = request[c]
              \/ /\ call'[c].auth \in {None, call[c].auth, token[TabOf(c)]}
                 /\ \/ request'[c] = NoRequest
                    \/ call'[c].at = "sent" /\ request'[c].at = "sent"
    PROVE  Calls'
  <1>1. /\ NoRequest.at = "none" /\ NoRequest.answer = None
        /\ \A c \in CallId : c \in Requester /\ TabOf(c) \in Tab
    BY Callers DEF NoRequest
  <1>2. Silent'
    BY <1>1 DEF Calls, Silent
  <1>3. UnbornUnheld'
    <2>. SUFFICES ASSUME NEW s \in Sid, status[s] = "unborn", NEW c \in CallId
                  PROVE  ~Of(call'[c].auth, s)
      BY DEF Calls, UnbornUnheld, Of
    <2>1. ~Of(call[c].auth, s) /\ ~Of(token[TabOf(c)], s) /\ ~Of(None, s)
      BY <1>1, NoneIsNoToken DEF Calls, UnbornUnheld, Of
    <2>2. call'[c].auth \in {None, call[c].auth, token[TabOf(c)]}
      OBVIOUS
    <2>. QED  BY <2>1, <2>2
  <1>4. LogoutsEnd'
    <2>. SUFFICES ASSUME NEW c \in CallId, request'[c].at = "granted",
                         call'[c].kind \in {"logout", "logout_all"}
                  PROVE  call'[c].auth \in Token /\ status'[call'[c].auth.sid] = "dead"
      BY DEF LogoutsEnd
    <2>1. call'[c] = call[c] /\ request'[c] = request[c]
      BY <1>1
    <2>. QED  BY <2>1 DEF Calls, LogoutsEnd
  <1>5. Ended'
    <2>1. \A r \in Requester : request'[r].answer = None \/ request'[r] = request[r]
      BY <1>1
    <2>2. \A r \in Requester, s \in gone : Answers(r, s)' => Answers(r, s)
      BY <2>1, NoneIsNoToken DEF Answers, Of
    <2>. QED  BY <2>2 DEF Calls, Ended
  <1>6. TabsForget'
    BY DEF Calls, TabsForget
  <1>. QED  BY <1>2, <1>3, <1>4, <1>5, <1>6 DEF Calls

(* The server answers r, if anyone.                                        *)
Replied(r) ==
    /\ request[r].at = "sent" /\ request'[r].at \in {"granted", "refused"}
    /\ request'[r].answer \in Token => status[request'[r].answer.sid] # "dead"
    /\ ( /\ r \in CallId /\ call[r].kind \in {"logout", "logout_all"}
         /\ request'[r].at = "granted" )
          => call[r].auth \in Token /\ status'[call[r].auth.sid] = "dead"

LEMMA ServeCalls ==
    ASSUME TypeOK, Calls, UNCHANGED <<call, token, inbox, gone>>, Ending,
           \A s \in Sid : status[s] = "dead" => status'[s] = "dead",
           \A r \in Requester : request'[r] = request[r] \/ Replied(r)
    PROVE  Calls'
  <1>1. /\ NoRequest.at = "none" /\ NoRequest.answer = None
        /\ \A c \in CallId : c \in Requester /\ TabOf(c) \in Tab
    BY Callers DEF NoRequest
  <1>2. Silent'
    BY <1>1 DEF Calls, Silent, Replied
  <1>3. UnbornUnheld'
    BY DEF Calls, UnbornUnheld, Of, Ending
  <1>4. LogoutsEnd'
    <2>. SUFFICES ASSUME NEW c \in CallId, request'[c].at = "granted",
                         call[c].kind \in {"logout", "logout_all"}
                  PROVE  call[c].auth \in Token /\ status'[call[c].auth.sid] = "dead"
      BY DEF LogoutsEnd
    <2>1. CASE request'[c] = request[c]
      BY <2>1, TokenFields DEF Calls, LogoutsEnd
    <2>2. CASE Replied(c)
      BY <2>2 DEF Replied
    <2>. QED  BY <2>1, <2>2, <1>1
  <1>5. Ended'
    <2>1. \A s \in gone : s \in Sid /\ status[s] = "dead"
      BY DEF Calls, Ended, TypeOK
    <2>2. \A r \in Requester, s \in gone :
             request'[r] = request[r] \/ (Answers(r, s)' => status[s] # "dead")
      BY DEF Answers, Of, Replied
    <2>3. \A r \in Requester, s \in gone : ~Answers(r, s)'
      BY <2>1, <2>2 DEF Calls, Ended, Answers
    <2>. QED  BY <2>1, <2>3 DEF Ended
  <1>6. TabsForget'
    BY DEF Calls, TabsForget
  <1>. QED  BY <1>2, <1>3, <1>4, <1>5, <1>6 DEF Calls

(* What d asked for is over, and its answer handed to tabs and calls.      *)
HandedTo(k, d) == k = None \/ k = request[d].answer

LEMMA ArriveCalls ==
    ASSUME TypeOK, PointWire, Calls, NEW d \in Requester, UNCHANGED status,
           request' = [request EXCEPT ![d] = NoRequest],
           \A c \in CallId :
              \/ call'[c] = call[c] /\ request'[c] = request[c]
              \/ HandedTo(call'[c].auth, d) /\ request'[c] = NoRequest,
           \A t \in Tab : \/ token'[t] = token[t] /\ inbox'[t] >= inbox[t]
                          \/ HandedTo(token'[t], d),
           \A s \in gone' : \/ s \in gone
                            \/ /\ s \in Sid /\ status[s] = "dead" /\ ~Carried(s)
                               /\ \A t \in Tab : token'[t] = None \/ inbox'[t] > 0,
           inbox' \in [Tab -> Nat]
    PROVE  Calls'
  <1>1. /\ NoRequest.at = "none" /\ NoRequest.answer = None
        /\ \A c \in CallId : c \in Requester /\ TabOf(c) \in Tab
        /\ \A r \in Requester : request'[r] = request[r] \/ request'[r] = NoRequest
        /\ \A r \in Requester, s \in Sid : Answers(r, s)' => Answers(r, s)
    BY Callers, NoneIsNoToken DEF NoRequest, TypeOK, Answers, Of
  <1>2. Silent'
    BY <1>1 DEF Calls, Silent
  <1>3. UnbornUnheld'
    <2>1. ASSUME NEW s \in Sid, status[s] = "unborn", NEW k, HandedTo(k, d)
          PROVE  ~Of(k, s)
      BY <2>1, NoneIsNoToken DEF HandedTo, PointWire, Unspoken, Answers, Of
    <2>. QED  BY <2>1 DEF Calls, UnbornUnheld, Of
  <1>4. LogoutsEnd'
    <2>. SUFFICES ASSUME NEW c \in CallId, request'[c].at = "granted",
                         call'[c].kind \in {"logout", "logout_all"}
                  PROVE  call'[c].auth \in Token /\ status'[call'[c].auth.sid] = "dead"
      BY DEF LogoutsEnd
    <2>1. call'[c] = call[c] /\ request'[c] = request[c]
      BY <1>1
    <2>. QED  BY <2>1 DEF Calls, LogoutsEnd
  <1>5. \A s \in gone' : s \in Sid /\ status[s] = "dead"
                         /\ \A r \in Requester : ~Answers(r, s)
    BY DEF Calls, Ended, TypeOK, Carried, Answers
  <1>6. Ended'
    BY <1>1, <1>5 DEF Ended
  <1>7. TabsForget'
    <2>. SUFFICES ASSUME NEW t \in Tab, token'[t] \in Token, token'[t].sid \in gone'
                  PROVE  inbox'[t] > 0
      BY DEF TabsForget
    <2>1. ~HandedTo(token'[t], d)
      BY <1>5, NoneIsNoToken DEF HandedTo, Answers, Of
    <2>2. token'[t] = token[t] /\ inbox'[t] >= inbox[t]
      BY <2>1
    <2>3. CASE token[t].sid \in gone
      BY <2>2, <2>3 DEF Calls, TabsForget, TypeOK
    <2>4. CASE token[t].sid \notin gone
      BY <2>2, <2>4, NoneIsNoToken
    <2>. QED  BY <2>3, <2>4
  <1>. QED  BY <1>2, <1>3, <1>4, <1>6, <1>7 DEF Calls

-----------------------------------------------------------------------------
(* The parts are the inductive invariant.                                  *)
Parts == PointWire /\ Calls /\ ReuseOnlyOverlapped

LEMMA PartsOfIInv == IInv => TypeOK /\ LogoutsEnd /\ Parts
  <1>. SUFFICES ASSUME IInv PROVE Parts /\ TypeOK /\ LogoutsEnd
    OBVIOUS
  <1>1. UnbornOffWire /\ UnbornUnheld
    BY DEF IInv, UnbornUnheard, UnbornOffWire, UnbornUnheld
  <1>2. PointWire
    BY <1>1, WireToPoints DEF IInv, Wire
  <1>3. Calls
    BY <1>1 DEF IInv, Calls, Quiet, Silent, GoneEnded, Ended, Carried, Answers
  <1>. QED  BY <1>2, <1>3 DEF IInv, Parts

LEMMA IInvOfParts == TypeOK /\ Parts /\ NobodyWaitsInVain => IInv
  <1>. SUFFICES ASSUME TypeOK, Parts, NobodyWaitsInVain PROVE IInv
    OBVIOUS
  <1>1. Wire
    BY PointsToWire DEF Parts
  <1>2. UnbornUnheard
    BY <1>1 DEF Parts, Calls, Wire, UnbornUnheard, UnbornOffWire, UnbornUnheld
  <1>3. Quiet /\ GoneEnded
    BY DEF Parts, Calls, Quiet, Silent, GoneEnded, Ended, Carried, Answers
  <1>. QED  BY <1>1, <1>2, <1>3 DEF IInv, Parts, Calls, Wire

(* Requests that leave.                                                    *)
LEMMA StartKeeps ==
    ASSUME TypeOK, Parts, NEW c \in CallId, NEW k \in Kind, Start(c, k)
    PROVE  Parts'
  <1>. DEFINE t == TabOf(c)
  <1>1. /\ c \in Requester /\ t \in Tab /\ t \in Requester /\ t \notin CallId /\ t # c
        /\ UNCHANGED <<server, cookie, expired, token, inbox, reused, gone>>
        /\ call[c] = NoCall /\ request[c] = NoRequest
    <2>1. call[c].at # "sent"
      BY CallParts DEF Start, NoCall
    <2>. QED  BY <2>1, Callers DEF Start, Parts, Calls, Silent
  <1>2. /\ \A x \in CallId : x # c => call'[x] = call[x]
        /\ call'[c].auth \in {None, token[t]}
    BY CallParts DEF Start, TypeOK
  <1>3. CASE UNCHANGED <<request, excused>>
    <2>1. PointWire'
      BY <1>1, <1>3, AnswerKeeps DEF Parts, Ending, server
    <2>2. Calls'
      BY <1>1, <1>2, <1>3, SendCalls DEF Parts, server
    <2>. QED  BY <2>1, <2>2, <1>1, <1>3 DEF Parts, ReuseOnlyOverlapped
  <1>4. CASE request[t].at = "none" /\ Present(t)
    <2>1. /\ request[t] = NoRequest /\ request[t].answer = None
          /\ request' = [request EXCEPT ![t] = Sent(cookie)]
          /\ excused' = excused \cup {s \in Sid : InCookie(s) /\ OnWire(s) # {}}
      BY <1>1, <1>4 DEF Parts, Calls, Silent, Present, NoRequest
    <2>2. request'[t] = Sent(cookie) /\ \A q \in Requester \ {t} : request'[q] = request[q]
      BY <1>1, <2>1 DEF TypeOK
    <2>3. \A s \in Sid, q \in Requester \ {t} :
             Of(cookie, s) /\ Presents(q, s) => s \in excused'
      BY <2>1 DEF InCookie, OnWire, Presents
    <2>4. PointWire'
      <3>1. UNCHANGED <<status, generation, cookie>> /\ excused \subseteq excused'
        BY <1>1, <2>1 DEF server
      <3>. QED  BY <3>1, <1>1, <2>1, <2>2, <2>3, SendKeeps DEF Parts
    <2>5. Calls'
      <3>1. \A r \in Requester :
               \/ request'[r] = request[r]
               \/ request'[r].at = "sent" /\ request'[r].answer = None
        BY <2>2 DEF Sent
      <3>2. \A x \in CallId : request'[x] = request[x]
        BY <1>1, <2>2, Callers
      <3>. QED  BY <3>1, <3>2, <1>1, <1>2, SendCalls DEF Parts, server
    <2>. QED  BY <2>1, <2>4, <2>5, <1>1 DEF Parts, ReuseOnlyOverlapped
  <1>. QED  BY <1>3, <1>4 DEF Start, Join

LEMMA DepartKeeps ==
    ASSUME TypeOK, Parts, NEW c \in CallId, Depart(c)
    PROVE  Parts'
  <1>1. /\ c \in Requester
        /\ UNCHANGED <<server, cookie, expired, token, inbox, reused, gone>>
        /\ request[c] = NoRequest /\ request[c].answer = None
    BY Callers DEF Depart, Parts, Calls, Silent, NoRequest
  <1>2. /\ \A x \in CallId : x # c => call'[x] = call[x]
        /\ call'[c].auth = call[c].auth /\ call'[c].at = "sent"
    BY CallParts DEF Depart, TypeOK
  <1>3. PICK k \in {None, cookie} :
           /\ request' = [request EXCEPT ![c] = Sent(k)]
           /\ excused \subseteq excused'
           /\ \A s \in Sid : (k # None /\ InCookie(s) /\ OnWire(s) # {}) => s \in excused'
    BY DEF Depart, Present
  <1>4. request'[c] = Sent(k) /\ \A q \in Requester \ {c} : request'[q] = request[q]
    BY <1>1, <1>3 DEF TypeOK
  <1>5. \A s \in Sid, q \in Requester \ {c} :
           Of(k, s) /\ Presents(q, s) => s \in excused'
    BY <1>3, NoneIsNoToken DEF InCookie, OnWire, Presents, Of
  <1>6. PointWire'
    <2>1. UNCHANGED <<status, generation, cookie>>
      BY <1>1 DEF server
    <2>. QED  BY <2>1, <1>1, <1>3, <1>4, <1>5, SendKeeps DEF Parts
  <1>7. Calls'
    <2>1. /\ request'[c].at = "sent"
          /\ \A r \in Requester :
                \/ request'[r] = request[r]
                \/ request'[r].at = "sent" /\ request'[r].answer = None
      BY <1>1, <1>4 DEF Sent
    <2>2. \A x \in CallId : x # c => request'[x] = request[x]
      BY <1>4, Callers
    <2>. QED  BY <2>1, <2>2, <1>1, <1>2, SendCalls DEF Parts, server
  <1>. QED  BY <1>1, <1>3, <1>6, <1>7 DEF Parts, ReuseOnlyOverlapped

LEMMA RetryKeeps ==
    ASSUME TypeOK, Parts, NEW c \in CallId, RetryAfter401(c)
    PROVE  Parts'
  <1>. DEFINE t == TabOf(c)
  <1>1. /\ c \in Requester /\ t \in Tab /\ t \in Requester /\ t \notin CallId /\ t # c
        /\ UNCHANGED <<server, cookie, expired, token, inbox, reused, gone>>
        /\ request[c].at = "refused"
    BY Callers DEF RetryAfter401, Settled, Denied
  <1>2. /\ \A x \in CallId : x # c => call'[x] = call[x]
        /\ call'[c].auth = None /\ call'[c].at = "retry"
    BY CallParts DEF RetryAfter401, TypeOK
  <1>3. request[c].answer = None
    <2>1. request[c].answer \in Maybe
      BY <1>1, RequestFields DEF TypeOK
    <2>2. \A s \in Sid : ~Answers(c, s)
      BY <1>1 DEF Parts, PointWire, Owned
    <2>. QED  BY <2>1, <2>2, TokenFields DEF Answers, Of, Maybe
  <1>4. CASE request[t].at # "none"
    <2>1. request' = [request EXCEPT ![c] = NoRequest] /\ excused' = excused
      BY <1>4 DEF RetryAfter401
    <2>2. PointWire'
      BY <1>1, <1>3, <2>1, DropKeeps DEF Parts, DropCase, server
    <2>3. Calls'
      <3>1. \A x \in CallId : x # c => request'[x] = request[x]
        BY <2>1, Callers DEF TypeOK
      <3>2. /\ request'[c] = NoRequest
            /\ \A r \in Requester : request'[r] = request[r] \/ request'[r] = NoRequest
        BY <1>1, <2>1 DEF TypeOK
      <3>. QED  BY <3>1, <3>2, <1>1, <1>2, SendCalls DEF Parts, server
    <2>. QED  BY <2>1, <2>2, <2>3, <1>1 DEF Parts, ReuseOnlyOverlapped
  <1>5. CASE request[t].at = "none"
    <2>1. /\ request' = [request EXCEPT ![c] = NoRequest, ![t] = Sent(cookie)]
          /\ excused' = excused \cup {s \in Sid : InCookie(s) /\ OnWire(s) \ {c} # {}}
          /\ request[t] = NoRequest
      BY <1>1, <1>5 DEF RetryAfter401, Parts, Calls, Silent
    <2>2. /\ request'[t] = Sent(cookie) /\ request'[c] = NoRequest
          /\ \A q \in Requester \ {c, t} : request'[q] = request[q]
      BY <1>1, <2>1 DEF TypeOK
    <2>3. \A s \in Sid, q \in Requester \ {c, t} :
             Of(cookie, s) /\ Presents(q, s) => s \in excused'
      BY <2>1 DEF InCookie, OnWire, Presents
    <2>4. PointWire'
      <3>1. UNCHANGED <<status, generation, cookie>> /\ excused \subseteq excused'
        BY <1>1, <2>1 DEF server
      <3>. QED  BY <3>1, <1>1, <1>3, <2>1, <2>2, <2>3, SendKeeps DEF Parts
    <2>5. Calls'
      <3>1. /\ request'[c] = NoRequest
            /\ \A r \in Requester : \/ request'[r] = request[r]
                                    \/ request'[r] = NoRequest
                                    \/ request'[r].at = "sent" /\ request'[r].answer = None
        BY <1>1, <2>2 DEF Sent
      <3>2. \A x \in CallId : x # c => request'[x] = request[x]
        BY <1>1, <2>2, Callers
      <3>. QED  BY <3>1, <3>2, <1>1, <1>2, SendCalls DEF Parts, server
    <2>. QED  BY <2>1, <2>4, <2>5, <1>1 DEF Parts, ReuseOnlyOverlapped
  <1>. QED  BY <1>4, <1>5

(* The server.                                                             *)
LEMMA ReplyParts ==
    ASSUME TypeOK, NEW r \in Requester, NEW a, NEW k, Reply(r, a, k)
    PROVE  /\ request'[r].at = a /\ request'[r].answer = k
           /\ request'[r].cookie = request[r].cookie
           /\ \A q \in Requester : q # r => request'[q] = request[q]
  BY DEF Reply, TypeOK

LEMMA ServeRefreshKeeps ==
    ASSUME TypeOK, Parts, NEW r \in Requester, ServeRefresh(r)
    PROVE  Parts'
  <1>. DEFINE k == request[r].cookie
  <1>1. /\ UNCHANGED <<cookie, token, inbox, call, excused, gone>>
        /\ request[r].at = "sent" /\ IsRefresh(r)
        /\ r \in CallId => call[r].kind \notin {"logout", "logout_all"}
    BY Callers DEF ServeRefresh, Unserved, IsRefresh
  <1>2. CASE /\ k \in Token /\ status[k.sid] = "live" /\ Current(k)
             /\ Family!Redeem(k.sid)
             /\ Reply(r, "granted", [sid |-> k.sid, gen |-> generation[k.sid] + 1])
             /\ UNCHANGED reused
    <2>. DEFINE s == k.sid
                n == [sid |-> s, gen |-> generation[s] + 1]
    <2>1. s \in Sid /\ generation' = [generation EXCEPT ![s] = @ + 1] /\ status' = status
      BY <1>2, TokenFields DEF Family!Redeem
    <2>2. PointWire'
      BY <1>1, <1>2, <2>1, RedeemKeeps DEF Parts, Reply
    <2>3. Calls'
      <3>1. /\ request'[r].at = "granted" /\ request'[r].answer = n
            /\ \A q \in Requester : q # r => request'[q] = request[q]
        BY <1>2, ReplyParts
      <3>2. n.sid = s
        OBVIOUS
      <3>3. Replied(r)
        BY <1>1, <1>2, <2>1, <3>1, <3>2 DEF Replied
      <3>. QED  BY <1>1, <2>1, <3>1, <3>3, ServeCalls DEF Parts, Ending
    <2>. QED  BY <2>2, <2>3, <1>1, <1>2 DEF Parts, ReuseOnlyOverlapped
  <1>3. CASE /\ k \in Token /\ status[k.sid] = "live" /\ ~Current(k)
             /\ Family!Close({k.sid}) /\ reused' = reused \cup {k.sid}
             /\ Reply(r, "refused", None)
    <2>1. /\ k.sid \in Sid /\ generation' = generation
          /\ \A s \in Sid : status'[s] = "unborn" => status[s] = "unborn"
          /\ \A s \in Sid : status[s] = "dead" => status'[s] = "dead"
      BY <1>3, TokenFields DEF Family!Close, TypeOK
    <2>2. PointWire'
      BY <1>1, <1>3, <2>1, AnswerKeeps DEF Parts, Ending, Reply, AnsweredWithout
    <2>3. Calls'
      <3>1. /\ request'[r].at = "refused" /\ request'[r].answer = None
            /\ \A q \in Requester : q # r => request'[q] = request[q]
        BY <1>3, ReplyParts
      <3>2. Replied(r)
        BY <1>1, <3>1, NoneIsNoToken DEF Replied
      <3>. QED  BY <1>1, <2>1, <3>1, <3>2, ServeCalls DEF Parts, Ending
    <2>4. k.sid \in excused
      <3>1. Presents(r, k.sid)
        BY <1>3 DEF Presents, Of
      <3>2. Fresh(k)
        BY <1>1, <2>1, <3>1 DEF Parts, PointWire, Renewed
      <3>. QED  BY <1>3, <3>2 DEF Fresh, Current
    <2>. QED  BY <2>2, <2>3, <2>4, <1>1, <1>3 DEF Parts, ReuseOnlyOverlapped
  <1>4. CASE Reply(r, "refused", None) /\ UNCHANGED <<server, reused>>
    <2>2. PointWire'
      BY <1>1, <1>4, AnswerKeeps DEF Parts, Ending, Reply, AnsweredWithout, server
    <2>3. Calls'
      <3>1. /\ request'[r].at = "refused" /\ request'[r].answer = None
            /\ \A q \in Requester : q # r => request'[q] = request[q]
        BY <1>4, ReplyParts
      <3>2. Replied(r)
        BY <1>1, <3>1, NoneIsNoToken DEF Replied
      <3>. QED  BY <1>1, <1>4, <3>1, <3>2, ServeCalls DEF Parts, Ending, server
    <2>. QED  BY <2>2, <2>3, <1>1, <1>4 DEF Parts, ReuseOnlyOverlapped
  <1>. QED  BY <1>2, <1>3, <1>4 DEF ServeRefresh

LEMMA ServeKeeps ==
    ASSUME TypeOK, Parts, NEW c \in CallId, Serve(c)
    PROVE  Parts'
  <1>1. /\ c \in Requester /\ call[c] \in CallState
        /\ UNCHANGED <<cookie, token, inbox, call, excused, gone, reused>>
        /\ request[c].at = "sent"
    BY Callers DEF Serve, ServeLogin, ServeLogout, ServeApi, Refuse, Pending,
                   Unserved, TypeOK
  <1>2. CASE ServeLogin(c)
    <2>1. PICK s \in Sid : /\ Family!Open(s)
                           /\ Reply(c, "granted", [sid |-> s, gen |-> generation[s]])
      BY <1>2 DEF ServeLogin
    <2>. DEFINE n == [sid |-> s, gen |-> generation[s]]
    <2>2. /\ status[s] = "unborn" /\ status' = [status EXCEPT ![s] = "live"]
          /\ generation' = generation
      BY <2>1 DEF Family!Open
    <2>3. PointWire'
      BY <1>1, <2>1, <2>2, LoginKeeps DEF Parts, Reply
    <2>4. Calls'
      <3>1. /\ request'[c].at = "granted" /\ request'[c].answer = n
            /\ \A q \in Requester : q # c => request'[q] = request[q]
        BY <1>1, <2>1, ReplyParts
      <3>2. n.sid = s /\ call[c].kind = "login"
        BY <1>2 DEF ServeLogin, Pending
      <3>3. Replied(c)
        BY <1>1, <2>2, <3>1, <3>2 DEF Replied
      <3>4. /\ \A z \in Sid : status'[z] = "unborn" => status[z] = "unborn"
            /\ \A z \in Sid : status[z] = "dead" => status'[z] = "dead"
        BY <2>2 DEF TypeOK
      <3>. QED  BY <1>1, <3>1, <3>3, <3>4, ServeCalls DEF Parts, Ending
    <2>. QED  BY <2>3, <2>4, <1>1 DEF Parts, ReuseOnlyOverlapped
  <1>3. CASE ServeLogout(c)
    <2>1. call[c].auth \in Token /\ call[c].auth.sid \in Sid
      BY <1>1, <1>3, CallFields, TokenFields DEF ServeLogout, Authentic, Maybe
    <2>2. /\ generation' = generation
          /\ \A s \in Sid : status'[s] = "unborn" => status[s] = "unborn"
          /\ \A s \in Sid : status[s] = "dead" => status'[s] = "dead"
          /\ status[call[c].auth.sid] # "live" \/ status'[call[c].auth.sid] = "dead"
      <3>1. PICK S \in SUBSET Sid : Close(S) /\ call[c].auth.sid \in S
        BY <1>3, <2>1 DEF ServeLogout
      <3>. QED  BY <2>1, <3>1, CloseTyped
    <2>3. Reply(c, "granted", None)
      BY <1>3 DEF ServeLogout
    <2>4. PointWire'
      BY <1>1, <2>2, <2>3, AnswerKeeps DEF Parts, Ending, Reply, AnsweredWithout
    <2>5. Calls'
      <3>1. /\ request'[c].at = "granted" /\ request'[c].answer = None
            /\ \A q \in Requester : q # c => request'[q] = request[q]
        BY <1>1, <2>3, ReplyParts
      <3>2. status'[call[c].auth.sid] = "dead"
        <4>1. status[call[c].auth.sid] # "unborn"
          BY <2>1 DEF Parts, Calls, UnbornUnheld, Of
        <4>2. status[call[c].auth.sid] \in {"unborn", "live", "dead"}
          BY <2>1 DEF TypeOK
        <4>. QED  BY <2>1, <2>2, <4>1, <4>2
      <3>3. Replied(c)
        BY <1>1, <2>1, <3>1, <3>2, NoneIsNoToken DEF Replied
      <3>. QED  BY <1>1, <2>2, <3>1, <3>3, ServeCalls DEF Parts, Ending
    <2>. QED  BY <2>4, <2>5, <1>1 DEF Parts, ReuseOnlyOverlapped
  <1>4. CASE ServeApi(c) \/ Refuse(c)
    <2>1. PICK a \in {"granted", "refused"} :
             /\ Reply(c, a, None) /\ UNCHANGED server
             /\ a = "granted" => call[c].kind = "api"
      BY <1>4 DEF ServeApi, Refuse, Pending
    <2>2. PointWire'
      BY <1>1, <2>1, AnswerKeeps DEF Parts, Ending, Reply, AnsweredWithout, server
    <2>3. Calls'
      <3>1. /\ request'[c].at = a /\ request'[c].answer = None
            /\ \A q \in Requester : q # c => request'[q] = request[q]
        BY <1>1, <2>1, ReplyParts
      <3>2. Replied(c)
        BY <1>1, <2>1, <3>1, NoneIsNoToken DEF Replied
      <3>. QED  BY <1>1, <2>1, <3>1, <3>2, ServeCalls DEF Parts, Ending, server
    <2>. QED  BY <2>2, <2>3, <1>1 DEF Parts, ReuseOnlyOverlapped
  <1>. QED  BY <1>2, <1>3, <1>4 DEF Serve

LEMMA EndSessionKeeps ==
    ASSUME TypeOK, Parts, NEW s \in Sid, EndSession(s)
    PROVE  Parts'
  <1>1. UNCHANGED <<cookie, token, inbox, call, excused, gone, reused, request>>
    BY DEF EndSession, Unserved
  <1>2. /\ generation' = generation
        /\ \A z \in Sid : status'[z] = "unborn" => status[z] = "unborn"
        /\ \A z \in Sid : status[z] = "dead" => status'[z] = "dead"
    BY DEF EndSession, Family!Close, TypeOK
  <1>3. PointWire'
    BY <1>1, <1>2, AnswerKeeps DEF Parts, Ending
  <1>4. Calls'
    BY <1>1, <1>2, ServeCalls DEF Parts, Ending
  <1>. QED  BY <1>1, <1>3, <1>4 DEF Parts, ReuseOnlyOverlapped

LEMMA ExpireKeeps ==
    ASSUME TypeOK, Parts, NEW k \in Token, Expire(k)
    PROVE  Parts'
  <1>1. UNCHANGED <<status, generation, cookie, token, inbox, call, excused, gone,
                    reused, request>>
    BY DEF Expire, server
  <1>2. PointWire'
    BY <1>1, AnswerKeeps DEF Parts, Ending
  <1>3. Calls'
    BY <1>1, ServeCalls DEF Parts, Ending
  <1>. QED  BY <1>1, <1>2, <1>3 DEF Parts, ReuseOnlyOverlapped

-----------------------------------------------------------------------------
(* What arrives or is lost.                                                *)
LEMMA RefusedEmpty ==
    ASSUME TypeOK, Parts, NEW r \in Requester, request[r].at = "refused"
    PROVE  request[r].answer = None
  <1>1. request[r].answer \in Maybe
    BY RequestFields DEF TypeOK
  <1>2. \A s \in Sid : ~Answers(r, s)
    BY DEF Parts, PointWire, Owned
  <1>. QED  BY <1>1, <1>2, TokenFields DEF Answers, Of, Maybe

LEMMA ClearHands ==
    ASSUME TypeOK, NEW t \in Tab, Clear(t)
    PROVE  /\ inbox' \in [Tab -> Nat] /\ token'[t] = None
           /\ \A u \in Tab : \/ token'[u] = token[u] /\ inbox'[u] >= inbox[u]
                             \/ token'[u] = None
           /\ token[t] # None => \A u \in Tab : token'[u] = None \/ inbox'[u] > 0
  BY DEF Clear, TypeOK

LEMMA AdoptHands ==
    ASSUME TypeOK, NEW t \in Tab, NEW k, Adopt(t, k)
    PROVE  /\ inbox' \in [Tab -> Nat] /\ cookie' = k
           /\ \A u \in Tab : \/ token'[u] = token[u] /\ inbox'[u] >= inbox[u]
                             \/ token'[u] = k
  BY DEF Adopt, TypeOK

LEMMA WaitingHands ==
    ASSUME TypeOK, Parts, NEW t \in Tab, NEW c \in Waiting(t), NEW k
    PROVE  /\ c \in CallId /\ c # t /\ request[c] = NoRequest
           /\ Resume(c, k).auth \in {None, k}
  <1>1. c \in CallId /\ call[c].at # "sent"
    BY DEF Waiting
  <1>2. Resume(c, k).auth \in {None, k}
    BY CallParts DEF Resume, NoCall
  <1>. QED  BY <1>1, <1>2, Callers DEF Parts, Calls, Silent

LEMMA RefreshArrivesKeeps ==
    ASSUME TypeOK, Parts, NEW t \in Tab, RefreshArrives(t)
    PROVE  Parts'
  <1>. DEFINE k == request[t].answer
  <1>1. /\ t \in Requester
        /\ UNCHANGED <<status, generation, reused, excused, gone>>
        /\ request' = [request EXCEPT ![t] = NoRequest]
        /\ \A q \in Requester : q # t => request'[q] = request[q]
    BY Callers DEF RefreshArrives, server, TypeOK
  <1>2. /\ inbox' \in [Tab -> Nat] /\ DropCase(t)
        /\ \A u \in Tab : \/ token'[u] = token[u] /\ inbox'[u] >= inbox[u]
                          \/ HandedTo(token'[u], t)
    <2>1. CASE Adopt(t, k)
      BY <2>1, AdoptHands DEF DropCase, HandedTo
    <2>2. CASE request[t].at = "refused" /\ Clear(t) /\ UNCHANGED cookie
      BY <1>1, <2>2, RefusedEmpty, ClearHands DEF DropCase, HandedTo
    <2>. QED  BY <2>1, <2>2 DEF RefreshArrives
  <1>3. \A c \in CallId : \/ call'[c] = call[c] /\ request'[c] = request[c]
                          \/ HandedTo(call'[c].auth, t) /\ request'[c] = NoRequest
    <2>. SUFFICES ASSUME NEW c \in CallId
                  PROVE  \/ call'[c] = call[c] /\ request'[c] = request[c]
                         \/ HandedTo(call'[c].auth, t) /\ request'[c] = NoRequest
      OBVIOUS
    <2>1. request'[c] = request[c]
      BY <1>1, Callers
    <2>2. CASE c \in Waiting(t)
      <3>1. call'[c] = Resume(c, k)
        BY <2>2 DEF RefreshArrives
      <3>. QED  BY <2>1, <2>2, <3>1, WaitingHands DEF HandedTo
    <2>3. CASE c \notin Waiting(t)
      BY <2>1, <2>3 DEF RefreshArrives
    <2>. QED  BY <2>2, <2>3
  <1>4. PointWire'
    BY <1>1, <1>2, DropKeeps DEF Parts
  <1>5. Calls'
    BY <1>1, <1>2, <1>3, ArriveCalls DEF Parts
  <1>. QED  BY <1>1, <1>4, <1>5 DEF Parts, ReuseOnlyOverlapped

LEMMA LoseKeeps ==
    ASSUME TypeOK, Parts, NEW r \in Requester,
           request' = [request EXCEPT ![r] = NoRequest],
           excused' = excused \cup Lost(r),
           UNCHANGED <<server, cookie, token, inbox, reused, gone>>,
           \A c \in CallId : \/ call'[c] = call[c] /\ request'[c] = request[c]
                             \/ call'[c] = NoCall /\ request'[c] = NoRequest
    PROVE  Parts'
  <1>1. NoCall.auth = None
    BY CallParts DEF NoCall
  <1>2. PointWire'
    BY DropKeeps DEF Parts, DropCase, server
  <1>3. Calls'
    <2>1. \A c \in CallId : \/ call'[c] = call[c] /\ request'[c] = request[c]
                            \/ HandedTo(call'[c].auth, r) /\ request'[c] = NoRequest
      BY <1>1 DEF HandedTo
    <2>2. /\ \A t \in Tab : token'[t] = token[t] /\ inbox'[t] >= inbox[t]
          /\ inbox' \in [Tab -> Nat] /\ status' = status /\ gone' = gone
      BY DEF TypeOK, server
    <2>. QED  BY <2>1, <2>2, ArriveCalls DEF Parts
  <1>. QED  BY <1>2, <1>3 DEF Parts, ReuseOnlyOverlapped

LEMMA LoseRefreshKeeps ==
    ASSUME TypeOK, Parts, NEW t \in Tab, LoseRefresh(t)
    PROVE  Parts'
  <1>1. \A c \in CallId : \/ call'[c] = call[c] /\ request'[c] = request[c]
                          \/ call'[c] = NoCall /\ request'[c] = NoRequest
    <2>1. \A c \in CallId : request'[c] = request[c]
      BY Callers DEF LoseRefresh, TypeOK
    <2>2. \A c \in Waiting(t) : request[c] = NoRequest
      BY WaitingHands
    <2>. QED  BY <2>1, <2>2 DEF LoseRefresh
  <1>2. t \in Requester
    BY Callers
  <1>. QED  BY <1>1, <1>2, LoseKeeps DEF LoseRefresh

LEMMA LoseCallKeeps ==
    ASSUME TypeOK, Parts, NEW c \in CallId, LoseCall(c)
    PROVE  Parts'
  <1>1. \A x \in CallId : \/ call'[x] = call[x] /\ request'[x] = request[x]
                          \/ call'[x] = NoCall /\ request'[x] = NoRequest
    BY Callers DEF LoseCall, TypeOK
  <1>2. c \in Requester
    BY Callers
  <1>. QED  BY <1>1, <1>2, LoseKeeps DEF LoseCall

(* A call is answered for good.                                            *)
LEMMA EndKeeps ==
    ASSUME TypeOK, Parts, NEW c \in CallId, End(c), Settled, UNCHANGED excused,
           DropCase(c), inbox' \in [Tab -> Nat],
           \A t \in Tab : \/ token'[t] = token[t] /\ inbox'[t] >= inbox[t]
                          \/ HandedTo(token'[t], c),
           \A s \in gone' : \/ s \in gone
                            \/ /\ s \in Sid /\ status[s] = "dead" /\ ~Carried(s)
                               /\ \A t \in Tab : token'[t] = None \/ inbox'[t] > 0
    PROVE  Parts'
  <1>1. /\ c \in Requester /\ request' = [request EXCEPT ![c] = NoRequest]
        /\ UNCHANGED <<status, generation, reused>>
    BY Callers DEF End, Settled, server
  <1>2. \A x \in CallId : \/ call'[x] = call[x] /\ request'[x] = request[x]
                          \/ HandedTo(call'[x].auth, c) /\ request'[x] = NoRequest
    <2>1. NoCall.auth = None
      BY CallParts DEF NoCall
    <2>2. call'[c] = NoCall /\ request'[c] = NoRequest
      BY <1>1 DEF End, TypeOK
    <2>3. \A x \in CallId : x # c => call'[x] = call[x] /\ request'[x] = request[x]
      BY Callers DEF End, TypeOK
    <2>. QED  BY <2>1, <2>2, <2>3 DEF HandedTo
  <1>3. PointWire'
    BY <1>1, DropKeeps DEF Parts
  <1>4. Calls'
    BY <1>1, <1>2, ArriveCalls DEF Parts
  <1>. QED  BY <1>1, <1>3, <1>4 DEF Parts, ReuseOnlyOverlapped

LEMMA CallDoneKeeps ==
    ASSUME TypeOK, Parts, NEW c \in CallId, CallDone(c)
    PROVE  Parts'
  <1>1. TabOf(c) \in Tab /\ End(c) /\ Settled /\ UNCHANGED <<excused, gone>>
    BY Callers DEF CallDone
  <1>2. /\ inbox' \in [Tab -> Nat] /\ DropCase(c)
        /\ \A u \in Tab : \/ token'[u] = token[u] /\ inbox'[u] >= inbox[u]
                          \/ HandedTo(token'[u], c)
    <2>1. CASE Adopt(TabOf(c), request[c].answer)
      BY <1>1, <2>1, AdoptHands DEF DropCase, HandedTo
    <2>2. CASE request[c].answer = None /\ UNCHANGED <<cookie, token, inbox>>
      BY <2>2 DEF DropCase, TypeOK
    <2>. QED  BY <2>1, <2>2 DEF CallDone
  <1>. QED  BY <1>1, <1>2, EndKeeps

LEMMA GiveUpKeeps ==
    ASSUME TypeOK, Parts, NEW c \in CallId, GiveUp(c)
    PROVE  Parts'
  <1>1. /\ TabOf(c) \in Tab /\ c \in Requester /\ Clear(TabOf(c))
        /\ End(c) /\ Settled /\ UNCHANGED <<cookie, excused, gone>>
        /\ request[c].at = "refused"
    BY Callers DEF GiveUp, Denied
  <1>2. DropCase(c)
    BY <1>1, RefusedEmpty DEF DropCase
  <1>3. /\ inbox' \in [Tab -> Nat]
        /\ \A u \in Tab : \/ token'[u] = token[u] /\ inbox'[u] >= inbox[u]
                          \/ HandedTo(token'[u], c)
    BY <1>1, ClearHands DEF HandedTo
  <1>. QED  BY <1>1, <1>2, <1>3, EndKeeps

LEMMA LogoutDoneKeeps ==
    ASSUME TypeOK, Parts, NEW c \in CallId, LogoutDone(c)
    PROVE  Parts'
  <1>. DEFINE t == TabOf(c)
              s == call[c].auth.sid
  <1>1. /\ t \in Tab /\ Clear(t) /\ End(c) /\ Settled /\ excused' = excused
        /\ cookie' = None
        /\ gone' = IF token[t] = None \/ Carried(s) THEN gone ELSE gone \cup {s}
    BY Callers DEF LogoutDone
  <1>2. s \in Sid /\ status[s] = "dead"
    <2>1. call[c].auth \in Token /\ status[s] = "dead"
      BY DEF LogoutDone, Granted, Parts, Calls, LogoutsEnd
    <2>. QED  BY <2>1, TokenFields
  <1>3. /\ inbox' \in [Tab -> Nat]
        /\ \A u \in Tab : \/ token'[u] = token[u] /\ inbox'[u] >= inbox[u]
                          \/ HandedTo(token'[u], c)
        /\ token[t] # None => \A u \in Tab : token'[u] = None \/ inbox'[u] > 0
    BY <1>1, ClearHands DEF HandedTo
  <1>4. \A z \in gone' : \/ z \in gone
                         \/ /\ z \in Sid /\ status[z] = "dead" /\ ~Carried(z)
                            /\ \A u \in Tab : token'[u] = None \/ inbox'[u] > 0
    BY <1>1, <1>2, <1>3
  <1>. QED  BY <1>1, <1>3, <1>4, EndKeeps DEF DropCase

LEMMA HearKeeps ==
    ASSUME TypeOK, Parts, NEW t \in Tab, Hear(t)
    PROVE  Parts'
  <1>1. UNCHANGED <<status, generation, cookie, call, request, reused, excused, gone>>
    BY DEF Hear, server
  <1>2. PointWire'
    BY <1>1, AnswerKeeps DEF Parts, Ending
  <1>3. \A u \in Tab : \/ token'[u] = token[u] /\ inbox'[u] = inbox[u]
                       \/ token'[u] = None
    BY DEF Hear, TypeOK
  <1>4. Calls'
    <2>1. Silent' /\ LogoutsEnd' /\ Ended'
      BY <1>1 DEF Parts, Calls, Silent, LogoutsEnd, Ended, Answers, Of
    <2>2. UnbornUnheld'
      BY <1>1, <1>3, NoneIsNoToken DEF Parts, Calls, UnbornUnheld, Of
    <2>3. TabsForget'
      BY <1>1, <1>3, NoneIsNoToken DEF Parts, Calls, TabsForget
    <2>. QED  BY <2>1, <2>2, <2>3 DEF Calls
  <1>. QED  BY <1>1, <1>2, <1>4 DEF Parts, ReuseOnlyOverlapped

-----------------------------------------------------------------------------
(* Nobody waits in vain: a refresh that ends takes along all who wait for  *)
(* it, and a request that ends the call that made it.                      *)
LEMMA OnTheWay == \A k : Sent(k).at # "none"
  BY DEF Sent

(* Steps that touch no call and take nothing off the wire.                 *)
LEMMA WaitsOn ==
    ASSUME NobodyWaitsInVain, call' = call,
           \A r \in Requester : request[r].at # "none" => request'[r].at # "none"
    PROVE  NobodyWaitsInVain'
  BY Callers DEF NobodyWaitsInVain

LEMMA ReplyWaits ==
    ASSUME TypeOK, NobodyWaitsInVain, NEW r \in Requester, NEW k, call' = call,
           Reply(r, "granted", k) \/ Reply(r, "refused", k)
    PROVE  NobodyWaitsInVain'
  <1>1. \A q \in Requester : request[q].at # "none" => request'[q].at # "none"
    BY DEF Reply, TypeOK
  <1>. QED  BY <1>1, WaitsOn

LEMMA StartWaits ==
    ASSUME TypeOK, NobodyWaitsInVain, NEW c \in CallId, NEW k \in Kind, Start(c, k)
    PROVE  NobodyWaitsInVain'
  <1>. DEFINE t == TabOf(c)
  <1>1. \A r \in Requester : request[r].at # "none" => request'[r].at # "none"
    BY OnTheWay, Callers DEF Start, Join, Present, TypeOK
  <1>2. \A x \in CallId : x # c => call'[x] = call[x]
    BY DEF Start, TypeOK
  <1>3. \/ call'[c].at = "ready"
        \/ call'[c].at = "header" /\ request'[t].at # "none"
    <2>1. CASE call' = [call EXCEPT ![c] = CallAt(k, "ready", 1, token[t])]
      BY <2>1, CallParts DEF TypeOK
    <2>2. CASE call' = [call EXCEPT ![c] = CallAt(k, "header", 1, None)] /\ Join(t)
      <3>1. call'[c].at = "header"
        BY <2>2, CallParts DEF TypeOK
      <3>2. request'[t].at # "none"
        BY <2>2, OnTheWay, Callers DEF Join, Present, TypeOK
      <3>. QED  BY <3>1, <3>2
    <2>. QED  BY <2>1, <2>2 DEF Start
  <1>. QED  BY <1>1, <1>2, <1>3, Callers DEF NobodyWaitsInVain

LEMMA DepartWaits ==
    ASSUME TypeOK, NobodyWaitsInVain, NEW c \in CallId, Depart(c)
    PROVE  NobodyWaitsInVain'
  <1>1. \/ request' = [request EXCEPT ![c] = Sent(cookie)]
        \/ request' = [request EXCEPT ![c] = Sent(None)]
    BY DEF Depart, Present
  <1>2. /\ request'[c].at # "none"
        /\ \A r \in Requester : request[r].at # "none" => request'[r].at # "none"
    BY <1>1, OnTheWay, Callers DEF TypeOK
  <1>3. call'[c].at = "sent" /\ \A x \in CallId : x # c => call'[x] = call[x]
    BY CallParts DEF Depart, TypeOK
  <1>. QED  BY <1>2, <1>3, Callers DEF NobodyWaitsInVain

(* What becomes of those who wait for a refresh that has ended.            *)
LEMMA RefreshEndsWaits ==
    ASSUME TypeOK, NobodyWaitsInVain, NEW t \in Tab,
           request' = [request EXCEPT ![t] = NoRequest],
           \A c \in CallId : IF c \in Waiting(t) THEN call'[c].at \in {"ready", "idle"}
                             ELSE call'[c] = call[c]
    PROVE  NobodyWaitsInVain'
  <1>1. \A r \in Requester : r # t => request'[r] = request[r]
    BY DEF TypeOK
  <1>. SUFFICES ASSUME NEW c \in CallId
                PROVE  /\ call'[c].at \in {"header", "retry"}
                             => request'[TabOf(c)].at # "none"
                       /\ call'[c].at = "sent" => request'[c].at # "none"
    BY DEF NobodyWaitsInVain
  <1>2. CASE c \in Waiting(t)
    BY <1>2
  <1>3. CASE c \notin Waiting(t)
    <2>1. call'[c] = call[c] /\ c # t
      BY <1>3, Callers
    <2>2. call[c].at \in {"header", "retry"} => TabOf(c) # t
      BY <1>3 DEF Waiting
    <2>. QED  BY <1>1, <2>1, <2>2, Callers DEF NobodyWaitsInVain
  <1>. QED  BY <1>2, <1>3

LEMMA Resumed ==
    ASSUME NEW c \in CallId, NEW k
    PROVE  Resume(c, k).at \in {"ready", "idle"}
  BY CallParts DEF Resume, NoCall

LEMMA RefreshArrivesWaits ==
    ASSUME TypeOK, NobodyWaitsInVain, NEW t \in Tab, RefreshArrives(t)
    PROVE  NobodyWaitsInVain'
  BY Resumed, RefreshEndsWaits DEF RefreshArrives, TypeOK

LEMMA LoseRefreshWaits ==
    ASSUME TypeOK, NobodyWaitsInVain, NEW t \in Tab, LoseRefresh(t)
    PROVE  NobodyWaitsInVain'
  <1>1. NoCall.at = "idle"
    BY CallParts DEF NoCall
  <1>. QED  BY <1>1, RefreshEndsWaits DEF LoseRefresh, TypeOK

LEMMA EndWaits ==
    ASSUME TypeOK, NobodyWaitsInVain, NEW c \in CallId,
           call' = [call EXCEPT ![c] = NoCall],
           request' = [request EXCEPT ![c] = NoRequest]
    PROVE  NobodyWaitsInVain'
  <1>1. call'[c].at = "idle" /\ \A x \in CallId : x # c => call'[x] = call[x]
    BY CallParts DEF NoCall, TypeOK
  <1>2. \A r \in Requester : r # c => request'[r] = request[r]
    BY DEF TypeOK
  <1>3. \A x \in CallId : TabOf(x) # c
    BY Callers
  <1>. QED  BY <1>1, <1>2, <1>3, Callers DEF NobodyWaitsInVain

LEMMA RetryWaits ==
    ASSUME TypeOK, NobodyWaitsInVain, NEW c \in CallId, RetryAfter401(c)
    PROVE  NobodyWaitsInVain'
  <1>. DEFINE t == TabOf(c)
  <1>1. t \in Requester /\ t # c /\ \A x \in CallId : TabOf(x) # c
    BY Callers
  <1>2. call'[c].at = "retry" /\ \A x \in CallId : x # c => call'[x] = call[x]
    BY CallParts DEF RetryAfter401, TypeOK
  <1>3. /\ request'[t].at # "none"
        /\ \A r \in Requester : r # c /\ r # t => request'[r] = request[r]
    BY <1>1, OnTheWay DEF RetryAfter401, TypeOK
  <1>. QED  BY <1>1, <1>2, <1>3, Callers DEF NobodyWaitsInVain

LEMMA WaitsInit == Init => NobodyWaitsInVain
  <1>1. NoCall.at = "idle"
    BY CallParts DEF NoCall
  <1>. QED  BY <1>1 DEF Init, NobodyWaitsInVain

LEMMA WaitsStep == TypeOK /\ NobodyWaitsInVain /\ [Next]_vars => NobodyWaitsInVain'
  <1>. SUFFICES ASSUME TypeOK, NobodyWaitsInVain, [Next]_vars
                PROVE  NobodyWaitsInVain'
    OBVIOUS
  <1>1. ASSUME NEW c \in CallId, NEW k \in Kind, Start(c, k)
        PROVE  NobodyWaitsInVain'
    BY <1>1, StartWaits
  <1>2. ASSUME NEW c \in CallId, Depart(c) \/ Serve(c) \/ Arrive(c) \/ LoseCall(c)
        PROVE  NobodyWaitsInVain'
    <2>1. CASE Serve(c)
      <3>1. c \in Requester /\ call' = call
        BY <2>1, Callers
           DEF Serve, ServeLogin, ServeLogout, ServeApi, Refuse, Unserved
      <3>2. \E k : Reply(c, "granted", k) \/ Reply(c, "refused", k)
        BY <2>1 DEF Serve, ServeLogin, ServeLogout, ServeApi, Refuse
      <3>. QED  BY <3>1, <3>2, ReplyWaits
    <2>2. CASE Arrive(c)
      BY <2>2, EndWaits, RetryWaits DEF Arrive, CallDone, LogoutDone, GiveUp, End
    <2>3. CASE LoseCall(c)
      BY <2>3, EndWaits DEF LoseCall
    <2>. QED  BY <1>2, <2>1, <2>2, <2>3, DepartWaits
  <1>3. ASSUME NEW r \in Requester, ServeRefresh(r)
        PROVE  NobodyWaitsInVain'
    <2>1. call' = call /\ \E k : Reply(r, "granted", k) \/ Reply(r, "refused", k)
      BY <1>3 DEF ServeRefresh, Unserved
    <2>. QED  BY <2>1, ReplyWaits
  <1>4. ASSUME NEW t \in Tab, RefreshArrives(t) \/ LoseRefresh(t) \/ Hear(t)
        PROVE  NobodyWaitsInVain'
    <2>1. CASE Hear(t)
      BY <2>1, WaitsOn DEF Hear
    <2>. QED  BY <1>4, <2>1, RefreshArrivesWaits, LoseRefreshWaits
  <1>5. ASSUME NEW s \in Sid, EndSession(s)
        PROVE  NobodyWaitsInVain'
    BY <1>5, WaitsOn DEF EndSession, Unserved
  <1>6. ASSUME NEW k, Expire(k)
        PROVE  NobodyWaitsInVain'
    BY <1>6, WaitsOn DEF Expire
  <1>7. CASE UNCHANGED vars
    BY <1>7, WaitsOn DEF vars
  <1>. QED  BY <1>1, <1>2, <1>3, <1>4, <1>5, <1>6, <1>7 DEF Next

-----------------------------------------------------------------------------
(* The three facts.                                                        *)
LEMMA InvariantInit == Init => IInv
  <1>. SUFFICES ASSUME Init PROVE IInv
    OBVIOUS
  <1>1. TypeOK
    BY TypeCorrectInit
  <1>2. /\ cookie = None /\ reused = {} /\ gone = {}
        /\ \A t \in Tab : token[t] = None
        /\ \A c \in CallId : call[c] = NoCall
        /\ \A r \in Requester : request[r] = NoRequest
        /\ NoCall.auth = None /\ NoRequest.at = "none"
        /\ NoRequest.cookie = None /\ NoRequest.answer = None
    BY CallParts DEF Init, NoCall, NoRequest
  <1>3. \A r \in Requester, s \in Sid : ~Presents(r, s) /\ ~Answers(r, s)
    BY <1>2, NoneIsNoToken DEF Presents, Answers, Of
  <1>4. \A s \in Sid : ~Of(None, s)
    BY NoneIsNoToken DEF Of
  <1>5. PointWire
    BY <1>2, <1>3, <1>4 DEF PointWire, Alone, Owned, Stored, Unspoken, Renewed
  <1>6. Calls
    <2>1. Silent /\ LogoutsEnd
      BY <1>2, Callers DEF Silent, LogoutsEnd
    <2>2. UnbornUnheld
      BY <1>2, <1>4 DEF UnbornUnheld
    <2>3. Ended /\ TabsForget
      BY <1>2 DEF Ended, TabsForget
    <2>. QED  BY <2>1, <2>2, <2>3 DEF Calls
  <1>. QED  BY <1>1, <1>2, <1>5, <1>6, WaitsInit, IInvOfParts
            DEF Parts, ReuseOnlyOverlapped

LEMMA InvariantStep == IInv /\ [Next]_vars => IInv'
  <1>. SUFFICES ASSUME IInv, [Next]_vars PROVE TypeOK' /\ Parts'
    <2>1. IInv /\ [Next]_vars => NobodyWaitsInVain'
      BY WaitsStep DEF IInv
    <2>. QED  BY <2>1, IInvOfParts, PTL
  <1>1. TypeOK /\ LogoutsEnd /\ Parts
    BY PartsOfIInv
  <1>2. ASSUME NEW c \in CallId, NEW k \in Kind, Start(c, k)
        PROVE  TypeOK' /\ Parts'
    BY <1>1, <1>2, StartTyped, StartKeeps
  <1>3. ASSUME NEW c \in CallId, Depart(c)
        PROVE  TypeOK' /\ Parts'
    BY <1>1, <1>3, DepartTyped, DepartKeeps
  <1>4. ASSUME NEW c \in CallId, Serve(c)
        PROVE  TypeOK' /\ Parts'
    BY <1>1, <1>4, ServeTyped, ServeKeeps
  <1>5. ASSUME NEW c \in CallId, Arrive(c) \/ LoseCall(c)
        PROVE  TypeOK' /\ Parts'
    <2>1. TypeOK'
      BY <1>1, <1>5, ArriveTyped
    <2>2. Parts'
      BY <1>1, <1>5, CallDoneKeeps, LogoutDoneKeeps, RetryKeeps, GiveUpKeeps,
         LoseCallKeeps DEF Arrive
    <2>. QED  BY <2>1, <2>2
  <1>6. ASSUME NEW r \in Requester, ServeRefresh(r)
        PROVE  TypeOK' /\ Parts'
    BY <1>1, <1>6, ServeRefreshTyped, ServeRefreshKeeps
  <1>7. ASSUME NEW t \in Tab, RefreshArrives(t) \/ LoseRefresh(t) \/ Hear(t)
        PROVE  TypeOK' /\ Parts'
    BY <1>1, <1>7, RefreshArrivesTyped, RefreshArrivesKeeps, LostTyped,
       LoseRefreshKeeps, HearTyped, HearKeeps
  <1>8. ASSUME NEW s \in Sid, EndSession(s)
        PROVE  TypeOK' /\ Parts'
    BY <1>1, <1>8, EndSessionTyped, EndSessionKeeps
  <1>9. ASSUME NEW s \in Sid, NEW g \in 0..2 * MaxCalls, Expire([sid |-> s, gen |-> g])
        PROVE  TypeOK' /\ Parts'
    <2>1. [sid |-> s, gen |-> g] \in Token
      BY ClientAssumption, TokenTyped
    <2>. QED  BY <1>1, <1>9, <2>1, ExpireTyped, ExpireKeeps
  <1>10. CASE UNCHANGED vars
    <2>1. UNCHANGED <<status, generation, served, cookie, expired, token, inbox, call,
                      request, started, reused, excused, gone>>
      BY <1>10 DEF vars, server
    <2>2. TypeOK'
      BY <1>1, <2>1 DEF TypeOK
    <2>3. PointWire'
      BY <1>1, <2>1, AnswerKeeps DEF Parts, Ending
    <2>4. Calls'
      BY <1>1, <2>1, ServeCalls DEF Parts, Ending
    <2>. QED  BY <1>1, <2>1, <2>2, <2>3, <2>4 DEF Parts, ReuseOnlyOverlapped
  <1>. QED  BY <1>2, <1>3, <1>4, <1>5, <1>6, <1>7, <1>8, <1>9, <1>10 DEF Next

-----------------------------------------------------------------------------
(* Calls advance.                                                          *)
LEMMA MovesOf ==
    ASSUME NEW x \in CallState
    PROVE  /\ x.at = "idle" => MovesLeft(x) = 0
           /\ x.at = "sent" => MovesLeft(x) = IF x.try = 2 THEN 1 ELSE 4
           /\ x.at = "ready" => MovesLeft(x) = IF x.try = 2 THEN 2 ELSE 5
           /\ x.at = "retry" => MovesLeft(x) = 3
           /\ x.at = "header" => MovesLeft(x) = 6
           /\ x.at # "idle" => MovesLeft(x) \in 1..6
  <1>1. /\ x.try = 1 \/ x.try = 2
        /\ x.at \in {"idle", "header", "ready", "sent", "retry"}
    BY CallFields
  <1>. QED  BY <1>1 DEF MovesLeft

LEMMA NoMovesLeft == NoCall.at = "idle" /\ MovesLeft(NoCall) = 0
  BY CallParts, NoCallTyped, MovesOf DEF NoCall

(* Only a call that was sent is answered.                                  *)
LEMMA AnsweredSent ==
    ASSUME Quiet, NEW c \in CallId, request[c].at # "none"
    PROVE  call[c].at = "sent"
  BY DEF Quiet, NoRequest

(* One call is ended, and no other is touched.                             *)
LEMMA EndAdvances ==
    ASSUME TypeOK, NEW c \in CallId, call' = [call EXCEPT ![c] = NoCall],
           NEW x \in CallId, call[x].at # "idle", call'[x] # call[x]
    PROVE  MovesLeft(call'[x]) < MovesLeft(call[x])
  <1>1. call[x] \in CallState /\ call'[x] = NoCall
    BY DEF TypeOK
  <1>. QED  BY <1>1, NoMovesLeft, MovesOf

LEMMA DepartAdvances ==
    ASSUME TypeOK, NEW c \in CallId, Depart(c),
           NEW x \in CallId, call'[x] # call[x]
    PROVE  MovesLeft(call'[x]) < MovesLeft(call[x])
  <1>1. call[x] \in CallState /\ x = c
    BY DEF TypeOK, Depart
  <1>2. call'[x] = CallAt(call[x].kind, "sent", call[x].try, call[x].auth)
    BY <1>1 DEF TypeOK, Depart
  <1>3. /\ call'[x] \in CallState /\ call'[x].at = "sent"
        /\ call'[x].try = call[x].try /\ call[x].at = "ready"
    BY <1>1, <1>2, CallFields, CallParts, CallTyped DEF Depart
  <1>. QED  BY <1>1, <1>3, MovesOf

LEMMA RefreshEndsAdvances ==
    ASSUME TypeOK, NEW t \in Tab, RefreshArrives(t) \/ LoseRefresh(t),
           NEW x \in CallId, call'[x] # call[x]
    PROVE  MovesLeft(call'[x]) < MovesLeft(call[x])
  <1>. DEFINE k == request[t].answer
  <1>1. call[x] \in CallState /\ k \in Maybe /\ x \in Waiting(t)
    BY Callers, RequestFields DEF TypeOK, RefreshArrives, LoseRefresh
  <1>2. call[x].at \in {"header", "retry"}
    BY <1>1 DEF Waiting
  <1>3. CASE call'[x] = NoCall
    BY <1>1, <1>2, <1>3, NoMovesLeft, MovesOf
  <1>4. CASE call'[x] = Resume(x, k) /\ Resume(x, k) # NoCall
    <2>1. /\ call'[x] \in CallState /\ call'[x].at = "ready"
          /\ call[x].at = "header" => call'[x].try = 1
          /\ call[x].at = "retry" => call'[x].try = 2
      BY <1>1, <1>2, <1>4, ResumeTyped, CallParts DEF Resume
    <2>. QED  BY <1>1, <1>2, <2>1, MovesOf
  <1>. QED  BY <1>1, <1>3, <1>4 DEF RefreshArrives, LoseRefresh

LEMMA RetryAdvances ==
    ASSUME TypeOK, Quiet, NEW c \in CallId, RetryAfter401(c),
           NEW x \in CallId, call'[x] # call[x]
    PROVE  MovesLeft(call'[x]) < MovesLeft(call[x])
  <1>1. call[x] \in CallState /\ x = c
    BY DEF TypeOK, RetryAfter401
  <1>2. call[x].at = "sent" /\ call[x].try = 1
    BY <1>1, AnsweredSent DEF RetryAfter401, Denied
  <1>3. call'[x] = CallAt(call[x].kind, "retry", 1, None)
    BY <1>1 DEF TypeOK, RetryAfter401
  <1>4. call'[x] \in CallState /\ call'[x].at = "retry"
    BY <1>1, <1>3, CallFields, CallParts, CallTyped DEF Maybe
  <1>. QED  BY <1>1, <1>2, <1>4, MovesOf

LEMMA StepAdvances ==
    ASSUME IInv, [Next]_vars, NEW x \in CallId, call[x].at # "idle", call'[x] # call[x]
    PROVE  MovesLeft(call'[x]) < MovesLeft(call[x])
  <1>1. TypeOK /\ Quiet
    BY DEF IInv
  <1>2. ASSUME NEW c \in CallId, NEW k \in Kind, Start(c, k)
        PROVE  FALSE
    BY <1>1, <1>2, NoMovesLeft DEF Start, TypeOK
  <1>3. ASSUME NEW c \in CallId, Depart(c) \/ Serve(c) \/ Arrive(c) \/ LoseCall(c)
        PROVE  MovesLeft(call'[x]) < MovesLeft(call[x])
    <2>1. ~Serve(c)
      BY DEF Serve, ServeLogin, ServeLogout, ServeApi, Refuse, Unserved
    <2>2. CASE Arrive(c)
      BY <1>1, <2>2, EndAdvances, RetryAdvances
         DEF Arrive, CallDone, LogoutDone, GiveUp, End
    <2>3. CASE LoseCall(c)
      BY <1>1, <2>3, EndAdvances DEF LoseCall
    <2>. QED  BY <1>1, <1>3, <2>1, <2>2, <2>3, DepartAdvances
  <1>4. ASSUME NEW r \in Requester, ServeRefresh(r)
        PROVE  FALSE
    BY <1>4 DEF ServeRefresh, Unserved
  <1>5. ASSUME NEW t \in Tab, RefreshArrives(t) \/ LoseRefresh(t) \/ Hear(t)
        PROVE  MovesLeft(call'[x]) < MovesLeft(call[x])
    BY <1>1, <1>5, RefreshEndsAdvances DEF Hear
  <1>6. ASSUME NEW s \in Sid, EndSession(s)
        PROVE  FALSE
    BY <1>6 DEF EndSession, Unserved
  <1>7. ASSUME NEW k, Expire(k)
        PROVE  FALSE
    BY <1>7 DEF Expire
  <1>8. call' # call => ~UNCHANGED vars
    BY DEF vars
  <1>. QED  BY <1>2, <1>3, <1>4, <1>5, <1>6, <1>7, <1>8 DEF Next

-----------------------------------------------------------------------------
(* The server of the browsers takes the steps of a token family.           *)
LEMMA CloseFamily ==
    ASSUME NEW S \in SUBSET Sid, Close(S)
    PROVE  Family!FamilyNext \/ UNCHANGED Family!familyVars
  <1>. DEFINE live == {s \in S : status[s] = "live"}
  <1>1. live \in SUBSET Sid
    OBVIOUS
  <1>2. Family!Close(live) \/ UNCHANGED server
    BY DEF Close
  <1>. QED  BY <1>1, <1>2 DEF Family!FamilyNext, Family!familyVars, server

LEMMA FamilyStep ==
    ASSUME IInv, [Next]_vars
    PROVE  Family!FamilyNext \/ UNCHANGED Family!familyVars
  <1>1. TypeOK
    BY DEF IInv
  <1>. USE DEF Family!familyVars
  <1>2. ASSUME NEW c \in CallId, Serve(c)
        PROVE  Family!FamilyNext \/ UNCHANGED Family!familyVars
    <2>1. CASE ServeLogin(c)
      BY <2>1 DEF ServeLogin, Family!FamilyNext
    <2>2. CASE ServeLogout(c)
      <3>1. call[c].auth \in Token
        BY <1>1, <2>2, CallFields DEF TypeOK, ServeLogout, Authentic, Maybe
      <3>2. {call[c].auth.sid} \in SUBSET Sid /\ Sid \in SUBSET Sid
        BY <3>1, TokenFields
      <3>3. Close({call[c].auth.sid}) \/ Close(Sid)
        BY <2>2 DEF ServeLogout
      <3>. QED  BY <3>2, <3>3, CloseFamily
    <2>3. CASE ServeApi(c) \/ Refuse(c)
      BY <2>3 DEF ServeApi, Refuse, server
    <2>. QED  BY <1>2, <2>1, <2>2, <2>3 DEF Serve
  <1>3. ASSUME NEW r \in Requester, ServeRefresh(r)
        PROVE  Family!FamilyNext \/ UNCHANGED Family!familyVars
    <2>. DEFINE k == request[r].cookie
    <2>1. CASE k \in Token /\ (Family!Redeem(k.sid) \/ Family!Close({k.sid}))
      <3>1. k.sid \in Sid /\ {k.sid} \in SUBSET Sid
        BY <2>1, TokenFields
      <3>. QED  BY <2>1, <3>1 DEF Family!FamilyNext
    <2>2. CASE UNCHANGED server
      BY <2>2 DEF server
    <2>. QED  BY <1>3, <2>1, <2>2 DEF ServeRefresh
  <1>4. ASSUME NEW s \in Sid, EndSession(s)
        PROVE  Family!FamilyNext \/ UNCHANGED Family!familyVars
    <2>1. {s} \in SUBSET Sid
      OBVIOUS
    <2>. QED  BY <1>4, <2>1 DEF EndSession, Family!FamilyNext
  <1>5. ASSUME NEW c \in CallId, Depart(c) \/ Arrive(c) \/ LoseCall(c)
        PROVE  UNCHANGED server
    BY <1>5 DEF Depart, Arrive, CallDone, LogoutDone, RetryAfter401, GiveUp,
                Settled, LoseCall
  <1>6. ASSUME NEW t \in Tab, RefreshArrives(t) \/ LoseRefresh(t) \/ Hear(t)
        PROVE  UNCHANGED server
    BY <1>6 DEF RefreshArrives, LoseRefresh, Hear
  <1>7. \A c \in CallId, k \in Kind : Start(c, k) => UNCHANGED server
    BY DEF Start
  <1>8. \A k : Expire(k) => UNCHANGED server
    BY DEF Expire
  <1>9. UNCHANGED vars => UNCHANGED server
    BY DEF vars
  <1>. QED  BY <1>2, <1>3, <1>4, <1>5, <1>6, <1>7, <1>8, <1>9 DEF Next, server

-----------------------------------------------------------------------------
(* The theorems.                                                           *)

(* The inductive invariant.  Of a session that is not excused at most one  *)
(* refresh is under way, and what the browser presents, or is to store, is *)
(* the token the server would redeem: performRefresh and the cookie the    *)
(* browser attaches, whatever the number of tabs.                          *)
THEOREM InductiveInvariant == Spec => []IInv
  <1>1. Init => IInv
    BY InvariantInit
  <1>2. IInv /\ [Next]_vars => IInv'
    BY InvariantStep
  <1>. QED  BY <1>1, <1>2, PTL DEF Spec

(* Reuse is detected only on a session two refreshes of which were on the  *)
(* wire at once or an answer to which was lost: one tab and a network that *)
(* delivers are never taken for a thief (refresh.ts, rotate).              *)
THEOREM ReuseOnlyOverlappedHolds == Spec => []ReuseOnlyOverlapped
  <1>1. IInv => ReuseOnlyOverlapped
    BY DEF IInv
  <1>. QED  BY <1>1, InductiveInvariant, PTL

(* A tab that holds a token of a session whose logout was announced has    *)
(* the announcement still to hear (clear, channel.onmessage).              *)
THEOREM TabsForgetHolds == Spec => []TabsForget
  <1>1. IInv => TabsForget
    BY DEF IInv
  <1>. QED  BY <1>1, InductiveInvariant, PTL

(* A call that waits for a refresh waits for one that its tab has under    *)
(* way, and one that was sent has its request or its answer on the wire:   *)
(* the promise the callers share is cleared only when it has settled, and  *)
(* settling it lets all of them go (refresh.ts inFlightRefresh).           *)
THEOREM NobodyWaitsInVainHolds == Spec => []NobodyWaitsInVain
  <1>1. IInv => NobodyWaitsInVain
    BY DEF IInv
  <1>. QED  BY <1>1, InductiveInvariant, PTL

(* Whatever happens to a call takes it closer to its end: it is given a    *)
(* header once, sent, and after a 401 refreshed for and sent once more     *)
(* (withAuthRetry.ts), so that no call goes round for ever.                *)
THEOREM CallsAdvanceHolds == Spec => CallsAdvance
  <1>1. IInv /\ [Next]_vars
          => [\A c \in CallId :
                 (call[c].at # "idle" /\ call'[c] # call[c])
                    => MovesLeft(call'[c]) < MovesLeft(call[c])]_vars
    BY StepAdvances
  <1>. QED  BY <1>1, InductiveInvariant, PTL DEF Spec, CallsAdvance

(* Whatever the tabs do, their server goes through the steps of a token    *)
(* family and no others: it is the service that Sessions is shown to       *)
(* implement (rotate, revoke, revoke_all as the browser meets them).       *)
THEOREM ImplementsFamilyHolds == Spec => ImplementsFamily
  <1>1. Init => Family!FamilyInit
    BY DEF Init
  <1>2. IInv /\ [Next]_vars => [Family!FamilyNext]_(Family!familyVars)
    BY FamilyStep
  <1>. QED  BY <1>1, <1>2, InductiveInvariant, PTL
            DEF Spec, ImplementsFamily, Family!FamilySpec

=============================================================================
